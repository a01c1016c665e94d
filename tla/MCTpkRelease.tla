----------------------------- MODULE MCTpkRelease ------------------------------
(***************************************************************************)
(* Instances of TpkRelease for TLC.                                        *)
(***************************************************************************)
EXTENDS TpkRelease

CONSTANTS small, large, huge, touched, page1, page2

MCPaths == <<page1, page2>>

\* Below the limit of compression, above it, and a file of two MiB before and
\* after a small change.
MCSize ==
    [c \in Contents |-> CASE c = small -> 100 [] c = large -> 300000 [] c \in {huge, touched} -> 2097152]
MCZstdSize ==
    [c \in Contents |-> CASE c = small -> 90 [] c = large -> 90000 [] c \in {huge, touched} -> 700000]

\* A patch is about as long as the file it makes; where little changed it is
\* nearly all zeros.
MCStreams == {<<small, large>>}
MCStreamsOfTouched == {<<huge, touched>>}
MCStreamSize == [s \in Streams |-> Size[s[2]] + 100]
MCZstdStreamSize == [s \in Streams |-> IF s[2] = large THEN 60000 ELSE 900]

\* As JSON: the head of a manifest, and its entries, which are of three shapes.
EntrySize(e) == CASE e.op = "delete" -> 60 [] e.op = "full" -> 350 [] e.op = "delta" -> 430
MCManifestSize(m) == FoldSeq(LAMBDA e, n : EntrySize(e) + n, 400, m.entries)

Shell(d, low, high) == [d EXCEPT !.min_shell = low, !.max_shell = high]

Pack(kind, code) ==
    [kind |-> kind, id |-> "core", version_code |-> code, min_shell |-> None, max_shell |-> None,
     created_at |-> "rfc3339"]

\* Packs that can be built, and some that cannot.
MCDrafts ==
    {Shell(Pack("base", 1), 1, None), Shell(Pack("patch", 2), 2, 3), [Pack("dlc", 1) EXCEPT !.id = "extra"],
     Shell(Pack("base", 2), 2, 1), [Pack("base", 0) EXCEPT !.created_at = "other"]}
MCChain == {Pack("base", 1), Pack("patch", 2)}

MCTrust == {[key |-> PublisherKey, epoch |-> 2]}

Time(day, second) == [day |-> day, second |-> second]

\* The ends of 1970, of February 2000 and 2100, and of 29 February 2024.
MCTimes ==
    {Time(364, 86399), Time(365, 0), Time(11015, 61), Time(11016, 0), Time(19782, 86340),
     Time(47540, 3661), Time(47541, 0)}
================================================================================
