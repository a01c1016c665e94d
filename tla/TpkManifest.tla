------------------------------ MODULE TpkManifest ------------------------------
(***************************************************************************)
(* crates/tpk-format/src/manifest.rs: what a pack manifest must be, apart  *)
(* from being well-formed JSON.  Field names are the code's.  Bytes stand  *)
(* for their digest, "None" for an absent field, and a path is one of      *)
(* PathOrder, which is in the byte order of the paths.                     *)
(***************************************************************************)
EXTENDS Integers, SequencesExt

CONSTANTS
    PathOrder,  \* the paths PackPath::parse accepts
    None,       \* an absent field
    Kinds       \* the variants of PackKind: "dlc" and "mod" are not in an app-store build

ManifestKinds == {"base", "patch", "dlc", "mod"}

ASSUME ManifestAssumption ==
    /\ PathOrder \in Seq(Range(PathOrder)) /\ IsInjective(PathOrder)
    /\ None \notin Range(PathOrder)
    /\ {"base", "patch"} \subseteq Kinds /\ Kinds \subseteq ManifestKinds

Position(path) == CHOOSE i \in DOMAIN PathOrder : PathOrder[i] = path

-----------------------------------------------------------------------------
Encodings == {"identity", "zstd", "zstd+bsdiff"}
Compressed == {"zstd", "zstd+bsdiff"}

BlobName(bytes, encoding) == [stem |-> bytes, ext |-> IF encoding \in Compressed THEN ".zst" ELSE ""]

Tombstone(path) ==
    [path |-> path, op |-> "delete", size |-> None, sha256 |-> None, blob |-> None,
     blob_sha256 |-> None, blob_size |-> None, encoding |-> None, delta_base_sha256 |-> None]

\* The fields a blob goes with.
Content == {"size", "sha256", "blob", "blob_sha256", "blob_size", "encoding"}

Absent(entry, fields) == \A f \in fields : entry[f] = None
Present(entry, fields) == \A f \in fields : entry[f] # None

\* validate_entry_shape, of an entry that could be parsed: Op and Encoding
\* have no other variants.
Shaped(entry) ==
    IF entry.op = "delete" THEN Absent(entry, Content \cup {"delta_base_sha256"})
    ELSE /\ entry.op \in {"full", "delta"} /\ entry.encoding \in Encodings
         /\ Present(entry, Content)
         /\ entry.op = "delta" <=> entry.delta_base_sha256 # None
         /\ entry.op = "delta" <=> entry.encoding = "zstd+bsdiff"
         /\ entry.blob.stem = entry.blob_sha256

\* validate_entries: sorted, and every path once.
EntriesValid(manifest) ==
    LET es == manifest.entries
    IN  /\ es # <<>>
        /\ \A i, j \in DOMAIN es : i < j => Position(es[i].path) < Position(es[j].path)
        /\ \A i \in DOMAIN es : (es[i].op = "delta" => manifest.kind = "patch") /\ Shaped(es[i])

\* validate_parent: dlc and mod packs may name one.
ParentValid(manifest) ==
    /\ manifest.kind = "base" => manifest.parent = None
    /\ manifest.kind = "patch" => manifest.parent # None
    /\ manifest.parent # None =>
           /\ manifest.parent.id = manifest.id
           /\ manifest.parent.version_code < manifest.version_code

\* validate_policies: the globs are not in use yet.
PoliciesValid(manifest) ==
    /\ manifest.kind = "mod" => ~manifest.policies.trusted
    /\ manifest.policies.globs = "default"

ShellsValid(item) == None \notin {item.min_shell, item.max_shell} => item.min_shell <= item.max_shell

\* PackManifest::parse
Valid(manifest) ==
    /\ manifest.kind \in Kinds
    /\ manifest.spec = "tpk/1"
    /\ manifest.version_code # 0
    /\ manifest.created_at = "rfc3339"
    /\ ShellsValid(manifest)
    /\ ParentValid(manifest)
    /\ PoliciesValid(manifest)
    /\ EntriesValid(manifest)
================================================================================
