------------------------------ MODULE TpkContainer -----------------------------
(***************************************************************************)
(* crates/tpk-format: the container of a pack.  pack.rs writes it,         *)
(* zip_structure.rs checks its central directory before the zip crate      *)
(* parses it, and container.rs opens, verifies and reads it.               *)
(*                                                                         *)
(* A file is its end record and the entries of its central directory:      *)
(*   comment  whether the end record carries one                           *)
(*   exact    the end record ends the file, and the directory it points    *)
(*            at, on one disk, ends where the record starts; it is no      *)
(*            longer than MAX_DIRECTORY_BYTES, which is twice what the     *)
(*            names of MAX_CONTAINER_ENTRIES blobs take                    *)
(*   count    the number of entries it declares                            *)
(*   members  the entries: a name, an alias that another name is given by  *)
(*            a Unicode Path field, and the bytes                          *)
(*   broken   whether the zip crate gives up on that directory             *)
(*   older    the members of an earlier directory it would then find       *)
(* Signatures are shorter than MAX_SIGNATURE_BYTES: minisign's are a few   *)
(* hundred bytes.                                                          *)
(***************************************************************************)
EXTENDS TpkManifest

CONSTANTS
    Contents,          \* what files hold
    Size,              \* the length of each content
    ZstdSize,          \* and that of its compression
    Streams,           \* the pairs <<old, new>> with a patch
    StreamSize,        \* the length of a patch
    ZstdStreamSize,    \* and that of its compression
    MinCompressBytes,  \* MIN_COMPRESS_BYTES
    Expansion, Slack,  \* max_patch_len
    MaxEntries,        \* MAX_CONTAINER_ENTRIES
    ManifestSize(_),   \* the length of a manifest
    MaxManifestBytes,  \* MAX_MANIFEST_BYTES
    ManifestName,      \* "tpk-manifest.json"
    SignatureName,     \* "tpk-manifest.json.minisig"
    OtherName          \* any name that is neither one of these nor a blob's

ASSUME ContainerAssumption ==
    /\ {Size, ZstdSize} \subseteq [Contents -> Nat]
    /\ {StreamSize, ZstdStreamSize} \subseteq [Streams -> Nat]
    /\ {MinCompressBytes, Expansion, Slack, MaxEntries, MaxManifestBytes} \subseteq Nat

\* What blobs hold; a patch is always compressed.
Plain(c) == [codec |-> "identity", of |-> c]
Zstd(c) == [codec |-> "zstd", of |-> c]
Patch(old, new) == [codec |-> "zstd+bsdiff", of |-> <<old, new>>]

Length(bytes) == CASE bytes.codec = "identity" -> Size[bytes.of]
                   [] bytes.codec = "zstd" -> ZstdSize[bytes.of]
                   [] bytes.codec = "zstd+bsdiff" -> ZstdStreamSize[bytes.of]

\* The length of what a frame decodes to.
DecodedLength(bytes) ==
    IF bytes.codec = "zstd" THEN Size[bytes.of] ELSE StreamSize[bytes.of]

-----------------------------------------------------------------------------
(***************************************************************************)
(* pack.rs                                                                 *)
(***************************************************************************)
\* Mutant: compressed files are described as plain ones.
EncodedPlainly(c) ==
    IF Size[c] >= MinCompressBytes /\ ZstdSize[c] < Size[c]
    THEN [bytes |-> Zstd(c), encoding |-> "identity"]
    ELSE [bytes |-> Plain(c), encoding |-> "identity"]

\* Compression that does not pay is left out.
Encoded(c) ==
    IF Size[c] >= MinCompressBytes /\ ZstdSize[c] < Size[c]
    THEN [bytes |-> Zstd(c), encoding |-> "zstd"]
    ELSE [bytes |-> Plain(c), encoding |-> "identity"]

Described(path, op, content, blob, base) ==
    [path |-> path, op |-> op, size |-> Size[content], sha256 |-> Plain(content),
     blob |-> BlobName(blob.bytes, blob.encoding), blob_sha256 |-> blob.bytes,
     blob_size |-> Length(blob.bytes), encoding |-> blob.encoding, delta_base_sha256 |-> base]

FullEntry(path, content) == Described(path, "full", content, Encoded(content), None)

DeltaEntry(path, old, new) ==
    Described(path, "delta", new, [bytes |-> Patch(old, new), encoding |-> "zstd+bsdiff"], Plain(old))

Member(name, bytes) == [name |-> name, alias |-> name, bytes |-> bytes]

IsBlob(name) == name \notin {ManifestName, SignatureName, OtherName}

Signature(key, bytes) == [by |-> key, over |-> bytes]

\* The blobs of a manifest; entries with the same bytes share one.
Blobs(manifest) ==
    {<<manifest.entries[i].blob, manifest.entries[i].blob_sha256>> :
        i \in {j \in DOMAIN manifest.entries : manifest.entries[j].op # "delete"}}

\* The container "build" writes: the manifest, its signature, the blobs.
Container(manifest, key) ==
    LET blobs == SetToSeq(Blobs(manifest))
        members == <<Member(ManifestName, manifest), Member(SignatureName, Signature(key, manifest))>>
                   \o [i \in DOMAIN blobs |-> Member(blobs[i][1], blobs[i][2])]
    IN  [comment |-> FALSE, exact |-> TRUE, count |-> Len(members), members |-> members,
         broken |-> FALSE, older |-> <<>>]

-----------------------------------------------------------------------------
(***************************************************************************)
(* zip_structure.rs                                                        *)
(***************************************************************************)
\* is_allowed_entry_name
Allowed(name) == name \in {ManifestName, SignatureName} \/ IsBlob(name)

\* open, up to the parser.
Sound(file) ==
    /\ ~file.comment /\ file.exact
    /\ file.count = Len(file.members) /\ file.count <= MaxEntries
    /\ \A i \in DOMAIN file.members :
        /\ Allowed(file.members[i].name)
        /\ file.members[i].alias = file.members[i].name
    /\ \A i, j \in DOMAIN file.members :
        file.members[i].name = file.members[j].name => i = j

\* Mutant: the parser may go on to an earlier directory.
ParsedAnywhere(file) == IF file.broken THEN file.older ELSE file.members

\* CheckedReader fails the parser when it leaves the checked end record.
Parsed(file) == IF file.broken THEN <<>> ELSE file.members

\* The crate: aliases replace names, and the last of equal names counts.
Archive(members) ==
    [name \in {members[i].alias : i \in DOMAIN members} |->
        members[Max({i \in DOMAIN members : members[i].alias = name})].bytes]

-----------------------------------------------------------------------------
(***************************************************************************)
(* container.rs.  An archive maps names to bytes.  "Trust" of a device is  *)
(* a set of keys with their epochs.                                        *)
(***************************************************************************)
\* UnverifiedPack::open
Opens(file) ==
    /\ Sound(file)
    /\ Parsed(file) # <<>>
    /\ ManifestName \in DOMAIN Archive(Parsed(file))
    /\ ManifestSize(Archive(Parsed(file))[ManifestName]) <= MaxManifestBytes

\* TrustStore::verify_at_or_above
Vouched(trust, minEpoch, signature, bytes) ==
    \E t \in trust : t.epoch >= minEpoch /\ signature = Signature(t.key, bytes)

Referenced(manifest) == {b[1] : b \in Blobs(manifest)}

\* Every blob is named by an entry, and the other way round.
HoldsExactly(archive, manifest) ==
    {name \in DOMAIN archive : IsBlob(name)} = Referenced(manifest)

\* UnverifiedPack::verify, with the signature in the container.
Verifies(file, trust, minEpoch) ==
    LET archive == Archive(Parsed(file))
        manifest == archive[ManifestName]
    IN  /\ Opens(file)
        /\ SignatureName \in DOMAIN archive
        /\ Vouched(trust, minEpoch, archive[SignatureName], manifest)
        /\ Valid(manifest)
        /\ HoldsExactly(archive, manifest)

Refused == [refused |-> TRUE]

MaxPatchLen(blobSize) == Expansion * blobSize + Slack

\* decode_zstd: at most "limit" bytes of a frame.
Inflated(raw, limit, read) ==
    IF raw.codec # "identity" /\ DecodedLength(raw) <= limit THEN read ELSE Refused

\* Mutant: the raw bytes are not compared with their digest.
ReadUnchecked(archive, entry) ==
    LET raw == archive[entry.blob]
    IN  CASE entry.encoding = "identity" -> IF raw = entry.sha256 THEN raw ELSE Refused
          [] entry.encoding = "zstd" ->
                IF raw.codec = "zstd" /\ Plain(raw.of) = entry.sha256
                THEN Inflated(raw, entry.size, Plain(raw.of)) ELSE Refused
          [] entry.encoding = "zstd+bsdiff" -> Inflated(raw, MaxPatchLen(entry.blob_size), raw)

\* VerifiedPack::read_blob: the content of a full entry, the patch of a delta
\* (which stands for its stream).
ReadBlob(archive, entry) ==
    LET raw == archive[entry.blob]
    IN  IF Length(raw) # entry.blob_size \/ raw # entry.blob_sha256 THEN Refused
        ELSE CASE entry.encoding = "identity" -> IF raw = entry.sha256 THEN raw ELSE Refused
               [] entry.encoding = "zstd" ->
                    IF raw.codec = "zstd" /\ Plain(raw.of) = entry.sha256
                    THEN Inflated(raw, entry.size, Plain(raw.of)) ELSE Refused
               [] entry.encoding = "zstd+bsdiff" -> Inflated(raw, MaxPatchLen(entry.blob_size), raw)
================================================================================
