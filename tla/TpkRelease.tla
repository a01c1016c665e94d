------------------------------ MODULE TpkRelease -------------------------------
(***************************************************************************)
(* How packs come to be and to be advertised: PackBuilder                  *)
(* (tpk-format/src/pack.rs), "tpk channel" (tpk-cli/src/cmd_channel.rs),   *)
(* and the reading of what arrives (tpk-format/src/container.rs).          *)
(***************************************************************************)
EXTENDS TpkContainer, TpkCalendar

CONSTANTS
    Drafts,         \* what builders are started with
    PublisherKey,   \* the key packs and channels are signed with
    OtherKey,       \* a key devices do not trust
    Trust,          \* TrustStore: the keys of a device, with their epochs
    MinEpoch,       \* the key epoch it asks for
    Rollouts,       \* values of --rollout
    Epochs,         \* values of --key-epoch
    Times,          \* when "tpk channel" is run
    MaxShelf,       \* bound on the packs of a history
    MaxListed       \* bound on the packs given to "tpk channel"

VARIABLES
    draft,      \* the PackBuilder being filled
    shelf,      \* the files built so far
    delivered,  \* what a device was given, and the file it came from
    channel     \* the manifest published last

releaseVars == <<draft, shelf, delivered, channel>>

AllBlobs == {Plain(c) : c \in Contents} \cup {Zstd(c) : c \in Contents}
                \cup {Patch(s[1], s[2]) : s \in Streams}

ASSUME ReleaseAssumption ==
    /\ PublisherKey # OtherKey
    /\ \A t \in Trust : t.key # OtherKey
    /\ \E t \in Trust : t.key = PublisherKey /\ t.epoch >= MinEpoch
    /\ {MaxShelf, MaxListed, MinEpoch} \subseteq Nat
    /\ ManifestName # SignatureName
    /\ \A b \in AllBlobs, encoding \in Encodings : IsBlob(BlobName(b, encoding))
    /\ \A t \in Times : {t.day, t.second} \subseteq Nat /\ t.second < 86400

ManifestOf(file) == file.members[1].bytes

-----------------------------------------------------------------------------
(***************************************************************************)
(* PackBuilder                                                             *)
(***************************************************************************)
Parents == {None} \cup {[id |-> ManifestOf(f).id, version_code |-> ManifestOf(f).version_code,
                         manifest_sha256 |-> ManifestOf(f)] : f \in Range(shelf)}

\* new, and the setters.
StartPack ==
    /\ draft = None /\ delivered = None /\ channel = None
    /\ Len(shelf) < MaxShelf
    /\ \E d \in Drafts, parent \in Parents :
        draft' = [kind |-> d.kind, id |-> d.id, version_code |-> d.version_code,
                  min_shell |-> d.min_shell, max_shell |-> d.max_shell,
                  created_at |-> d.created_at, parent |-> parent, entries |-> <<>>]
    /\ UNCHANGED <<shelf, delivered, channel>>

\* The entries of a builder are in the order of their paths.
Placed(entries, entry) ==
    LET before == {i \in DOMAIN entries : Position(entries[i].path) < Position(entry.path)}
    IN  InsertAt(entries, Cardinality(before) + 1, entry)

\* insert, after PackPath::parse.  A path that is there already is an error,
\* which "tpk pack" gives up at.
Insert(entry) ==
    /\ draft # None
    /\ draft' = IF \E i \in DOMAIN draft.entries : draft.entries[i].path = entry.path
                THEN None
                ELSE [draft EXCEPT !.entries = Placed(@, entry)]
    /\ UNCHANGED <<shelf, delivered, channel>>

AddFull == \E path \in Range(PathOrder), c \in Contents : Insert(FullEntry(path, c))
AddDelta == \E path \in Range(PathOrder), s \in Streams : Insert(DeltaEntry(path, s[1], s[2]))
AddDelete == \E path \in Range(PathOrder) : Insert(Tombstone(path))

\* The manifest a builder makes.
Manifest(d) ==
    [spec |-> "tpk/1", kind |-> d.kind, id |-> d.id, version_code |-> d.version_code,
     min_shell |-> d.min_shell, max_shell |-> d.max_shell, parent |-> d.parent,
     created_at |-> d.created_at,
     policies |-> [globs |-> "default", trusted |-> d.kind # "mod"],
     entries |-> d.entries]

\* build: nothing is written unless the manifest parses.
Build ==
    /\ draft # None
    /\ draft' = None
    /\ shelf' = IF Valid(Manifest(draft))
                THEN Append(shelf, Container(Manifest(draft), PublisherKey)) ELSE shelf
    /\ UNCHANGED <<delivered, channel>>

-----------------------------------------------------------------------------
(***************************************************************************)
(* "tpk channel"                                                           *)
(***************************************************************************)
\* A file's advertisement, its digest and size being the file.
Advertised(file) ==
    LET m == ManifestOf(file)
    IN  [id |-> m.id, kind |-> m.kind, version_code |-> m.version_code,
         parent_version_code |-> IF m.kind = "patch" THEN m.parent.version_code ELSE None,
         file |-> file, optional |-> m.kind = "dlc", rollout |-> 100,
         min_shell |-> m.min_shell, max_shell |-> m.max_shell]

\* --rollout is for the newest of each id.
Gated(refs, rollout) ==
    [i \in DOMAIN refs |->
        IF \A r \in Range(refs) : r.id = refs[i].id => r.version_code <= refs[i].version_code
        THEN [refs[i] EXCEPT !.rollout = rollout] ELSE refs[i]]

\* ChannelManifest::validate
ChannelValid(manifest) ==
    LET refs == manifest.packs
    IN  /\ manifest.key_epoch # 0
        /\ \A i \in DOMAIN refs :
            /\ refs[i].version_code # 0
            /\ refs[i].rollout \in 1 .. 100
            /\ refs[i].kind = "patch" <=> refs[i].parent_version_code # None
            /\ refs[i].kind = "patch" => refs[i].parent_version_code < refs[i].version_code
            /\ ShellsValid(refs[i])
        /\ \A i, j \in DOMAIN refs :
            refs[i].id = refs[j].id /\ refs[i].version_code = refs[j].version_code => i = j

\* The lowest shell a channel asks for, when --min-shell is not given.
HighestMinShell(refs) ==
    LET given == {r.min_shell : r \in Range(refs)} \ {None}
    IN  IF given = {} THEN None ELSE Max(given)

\* Bound: clocks do not go back between two runs.
NotEarlier(t, u) == t.day < u.day \/ (t.day = u.day /\ t.second <= u.second)

\* run: what would not parse is not written.
Publish ==
    /\ draft = None /\ delivered = None
    /\ \E files \in BoundedSeq(DOMAIN shelf, MaxListed) \ {<<>>}, rollout \in Rollouts,
          epoch \in Epochs, time \in Times :
        LET packs == Gated([i \in DOMAIN files |-> Advertised(shelf[files[i]])], rollout)
            manifest == [packs |-> packs, key_epoch |-> epoch, min_shell |-> HighestMinShell(packs),
                         watermark |-> Watermark(time),
                         published_at |-> Timestamp(Watermark(time))]
        IN  /\ channel # None => NotEarlier(channel.at, time)
            /\ rollout \in 1 .. 100
            /\ ChannelValid(manifest)
            /\ channel' = [signed |-> manifest, at |-> time]
    /\ UNCHANGED <<draft, shelf, delivered>>

-----------------------------------------------------------------------------
(***************************************************************************)
(* What a device may be given: a file as it was built, one that was        *)
(* damaged or put together otherwise, and one that another tool built and  *)
(* the publisher signed.                                                   *)
(***************************************************************************)
WithMembers(file, members) == [file EXCEPT !.members = members, !.count = Len(members)]

\* Other bytes under the name of a blob, or under one more name.
OtherBytes(file) ==
    LET ms == file.members
    IN  {WithMembers(file, [ms EXCEPT ![i].bytes = b]) : i \in 3 .. Len(ms), b \in AllBlobs}
        \cup {WithMembers(file, Append(ms, Member(ms[i].name, b))) : i \in 3 .. Len(ms), b \in AllBlobs}
        \cup {WithMembers(file, Append(ms, Member(BlobName(b, "zstd"), b))) : b \in AllBlobs}
        \cup {WithMembers(file, Append(ms, Member(OtherName, b))) : b \in AllBlobs}

\* A directory the zip crate gives up on, after that of another file.
Prefixed(file, other) == [file EXCEPT !.broken = TRUE, !.older = other.members]

\* Each one renamed to the other.
Swapped(ms, i, j) == [ms EXCEPT ![i].alias = ms[j].name, ![j].alias = ms[i].name]

OtherDirectory(file) ==
    LET ms == file.members
    IN  {[file EXCEPT !.comment = TRUE], [file EXCEPT !.exact = FALSE], [file EXCEPT !.count = @ + 1]}
        \cup {WithMembers(file, RemoveAt(ms, i)) : i \in DOMAIN ms}
        \cup {WithMembers(file, Swapped(ms, i, j)) : i, j \in DOMAIN ms}
        \cup {Prefixed(file, other) : other \in Range(shelf)}

Resigned(file, manifest, key) ==
    WithMembers(file, [file.members EXCEPT ![1].bytes = manifest,
                                           ![2].bytes = Signature(key, manifest)])

\* Manifests with one thing changed.
Edited(manifest) ==
    LET es == manifest.entries
        Entry(i, e) == [manifest EXCEPT !.entries[i] = e]
    IN  {[manifest EXCEPT !.kind = k] : k \in Kinds}
        \cup {[manifest EXCEPT !.version_code = v] : v \in 0 .. manifest.version_code}
        \cup {[manifest EXCEPT !.spec = "tpk/2"], [manifest EXCEPT !.parent = None],
              [manifest EXCEPT !.policies.globs = "other"],
              [manifest EXCEPT !.policies.trusted = ~@],
              [manifest EXCEPT !.entries = Reverse(@)],
              [manifest EXCEPT !.entries = @ \o @]}
        \cup UNION {{Entry(i, [es[i] EXCEPT !.op = op]) : op \in {"full", "delta", "delete"}}
                     \cup {Entry(i, [es[i] EXCEPT !.encoding = e]) : e \in {"identity", "zstd", None}}
                     \cup {Entry(i, [es[i] EXCEPT !.size = None]),
                           Entry(i, [es[i] EXCEPT !.delta_base_sha256 = None]),
                           Entry(i, [es[i] EXCEPT !.blob = None]),
                           Entry(i, [es[i] EXCEPT !.path = es[1].path])} : i \in DOMAIN es}

OtherManifest(file) ==
    {Resigned(file, ManifestOf(file), OtherKey)}
        \cup {Resigned(file, ManifestOf(other), PublisherKey) : other \in Range(shelf)}
        \cup {[file EXCEPT !.members[2].bytes = Signature(PublisherKey, ManifestOf(other))] :
                  other \in Range(shelf)}
        \cup {Resigned(file, m, PublisherKey) : m \in Edited(ManifestOf(file))}

\* Bound: what devices are given does not depend on the channel.
Deliver ==
    /\ draft = None /\ delivered = None /\ channel = None
    /\ \E file \in Range(shelf) :
        \E given \in {file} \cup OtherBytes(file) \cup OtherDirectory(file) \cup OtherManifest(file) :
            delivered' = given
    /\ UNCHANGED <<draft, shelf, channel>>

Discard ==
    /\ delivered # None
    /\ delivered' = None
    /\ UNCHANGED <<draft, shelf, channel>>

-----------------------------------------------------------------------------
ReleaseInit == draft = None /\ shelf = <<>> /\ delivered = None /\ channel = None

ReleaseNext ==
    \/ StartPack \/ AddFull \/ AddDelta \/ AddDelete \/ Build
    \/ Publish
    \/ Deliver \/ Discard

ReleaseSpec == ReleaseInit /\ [][ReleaseNext]_releaseVars

-----------------------------------------------------------------------------
Accepted(file) == Verifies(file, Trust, MinEpoch)

ArchiveOf(file) == Archive(Parsed(file))

Meant(entry) == IF entry.op = "full" THEN entry.sha256 ELSE entry.blob_sha256

WithContent(manifest) ==
    {manifest.entries[i] : i \in {j \in DOMAIN manifest.entries : manifest.entries[j].op # "delete"}}

\* What a container has room for.  "build" measures neither, although it says
\* that "a pack that the runtime would reject must fail here" (pack.rs:290).
Fits(file) ==
    Len(file.members) <= MaxEntries /\ ManifestSize(ManifestOf(file)) <= MaxManifestBytes

\* What "build" writes within the limits of a container's members and of its
\* manifest, any device that trusts the key opens, verifies, and reads every
\* whole file of as it was added.
BuiltPacksOpen ==
    \A file \in {f \in Range(shelf) : Fits(f)} :
        /\ Accepted(file)
        /\ \A e \in WithContent(ManifestOf(file)) :
            e.op = "full" => ReadBlob(ArchiveOf(file), e) = Meant(e)

\* And so it reads every patch: what "build" says of a pack the runtime
\* would reject.
BuiltPatchesRead ==
    \A file \in Range(shelf) : \A e \in WithContent(ManifestOf(file)) :
        ReadBlob(ArchiveOf(file), e) = Meant(e)

\* Whatever happened to a file, what is read from it once its manifest
\* verified is what the manifest's author named, or nothing.
ReadsAsSigned ==
    delivered # None /\ Accepted(delivered) =>
        \A e \in WithContent(ArchiveOf(delivered)[ManifestName]) :
            ReadBlob(ArchiveOf(delivered), e) \in {Meant(e), Refused}

\* No member of an accepted container is one its manifest does not account
\* for, nothing follows or comments its end record, and what the zip crate
\* hands out is the directory that was checked.  (Comments of members, extra
\* fields but the Unicode Path and gaps between members are not modelled.)
NothingUnaccountedFor ==
    delivered # None /\ Accepted(delivered) =>
        /\ delivered.exact /\ ~delivered.comment
        /\ {m.name : m \in Range(delivered.members)} =
               {ManifestName, SignatureName} \cup Referenced(ArchiveOf(delivered)[ManifestName])
        /\ \A m \in Range(delivered.members) : ArchiveOf(delivered)[m.name] = m.bytes

\* The time a channel says it was published at is the minute it was.
PublishedWhenItWas == channel # None => Names(channel.signed.published_at, channel.at)
================================================================================
