----------------------------- MODULE TpkDownload -----------------------------
(***************************************************************************)
(* crates/tpk-client/src/download.rs and the download half of              *)
(* crates/tauri-plugin-tpk/src/state.rs: fetching the packs of a plan into *)
(* the cache root, resuming partial files, over a network that cuts, from  *)
(* a server that may answer a range with anything, and into a cache that   *)
(* the operating system may empty at any moment.                           *)
(*                                                                         *)
(* A file is a sequence of blocks; files are equal when their hashes are.  *)
(***************************************************************************)
EXTENDS Integers, Sequences, FiniteSets

CONSTANTS
    Packs,       \* the packs channels advertise, told apart by sha256
    Blocks,      \* the pieces files are made of
    Content,     \* the bytes each pack's sha256 and size stand for
    Sites,       \* the files that may be found at each pack's URL
    NoFile,      \* no such file
    MaxFaults    \* bound on the number of things that go wrong

ASSUME DownloadAssumption ==
    /\ \A p \in Packs : Content[p] \in Seq(Blocks) /\ Content[p] # <<>>
    /\ \A p \in Packs : \A file \in Sites[p] : file \in Seq(Blocks)
    /\ \A p \in Packs : Content[p] \in Sites[p]
    /\ NoFile \notin Seq(Blocks)
    /\ MaxFaults \in Nat

VARIABLES
    parts,    \* <sha256>.part in the cache root
    tpks,     \* <sha256>.tpk in the cache root
    plan,     \* the packs the last check asked for; none once they are staged
    staged,   \* the packs that were handed to the store
    site,     \* what is found at the URL of each pack
    job,      \* the download that runs
    torn,     \* parts appended to after their beginning was purged
    faults    \* how much went wrong so far

downloadVars == <<parts, tpks, plan, staged, site, job, torn, faults>>

Phases == {"idle", "ask", "receive", "finalize", "stage"}
Idle == [phase |-> "idle", index |-> 0, at |-> 0, end |-> 0, body |-> <<>>]
Current == plan[job.index]
Size(p) == Len(Content[p])
LengthOf(file) == IF file = NoFile THEN 0 ELSE Len(file)
PartFile(p) == IF parts[p] = NoFile THEN <<>> ELSE parts[p]

ResumeOffset(p) == IF LengthOf(parts[p]) < Size(p) THEN LengthOf(parts[p]) ELSE Size(p)

Asked == {plan[i] : i \in DOMAIN plan}

\* Packs of this plan that are finished: RemoveOnDrop.
Finished == {plan[i] : i \in 1 .. (job.index - 1)}
Without(map, gone) == [p \in Packs |-> IF p \in gone THEN NoFile ELSE map[p]]

-----------------------------------------------------------------------------
(***************************************************************************)
(* A response: its status, the interval of a file it says it holds, the    *)
(* size of that file, whether its length is announced, and its body.       *)
(***************************************************************************)
Answer(file, status, start, end, announced) ==
    [status |-> status, start |-> start, end |-> end, total |-> Len(file),
     announced |-> announced, body |-> SubSeq(file, start + 1, end)]

\* A server may serve the rest of the file, or ignore the range.
Proper(file, offset) ==
    {Answer(file, 200, 0, Len(file), announced) : announced \in BOOLEAN}
    \cup (IF offset \in 1 .. (Len(file) - 1)
          THEN {Answer(file, 206, offset, Len(file), TRUE)} ELSE {})

\* Other intervals, asked for or not.
Odd(file) ==
    UNION {{Answer(file, 206, start, end, TRUE) : end \in (start + 1) .. Len(file)} :
               start \in 0 .. (Len(file) - 1)}

ResponseBytes(p, r) == IF r.status = 206 THEN r.end - r.start ELSE Size(p)

\* Mutant: any interval will do.
FitsLoosely(p, offset, r) == r.announced => Len(r.body) = ResponseBytes(p, r)

Fits(p, offset, r) ==
    /\ r.status = 206 => r.start = offset /\ r.total = Size(p)
    /\ r.announced => Len(r.body) = ResponseBytes(p, r)

Appends(offset, r) == r.status = 206 /\ offset > 0

-----------------------------------------------------------------------------
\* Where the next pack of the plan starts: at the request, or without one
\* when the part is already complete.
Start(index) ==
    IF index > Len(plan) THEN [Idle EXCEPT !.phase = "stage", !.index = index]
    ELSE LET offset == ResumeOffset(plan[index])
         IN  [Idle EXCEPT !.phase = IF offset < Size(plan[index]) THEN "ask" ELSE "finalize",
                          !.index = index, !.at = offset]

\* However download returns, its finished files go.
Return ==
    /\ job' = Idle
    /\ tpks' = Without(tpks, Finished)

\* Mutant: nothing is pruned.
PrunedNever(map) == map
Pruned(map) == Without(map, Packs \ Asked)

BeginDownload ==
    /\ job.phase = "idle"
    /\ plan # <<>>
    /\ parts' = Pruned(parts)
    /\ tpks' = Pruned(tpks)
    /\ job' = Start(1)
    /\ UNCHANGED <<plan, staged, site, torn, faults>>

(***************************************************************************)
(* Whatever goes wrong is counted.                                         *)
(***************************************************************************)
Counted(n) == faults' = faults + n /\ faults + n <= MaxFaults

\* A response comes; intervals nobody asked for are faults.
Comes(r) ==
    /\ job.phase = "ask"
    /\ \/ r \in Proper(site[Current], job.at) /\ Counted(0)
       \/ r \in Odd(site[Current]) \ Proper(site[Current], job.at) /\ Counted(1)

\* The response is taken: the part is opened, and truncated unless the
\* response goes on where it ended before the request.
Respond(r) ==
    /\ Comes(r)
    /\ Fits(Current, job.at, r)
    /\ LET append == Appends(job.at, r)
           at     == IF append THEN job.at ELSE 0
       IN  /\ parts' = [parts EXCEPT ![Current] = IF append THEN PartFile(Current) ELSE <<>>]
           /\ torn' = IF ~append THEN torn \ {Current}
                      ELSE IF parts[Current] = NoFile THEN torn \cup {Current} ELSE torn
           /\ job' = [job EXCEPT !.phase = "receive", !.at = at, !.body = r.body,
                                 !.end = at + ResponseBytes(Current, r)]
    /\ UNCHANGED <<tpks, plan, staged, site>>

\* The response does not fit, and the part stays as it is.
Refuse(r) ==
    /\ Comes(r)
    /\ ~Fits(Current, job.at, r)
    /\ Return
    /\ UNCHANGED <<parts, plan, staged, site, torn>>

\* A chunk within the declared size.  What is written to a file that was
\* purged meanwhile goes nowhere.
Receive ==
    /\ job.phase = "receive"
    /\ job.body # <<>>
    /\ job.at < job.end
    /\ parts' = IF parts[Current] = NoFile THEN parts
                ELSE [parts EXCEPT ![Current] = Append(@, Head(job.body))]
    /\ job' = [job EXCEPT !.at = @ + 1, !.body = Tail(@)]
    /\ UNCHANGED <<tpks, plan, staged, site, torn, faults>>

\* A chunk beyond it.
Overrun ==
    /\ job.phase = "receive"
    /\ job.body # <<>>
    /\ job.at = job.end
    /\ parts' = Without(parts, {Current})
    /\ Return
    /\ UNCHANGED <<plan, staged, site, torn, faults>>

EndOfBody ==
    /\ job.phase = "receive"
    /\ job.body = <<>>
    /\ job' = [Idle EXCEPT !.phase = "finalize", !.index = job.index]
    /\ UNCHANGED <<parts, tpks, plan, staged, site, torn, faults>>

\* Mutant: the length is compared, the hash is not.
VerifiedByLength(p) == LengthOf(parts[p]) = Size(p)
Verified(p) == parts[p] = Content[p]

Finalize ==
    /\ job.phase = "finalize"
    /\ Verified(Current)
    /\ parts' = Without(parts, {Current})
    /\ tpks' = [tpks EXCEPT ![Current] = parts[Current]]
    /\ job' = Start(job.index + 1)
    /\ UNCHANGED <<plan, staged, site, torn, faults>>

\* A prefix is kept for the next request, the wrong bytes are not.
\* Mutant: they are.
KeptAlways(p) == LengthOf(parts[p]) <= Size(p)
Resumable(p) == LengthOf(parts[p]) < Size(p)

FinalizeFails ==
    /\ job.phase = "finalize"
    /\ ~Verified(Current)
    /\ parts' = IF Resumable(Current) THEN parts ELSE Without(parts, {Current})
    /\ Return
    /\ UNCHANGED <<plan, staged, site, torn, faults>>

\* The files are read back and staged, which leaves nothing to fetch.
AllThere == \A p \in Asked : tpks[p] # NoFile

Stage ==
    /\ job.phase = "stage"
    /\ AllThere
    /\ Return
    /\ plan' = <<>>
    /\ staged' = staged \cup Asked
    /\ UNCHANGED <<parts, site, torn, faults>>

\* A file is gone, or the store refuses.
StageFails ==
    /\ job.phase = "stage"
    /\ Return
    /\ IF AllThere THEN Counted(1) ELSE Counted(0)
    /\ UNCHANGED <<parts, plan, staged, site, torn>>

-----------------------------------------------------------------------------
\* No answer, one without success, or a connection that is cut.
NetworkFails ==
    /\ job.phase \in {"ask", "receive"}
    /\ Counted(1)
    /\ Return
    /\ UNCHANGED <<parts, plan, staged, site, torn>>

\* The body ends early, and nothing says so.
EndEarly ==
    /\ job.phase = "receive"
    /\ job.body # <<>>
    /\ Counted(1)
    /\ job' = [job EXCEPT !.body = <<>>]
    /\ UNCHANGED <<parts, tpks, plan, staged, site, torn>>

\* The operating system empties a cache.
Purge(p) ==
    /\ Counted(1)
    /\ \/ parts' = Without(parts, {p}) /\ UNCHANGED tpks
       \/ tpks' = Without(tpks, {p}) /\ UNCHANGED parts
    /\ UNCHANGED <<plan, staged, site, job, torn>>

\* The process dies, before or after the staging, and takes with it what
\* was not flushed.  The plan was in memory only.
Crash ==
    /\ Counted(1)
    /\ IF job.phase = "receive" /\ parts[Current] # NoFile
       THEN \E n \in 0 .. Len(parts[Current]) :
               parts' = [parts EXCEPT ![Current] = SubSeq(@, 1, n)]
       ELSE parts' = parts
    /\ \/ UNCHANGED staged
       \/ job.phase = "stage" /\ AllThere /\ staged' = staged \cup Asked
    /\ plan' = <<>>
    /\ job' = Idle
    /\ UNCHANGED <<tpks, site, torn>>

\* Something else, and at last the pack, is put at the URL.
Replace(p) ==
    /\ site' \in {[site EXCEPT ![p] = file] : file \in Sites[p] \ {Content[p]}}
    /\ Counted(1)
    /\ UNCHANGED <<parts, tpks, plan, staged, job, torn>>

Publish(p) ==
    /\ site[p] # Content[p]
    /\ site' = [site EXCEPT ![p] = Content[p]]
    /\ UNCHANGED <<parts, tpks, plan, staged, job, torn, faults>>

-----------------------------------------------------------------------------
DownloadInit ==
    /\ parts = [p \in Packs |-> NoFile]
    /\ tpks = [p \in Packs |-> NoFile]
    /\ plan = <<>>
    /\ staged = {}
    /\ site \in [Packs -> UNION {Sites[p] : p \in Packs}]
    /\ \A p \in Packs : site[p] \in Sites[p]
    /\ job = Idle
    /\ torn = {}
    /\ faults = 0

\* All that the file at the URL may bring.
Answers(p) == Proper(site[p], job.at) \cup Odd(site[p])

Fetch ==
    \/ job.phase = "ask" /\ \E r \in Answers(Current) : Respond(r) \/ Refuse(r)
    \/ Receive \/ Overrun \/ EndOfBody
    \/ Finalize \/ FinalizeFails
    \/ Stage \/ StageFails

\* All that a download may meet.
Surroundings ==
    \/ NetworkFails \/ EndEarly
    \/ \E p \in Packs : Purge(p) \/ Replace(p) \/ Publish(p)

-----------------------------------------------------------------------------
\* Files are sequences of blocks, and what runs is one of the plan's packs.
DownloadTypeOK ==
    /\ parts \in [Packs -> Seq(Blocks) \cup {NoFile}]
    /\ tpks \in [Packs -> Seq(Blocks) \cup {NoFile}]
    /\ plan \in Seq(Packs)
    /\ staged \subseteq Packs
    /\ site \in [Packs -> Seq(Blocks)]
    /\ \A p \in Packs : site[p] \in Sites[p]
    /\ job \in [phase : Phases, index : Nat, at : Nat, end : Nat, body : Seq(Blocks)]
    /\ job.phase \in {"ask", "receive", "finalize"} => job.index \in DOMAIN plan
    /\ job.phase = "stage" => job.index = Len(plan) + 1
    /\ torn \subseteq Packs
    /\ faults \in 0 .. MaxFaults

\* Some file at the URL has each of these blocks where it stands here.
InPlace(p, bytes) ==
    \A i \in DOMAIN bytes : \E file \in Sites[p] : i \in DOMAIN file /\ file[i] = bytes[i]

(***************************************************************************)
(* Whatever answers, in whatever pieces, and however often the download is *)
(* cut and resumed, a part never grows beyond its pack, and every byte in  *)
(* it stands where the server had it: a whole file is never appended to a  *)
(* prefix (download.rs:193 and 228).  The exception is a part that is      *)
(* purged while the request for the rest of it is out: its offset was      *)
(* read before (download.rs:163).                                          *)
(***************************************************************************)
PartsFit ==
    \A p \in Packs : parts[p] # NoFile =>
        /\ Len(parts[p]) <= Size(p)
        /\ p \notin torn => InPlace(p, parts[p])

(***************************************************************************)
(* What is staged is what the manifest listed, although parts are mixed    *)
(* from files that were at the URL at different times, or have lost their  *)
(* beginning (download.rs:76).                                             *)
(***************************************************************************)
FinishedIsAdvertised == \A p \in Packs : tpks[p] \in {NoFile, Content[p]}

(***************************************************************************)
(* A download that ends well leaves nothing behind in the cache root:      *)
(* neither its own files nor those of abandoned plans, of failed attempts  *)
(* or of crashes before it (state.rs:246 and 481).                         *)
(***************************************************************************)
StagingEmptiesTheCache ==
    [][staged' # staged /\ faults' = faults =>
          \A p \in Packs : parts'[p] = NoFile /\ tpks'[p] = NoFile]_downloadVars

=============================================================================
