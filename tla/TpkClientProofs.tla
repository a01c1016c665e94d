--------------------------- MODULE TpkClientProofs ---------------------------
(***************************************************************************)
(* Proofs about TpkClient for every channel, set of packs, set of files at *)
(* the URLs and pattern of cuts, purges, mistakes and crashes.             *)
(***************************************************************************)
EXTENDS TpkClient, FiniteSetTheorems, TLAPS

-----------------------------------------------------------------------------
(***************************************************************************)
(* The channel.  What is at the two URLs, and in the hands of a check, is  *)
(* published or a mistake, and nothing published is above the newest.      *)
(***************************************************************************)
Known == released \cup Mistakes
Signatures == {Signature(d) : d \in Known}

UrlsKnown == body \in Known \cup {NoDoc} /\ sig \in Signatures \cup {NoDoc}

CallKnown ==
    /\ call.phase \in {"signature", "verify"} => call.body \in Known
    /\ call.phase = "verify" => call.sig \in Signatures

NewestHighest ==
    /\ newest = NoDoc => released = {}
    /\ newest # NoDoc => newest \in released
    /\ \A d \in released : d.watermark <= newest.watermark /\ d.epoch <= newest.epoch

ChannelInv ==
    /\ ChannelTypeOK
    /\ UrlsKnown
    /\ CallKnown
    /\ NewestHighest
    /\ NeverLockedOut
    /\ PendingIsPublished

\* A manifest that verifies with a signature of the publisher's is the one
\* that was signed, by a key of its own epoch; of a check's, it is published.
LEMMA AcceptedIsReleased ==
    ASSUME ChannelInv, NEW d \in Known, NEW s \in Signatures, Accepts(d, s)
    PROVE  d \in released
<1>1. PICK e \in Known : s = [doc |-> e, key |-> e.signer]
    BY DEF Signatures, Signature
<1>2. PICK k \in Trust : k.epoch = d.epoch /\ s = [doc |-> d, key |-> k.key]
    BY DEF Accepts, Verifies
<1>3. e = d /\ k.key = d.signer
    BY <1>1, <1>2
<1>4. k = [key |-> d.signer, epoch |-> d.epoch]
    BY <1>2, <1>3, ChannelAssumption
<1>5. d.channel = Channel
    BY DEF Accepts
<1>. QED  BY <1>4, <1>5, ChannelAssumption DEF Known

\* What a check goes through, without the step that accepts.
Calls ==
    \/ \E update \in BOOLEAN : BeginCheck(update)
    \/ \E d \in Known : FetchBody(d)
    \/ \E s \in Signatures : FetchSignature(s)
    \/ Reject \/ Fail \/ Forget
    \/ call' = NoCall /\ UNCHANGED <<publisherVars, floors, pending>>
    \/ pending' = NoDoc /\ UNCHANGED <<publisherVars, floors, call>>
    \/ UNCHANGED channelVars

CallShape(c) ==
    /\ c \in [phase : CallPhases, update : BOOLEAN, watermark : Nat, epoch : Nat,
              body : Manifests \cup {NoDoc}, sig : {Signature(d) : d \in Manifests} \cup {NoDoc}]
    /\ c.phase \in {"signature", "verify"} => c.body \in Known
    /\ c.phase = "verify" => c.sig \in Signatures

\* The invariant knows what a check holds, in one piece.
LEMMA CallShapeOfInv == ChannelInv => CallShape(call)
BY DEF ChannelInv, ChannelTypeOK, CallKnown, CallShape

\* What is published and the floors stay, and what a check holds is known.
LEMMA CallsKeepChannel ==
    ASSUME ChannelInv, Calls
    PROVE  ChannelInv'
<1>. USE ChannelAssumption
<1>1. Known \subseteq Manifests /\ Signatures \subseteq {Signature(d) : d \in Manifests} /\ NoDoc \notin Manifests
    BY DEF Known, Manifests, Signatures, ChannelInv, ChannelTypeOK
<1>2. UNCHANGED <<newest, released, body, sig, floors>>
    BY DEF Calls, BeginCheck, FetchBody, FetchSignature, Reject, Fail, Forget, publisherVars, channelVars
<1>3. pending' = pending \/ pending' = NoDoc
    BY DEF Calls, BeginCheck, FetchBody, FetchSignature, Reject, Fail, Forget, channelVars
<1>4. CallShape(NoCall)
    BY DEF CallShape, NoCall, CallPhases
<1>5. CallShape(call')
    <2>. USE CallShapeOfInv
    <2>1. ASSUME NEW update \in BOOLEAN, BeginCheck(update)
          PROVE  CallShape(call')
        <3>1. floors.watermark \in Nat /\ floors.epoch \in Nat
            BY DEF ChannelInv, ChannelTypeOK
        <3>. QED  BY <2>1, <3>1, <1>4 DEF BeginCheck, CallShape, CallPhases
    <2>2. ASSUME NEW d \in Known, FetchBody(d)
          PROVE  CallShape(call')
        BY <2>2, <1>1 DEF FetchBody, CallShape, CallPhases
    <2>3. ASSUME NEW s \in Signatures, FetchSignature(s)
          PROVE  CallShape(call')
        BY <2>3, <1>1 DEF FetchSignature, CallShape, CallPhases
    <2>4. call' = NoCall \/ call' = call => CallShape(call')
        BY <1>4
    <2>. QED  BY <2>1, <2>2, <2>3, <2>4 DEF Calls, Reject, Fail, Forget, channelVars
<1>6. ChannelTypeOK'
    BY <1>1, <1>2, <1>3, <1>5 DEF ChannelInv, ChannelTypeOK, CallShape
<1>7. UrlsKnown' /\ NewestHighest' /\ NeverLockedOut' /\ PendingIsPublished'
    BY <1>2, <1>3 DEF ChannelInv, UrlsKnown, NewestHighest, NeverLockedOut, PendingIsPublished,
                      Known, Signatures
<1>8. CallKnown'
    BY <1>2, <1>5 DEF CallKnown, CallShape, Known, Signatures
<1>. QED  BY <1>6, <1>7, <1>8 DEF ChannelInv

\* Accepting raises the floors to those of a published manifest at most.
LEMMA AcceptKeepsChannel ==
    ASSUME ChannelInv, Accept
    PROVE  ChannelInv'
<1>. USE ChannelAssumption
<1>. DEFINE d == call.body
<1>1. d \in released
    BY AcceptedIsReleased DEF ChannelInv, CallKnown, Accept
<1>2. d \in Manifests /\ d.watermark \in Nat /\ d.epoch \in Nat /\ d # NoDoc
    BY <1>1 DEF ChannelInv, ChannelTypeOK, Manifests
<1>3. UNCHANGED <<newest, released, body, sig>> /\ floors' = Observed(d) /\ pending' = d
    BY DEF Accept, publisherVars
<1>4. /\ floors' = [watermark |-> floors'.watermark, epoch |-> floors'.epoch]
      /\ floors.watermark \in Nat /\ floors.epoch \in Nat
      /\ floors'.watermark \in {floors.watermark, d.watermark} /\ floors'.watermark >= d.watermark
      /\ floors'.epoch \in {floors.epoch, d.epoch} /\ floors'.epoch >= d.epoch
    BY <1>2, <1>3 DEF Observed, Higher, ChannelInv, ChannelTypeOK
<1>5. CallShape(call') /\ call'.phase \in {"idle", "go"}
    BY DEF CallShape, Accept, NoCall, CallPhases
<1>6. newest # NoDoc /\ d.watermark <= newest.watermark /\ d.epoch <= newest.epoch
    BY <1>1 DEF ChannelInv, NewestHighest
<1>7. ChannelTypeOK'
    BY <1>2, <1>3, <1>4, <1>5 DEF ChannelInv, ChannelTypeOK, CallShape
<1>8. UrlsKnown' /\ NewestHighest'
    BY <1>3 DEF ChannelInv, UrlsKnown, NewestHighest, Known, Signatures
<1>9. CallKnown'
    BY <1>5 DEF CallKnown
<1>10. NeverLockedOut'
    BY <1>3, <1>4, <1>6 DEF NeverLockedOut, ChannelInv
<1>11. PendingIsPublished'
    BY <1>1, <1>2, <1>3, <1>4 DEF PendingIsPublished
<1>. QED  BY <1>7, <1>8, <1>9, <1>10, <1>11 DEF ChannelInv

\* Publishing, uploading and mistakes.
LEMMA PublisherKeepsChannel ==
    ASSUME ChannelInv,
           \/ \E d \in Docs : Release(d)
           \/ UploadBody \/ UploadSignature
           \/ \E d \in Mistakes : Misplace(d)
    PROVE  ChannelInv'
<1>. USE ChannelAssumption
<1>1. UNCHANGED <<floors, call, pending>> /\ released \subseteq released'
    BY DEF Release, UploadBody, UploadSignature, Misplace
<1>2. CallShape(call)
    BY CallShapeOfInv
<1>3. ASSUME NEW d \in Docs, Release(d)
      PROVE  ChannelInv'
    <2>1. newest' = d /\ released' = released \cup {d} /\ UNCHANGED <<body, sig>>
        BY <1>3 DEF Release
    <2>2. d # NoDoc /\ d \in Manifests /\ d.watermark \in Nat /\ d.epoch \in Nat \ {0}
        BY DEF Manifests
    <2>3. newest # NoDoc => /\ newest.watermark \in Nat /\ newest.epoch \in Nat
                            /\ d.watermark >= newest.watermark /\ d.epoch >= newest.epoch
        BY <1>3 DEF Release, ChannelInv, ChannelTypeOK, Manifests
    <2>4. \A e \in released : e.watermark \in Nat /\ e.epoch \in Nat
        BY DEF ChannelInv, ChannelTypeOK, Manifests
    <2>5. NewestHighest'
        BY <2>1, <2>2, <2>3, <2>4 DEF NewestHighest, ChannelInv
    <2>6. NeverLockedOut'
        <3>1. floors.watermark \in Nat /\ floors.epoch \in Nat
            BY DEF ChannelInv, ChannelTypeOK
        <3>. QED  BY <1>1, <2>1, <2>2, <2>3, <3>1 DEF NeverLockedOut, ChannelInv
    <2>7. ChannelTypeOK' /\ UrlsKnown' /\ CallKnown' /\ PendingIsPublished'
        BY <1>1, <2>1, <2>2 DEF ChannelInv, ChannelTypeOK, UrlsKnown, CallKnown, PendingIsPublished,
                                Known, Signatures
    <2>. QED  BY <2>5, <2>6, <2>7 DEF ChannelInv
<1>4. ASSUME UploadBody \/ UploadSignature \/ \E d \in Mistakes : Misplace(d)
      PROVE  ChannelInv'
    <2>1. UNCHANGED <<newest, released>>
        BY <1>4 DEF UploadBody, UploadSignature, Misplace
    <2>2. UrlsKnown'
        BY <1>4, <2>1 DEF UploadBody, UploadSignature, Misplace, UrlsKnown, ChannelInv, NewestHighest,
                          Known, Signatures
    <2>3. Known \subseteq Manifests /\ Signatures \subseteq {Signature(d) : d \in Manifests}
        BY DEF Known, Manifests, Signatures, ChannelInv, ChannelTypeOK
    <2>4. ChannelTypeOK'
        BY <1>1, <2>1, <2>2, <2>3 DEF ChannelInv, ChannelTypeOK, UrlsKnown, Known, Signatures
    <2>5. CallKnown' /\ NewestHighest' /\ NeverLockedOut' /\ PendingIsPublished'
        BY <1>1, <2>1 DEF ChannelInv, CallKnown, NewestHighest, NeverLockedOut, PendingIsPublished,
                          Known, Signatures
    <2>. QED  BY <2>2, <2>4, <2>5 DEF ChannelInv
<1>. QED  BY <1>3, <1>4

-----------------------------------------------------------------------------
(***************************************************************************)
(* The download.  A request asks for what follows the part, or the part    *)
(* was purged meanwhile; what is left of a body belongs where it will be   *)
(* written; and what lies in the cache root is still wanted.               *)
(***************************************************************************)
AskedForRest ==
    job.phase = "ask" =>
        /\ job.at < Size(Current)
        /\ parts[Current] # NoFile => Len(parts[Current]) = job.at

BodyInPlace ==
    job.phase = "receive" =>
        /\ job.at <= job.end /\ job.end <= Size(Current)
        /\ parts[Current] # NoFile =>
               /\ Len(parts[Current]) <= job.at
               /\ Current \notin torn => Len(parts[Current]) = job.at
        /\ \A i \in DOMAIN job.body : \E file \in Sites[Current] :
               job.at + i \in DOMAIN file /\ file[job.at + i] = job.body[i]

NothingElseKept ==
    job.phase # "idle" => \A p \in Packs :
        /\ parts[p] # NoFile => \E i \in job.index .. Len(plan) : plan[i] = p
        /\ tpks[p] # NoFile => p \in Asked

DownloadInv ==
    /\ DownloadTypeOK
    /\ FinishedIsAdvertised
    /\ PartsFit
    /\ AskedForRest
    /\ BodyInPlace
    /\ NothingElseKept

\* The pack a download is at.
LEMMA CurrentType ==
    ASSUME DownloadTypeOK, job.phase \in {"ask", "receive", "finalize"}
    PROVE  /\ Current \in Packs /\ Current \in Asked
           /\ job.index \in 1 .. Len(plan)
           /\ Content[Current] \in Seq(Blocks) /\ Size(Current) \in Nat
           /\ site[Current] \in Sites[Current] /\ site[Current] \in Seq(Blocks)
           /\ parts[Current] # NoFile => parts[Current] \in Seq(Blocks)
BY DownloadAssumption DEF DownloadTypeOK, Current, Asked, Size

\* Without some files, the files are files.
LEMMA WithoutType ==
    ASSUME NEW map \in [Packs -> Seq(Blocks) \cup {NoFile}], NEW gone
    PROVE  /\ Without(map, gone) \in [Packs -> Seq(Blocks) \cup {NoFile}]
           /\ \A p \in Packs : /\ Without(map, gone)[p] \in {map[p], NoFile}
                               /\ p \in gone => Without(map, gone)[p] = NoFile
                               /\ p \notin gone => Without(map, gone)[p] = map[p]
BY DEF Without

\* Between two packs of a plan.
LEMMA StartType ==
    ASSUME DownloadTypeOK, NEW index \in 1 .. Len(plan) + 1
    PROVE  /\ Start(index) \in [phase : Phases, index : Nat, at : Nat, end : Nat, body : Seq(Blocks)]
           /\ Start(index).index = index
           /\ Start(index).phase \in {"ask", "finalize", "stage"}
           /\ Start(index).phase = "stage" <=> index = Len(plan) + 1
           /\ Start(index).phase = "ask" =>
                  /\ Start(index).at < Size(plan[index])
                  /\ Start(index).at = LengthOf(parts[plan[index]])
<1>0. /\ <<>> \in Seq(Blocks) /\ index \in Nat /\ Len(plan) \in Nat
      /\ index = Len(plan) + 1 <=> index > Len(plan)
    BY DEF DownloadTypeOK
<1>1. CASE index = Len(plan) + 1
    <2>1. Start(index) = [phase |-> "stage", index |-> index, at |-> 0, end |-> 0, body |-> <<>>]
        BY <1>0, <1>1 DEF Start, Idle
    <2>2. /\ Start(index).phase = "stage" /\ Start(index).index = index
          /\ Start(index) \in [phase : Phases, index : Nat, at : Nat, end : Nat, body : Seq(Blocks)]
        BY <1>0, <2>1 DEF Phases
    <2>. QED  BY <1>1, <2>2
<1>2. CASE index # Len(plan) + 1
    <2>1. plan[index] \in Packs /\ index \in Nat /\ ~(index > Len(plan))
        BY <1>2 DEF DownloadTypeOK
    <2>2. LengthOf(parts[plan[index]]) \in Nat /\ Size(plan[index]) \in Nat
        BY <2>1, DownloadAssumption DEF LengthOf, Size, DownloadTypeOK
    <2>3. /\ ResumeOffset(plan[index]) \in Nat
          /\ ResumeOffset(plan[index]) < Size(plan[index]) =>
                ResumeOffset(plan[index]) = LengthOf(parts[plan[index]])
        BY <2>2 DEF ResumeOffset
    <2>4. Start(index) = [phase |-> IF ResumeOffset(plan[index]) < Size(plan[index])
                                    THEN "ask" ELSE "finalize",
                          index |-> index, at |-> ResumeOffset(plan[index]), end |-> 0, body |-> <<>>]
        BY <1>0, <1>2 DEF Start, Idle
    <2>. QED  BY <1>0, <1>2, <2>1, <2>3, <2>4 DEF Phases
<1>. QED  BY <1>1, <1>2

\* A beginning of a file fits where the file fits.
LEMMA PrefixFits ==
    ASSUME NEW p \in Packs, NEW file \in Seq(Blocks), NEW n \in 0 .. Len(file)
    PROVE  /\ SubSeq(file, 1, n) \in Seq(Blocks)
           /\ Len(SubSeq(file, 1, n)) <= Len(file)
           /\ InPlace(p, file) => InPlace(p, SubSeq(file, 1, n))
<1>1. /\ SubSeq(file, 1, n) \in Seq(Blocks) /\ Len(SubSeq(file, 1, n)) = n
      /\ \A i \in 1 .. n : SubSeq(file, 1, n)[i] = file[i] /\ i \in DOMAIN file
    OBVIOUS
<1>. QED  BY <1>1 DEF InPlace

Typed(map) == map \in [Packs -> Seq(Blocks) \cup {NoFile}]

\* Files that go, or lose their end.
Loses(old, new) ==
    /\ Typed(new)
    /\ \A p \in Packs : \/ new[p] \in {old[p], NoFile}
                        \/ old[p] # NoFile /\ \E n \in 0 .. Len(old[p]) : new[p] = SubSeq(old[p], 1, n)

\* Parts that go or lose their end (a purge, a failed finalize, a crash) fit.
LEMMA LosingFits ==
    ASSUME DownloadInv, Loses(parts, parts'), UNCHANGED torn
    PROVE  PartsFit'
<1>. SUFFICES ASSUME NEW p \in Packs, parts'[p] # NoFile
              PROVE  Len(parts'[p]) <= Size(p) /\ (p \notin torn => InPlace(p, parts'[p]))
    BY DEF PartsFit
<1>1. Size(p) \in Nat
    BY DownloadAssumption DEF Size
<1>2. parts[p] # NoFile
    BY DEF Loses
<1>3. parts[p] \in Seq(Blocks) /\ Len(parts[p]) <= Size(p) /\ (p \notin torn => InPlace(p, parts[p]))
    BY <1>2 DEF DownloadInv, DownloadTypeOK, PartsFit
<1>4. CASE parts'[p] = parts[p]
    BY <1>3, <1>4
<1>5. CASE \E n \in 0 .. Len(parts[p]) : parts'[p] = SubSeq(parts[p], 1, n)
    <2>1. PICK n \in 0 .. Len(parts[p]) : parts'[p] = SubSeq(parts[p], 1, n)
        BY <1>5
    <2>2. /\ parts'[p] \in Seq(Blocks) /\ Len(parts'[p]) <= Len(parts[p])
          /\ InPlace(p, parts[p]) => InPlace(p, parts'[p])
        BY <1>3, <2>1, PrefixFits
    <2>. QED  BY <1>1, <1>3, <2>2
<1>. QED  BY <1>4, <1>5 DEF Loses

\* Removing files from the cache is such a loss.
LEMMA WithoutLoses ==
    ASSUME NEW map, Typed(map), NEW gone
    PROVE  Loses(map, Without(map, gone)) /\ Typed(Without(map, gone))
BY WithoutType DEF Loses, Typed

Goes(old, new) == Typed(new) /\ \A p \in Packs : new[p] \in {old[p], NoFile}

\* A download that returns, or never ran, leaves nothing to be asked of it.
LEMMA ReturningKeeps ==
    ASSUME DownloadInv,
           Loses(parts, parts'), Goes(tpks, tpks'),
           plan' \in Seq(Packs), staged' \subseteq Packs, faults' \in 0 .. MaxFaults,
           UNCHANGED <<site, torn>>,
           job' = Idle
    PROVE  DownloadInv'
<1>1. PartsFit'
    BY LosingFits
<1>2. FinishedIsAdvertised'
    BY DEF DownloadInv, FinishedIsAdvertised, Goes
<1>3. Idle \in [phase : Phases, index : Nat, at : Nat, end : Nat, body : Seq(Blocks)]
    BY DEF Idle, Phases
<1>4. DownloadTypeOK'
    BY <1>3 DEF DownloadInv, DownloadTypeOK, Loses, Goes, Typed, Idle
<1>. QED  BY <1>1, <1>2, <1>4 DEF DownloadInv, AskedForRest, BodyInPlace, NothingElseKept, Idle

\* Files go while a download runs, and perhaps the end of a body.
LEMMA PurgingKeeps ==
    ASSUME DownloadInv,
           Goes(parts, parts'), Goes(tpks, tpks'),
           site' \in [Packs -> Seq(Blocks)], \A p \in Packs : site'[p] \in Sites[p],
           faults' \in 0 .. MaxFaults,
           UNCHANGED <<plan, staged, torn>>,
           job' = job \/ (job.phase = "receive" /\ job' = [job EXCEPT !.body = <<>>])
    PROVE  DownloadInv'
<1>1. PartsFit'
    <2>1. Loses(parts, parts')
        BY DEF Goes, Loses
    <2>. QED  BY <2>1, LosingFits
<1>2. FinishedIsAdvertised'
    BY DEF DownloadInv, FinishedIsAdvertised, Goes
<1>3. /\ job' \in [phase : Phases, index : Nat, at : Nat, end : Nat, body : Seq(Blocks)]
      /\ UNCHANGED <<job.phase, job.index, job.at, job.end>>
      /\ job'.body \in {job.body, <<>>}
    <2>1. job \in [phase : Phases, index : Nat, at : Nat, end : Nat, body : Seq(Blocks)]
        BY DEF DownloadInv, DownloadTypeOK
    <2>2. CASE job' = job
        BY <2>1, <2>2
    <2>3. CASE job' = [job EXCEPT !.body = <<>>]
        <3>1. <<>> \in Seq(Blocks)
            OBVIOUS
        <3>. QED  BY <2>1, <2>3, <3>1
    <2>. QED  BY <2>2, <2>3
<1>4. DownloadTypeOK'
    BY <1>3 DEF DownloadInv, DownloadTypeOK, Goes, Typed
<1>5. job.phase \in {"ask", "receive", "finalize"} =>
          /\ Current' = Current /\ Current \in Packs
          /\ parts'[Current] \in {parts[Current], NoFile}
    BY <1>3, CurrentType DEF DownloadInv, Current, Goes
<1>6. AskedForRest'
    BY <1>3, <1>5 DEF DownloadInv, AskedForRest, Size
<1>7. BodyInPlace'
    <2>1. DOMAIN <<>> = {}
        OBVIOUS
    <2>. QED  BY <1>3, <1>5, <2>1 DEF DownloadInv, BodyInPlace, Size
<1>8. NothingElseKept'
    BY <1>3 DEF DownloadInv, NothingElseKept, Goes, Asked
<1>. QED  BY <1>1, <1>2, <1>4, <1>6, <1>7, <1>8 DEF DownloadInv

\* A download begins with what is wanted of the cache.
LEMMA BeginKeeps ==
    ASSUME DownloadInv, BeginDownload
    PROVE  DownloadInv'
<1>. USE DEF DownloadInv
<1>1. /\ plan \in Seq(Packs) /\ plan # <<>> /\ 1 \in 1 .. Len(plan) + 1 /\ 1 \in DOMAIN plan
      /\ UNCHANGED <<plan, staged, site, torn, faults>> /\ Asked' = Asked /\ job' = Start(1)
      /\ parts' = Without(parts, Packs \ Asked) /\ tpks' = Without(tpks, Packs \ Asked)
    BY DEF BeginDownload, DownloadTypeOK, Asked, Pruned
<1>2. Typed(parts) /\ Typed(tpks)
    BY DEF DownloadTypeOK, Typed
<1>3. /\ Loses(parts, parts') /\ Typed(parts') /\ Typed(tpks')
      /\ \A p \in Packs : /\ p \in Asked => parts'[p] = parts[p]
                          /\ p \notin Asked => parts'[p] = NoFile /\ tpks'[p] = NoFile
                          /\ tpks'[p] \in {tpks[p], NoFile}
    BY <1>1, <1>2, WithoutLoses, WithoutType DEF Typed
<1>4. PartsFit'
    BY <1>1, <1>3, LosingFits
<1>5. FinishedIsAdvertised'
    BY <1>3 DEF FinishedIsAdvertised
<1>6. /\ job' \in [phase : Phases, index : Nat, at : Nat, end : Nat, body : Seq(Blocks)]
      /\ job'.index = 1 /\ job'.phase \in {"ask", "finalize", "stage"}
      /\ job'.phase # "stage"
      /\ job'.phase = "ask" => job'.at < Size(plan[1]) /\ job'.at = LengthOf(parts[plan[1]])
    <2>1. Len(plan) # 0
        BY <1>1
    <2>. QED  BY <1>1, <2>1, StartType
<1>7. DownloadTypeOK'
    BY <1>1, <1>3, <1>6 DEF DownloadTypeOK, Typed
<1>8. Current' = plan[1] /\ plan[1] \in Packs /\ plan[1] \in Asked
    BY <1>1, <1>6 DEF Current, Asked
<1>9. AskedForRest'
    BY <1>3, <1>6, <1>8 DEF AskedForRest, LengthOf, Size
<1>10. BodyInPlace'
    BY <1>6 DEF BodyInPlace
<1>11. NothingElseKept'
    <2>1. \A p \in Asked : \E i \in 1 .. Len(plan) : plan[i] = p
        BY <1>1 DEF Asked
    <2>. QED  BY <1>1, <1>3, <1>6, <2>1 DEF NothingElseKept
<1>. QED  BY <1>4, <1>5, <1>7, <1>9, <1>10, <1>11

\* A pack is finished, and the next one begins.
LEMMA FinalizeKeeps ==
    ASSUME DownloadInv, Finalize
    PROVE  DownloadInv'
<1>. USE DEF DownloadInv
<1>. DEFINE c == Current
<1>1. /\ c \in Packs /\ c \in Asked /\ job.index \in 1 .. Len(plan) /\ plan[job.index] = c
      /\ job.index + 1 \in 1 .. Len(plan) + 1 /\ plan \in Seq(Packs)
    BY CurrentType DEF Finalize, DownloadTypeOK, Current
<1>2. /\ parts' = Without(parts, {c}) /\ tpks' = [tpks EXCEPT ![c] = parts[c]]
      /\ job' = Start(job.index + 1) /\ UNCHANGED <<plan, staged, site, torn, faults>>
      /\ parts[c] = Content[c] /\ Asked' = Asked
    BY DEF Finalize, Verified, Asked
<1>3. /\ Typed(parts') /\ Loses(parts, parts') /\ parts'[c] = NoFile
      /\ \A p \in Packs : p # c => parts'[p] = parts[p]
    <2>1. Typed(parts)
        BY DEF Typed, DownloadTypeOK
    <2>2. Loses(parts, Without(parts, {c})) /\ Typed(Without(parts, {c}))
        BY <2>1, WithoutLoses
    <2>3. /\ Without(parts, {c})[c] = NoFile
          /\ \A p \in Packs : p # c => Without(parts, {c})[p] = parts[p]
        BY <1>1 DEF Without
    <2>. QED  BY <1>2, <2>2, <2>3
<1>4. /\ Typed(tpks') /\ tpks'[c] = Content[c]
      /\ \A p \in Packs : p # c => tpks'[p] = tpks[p]
    BY <1>1, <1>2, DownloadAssumption DEF Typed, DownloadTypeOK
<1>5. PartsFit'
    BY <1>2, <1>3, LosingFits
<1>6. FinishedIsAdvertised'
    BY <1>4 DEF FinishedIsAdvertised
<1>7. /\ job' \in [phase : Phases, index : Nat, at : Nat, end : Nat, body : Seq(Blocks)]
      /\ job'.index = job.index + 1 /\ job'.phase \in {"ask", "finalize", "stage"}
      /\ job'.phase = "stage" <=> job.index + 1 = Len(plan) + 1
      /\ job'.phase = "ask" =>
             /\ job'.at < Size(plan[job.index + 1])
             /\ job'.at = LengthOf(parts[plan[job.index + 1]])
    <2>. DEFINE n == job.index + 1
    <2>3. n \in 1 .. Len(plan) + 1 /\ job' = Start(n)
        BY <1>1, <1>2
    <2>. HIDE DEF n
    <2>4. /\ job' \in [phase : Phases, index : Nat, at : Nat, end : Nat, body : Seq(Blocks)]
          /\ job'.index = n /\ job'.phase \in {"ask", "finalize", "stage"}
          /\ job'.phase = "stage" <=> n = Len(plan) + 1
          /\ job'.phase = "ask" => job'.at < Size(plan[n]) /\ job'.at = LengthOf(parts[plan[n]])
        BY <2>3, StartType
    <2>. QED  BY <2>4 DEF n
<1>8. DownloadTypeOK'
    <2>1. /\ job'.phase = "stage" => job'.index = Len(plan) + 1
          /\ job'.phase # "stage" => job'.index \in DOMAIN plan
        BY <1>1, <1>7
    <2>. QED  BY <1>2, <1>3, <1>4, <1>7, <2>1 DEF DownloadTypeOK, Typed
<1>9. AskedForRest'
    <2>. SUFFICES ASSUME job'.phase = "ask"
                  PROVE  /\ job'.at < Size(Current')
                         /\ parts'[Current'] # NoFile => Len(parts'[Current']) = job'.at
        BY DEF AskedForRest, Current, Size
    <2>1. Current' = plan[job.index + 1] /\ Current' \in Packs
        BY <1>1, <1>2, <1>7 DEF Current
    <2>2. parts'[Current'] # NoFile => parts'[Current'] = parts[Current']
        BY <1>3, <2>1
    <2>. QED  BY <1>7, <2>1, <2>2 DEF LengthOf
<1>10. BodyInPlace'
    BY <1>7 DEF BodyInPlace
<1>11. NothingElseKept'
    <2>. SUFFICES ASSUME NEW p \in Packs
                  PROVE  /\ parts'[p] # NoFile => \E i \in job'.index .. Len(plan) : plan[i] = p
                         /\ tpks'[p] # NoFile => p \in Asked
        BY <1>2 DEF NothingElseKept
    <2>1. job.phase # "idle"
        BY DEF Finalize
    <2>2. ASSUME parts'[p] # NoFile
          PROVE  \E i \in job'.index .. Len(plan) : plan[i] = p
        <3>1. p # c /\ parts[p] # NoFile
            BY <1>3, <2>2
        <3>2. PICK i \in job.index .. Len(plan) : plan[i] = p
            BY <2>1, <3>1 DEF NothingElseKept
        <3>3. i # job.index
            BY <1>1, <3>1, <3>2
        <3>. QED  BY <1>1, <1>7, <3>2, <3>3
    <2>3. tpks'[p] # NoFile => p \in Asked
        BY <1>1, <1>4, <2>1 DEF NothingElseKept
    <2>. QED  BY <2>2, <2>3
<1>. QED  BY <1>5, <1>6, <1>8, <1>9, <1>10, <1>11

\* What a server may answer comes from the file it has, and says where.
From(r, file, start, end) ==
    /\ r.status = 206 => start = r.start /\ end = r.end /\ start < end
    /\ r.status = 206 \/ (r.status = 200 /\ start = 0)
    /\ end <= Len(file) /\ r.total = Len(file)
    /\ r.body \in Seq(Blocks)
    /\ \A i \in DOMAIN r.body : start + i \in DOMAIN file /\ file[start + i] = r.body[i]

\* An answer about an interval of a file holds that interval of it.
LEMMA AnswerFrom ==
    ASSUME NEW file \in Seq(Blocks), NEW status, NEW start \in Nat, NEW end \in Nat, NEW announced,
           end <= Len(file), start <= end,
           (status = 206 /\ start < end) \/ (status = 200 /\ start = 0)
    PROVE  From(Answer(file, status, start, end, announced), file, start, end)
<1>. DEFINE r == Answer(file, status, start, end, announced)
<1>1. /\ r.status = status /\ r.start = start /\ r.end = end /\ r.total = Len(file)
      /\ r.body = SubSeq(file, start + 1, end)
    BY DEF Answer
<1>2. /\ SubSeq(file, start + 1, end) \in Seq(Blocks)
      /\ Len(SubSeq(file, start + 1, end)) = end - start
      /\ \A i \in 1 .. end - start : SubSeq(file, start + 1, end)[i] = file[start + i]
    OBVIOUS
<1>3. \A i \in DOMAIN r.body : i \in 1 .. end - start /\ start + i \in DOMAIN file
    BY <1>1, <1>2
<1>. HIDE DEF r
<1>. QED  BY <1>1, <1>2, <1>3 DEF From, r

\* Every response that comes is cut from the file that is at the URL.
LEMMA AnswerType ==
    ASSUME DownloadTypeOK, NEW r, Comes(r)
    PROVE  \E start, end \in Nat : From(r, site[Current], start, end)
<1>. DEFINE file == site[Current]
<1>1. job.phase = "ask" /\ file \in Seq(Blocks) /\ Len(file) \in Nat
    BY CurrentType DEF Comes
<1>. HIDE DEF file
<1>3. CASE r \in Proper(file, job.at)
    <2>1. CASE \E announced \in BOOLEAN : r = Answer(file, 200, 0, Len(file), announced)
        <3>1. From(r, file, 0, Len(file))
            BY <1>1, <2>1, AnswerFrom
        <3>. QED  BY <1>1, <3>1 DEF file
    <2>2. CASE job.at \in 1 .. (Len(file) - 1) /\ r = Answer(file, 206, job.at, Len(file), TRUE)
        <3>1. job.at \in Nat /\ job.at < Len(file)
            BY <1>1, <2>2
        <3>. DEFINE start == job.at
                    end == Len(file)
        <3>2. start \in Nat /\ end \in Nat /\ end <= Len(file) /\ start <= end /\ start < end
            BY <1>1, <3>1
        <3>. HIDE DEF start, end
        <3>3. From(Answer(file, 206, start, end, TRUE), file, start, end)
            BY <1>1, <3>2, AnswerFrom
        <3>4. From(r, file, start, end)
            BY <2>2, <3>3 DEF start, end
        <3>. QED  BY <3>2, <3>4 DEF file
    <2>. QED  BY <1>3, <2>1, <2>2 DEF Proper
<1>4. CASE r \in Odd(file)
    <2>1. PICK start \in 0 .. (Len(file) - 1) :
              \E end \in (start + 1) .. Len(file) : r = Answer(file, 206, start, end, TRUE)
        BY <1>4 DEF Odd
    <2>2. PICK end \in (start + 1) .. Len(file) : r = Answer(file, 206, start, end, TRUE)
        BY <2>1
    <2>3. start \in Nat /\ end \in Nat /\ start < end /\ start <= end /\ end <= Len(file)
        BY <1>1, <2>1, <2>2
    <2>5. From(Answer(file, 206, start, end, TRUE), file, start, end)
        BY <1>1, <2>3, AnswerFrom
    <2>4. From(r, file, start, end)
        BY <2>2, <2>5
    <2>. QED  BY <2>3, <2>4 DEF file
<1>. QED  BY <1>3, <1>4 DEF Comes, file

\* A response that fits goes on where the part ends, or starts anew.
LEMMA RespondKeeps ==
    ASSUME DownloadInv, NEW r, Respond(r)
    PROVE  DownloadInv'
<1>. USE DEF DownloadInv
<1>. DEFINE c == Current
            append == Appends(job.at, r)
            at == IF append THEN job.at ELSE 0
            part == IF append THEN PartFile(c) ELSE <<>>
            end == at + ResponseBytes(c, r)
<1>1. /\ job.phase = "ask"
      /\ c \in Packs /\ job.index \in 1 .. Len(plan) /\ plan[job.index] = c /\ plan \in Seq(Packs)
      /\ Size(c) \in Nat /\ site[c] \in Sites[c]
      /\ parts[c] # NoFile => parts[c] \in Seq(Blocks)
      /\ job.at \in Nat /\ job.at < Size(c)
      /\ parts[c] # NoFile => Len(parts[c]) = job.at
    BY CurrentType DEF Respond, Comes, DownloadTypeOK, Current, AskedForRest
<1>2. /\ parts' = [parts EXCEPT ![c] = part]
      /\ torn' = IF ~append THEN torn \ {c}
                 ELSE IF parts[c] = NoFile THEN torn \cup {c} ELSE torn
      /\ job' = [job EXCEPT !.phase = "receive", !.at = at, !.body = r.body, !.end = end]
      /\ UNCHANGED <<tpks, plan, staged, site>>
    BY DEF Respond
<1>3. faults' \in 0 .. MaxFaults
    BY DEF Respond, Comes, Counted, DownloadTypeOK
<1>a. PICK start \in Nat, e \in Nat : From(r, site[c], start, e)
    BY AnswerType DEF Respond
<1>4. /\ r.status = 206 => start = r.start /\ e = r.end /\ start < e
      /\ r.status = 206 \/ (r.status = 200 /\ start = 0)
      /\ e <= Len(site[c]) /\ r.total = Len(site[c])
      /\ r.body \in Seq(Blocks)
      /\ \A i \in DOMAIN r.body : start + i \in DOMAIN site[c] /\ site[c][start + i] = r.body[i]
    BY <1>a DEF From
<1>5. /\ r.status = 206 => start = job.at /\ e <= Size(c) /\ ResponseBytes(c, r) = e - start
      /\ r.status # 206 => start = 0 /\ ResponseBytes(c, r) = Size(c)
    BY <1>4 DEF Respond, Fits, ResponseBytes
<1>6. at = start /\ at \in Nat /\ end \in Nat /\ at <= end /\ end <= Size(c)
    BY <1>1, <1>4, <1>5 DEF Appends
<1>7. /\ part \in Seq(Blocks) /\ Len(part) <= at /\ Len(part) <= Size(c)
      /\ c \notin torn' => Len(part) = at /\ InPlace(c, part)
    <2>1. CASE ~append
        <3>1. part = <<>> /\ <<>> \in Seq(Blocks) /\ Len(<<>>) = 0 /\ at = 0
            BY <2>1
        <3>2. InPlace(c, <<>>)
            BY DEF InPlace
        <3>. QED  BY <1>1, <2>1, <3>1, <3>2
    <2>2. CASE append /\ parts[c] = NoFile
        <3>1. part = <<>> /\ <<>> \in Seq(Blocks) /\ Len(<<>>) = 0 /\ at = job.at
            BY <2>2 DEF PartFile
        <3>. QED  BY <1>1, <1>2, <2>2, <3>1
    <2>3. CASE append /\ parts[c] # NoFile
        <3>1. part = parts[c] /\ at = job.at /\ torn' = torn
            BY <1>2, <2>3 DEF PartFile
        <3>2. c \notin torn => InPlace(c, parts[c])
            BY <1>1, <2>3 DEF PartsFit
        <3>. QED  BY <1>1, <2>3, <3>1, <3>2
    <2>. QED  BY <2>1, <2>2, <2>3
<1>. HIDE DEF append, at, part, end
<1>8. /\ parts' \in [Packs -> Seq(Blocks) \cup {NoFile}] /\ parts'[c] = part
      /\ \A p \in Packs : p # c => parts'[p] = parts[p]
    BY <1>1, <1>2, <1>7 DEF DownloadTypeOK
<1>9. /\ job' \in [phase : Phases, index : Nat, at : Nat, end : Nat, body : Seq(Blocks)]
      /\ job'.phase = "receive" /\ job'.index = job.index /\ job'.at = at /\ job'.end = end
      /\ job'.body = r.body
    <2>1. job \in [phase : Phases, index : Nat, at : Nat, end : Nat, body : Seq(Blocks)]
        BY DEF DownloadTypeOK
    <2>. QED  BY <1>2, <1>4, <1>6, <2>1 DEF Phases
<1>10. Current' = c
    BY <1>2, <1>9 DEF Current
<1>11. DownloadTypeOK'
    <2>1. torn' \subseteq Packs
        BY <1>1, <1>2 DEF DownloadTypeOK
    <2>. QED  BY <1>1, <1>2, <1>3, <1>8, <1>9, <2>1 DEF DownloadTypeOK
<1>12. PartsFit'
    BY <1>2, <1>7, <1>8 DEF PartsFit
<1>13. FinishedIsAdvertised'
    BY <1>2 DEF FinishedIsAdvertised
<1>14. AskedForRest'
    BY <1>9 DEF AskedForRest
<1>15. BodyInPlace'
    BY <1>1, <1>4, <1>6, <1>7, <1>8, <1>9, <1>10 DEF BodyInPlace, Size
<1>16. NothingElseKept'
    BY <1>1, <1>2, <1>8, <1>9 DEF NothingElseKept, Asked
<1>. QED  BY <1>11, <1>12, <1>13, <1>14, <1>15, <1>16

\* A chunk is written where it was in the file it came from.
LEMMA ReceiveKeeps ==
    ASSUME DownloadInv, Receive
    PROVE  DownloadInv'
<1>. USE DEF DownloadInv
<1>. DEFINE c == Current
            chunk == Head(job.body)
<1>1. /\ job \in [phase : Phases, index : Nat, at : Nat, end : Nat, body : Seq(Blocks)]
      /\ job.phase = "receive" /\ job.body # <<>> /\ job.at < job.end
      /\ c \in Packs /\ job.index \in 1 .. Len(plan) /\ plan[job.index] = c
      /\ Size(c) \in Nat
      /\ parts[c] # NoFile => parts[c] \in Seq(Blocks)
    BY CurrentType DEF Receive, DownloadTypeOK, Current
<1>2. /\ job.at <= job.end /\ job.end <= Size(c)
      /\ parts[c] # NoFile =>
             /\ Len(parts[c]) <= job.at
             /\ c \notin torn => Len(parts[c]) = job.at
      /\ \A i \in DOMAIN job.body : \E file \in Sites[c] :
             job.at + i \in DOMAIN file /\ file[job.at + i] = job.body[i]
    BY <1>1 DEF BodyInPlace
<1>3. /\ chunk \in Blocks /\ chunk = job.body[1] /\ 1 \in DOMAIN job.body
      /\ Tail(job.body) \in Seq(Blocks)
      /\ \A i \in DOMAIN Tail(job.body) : /\ i \in Nat /\ i + 1 \in DOMAIN job.body
                                         /\ Tail(job.body)[i] = job.body[i + 1]
    BY <1>1
<1>4. /\ job' = [job EXCEPT !.at = job.at + 1, !.body = Tail(job.body)]
      /\ UNCHANGED <<tpks, plan, staged, site, torn, faults>>
      /\ parts' = IF parts[c] = NoFile THEN parts ELSE [parts EXCEPT ![c] = Append(parts[c], chunk)]
    BY DEF Receive
<1>5. /\ job' \in [phase : Phases, index : Nat, at : Nat, end : Nat, body : Seq(Blocks)]
      /\ job'.phase = "receive" /\ job'.index = job.index /\ job'.at = job.at + 1
      /\ job'.end = job.end /\ job'.body = Tail(job.body)
    <2>. DEFINE rest == Tail(job.body)
                next == job.at + 1
    <2>1. rest \in Seq(Blocks) /\ next \in Nat
        BY <1>1, <1>3
    <2>2. job' = [job EXCEPT !.at = next, !.body = rest]
        BY <1>4
    <2>. HIDE DEF rest, next
    <2>3. /\ job' \in [phase : Phases, index : Nat, at : Nat, end : Nat, body : Seq(Blocks)]
          /\ job'.phase = job.phase /\ job'.index = job.index /\ job'.at = next
          /\ job'.end = job.end /\ job'.body = rest
        BY <1>1, <2>1, <2>2
    <2>. QED  BY <1>1, <2>3 DEF rest, next
<1>6. Current' = c
    BY <1>4, <1>5 DEF Current
<1>7. /\ parts' \in [Packs -> Seq(Blocks) \cup {NoFile}]
      /\ \A p \in Packs : p # c => parts'[p] = parts[p]
      /\ parts'[c] # NoFile <=> parts[c] # NoFile
      /\ parts[c] # NoFile => parts'[c] = Append(parts[c], chunk)
    <2>1. parts[c] # NoFile => Append(parts[c], chunk) \in Seq(Blocks)
        BY <1>1, <1>3
    <2>. HIDE DEF c, chunk
    <2>. QED  BY <1>1, <1>4, <2>1, DownloadAssumption DEF DownloadTypeOK
<1>8. ASSUME parts[c] # NoFile
      PROVE  /\ Len(parts'[c]) = Len(parts[c]) + 1 /\ Len(parts[c]) \in Nat
             /\ c \notin torn => InPlace(c, parts'[c])
    <2>1. /\ parts'[c] = Append(parts[c], chunk) /\ parts[c] \in Seq(Blocks)
        BY <1>1, <1>7, <1>8
    <2>2. /\ Len(parts'[c]) = Len(parts[c]) + 1 /\ Len(parts[c]) \in Nat
          /\ DOMAIN parts'[c] = 1 .. Len(parts[c]) + 1
          /\ \A i \in 1 .. Len(parts[c]) : parts'[c][i] = parts[c][i]
          /\ parts'[c][Len(parts[c]) + 1] = chunk
        BY <1>3, <2>1
    <2>3. ASSUME c \notin torn
          PROVE  InPlace(c, parts'[c])
        <3>1. InPlace(c, parts[c]) /\ Len(parts[c]) = job.at
            BY <1>1, <1>2, <1>8, <2>3 DEF PartsFit
        <3>2. \E file \in Sites[c] : job.at + 1 \in DOMAIN file /\ file[job.at + 1] = chunk
            BY <1>2, <1>3
        <3>3. DOMAIN parts[c] = 1 .. Len(parts[c])
            BY <2>1
        <3>4. ASSUME NEW i \in DOMAIN parts'[c]
              PROVE  \E file \in Sites[c] : i \in DOMAIN file /\ file[i] = parts'[c][i]
            <4>1. i \in 1 .. Len(parts[c]) \/ i = Len(parts[c]) + 1
                BY <2>2, <3>4
            <4>2. i \in 1 .. Len(parts[c]) =>
                      parts'[c][i] = parts[c][i] /\ i \in DOMAIN parts[c]
                BY <2>2, <3>3
            <4>3. i = Len(parts[c]) + 1 => parts'[c][i] = chunk /\ i = job.at + 1
                BY <2>2, <3>1
            <4>. HIDE DEF c, chunk
            <4>. QED  BY <3>1, <3>2, <4>1, <4>2, <4>3 DEF InPlace
        <3>. HIDE DEF c, chunk
        <3>. QED  BY <3>4 DEF InPlace
    <2>. QED  BY <2>2, <2>3
<1>. HIDE DEF c, chunk
<1>9. DownloadTypeOK'
    BY <1>1, <1>4, <1>5, <1>7 DEF DownloadTypeOK
<1>10. PartsFit'
    <2>. SUFFICES ASSUME NEW p \in Packs, parts'[p] # NoFile
                  PROVE  Len(parts'[p]) <= Size(p) /\ (p \notin torn => InPlace(p, parts'[p]))
        BY <1>4 DEF PartsFit
    <2>1. CASE p # c
        BY <1>7, <2>1 DEF PartsFit
    <2>2. CASE p = c
        BY <1>1, <1>2, <1>7, <1>8, <2>2
    <2>. QED  BY <2>1, <2>2
<1>11. FinishedIsAdvertised' /\ AskedForRest'
    BY <1>4, <1>5 DEF FinishedIsAdvertised, AskedForRest
<1>12. BodyInPlace'
    <2>1. job'.at <= job'.end /\ job'.end <= Size(c)
        BY <1>1, <1>2, <1>5
    <2>2. parts'[c] # NoFile => /\ Len(parts'[c]) <= job'.at
                                /\ c \notin torn => Len(parts'[c]) = job'.at
        BY <1>1, <1>2, <1>5, <1>7, <1>8
    <2>3. ASSUME NEW i \in DOMAIN job'.body
          PROVE  \E file \in Sites[c] :
                     job'.at + i \in DOMAIN file /\ file[job'.at + i] = job'.body[i]
        <3>1. /\ i \in Nat /\ i + 1 \in DOMAIN job.body /\ job'.body[i] = job.body[i + 1]
              /\ job.at + (i + 1) = job'.at + i
            BY <1>1, <1>3, <1>5, <2>3
        <3>. QED  BY <1>2, <3>1
    <2>. QED  BY <1>4, <1>6, <2>1, <2>2, <2>3 DEF BodyInPlace, Size
<1>13. NothingElseKept'
    BY <1>1, <1>4, <1>5, <1>7 DEF NothingElseKept, Asked
<1>. QED  BY <1>9, <1>10, <1>11, <1>12, <1>13

\* The end of a body leaves the files alone.
LEMMA EndOfBodyKeeps ==
    ASSUME DownloadInv, EndOfBody
    PROVE  DownloadInv'
<1>. USE DEF DownloadInv
<1>1. /\ job'.phase = "finalize" /\ job'.index = job.index
      /\ job' \in [phase : Phases, index : Nat, at : Nat, end : Nat, body : Seq(Blocks)]
      /\ job.index \in DOMAIN plan /\ job.phase = "receive"
      /\ UNCHANGED <<parts, tpks, plan, staged, site, torn, faults>>
    <2>1. <<>> \in Seq(Blocks)
        OBVIOUS
    <2>. QED  BY <2>1 DEF EndOfBody, Idle, Phases, DownloadTypeOK
<1>2. DownloadTypeOK'
    BY <1>1 DEF DownloadTypeOK
<1>3. PartsFit' /\ FinishedIsAdvertised'
    BY <1>1 DEF PartsFit, FinishedIsAdvertised
<1>4. AskedForRest' /\ BodyInPlace' /\ NothingElseKept'
    BY <1>1 DEF AskedForRest, BodyInPlace, NothingElseKept, Asked
<1>. QED  BY <1>2, <1>3, <1>4

\* Files that stay, and files that are removed.
LEMMA Going ==
    ASSUME DownloadTypeOK, NEW gone
    PROVE  /\ Typed(parts) /\ Typed(tpks) /\ faults \in Nat
           /\ Loses(parts, parts) /\ Goes(parts, parts) /\ Goes(tpks, tpks)
           /\ Loses(parts, Without(parts, gone)) /\ Goes(parts, Without(parts, gone))
           /\ Goes(tpks, Without(tpks, gone))
<1>1. Typed(parts) /\ Typed(tpks) /\ faults \in Nat
    BY DEF DownloadTypeOK, Typed
<1>. QED  BY <1>1, WithoutType, WithoutLoses DEF Loses, Goes, Typed

\* Whatever is counted stays within the bound.
LEMMA CountedType ==
    ASSUME DownloadTypeOK, NEW n \in Nat, Counted(n)
    PROVE  faults' \in 0 .. MaxFaults
BY DownloadAssumption DEF Counted, DownloadTypeOK

\* Every step of a download.
LEMMA FetchKeeps ==
    ASSUME DownloadInv, Fetch
    PROVE  DownloadInv'
<1>0. DownloadTypeOK /\ plan \in Seq(Packs) /\ staged \subseteq Packs /\ faults \in 0 .. MaxFaults
    BY DEF DownloadInv, DownloadTypeOK
<1>1. ASSUME NEW r, Respond(r)
      PROVE  DownloadInv'
    BY <1>1, RespondKeeps
<1>2. ASSUME NEW r, Refuse(r)
      PROVE  DownloadInv'
    <2>1. faults' \in 0 .. MaxFaults
        BY <1>0, <1>2, CountedType DEF Refuse, Comes
    <2>. QED  BY <1>0, <1>2, <2>1, Going, ReturningKeeps DEF Refuse, Return
<1>3. CASE Receive
    BY <1>3, ReceiveKeeps
<1>4. CASE EndOfBody
    BY <1>4, EndOfBodyKeeps
<1>5. CASE Finalize
    BY <1>5, FinalizeKeeps
<1>6. CASE Overrun
    BY <1>0, <1>6, Going, ReturningKeeps DEF Overrun, Return
<1>7. CASE FinalizeFails
    <2>1. parts' = parts \/ parts' = Without(parts, {Current})
        BY <1>7 DEF FinalizeFails
    <2>2. Loses(parts, parts')
        BY <1>0, <2>1, Going
    <2>. QED  BY <1>0, <1>7, <2>2, Going, ReturningKeeps DEF FinalizeFails, Return
<1>8. CASE Stage
    <2>1. <<>> \in Seq(Packs) /\ Asked \subseteq Packs
        BY <1>0 DEF Asked
    <2>. QED  BY <1>0, <1>8, <2>1, Going, ReturningKeeps DEF Stage, Return
<1>9. CASE StageFails
    <2>1. faults' \in 0 .. MaxFaults
        BY <1>0, <1>9, CountedType DEF StageFails
    <2>. QED  BY <1>0, <1>9, <2>1, Going, ReturningKeeps DEF StageFails, Return
<1>. QED  BY <1>1, <1>2, <1>3, <1>4, <1>5, <1>6, <1>7, <1>8, <1>9 DEF Fetch

\* Cuts, purges, and what is put at the URLs.
LEMMA SurroundingsKeep ==
    ASSUME DownloadInv, Surroundings
    PROVE  DownloadInv'
<1>0. /\ DownloadTypeOK /\ plan \in Seq(Packs) /\ staged \subseteq Packs /\ faults \in 0 .. MaxFaults
      /\ site \in [Packs -> Seq(Blocks)] /\ \A p \in Packs : site[p] \in Sites[p]
    BY DEF DownloadInv, DownloadTypeOK
<1>1. CASE NetworkFails
    <2>1. faults' \in 0 .. MaxFaults
        BY <1>0, <1>1, CountedType DEF NetworkFails
    <2>. QED  BY <1>0, <1>1, <2>1, Going, ReturningKeeps DEF NetworkFails, Return
<1>2. CASE EndEarly
    <2>1. faults' \in 0 .. MaxFaults
        BY <1>0, <1>2, CountedType DEF EndEarly
    <2>. QED  BY <1>0, <1>2, <2>1, Going, PurgingKeeps DEF EndEarly
<1>3. ASSUME NEW p \in Packs, Purge(p)
      PROVE  DownloadInv'
    <2>1. faults' \in 0 .. MaxFaults
        BY <1>0, <1>3, CountedType DEF Purge
    <2>2. Goes(parts, parts') /\ Goes(tpks, tpks')
        BY <1>0, <1>3, Going DEF Purge
    <2>. QED  BY <1>0, <1>3, <2>1, <2>2, PurgingKeeps DEF Purge
<1>4. ASSUME NEW p \in Packs, Replace(p) \/ Publish(p)
      PROVE  DownloadInv'
    <2>1. faults' \in 0 .. MaxFaults
        BY <1>0, <1>4, CountedType DEF Replace, Publish
    <2>2. \E file \in Sites[p] : site' = [site EXCEPT ![p] = file]
        BY <1>4, DownloadAssumption DEF Replace, Publish
    <2>3. site' \in [Packs -> Seq(Blocks)] /\ \A q \in Packs : site'[q] \in Sites[q]
        BY <1>0, <2>2, DownloadAssumption
    <2>4. UNCHANGED <<parts, tpks, plan, staged, job, torn>>
        BY <1>4 DEF Replace, Publish
    <2>. QED  BY <1>0, <2>1, <2>3, <2>4, Going, PurgingKeeps
<1>. QED  BY <1>1, <1>2, <1>3, <1>4 DEF Surroundings

\* A crash keeps a beginning of the part that was being written.
LEMMA CrashKeeps ==
    ASSUME DownloadInv, Crash
    PROVE  DownloadInv'
<1>0. DownloadTypeOK /\ plan \in Seq(Packs) /\ staged \subseteq Packs
    BY DEF DownloadInv, DownloadTypeOK
<1>1. faults' \in 0 .. MaxFaults
    BY <1>0, CountedType DEF Crash
<1>2. Loses(parts, parts')
    <2>1. CASE job.phase = "receive" /\ parts[Current] # NoFile
        <3>1. PICK n \in 0 .. Len(parts[Current]) :
                  parts' = [parts EXCEPT ![Current] = SubSeq(parts[Current], 1, n)]
            BY <2>1 DEF Crash
        <3>2. Current \in Packs /\ parts[Current] \in Seq(Blocks)
            BY <1>0, <2>1, CurrentType
        <3>3. SubSeq(parts[Current], 1, n) \in Seq(Blocks)
            BY <3>2, PrefixFits
        <3>. HIDE DEF Current
        <3>4. Typed(parts) /\ Typed(parts')
            BY <1>0, <3>1, <3>2, <3>3 DEF DownloadTypeOK, Typed
        <3>. QED  BY <2>1, <3>1, <3>2, <3>4 DEF Loses, Typed
    <2>2. CASE ~(job.phase = "receive" /\ parts[Current] # NoFile)
        BY <1>0, <2>2, Going DEF Crash
    <2>. QED  BY <2>1, <2>2
<1>3. plan' \in Seq(Packs) /\ staged' \subseteq Packs
    <2>1. <<>> \in Seq(Packs) /\ Asked \subseteq Packs
        BY <1>0 DEF Asked
    <2>. QED  BY <1>0, <2>1 DEF Crash
<1>4. job' = Idle /\ UNCHANGED <<tpks, site, torn>>
    BY DEF Crash
<1>. QED  BY <1>0, <1>1, <1>2, <1>3, <1>4, Going, ReturningKeeps

-----------------------------------------------------------------------------
(***************************************************************************)
(* Both together.  The operation lock keeps a check from changing the plan *)
(* of a download that runs: without it, what a job is at would not be of   *)
(* its plan.                                                               *)
(***************************************************************************)
LockInv == call.phase = "idle" \/ job.phase = "idle"

ClientInv == ChannelInv /\ DownloadInv /\ LockInv

\* A plan lists packs.
LEMMA PlanType ==
    ASSUME NEW d \in Manifests, NEW order \in SetToSeqs(Missing(d))
    PROVE  order \in Seq(Packs)
<1>1. IsFiniteSet(Missing(d)) /\ Missing(d) \subseteq Packs
    BY ClientAssumption, FS_Subset DEF Missing
<1>2. Cardinality(Missing(d)) \in Nat
    BY <1>1, FS_CardinalityType
<1>3. order \in [1 .. Cardinality(Missing(d)) -> Missing(d)]
    BY DEF SetToSeqs
<1>. QED  BY <1>1, <1>2, <1>3

\* No step of a download, or about it, is one of a check.
LEMMA Idles ==
    ASSUME DownloadTypeOK, Fetch \/ Surroundings
    PROVE  job.phase = "idle" => UNCHANGED job
BY DEF Fetch, Surroundings, Respond, Refuse, Comes, Receive, Overrun, EndOfBody, Finalize,
       FinalizeFails, Stage, StageFails, NetworkFails, EndEarly, Purge, Replace, Publish

\* Nothing of a download changes, or only the count of what went wrong.
LEMMA DownloadUncounted ==
    ASSUME DownloadInv, faults' \in 0 .. MaxFaults,
           UNCHANGED <<parts, tpks, plan, staged, site, job, torn>>
    PROVE  DownloadInv'
<1>1. Goes(parts, parts') /\ Goes(tpks, tpks')
    BY Going DEF DownloadInv
<1>2. site' \in [Packs -> Seq(Blocks)] /\ \A p \in Packs : site'[p] \in Sites[p]
    BY DEF DownloadInv, DownloadTypeOK
<1>. QED  BY <1>1, <1>2, PurgingKeeps

\* Nothing of a download changes.
LEMMA DownloadUnchanged ==
    ASSUME DownloadInv, UNCHANGED downloadVars
    PROVE  DownloadInv'
<1>1. faults' \in 0 .. MaxFaults
    BY DEF DownloadInv, DownloadTypeOK, downloadVars
<1>. QED  BY <1>1, DownloadUncounted DEF downloadVars

\* Another plan, or other contents in the store, while no download runs.
LEMMA PlanningKeeps ==
    ASSUME DownloadInv, job.phase = "idle",
           plan' \in Seq(Packs), staged' \subseteq staged, faults' \in 0 .. MaxFaults,
           UNCHANGED <<parts, tpks, site, job, torn>>
    PROVE  DownloadInv'
BY DEF DownloadInv, DownloadTypeOK, FinishedIsAdvertised, PartsFit, AskedForRest, BodyInPlace,
       NothingElseKept, InPlace, Size

\* A crash of a check.
LEMMA ForgetKeepsChannel ==
    ASSUME ChannelInv, Forget
    PROVE  ChannelInv'
BY CallsKeepChannel DEF Calls

\* Every step of the client keeps the invariant.
LEMMA ClientStepKeeps ==
    ASSUME ClientInv, [ClientNext]_clientVars
    PROVE  ClientInv'
<1>. USE DEF ClientInv
<1>0. DownloadTypeOK /\ ChannelTypeOK /\ plan \in Seq(Packs) /\ staged \subseteq Packs /\ faults \in 0 .. MaxFaults
    BY DEF DownloadInv, DownloadTypeOK, ChannelInv
<1>1. ASSUME NEW update \in BOOLEAN, ClientCheck(update)
      PROVE  ClientInv'
    <2>1. ChannelInv'
        BY <1>1, CallsKeepChannel DEF ClientCheck, Calls
    <2>2. DownloadInv' /\ LockInv'
        BY <1>1, DownloadUnchanged DEF ClientCheck, LockFree, LockInv, downloadVars
    <2>. QED  BY <2>1, <2>2
<1>2. CASE ClientFetch
    <2>1. Calls
        <3>1. body # NoDoc => body \in Known
            BY DEF ChannelInv, UrlsKnown
        <3>2. sig # NoDoc => sig \in Signatures
            BY DEF ChannelInv, UrlsKnown
        <3>3. \A d \in released : d \in Known /\ Signature(d) \in Signatures
            BY DEF Known, Signatures
        <3>. QED  BY <1>2, <3>1, <3>2, <3>3 DEF ClientFetch, Calls
    <2>2. ChannelInv'
        BY <2>1, CallsKeepChannel
    <2>3. call.phase # "idle" /\ faults' \in 0 .. MaxFaults
        BY <1>0, <1>2, CountedType DEF ClientFetch, FetchBody, FetchSignature
    <2>4. job.phase = "idle" /\ job' = job
        BY <1>2, <2>3 DEF LockInv, ClientFetch
    <2>5. DownloadInv'
        BY <1>2, <2>3, DownloadUncounted DEF ClientFetch
    <2>. QED  BY <2>2, <2>4, <2>5 DEF LockInv
<1>3. CASE ClientAccept
    <2>1. ChannelInv'
        BY <1>3, AcceptKeepsChannel DEF ClientAccept
    <2>2. call.phase = "verify" /\ job.phase = "idle" /\ job' = job
        BY <1>3 DEF ClientAccept, Accept, LockInv
    <2>3. plan' \in Seq(Packs)
        BY <1>0, <1>3, <2>2, PlanType DEF ClientAccept, ChannelTypeOK
    <2>4. DownloadInv'
        BY <1>0, <1>3, <2>2, <2>3, PlanningKeeps DEF ClientAccept
    <2>. QED  BY <2>1, <2>2, <2>4 DEF LockInv
<1>4. CASE ClientReject
    <2>1. ChannelInv'
        BY <1>4, CallsKeepChannel DEF ClientReject, Calls
    <2>2. DownloadInv' /\ LockInv'
        BY <1>4, DownloadUnchanged DEF ClientReject, Reject, NoCall, LockInv
    <2>. QED  BY <2>1, <2>2
<1>5. CASE ClientFail
    <2>1. ChannelInv'
        BY <1>5, CallsKeepChannel DEF ClientFail, Calls
    <2>2. faults' \in 0 .. MaxFaults
        BY <1>0, <1>5, CountedType DEF ClientFail
    <2>3. DownloadInv'
        BY <1>5, <2>2, DownloadUncounted DEF ClientFail
    <2>. QED  BY <1>5, <2>1, <2>3 DEF ClientFail, Fail, NoCall, LockInv
<1>6. CASE ClientDownload
    <2>1. ChannelInv'
        BY <1>6, CallsKeepChannel DEF ClientDownload, Calls
    <2>. QED  BY <1>6, <2>1, BeginKeeps DEF ClientDownload, NoCall, LockInv
<1>7. CASE NothingToDo
    <2>1. ChannelInv'
        BY <1>7, CallsKeepChannel DEF NothingToDo, Calls
    <2>2. DownloadInv' /\ LockInv'
        BY <1>7, DownloadUnchanged DEF NothingToDo, NoCall, LockInv
    <2>. QED  BY <2>1, <2>2
<1>8. CASE ClientStep \/ ClientTrouble
    <2>1. ChannelInv'
        BY <1>8, CallsKeepChannel DEF ClientStep, ClientTrouble, Calls
    <2>2. DownloadInv'
        BY <1>8, FetchKeeps, SurroundingsKeep DEF ClientStep, ClientTrouble
    <2>3. call' = call /\ (job.phase = "idle" => UNCHANGED job)
        BY <1>0, <1>8, Idles DEF ClientStep, ClientTrouble, channelVars
    <2>. QED  BY <2>1, <2>2, <2>3 DEF LockInv
<1>9. CASE ClientCrash
    <2>1. ChannelInv'
        BY <1>9, ForgetKeepsChannel DEF ClientCrash
    <2>. QED  BY <1>9, <2>1, CrashKeeps DEF ClientCrash, Crash, Idle, LockInv
<1>10. CASE ClientReset
    <2>1. ChannelInv'
        BY <1>10, CallsKeepChannel DEF ClientReset, Calls
    <2>2. faults' \in 0 .. MaxFaults /\ <<>> \in Seq(Packs)
        BY <1>0, <1>10, CountedType DEF ClientReset
    <2>3. DownloadInv'
        BY <1>10, <2>2, PlanningKeeps DEF ClientReset, LockFree
    <2>. QED  BY <1>10, <2>1, <2>3 DEF ClientReset, LockInv
<1>11. CASE PublisherStep
    <2>1. ChannelInv'
        BY <1>11, PublisherKeepsChannel DEF PublisherStep
    <2>2. call' = call
        BY <1>11 DEF PublisherStep, Release, UploadBody, UploadSignature
    <2>3. DownloadInv' /\ LockInv'
        BY <1>11, <2>2, DownloadUnchanged DEF PublisherStep, LockInv, downloadVars
    <2>. QED  BY <2>1, <2>3
<1>12. CASE PublisherMistake
    <2>1. ChannelInv'
        BY <1>12, PublisherKeepsChannel DEF PublisherMistake
    <2>2. faults' \in 0 .. MaxFaults
        BY <1>0, <1>12, CountedType DEF PublisherMistake
    <2>3. DownloadInv'
        BY <1>12, <2>2, DownloadUncounted DEF PublisherMistake
    <2>4. UNCHANGED <<call, job>>
        BY <1>12 DEF PublisherMistake, Misplace
    <2>. QED  BY <2>1, <2>3, <2>4 DEF LockInv
<1>13. CASE UNCHANGED clientVars
    <2>1. ChannelInv'
        BY <1>13, CallsKeepChannel DEF clientVars, Calls
    <2>2. DownloadInv' /\ LockInv'
        BY <1>13, DownloadUnchanged DEF clientVars, channelVars, LockInv, downloadVars
    <2>. QED  BY <2>1, <2>2
<1>. QED
    BY <1>1, <1>2, <1>3, <1>4, <1>5, <1>6, <1>7, <1>8, <1>9, <1>10, <1>11, <1>12, <1>13
    DEF ClientNext

\* Nothing is known, nothing is kept, and nothing runs.
LEMMA ClientInitInv == ClientInit => ClientInv
<1>. SUFFICES ASSUME ClientInit
              PROVE  ClientInv
    OBVIOUS
<1>1. ChannelInv
    <2>1. CallShape(NoCall)
        BY DEF CallShape, NoCall, CallPhases
    <2>2. ChannelTypeOK
        BY <2>1 DEF ClientInit, ChannelInit, ChannelTypeOK, CallShape, NoCall
    <2>. QED  BY <2>2, ChannelAssumption
              DEF ClientInit, ChannelInit, ChannelInv, UrlsKnown, CallKnown, NewestHighest,
                  NeverLockedOut, PendingIsPublished, NoCall
<1>2. DownloadInv
    <2>1. <<>> \in Seq(Packs) /\ <<>> \in Seq(Blocks)
        OBVIOUS
    <2>2. site \in [Packs -> Seq(Blocks)]
        BY DownloadAssumption DEF ClientInit, DownloadInit
    <2>3. DownloadTypeOK
        BY <2>1, <2>2, DownloadAssumption DEF ClientInit, DownloadInit, DownloadTypeOK, Idle, Phases
    <2>. QED  BY <2>3 DEF ClientInit, DownloadInit, DownloadInv, PartsFit, FinishedIsAdvertised,
                          AskedForRest, BodyInPlace, NothingElseKept, Idle
<1>. QED  BY <1>1, <1>2 DEF ClientInit, ChannelInit, NoCall, ClientInv, LockInv

(***************************************************************************)
(* The invariant holds of every client.                                    *)
(***************************************************************************)
THEOREM ClientInvariant == ClientSpec => []ClientInv
BY ClientInitInv, ClientStepKeeps, PTL DEF ClientSpec

(***************************************************************************)
(* Files are files, and a download is at a pack of its plan.               *)
(***************************************************************************)
THEOREM TypesCorrect == ClientSpec => []ClientTypeOK
<1>1. ClientInv => ClientTypeOK
    BY DEF ClientInv, DownloadInv, ChannelInv, ClientTypeOK
<1>. QED  BY <1>1, ClientInvariant, PTL

(***************************************************************************)
(* Whatever answers, a part never grows beyond its pack, and its bytes     *)
(* stand where the server had them.                                        *)
(***************************************************************************)
THEOREM PartsAlwaysFit == ClientSpec => []PartsFit
<1>1. ClientInv => PartsFit
    BY DEF ClientInv, DownloadInv
<1>. QED  BY <1>1, ClientInvariant, PTL

(***************************************************************************)
(* A finished file is what the manifest listed.                            *)
(***************************************************************************)
THEOREM FinishedIsAlwaysAdvertised == ClientSpec => []FinishedIsAdvertised
<1>1. ClientInv => FinishedIsAdvertised
    BY DEF ClientInv, DownloadInv
<1>. QED  BY <1>1, ClientInvariant, PTL

(***************************************************************************)
(* The floors never pass what was published, whatever mixture of manifests *)
(* and signatures is served.                                               *)
(***************************************************************************)
THEOREM NobodyIsLockedOut == ClientSpec => []NeverLockedOut
<1>1. ClientInv => NeverLockedOut
    BY DEF ClientInv, ChannelInv
<1>. QED  BY <1>1, ClientInvariant, PTL

(***************************************************************************)
(* Plans are made of published manifests, with the floors on record.       *)
(***************************************************************************)
THEOREM PendingIsAlwaysPublished == ClientSpec => []PendingIsPublished
<1>1. ClientInv => PendingIsPublished
    BY DEF ClientInv, ChannelInv
<1>. QED  BY <1>1, ClientInvariant, PTL

\* A download that stages its packs has no part left, and removes the rest.
LEMMA StageEmpties ==
    ASSUME DownloadInv, Stage
    PROVE  \A p \in Packs : parts'[p] = NoFile /\ tpks'[p] = NoFile
<1>. SUFFICES ASSUME NEW p \in Packs
              PROVE  parts'[p] = NoFile /\ tpks'[p] = NoFile
    OBVIOUS
<1>1. job.phase = "stage" /\ job.index = Len(plan) + 1 /\ plan \in Seq(Packs)
    BY DEF Stage, DownloadInv, DownloadTypeOK
<1>2. parts[p] = NoFile /\ (tpks[p] # NoFile => p \in Asked)
    <2>1. job.index .. Len(plan) = {}
        BY <1>1
    <2>. QED  BY <1>1, <2>1 DEF DownloadInv, NothingElseKept
<1>3. Asked = Finished
    <2>1. job.index - 1 = Len(plan) /\ DOMAIN plan = 1 .. Len(plan)
        BY <1>1
    <2>. QED  BY <2>1 DEF Asked, Finished
<1>4. parts' = parts /\ tpks' = Without(tpks, Finished)
    BY DEF Stage, Return
<1>. QED  BY <1>2, <1>3, <1>4 DEF Without

(***************************************************************************)
(* A download that ends well leaves the cache root empty.                  *)
(***************************************************************************)
THEOREM StagingAlwaysEmptiesTheCache == ClientSpec => StagingEmptiesTheCache
<1>1. ASSUME ClientInv, [ClientNext]_clientVars, staged' # staged, faults' = faults
      PROVE  Stage
    <2>1. DownloadTypeOK /\ faults \in Nat
        BY <1>1 DEF ClientInv, DownloadInv, DownloadTypeOK
    <2>2. ~ \E update \in BOOLEAN : ClientCheck(update)
        BY <1>1 DEF ClientCheck, downloadVars
    <2>3. ~(ClientFetch \/ ClientAccept \/ ClientReject \/ ClientFail \/ ClientDownload \/ NothingToDo)
        BY <1>1 DEF ClientFetch, ClientAccept, ClientReject, ClientFail, ClientDownload,
                    BeginDownload, NothingToDo, downloadVars
    <2>4. ~(ClientCrash \/ ClientReset)
        BY <1>1, <2>1 DEF ClientCrash, Crash, ClientReset, Counted
    <2>5. ~(PublisherStep \/ PublisherMistake \/ UNCHANGED clientVars)
        BY <1>1 DEF PublisherStep, PublisherMistake, clientVars, downloadVars
    <2>6. ClientTrouble => FALSE
        BY <1>1 DEF ClientTrouble, Surroundings, NetworkFails, EndEarly, Purge, Replace, Publish
    <2>7. ClientStep => Stage
        BY <1>1 DEF ClientStep, Fetch, Respond, Refuse, Receive, Overrun, EndOfBody, Finalize,
                    FinalizeFails, StageFails
    <2>. QED  BY <1>1, <2>2, <2>3, <2>4, <2>5, <2>6, <2>7 DEF ClientNext
<1>2. ClientInv /\ [ClientNext]_clientVars =>
          [staged' # staged /\ faults' = faults =>
              \A p \in Packs : parts'[p] = NoFile /\ tpks'[p] = NoFile]_downloadVars
    BY <1>1, StageEmpties DEF ClientInv
<1>. QED  BY <1>2, ClientInvariant, PTL DEF ClientSpec, StagingEmptiesTheCache
=============================================================================
