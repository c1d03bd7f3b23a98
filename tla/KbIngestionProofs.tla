-------------------------- MODULE KbIngestionProofs -------------------------
(***************************************************************************)
(* What holds of KbIngestion for any number of documents, versions,        *)
(* workers, retries and waiting calls.  The first part takes the operations*)
(* on the records of a knowledge base one by one; the second part adds the *)
(* workers, and the segments that the search service holds for the base,   *)
(* although its calls are served at any time after they were sent.         *)
(***************************************************************************)
EXTENDS KbIngestion, TLAPS

-----------------------------------------------------------------------------
(* The records of a base: the invariant.  The first four parts are what is *)
(* to be shown, the other ones what an operation has to know to keep them. *)

\* The parts of the invariant that speak of the documents alone, so that they
\* can be stated of documents in the middle of an operation.
Succession(docs) ==
  \A d, e \in Live(docs) :
    /\ docs[d].replaces = docs[e].replaces /\ d # e => docs[d].replaces = NoDoc
    /\ docs[d].replaces = e => docs[e].replaces \notin Live(docs)

\* Only what was uploaded replaces something, or is replaced.
Uploaded(docs) ==
  \A d \in Docs :
    /\ docs[d].status = "absent" => docs[d].replaces = NoDoc
    /\ \A e \in Docs : docs[d].replaces = e => docs[e].status # "absent"

\* No document is shown as ready that is not searched.
ReadyIsActive(docs) == \A d \in Docs : docs[d].status = "ready" => d \in ActiveDocuments

\* Versions are numbered in the order in which they are made.
Numbered == kb.active <= kb.last /\ kb.pending <= kb.last

\* There are version numbers for the retries of the pending build.
RoomForRetries ==
  kb.pending # NoVersion =>
    kb.last + MaxRetries - jobs[kb.pending].retries <= MaxVersions

\* The files of live documents are stored.
OriginalsKept == Live(documents) \subseteq originals

KbInv ==
  /\ KbTypeOK /\ OneBuild /\ PendingIsDesired /\ OneSuccessor /\ DocumentsTell
  /\ Uploaded(documents) /\ Numbered /\ RoomForRetries /\ OriginalsKept

-----------------------------------------------------------------------------
(* What the parts of the operations do.                                    *)

\* Two states of the documents in which the same ones are live and replace
\* the same ones: everything but what is shown of a live document agrees.
SameLive(docs, new) ==
  /\ new \in [Docs -> Documents]
  /\ \A d \in Docs : new[d].replaces = docs[d].replaces
  /\ Live(new) = Live(docs)
  /\ \A d \in Docs \ Live(docs) : new[d] = docs[d]

\* What is wanted, and who stands in for whom, depends on nothing else.
LEMMA SameLiveKeeps ==
  ASSUME NEW docs \in [Docs -> Documents], NEW new, SameLive(docs, new)
  PROVE  /\ Desired(new) = Desired(docs)
         /\ Succession(docs) => Succession(new)
         /\ Uploaded(docs) => Uploaded(new)
<1>1. Live(docs) \subseteq Docs
  BY DEF Live
<1>2. Desired(new) = Desired(docs)
  BY <1>1 DEF SameLive, Desired
<1>3. Succession(docs) => Succession(new)
  BY <1>1 DEF SameLive, Succession
<1>4. ASSUME NEW d \in Docs PROVE new[d].status = "absent" <=> docs[d].status = "absent"
  BY DEF SameLive, Live
<1>5. Uploaded(docs) => Uploaded(new)
  BY <1>4 DEF SameLive, Uploaded
<1> QED  BY <1>2, <1>3, <1>5

\* Showing live documents as something else changes nothing but that.
LEMMA SetStatusSame ==
  ASSUME NEW docs \in [Docs -> Documents], NEW S \in SUBSET Live(docs),
         NEW status \in DocStatus \ {"absent", "removed"}
  PROVE  /\ SameLive(docs, SetStatus(docs, S, status))
         /\ \A d \in Docs : SetStatus(docs, S, status)[d].status =
                              IF d \in S THEN status ELSE docs[d].status
BY DEF SetStatus, SameLive, Live, Documents, DocStatus

\* After a failure a live document is ready if it is searched, or has failed.
LEMMA RestoreSame ==
  ASSUME NEW docs \in [Docs -> Documents]
  PROVE  /\ SameLive(docs, Restore(docs))
         /\ \A d \in Live(docs) : Restore(docs)[d].status =
                                    IF d \in ActiveDocuments THEN "ready" ELSE "failed"
<1> DEFINE failed == SetStatus(docs, Live(docs), "failed")
<1>1. /\ SameLive(docs, failed)
      /\ \A d \in Docs : failed[d].status = IF d \in Live(docs) THEN "failed" ELSE docs[d].status
  BY SetStatusSame DEF DocStatus
<1>2. failed \in [Docs -> Documents] /\ Live(failed) = Live(docs) /\ Live(docs) \subseteq Docs
  BY <1>1 DEF SameLive, Live
<1> HIDE DEF failed
<1> DEFINE ready == SetStatus(failed, Live(docs) \cap ActiveDocuments, "ready")
<1>3. /\ SameLive(failed, ready)
      /\ \A d \in Docs : ready[d].status =
           IF d \in Live(docs) \cap ActiveDocuments THEN "ready" ELSE failed[d].status
  BY <1>2, SetStatusSame DEF DocStatus
<1>4. Restore(docs) = ready
  BY DEF Restore, failed
<1>5. SameLive(docs, ready)
  BY <1>1, <1>3 DEF SameLive
<1> QED  BY <1>1, <1>2, <1>3, <1>4, <1>5

\* A removal makes documents less live, and changes nothing else.
LEMMA RemoveLess ==
  ASSUME NEW docs \in [Docs -> Documents], NEW gone \in SUBSET Live(docs)
  PROVE  /\ Remove(docs, gone) \in [Docs -> Documents]
         /\ \A d \in Docs : Remove(docs, gone)[d].replaces = docs[d].replaces
         /\ Live(Remove(docs, gone)) = Live(docs) \ gone
         /\ \A d \in Docs \ gone : Remove(docs, gone)[d] = docs[d]
         /\ Uploaded(docs) => Uploaded(Remove(docs, gone))
         /\ Succession(docs) => Succession(Remove(docs, gone))
<1> DEFINE new == Remove(docs, gone)
<1>1. new \in [Docs -> Documents] /\ \A d \in Docs : new[d].replaces = docs[d].replaces
  BY DEF Remove, Documents, DocStatus
<1>2. Live(new) = Live(docs) \ gone
  BY DEF Remove, Live, Documents
<1>3. \A d \in Docs \ gone : new[d] = docs[d]
  BY DEF Remove
<1>4. \A d \in Docs : new[d].status = "absent" <=> docs[d].status = "absent"
  BY DEF Remove, Live, Documents
<1>5. Live(docs) \subseteq Docs
  BY DEF Live
<1> HIDE DEF new
<1>6. Uploaded(docs) => Uploaded(new)
  BY <1>1, <1>4 DEF Uploaded
<1>7. Succession(docs) => Succession(new)
  BY <1>1, <1>2, <1>5 DEF Succession
<1> QED  BY <1>1, <1>2, <1>3, <1>6, <1>7 DEF new

-----------------------------------------------------------------------------
(* Schedule, by which all changes of the documents end.                    *)

\* An attempt that is over is a job like any other.
LEMMA RetireTyped ==
  ASSUME NEW j \in Jobs, NEW status \in Retired
  PROVE  /\ Retire(j, status) \in Jobs
         /\ ~Unfinished(Retire(j, status))
         /\ Retire(j, status).status = status
         /\ Retire(j, status).documents = j.documents
         /\ Retire(j, status).retries = j.retries
<1>1. 0 \in 0 .. LeaseTime
  BY KbAssumption
<1> QED
  BY <1>1 DEF Retire, Unfinished, Jobs, JobStatus, Retired, CleanupStatus

\* Cancelling what is unfinished touches no document.
LEMMA RetireUnfinishedTyped ==
  ASSUME NEW js \in [Versions -> Jobs]
  PROVE  /\ RetireUnfinished(js) \in [Versions -> Jobs]
         /\ \A v \in Versions : ~Unfinished(RetireUnfinished(js)[v])
         /\ \A v \in Versions : RetireUnfinished(js)[v].documents = js[v].documents
<1>1. \A v \in Versions :
        Retire(js[v], "cancelled") \in Jobs /\ ~Unfinished(Retire(js[v], "cancelled"))
          /\ Retire(js[v], "cancelled").documents = js[v].documents
  BY RetireTyped DEF Retired
<1> QED  BY <1>1 DEF RetireUnfinished

\* The documents a build is scheduled of have its status, the others theirs.
LEMMA DesiredSame ==
  ASSUME NEW docs \in [Docs -> Documents], NEW status \in {"queued", "processing"}
  PROVE  /\ SameLive(docs, SetStatus(docs, Desired(docs), status))
         /\ \A d \in Docs :
              SetStatus(docs, Desired(docs), status)[d].status =
                IF d \in Desired(docs) THEN status ELSE docs[d].status
<1>1. Desired(docs) \in SUBSET Live(docs)
  BY DEF Desired
<1>2. status \in DocStatus \ {"absent", "removed"}
  BY DEF DocStatus
<1> QED  BY <1>1, <1>2, SetStatusSame

\* A build of what is wanted now replaces the pending one, if there is a
\* version number left for it.
LEMMA ScheduleKeeps ==
  ASSUME KbTypeOK, Numbered,
         NEW docs \in [Docs -> Documents], NEW js \in [Versions -> Jobs],
         NEW status \in {"queued", "processing"}, NEW retries \in 0 .. MaxRetries,
         kb.last + 1 + MaxRetries - retries <= MaxVersions,
         \A v \in Versions : js[v].documents = jobs[v].documents,
         Succession(docs), Uploaded(docs), ReadyIsActive(docs),
         originals' \subseteq Docs, Live(docs) \subseteq originals',
         Schedule(docs, js, status, retries)
  PROVE  KbInv'
<1> USE VersionsAssumption, KbAssumption
<1> DEFINE next == kb.last + 1
           new == SetStatus(docs, Desired(docs), status)
<1>1. next \in Versions /\ next # NoVersion /\ kb.last \in Nat
  BY DEF KbTypeOK, Bases, Versions, NoVersion
<1>2. Desired(docs) \in SUBSET Live(docs) /\ Live(docs) \subseteq Docs
  BY DEF Desired, Live
<1>3. /\ SameLive(docs, new)
      /\ \A d \in Docs : new[d].status = IF d \in Desired(docs) THEN status ELSE docs[d].status
  BY DesiredSame
<1>4. /\ kb' = [kb EXCEPT !.status = "indexing", !.pending = next, !.last = next]
      /\ documents' = new
      /\ jobs' = [RetireUnfinished(js) EXCEPT ![next] = NewJob(docs, status, retries)]
  BY DEF Schedule, KbTypeOK, Bases
<1> HIDE DEF new
<1>5. NewJob(docs, status, retries) \in Jobs
  BY <1>2 DEF NewJob, Jobs, JobStatus, CleanupStatus
<1>6. /\ jobs' \in [Versions -> Jobs]
      /\ jobs'[next] = NewJob(docs, status, retries)
      /\ \A v \in Versions \ {next} :
           ~Unfinished(jobs'[v]) /\ jobs'[v].documents = jobs[v].documents
  BY <1>1, <1>4, <1>5, RetireUnfinishedTyped
<1>7. KbTypeOK'
  <2>1. next \in 0 .. MaxVersions /\ "indexing" \in BaseStatus
    BY <1>1 DEF Versions, BaseStatus
  <2>2. kb' \in Bases
    BY <2>1, <1>1, <1>4 DEF KbTypeOK, Bases
  <2> QED  BY <2>2, <1>3, <1>4, <1>6 DEF KbTypeOK, SameLive
<1>8. kb'.pending = next /\ kb'.last = next /\ kb'.active = kb.active /\ kb'.status = "indexing"
  BY <1>4 DEF KbTypeOK, Bases
<1>9. OneBuild'
  <2>1. Unfinished(jobs'[next])
    BY <1>6 DEF NewJob, Unfinished
  <2> QED  BY <2>1, <1>1, <1>6, <1>8 DEF OneBuild, NoVersion
<1>10. Desired(new) = Desired(docs) /\ Succession(new) /\ Uploaded(new) /\ Live(new) = Live(docs)
  BY <1>3, SameLiveKeeps DEF SameLive
<1>11. PendingIsDesired'
  BY <1>2, <1>4, <1>6, <1>8, <1>10 DEF PendingIsDesired, NewJob
<1>12. OneSuccessor' /\ Uploaded(documents)'
  BY <1>4, <1>10 DEF OneSuccessor, Succession, Uploaded
<1>13. ActiveDocuments' = ActiveDocuments
  <2>1. kb.active # next /\ kb.active \in Versions \cup {NoVersion}
    BY <1>1 DEF Numbered, KbTypeOK, Bases, Versions, NoVersion
  <2> QED  BY <2>1, <1>6, <1>8 DEF ActiveDocuments
<1>14. DocumentsTell'
  BY <1>1, <1>3, <1>4, <1>8, <1>13 DEF DocumentsTell, ReadyIsActive
<1>15. Numbered' /\ RoomForRetries'
  <2>1. kb.active \in Nat
    BY DEF KbTypeOK, Bases, Versions, NoVersion
  <2> QED  BY <2>1, <1>1, <1>6, <1>8 DEF Numbered, RoomForRetries, NewJob
<1>16. OriginalsKept'
  BY <1>4, <1>10 DEF OriginalsKept
<1> QED  BY <1>7, <1>9, <1>11, <1>12, <1>14, <1>15, <1>16 DEF KbInv

-----------------------------------------------------------------------------
(* What users do.                                                          *)

\* What the invariant says of the documents as they are.
LEMMA DocumentsNow ==
  ASSUME KbInv
  PROVE  /\ documents \in [Docs -> Documents] /\ jobs \in [Versions -> Jobs]
         /\ Succession(documents) /\ Uploaded(documents) /\ ReadyIsActive(documents)
         /\ Live(documents) \subseteq Docs
BY DEF KbInv, KbTypeOK, OneSuccessor, Succession, DocumentsTell, ReadyIsActive, Live

\* A new document replaces nothing, and nothing replaces it yet.
LEMMA UploadKeeps ==
  ASSUME KbInv, NEW d \in Docs, Upload(d)
  PROVE  KbInv'
<1> USE KbAssumption
<1> DEFINE docs == [documents EXCEPT ![d].status = "queued"]
<1>1. documents[d].status = "absent" /\ documents[d].replaces = NoDoc
  BY DEF Upload, KbInv, Uploaded
<1>2. /\ docs \in [Docs -> Documents]
      /\ docs[d].status = "queued" /\ docs[d].replaces = NoDoc
      /\ \A e \in Docs \ {d} : docs[e] = documents[e]
  BY <1>1, DocumentsNow DEF Documents, DocStatus
<1>3. \A e \in Docs : documents[e].replaces # d
  BY <1>1, DocumentsNow DEF Uploaded
<1>4. Schedule(docs, jobs, "queued", 0) /\ originals' = originals \cup {d}
  BY DEF Upload
<1>5. kb.last + 1 + MaxRetries - 0 <= MaxVersions
  BY DEF Upload, MayChange, KbInv, KbTypeOK, Bases
<1> HIDE DEF docs
<1>6. Live(docs) = Live(documents) \cup {d}
  BY <1>2 DEF Live
<1>7. Succession(docs)
  BY <1>1, <1>2, <1>3, <1>6, DocumentsNow DEF Succession
<1>8. Uploaded(docs)
  BY <1>1, <1>2, <1>3, DocumentsNow DEF Uploaded
<1>9. ReadyIsActive(docs)
  BY <1>2, DocumentsNow DEF ReadyIsActive
<1>10. originals' \subseteq Docs /\ Live(docs) \subseteq originals'
  BY <1>4, <1>6 DEF KbInv, KbTypeOK, OriginalsKept
<1> QED
  BY <1>2, <1>4, <1>5, <1>7, <1>8, <1>9, <1>10, DocumentsNow, ScheduleKeeps DEF KbInv

\* A replacement takes the place of the document that is, or was to be, replaced.
LEMMA ReplaceKeeps ==
  ASSUME KbInv, NEW d \in Docs, NEW old \in Docs, Replace(d, old)
  PROVE  KbInv'
<1> USE KbAssumption
<1> DEFINE target == ReplacedBy(old)
           prior == PriorReplacements(target)
           rest == Remove(documents, prior)
           docs == [rest EXCEPT ![d] = [status |-> "queued", replaces |-> target]]
<1>1. documents[d].status = "absent" /\ old \in Live(documents)
  BY DEF Replace
<1>2. prior \in SUBSET Live(documents) /\ d \notin Live(documents)
  BY <1>1, DocumentsNow DEF PriorReplacements, Live
<1>3. /\ rest \in [Docs -> Documents]
      /\ \A e \in Docs : rest[e].replaces = documents[e].replaces
      /\ Live(rest) = Live(documents) \ prior
      /\ \A e \in Docs \ prior : rest[e] = documents[e]
      /\ Uploaded(rest) /\ Succession(rest)
  BY <1>2, DocumentsNow, RemoveLess
  \* The target is live, stays so, and replaces nothing that is live.
<1>4. /\ target \in Live(documents) /\ target \notin prior
      /\ documents[target].replaces \notin Live(documents)
  <2>1. CASE documents[old].replaces \in Live(documents)
    <3>1. target = documents[old].replaces
      BY <2>1 DEF ReplacedBy
    <3>2. documents[target].replaces \notin Live(documents)
      BY <1>1, <2>1, <3>1, DocumentsNow DEF Succession
    <3> QED  BY <2>1, <3>1, <3>2 DEF PriorReplacements
  <2>2. CASE documents[old].replaces \notin Live(documents)
    <3>1. target = old
      BY <2>2 DEF ReplacedBy
    <3> QED  BY <1>1, <2>2, <3>1 DEF PriorReplacements
  <2> QED  BY <2>1, <2>2
<1>5. /\ Schedule(docs, jobs, "queued", 0)
      /\ originals' = (originals \ prior) \cup {d}
      /\ kb.last + 1 + MaxRetries - 0 <= MaxVersions
  BY DEF Replace, MayChange, KbInv, KbTypeOK, Bases
<1>6. target \in Docs /\ prior \subseteq Docs
  BY <1>2, <1>4, DocumentsNow
<1>7. \A e \in Live(rest) : rest[e].replaces # target
  BY <1>3, DocumentsNow DEF PriorReplacements
<1>8. rest[target].replaces \notin Live(rest) /\ target \in Live(rest)
  BY <1>3, <1>4, <1>6
<1>9. rest[d].status = "absent"
  BY <1>1, <1>2, <1>3
<1>10. \A e \in Docs : rest[e].replaces # d
  BY <1>3, <1>9 DEF Uploaded
<1> HIDE DEF target, prior, rest
<1>11. /\ docs \in [Docs -> Documents]
       /\ docs[d].status = "queued" /\ docs[d].replaces = target
       /\ \A e \in Docs \ {d} : docs[e] = rest[e]
  BY <1>3, <1>6 DEF Documents, DocStatus
<1> HIDE DEF docs
<1>12. Live(docs) = Live(rest) \cup {d} /\ Live(rest) \subseteq Docs /\ d \notin Live(rest)
  BY <1>9, <1>11 DEF Live
<1>13. Succession(docs)
  <2> SUFFICES ASSUME NEW e \in Live(docs), NEW f \in Live(docs)
               PROVE  /\ docs[e].replaces = docs[f].replaces /\ e # f
                           => docs[e].replaces = NoDoc
                      /\ docs[e].replaces = f => docs[f].replaces \notin Live(docs)
    BY DEF Succession
  <2>1. CASE e = d
    <3>1. f # d => docs[f] = rest[f] /\ f \in Live(rest)
      BY <1>11, <1>12
    <3>2. target # d /\ docs[target] = rest[target]
      BY <1>8, <1>11, <1>12, <1>6
    <3> QED  BY <2>1, <3>1, <3>2, <1>7, <1>8, <1>10, <1>6, <1>11, <1>12
  <2>2. CASE e # d /\ f = d
    <3>1. docs[e] = rest[e] /\ e \in Live(rest)
      BY <2>2, <1>11, <1>12
    <3> QED  BY <2>2, <3>1, <1>7, <1>10, <1>11, <1>12
  <2>3. CASE e # d /\ f # d
    <3>1. docs[e] = rest[e] /\ e \in Live(rest) /\ docs[f] = rest[f] /\ f \in Live(rest)
      BY <2>3, <1>11, <1>12
    <3> QED  BY <3>1, <1>3, <1>10, <1>12 DEF Succession
  <2> QED  BY <2>1, <2>2, <2>3
<1>14. Uploaded(docs)
  <2>1. docs[target].status # "absent"
    BY <1>6, <1>8, <1>9, <1>11 DEF Live
  <2> QED  BY <2>1, <1>3, <1>10, <1>11 DEF Uploaded
<1>15. ReadyIsActive(docs)
  <2>1. \A e \in Docs : rest[e].status = "ready" => documents[e].status = "ready"
    BY <1>2, DocumentsNow DEF rest, Remove, Documents
  <2> QED  BY <2>1, <1>11, DocumentsNow DEF ReadyIsActive
<1>16. originals' \subseteq Docs /\ Live(docs) \subseteq originals'
  BY <1>3, <1>5, <1>12 DEF KbInv, KbTypeOK, OriginalsKept
<1> QED
  BY <1>5, <1>11, <1>13, <1>14, <1>15, <1>16, DocumentsNow, ScheduleKeeps DEF KbInv

\* The same documents are built again.
LEMMA RebuildKeeps ==
  ASSUME KbInv, Rebuild
  PROVE  KbInv'
<1>1. /\ Schedule(documents, jobs, "queued", 0) /\ UNCHANGED originals
      /\ kb.last + 1 + MaxRetries - 0 <= MaxVersions
  BY KbAssumption DEF Rebuild, MayChange, KbInv, KbTypeOK, Bases
<1>2. originals' \subseteq Docs /\ Live(documents) \subseteq originals'
  BY <1>1 DEF KbInv, KbTypeOK, OriginalsKept
<1>3. 0 \in 0 .. MaxRetries
  BY KbAssumption
<1> QED
  BY <1>1, <1>2, <1>3, DocumentsNow, ScheduleKeeps DEF KbInv

\* A document leaves together with what was to replace it.
LEMMA RemoveDocumentKeeps ==
  ASSUME KbInv, NEW d \in Docs, RemoveDocument(d)
  PROVE  KbInv'
<1> DEFINE gone == {d} \cup PriorReplacements(d)
           docs == Remove(documents, gone)
<1>1. gone \in SUBSET Live(documents)
  BY DEF RemoveDocument, PriorReplacements
<1>2. /\ Schedule(docs, jobs, "queued", 0) /\ originals' = originals \ gone
      /\ kb.last + 1 + MaxRetries - 0 <= MaxVersions
  BY KbAssumption DEF RemoveDocument, MayChange, KbInv, KbTypeOK, Bases
<1>3. ReadyIsActive(docs)
  BY DocumentsNow DEF ReadyIsActive, Remove, Documents
<1> HIDE DEF gone
<1>4. /\ docs \in [Docs -> Documents] /\ Succession(docs) /\ Uploaded(docs)
      /\ Live(docs) = Live(documents) \ gone
  BY <1>1, DocumentsNow, RemoveLess
<1> HIDE DEF docs
<1>5. originals' \subseteq Docs /\ Live(docs) \subseteq originals'
  BY <1>2, <1>4 DEF KbInv, KbTypeOK, OriginalsKept
<1>6. 0 \in 0 .. MaxRetries
  BY KbAssumption
<1> QED
  BY <1>2, <1>3, <1>4, <1>5, <1>6, DocumentsNow, ScheduleKeeps DEF KbInv

\* Whatever ends the pending build without success: the documents are shown
\* as what searches still see.
LEMMA EndedKeeps ==
  ASSUME KbInv,
         kb' \in Bases, kb'.pending = NoVersion, kb'.status # "indexing",
         kb'.active = kb.active, kb'.last = kb.last,
         documents' = Restore(documents), UNCHANGED originals,
         jobs' \in [Versions -> Jobs], \A v \in Versions : ~Unfinished(jobs'[v]),
         \A v \in Versions : jobs'[v].documents = jobs[v].documents
  PROVE  KbInv'
<1>1. /\ SameLive(documents, documents')
      /\ \A d \in Live(documents) : documents'[d].status =
                                      IF d \in ActiveDocuments THEN "ready" ELSE "failed"
  BY DocumentsNow, RestoreSame
<1>2. KbTypeOK'
  BY <1>1 DEF KbInv, KbTypeOK, SameLive
<1>3. OneBuild' /\ PendingIsDesired' /\ RoomForRetries'
  BY DEF OneBuild, PendingIsDesired, RoomForRetries, Versions, NoVersion
<1>4. OneSuccessor' /\ Uploaded(documents)'
  BY <1>1, DocumentsNow, SameLiveKeeps DEF OneSuccessor, Succession, Uploaded
<1>5. ActiveDocuments' = ActiveDocuments
  BY DEF ActiveDocuments, KbInv, KbTypeOK, Bases
<1>6. DocumentsTell'
  <2>1. \A d \in Docs \ Live(documents) : documents'[d].status \in {"absent", "removed"}
    BY <1>1 DEF SameLive, Live
  <2> QED  BY <2>1, <1>1, <1>5 DEF DocumentsTell
<1>7. Numbered'
  BY DEF KbInv, KbTypeOK, Bases, Numbered, NoVersion
<1>8. OriginalsKept'
  BY <1>1 DEF OriginalsKept, KbInv, SameLive
<1> QED  BY <1>2, <1>3, <1>4, <1>6, <1>7, <1>8 DEF KbInv

\* Cancelling ends the pending build, if there is one.
LEMMA CancelBuildKeeps ==
  ASSUME KbInv, CancelBuild
  PROVE  KbInv'
<1>1. /\ jobs' \in [Versions -> Jobs] /\ \A v \in Versions : ~Unfinished(jobs'[v])
      /\ \A v \in Versions : jobs'[v].documents = jobs[v].documents
  BY DocumentsNow, RetireUnfinishedTyped DEF CancelBuild
<1>2. /\ kb' \in Bases /\ kb'.pending = NoVersion /\ kb'.status # "indexing"
      /\ kb'.active = kb.active /\ kb'.last = kb.last
  BY DEF CancelBuild, KbInv, KbTypeOK, Bases, BaseStatus
<1> QED  BY <1>1, <1>2, EndedKeeps DEF CancelBuild

\* A deleted base has no live document and no pending build.
LEMMA DeleteBaseKeeps ==
  ASSUME KbInv, DeleteBase
  PROVE  KbInv'
<1>1. /\ jobs' \in [Versions -> Jobs] /\ \A v \in Versions : ~Unfinished(jobs'[v])
  <2>1. \A v \in Versions : Retire(jobs[v], "cancelled") \in Jobs
                              /\ ~Unfinished(Retire(jobs[v], "cancelled"))
    BY DocumentsNow, RetireTyped DEF Retired
  <2>2. jobs' = [v \in Versions |-> IF jobs[v].status = "none" THEN jobs[v]
                                    ELSE Retire(jobs[v], "cancelled")]
    BY DEF DeleteBase
  <2> QED  BY <2>1, <2>2, DocumentsNow DEF Unfinished
<1>2. /\ documents' \in [Docs -> Documents]
      /\ \A d \in Docs : /\ documents'[d].status \in {"absent", "removed"}
                         /\ documents'[d].replaces = documents[d].replaces
                         /\ documents'[d].status = "absent" <=> documents[d].status = "absent"
  BY DocumentsNow DEF DeleteBase, Documents, DocStatus
<1>3. /\ kb' \in Bases /\ kb'.pending = NoVersion /\ kb'.status # "indexing"
      /\ kb'.active = kb.active /\ kb'.last = kb.last
  BY DEF DeleteBase, KbInv, KbTypeOK, Bases, BaseStatus
<1>4. KbTypeOK'
  BY <1>1, <1>2, <1>3 DEF KbTypeOK, DeleteBase
<1>5. Live(documents') = {}
  BY <1>2 DEF Live
<1>6. OneBuild' /\ PendingIsDesired' /\ RoomForRetries'
  BY <1>1, <1>3 DEF OneBuild, PendingIsDesired, RoomForRetries, Versions, NoVersion
<1>7. OneSuccessor' /\ Uploaded(documents)' /\ DocumentsTell' /\ OriginalsKept'
  BY <1>2, <1>5, DocumentsNow DEF OneSuccessor, Uploaded, DocumentsTell, OriginalsKept
<1>8. Numbered'
  BY <1>3 DEF KbInv, KbTypeOK, Bases, Numbered, NoVersion
<1> QED  BY <1>4, <1>6, <1>7, <1>8 DEF KbInv

\* No request of a user breaks the invariant.
LEMMA UserStepKeeps == KbInv /\ UserStep => KbInv'
BY UploadKeeps, ReplaceKeeps, RemoveDocumentKeeps, RebuildKeeps, CancelBuildKeeps,
   DeleteBaseKeeps DEF UserStep

-----------------------------------------------------------------------------
(* What workers ask for.                                                   *)

\* Operations that leave the pending build what it is.
LEMMA PendingStays ==
  ASSUME KbInv, UNCHANGED <<kb, originals>>,
         SameLive(documents, documents'), DocumentsTell',
         jobs' \in [Versions -> Jobs],
         \A v \in Versions : /\ Unfinished(jobs'[v]) <=> Unfinished(jobs[v])
                             /\ jobs'[v].documents = jobs[v].documents
                             /\ jobs'[v].retries = jobs[v].retries
  PROVE  KbInv'
<1>1. KbTypeOK'
  BY DEF KbInv, KbTypeOK, SameLive
<1>2. kb.pending \in Versions \cup {NoVersion}
  BY DEF KbInv, KbTypeOK, Bases
<1>3. Desired(documents') = Desired(documents)
  BY DocumentsNow, SameLiveKeeps
<1>4. OneBuild' /\ PendingIsDesired' /\ RoomForRetries'
  BY <1>2, <1>3 DEF KbInv, OneBuild, PendingIsDesired, RoomForRetries
<1>5. OneSuccessor' /\ Uploaded(documents)'
  BY DocumentsNow, SameLiveKeeps DEF OneSuccessor, Succession, Uploaded
<1>6. Numbered' /\ OriginalsKept'
  BY DEF KbInv, Numbered, OriginalsKept, SameLive
<1> QED  BY <1>1, <1>4, <1>5, <1>6 DEF KbInv

\* The same, when no document changes at all.
LEMMA JobsOnly ==
  ASSUME KbInv, UNCHANGED <<kb, documents, originals>>,
         jobs' \in [Versions -> Jobs],
         \A v \in Versions : /\ Unfinished(jobs'[v]) <=> Unfinished(jobs[v])
                             /\ jobs'[v].documents = jobs[v].documents
                             /\ jobs'[v].retries = jobs[v].retries
  PROVE  KbInv'
<1>1. SameLive(documents, documents')
  BY DocumentsNow DEF SameLive
<1>2. kb.active \in Versions \cup {NoVersion}
  BY DEF KbInv, KbTypeOK, Bases
<1>3. DocumentsTell'
  BY <1>2 DEF KbInv, DocumentsTell, ActiveDocuments
<1> QED  BY <1>1, <1>3, PendingStays

\* Renewing the lease.
LEMMA RenewKeeps ==
  ASSUME KbInv, NEW v \in Versions, RenewJob(v)
  PROVE  KbInv'
<1>1. LeaseTime \in 0 .. LeaseTime
  BY KbAssumption
<1>2. /\ jobs' \in [Versions -> Jobs]
      /\ \A u \in Versions : /\ Unfinished(jobs'[u]) <=> Unfinished(jobs[u])
                             /\ jobs'[u].documents = jobs[u].documents
                             /\ jobs'[u].retries = jobs[u].retries
  BY <1>1, DocumentsNow DEF RenewJob, Jobs, Unfinished
<1> QED  BY <1>2, JobsOnly DEF RenewJob

\* Recording a cleanup.
LEMMA RecordCleanupKeeps ==
  ASSUME KbInv, NEW v \in Versions, RecordCleanup(v)
  PROVE  KbInv'
<1>1. /\ jobs' \in [Versions -> Jobs]
      /\ \A u \in Versions : /\ Unfinished(jobs'[u]) <=> Unfinished(jobs[u])
                             /\ jobs'[u].documents = jobs[u].documents
                             /\ jobs'[u].retries = jobs[u].retries
  BY DocumentsNow DEF RecordCleanup, Jobs, Unfinished, CleanupStatus
<1> QED  BY <1>1, JobsOnly DEF RecordCleanup

\* The clock goes on.
LEMMA KbTickKeeps ==
  ASSUME KbInv, KbTick
  PROVE  KbInv'
<1>1. /\ jobs' \in [Versions -> Jobs]
      /\ \A u \in Versions : /\ Unfinished(jobs'[u]) <=> Unfinished(jobs[u])
                             /\ jobs'[u].documents = jobs[u].documents
                             /\ jobs'[u].retries = jobs[u].retries
  <2>1. \A u \in Versions : jobs[u].lease > 0 => jobs[u].lease - 1 \in 0 .. LeaseTime
    BY DocumentsNow, KbAssumption DEF Jobs
  <2> QED  BY <2>1, DocumentsNow DEF KbTick, Jobs, Unfinished
<1> QED  BY <1>1, JobsOnly DEF KbTick

\* A queued job is taken, and its documents are shown as being processed.
LEMMA ClaimQueuedKeeps ==
  ASSUME KbInv, NEW v \in Versions, ClaimQueued(v)
  PROVE  KbInv'
<1>1. LeaseTime \in 0 .. LeaseTime
  BY KbAssumption
<1>2. /\ jobs' \in [Versions -> Jobs]
      /\ \A u \in Versions : /\ Unfinished(jobs'[u]) <=> Unfinished(jobs[u])
                             /\ jobs'[u].documents = jobs[u].documents
                             /\ jobs'[u].retries = jobs[u].retries
  <2>1. jobs' = [jobs EXCEPT ![v].status = "processing", ![v].lease = LeaseTime]
           /\ jobs[v].status = "queued"
    BY DEF ClaimQueued
  <2>2. [jobs[v] EXCEPT !.status = "processing", !.lease = LeaseTime] \in Jobs
    BY <1>1, DocumentsNow DEF Jobs, JobStatus
  <2>3. jobs' = [jobs EXCEPT ![v] = [jobs[v] EXCEPT !.status = "processing", !.lease = LeaseTime]]
    BY <2>1, DocumentsNow DEF Jobs
  <2> QED  BY <2>1, <2>2, <2>3, DocumentsNow DEF Jobs, Unfinished
<1>3. Desired(documents) \in SUBSET Live(documents)
  BY DEF Desired
<1>4. /\ SameLive(documents, documents')
      /\ \A d \in Docs : documents'[d].status =
           IF d \in Desired(documents) THEN "processing" ELSE documents[d].status
  <2>1. "processing" \in DocStatus \ {"absent", "removed"}
    BY DEF DocStatus
  <2>2. documents' = SetStatus(documents, Desired(documents), "processing")
    BY DEF ClaimQueued
  <2> QED  BY <2>1, <2>2, <1>3, DocumentsNow, SetStatusSame
<1>5. v = kb.pending /\ kb.pending # NoVersion
  BY DEF ClaimQueued, KbInv, OneBuild, Unfinished, Versions, NoVersion
<1>6. DocumentsTell'
  <2>1. kb.active \in Versions \cup {NoVersion} /\ kb' = kb
    BY DEF KbInv, KbTypeOK, Bases, ClaimQueued
  <2>2. ActiveDocuments' = ActiveDocuments
    BY <2>1, <1>2 DEF ActiveDocuments
  <2> QED  BY <2>1, <2>2, <1>4, <1>5, DocumentsNow DEF DocumentsTell, ReadyIsActive
<1> QED  BY <1>2, <1>4, <1>6, PendingStays DEF ClaimQueued

\* Only the pending build is queued or processing.
LEMMA ExpiredIsPending ==
  ASSUME KbInv, NEW v \in Versions, Unfinished(jobs[v])
  PROVE  /\ kb.pending = v /\ kb.pending # NoVersion
         /\ \A u \in Versions \ {v} : ~Unfinished(jobs[u])
BY DEF KbInv, OneBuild, Versions, NoVersion

\* An expired build is replaced by another attempt at the same documents.
LEMMA ClaimExpiredKeeps ==
  ASSUME KbInv, NEW v \in Versions, ClaimExpired(v)
  PROVE  KbInv'
<1> USE KbAssumption, VersionsAssumption
<1> DEFINE js == [jobs EXCEPT ![v] = Retire(@, "expired")]
           retries == jobs[v].retries + 1
<1>1. Unfinished(jobs[v]) /\ jobs[v].retries < MaxRetries /\ jobs[v] \in Jobs
  BY DocumentsNow DEF ClaimExpired, Expired, Unfinished
<1>2. kb.pending = v /\ kb.pending # NoVersion
  BY <1>1, ExpiredIsPending
<1>3. retries \in 0 .. MaxRetries
  BY <1>1 DEF Jobs
<1>4. kb.last + 1 + MaxRetries - retries <= MaxVersions
  BY <1>1, <1>2 DEF KbInv, RoomForRetries, Jobs, KbTypeOK, Bases
<1>5. /\ js \in [Versions -> Jobs]
      /\ \A u \in Versions : js[u].documents = jobs[u].documents
  <2>1. Retire(jobs[v], "expired") \in Jobs
           /\ Retire(jobs[v], "expired").documents = jobs[v].documents
    BY <1>1, RetireTyped DEF Retired
  <2> QED  BY <2>1, DocumentsNow
<1>6. Schedule(documents, js, "processing", retries) /\ UNCHANGED originals
  BY DEF ClaimExpired
<1>7. originals' \subseteq Docs /\ Live(documents) \subseteq originals'
  BY <1>6 DEF KbInv, KbTypeOK, OriginalsKept
<1> HIDE DEF js, retries
<1> QED
  BY <1>3, <1>4, <1>5, <1>6, <1>7, DocumentsNow, ScheduleKeeps DEF KbInv

\* The pending build is retired, and was the only one.
LEMMA RetirePending ==
  ASSUME KbInv, NEW v \in Versions, Unfinished(jobs[v]), NEW status \in Retired,
         jobs' = [jobs EXCEPT ![v] = Retire(@, status)],
         kb' = [kb EXCEPT !.status = Fallback, !.pending = NoVersion],
         documents' = Restore(documents), UNCHANGED originals
  PROVE  KbInv'
<1>1. /\ Retire(jobs[v], status) \in Jobs /\ ~Unfinished(Retire(jobs[v], status))
      /\ Retire(jobs[v], status).documents = jobs[v].documents
  BY DocumentsNow, RetireTyped
<1>2. /\ jobs' \in [Versions -> Jobs] /\ \A u \in Versions : ~Unfinished(jobs'[u])
      /\ \A u \in Versions : jobs'[u].documents = jobs[u].documents
  BY <1>1, DocumentsNow, ExpiredIsPending
<1>3. Fallback \in BaseStatus \ {"indexing"}
  BY DEF Fallback, BaseStatus
<1>4. /\ kb' \in Bases /\ kb'.pending = NoVersion /\ kb'.status # "indexing"
      /\ kb'.active = kb.active /\ kb'.last = kb.last
  BY <1>3 DEF KbInv, KbTypeOK, Bases
<1> QED  BY <1>2, <1>4, EndedKeeps

\* The last attempt has expired.
LEMMA ClaimExhaustedKeeps ==
  ASSUME KbInv, NEW v \in Versions, ClaimExhausted(v)
  PROVE  KbInv'
BY RetirePending DEF ClaimExhausted, Expired, Unfinished, Retired

\* A failure is reported by the attempt that is under way.
LEMMA FailKeeps ==
  ASSUME KbInv, NEW v \in Versions, Fenced(v), FailJob(v)
  PROVE  KbInv'
BY RetirePending DEF FailJob, Fenced, Unfinished, Retired

\* The documents that the published ones replace.
Superseded(v) == {documents[d].replaces : d \in jobs[v].documents} \cap Docs

\* A publication: what is live afterwards has been published, because what
\* was not is the predecessor of a document that was.
LEMMA PublishedLive ==
  ASSUME KbInv, NEW v \in Versions, Fenced(v), PublishJob(v)
  PROVE  /\ jobs[v].documents = Desired(documents)
         /\ documents' \in [Docs -> Documents]
         /\ \A d \in Docs : /\ documents'[d].replaces = documents[d].replaces
                            /\ documents'[d].status = "absent" <=> documents[d].status = "absent"
         /\ Live(documents') = jobs[v].documents
         /\ \A d \in jobs[v].documents : documents'[d].status = "ready"
         /\ jobs[v].documents \cap Superseded(v) = {}
<1> DEFINE published == jobs[v].documents
           superseded == Superseded(v)
           shown == SetStatus(documents, published, "ready")
<1>1. kb.pending = v /\ kb.pending # NoVersion
  BY ExpiredIsPending DEF Fenced, Unfinished
<1>2. /\ published = Desired(documents) /\ published \in SUBSET Live(documents)
      /\ Live(documents) \subseteq Docs
  BY <1>1, DocumentsNow DEF KbInv, PendingIsDesired, Desired
<1>3. documents' = SetStatus(shown, superseded, "removed")
  BY DEF PublishJob, Superseded
<1> HIDE DEF published
<1>4. /\ SameLive(documents, shown)
      /\ \A d \in Docs : shown[d].status = IF d \in published THEN "ready" ELSE documents[d].status
  <2>1. "ready" \in DocStatus \ {"absent", "removed"}
    BY DEF DocStatus
  <2> QED  BY <2>1, <1>2, DocumentsNow, SetStatusSame
<1> HIDE DEF shown
<1>5. /\ documents' \in [Docs -> Documents]
      /\ \A d \in Docs : documents'[d].replaces = documents[d].replaces
      /\ \A d \in superseded : documents'[d].status = "removed"
      /\ \A d \in Docs \ superseded : documents'[d] = shown[d]
  BY <1>3, <1>4 DEF SetStatus, SameLive, Documents, DocStatus, Superseded
<1>6. \A d \in superseded : documents[d].status # "absent"
  BY <1>2, DocumentsNow DEF Uploaded, Live, Superseded, published
<1>7. superseded \subseteq Docs /\ superseded \cap published = {}
  BY <1>2 DEF Desired, Superseded, published
<1>8. Live(documents') = Live(documents) \ superseded
  BY <1>4, <1>5, <1>7 DEF SameLive, Live
  \* A live document that was not wanted is replaced by one that was.
<1>9. Live(documents) \ superseded \subseteq published
  <2> SUFFICES ASSUME NEW d \in Live(documents), d \notin published PROVE d \in superseded
    OBVIOUS
  <2>1. PICK e \in Live(documents) : documents[e].replaces = d
    BY <1>2 DEF Desired
  <2>2. \A f \in Live(documents) : documents[f].replaces # e
    <3> SUFFICES ASSUME NEW f \in Live(documents), documents[f].replaces = e PROVE FALSE
      OBVIOUS
    <3> QED  BY <2>1, DocumentsNow DEF Succession
  <2>3. e \in published
    BY <1>2, <2>2 DEF Desired
  <2> QED  BY <2>1, <2>3, DocumentsNow DEF Superseded, published
<1>10. Live(documents') = published
  BY <1>2, <1>7, <1>8, <1>9
<1>11. \A d \in Docs : documents'[d].status = "absent" <=> documents[d].status = "absent"
  BY <1>2, <1>4, <1>5, <1>6 DEF Live
<1>12. \A d \in published : documents'[d].status = "ready"
  BY <1>2, <1>4, <1>5, <1>7
<1> QED  BY <1>2, <1>5, <1>7, <1>10, <1>11, <1>12 DEF published

\* A publication keeps the invariant.
LEMMA PublishKeeps ==
  ASSUME KbInv, NEW v \in Versions, Fenced(v), PublishJob(v)
  PROVE  KbInv'
<1> DEFINE published == jobs[v].documents
<1>1. kb.pending = v /\ kb.pending # NoVersion /\ \A u \in Versions \ {v} : ~Unfinished(jobs[u])
  BY ExpiredIsPending DEF Fenced, Unfinished
<1>2. /\ kb' = [kb EXCEPT !.active = v, !.pending = NoVersion, !.status = "ready"]
      /\ originals' = originals \ Superseded(v)
  BY DEF PublishJob, Superseded
<1>3. /\ kb' \in Bases /\ kb'.pending = NoVersion /\ kb'.status = "ready"
      /\ kb'.active = v /\ kb'.last = kb.last
  BY <1>2 DEF KbInv, KbTypeOK, Bases, BaseStatus
<1>4. /\ jobs' \in [Versions -> Jobs]
      /\ \A u \in Versions : ~Unfinished(jobs'[u]) /\ jobs'[u].documents = jobs[u].documents
  <2>1. 0 \in 0 .. LeaseTime
    BY KbAssumption
  <2>2. jobs[v] \in Jobs
    BY DocumentsNow
  <2>3. /\ [jobs[v] EXCEPT !.status = "succeeded", !.lease = 0] \in Jobs
        /\ ~Unfinished([jobs[v] EXCEPT !.status = "succeeded", !.lease = 0])
        /\ [jobs[v] EXCEPT !.status = "succeeded", !.lease = 0].documents = jobs[v].documents
    BY <2>1, <2>2 DEF Jobs, JobStatus, Unfinished
  <2>4. \A u \in Versions :
          /\ [jobs[u] EXCEPT !.cleanup = "pending"] \in Jobs
          /\ [jobs[u] EXCEPT !.cleanup = "pending"].status = jobs[u].status
          /\ [jobs[u] EXCEPT !.cleanup = "pending"].documents = jobs[u].documents
    BY DocumentsNow DEF Jobs, CleanupStatus
  <2> QED  BY <2>3, <2>4, <1>1, DocumentsNow DEF PublishJob, Unfinished
<1>5. /\ published = Desired(documents) /\ published \subseteq originals
      /\ published \in SUBSET Live(documents)
  BY <1>1, PublishedLive DEF KbInv, PendingIsDesired, Desired
<1>6. /\ documents' \in [Docs -> Documents]
      /\ \A d \in Docs : /\ documents'[d].replaces = documents[d].replaces
                         /\ documents'[d].status = "absent" <=> documents[d].status = "absent"
      /\ Live(documents') = published
      /\ \A d \in published : documents'[d].status = "ready"
      /\ published \cap Superseded(v) = {}
  BY PublishedLive
<1>7. ActiveDocuments' = published
  BY <1>3, <1>4 DEF ActiveDocuments, Versions, NoVersion
<1> HIDE DEF published
<1>8. KbTypeOK'
  BY <1>2, <1>3, <1>4, <1>6 DEF KbInv, KbTypeOK
<1>9. OneBuild' /\ PendingIsDesired' /\ RoomForRetries'
  BY <1>3, <1>4 DEF OneBuild, PendingIsDesired, RoomForRetries, Versions, NoVersion
<1>10. OneSuccessor'
  BY <1>5, <1>6, DocumentsNow DEF OneSuccessor, Succession
<1>11. Uploaded(documents)'
  BY <1>6, DocumentsNow DEF Uploaded
<1>12. DocumentsTell'
  <2>1. \A d \in Docs : documents'[d].status \in {"ready", "queued", "processing"}
                          => d \in Live(documents')
    BY DEF Live
  <2> QED  BY <2>1, <1>6, <1>7 DEF DocumentsTell
<1>13. Numbered'
  BY <1>1, <1>3 DEF KbInv, KbTypeOK, Bases, Numbered, NoVersion
<1>14. OriginalsKept'
  BY <1>2, <1>5, <1>6 DEF OriginalsKept
<1> QED  BY <1>8, <1>9, <1>10, <1>11, <1>12, <1>13, <1>14 DEF KbInv

-----------------------------------------------------------------------------

\* A base begins empty.
LEMMA KbInitKeeps == KbInit => KbInv
<1> SUFFICES ASSUME KbInit PROVE KbInv
  OBVIOUS
<1> USE VersionsAssumption, KbAssumption
<1>1. KbTypeOK
  BY DEF KbInit, KbTypeOK, Bases, BaseStatus, Documents, DocStatus, Jobs, JobStatus,
         CleanupStatus, NoVersion
<1>2. Live(documents) = {}
  BY DEF KbInit, Live
<1>3. OneBuild /\ PendingIsDesired /\ DocumentsTell
  BY DEF KbInit, OneBuild, PendingIsDesired, DocumentsTell, Unfinished, Versions, NoVersion
<1>4. OneSuccessor /\ Uploaded(documents)
  BY <1>2 DEF KbInit, OneSuccessor, Uploaded
<1>5. Numbered /\ RoomForRetries /\ OriginalsKept
  BY <1>2 DEF KbInit, Numbered, RoomForRetries, OriginalsKept, NoVersion
<1> QED  BY <1>1, <1>3, <1>4, <1>5 DEF KbInv

-----------------------------------------------------------------------------
(***************************************************************************)
(* How jobs advance.  The search service and its callers are not part of   *)
(* the transactions above; what keeps them in step with the records is     *)
(* that a job goes from queued to processing, and from there to succeeded, *)
(* once, and is over for good otherwise.                                   *)
(***************************************************************************)

\* A job is made for each version in turn; an active version has succeeded,
\* and a deleted base has none that has.
Records ==
  /\ \A v \in Versions : /\ jobs[v].status = "none" <=> v > kb.last
                         /\ jobs[v].status = "none" => jobs[v].cleanup = "none"
  /\ kb.active # NoVersion /\ kb.status # "deleted" => jobs[kb.active].status = "succeeded"
  /\ kb.status = "deleted" => \A v \in Versions : jobs[v].status \in Retired \cup {"none"}

\* In a step, the jobs in started become processing, and those in published succeed.
JobsAdvance(started, published) ==
  /\ \A v \in Versions :
       /\ jobs[v].status \in Retired => jobs'[v].status \in Retired
       /\ jobs[v].status = "processing"
            => jobs'[v].status \in Retired \cup {"processing", "succeeded"}
       /\ jobs[v].status = "succeeded"
            => \/ jobs'[v].status = "succeeded"
               \/ jobs'[v].status \in Retired /\ kb'.status = "deleted"
       /\ jobs'[v].status = "processing" /\ jobs[v].status # "processing" => v \in started
       /\ jobs'[v].status = "succeeded" /\ jobs[v].status # "succeeded" => v \in published
  /\ kb.status = "deleted" => kb'.status = "deleted"
  /\ published = {} => kb'.active = kb.active

\* Schedule ends what is unfinished and makes the next job.
LEMMA ScheduleAdvances ==
  ASSUME KbInv, Records, kb.status # "deleted",
         NEW docs \in [Docs -> Documents], NEW js \in [Versions -> Jobs],
         NEW status \in {"queued", "processing"}, NEW retries \in 0 .. MaxRetries,
         kb.last + 1 <= MaxVersions,
         \A v \in Versions : \/ js[v] = jobs[v]
                             \/ /\ jobs[v].status = "processing"
                                /\ js[v].status \in Retired,
         Schedule(docs, js, status, retries)
  PROVE  /\ Records'
         /\ JobsAdvance(IF status = "processing" THEN {kb.last + 1} ELSE {}, {})
         /\ jobs'[kb.last + 1].status = status
<1> USE VersionsAssumption, KbAssumption
<1> DEFINE next == kb.last + 1
           job == NewJob(docs, status, retries)
           retired == RetireUnfinished(js)
<1>1. next \in Versions /\ kb.last \in Nat
  BY DEF KbInv, KbTypeOK, Bases, Versions
<1>2. job.status = status /\ job.cleanup = "none"
  BY DEF NewJob
<1>3. /\ kb' = [kb EXCEPT !.status = "indexing", !.pending = next, !.last = next]
      /\ jobs' = [retired EXCEPT ![next] = job]
  BY DEF Schedule, KbInv, KbTypeOK, Bases
<1>4. retired \in [Versions -> Jobs]
  BY RetireUnfinishedTyped
<1>5. \A v \in Versions :
        \/ retired[v] = js[v] /\ js[v].status \notin {"queued", "processing"}
        \/ retired[v].status = "cancelled" /\ js[v].status \in {"queued", "processing"}
  <2>1. \A v \in Versions : Retire(js[v], "cancelled").status = "cancelled"
    BY RetireTyped DEF Retired
  <2> QED  BY <2>1 DEF RetireUnfinished, Unfinished
<1> HIDE DEF retired, job
<1>6. \A v \in Versions :
        \/ retired[v] = jobs[v] /\ jobs[v].status \notin {"queued", "processing"}
        \/ retired[v].status \in Retired /\ jobs[v].status \in {"queued", "processing"}
  BY <1>5 DEF Retired
<1>7. jobs'[next] = job /\ \A v \in Versions \ {next} : jobs'[v] = retired[v]
  BY <1>1, <1>3, <1>4
<1>8. jobs[next].status = "none"
  BY <1>1 DEF Records
<1>9. kb'.status = "indexing" /\ kb'.last = next /\ kb'.active = kb.active
  BY <1>3 DEF KbInv, KbTypeOK, Bases
<1>10. JobsAdvance(IF status = "processing" THEN {next} ELSE {}, {})
  BY <1>2, <1>6, <1>7, <1>8, <1>9 DEF JobsAdvance, Retired
<1>11. \A v \in Versions : /\ jobs'[v].status = "none" <=> v > next
                           /\ jobs'[v].status = "none" => jobs'[v].cleanup = "none"
  <2>1. \A v \in Versions \ {next} : /\ jobs'[v].status = "none" <=> v > kb.last
                                     /\ jobs'[v].status = "none" => jobs'[v].cleanup = "none"
    BY <1>6, <1>7 DEF Records, Retired
  <2>2. \A v \in Versions \ {next} : v > kb.last <=> v > next
    BY <1>1 DEF Versions
  <2> QED  BY <2>1, <2>2, <1>1, <1>2, <1>7
<1>12. kb.active # NoVersion => kb.active \in Versions /\ kb.active # next
  BY <1>1 DEF KbInv, Numbered, KbTypeOK, Bases
<1>13. kb'.active # NoVersion => jobs'[kb'.active].status = "succeeded"
  BY <1>6, <1>7, <1>9, <1>12 DEF Records
<1> QED  BY <1>2, <1>7, <1>9, <1>10, <1>11, <1>13 DEF Records

\* Steps that make no version: jobs keep their status, are retired, or started.
LEMMA StatusAdvances ==
  ASSUME KbInv, Records, NEW started \in SUBSET Versions,
         kb'.last = kb.last, kb'.active = kb.active,
         kb'.status = "deleted" <=> kb.status = "deleted",
         \A v \in Versions :
           \/ jobs'[v].status = jobs[v].status /\ jobs'[v].cleanup = jobs[v].cleanup
           \/ /\ jobs'[v].status = jobs[v].status
              /\ jobs[v].cleanup # "none"
           \/ Unfinished(jobs[v]) /\ jobs'[v].status \in Retired
           \/ jobs[v].status = "queued" /\ jobs'[v].status = "processing" /\ v \in started
  PROVE  Records' /\ JobsAdvance(started, {})
<1>1. JobsAdvance(started, {})
  BY DEF JobsAdvance, Unfinished, Retired
<1>2. \A v \in Versions : /\ jobs'[v].status = "none" <=> v > kb'.last
                          /\ jobs'[v].status = "none" => jobs'[v].cleanup = "none"
  BY DEF Records, Unfinished, Retired
<1>3. kb'.active # NoVersion /\ kb'.status # "deleted" => jobs'[kb'.active].status = "succeeded"
  BY DEF Records, Unfinished, Retired, KbInv, KbTypeOK, Bases
<1>4. kb'.status = "deleted" => \A v \in Versions : jobs'[v].status \in Retired \cup {"none"}
  BY DEF Records, Unfinished, Retired
<1> QED  BY <1>1, <1>2, <1>3, <1>4 DEF Records

\* There is room for a version wherever an operation of a user makes one.
LEMMA RoomForOne ==
  ASSUME KbInv, MayChange
  PROVE  kb.last + 1 <= MaxVersions /\ 0 \in 0 .. MaxRetries /\ kb.status # "deleted"
BY KbAssumption, VersionsAssumption DEF KbInv, KbTypeOK, Bases, MayChange

\* Users start and publish nothing.
LEMMA UserStepAdvances ==
  ASSUME KbInv, Records, UserStep
  PROVE  Records' /\ JobsAdvance({}, {})
<1>1. ASSUME NEW docs \in [Docs -> Documents], MayChange, Schedule(docs, jobs, "queued", 0)
      PROVE  Records' /\ JobsAdvance({}, {})
  <2>1. \A v \in Versions : jobs[v] = jobs[v]
    OBVIOUS
  <2> QED
    BY <1>1, <2>1, RoomForOne, DocumentsNow, ScheduleAdvances
<1>2. ASSUME NEW d \in Docs, Upload(d) PROVE Records' /\ JobsAdvance({}, {})
  <2>1. [documents EXCEPT ![d].status = "queued"] \in [Docs -> Documents]
    BY DocumentsNow DEF Documents, DocStatus
  <2> QED  BY <1>1, <1>2, <2>1 DEF Upload
<1>3. ASSUME NEW d \in Docs, NEW old \in Docs, Replace(d, old)
      PROVE  Records' /\ JobsAdvance({}, {})
  <2> DEFINE target == ReplacedBy(old)
             prior == PriorReplacements(target)
             docs == [Remove(documents, prior) EXCEPT
                        ![d] = [status |-> "queued", replaces |-> target]]
  <2>1. Remove(documents, prior) \in [Docs -> Documents]
    BY DocumentsNow, RemoveLess DEF PriorReplacements
  <2>2. target \in Docs
    BY <1>3, DocumentsNow DEF Replace, ReplacedBy
  <2>3. docs \in [Docs -> Documents]
    BY <2>1, <2>2 DEF Documents, DocStatus
  <2>4. MayChange /\ Schedule(docs, jobs, "queued", 0)
    BY <1>3 DEF Replace
  <2> HIDE DEF docs
  <2> QED  BY <1>1, <2>3, <2>4
<1>4. ASSUME NEW d \in Docs, RemoveDocument(d) PROVE Records' /\ JobsAdvance({}, {})
  <2>1. Remove(documents, {d} \cup PriorReplacements(d)) \in [Docs -> Documents]
    BY <1>4, DocumentsNow, RemoveLess DEF PriorReplacements, RemoveDocument
  <2> QED  BY <1>1, <1>4, <2>1 DEF RemoveDocument
<1>5. ASSUME Rebuild PROVE Records' /\ JobsAdvance({}, {})
  BY <1>1, <1>5, DocumentsNow DEF Rebuild
<1>6. ASSUME CancelBuild PROVE Records' /\ JobsAdvance({}, {})
  <2>1. \A v \in Versions : Retire(jobs[v], "cancelled").status = "cancelled"
    BY DocumentsNow, RetireTyped DEF Retired
  <2>2. \A v \in Versions :
          \/ jobs'[v] = jobs[v]
          \/ Unfinished(jobs[v]) /\ jobs'[v].status \in Retired
    BY <1>6, <2>1 DEF CancelBuild, RetireUnfinished, Retired
  <2>3. /\ kb'.last = kb.last /\ kb'.active = kb.active
        /\ kb'.status # "deleted" /\ kb.status # "deleted"
    BY <1>6 DEF CancelBuild, KbInv, KbTypeOK, Bases
  <2> QED  BY <2>2, <2>3, StatusAdvances
<1>7. ASSUME DeleteBase PROVE Records' /\ JobsAdvance({}, {})
  <2>1. \A v \in Versions : Retire(jobs[v], "cancelled").status = "cancelled"
    BY DocumentsNow, RetireTyped DEF Retired
  <2>2. \A v \in Versions :
          IF jobs[v].status = "none" THEN jobs'[v] = jobs[v]
          ELSE jobs'[v].status = "cancelled"
    BY <1>7, <2>1 DEF DeleteBase
  <2>3. kb'.last = kb.last /\ kb'.active = kb.active /\ kb'.status = "deleted"
    BY <1>7 DEF DeleteBase, KbInv, KbTypeOK, Bases
  <2> QED  BY <2>2, <2>3 DEF Records, JobsAdvance, Retired
<1> QED  BY <1>2, <1>3, <1>4, <1>5, <1>6, <1>7 DEF UserStep

\* A claim starts a job that nobody has worked on.
LEMMA ClaimQueuedAdvances ==
  ASSUME KbInv, Records, NEW v \in Versions, ClaimQueued(v)
  PROVE  /\ Records' /\ JobsAdvance({v}, {})
         /\ jobs[v].status = "queued" /\ jobs'[v].status = "processing"
<1>1. jobs[v].status = "queued" /\ kb' = kb
  BY DEF ClaimQueued
<1>2. jobs'[v].status = "processing" /\ \A u \in Versions \ {v} : jobs'[u] = jobs[u]
  BY DocumentsNow DEF ClaimQueued, Jobs
<1> QED  BY <1>1, <1>2, StatusAdvances

\* The same after an expiry, with a new job.
LEMMA ClaimExpiredAdvances ==
  ASSUME KbInv, Records, NEW v \in Versions, ClaimExpired(v)
  PROVE  /\ Records' /\ JobsAdvance({kb'.pending}, {})
         /\ kb'.pending \in Versions /\ jobs[kb'.pending].status = "none"
         /\ jobs'[kb'.pending].status = "processing"
<1> USE KbAssumption, VersionsAssumption
<1> DEFINE js == [jobs EXCEPT ![v] = Retire(@, "expired")]
           retries == jobs[v].retries + 1
<1>1. /\ jobs[v].status = "processing" /\ jobs[v].retries < MaxRetries
      /\ jobs[v] \in Jobs /\ kb.status # "deleted"
  BY DocumentsNow DEF ClaimExpired, Expired
<1>2. kb.pending = v /\ kb.pending # NoVersion
  BY <1>1, ExpiredIsPending DEF Unfinished
<1>3. retries \in 0 .. MaxRetries
  BY <1>1 DEF Jobs
<1>4. kb.last + 1 \in Versions
  BY <1>1, <1>2 DEF KbInv, RoomForRetries, Jobs, KbTypeOK, Bases, Versions
<1>5. /\ Retire(jobs[v], "expired") \in Jobs
      /\ Retire(jobs[v], "expired").status \in Retired
  BY <1>1, RetireTyped DEF Retired
<1>6. /\ js \in [Versions -> Jobs]
      /\ \A u \in Versions : \/ js[u] = jobs[u]
                             \/ jobs[u].status = "processing" /\ js[u].status \in Retired
  BY <1>1, <1>5, DocumentsNow
<1>7. Schedule(documents, js, "processing", retries)
  BY DEF ClaimExpired
<1> HIDE DEF js, retries
<1>8. kb.last + 1 <= MaxVersions
  BY <1>4 DEF Versions
<1>9. /\ Records' /\ JobsAdvance({kb.last + 1}, {})
      /\ jobs'[kb.last + 1].status = "processing"
  BY <1>1, <1>3, <1>6, <1>7, <1>8, DocumentsNow, ScheduleAdvances
<1>10. kb'.pending = kb.last + 1
  BY <1>7 DEF Schedule, KbInv, KbTypeOK, Bases
<1>11. jobs[kb.last + 1].status = "none"
  BY <1>4 DEF Records, KbInv, KbTypeOK, Bases
<1> QED  BY <1>4, <1>9, <1>10, <1>11

\* Ending the pending build without success starts and publishes nothing.
LEMMA RetireAdvances ==
  ASSUME KbInv, Records, NEW v \in Versions, Unfinished(jobs[v]), NEW status \in Retired,
         kb.status # "deleted",
         jobs' = [jobs EXCEPT ![v] = Retire(@, status)],
         kb' = [kb EXCEPT !.status = Fallback, !.pending = NoVersion]
  PROVE  Records' /\ JobsAdvance({}, {})
<1>1. Retire(jobs[v], status).status \in Retired
  BY DocumentsNow, RetireTyped
<1>2. jobs'[v].status \in Retired /\ \A u \in Versions \ {v} : jobs'[u] = jobs[u]
  BY <1>1, DocumentsNow
<1>3. /\ kb'.last = kb.last /\ kb'.active = kb.active
      /\ kb'.status # "deleted"
  BY DEF KbInv, KbTypeOK, Bases, Fallback
<1> QED  BY <1>2, <1>3, StatusAdvances

\* The last attempt has expired.
LEMMA ClaimExhaustedAdvances ==
  ASSUME KbInv, Records, NEW v \in Versions, ClaimExhausted(v)
  PROVE  Records' /\ JobsAdvance({}, {})
BY RetireAdvances DEF ClaimExhausted, Expired, Unfinished, Retired

\* A failure is reported.
LEMMA FailAdvances ==
  ASSUME KbInv, Records, NEW v \in Versions, Fenced(v), FailJob(v)
  PROVE  Records' /\ JobsAdvance({}, {})
BY RetireAdvances DEF FailJob, Fenced, Unfinished, Retired

\* Renewing, recording a cleanup, and the clock change no status.
LEMMA RenewAdvances ==
  ASSUME KbInv, Records, NEW v \in Versions, RenewJob(v)
  PROVE  Records' /\ JobsAdvance({}, {})
<1>1. \A u \in Versions : jobs'[u].status = jobs[u].status /\ jobs'[u].cleanup = jobs[u].cleanup
  BY DocumentsNow DEF RenewJob, Jobs
<1> QED  BY <1>1, StatusAdvances DEF RenewJob

\* A recorded cleanup was due.
LEMMA RecordCleanupAdvances ==
  ASSUME KbInv, Records, NEW v \in Versions, RecordCleanup(v)
  PROVE  Records' /\ JobsAdvance({}, {})
<1>1. jobs[v].cleanup # "none"
  BY DEF RecordCleanup, MayCleanUp
<1>2. \A u \in Versions : /\ jobs'[u].status = jobs[u].status
                          /\ u # v => jobs'[u] = jobs[u]
  BY DocumentsNow DEF RecordCleanup, Jobs
<1> QED  BY <1>1, <1>2, StatusAdvances DEF RecordCleanup

\* The clock.
LEMMA KbTickAdvances ==
  ASSUME KbInv, Records, KbTick
  PROVE  Records' /\ JobsAdvance({}, {})
<1>1. \A u \in Versions : jobs'[u].status = jobs[u].status /\ jobs'[u].cleanup = jobs[u].cleanup
  BY DocumentsNow DEF KbTick, Jobs
<1> QED  BY <1>1, StatusAdvances DEF KbTick

\* A publication is a success of the job that was under way.
LEMMA PublishAdvances ==
  ASSUME KbInv, Records, NEW v \in Versions, Fenced(v), PublishJob(v)
  PROVE  /\ Records' /\ JobsAdvance({}, {v})
         /\ jobs[v].status = "processing" /\ jobs'[v].status = "succeeded"
         /\ kb'.active = v /\ kb'.status = "ready"
<1>1. jobs[v].status = "processing" /\ kb.status # "deleted"
  BY DEF Fenced
<1>2. /\ kb'.active = v /\ kb'.last = kb.last /\ kb'.status = "ready"
  BY DEF PublishJob, KbInv, KbTypeOK, Bases
<1>3. /\ jobs'[v].status = "succeeded"
      /\ \A u \in Versions \ {v} :
           /\ jobs'[u].status = jobs[u].status
           /\ jobs[u].status # "succeeded" => jobs'[u] = jobs[u]
  <2>1. \A u \in Versions :
          /\ [jobs[u] EXCEPT !.status = "succeeded", !.lease = 0].status = "succeeded"
          /\ [jobs[u] EXCEPT !.cleanup = "pending"].status = jobs[u].status
    BY DocumentsNow DEF Jobs
  <2> QED  BY <2>1 DEF PublishJob
<1>4. JobsAdvance({}, {v})
  BY <1>1, <1>2, <1>3 DEF JobsAdvance, Retired
<1>5. Records'
  <2>1. \A u \in Versions : /\ jobs'[u].status = "none" <=> u > kb'.last
                            /\ jobs'[u].status = "none" => jobs'[u].cleanup = "none"
    BY <1>1, <1>2, <1>3 DEF Records
  <2> QED  BY <2>1, <1>2, <1>3 DEF Records
<1> QED  BY <1>1, <1>2, <1>3, <1>4, <1>5

\* A step that does not touch the records.
LEMMA KbUnchanged ==
  ASSUME UNCHANGED kbVars, KbInv, Records
  PROVE  KbInv' /\ Records' /\ JobsAdvance({}, {})
BY DEF kbVars, KbInv, KbTypeOK, OneBuild, PendingIsDesired, OneSuccessor, DocumentsTell,
       Uploaded, Numbered, RoomForRetries, OriginalsKept, ActiveDocuments, Records, JobsAdvance

\* A new base has no jobs.
LEMMA RecordsInit == KbInit => Records
BY VersionsAssumption DEF KbInit, Records, Versions, NoVersion
-----------------------------------------------------------------------------
(***************************************************************************)
(* What searches see.  As far as the records go, an operation adds a       *)
(* wanted document, replaces or removes some, or publishes what is wanted: *)
(* the steps of KbCatalog.  (That the published segment can be searched is *)
(* for KbIngestionProofs to show.)                                         *)
(***************************************************************************)

Open == kb.status # "deleted"
Wanted == IF kb.status = "deleted" THEN {} ELSE Desired(documents)
Shown == IF kb.status = "deleted" THEN {} ELSE ActiveDocuments \cap Live(documents)

Promise == INSTANCE KbCatalog WITH wanted <- Wanted, searchable <- Shown, open <- Open

\* What a job is to index was uploaded before the job was made, so that a new
\* document is in no index yet.
JobsUploaded ==
  \A v \in Versions : \A d \in jobs[v].documents : documents[d].status # "absent"

\* The documents of the active version, all of them uploaded.
LEMMA ActiveUploaded ==
  ASSUME KbInv, JobsUploaded
  PROVE  /\ ActiveDocuments \subseteq Docs
         /\ \A d \in ActiveDocuments : documents[d].status # "absent"
<1>1. kb.active \in Versions \cup {NoVersion} /\ jobs \in [Versions -> Jobs]
  BY DEF KbInv, KbTypeOK, Bases
<1> QED  BY <1>1 DEF ActiveDocuments, JobsUploaded, Jobs

\* What Schedule makes of the documents, the jobs and the active version.
LEMMA ScheduleEffect ==
  ASSUME KbTypeOK, Numbered, kb.status # "deleted",
         NEW docs \in [Docs -> Documents], NEW js \in [Versions -> Jobs],
         NEW status \in {"queued", "processing"}, NEW retries \in 0 .. MaxRetries,
         kb.last + 1 <= MaxVersions,
         \A v \in Versions : js[v].documents = jobs[v].documents,
         Schedule(docs, js, status, retries)
  PROVE  /\ SameLive(docs, documents')
         /\ Open = TRUE /\ Open' = TRUE
         /\ Wanted' = Desired(docs) /\ ActiveDocuments' = ActiveDocuments
         /\ \A v \in Versions : jobs'[v].documents \in {jobs[v].documents, Desired(docs)}
<1> USE VersionsAssumption, KbAssumption
<1> DEFINE next == kb.last + 1
           new == SetStatus(docs, Desired(docs), status)
<1>1. next \in Versions /\ next # NoVersion /\ kb.last \in Nat
  BY DEF KbTypeOK, Bases, Versions, NoVersion
<1>2. SameLive(docs, new)
  <2>1. status \in DocStatus \ {"absent", "removed"}
    BY DEF DocStatus
  <2>2. Desired(docs) \in SUBSET Live(docs)
    BY DEF Desired
  <2> QED  BY <2>1, <2>2, SetStatusSame
<1>3. /\ kb' = [kb EXCEPT !.status = "indexing", !.pending = next, !.last = next]
      /\ documents' = new
      /\ jobs' = [RetireUnfinished(js) EXCEPT ![next] = NewJob(docs, status, retries)]
  BY DEF Schedule, KbTypeOK, Bases
<1> HIDE DEF new
<1>4. kb'.active = kb.active /\ kb'.status = "indexing"
  BY <1>3 DEF KbTypeOK, Bases
<1>5. /\ jobs'[next].documents = Desired(docs)
      /\ \A v \in Versions \ {next} : jobs'[v].documents = jobs[v].documents
  BY <1>1, <1>3, RetireUnfinishedTyped DEF NewJob
<1>6. ActiveDocuments' = ActiveDocuments
  <2>1. kb.active # next /\ kb.active \in Versions \cup {NoVersion}
    BY <1>1 DEF Numbered, KbTypeOK, Bases, Versions, NoVersion
  <2> QED  BY <2>1, <1>4, <1>5 DEF ActiveDocuments
<1>7. Wanted' = Desired(docs)
  BY <1>2, <1>3, <1>4, SameLiveKeeps DEF Wanted
<1> QED  BY <1>2, <1>3, <1>4, <1>5, <1>6, <1>7 DEF Open

\* An operation that changes the documents ends by scheduling what is wanted now.
LEMMA ScheduleShows ==
  ASSUME KbInv, MayChange, NEW docs \in [Docs -> Documents],
         Schedule(docs, jobs, "queued", 0)
  PROVE  /\ Open = TRUE /\ Open' = TRUE
         /\ Wanted = Desired(documents) /\ Wanted' = Desired(docs)
         /\ Shown = ActiveDocuments \cap Live(documents)
         /\ Shown' = ActiveDocuments \cap Live(docs)
<1>1. kb.status # "deleted"
  BY DEF MayChange
<1>2. /\ SameLive(docs, documents')
      /\ Open = TRUE /\ Open' = TRUE /\ Wanted' = Desired(docs) /\ ActiveDocuments' = ActiveDocuments
  BY <1>1, RoomForOne, DocumentsNow, ScheduleEffect DEF KbInv
<1> QED  BY <1>1, <1>2 DEF Wanted, Shown, Open, SameLive

\* An upload adds a document.
LEMMA UploadAdds ==
  ASSUME KbInv, JobsUploaded, NEW d \in Docs, Upload(d)
  PROVE  Promise!Add(d)
<1> DEFINE docs == [documents EXCEPT ![d].status = "queued"]
<1>1. documents[d].status = "absent" /\ documents[d].replaces = NoDoc
  BY DEF Upload, KbInv, Uploaded
<1>2. /\ docs \in [Docs -> Documents]
      /\ docs[d].status = "queued" /\ docs[d].replaces = NoDoc
      /\ \A e \in Docs \ {d} : docs[e] = documents[e]
  BY <1>1, DocumentsNow DEF Documents, DocStatus
<1>3. \A e \in Docs : documents[e].replaces # d
  BY <1>1, DocumentsNow DEF Uploaded
<1>4. Schedule(docs, jobs, "queued", 0) /\ MayChange
  BY DEF Upload
<1> HIDE DEF docs
<1>5. Live(docs) = Live(documents) \cup {d} /\ d \notin Live(documents)
  BY <1>1, <1>2 DEF Live
<1>6. Desired(docs) = Desired(documents) \cup {d} /\ d \notin Desired(documents)
  <2>1. \A e \in Live(documents) : e \in Docs /\ e # d
    BY <1>5, DocumentsNow
  <2>2. NoDoc \notin Docs
    BY KbAssumption
  <2> QED  BY <1>2, <1>3, <1>5, <2>1, <2>2 DEF Desired
<1>7. d \notin ActiveDocuments
  BY <1>1, ActiveUploaded
<1> QED  BY <1>2, <1>4, <1>5, <1>6, <1>7, ScheduleShows DEF Promise!Add

\* A removal takes what was to replace the document along.
LEMMA RemoveDocumentRemoves ==
  ASSUME KbInv, NEW d \in Docs, RemoveDocument(d)
  PROVE  \E gone \in SUBSET Docs : Promise!Remove(gone)
<1> DEFINE gone == {d} \cup PriorReplacements(d)
           docs == Remove(documents, gone)
<1>1. gone \in SUBSET Live(documents) /\ gone # {}
  BY DEF RemoveDocument, PriorReplacements
<1>2. Schedule(docs, jobs, "queued", 0) /\ MayChange
  BY DEF RemoveDocument
<1> HIDE DEF gone
<1>3. /\ docs \in [Docs -> Documents]
      /\ \A e \in Docs : docs[e].replaces = documents[e].replaces
      /\ Live(docs) = Live(documents) \ gone
  BY <1>1, DocumentsNow, RemoveLess
<1> HIDE DEF docs
<1>4. Live(documents) \subseteq Docs
  BY DocumentsNow
<1>5. Desired(docs) \subseteq Docs \ gone /\ Desired(documents) \ gone \subseteq Desired(docs)
  BY <1>3, <1>4 DEF Desired
<1>6. Promise!Remove(gone)
  BY <1>1, <1>2, <1>3, <1>5, ScheduleShows DEF Promise!Remove
<1> QED  BY <1>1, <1>4, <1>6

\* A replacement takes the place of a wanted document; if that is itself one that
\* waits to replace a published document, it is removed.
LEMMA ReplaceReplaces ==
  ASSUME KbInv, JobsUploaded, NEW d \in Docs, NEW old \in Docs, Replace(d, old)
  PROVE  \/ Promise!Replace(d, old)
         \/ \E gone \in SUBSET Docs : Promise!Remove(gone)
<1> DEFINE target == ReplacedBy(old)
           prior == PriorReplacements(target)
           rest == Remove(documents, prior)
           docs == [rest EXCEPT ![d] = [status |-> "queued", replaces |-> target]]
<1>1. documents[d].status = "absent" /\ old \in Live(documents)
  BY DEF Replace
<1>2. /\ prior \in SUBSET Live(documents) /\ d \notin Live(documents)
      /\ Live(documents) \subseteq Docs
  BY <1>1, DocumentsNow DEF PriorReplacements, Live
<1>3. /\ rest \in [Docs -> Documents]
      /\ \A e \in Docs : rest[e].replaces = documents[e].replaces
      /\ Live(rest) = Live(documents) \ prior
      /\ \A e \in Docs \ prior : rest[e] = documents[e]
  BY <1>2, DocumentsNow, RemoveLess
<1>4. target \in Live(documents) /\ (prior = {} => target = old)
  BY <1>1 DEF ReplacedBy, PriorReplacements
<1>5. Schedule(docs, jobs, "queued", 0) /\ MayChange
  BY DEF Replace
<1>6. \A e \in Docs : documents[e].replaces # d
  BY <1>1, DocumentsNow DEF Uploaded
<1>7. prior = {e \in Live(documents) : documents[e].replaces = target}
  BY DEF PriorReplacements
<1> HIDE DEF target, prior, rest
<1>8. /\ docs \in [Docs -> Documents]
      /\ docs[d].status = "queued" /\ docs[d].replaces = target
      /\ \A e \in Docs \ {d} : docs[e] = rest[e]
  BY <1>2, <1>3, <1>4 DEF Documents, DocStatus
<1>9. rest[d].status = "absent"
  BY <1>1, <1>2, <1>3
<1> HIDE DEF docs
<1>10. Live(docs) = Live(rest) \cup {d}
  BY <1>8, <1>9 DEF Live
<1>11. d \notin ActiveDocuments
  BY <1>1, ActiveUploaded
<1>12. Shown' = Shown \ prior
  BY <1>2, <1>3, <1>5, <1>8, <1>10, <1>11, ScheduleShows
<1>13. \A e \in Live(rest) : docs[e].replaces = documents[e].replaces /\ e # d /\ e \in Docs
  BY <1>2, <1>3, <1>8
<1>14. Open = TRUE /\ Open' = TRUE /\ Wanted = Desired(documents) /\ Wanted' = Desired(docs)
  BY <1>5, <1>8, ScheduleShows
<1>15. d \in Desired(docs) /\ d \notin Desired(documents)
  <2>1. target # d
    BY <1>2, <1>4
  <2> QED  BY <1>2, <1>6, <1>8, <1>10, <1>13, <2>1 DEF Desired
<1>16. CASE prior = {}
  <2>1. target = old /\ old \in Desired(documents)
    BY <1>1, <1>4, <1>7, <1>16 DEF Desired
  <2>2. Desired(docs) = (Desired(documents) \ {old}) \cup {d}
    <3>1. Live(rest) = Live(documents)
      BY <1>3, <1>16
    <3> QED  BY <1>8, <1>10, <1>13, <1>15, <2>1, <3>1 DEF Desired
  <2> QED  BY <1>12, <1>14, <1>15, <1>16, <2>1, <2>2 DEF Promise!Replace
<1>17. CASE prior # {}
  <2>1. target \notin Desired(documents)
    BY <1>7, <1>17 DEF Desired
  <2>2. Desired(documents) \ prior \subseteq Desired(docs)
    BY <1>3, <1>8, <1>10, <1>13, <2>1 DEF Desired
  <2>3. Desired(docs) \subseteq Docs \ prior
    BY <1>2, <1>3, <1>10 DEF Desired
  <2>4. Promise!Remove(prior)
    BY <1>12, <1>14, <1>17, <2>2, <2>3 DEF Promise!Remove
  <2> QED  BY <1>2, <2>4
<1> QED  BY <1>16, <1>17

\* Steps after which the same documents are live, and the same ones were
\* published: what is shown of a document has changed, or the job has.
LEMMA NothingShown ==
  ASSUME KbInv, SameLive(documents, documents'), ActiveDocuments' = ActiveDocuments,
         Open' = Open
  PROVE  UNCHANGED Promise!vars
<1>1. Desired(documents') = Desired(documents) /\ Live(documents') = Live(documents)
  BY DocumentsNow, SameLiveKeeps DEF SameLive
<1> QED  BY <1>1 DEF Promise!vars, Wanted, Shown, Open

\* A publication promotes what is wanted.
LEMMA PublishPromotes ==
  ASSUME KbInv, NEW v \in Versions, Fenced(v), PublishJob(v)
  PROVE  Promise!Promote
<1> DEFINE published == jobs[v].documents
<1>1. kb'.active = v /\ kb'.status = "ready" /\ v # NoVersion
  BY DEF PublishJob, KbInv, KbTypeOK, Bases, Versions, NoVersion
<1>2. jobs'[v].documents = published
  <2>1. [jobs[v] EXCEPT !.status = "succeeded", !.lease = 0].documents = jobs[v].documents
    BY DocumentsNow DEF Jobs
  <2> QED  BY <2>1 DEF PublishJob
<1>3. ActiveDocuments' = published
  BY <1>1, <1>2 DEF ActiveDocuments
<1>4. /\ published = Desired(documents) /\ Live(documents') = published
      /\ \A d \in Docs : documents'[d].replaces = documents[d].replaces
      /\ Live(documents) \subseteq Docs
  BY PublishedLive, DocumentsNow
<1> HIDE DEF published
<1>5. Desired(documents') = published
  BY <1>4 DEF Desired
<1>6. Open = TRUE /\ Open' = TRUE /\ Wanted = published /\ Wanted' = published /\ Shown' = published
  BY <1>1, <1>3, <1>4, <1>5 DEF Fenced, Open, Wanted, Shown
<1> QED  BY <1>6 DEF Promise!Promote

\* After a deletion nothing is wanted or shown.
LEMMA DeleteCloses ==
  ASSUME KbInv, DeleteBase
  PROVE  Promise!Close
<1>1. kb.status # "deleted" /\ kb'.status = "deleted"
  BY DEF DeleteBase, KbInv, KbTypeOK, Bases
<1> QED  BY <1>1 DEF Promise!Close, Open, Wanted, Shown

\* Retiring jobs and showing how documents stand is nothing searches see.
LEMMA RestoreShowsNothing ==
  ASSUME KbInv, documents' = Restore(documents), kb'.active = kb.active,
         kb.status # "deleted", kb'.status # "deleted",
         \A v \in Versions : jobs'[v].documents = jobs[v].documents
  PROVE  UNCHANGED Promise!vars
<1>1. SameLive(documents, documents')
  BY DocumentsNow, RestoreSame
<1>2. ActiveDocuments' = ActiveDocuments
  BY DEF ActiveDocuments, KbInv, KbTypeOK, Bases
<1> QED  BY <1>1, <1>2, NothingShown DEF Open

\* The steps of users.
LEMMA UserStepShows ==
  ASSUME KbInv, JobsUploaded, UserStep
  PROVE  [Promise!Next]_(Promise!vars)
<1>1. ASSUME NEW d \in Docs, Upload(d) PROVE Promise!Next
  BY <1>1, UploadAdds DEF Promise!Next
<1>2. ASSUME NEW d \in Docs, NEW old \in Docs, Replace(d, old) PROVE Promise!Next
  BY <1>2, ReplaceReplaces DEF Promise!Next
<1>3. ASSUME NEW d \in Docs, RemoveDocument(d) PROVE Promise!Next
  BY <1>3, RemoveDocumentRemoves DEF Promise!Next
<1>4. ASSUME Rebuild PROVE UNCHANGED Promise!vars
  <2>1. /\ Open = TRUE /\ Open' = TRUE /\ Wanted = Desired(documents)
        /\ Wanted' = Desired(documents)
        /\ Shown = ActiveDocuments \cap Live(documents)
        /\ Shown' = ActiveDocuments \cap Live(documents)
    BY <1>4, DocumentsNow, ScheduleShows DEF Rebuild
  <2> QED  BY <2>1 DEF Promise!vars
<1>5. ASSUME CancelBuild PROVE UNCHANGED Promise!vars
  <2>1. \A v \in Versions : jobs'[v].documents = jobs[v].documents
    BY <1>5, DocumentsNow, RetireUnfinishedTyped DEF CancelBuild
  <2>2. kb'.active = kb.active /\ kb.status # "deleted" /\ kb'.status # "deleted"
    BY <1>5 DEF CancelBuild, KbInv, KbTypeOK, Bases
  <2> QED  BY <1>5, <2>1, <2>2, RestoreShowsNothing DEF CancelBuild
<1>6. ASSUME DeleteBase PROVE Promise!Next
  BY <1>6, DeleteCloses DEF Promise!Next
<1> QED  BY <1>1, <1>2, <1>3, <1>4, <1>5, <1>6 DEF UserStep

\* A queued job is claimed.
LEMMA ClaimQueuedShows ==
  ASSUME KbInv, NEW v \in Versions, ClaimQueued(v)
  PROVE  UNCHANGED Promise!vars
<1>1. SameLive(documents, documents')
  <2>1. "processing" \in DocStatus \ {"absent", "removed"}
    BY DEF DocStatus
  <2>2. documents' = SetStatus(documents, Desired(documents), "processing")
    BY DEF ClaimQueued
  <2>3. Desired(documents) \in SUBSET Live(documents)
    BY DEF Desired
  <2> QED  BY <2>1, <2>2, <2>3, DocumentsNow, SetStatusSame
<1>2. kb' = kb /\ \A u \in Versions : jobs'[u].documents = jobs[u].documents
  BY DocumentsNow DEF ClaimQueued, Jobs
<1>3. ActiveDocuments' = ActiveDocuments
  BY <1>2 DEF ActiveDocuments, KbInv, KbTypeOK, Bases
<1> QED  BY <1>1, <1>2, <1>3, NothingShown DEF Open

\* An expired job is replaced by one of the same documents.
LEMMA ClaimExpiredShows ==
  ASSUME KbInv, NEW v \in Versions, ClaimExpired(v)
  PROVE  /\ UNCHANGED Promise!vars
         /\ SameLive(documents, documents')
         /\ \A u \in Versions : jobs'[u].documents \in {jobs[u].documents, Desired(documents)}
<1> USE KbAssumption, VersionsAssumption
<1> DEFINE js == [jobs EXCEPT ![v] = Retire(@, "expired")]
           retries == jobs[v].retries + 1
<1>1. /\ jobs[v].status = "processing" /\ jobs[v].retries < MaxRetries
      /\ jobs[v] \in Jobs /\ kb.status # "deleted"
  BY DocumentsNow DEF ClaimExpired, Expired
<1>2. kb.pending = v /\ kb.pending # NoVersion
  BY <1>1, ExpiredIsPending DEF Unfinished
<1>3. retries \in 0 .. MaxRetries
  BY <1>1 DEF Jobs
<1>4. kb.last + 1 <= MaxVersions
  BY <1>1, <1>2 DEF KbInv, RoomForRetries, Jobs, KbTypeOK, Bases
<1>5. /\ js \in [Versions -> Jobs]
      /\ \A u \in Versions : js[u].documents = jobs[u].documents
  <2>1. Retire(jobs[v], "expired") \in Jobs
           /\ Retire(jobs[v], "expired").documents = jobs[v].documents
    BY <1>1, RetireTyped DEF Retired
  <2> QED  BY <2>1, DocumentsNow
<1>6. Schedule(documents, js, "processing", retries)
  BY DEF ClaimExpired
<1> HIDE DEF js, retries
<1>7. /\ SameLive(documents, documents')
      /\ Open = TRUE /\ Open' = TRUE /\ ActiveDocuments' = ActiveDocuments
      /\ \A u \in Versions : jobs'[u].documents \in {jobs[u].documents, Desired(documents)}
  BY <1>1, <1>3, <1>4, <1>5, <1>6, DocumentsNow, ScheduleEffect DEF KbInv
<1> QED  BY <1>7, NothingShown

\* The pending job is retired.
LEMMA RetireShows ==
  ASSUME KbInv, NEW v \in Versions, NEW status \in Retired, kb.status # "deleted",
         jobs' = [jobs EXCEPT ![v] = Retire(@, status)],
         kb' = [kb EXCEPT !.status = Fallback, !.pending = NoVersion],
         documents' = Restore(documents)
  PROVE  /\ UNCHANGED Promise!vars
         /\ SameLive(documents, documents')
         /\ \A u \in Versions : jobs'[u].documents = jobs[u].documents
<1>1. Retire(jobs[v], status).documents = jobs[v].documents
  BY DocumentsNow, RetireTyped
<1>2. \A u \in Versions : jobs'[u].documents = jobs[u].documents
  BY <1>1, DocumentsNow
<1>3. kb'.active = kb.active /\ kb'.status # "deleted"
  BY DEF KbInv, KbTypeOK, Bases, Fallback
<1>4. SameLive(documents, documents')
  BY DocumentsNow, RestoreSame
<1> QED  BY <1>2, <1>3, <1>4, RestoreShowsNothing

\* Renewing, recording a cleanup, and the clock.
LEMMA JobsOnlyShow ==
  ASSUME KbInv, UNCHANGED <<kb, documents>>,
         \A v \in Versions : jobs'[v].documents = jobs[v].documents
  PROVE  UNCHANGED Promise!vars
<1>1. SameLive(documents, documents')
  BY DocumentsNow DEF SameLive
<1>2. ActiveDocuments' = ActiveDocuments
  BY DEF ActiveDocuments, KbInv, KbTypeOK, Bases
<1> QED  BY <1>1, <1>2, NothingShown DEF Open
-----------------------------------------------------------------------------
(* JobsUploaded is kept.                                                   *)

\* Uploads are not undone, and a new job indexes what is live.
LEMMA UploadedStays ==
  ASSUME KbInv, JobsUploaded,
         \A d \in Docs : documents'[d].status = "absent" => documents[d].status = "absent",
         \A v \in Versions : \/ jobs'[v].documents = jobs[v].documents
                            \/ jobs'[v].documents \subseteq Live(documents')
  PROVE  JobsUploaded'
<1>1. \A v \in Versions : jobs[v].documents \subseteq Docs
  BY DocumentsNow DEF Jobs
<1>2. \A d \in Live(documents') : documents'[d].status # "absent"
  BY DEF Live
<1> QED  BY <1>1, <1>2 DEF JobsUploaded

\* Where only what is shown of the documents changes, or a job is made for them.
LEMMA SameLiveUploaded ==
  ASSUME KbInv, JobsUploaded, SameLive(documents, documents'),
         \A v \in Versions : jobs'[v].documents \in {jobs[v].documents, Desired(documents)}
  PROVE  JobsUploaded'
<1>1. \A d \in Docs : documents'[d].status = "absent" => documents[d].status = "absent"
  BY DEF SameLive, Live
<1>2. Desired(documents) \subseteq Live(documents')
  BY DEF SameLive, Desired
<1> QED  BY <1>1, <1>2, UploadedStays

\* The steps of users.
LEMMA UserStepUploaded ==
  ASSUME KbInv, JobsUploaded, UserStep
  PROVE  JobsUploaded'
<1>1. ASSUME NEW docs \in [Docs -> Documents], MayChange, Schedule(docs, jobs, "queued", 0),
             \A d \in Docs : docs[d].status = "absent" => documents[d].status = "absent"
      PROVE  JobsUploaded'
  <2>1. /\ SameLive(docs, documents')
        /\ \A v \in Versions : jobs'[v].documents \in {jobs[v].documents, Desired(docs)}
    BY <1>1, RoomForOne, DocumentsNow, ScheduleEffect DEF KbInv
  <2>2. \A d \in Docs : documents'[d].status = "absent" => docs[d].status = "absent"
    BY <2>1 DEF SameLive, Live
  <2>3. Desired(docs) \subseteq Live(documents')
    BY <2>1 DEF SameLive, Desired
  <2> QED  BY <1>1, <2>1, <2>2, <2>3, UploadedStays
<1>2. ASSUME NEW d \in Docs, Upload(d) PROVE JobsUploaded'
  <2> DEFINE docs == [documents EXCEPT ![d].status = "queued"]
  <2>1. /\ docs \in [Docs -> Documents]
        /\ \A e \in Docs : docs[e].status = "absent" => documents[e].status = "absent"
    BY DocumentsNow DEF Documents, DocStatus
  <2>2. MayChange /\ Schedule(docs, jobs, "queued", 0)
    BY <1>2 DEF Upload
  <2> HIDE DEF docs
  <2> QED  BY <1>1, <2>1, <2>2
<1>3. ASSUME NEW gone \in SUBSET Live(documents)
      PROVE  /\ Remove(documents, gone) \in [Docs -> Documents]
             /\ \A d \in Docs : Remove(documents, gone)[d].status = "absent"
                                => documents[d].status = "absent"
  BY DocumentsNow DEF Remove, Documents, DocStatus
<1>4. ASSUME NEW d \in Docs, NEW old \in Docs, Replace(d, old) PROVE JobsUploaded'
  <2> DEFINE target == ReplacedBy(old)
             rest == Remove(documents, PriorReplacements(target))
             docs == [rest EXCEPT ![d] = [status |-> "queued", replaces |-> target]]
  <2>1. /\ rest \in [Docs -> Documents]
        /\ \A e \in Docs : rest[e].status = "absent" => documents[e].status = "absent"
    BY <1>3 DEF PriorReplacements
  <2>2. MayChange /\ Schedule(docs, jobs, "queued", 0)
    BY <1>4 DEF Replace
  <2>3. target \in Docs
    BY <1>4, DocumentsNow DEF Replace, ReplacedBy
  <2> HIDE DEF target, rest
  <2>4. /\ docs \in [Docs -> Documents]
        /\ \A e \in Docs : docs[e].status = "absent" => documents[e].status = "absent"
    BY <2>1, <2>3 DEF Documents, DocStatus
  <2> HIDE DEF docs
  <2> QED  BY <1>1, <2>2, <2>4
<1>5. ASSUME NEW d \in Docs, RemoveDocument(d) PROVE JobsUploaded'
  <2> DEFINE docs == Remove(documents, {d} \cup PriorReplacements(d))
  <2>1. /\ docs \in [Docs -> Documents]
        /\ \A e \in Docs : docs[e].status = "absent" => documents[e].status = "absent"
    BY <1>3, <1>5 DEF PriorReplacements, RemoveDocument
  <2>2. MayChange /\ Schedule(docs, jobs, "queued", 0)
    BY <1>5 DEF RemoveDocument
  <2> HIDE DEF docs
  <2> QED  BY <1>1, <2>1, <2>2
<1>6. ASSUME Rebuild PROVE JobsUploaded'
  BY <1>1, <1>6, DocumentsNow DEF Rebuild
<1>7. ASSUME CancelBuild PROVE JobsUploaded'
  <2>1. \A v \in Versions : jobs'[v].documents = jobs[v].documents
    BY <1>7, DocumentsNow, RetireUnfinishedTyped DEF CancelBuild
  <2>2. SameLive(documents, documents')
    BY <1>7, DocumentsNow, RestoreSame DEF CancelBuild
  <2> QED  BY <2>1, <2>2, SameLiveUploaded
<1>8. ASSUME DeleteBase PROVE JobsUploaded'
  <2>1. \A v \in Versions : Retire(jobs[v], "cancelled").documents = jobs[v].documents
    BY DocumentsNow, RetireTyped DEF Retired
  <2>2. \A v \in Versions : jobs'[v].documents = jobs[v].documents
    BY <1>8, <2>1 DEF DeleteBase
  <2>3. \A d \in Docs : documents'[d].status = "absent" => documents[d].status = "absent"
    BY <1>8, DocumentsNow DEF DeleteBase, Documents
  <2> QED  BY <2>2, <2>3, UploadedStays
<1> QED  BY <1>2, <1>4, <1>5, <1>6, <1>7, <1>8 DEF UserStep

\* A publication.
LEMMA PublishUploaded ==
  ASSUME KbInv, JobsUploaded, NEW v \in Versions, Fenced(v), PublishJob(v)
  PROVE  JobsUploaded'
<1>1. \A u \in Versions :
        /\ [jobs[u] EXCEPT !.status = "succeeded", !.lease = 0].documents = jobs[u].documents
        /\ [jobs[u] EXCEPT !.cleanup = "pending"].documents = jobs[u].documents
  BY DocumentsNow DEF Jobs
<1>2. \A u \in Versions : jobs'[u].documents = jobs[u].documents
  BY <1>1 DEF PublishJob
<1> QED  BY <1>2, PublishedLive, UploadedStays

-----------------------------------------------------------------------------
(* Workers and segments: the invariant.                                    *)

\* A worker that is not idle works on a version.
BusyWithVersion ==
  \A w \in Workers : worker[w].pc # "idle" => worker[w].version # NoVersion

Executes(w) == worker[w].pc \in Executing

\* Calls that may still change a segment.
OpenCalls == calls \cup serving

\* A job has one attempt, which begins after it was claimed.
OneAttempt ==
  \A w \in Workers :
    Executes(w) =>
      /\ jobs[worker[w].version].status \in Retired \cup {"processing"}
      /\ \A u \in Workers \ {w} : Executes(u) => worker[u].version # worker[w].version

\* One call is served at a time, and it has put its segment on record.
ServedAlone ==
  /\ \A c, e \in serving : c = e
  /\ \A c \in serving :
       segments[c.segment].state = IF c.action = "build" THEN "building" ELSE "tombstone"

\* What is to be cleaned up is over for good, and never becomes active; it
\* is kept as evidence unless nobody can cite it any more.
CleanupsDue ==
  \A c \in OpenCalls :
    c.action = "cleanup" =>
      /\ jobs[c.segment].status \in Retired \cup {"succeeded"}
      /\ kb.status = "deleted" \/ c.segment # kb.active
      /\ ~c.retain => jobs[c.segment].status \in Retired

\* A segment is built once, for an attempt that waits for it or is over.
BuildsOpen ==
  \A c \in OpenCalls :
    c.action = "build" =>
      /\ jobs[c.segment].status \in Retired \cup {"processing"}
      /\ \A w \in Workers :
           worker[w].version = c.segment => worker[w].pc \notin {"extracting", "built"}
      /\ c \in serving => c \notin calls

\* An attempt that is about to publish has its segment as long as it may.
BuiltIsSearchable ==
  \A w \in Workers :
    worker[w].pc = "built" /\ jobs[worker[w].version].status = "processing"
      => Searchable(worker[w].version)

\* Evidence is given up only for what is retired.
RevokedIsRetired ==
  \A v \in Versions : segments[v].revoked => jobs[v].status \in Retired

IndexInv ==
  /\ OneAttempt /\ ServedAlone /\ CleanupsDue /\ BuildsOpen /\ BuiltIsSearchable
  /\ RevokedIsRetired /\ ActiveIsSearchable /\ CitationsKept

IInv == TypeOK /\ KbInv /\ BusyWithVersion /\ Records /\ IndexInv

-----------------------------------------------------------------------------
(* The records: whatever the workers do, it is an operation of management. *)

\* The version of a worker that is not idle is one.
LEMMA VersionTyped ==
  ASSUME TypeOK, BusyWithVersion, NEW w \in Workers, worker[w].pc # "idle"
  PROVE  Version(w) \in Versions
BY DEF TypeOK, BusyWithVersion, Version

\* Where the workers are.
Workplaces == [Workers -> [pc: WorkerState, version: Versions \cup {NoVersion}]]

\* One worker goes on with its version.
LEMMA GotoEffect ==
  ASSUME worker \in Workplaces, NEW w \in Workers, NEW pc \in WorkerState, Goto(w, pc)
  PROVE  /\ worker' \in Workplaces
         /\ worker'[w].pc = pc /\ worker'[w].version = Version(w)
         /\ \A u \in Workers \ {w} : worker'[u] = worker[u]
BY DEF Workplaces, Goto, Version

\* One worker turns to a version.
LEMMA WorkEffect ==
  ASSUME worker \in Workplaces, NEW w \in Workers, NEW pc \in WorkerState,
         NEW v \in Versions, Work(w, pc, v)
  PROVE  /\ worker' \in Workplaces
         /\ worker'[w].pc = pc /\ worker'[w].version = v
         /\ \A u \in Workers \ {w} : worker'[u] = worker[u]
BY DEF Workplaces, Work

\* A claim is one of a queued or of an expired job, or finds an exhausted one.
LEMMA ClaimCases ==
  ASSUME KbInv, Records, NEW w \in Workers, Claim(w)
  PROVE  /\ KbInv' /\ Records' /\ UNCHANGED indexVars
         /\ \/ JobsAdvance({}, {}) /\ UNCHANGED worker
            \/ \E v \in Versions : /\ Work(w, "extracting", v)
                                   /\ JobsAdvance({v}, {})
                                   /\ jobs[v].status \in {"none", "queued"}
                                   /\ jobs'[v].status = "processing"
<1>1. PICK v \in Versions :
        \/ ClaimQueued(v) /\ Work(w, "extracting", v)
        \/ ClaimExpired(v) /\ Work(w, "extracting", kb.pending')
        \/ ClaimExhausted(v) /\ UNCHANGED worker
  BY DEF Claim
<1>2. CASE ClaimQueued(v) /\ Work(w, "extracting", v)
  BY <1>2, ClaimQueuedKeeps, ClaimQueuedAdvances DEF Claim
<1>3. CASE ClaimExpired(v) /\ Work(w, "extracting", kb.pending')
  <2>1. KbInv'
    BY <1>3, ClaimExpiredKeeps
  <2>2. /\ Records' /\ JobsAdvance({kb'.pending}, {})
        /\ kb'.pending \in Versions /\ jobs[kb'.pending].status = "none"
        /\ jobs'[kb'.pending].status = "processing"
    BY <1>3, ClaimExpiredAdvances
  <2> QED  BY <1>3, <2>1, <2>2 DEF Claim
<1>4. CASE ClaimExhausted(v) /\ UNCHANGED worker
  BY <1>4, ClaimExhaustedKeeps, ClaimExhaustedAdvances DEF Claim
<1> QED  BY <1>1, <1>2, <1>3, <1>4

\* Steps that start and publish nothing, and leave the segments alone: every
\* worker stays where it is or gives up.
QuietStep ==
  /\ JobsAdvance({}, {})
  /\ UNCHANGED indexVars
  /\ worker' \in Workplaces
  /\ \A w \in Workers : \/ worker'[w] = worker[w]
                        \/ worker'[w] = Idle
                        \/ worker'[w].pc = "failing" /\ worker'[w].version \in Versions

\* The steps of users and of the clock are quiet.
LEMMA ManageIsQuiet ==
  ASSUME IInv, Manage \/ Tick \/ UNCHANGED vars
  PROVE  KbInv' /\ Records' /\ QuietStep
<1> USE DEF IInv
<1>1. worker \in Workplaces
  BY DEF TypeOK, Workplaces
<1>2. CASE Manage
  <2>1. KbInv' /\ Records' /\ JobsAdvance({}, {})
    BY <1>2, UserStepKeeps, UserStepAdvances DEF Manage
  <2> QED  BY <1>1, <1>2, <2>1 DEF Manage, QuietStep
<1>3. CASE Tick
  <2>1. KbInv' /\ Records' /\ JobsAdvance({}, {})
    BY <1>3, KbTickKeeps, KbTickAdvances DEF Tick
  <2> QED  BY <1>1, <1>3, <2>1 DEF Tick, QuietStep
<1>4. CASE UNCHANGED vars
  <2>1. KbInv' /\ Records' /\ JobsAdvance({}, {})
    BY <1>4, KbUnchanged DEF vars
  <2> QED  BY <1>1, <1>4, <2>1 DEF vars, QuietStep
<1> QED  BY <1>2, <1>3, <1>4

\* So are those of workers that neither begin nor publish a build.
LEMMA WorkIsQuiet ==
  ASSUME IInv, NEW w \in Workers,
         ReportCleanup(w) \/ Renew(w) \/ AttemptFails(w) \/ ReportFailure(w) \/ Crash(w)
  PROVE  KbInv' /\ Records' /\ QuietStep
<1> USE DEF IInv
<1>1. worker \in Workplaces
  BY DEF TypeOK, Workplaces
<1>2. Idle \in [pc: WorkerState, version: Versions \cup {NoVersion}]
  BY DEF Idle, WorkerState
<1>3. CASE ReportCleanup(w)
  <2>1. Version(w) \in Versions
    BY <1>3, VersionTyped DEF ReportCleanup, At
  <2>2. KbInv' /\ Records' /\ JobsAdvance({}, {})
    BY <1>3, <2>1, RecordCleanupKeeps, RecordCleanupAdvances DEF ReportCleanup
  <2> QED  BY <1>1, <1>2, <1>3, <2>2 DEF ReportCleanup, Rest, QuietStep, Workplaces
<1>4. CASE Renew(w)
  <2>1. Version(w) \in Versions
    BY <1>4, VersionTyped DEF Renew, Executing
  <2>2. KbInv' /\ Records' /\ JobsAdvance({}, {})
    BY <1>4, <2>1, RenewKeeps, RenewAdvances DEF Renew
  <2> QED  BY <1>1, <1>4, <2>2 DEF Renew, QuietStep
<1>5. CASE AttemptFails(w)
  <2>1. Version(w) \in Versions
    BY <1>5, VersionTyped DEF AttemptFails, Executing
  <2>2. KbInv' /\ Records' /\ JobsAdvance({}, {})
    BY <1>5, KbUnchanged DEF AttemptFails
  <2>3. /\ worker' \in Workplaces
        /\ worker'[w].pc = "failing" /\ worker'[w].version = Version(w)
        /\ \A u \in Workers \ {w} : worker'[u] = worker[u]
    BY <1>1, <1>5, GotoEffect DEF AttemptFails, WorkerState
  <2> QED
    BY <1>5, <2>1, <2>2, <2>3 DEF AttemptFails, QuietStep
<1>6. CASE ReportFailure(w)
  <2>1. Version(w) \in Versions
    BY <1>6, VersionTyped DEF ReportFailure, At
  <2>2. KbInv' /\ Records' /\ JobsAdvance({}, {})
    BY <1>6, <2>1, FailKeeps, FailAdvances, KbUnchanged DEF ReportFailure
  <2> QED  BY <1>1, <1>2, <1>6, <2>2 DEF ReportFailure, Rest, QuietStep, Workplaces
<1>7. CASE Crash(w)
  <2>1. KbInv' /\ Records' /\ JobsAdvance({}, {})
    BY <1>7, KbUnchanged DEF Crash
  <2> QED  BY <1>1, <1>2, <1>7, <2>1 DEF Crash, Rest, QuietStep, Workplaces
<1> QED  BY <1>3, <1>4, <1>5, <1>6, <1>7

-----------------------------------------------------------------------------
(* The segments: what each step leaves of the invariant.                   *)

\* The segment of an open call is a version's.
LEMMA OpenTyped ==
  ASSUME TypeOK
  PROVE  /\ \A c \in OpenCalls : c.segment \in Versions /\ c.action \in {"build", "cleanup"}
         /\ \A c \in OpenCalls : c.action = "cleanup" => c.retain \in BOOLEAN
BY DEF TypeOK, OpenCalls, Calls

\* An attempt has the version of its worker.
LEMMA ExecutesTyped ==
  ASSUME IInv, NEW w \in Workers, Executes(w)
  PROVE  worker[w].version \in Versions
BY DEF IInv, Executes, Executing, TypeOK, BusyWithVersion

\* Ending an attempt, retiring a job or deleting the base endangers no segment.
LEMMA QuietKeepsIndex ==
  ASSUME IInv, QuietStep
  PROVE  IndexInv'
<1> USE DEF IInv, IndexInv, QuietStep, indexVars
<1>1. \A w \in Workers :
        /\ Executes(w)' => Executes(w) /\ worker'[w] = worker[w]
        /\ worker'[w].pc \in {"extracting", "built"} => worker'[w] = worker[w] /\ Executes(w)
  BY DEF Executes, Executing, Idle
<1>2. \A w \in Workers : Executes(w) => worker[w].version \in Versions
  BY ExecutesTyped
<1>3. OneAttempt'
  BY <1>1, <1>2 DEF OneAttempt, JobsAdvance
<1>4. CleanupsDue'
  BY OpenTyped DEF CleanupsDue, OpenCalls, JobsAdvance
<1>5. BuildsOpen'
  BY <1>1, OpenTyped DEF BuildsOpen, OpenCalls, JobsAdvance
<1>6. BuiltIsSearchable'
  BY <1>1, <1>2 DEF BuiltIsSearchable, JobsAdvance, Searchable
<1>7. RevokedIsRetired'
  BY DEF RevokedIsRetired, JobsAdvance
<1>8. ActiveIsSearchable' /\ CitationsKept' /\ ServedAlone'
  BY DEF ActiveIsSearchable, CitationsKept, ServedAlone, JobsAdvance, Searchable, Citable
<1> QED  BY <1>3, <1>4, <1>5, <1>6, <1>7, <1>8

\* A claimed job is new to all workers and to the search service.
LEMMA ClaimKeepsIndex ==
  ASSUME IInv, NEW w \in Workers, NEW v \in Versions, Work(w, "extracting", v),
         JobsAdvance({v}, {}), UNCHANGED indexVars,
         jobs[v].status \in {"none", "queued"}, jobs'[v].status = "processing"
  PROVE  IndexInv'
<1> USE DEF IInv, IndexInv, indexVars
<1>1. /\ worker'[w].pc = "extracting" /\ worker'[w].version = v
      /\ \A u \in Workers \ {w} : worker'[u] = worker[u]
  BY WorkEffect DEF TypeOK, Workplaces, WorkerState, Executing
<1>2. \A u \in Workers : Executes(u) => worker[u].version \in Versions \ {v}
  BY ExecutesTyped DEF OneAttempt, Retired
<1>3. OneAttempt'
  <2>1. \A u \in Workers \ {w} : Executes(u)' <=> Executes(u)
    BY <1>1 DEF Executes
  <2> QED  BY <1>1, <1>2, <2>1 DEF OneAttempt, JobsAdvance
<1>4. CleanupsDue'
  BY OpenTyped DEF CleanupsDue, OpenCalls, JobsAdvance
<1>5. BuildsOpen'
  <2>1. \A c \in OpenCalls : c.action = "build" => c.segment # v
    BY DEF BuildsOpen, Retired
  <2> QED  BY <1>1, <2>1, OpenTyped DEF BuildsOpen, OpenCalls, JobsAdvance
<1>6. BuiltIsSearchable'
  BY <1>1, <1>2 DEF BuiltIsSearchable, JobsAdvance, Searchable, Executes, Executing
<1>7. RevokedIsRetired'
  BY DEF RevokedIsRetired, JobsAdvance
<1>8. ActiveIsSearchable' /\ CitationsKept' /\ ServedAlone'
  BY DEF ActiveIsSearchable, CitationsKept, ServedAlone, JobsAdvance, Searchable, Citable
<1> QED  BY <1>3, <1>4, <1>5, <1>6, <1>7, <1>8

\* Only the attempt itself could still have used its segment.
LEMMA PublishKeepsIndex ==
  ASSUME IInv, NEW w \in Workers, Publish(w), NEW v \in Versions, v = Version(w),
         JobsAdvance({}, {v}), jobs[v].status = "processing", kb'.active = v
  PROVE  IndexInv'
<1> USE DEF IInv, IndexInv, indexVars
<1>1. /\ worker[w].pc = "built" /\ worker[w].version = v
      /\ worker'[w].pc \in {"idle", "failing"}
      /\ \A u \in Workers \ {w} : worker'[u] = worker[u]
      /\ UNCHANGED <<segments, calls, serving>>
  BY DEF Publish, At, Version, Rest, Goto, Idle, TypeOK
<1>2. \A u \in Workers : Executes(u) => worker[u].version \in Versions
  BY ExecutesTyped
<1>3. \A u \in Workers \ {w} : Executes(u) => worker[u].version # v
  BY <1>1 DEF OneAttempt, Executes, Executing
<1>4. \A u \in Workers : Executes(u)' => u # w /\ Executes(u)
  BY <1>1 DEF Executes, Executing
<1>5. OneAttempt'
  BY <1>1, <1>2, <1>3, <1>4 DEF OneAttempt, JobsAdvance
<1>6. \A c \in OpenCalls : c.segment # v
  BY <1>1, OpenTyped DEF CleanupsDue, BuildsOpen, Retired
<1>7. CleanupsDue'
  BY <1>1, <1>6, OpenTyped DEF CleanupsDue, OpenCalls, JobsAdvance
<1>8. BuildsOpen'
  <2>1. \A u \in Workers : worker'[u].pc \in {"extracting", "built"} => worker'[u] = worker[u]
    BY <1>1
  <2> QED  BY <1>1, <1>6, <2>1, OpenTyped DEF BuildsOpen, OpenCalls, JobsAdvance
<1>9. BuiltIsSearchable'
  BY <1>1, <1>2, <1>4 DEF BuiltIsSearchable, JobsAdvance, Searchable, Executes, Executing
<1>10. RevokedIsRetired'
  BY <1>1 DEF RevokedIsRetired, JobsAdvance
<1>11. Searchable(v)
  BY <1>1 DEF BuiltIsSearchable
<1>12. ActiveIsSearchable' /\ CitationsKept' /\ ServedAlone'
  BY <1>1, <1>11
     DEF ActiveIsSearchable, CitationsKept, ServedAlone, JobsAdvance, Searchable, Citable, Stored
<1> QED  BY <1>5, <1>7, <1>8, <1>9, <1>10, <1>12

\* What is listed for cleanup is over, and the list says whether to keep evidence.
LEMMA CleanKeepsIndex ==
  ASSUME IInv, NEW w \in Workers, NEW v \in Versions, CleanSegment(w, v)
  PROVE  IndexInv'
<1> USE DEF IInv, IndexInv
<1> PICK n \in Numbers : Send(CleanupCall(v, RetainProvenance(v), n))
  BY DEF CleanSegment
<1>1. /\ calls' = calls \cup {CleanupCall(v, RetainProvenance(v), n)}
      /\ UNCHANGED <<kb, jobs, segments, serving>>
  BY DEF CleanSegment, Send, kbVars
<1>2. /\ worker[w].pc = "idle" /\ worker'[w].pc = "cleaning"
      /\ \A u \in Workers \ {w} : worker'[u] = worker[u]
  BY WorkEffect DEF CleanSegment, At, TypeOK, Workplaces, WorkerState
<1>3. \A u \in Workers : /\ Executes(u)' <=> Executes(u)
                         /\ worker'[u].pc \in {"extracting", "built"} => worker'[u] = worker[u]
  BY <1>2 DEF Executes, Executing
<1>4. \A u \in Workers : Executes(u) => worker'[u] = worker[u]
  BY <1>2 DEF Executes, Executing
<1>5. OneAttempt'
  BY <1>1, <1>3, <1>4 DEF OneAttempt
<1>6. CleanupsDue'
  <2>1. /\ jobs[v].status \in Retired \cup {"succeeded"}
        /\ kb.status = "deleted" \/ v # kb.active
        /\ ~RetainProvenance(v) => jobs[v].status \in Retired
    BY DEF CleanSegment, Listed, MayCleanUp, Unfinished, Records, RetainProvenance, TypeOK,
           KbTypeOK, Jobs, JobStatus, Retired
  <2> QED  BY <1>1, <2>1 DEF CleanupsDue, OpenCalls, CleanupCall
<1>7. BuildsOpen'
  BY <1>1, <1>3 DEF BuildsOpen, OpenCalls, CleanupCall
<1>8. BuiltIsSearchable' /\ RevokedIsRetired' /\ ServedAlone'
  BY <1>1, <1>3 DEF BuiltIsSearchable, RevokedIsRetired, ServedAlone, Searchable
<1>9. ActiveIsSearchable' /\ CitationsKept'
  BY <1>1 DEF ActiveIsSearchable, CitationsKept, Searchable, Citable
<1> QED  BY <1>5, <1>6, <1>7, <1>8, <1>9

\* An attempt asks for its segment once, while it may.
LEMMA CheckAndBuildKeepsIndex ==
  ASSUME IInv, NEW w \in Workers, CheckAndBuild(w)
  PROVE  IndexInv'
<1> USE DEF IInv, IndexInv
<1> DEFINE v == Version(w)
<1>1. /\ calls' = calls \cup {BuildCall(v)}
      /\ UNCHANGED <<kb, jobs, segments, serving>>
  BY DEF CheckAndBuild, Send, kbVars
<1>2. /\ worker[w].pc = "extracting" /\ worker'[w].pc = "building"
      /\ worker[w].version = v /\ worker'[w].version = v
      /\ \A u \in Workers \ {w} : worker'[u] = worker[u]
  BY GotoEffect DEF CheckAndBuild, At, Version, TypeOK, Workplaces, WorkerState, Executing
<1>3. \A u \in Workers : /\ Executes(u)' <=> Executes(u)
                         /\ worker'[u].version = worker[u].version
                         /\ worker'[u].pc \in {"extracting", "built"} => worker'[u] = worker[u]
  BY <1>2 DEF Executes, Executing
<1>4. Executes(w)
  BY <1>2 DEF Executes, Executing
<1> HIDE DEF v
<1>5. OneAttempt'
  BY <1>1, <1>3 DEF OneAttempt
<1>6. CleanupsDue'
  BY <1>1 DEF CleanupsDue, OpenCalls, BuildCall
<1>7. BuildsOpen'
  <2>1. jobs[v].status \in Retired \cup {"processing"}
    BY <1>2, <1>4 DEF OneAttempt
  <2>2. \A u \in Workers : worker'[u].version = v => worker'[u].pc \notin {"extracting", "built"}
    BY <1>2, <1>4 DEF OneAttempt, Executes, Executing
  <2>3. BuildCall(v) \notin serving
    BY <1>2 DEF BuildsOpen, OpenCalls, BuildCall
  <2> QED  BY <1>1, <1>3, <2>1, <2>2, <2>3 DEF BuildsOpen, OpenCalls, BuildCall
<1>8. BuiltIsSearchable' /\ RevokedIsRetired' /\ ServedAlone'
  BY <1>1, <1>3 DEF BuiltIsSearchable, RevokedIsRetired, ServedAlone, Searchable
<1>9. ActiveIsSearchable' /\ CitationsKept'
  BY <1>1 DEF ActiveIsSearchable, CitationsKept, Searchable, Citable
<1> QED  BY <1>5, <1>6, <1>7, <1>8, <1>9

\* The segment of an open call is not in use: a build is not done before it is
\* told, and a cleanup is due.
LEMMA OpenNotInUse ==
  ASSUME IInv, NEW c \in OpenCalls
  PROVE  /\ kb.active # NoVersion /\ kb.status # "deleted" => c.segment # kb.active
         /\ c.action = "build" => jobs[c.segment].status # "succeeded"
         /\ \A w \in Workers :
              worker[w].pc = "built" /\ jobs[worker[w].version].status = "processing"
                => c.segment # worker[w].version
<1> USE DEF IInv, IndexInv
<1>1. CASE c.action = "build"
  BY <1>1 DEF BuildsOpen, Records, Retired
<1>2. CASE c.action = "cleanup"
  BY <1>2 DEF CleanupsDue, Retired
<1> QED  BY <1>1, <1>2, OpenTyped

\* A step of the search service changes one segment, that of an open call.
LEMMA ServiceKeepsIndex ==
  ASSUME IInv, UNCHANGED <<kbVars, worker>>, NEW c \in OpenCalls,
         calls' \subseteq calls, serving' \subseteq OpenCalls,
         \A e \in serving' : e \notin calls',
         \A v \in Versions \ {c.segment} : segments'[v] = segments[v],
         segments'[c.segment].revoked => jobs[c.segment].status \in Retired,
         jobs[c.segment].status = "succeeded" => Citable(c.segment)',
         ServedAlone'
  PROVE  IndexInv'
<1> USE DEF IInv, IndexInv, kbVars
<1>1. c.segment \in Versions
  BY OpenTyped
<1>2. OpenCalls' \subseteq OpenCalls
  BY DEF OpenCalls
<1>3. OneAttempt'
  BY DEF OneAttempt, Executes
<1>4. CleanupsDue'
  BY <1>2 DEF CleanupsDue
<1>5. BuildsOpen'
  BY <1>2 DEF BuildsOpen
<1>6. RevokedIsRetired'
  BY DEF RevokedIsRetired
<1>7. \A v \in Versions \ {c.segment} : /\ Searchable(v)' <=> Searchable(v)
                                        /\ Citable(v)' <=> Citable(v)
  BY DEF Searchable, Citable
<1>8. BuiltIsSearchable'
  <2> SUFFICES ASSUME NEW w \in Workers, worker[w].pc = "built",
                      jobs[worker[w].version].status = "processing"
               PROVE  Searchable(worker[w].version)'
    BY DEF BuiltIsSearchable
  <2>1. worker[w].version \in Versions \ {c.segment}
    BY OpenNotInUse, ExecutesTyped DEF Executes, Executing
  <2> QED  BY <2>1, <1>7 DEF BuiltIsSearchable
<1>9. ActiveIsSearchable'
  <2>1. kb.active \in Versions \cup {NoVersion}
    BY DEF TypeOK, KbTypeOK, Bases
  <2> QED  BY <2>1, <1>7, OpenNotInUse DEF ActiveIsSearchable
<1>10. CitationsKept'
  BY <1>7 DEF CitationsKept
<1> QED  BY <1>3, <1>4, <1>5, <1>6, <1>8, <1>9, <1>10

\* The fields of segments.
LEMMA SegmentTyped ==
  ASSUME TypeOK, NEW v \in Versions
  PROVE  /\ segments \in [Versions -> SegmentRows]
         /\ segments[v].stored \subseteq Stored /\ segments[v].retain \in BOOLEAN
BY DEF TypeOK, SegmentRows

\* A call that is refused, a build or a cleanup that begins.
LEMMA StartKeepsIndex ==
  ASSUME IInv, UNCHANGED <<kbVars, worker>>, NEW c \in calls, StartCall(c)
  PROVE  IndexInv'
<1> USE DEF IInv, IndexInv
<1>1. c \in OpenCalls /\ c.segment \in Versions /\ c.action \in {"build", "cleanup"}
  BY OpenTyped DEF OpenCalls
<1>2. serving = {} /\ calls' = calls \ {c}
  BY DEF StartCall, RefuseCall, StartBuild, StartCleanup
<1>3. jobs[c.segment].status = "succeeded" => Citable(c.segment)
  BY <1>1 DEF CitationsKept
<1>4. segments[c.segment].revoked => jobs[c.segment].status \in Retired
  BY <1>1 DEF RevokedIsRetired
<1>5. segments \in [Versions -> SegmentRows]
  BY <1>1, SegmentTyped
<1>6. CASE RefuseCall(c)
  <2>1. UNCHANGED <<segments, serving>>
    BY <1>6 DEF RefuseCall
  <2>2. ServedAlone'
    BY <1>2, <2>1 DEF ServedAlone
  <2>3. Citable(c.segment)' <=> Citable(c.segment)
    BY <2>1 DEF Citable
  <2> QED  BY <1>1, <1>2, <1>3, <1>4, <2>1, <2>2, <2>3, ServiceKeepsIndex
<1>7. CASE StartBuild(c)
  <2>1. /\ c.action = "build" /\ serving' = {c}
        /\ segments'[c.segment].state = "building"
        /\ segments'[c.segment].revoked = segments[c.segment].revoked
        /\ \A v \in Versions \ {c.segment} : segments'[v] = segments[v]
    BY <1>1, <1>5, <1>7 DEF StartBuild, SegmentRows
  <2>2. ServedAlone'
    BY <2>1 DEF ServedAlone
  <2>3. jobs[c.segment].status # "succeeded"
    BY <1>1, <2>1, OpenNotInUse
  <2> QED  BY <1>1, <1>2, <1>4, <2>1, <2>2, <2>3, ServiceKeepsIndex
<1>8. CASE StartCleanup(c)
  <2> DEFINE old == segments[c.segment]
             revoked == old.revoked \/ ~c.retain
             new == [state |-> "tombstone", stored |-> old.stored, revoked |-> revoked,
                     retain |-> c.retain /\ ~revoked /\ (old.state = "ready" \/ old.retain)]
  <2>1. /\ c.action = "cleanup" /\ serving' = {c}
        /\ segments' = [segments EXCEPT ![c.segment] = new]
    BY <1>8 DEF StartCleanup
  <2>2. /\ segments'[c.segment] = new
        /\ \A v \in Versions \ {c.segment} : segments'[v] = segments[v]
    BY <1>1, <1>5, <2>1
  <2>3. ServedAlone'
    BY <2>1, <2>2 DEF ServedAlone
  <2>4. ~c.retain => jobs[c.segment].status \in Retired
    BY <1>1, <2>1 DEF CleanupsDue
  <2>5. revoked => jobs[c.segment].status \in Retired
    BY <1>4, <2>4
  <2>6. ASSUME jobs[c.segment].status = "succeeded" PROVE Citable(c.segment)'
    <3>1. ~revoked
      BY <2>5, <2>6 DEF Retired
    <3>2. c.retain
      BY <3>1
    <3>3. "chunks" \in old.stored /\ (old.state = "ready" \/ old.retain)
      BY <1>3, <2>6 DEF Citable
    <3>4. "chunks" \in new.stored /\ new.retain
      BY <3>1, <3>2, <3>3
    <3> HIDE DEF new
    <3>5. "chunks" \in segments'[c.segment].stored /\ segments'[c.segment].retain
      BY <2>2, <3>4, Zenon
    <3> QED  BY <3>5, Zenon DEF Citable
  <2>7. new.revoked => jobs[c.segment].status \in Retired
    BY <2>5
  <2> HIDE DEF new
  <2>8. segments'[c.segment].revoked => jobs[c.segment].status \in Retired
    BY <2>2, <2>7, Zenon
  <2> QED  BY <1>1, <1>2, <2>1, <2>2, <2>3, <2>6, <2>8, ServiceKeepsIndex
<1> QED  BY <1>6, <1>7, <1>8 DEF StartCall

\* A call that ends without an index: what is kept as evidence stays.
LEMMA EndKeepsIndex ==
  ASSUME IInv, UNCHANGED <<kbVars, worker>>, NEW c \in serving, EndCall(c)
  PROVE  IndexInv'
<1> USE DEF IInv, IndexInv
<1>1. c \in OpenCalls /\ c.segment \in Versions
  BY OpenTyped DEF OpenCalls
<1>2. serving' = {} /\ calls' = calls
  BY DEF EndCall, Interrupt, FailBuild, FinishCleanup
<1>3. ServedAlone'
  BY <1>2 DEF ServedAlone
<1>4. jobs[c.segment].status = "succeeded" => Citable(c.segment)
  BY <1>1 DEF CitationsKept
<1>5. segments[c.segment].revoked => jobs[c.segment].status \in Retired
  BY <1>1 DEF RevokedIsRetired
<1>6. segments \in [Versions -> SegmentRows]
  BY <1>1, SegmentTyped
<1>7. CASE Interrupt(c)
  <2>1. UNCHANGED segments
    BY <1>7 DEF Interrupt
  <2>2. Citable(c.segment)' <=> Citable(c.segment)
    BY <2>1 DEF Citable
  <2> QED  BY <1>1, <1>2, <1>3, <1>4, <1>5, <2>1, <2>2, ServiceKeepsIndex
<1>8. CASE FailBuild(c)
  <2>1. /\ c.action = "build"
        /\ segments'[c.segment].revoked = segments[c.segment].revoked
        /\ \A v \in Versions \ {c.segment} : segments'[v] = segments[v]
    BY <1>1, <1>6, <1>8 DEF FailBuild, SegmentRows
  <2>2. jobs[c.segment].status # "succeeded"
    BY <1>1, <2>1, OpenNotInUse
  <2> QED  BY <1>1, <1>2, <1>3, <1>5, <2>1, <2>2, ServiceKeepsIndex
<1>9. CASE FinishCleanup(c)
  <2>1. /\ c.action = "cleanup"
        /\ segments'[c.segment].revoked = segments[c.segment].revoked
        /\ segments'[c.segment].retain = segments[c.segment].retain
        /\ segments'[c.segment].stored = IF segments[c.segment].retain
                                         THEN segments[c.segment].stored \cap {"chunks"} ELSE {}
        /\ \A v \in Versions \ {c.segment} : segments'[v] = segments[v]
    BY <1>1, <1>6, <1>9 DEF FinishCleanup, SegmentRows
  <2>2. segments[c.segment].state = "tombstone"
    BY <2>1 DEF ServedAlone
  <2>3. ASSUME jobs[c.segment].status = "succeeded" PROVE Citable(c.segment)'
    <3>1. "chunks" \in segments[c.segment].stored /\ segments[c.segment].retain
      BY <1>4, <2>2, <2>3 DEF Citable
    <3>2. "chunks" \in segments'[c.segment].stored /\ segments'[c.segment].retain
      BY <2>1, <3>1
    <3> QED  BY <3>2, Zenon DEF Citable
  <2> QED  BY <1>1, <1>2, <1>3, <1>5, <2>1, <2>3, ServiceKeepsIndex
<1> QED  BY <1>7, <1>8, <1>9 DEF EndCall

\* There is one call to build a segment.
LEMMA BuildCallUnique ==
  ASSUME TypeOK, NEW c \in OpenCalls, NEW e \in OpenCalls,
         c.action = "build", e.action = "build", c.segment = e.segment
  PROVE  c = e
<1>1. \A f \in OpenCalls : f.action = "build" => f \in [action: {"build"}, segment: Versions]
  BY DEF TypeOK, OpenCalls, Calls
<1> QED  BY <1>1

\* A segment is complete before the attempt that asked for it is told, and
\* until then no version shows it.
LEMMA BuildDoneKeepsIndex ==
  ASSUME IInv, BuildDone
  PROVE  IndexInv'
<1> USE DEF IInv, IndexInv, kbVars
<1>1. PICK c \in serving :
        /\ FinishBuild(c)
        /\ worker' = [w \in Workers |->
             IF worker[w] = [pc |-> "building", version |-> c.segment]
             THEN [worker[w] EXCEPT !.pc = "built"] ELSE worker[w]]
  BY DEF BuildDone
<1>2. UNCHANGED kbVars
  BY DEF BuildDone
<1>3. c \in OpenCalls /\ c.segment \in Versions /\ c.action = "build" /\ c \notin calls
  BY <1>1, OpenTyped DEF OpenCalls, FinishBuild, BuildsOpen
<1>4. /\ calls' = calls /\ serving' = {}
      /\ segments'[c.segment].state = "ready" /\ segments'[c.segment].stored = Stored
      /\ segments'[c.segment].revoked = segments[c.segment].revoked
      /\ \A u \in Versions \ {c.segment} : segments'[u] = segments[u]
  BY <1>1, <1>3, SegmentTyped DEF FinishBuild, SegmentRows
<1>5. worker \in Workplaces
  BY DEF TypeOK, Workplaces
<1>6. \A w \in Workers :
        /\ worker'[w].version = worker[w].version
        /\ \/ worker'[w] = worker[w]
           \/ /\ worker[w].pc = "building" /\ worker'[w].pc = "built"
              /\ worker[w].version = c.segment
  BY <1>1, <1>5 DEF Workplaces
<1>7. \A w \in Workers : Executes(w)' <=> Executes(w)
  BY <1>6 DEF Executes, Executing
<1>8. OneAttempt'
  BY <1>2, <1>6, <1>7 DEF OneAttempt
<1>9. OpenCalls' \subseteq OpenCalls
  BY <1>4 DEF OpenCalls
<1>10. CleanupsDue'
  BY <1>2, <1>9 DEF CleanupsDue
<1>11. BuildsOpen'
  <2>1. \A e \in OpenCalls : e.action = "build" /\ e.segment = c.segment => e = c
    BY <1>3, BuildCallUnique
  <2>2. \A e \in OpenCalls' : e.action = "build" => e.segment # c.segment
    BY <1>3, <1>4, <2>1 DEF OpenCalls
  <2> QED  BY <1>2, <1>4, <1>6, <1>9, <2>2 DEF BuildsOpen
<1>12. Searchable(c.segment)' /\ Citable(c.segment)'
  BY <1>4 DEF Searchable, Citable, Stored
<1>13. \A u \in Versions \ {c.segment} : /\ Searchable(u)' <=> Searchable(u)
                                  /\ Citable(u)' <=> Citable(u)
  BY <1>4 DEF Searchable, Citable
<1>14. BuiltIsSearchable'
  <2> SUFFICES ASSUME NEW w \in Workers, worker'[w].pc = "built",
                      jobs[worker[w].version].status = "processing"
               PROVE  segments'[worker[w].version].state = "ready"
                      /\ segments'[worker[w].version].stored = Stored
    BY <1>2, <1>6 DEF BuiltIsSearchable, Searchable
  <2>1. CASE worker[w].version = c.segment
    BY <2>1, <1>4
  <2>2. CASE worker[w].version # c.segment
    <3>1. worker[w].pc = "built"
      BY <2>2, <1>6
    <3>2. worker[w].version \in Versions
      BY <3>1, ExecutesTyped DEF Executes, Executing
    <3> QED  BY <2>2, <3>1, <3>2, <1>4 DEF BuiltIsSearchable, Searchable
  <2> QED  BY <2>1, <2>2
<1>15. RevokedIsRetired'
  <2>1. \A u \in Versions : segments'[u].revoked = segments[u].revoked
    BY <1>4
  <2> QED  BY <1>2, <2>1 DEF RevokedIsRetired
<1>16. ActiveIsSearchable'
  <2>1. kb.active \in Versions \cup {NoVersion}
    BY DEF TypeOK, KbTypeOK, Bases
  <2> QED  BY <1>2, <1>4, <2>1 DEF ActiveIsSearchable, Searchable
<1>17. CitationsKept'
  BY <1>2, <1>12, <1>13 DEF CitationsKept
<1>18. ServedAlone'
  BY <1>4 DEF ServedAlone
<1> QED  BY <1>8, <1>10, <1>11, <1>14, <1>15, <1>16, <1>17, <1>18

-----------------------------------------------------------------------------
(* Every step keeps the invariant.                                         *)

\* The states of workers and of the search service: what TypeOK says of them.
Shaped ==
  /\ worker \in Workplaces
  /\ segments \in [Versions -> SegmentRows]
  /\ calls \subseteq Calls /\ serving \subseteq Calls
  /\ BusyWithVersion

\* Quiet steps, claims and publications.
LEMMA WorkerShaped ==
  ASSUME IInv, UNCHANGED indexVars,
         \/ QuietStep
         \/ \E w \in Workers : Claim(w) \/ Publish(w)
  PROVE  Shaped'
<1> USE DEF IInv, Shaped, indexVars
<1>1. worker \in Workplaces
  BY DEF TypeOK, Workplaces
<1>2. segments' \in [Versions -> SegmentRows] /\ calls' \subseteq Calls /\ serving' \subseteq Calls
  BY DEF TypeOK
<1>3. NoVersion \notin Versions
  BY DEF NoVersion, Versions
<1>4. CASE QuietStep
  BY <1>2, <1>3, <1>4 DEF QuietStep, BusyWithVersion, Idle
<1>5. ASSUME NEW w \in Workers, Claim(w) PROVE Shaped'
  <2>1. CASE UNCHANGED worker
    BY <1>1, <1>2, <2>1 DEF BusyWithVersion
  <2>2. ASSUME NEW v \in Versions, Work(w, "extracting", v) PROVE Shaped'
    <3>1. /\ worker' \in Workplaces /\ worker'[w].version = v
          /\ \A u \in Workers \ {w} : worker'[u] = worker[u]
      BY <1>1, <2>2, WorkEffect DEF WorkerState, Executing
    <3> QED  BY <1>2, <1>3, <3>1 DEF BusyWithVersion
  <2> QED  BY <1>5, <2>1, <2>2, ClaimCases
<1>6. ASSUME NEW w \in Workers, Publish(w) PROVE Shaped'
  <2>1. CASE Rest(w)
    BY <1>1, <1>2, <2>1 DEF Rest, Idle, Workplaces, WorkerState, BusyWithVersion
  <2>2. CASE Goto(w, "failing")
    <3>1. /\ worker' \in Workplaces /\ worker'[w].version = Version(w)
          /\ \A u \in Workers \ {w} : worker'[u] = worker[u]
      BY <1>1, <2>2, GotoEffect DEF WorkerState
    <3>2. Version(w) # NoVersion
      BY <1>6 DEF BusyWithVersion, Publish, At, Version
    <3> QED  BY <1>2, <3>1, <3>2 DEF BusyWithVersion
  <2> QED  BY <1>6, <2>1, <2>2 DEF Publish
<1> QED  BY <1>4, <1>5, <1>6

\* A worker that sends a call.
LEMMA SendShaped ==
  ASSUME IInv, NEW w \in Workers, NEW v \in Versions, CleanSegment(w, v) \/ CheckAndBuild(w)
  PROVE  Shaped'
<1> USE DEF IInv, Shaped
<1>1. worker \in Workplaces
  BY DEF TypeOK, Workplaces
<1>2. NoVersion \notin Versions
  BY DEF NoVersion, Versions
<1>3. CASE CleanSegment(w, v)
  <2>1. RetainProvenance(v) \in BOOLEAN
    BY DEF RetainProvenance
  <2>2. \A n \in Numbers : CleanupCall(v, RetainProvenance(v), n) \in Calls
    BY <2>1 DEF CleanupCall, Calls
  <2>3. /\ worker' \in Workplaces /\ worker'[w].version = v
        /\ \A u \in Workers \ {w} : worker'[u] = worker[u]
    BY <1>1, <1>3, WorkEffect DEF CleanSegment, WorkerState
  <2> QED  BY <1>2, <1>3, <2>2, <2>3 DEF CleanSegment, Send, TypeOK, BusyWithVersion
<1>4. CASE CheckAndBuild(w)
  <2>1. Version(w) \in Versions
    BY <1>4, VersionTyped DEF CheckAndBuild, At
  <2>2. BuildCall(Version(w)) \in Calls
    BY <2>1 DEF BuildCall, Calls
  <2>3. /\ worker' \in Workplaces /\ worker'[w].version = Version(w)
        /\ \A u \in Workers \ {w} : worker'[u] = worker[u]
    BY <1>1, <1>4, GotoEffect DEF CheckAndBuild, WorkerState, Executing
  <2> QED  BY <1>2, <1>4, <2>1, <2>2, <2>3 DEF CheckAndBuild, Send, TypeOK, BusyWithVersion
<1> QED  BY <1>3, <1>4

\* The search service.
LEMMA ServiceShaped ==
  ASSUME IInv, IndexStep \/ BuildDone
  PROVE  Shaped'
<1> USE DEF IInv, Shaped
<1>1. worker \in Workplaces /\ segments \in [Versions -> SegmentRows]
  BY DEF TypeOK, Workplaces
<1>2. calls \subseteq Calls /\ serving \subseteq Calls
  BY DEF TypeOK
<1>3. \A c \in calls \cup serving : c.segment \in Versions
  BY OpenTyped DEF OpenCalls
<1>4. ASSUME NEW c \in calls, StartCall(c) PROVE segments' \in [Versions -> SegmentRows]
  <2>1. CASE RefuseCall(c)
    BY <1>1, <2>1 DEF RefuseCall
  <2>2. CASE StartBuild(c)
    BY <1>1, <1>3, <2>2 DEF StartBuild, SegmentRows, SegmentState, Stored
  <2>3. CASE StartCleanup(c)
    <3> DEFINE old == segments[c.segment]
               revoked == old.revoked \/ ~c.retain
               retain == c.retain /\ ~revoked /\ (old.state = "ready" \/ old.retain)
               new == [state |-> "tombstone", stored |-> old.stored, revoked |-> revoked,
                       retain |-> retain]
    <3>1. segments' = [segments EXCEPT ![c.segment] = new]
      BY <2>3 DEF StartCleanup
    <3>2. revoked \in BOOLEAN /\ retain \in BOOLEAN
      OBVIOUS
    <3>3. old.stored \in SUBSET Stored
      BY <1>3, SegmentTyped
    <3> HIDE DEF old, revoked, retain
    <3>4. new \in SegmentRows
      BY <3>2, <3>3 DEF SegmentRows, SegmentState
    <3> HIDE DEF new
    <3> QED  BY <1>1, <1>3, <3>1, <3>4
  <2> QED  BY <1>4, <2>1, <2>2, <2>3 DEF StartCall
<1>5. ASSUME NEW c \in serving, EndCall(c) \/ FinishBuild(c)
      PROVE  segments' \in [Versions -> SegmentRows]
  <2>1. CASE Interrupt(c)
    BY <1>1, <2>1 DEF Interrupt
  <2>2. CASE FailBuild(c)
    BY <1>1, <1>3, <2>2 DEF FailBuild, SegmentRows, SegmentState
  <2>3. CASE FinishBuild(c)
    BY <1>1, <1>3, <2>3 DEF FinishBuild, SegmentRows, SegmentState, Stored
  <2>4. CASE FinishCleanup(c)
    BY <1>1, <1>3, <2>4 DEF FinishCleanup, SegmentRows, Stored
  <2> QED  BY <1>5, <2>1, <2>2, <2>3, <2>4 DEF EndCall
<1>6. CASE IndexStep
  <2>1. calls' \subseteq calls /\ serving' \subseteq calls \cup serving /\ UNCHANGED worker
    BY <1>6 DEF IndexStep, StartCall, EndCall, RefuseCall, StartBuild, StartCleanup,
                Interrupt, FailBuild, FinishCleanup
  <2>2. segments' \in [Versions -> SegmentRows]
    BY <1>4, <1>5, <1>6 DEF IndexStep
  <2> QED  BY <1>1, <1>2, <2>1, <2>2 DEF BusyWithVersion
<1>7. CASE BuildDone
  <2>1. calls' = calls /\ serving' = {} /\ segments' \in [Versions -> SegmentRows]
    BY <1>5, <1>7 DEF BuildDone, FinishBuild
  <2>2. /\ worker' \in Workplaces
        /\ \A w \in Workers : /\ worker'[w].version = worker[w].version
                              /\ worker'[w].pc = "idle" <=> worker[w].pc = "idle"
    BY <1>1, <1>7 DEF BuildDone, Workplaces, WorkerState, Executing
  <2> QED  BY <1>2, <2>1, <2>2 DEF BusyWithVersion
<1> QED  BY <1>6, <1>7

\* A step is quiet, a claim, a publication, the sending of a call, or one of
\* the search service.
LEMMA StepKeeps == IInv /\ [Next]_vars => IInv'
<1> SUFFICES ASSUME IInv, [Next]_vars PROVE IInv'
  OBVIOUS
<1>1. ASSUME KbInv', Records', Shaped', IndexInv' PROVE IInv'
  BY <1>1 DEF IInv, Shaped, TypeOK, KbInv, Workplaces
<1>2. IInv => KbInv /\ Records
  BY DEF IInv
<1>3. ASSUME Manage \/ Tick \/ UNCHANGED vars PROVE IInv'
  <2>1. KbInv' /\ Records' /\ QuietStep
    BY <1>3, ManageIsQuiet
  <2> QED  BY <1>1, <2>1, QuietKeepsIndex, WorkerShaped DEF QuietStep
<1>4. ASSUME NEW w \in Workers, WorkerStep(w) PROVE IInv'
  <2>1. CASE ReportCleanup(w) \/ Renew(w) \/ AttemptFails(w) \/ ReportFailure(w) \/ Crash(w)
    <3>1. KbInv' /\ Records' /\ QuietStep
      BY <2>1, WorkIsQuiet
    <3> QED  BY <1>1, <3>1, QuietKeepsIndex, WorkerShaped DEF QuietStep
  <2>2. CASE Claim(w)
    <3>1. KbInv' /\ Records' /\ UNCHANGED indexVars
      BY <1>2, <2>2, ClaimCases
    <3>2. Shaped'
      BY <2>2, <3>1, WorkerShaped
    <3>3. IndexInv'
      <4>1. CASE JobsAdvance({}, {}) /\ UNCHANGED worker
        <5>1. QuietStep
          BY <4>1, <3>1, <3>2 DEF QuietStep, Shaped
        <5> QED  BY <5>1, QuietKeepsIndex
      <4> QED  BY <1>2, <2>2, <3>1, <4>1, ClaimCases, ClaimKeepsIndex
    <3> QED  BY <1>1, <3>1, <3>2, <3>3
  <2>3. CASE Publish(w)
    <3>1. /\ Version(w) \in Versions /\ Fenced(Version(w)) /\ PublishJob(Version(w))
          /\ UNCHANGED indexVars
      BY <2>3, VersionTyped DEF Publish, At, IInv
    <3>2. /\ KbInv' /\ Records' /\ JobsAdvance({}, {Version(w)})
          /\ jobs[Version(w)].status = "processing" /\ kb'.active = Version(w)
      BY <1>2, <3>1, PublishKeeps, PublishAdvances
    <3>3. IndexInv'
      BY <2>3, <3>1, <3>2, PublishKeepsIndex
    <3> QED  BY <1>1, <2>3, <3>1, <3>2, <3>3, WorkerShaped
  <2>4. CASE CheckAndBuild(w)
    <3>1. UNCHANGED kbVars /\ Version(w) \in Versions
      BY <2>4, VersionTyped DEF CheckAndBuild, At, IInv
    <3> QED  BY <1>1, <1>2, <2>4, <3>1, KbUnchanged, SendShaped, CheckAndBuildKeepsIndex
  <2>5. ASSUME NEW v \in Versions, CleanSegment(w, v) PROVE IInv'
    <3>1. UNCHANGED kbVars
      BY <2>5 DEF CleanSegment
    <3> QED  BY <1>1, <1>2, <2>5, <3>1, KbUnchanged, SendShaped, CleanKeepsIndex
  <2> QED  BY <1>4, <2>1, <2>2, <2>3, <2>4, <2>5 DEF WorkerStep
<1>5. CASE IndexStep
  <2>1. UNCHANGED <<kbVars, worker>>
    BY <1>5 DEF IndexStep
  <2>2. IndexInv'
    BY <1>5, <2>1, StartKeepsIndex, EndKeepsIndex DEF IndexStep
  <2> QED  BY <1>1, <1>2, <1>5, <2>1, <2>2, KbUnchanged, ServiceShaped
<1>6. CASE BuildDone
  <2>1. UNCHANGED kbVars
    BY <1>6 DEF BuildDone
  <2> QED  BY <1>1, <1>2, <1>6, <2>1, KbUnchanged, ServiceShaped, BuildDoneKeepsIndex
<1> QED  BY <1>3, <1>4, <1>5, <1>6 DEF Next

\* A new base has no segments, and nobody works on it.
LEMMA InitKeeps == Init => IInv
<1> SUFFICES ASSUME Init PROVE IInv
  OBVIOUS
<1>1. KbInv /\ Records
  BY KbInitKeeps, RecordsInit DEF Init
<1>2. Shaped
  BY DEF Init, IndexInit, Shaped, Workplaces, Idle, WorkerState, BusyWithVersion,
         SegmentRows, SegmentState, NoSegment
<1>3. \A w \in Workers : worker[w].pc = "idle"
  BY DEF Init, Idle
<1>4. \A v \in Versions : jobs[v].status = "none" /\ ~segments[v].revoked
  BY DEF Init, KbInit, IndexInit, NoSegment
<1>5. IndexInv
  BY <1>3, <1>4 DEF Init, KbInit, IndexInit, IndexInv, OneAttempt, Executes, Executing,
                    ServedAlone, CleanupsDue, BuildsOpen, OpenCalls, BuiltIsSearchable,
                    RevokedIsRetired, ActiveIsSearchable, CitationsKept
<1> QED  BY <1>1, <1>2, <1>5 DEF IInv, Shaped, TypeOK, KbInv, Workplaces

\* In every reachable state: the invariant.
THEOREM Invariant == Spec => []IInv
BY InitKeeps, StepKeeps, PTL DEF Spec

-----------------------------------------------------------------------------
(* What it says.                                                           *)

\* The records of the base, its workers and its segments have the types of
\* the code's rows, for any number of each.
THEOREM TypeCorrect == Spec => []TypeOK
<1>1. IInv => TypeOK
  BY DEF IInv
<1> QED  BY <1>1, Invariant, PTL

\* There is one unfinished job, the pending version's, exactly while the base
\* is being indexed.
THEOREM OneBuildHolds == Spec => []OneBuild
<1>1. IInv => OneBuild
  BY DEF IInv, KbInv
<1> QED  BY <1>1, Invariant, PTL

\* What is built is what the user wants at the time it is published.
THEOREM PendingIsDesiredHolds == Spec => []PendingIsDesired
<1>1. IInv => PendingIsDesired
  BY DEF IInv, KbInv
<1> QED  BY <1>1, Invariant, PTL

\* A document is replaced by one live document at a time.
THEOREM OneSuccessorHolds == Spec => []OneSuccessor
<1>1. IInv => OneSuccessor
  BY DEF IInv, KbInv
<1> QED  BY <1>1, Invariant, PTL

\* A document's status tells whether it is searched or waits for a build.
THEOREM DocumentsTellHolds == Spec => []DocumentsTell
<1>1. IInv => DocumentsTell
  BY DEF IInv, KbInv
<1> QED  BY <1>1, Invariant, PTL

\* The active version can be searched, however late calls are served.
THEOREM ActiveIsSearchableHolds == Spec => []ActiveIsSearchable
<1>1. IInv => ActiveIsSearchable
  BY DEF IInv, IndexInv
<1> QED  BY <1>1, Invariant, PTL

\* The evidence of every published version is kept as long as the base.
THEOREM CitationsKeptHolds == Spec => []CitationsKept
<1>1. IInv => CitationsKept
  BY DEF IInv, IndexInv
<1> QED  BY <1>1, Invariant, PTL

\* A retired segment is never built again: a call that is being served has it
\* on record, and one that waits is refused.
THEOREM NothingComesBackHolds == Spec => NothingComesBack
<1> DEFINE Removed == \A v \in Versions :
             segments[v].state = "tombstone" => segments'[v].stored \subseteq segments[v].stored
<1>1. IInv /\ [Next]_vars => [Removed]_vars
  <2> SUFFICES ASSUME IInv, Next PROVE Removed
    BY DEF vars, indexVars
  <2>1. CASE UNCHANGED segments
    BY <2>1
  <2>2. segments \in [Versions -> SegmentRows]
    BY DEF IInv, TypeOK
  <2>3. ASSUME NEW c \in calls, StartBuild(c) PROVE Removed
    BY <2>2, <2>3 DEF StartBuild, Tombstoned
  <2>4. ASSUME NEW c \in calls, StartCleanup(c) PROVE Removed
    <3>1. \A v \in Versions : segments'[v].stored = segments[v].stored
      BY <2>2, <2>4 DEF StartCleanup
    <3> QED  BY <3>1
  <2>5. ASSUME NEW c \in serving, FinishBuild(c) PROVE Removed
    <3>1. segments[c.segment].state = "building"
      BY <2>5 DEF FinishBuild, IInv, IndexInv, ServedAlone
    <3> QED  BY <2>2, <2>5, <3>1 DEF FinishBuild
  <2>6. ASSUME NEW c \in serving, FailBuild(c) PROVE Removed
    BY <2>2, <2>6 DEF FailBuild, SegmentRows
  <2>7. ASSUME NEW c \in serving, FinishCleanup(c) PROVE Removed
    BY <2>2, <2>7 DEF FinishCleanup, SegmentRows
  <2>8. CASE IndexStep
    BY <2>1, <2>3, <2>4, <2>6, <2>7, <2>8
       DEF IndexStep, StartCall, EndCall, RefuseCall, Interrupt
  <2>9. CASE BuildDone
    BY <2>5, <2>9 DEF BuildDone
  <2>10. ASSUME NEW w \in Workers, WorkerStep(w) PROVE UNCHANGED segments
    BY <2>10 DEF WorkerStep, CleanSegment, Send, ReportCleanup, Claim, Renew, CheckAndBuild,
                 Publish, AttemptFails, ReportFailure, Crash, indexVars
  <2> QED  BY <2>1, <2>8, <2>9, <2>10 DEF Next, Manage, Tick, indexVars
<1> QED  BY <1>1, Invariant, PTL DEF Spec, NothingComesBack
-----------------------------------------------------------------------------
(***************************************************************************)
(* The implementation of KbCatalog.  What the records promise is what      *)
(* searches get, since the active version can always be searched.          *)
(***************************************************************************)

\* The clock and what workers ask of management, but for a publication.
LEMMA WorkShowsNothing ==
  ASSUME KbInv, JobsUploaded,
         \/ \E v \in Versions : ClaimQueued(v) \/ ClaimExpired(v) \/ ClaimExhausted(v)
                              \/ (Fenced(v) /\ FailJob(v)) \/ RenewJob(v) \/ RecordCleanup(v)
         \/ KbTick
         \/ UNCHANGED kbVars
  PROVE  UNCHANGED Promise!vars /\ JobsUploaded'
<1> DEFINE Shows == UNCHANGED Promise!vars /\ JobsUploaded'
<1>1. ASSUME UNCHANGED <<kb, documents>>,
             \A v \in Versions : jobs'[v].documents = jobs[v].documents
      PROVE  Shows
  <2>1. SameLive(documents, documents')
    BY <1>1, DocumentsNow DEF SameLive
  <2> QED  BY <1>1, <2>1, JobsOnlyShow, SameLiveUploaded
<1>2. ASSUME NEW v \in Versions, ClaimQueued(v) PROVE Shows
  <2>1. \A u \in Versions : jobs'[u].documents = jobs[u].documents
    BY <1>2, DocumentsNow DEF ClaimQueued, Jobs
  <2>2. SameLive(documents, documents')
    <3>1. "processing" \in DocStatus \ {"absent", "removed"}
      BY DEF DocStatus
    <3>2. Desired(documents) \in SUBSET Live(documents)
      BY DEF Desired
    <3> QED  BY <1>2, <3>1, <3>2, DocumentsNow, SetStatusSame DEF ClaimQueued
  <2> QED  BY <1>2, <2>1, <2>2, ClaimQueuedShows, SameLiveUploaded
<1>3. ASSUME NEW v \in Versions, ClaimExpired(v) PROVE Shows
  BY <1>3, ClaimExpiredShows, SameLiveUploaded
<1>4. ASSUME NEW v \in Versions, NEW status \in Retired, kb.status # "deleted",
             jobs' = [jobs EXCEPT ![v] = Retire(@, status)],
             kb' = [kb EXCEPT !.status = Fallback, !.pending = NoVersion],
             documents' = Restore(documents)
      PROVE  Shows
  BY <1>4, RetireShows, SameLiveUploaded
<1>5. ASSUME NEW v \in Versions, ClaimExhausted(v) PROVE Shows
  BY <1>4, <1>5 DEF ClaimExhausted, Retired
<1>6. ASSUME NEW v \in Versions, Fenced(v), FailJob(v) PROVE Shows
  BY <1>4, <1>6 DEF Fenced, FailJob, Retired
<1>7. ASSUME NEW v \in Versions, RenewJob(v) PROVE Shows
  BY <1>1, <1>7, DocumentsNow DEF RenewJob, Jobs
<1>8. ASSUME NEW v \in Versions, RecordCleanup(v) PROVE Shows
  BY <1>1, <1>8, DocumentsNow DEF RecordCleanup, Jobs
<1>9. ASSUME KbTick PROVE Shows
  <2>1. \A v \in Versions : jobs'[v].documents = jobs[v].documents
    BY <1>9, DocumentsNow DEF KbTick, Jobs
  <2> QED  BY <1>1, <1>9, <2>1 DEF KbTick
<1>10. ASSUME UNCHANGED kbVars PROVE Shows
  BY <1>1, <1>10 DEF kbVars
<1> HIDE DEF Shows
<1>11. Shows
  BY <1>2, <1>3, <1>5, <1>6, <1>7, <1>8, <1>9, <1>10
<1> QED  BY <1>11 DEF Shows

\* Every step is one of KbCatalog as far as the records go.
LEMMA RecordsShow ==
  ASSUME IInv, JobsUploaded, [Next]_vars
  PROVE  [Promise!Next]_(Promise!vars) /\ JobsUploaded'
<1> USE DEF IInv
<1> DEFINE Shows == [Promise!Next]_(Promise!vars) /\ JobsUploaded'
<1>1. CASE Manage
  BY <1>1, UserStepShows, UserStepUploaded DEF Manage
<1>2. ASSUME NEW w \in Workers, Publish(w) PROVE Shows
  <2>1. Version(w) \in Versions /\ Fenced(Version(w)) /\ PublishJob(Version(w))
    BY <1>2, VersionTyped DEF Publish, At
  <2> QED  BY <2>1, PublishPromotes, PublishUploaded DEF Promise!Next
<1>3. ASSUME NEW w \in Workers, Claim(w) PROVE Shows
  BY <1>3, WorkShowsNothing DEF Claim
<1>4. ASSUME NEW w \in Workers, Renew(w) PROVE Shows
  <2>1. Version(w) \in Versions
    BY <1>4, VersionTyped DEF Renew, Executing
  <2> QED  BY <1>4, <2>1, WorkShowsNothing DEF Renew
<1>5. ASSUME NEW w \in Workers, ReportCleanup(w) PROVE Shows
  <2>1. Version(w) \in Versions
    BY <1>5, VersionTyped DEF ReportCleanup, At
  <2> QED  BY <1>5, <2>1, WorkShowsNothing DEF ReportCleanup
<1>6. ASSUME NEW w \in Workers, ReportFailure(w) PROVE Shows
  <2>1. Version(w) \in Versions
    BY <1>6, VersionTyped DEF ReportFailure, At
  <2> QED  BY <1>6, <2>1, WorkShowsNothing DEF ReportFailure
<1>7. CASE UNCHANGED kbVars
  BY <1>7, WorkShowsNothing
<1>8. CASE Tick
  BY <1>8, WorkShowsNothing DEF Tick
<1> HIDE DEF Shows
<1>9. ASSUME NEW w \in Workers, WorkerStep(w) PROVE Shows
  BY <1>2, <1>3, <1>4, <1>5, <1>6, <1>7, <1>9
     DEF WorkerStep, CleanSegment, CheckAndBuild, AttemptFails, Crash, Shows
<1>10. CASE IndexStep \/ BuildDone \/ UNCHANGED vars
  BY <1>7, <1>10 DEF IndexStep, BuildDone, vars
<1>11. Shows
  BY <1>1, <1>8, <1>9, <1>10 DEF Next, Shows
<1> QED  BY <1>11 DEF Shows

\* Searches see the complete index of what was wanted when it was published,
\* less what was removed since, whatever workers and services do.
THEOREM CatalogImplemented == Spec => ImplementsCatalog
<1>1. Init => Catalog!Init
  <2> SUFFICES ASSUME Init PROVE Catalog!Init
    OBVIOUS
  <2>1. Live(documents) = {} /\ kb.status = "empty" /\ kb.active = NoVersion
    BY DEF Init, KbInit, Live
  <2> QED  BY <2>1 DEF Catalog!Init, Desired
<1>2. Init => JobsUploaded
  BY DEF Init, KbInit, JobsUploaded
<1>3. IInv /\ IInv' /\ JobsUploaded /\ [Next]_vars => [Catalog!Next]_(Catalog!vars) /\ JobsUploaded'
  <2> SUFFICES ASSUME IInv, IInv', JobsUploaded, [Next]_vars
               PROVE  [Catalog!Next]_(Catalog!vars) /\ JobsUploaded'
    OBVIOUS
  <2> DEFINE searched == IF kb.status # "deleted" /\ kb.active # NoVersion /\ Searchable(kb.active)
                         THEN jobs[kb.active].documents \cap Live(documents) ELSE {}
  <2>1. [Promise!Next]_(Promise!vars) /\ JobsUploaded'
    BY RecordsShow
  <2>2. Shown = searched
    BY DEF IInv, IndexInv, ActiveIsSearchable, Shown, ActiveDocuments
  <2>3. Shown' = searched'
    BY DEF IInv, IndexInv, ActiveIsSearchable, Shown, ActiveDocuments
  <2>4. CASE UNCHANGED Promise!vars
    BY <2>1, <2>2, <2>3, <2>4 DEF Promise!vars, Catalog!vars, Wanted, Open
  <2>5. ASSUME NEW d \in Docs, Promise!Add(d) PROVE Catalog!Add(d)
    BY <2>2, <2>3, <2>5 DEF Promise!Add, Catalog!Add, Wanted, Open
  <2>6. ASSUME NEW d \in Docs, NEW old \in Docs, Promise!Replace(d, old) PROVE Catalog!Replace(d, old)
    BY <2>2, <2>3, <2>6 DEF Promise!Replace, Catalog!Replace, Wanted, Open
  <2>7. ASSUME NEW gone \in SUBSET Docs, Promise!Remove(gone) PROVE Catalog!Remove(gone)
    BY <2>2, <2>3, <2>7 DEF Promise!Remove, Catalog!Remove, Wanted, Open
  <2>8. ASSUME Promise!Promote PROVE Catalog!Promote
    BY <2>2, <2>3, <2>8 DEF Promise!Promote, Catalog!Promote, Wanted, Open
  <2>9. ASSUME Promise!Close PROVE Catalog!Close
    BY <2>2, <2>3, <2>9 DEF Promise!Close, Catalog!Close, Wanted, Open
  <2> QED
    BY <2>1, <2>4, <2>5, <2>6, <2>7, <2>8, <2>9 DEF Promise!Next, Catalog!Next
<1> QED  BY <1>1, <1>2, <1>3, Invariant, PTL DEF Spec, ImplementsCatalog, Catalog!Spec
=============================================================================
