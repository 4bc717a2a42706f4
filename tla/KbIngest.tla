------------------------------ MODULE KbIngest ------------------------------
(***************************************************************************)
(* Building knowledge base versions from a directory of files and a FAQ    *)
(* table: scripts/rebuild_kb_version.py, indexing/service.py,              *)
(* faq_ingestion.py, cleanup.py, manifest.py, governance/chunk_versions.py *)
(* and the writing half of retrieval/store.py.                             *)
(*                                                                         *)
(* A version is its sequence number.  A chunk of Milvus is valid from the  *)
(* version that wrote it until the version that expired it; a version sees *)
(* the chunks whose window contains it, so an unchanged file is not        *)
(* written again, it is only named in the manifest of the new version.     *)
(* MySQL keeps a copy of the windows.  One action is one call of MySQL or  *)
(* of Milvus; the process may die between any two.                         *)
(*                                                                         *)
(* A file is one chunk, or none when it is Empty.  Creating, recording and *)
(* activating versions is the subject of KbVersions; here a build takes    *)
(* the next number, and activation moves the pointer.                      *)
(***************************************************************************)
EXTENDS Integers, FiniteSets

CONSTANTS
    Files,      \* paths below the data directory
    Contents,   \* what a file may contain
    Empty,      \* a content from which no chunk is made
    Questions,  \* questions of the FAQ table
    None,       \* no file, no record
    MaxSeq,     \* bound: versions created
    Modes,      \* how operators build: "incremental", "full", "rerun"
    Practices   \* "crash", "gate", "cleanup", "edit", "branch"

ASSUME IngestAssumption ==
    MaxSeq \in Nat \ {0} /\ Empty \in Contents

Versions == 1..MaxSeq

\* The identity of a chunk is a hash of version, document and text.
Chunk == [seq : Versions, file : Files, content : Contents \ {Empty}]

Absent == -1   \* no such row
Open   == 0    \* valid_to_seq of a chunk that is still valid

VARIABLES
    disk,      \* [Files -> Contents \cup {None}]
    csv,       \* questions in the FAQ table
    created,   \* number of versions created
    active,    \* the version the pointer shows, 0 if none
    released,  \* versions that have been active
    vectors,   \* valid_to_seq of each chunk in Milvus
    index,     \* the window of each chunk in kb_chunk_versions
    manifest,  \* [Versions -> [Files -> record or None]]
    faq,       \* questions in Milvus, by version
    pc,        \* where the build is
    job,       \* its locals
    built,     \* history: what each completed build has put in its version
    orderly    \* history: no edit during a release, no build beside the line

data   == <<vectors, index, manifest, faq>>
source == <<disk, csv>>
kb     == <<created, active, released>>
vars   == <<source, kb, data, pc, job, built, orderly>>

-----------------------------------------------------------------------------

Window == [from : Versions, to : 0..MaxSeq]
Row    == [fp : Contents, chunks : SUBSET Chunk]
Job    == [target : 0..MaxSeq, base : 0..MaxSeq, force : BOOLEAN,
           todo : SUBSET Files, seen : SUBSET Files, gone : SUBSET Files,
           file : Files \cup {None}, content : Contents \cup {None},
           asked : SUBSET Questions, got : [Files -> Contents \cup {None}]]
Picture == [files : [Files -> Contents \cup {None}], faq : SUBSET Questions]
Places == {"idle", "faqDelete", "faqAdd", "list", "walk", "expire", "expireIndex", "delete",
           "add", "register", "record", "missing", "gate"}

ASSUME NoneAssumption == None \notin Contents \cup Window \cup Row \cup Picture

TypeOK ==
    /\ disk \in [Files -> Contents \cup {None}]
    /\ csv \subseteq Questions
    /\ created \in 0..MaxSeq /\ active \in 0..MaxSeq /\ released \subseteq Versions
    /\ vectors \in [Chunk -> Absent..MaxSeq]
    /\ index \in [Chunk -> Window \cup {None}]
    /\ manifest \in [Versions -> [Files -> Row \cup {None}]]
    /\ faq \in [Versions -> SUBSET Questions]
    /\ pc \in Places
    /\ job \in Job
    /\ built \in [Versions -> Picture \cup {None}]
    /\ orderly \in BOOLEAN

\* Mutant: the version that expired a chunk still sees it.
InWindowInclusive(from, to, v) == from <= v /\ (to = Open \/ to >= v)

\* The filter of build_source_expr for documents, and of list_visible.
InWindow(from, to, v) == from <= v /\ (to = Open \/ to > v)

\* What a search in version v can find.
View(v) == {c \in Chunk : vectors[c] # Absent /\ InWindow(c.seq, vectors[c], v)}

\* What kb_chunk_versions says about it.
IndexView(v) ==
    {c \in Chunk : index[c] # None /\ InWindow(index[c].from, index[c].to, v)}

Finished(v) == built[v] # None

Idle == [target |-> 0, base |-> 0, force |-> FALSE, todo |-> {}, seen |-> {}, gone |-> {},
         file |-> None, content |-> None, asked |-> {},
         got |-> [f \in Files |-> None]]

Init ==
    /\ disk \in [Files -> Contents]
    /\ csv \in SUBSET Questions
    /\ created = 0 /\ active = 0 /\ released = {}
    /\ vectors = [c \in Chunk |-> Absent]
    /\ index = [c \in Chunk |-> None]
    /\ manifest = [v \in Versions |-> [f \in Files |-> None]]
    /\ faq = [v \in Versions |-> {}]
    /\ pc = "idle" /\ job = Idle
    /\ built = [v \in Versions |-> None]
    /\ orderly = TRUE

-----------------------------------------------------------------------------
\* The environment.

\* The newest version has been released: nobody is in the middle of a release.
Settled == created = 0 \/ created \in released

Quiet == pc = "idle" /\ Settled

\* Bound: a behaviour leaves the orderly course once.
Disturb(practice) == practice \in Practices /\ orderly

\* People edit the data between releases, under "edit" at any time.
Edit(f) ==
    /\ Quiet \/ Disturb("edit")
    /\ \E c \in (Contents \cup {None}) \ {disk[f]} : disk' = [disk EXCEPT ![f] = c]
    /\ orderly' = (orderly /\ Quiet)
    /\ UNCHANGED <<csv, kb, data, pc, job, built>>

EditFaq ==
    /\ Quiet \/ Disturb("edit")
    /\ \E q \in Questions : csv' = (csv \ {q}) \cup ({q} \ csv)
    /\ orderly' = (orderly /\ Quiet)
    /\ UNCHANGED <<disk, kb, data, pc, job, built>>

\* manage_kb_versions.py activate: back to a version that was published.
Rollback(v) ==
    /\ pc = "idle" /\ v \in released /\ v # active
    /\ active' = v
    /\ UNCHANGED <<source, created, released, data, pc, job, built, orderly>>

-----------------------------------------------------------------------------
\* The build: which version, and on which base.

\* --new-version takes the next number, --kb-version names the newest again.
TargetOf(mode) == IF mode = "rerun" THEN created ELSE created + 1

\* --incremental-from active; a full build has no base.
BaseOf(mode) == IF mode = "full" THEN 0 ELSE active

\* validate_args and resolve_incremental_base: the base is another version.
MayBegin(mode) ==
    /\ TargetOf(mode) \in Versions
    /\ BaseOf(mode) # TargetOf(mode)
    /\ mode = "incremental" => active # 0
    /\ mode = "rerun" => created \notin released

\* The target continues what is active.  It does not if a version was rolled
\* back or not released before ("branch"), or if old chunks stay valid beside
\* those of a full build.
InLine(mode) == BaseOf(mode) = TargetOf(mode) - 1

Begin(mode) ==
    /\ pc = "idle" /\ MayBegin(mode)
    /\ InLine(mode) \/ Disturb("branch")
    /\ pc' = "faqDelete"
    /\ created' = TargetOf(mode)
    /\ job' = [Idle EXCEPT !.target = TargetOf(mode), !.base = BaseOf(mode),
                           !.force = (mode = "full"), !.asked = csv]
    /\ built' = [built EXCEPT ![TargetOf(mode)] = None]
    /\ orderly' = (orderly /\ InLine(mode))
    /\ UNCHANGED <<source, active, released, data>>

\* ingest_faq_csv: delete the rows that are about to be written, write them.
FaqDelete ==
    /\ pc = "faqDelete" /\ pc' = "faqAdd"
    /\ faq' = [faq EXCEPT ![job.target] = @ \ job.asked]
    /\ UNCHANGED <<source, kb, vectors, index, manifest, job, built, orderly>>

FaqAdd ==
    /\ pc = "faqAdd" /\ pc' = "list"
    /\ faq' = [faq EXCEPT ![job.target] = @ \cup job.asked]
    /\ UNCHANGED <<source, kb, vectors, index, manifest, job, built, orderly>>

\* ingest_directory: os.walk lists the files there are.
ListFiles ==
    /\ pc = "list" /\ pc' = "walk"
    /\ job' = [job EXCEPT !.todo = {f \in Files : disk[f] # None}, !.seen = {}]
    /\ UNCHANGED <<source, kb, data, built, orderly>>

-----------------------------------------------------------------------------
\* One file.

Existing(f) == manifest[job.target][f]
BaseRow(f)  == IF job.base = 0 \/ job.force THEN None ELSE manifest[job.base][f]
Matches(row, fp) == row # None /\ row.fp = fp

NextFile(f, content) ==
    [job EXCEPT !.todo = @ \ {f}, !.seen = @ \cup {f}, !.file = None, !.content = None,
                !.got[f] = content]

\* The file is in the target version as it is now.
SkipFile(f) ==
    /\ pc = "walk" /\ f \in job.todo /\ disk[f] # None
    /\ ~job.force /\ Matches(Existing(f), disk[f])
    /\ job' = NextFile(f, disk[f])
    /\ UNCHANGED <<source, kb, data, pc, built, orderly>>

\* The file is as it was in the base: its chunks are named, not written.
ReferenceFile(f) ==
    /\ pc = "walk" /\ f \in job.todo /\ disk[f] # None
    /\ Existing(f) = None /\ Matches(BaseRow(f), disk[f])
    /\ manifest' = [manifest EXCEPT ![job.target][f] = BaseRow(f)]
    /\ job' = NextFile(f, disk[f])
    /\ UNCHANGED <<source, kb, vectors, index, faq, pc, built, orderly>>

\* Otherwise the base's chunks expire, if there are any, and the file is
\* written anew.  The fingerprint is taken here, the text read later.
ChangeFile(f) ==
    /\ pc = "walk" /\ f \in job.todo /\ disk[f] # None
    /\ job.force \/ ~Matches(Existing(f), disk[f])
    /\ ~(Existing(f) = None /\ Matches(BaseRow(f), disk[f]))
    /\ job' = [job EXCEPT !.file = f, !.content = disk[f]]
    /\ pc' = IF BaseRow(f) # None THEN "expire" ELSE "delete"
    /\ UNCHANGED <<source, kb, data, built, orderly>>

\* A file that has gone since it was listed ends the build with an exception.
FileVanished ==
    /\ \/ pc = "walk" /\ \E f \in job.todo : disk[f] = None
       \/ pc = "delete" /\ disk[job.file] = None
    /\ pc' = "idle" /\ job' = Idle
    /\ UNCHANGED <<source, kb, data, built, orderly>>

\* The chunks to expire: of the file at hand, or of a file that has gone.
Expiring == manifest[job.base][job.file].chunks

\* expire_documents_for_version: refuses if Milvus lacks one of the chunks.
ExpireVectors ==
    /\ pc = "expire" /\ \A c \in Expiring : vectors[c] # Absent
    /\ vectors' = [c \in Chunk |-> IF c \in Expiring THEN job.target ELSE vectors[c]]
    /\ pc' = "expireIndex"
    /\ UNCHANGED <<source, kb, index, manifest, faq, job, built, orderly>>

\* Mutant: a missing sequence number of the base is taken for zero.
ExpireIndexFromZero ==
    /\ pc = "expireIndex"
    /\ index' = [c \in Chunk |-> IF c \in Expiring
                                 THEN [from |-> 0, to |-> job.target] ELSE index[c]]
    /\ pc' = IF job.todo = {} THEN "missing" ELSE "delete"
    /\ job' = IF job.todo = {} THEN [job EXCEPT !.gone = @ \ {job.file}, !.file = None] ELSE job
    /\ UNCHANGED <<source, kb, vectors, manifest, faq, built, orderly>>

\* expire_chunks writes the whole row: valid_from_seq becomes the base's.
ExpireIndex ==
    /\ pc = "expireIndex"
    /\ index' = [c \in Chunk |-> IF c \in Expiring
                                 THEN [from |-> job.base, to |-> job.target]
                                 ELSE index[c]]
    /\ pc' = IF job.todo = {} THEN "missing" ELSE "delete"
    /\ job' = IF job.todo = {} THEN [job EXCEPT !.gone = @ \ {job.file}, !.file = None] ELSE job
    /\ UNCHANGED <<source, kb, vectors, manifest, faq, built, orderly>>

\* Mutant: every chunk the manifest names is deleted.
DeleteNamed ==
    /\ pc = "delete" /\ disk[job.file] # None
    /\ vectors' = [c \in Chunk |->
                     IF Existing(job.file) # None /\ c \in Existing(job.file).chunks
                     THEN Absent ELSE vectors[c]]
    /\ IF disk[job.file] = Empty
       THEN pc' = "walk" /\ job' = NextFile(job.file, Empty)
       ELSE pc' = "add" /\ job' = [job EXCEPT !.got[job.file] = disk[job.file]]
    /\ UNCHANGED <<source, kb, index, manifest, faq, built, orderly>>

\* delete_ids_for_kb_version: chunks of an older run of this build, not those
\* of the base that were only named; then the file is read and split.
DeleteOld ==
    /\ pc = "delete" /\ disk[job.file] # None
    /\ vectors' = [c \in Chunk |->
                     IF /\ Existing(job.file) # None
                        /\ c \in Existing(job.file).chunks
                        /\ c.seq = job.target
                     THEN Absent ELSE vectors[c]]
    /\ IF disk[job.file] = Empty
       THEN pc' = "walk" /\ job' = NextFile(job.file, Empty)
       ELSE pc' = "add" /\ job' = [job EXCEPT !.got[job.file] = disk[job.file]]
    /\ UNCHANGED <<source, kb, index, manifest, faq, built, orderly>>

NewChunk == [seq |-> job.target, file |-> job.file, content |-> job.got[job.file]]

AddVectors ==
    /\ pc = "add" /\ pc' = "register"
    /\ vectors' = [vectors EXCEPT ![NewChunk] = Open]
    /\ UNCHANGED <<source, kb, index, manifest, faq, job, built, orderly>>

\* Mutant: the rows are inserted but their rank is not known yet.
UpsertChunksUnnumbered ==
    /\ pc = "register" /\ pc' = "record"
    /\ UNCHANGED <<source, kb, vectors, index, manifest, faq, job, built, orderly>>

UpsertChunks ==
    /\ pc = "register" /\ pc' = "record"
    /\ index' = [index EXCEPT ![NewChunk] = [from |-> job.target, to |-> Open]]
    /\ UNCHANGED <<source, kb, vectors, manifest, faq, job, built, orderly>>

RecordManifest ==
    /\ pc = "record" /\ pc' = "walk"
    /\ manifest' = [manifest EXCEPT ![job.target][job.file] =
                      [fp |-> job.content, chunks |-> {NewChunk}]]
    /\ job' = NextFile(job.file, job.got[job.file])
    /\ UNCHANGED <<source, kb, vectors, index, faq, built, orderly>>

-----------------------------------------------------------------------------
\* The end of a build.

\* _expire_missing_base_records: files of the base that were not seen.
FindMissing ==
    /\ pc = "walk" /\ job.todo = {} /\ pc' = "missing"
    /\ job' = [job EXCEPT !.gone = {f \in Files \ job.seen :
                                      job.base # 0 /\ manifest[job.base][f] # None}]
    /\ UNCHANGED <<source, kb, data, built, orderly>>

ExpireMissing(f) ==
    /\ pc = "missing" /\ f \in job.gone
    /\ job' = [job EXCEPT !.file = f] /\ pc' = "expire"
    /\ UNCHANGED <<source, kb, data, built, orderly>>

\* record_ingest_result; what has been built is known from here on.
FinishIngest ==
    /\ pc = "missing" /\ job.gone = {} /\ pc' = "gate"
    /\ built' = [built EXCEPT ![job.target] = [files |-> job.got, faq |-> job.asked]]
    /\ UNCHANGED <<source, kb, data, job, orderly>>

\* finalize_version: the gate passes and the version is activated.
Release ==
    /\ pc = "gate" /\ pc' = "idle" /\ job' = Idle
    /\ active' = job.target /\ released' = released \cup {job.target}
    /\ UNCHANGED <<source, created, data, built, orderly>>

\* enforce_quality_gate_or_exit: the version stays as a candidate.
GateFails ==
    /\ "gate" \in Practices /\ pc = "gate" /\ pc' = "idle" /\ job' = Idle
    /\ UNCHANGED <<source, kb, data, built, orderly>>

Crash ==
    /\ "crash" \in Practices /\ pc # "idle" /\ pc' = "idle" /\ job' = Idle
    /\ UNCHANGED <<source, kb, data, built, orderly>>

-----------------------------------------------------------------------------

\* cleanup_missing_document_chunks --apply, for the active version: chunks of
\* files that are no longer there leave Milvus and the manifest.  An older
\* version which shares the chunk loses it as well, and is expected to.
Forgotten(f) == IF active # 0 /\ manifest[active][f] # None /\ disk[f] = None
                THEN manifest[active][f].chunks ELSE {}

Cleanup(f) ==
    /\ "cleanup" \in Practices /\ pc = "idle" /\ Forgotten(f) # {}
    /\ active = created \/ Disturb("cleanup")
    /\ vectors' = [c \in Chunk |-> IF c \in Forgotten(f) THEN Absent ELSE vectors[c]]
    /\ manifest' = [manifest EXCEPT ![active][f] = None]
    /\ built' = [v \in Versions |->
                   IF Finished(v) /\ Forgotten(f) \cap View(v) # {}
                   THEN [built[v] EXCEPT !.files[f] = None] ELSE built[v]]
    /\ orderly' = (orderly /\ active = created)
    /\ UNCHANGED <<source, kb, index, faq, pc, job>>

Build ==
    \/ \E mode \in Modes : Begin(mode)
    \/ FaqDelete \/ FaqAdd \/ ListFiles
    \/ \E f \in Files : SkipFile(f) \/ ReferenceFile(f) \/ ChangeFile(f) \/ ExpireMissing(f)
    \/ FileVanished \/ ExpireVectors \/ ExpireIndex \/ DeleteOld \/ AddVectors
    \/ UpsertChunks \/ RecordManifest \/ FindMissing \/ FinishIngest \/ Release

Next ==
    \/ Build \/ GateFails \/ Crash \/ EditFaq
    \/ \E f \in Files : Edit(f) \/ Cleanup(f)
    \/ \E v \in Versions : Rollback(v)

Spec == Init /\ [][Next]_vars

-----------------------------------------------------------------------------
\* Properties.

\* Every version whose build has completed shows each file and each question
\* once, as they were then, also after later builds, rollbacks and crashes:
\* the windows of a chain of incremental builds add up.
ViewsAreExact ==
    orderly => \A v \in Versions : Finished(v) =>
        /\ View(v) = {c \in Chunk : c \in View(v) /\ built[v].files[c.file] = c.content}
        /\ \A f \in Files : built[v].files[f] \in Contents \ {Empty} =>
               Cardinality({c \in View(v) : c.file = f}) = 1
        /\ faq[v] = built[v].faq

\* Whatever operators do, also after an edit in the middle of a release, a
\* crash and a rerun, or a build beside the line, a build takes nothing from
\* what older versions show: rolling back to one of them stays safe.  Along
\* the line it changes nothing there: only windows at or after its target move.
BuildKeepsOlderViews ==
    [][pc # "idle" => \A v \in Versions : v < job.target =>
         /\ View(v) \subseteq View(v)'
         /\ orderly => View(v)' = View(v)]_vars

\* The copy of the windows in MySQL knows every chunk the released newest
\* version shows.
NewestViewIsIndexed ==
    orderly /\ created \in released => View(created) \subseteq IndexView(created)

\* Refuted by TLC, where builds leave the line: what is online shows each file at most once.
OneChunkPerFile ==
    pc = "idle" /\ active # 0 =>
        \A c, d \in View(active) : c.file = d.file => c = d

=============================================================================
