---------------------------- MODULE KbIngestProofs ----------------------------
(***************************************************************************)
(* Proofs about KbIngest, for any files, contents, questions and number of *)
(* versions, and with every practice of the operators.                     *)
(*                                                                         *)
(* The version at work lies between two descriptions.  Once it has been    *)
(* released, what it shows is what its manifest names (SettledInv).  While *)
(* it has not (PendingInv), the version before it shows what the manifest  *)
(* of that names, and every chunk is on its way: one of the base stays     *)
(* valid as long as its file is unchanged, and has expired before a new    *)
(* one of its file is written, which a crash and a rerun find as it was    *)
(* left.  The walk over the files (WalkInv, FileInv, GoneInv) closes the   *)
(* gap: when nothing is left to do, each file is shown as it is on disk.   *)
(***************************************************************************)
EXTENDS KbIngest, FiniteSetTheorems, TLAPS

Writing == {"delete", "add", "register", "record"}

\* Where a build is, the locals that place needs are set.
Placed ==
    /\ pc # "idle" => job.target \in Versions
    /\ job.gone # {} => job.base \in Versions
    /\ pc = "missing" => job.todo = {}
    /\ pc \in {"expire", "expireIndex"} =>
         /\ job.file \in Files /\ job.base \in Versions
         /\ job.todo # {} => job.content \in Contents
    /\ pc \in Writing => job.file \in Files /\ job.content \in Contents
    /\ pc \in Writing \ {"delete"} => job.got[job.file] \in Contents \ {Empty}

TypeInv == TypeOK /\ Placed

-----------------------------------------------------------------------------
(* Types.                                                                  *)

Disks     == [Files -> Contents \cup {None}]
Pictures  == [Versions -> Picture \cup {None}]
Vectors   == [Chunk -> Absent .. MaxSeq]
Indexes   == [Chunk -> Window \cup {None}]
Manifests == [Versions -> [Files -> Row \cup {None}]]
Faqs      == [Versions -> SUBSET Questions]

SourceTyped == disk \in Disks /\ csv \subseteq Questions
KbTyped     == created \in 0 .. MaxSeq /\ active \in 0 .. MaxSeq /\ released \subseteq Versions
DataTyped   == vectors \in Vectors /\ index \in Indexes /\ manifest \in Manifests /\ faq \in Faqs
RestTyped   == pc \in Places /\ job \in Job /\ built \in Pictures /\ orderly \in BOOLEAN

LEMMA TypeOKInParts ==
    /\ TypeOK <=> (SourceTyped /\ KbTyped /\ DataTyped /\ RestTyped)
    /\ TypeOK' <=> (SourceTyped' /\ KbTyped' /\ DataTyped' /\ RestTyped')
BY DEF TypeOK, SourceTyped, KbTyped, DataTyped, RestTyped,
       Disks, Pictures, Vectors, Indexes, Manifests, Faqs

\* The bounds.
LEMMA Bounds ==
    /\ MaxSeq \in Nat /\ MaxSeq >= 1 /\ 1 \in Versions
    /\ \A n : n \in Versions <=> n \in 1 .. MaxSeq
    /\ \A n \in 0 .. MaxSeq : n # 0 => n \in Versions
    /\ Empty \in Contents /\ None \notin Contents
    /\ \A w \in Window : w # None
    /\ \A r \in Row : r # None
    /\ \A p \in Picture : p # None
BY IngestAssumption, NoneAssumption DEF Versions

\* What each local of a build is.
LEMMA JobFields ==
    ASSUME NEW j \in Job
    PROVE  /\ j.target \in 0 .. MaxSeq /\ j.base \in 0 .. MaxSeq /\ j.force \in BOOLEAN
           /\ j.todo \subseteq Files /\ j.seen \subseteq Files /\ j.gone \subseteq Files
           /\ j.file \in Files \cup {None} /\ j.content \in Contents \cup {None}
           /\ j.asked \subseteq Questions /\ j.got \in Disks
BY DEF Job, Disks

LEMMA IdleIsTyped ==
    /\ Idle \in Job /\ Idle.gone = {} /\ Idle.todo = {} /\ Idle.seen = {} /\ Idle.got \in Disks
    /\ \A f \in Files : Idle.got[f] = None
<1>1. [f \in Files |-> None] \in Disks
  BY DEF Disks
<1>2. 0 \in 0 .. MaxSeq
  BY Bounds
<1> QED
  BY <1>1, <1>2 DEF Idle, Job, Disks

\* A file is done with.
LEMMA NextFileFields ==
    ASSUME job \in Job, NEW f \in Files, NEW content \in Contents \cup {None}
    PROVE  /\ NextFile(f, content) \in Job
           /\ NextFile(f, content).target = job.target /\ NextFile(f, content).base = job.base
           /\ NextFile(f, content).force = job.force /\ NextFile(f, content).asked = job.asked
           /\ NextFile(f, content).gone = job.gone
           /\ NextFile(f, content).todo = job.todo \ {f}
           /\ NextFile(f, content).seen = job.seen \cup {f}
           /\ NextFile(f, content).got \in Disks
           /\ NextFile(f, content).got[f] = content
           /\ \A g \in Files \ {f} : NextFile(f, content).got[g] = job.got[g]
<1>1. [job.got EXCEPT ![f] = content] \in Disks
  BY DEF Job, Disks
<1>2. NextFile(f, content) = [job EXCEPT !.todo = @ \ {f}, !.seen = @ \cup {f}, !.file = None,
                                         !.content = None, !.got = [job.got EXCEPT ![f] = content]]
  BY DEF NextFile, Job
<1>3. job.todo \ {f} \in SUBSET Files /\ job.seen \cup {f} \in SUBSET Files
  BY DEF Job
<1> QED
  BY <1>1, <1>2, <1>3 DEF Job, Disks

\* The chunk of the file at hand.
LEMMA NewChunkIsTyped ==
    ASSUME TypeInv, pc \in Writing \ {"delete"}
    PROVE  /\ NewChunk \in Chunk /\ NewChunk.seq = job.target
           /\ NewChunk.file = job.file /\ NewChunk.content = job.got[job.file]
BY DEF TypeInv, Placed, NewChunk, Chunk, Writing

LEMMA TypeInvInit == Init => TypeInv
<1> SUFFICES ASSUME Init PROVE TypeInv
  OBVIOUS
<1>1. SourceTyped
  BY DEF Init, SourceTyped, Disks
<1>2. KbTyped
  BY Bounds DEF Init, KbTyped
<1>3. DataTyped
  <2>1. Absent \in Absent .. MaxSeq
    BY Bounds DEF Absent
  <2> QED
    BY <2>1 DEF Init, DataTyped, Vectors, Indexes, Manifests, Faqs
<1>4. RestTyped
  BY IdleIsTyped DEF Init, RestTyped, Places, Pictures
<1>5. Placed
  BY IdleIsTyped DEF Init, Placed, Writing
<1> QED
  BY <1>1, <1>2, <1>3, <1>4, <1>5, TypeOKInParts DEF TypeInv

\* The locals change, and nothing of the types but them.
LEMMA TypeInvMoves ==
    ASSUME TypeInv, UNCHANGED <<source, kb, data>>, job' \in Job, pc' \in Places,
           orderly' \in BOOLEAN, built' \in Pictures, Placed'
    PROVE  TypeInv'
BY TypeOKInParts DEF TypeInv, source, kb, data, SourceTyped, KbTyped, DataTyped, RestTyped

\* The build is over, one way or the other.
LEMMA IdlePlaced == ASSUME pc' = "idle", job' = Idle PROVE Placed'
BY IdleIsTyped DEF Placed, Writing

LEMMA TypeInvStep == TypeInv /\ [Next]_vars => TypeInv'
<1> SUFFICES ASSUME TypeInv, [Next]_vars PROVE TypeInv'
  OBVIOUS
<1>1. /\ SourceTyped /\ KbTyped /\ DataTyped /\ RestTyped /\ Placed
      /\ job \in Job /\ disk \in Disks
  BY TypeOKInParts DEF TypeInv, RestTyped, SourceTyped
<1> USE DEF source, kb, data
<1>2. CASE (\E f \in Files : Edit(f)) \/ EditFaq
  <2>1. SourceTyped'
    <3>1. CASE EditFaq
      BY <1>1, <3>1 DEF EditFaq, SourceTyped
    <3>2. ASSUME NEW f \in Files, Edit(f) PROVE SourceTyped'
      BY <1>1, <3>2 DEF Edit, SourceTyped, Disks
    <3> QED
      BY <1>2, <3>1, <3>2
  <2>2. UNCHANGED <<kb, data, pc, job, built>> /\ orderly' \in BOOLEAN
    BY <1>1, <1>2 DEF Edit, EditFaq, RestTyped
  <2>3. KbTyped' /\ DataTyped' /\ RestTyped' /\ Placed'
    BY <1>1, <2>2 DEF KbTyped, DataTyped, RestTyped, Placed
  <2> QED
    BY <2>1, <2>3, TypeOKInParts DEF TypeInv
<1>3. ASSUME NEW v \in Versions, Rollback(v) PROVE TypeInv'
  <2>1. KbTyped'
    BY <1>1, <1>3, Bounds DEF Rollback, KbTyped
  <2>2. SourceTyped' /\ DataTyped' /\ RestTyped' /\ Placed'
    BY <1>1, <1>3 DEF Rollback, SourceTyped, DataTyped, RestTyped, Placed
  <2> QED
    BY <2>1, <2>2, TypeOKInParts DEF TypeInv
<1>4. ASSUME NEW mode \in Modes, Begin(mode) PROVE TypeInv'
  <2> DEFINE t == TargetOf(mode)
             b == BaseOf(mode)
             j == [Idle EXCEPT !.target = t, !.base = b, !.force = (mode = "full"), !.asked = csv]
  <2>1. t \in Versions /\ b \in 0 .. MaxSeq
    BY <1>1, <1>4, Bounds DEF Begin, MayBegin, BaseOf, KbTyped
  <2>2. pc' = "faqDelete" /\ created' = t /\ job' = j /\ built' = [built EXCEPT ![t] = None]
        /\ UNCHANGED <<source, active, released, data>> /\ orderly' \in BOOLEAN
    BY <1>1, <1>4 DEF Begin, RestTyped, InLine
  <2> HIDE DEF t, b
  <2>3. j \in Job /\ j.target = t /\ j.gone = {}
    <3>1. t \in 0 .. MaxSeq /\ csv \in SUBSET Questions /\ (mode = "full") \in BOOLEAN
      BY <1>1, <2>1, Bounds DEF SourceTyped
    <3> QED
      BY <2>1, <3>1, IdleIsTyped DEF Job
  <2>4. SourceTyped' /\ KbTyped' /\ DataTyped'
    BY <1>1, <2>1, <2>2, Bounds DEF SourceTyped, KbTyped, DataTyped
  <2>5. RestTyped'
    BY <1>1, <2>1, <2>2, <2>3 DEF RestTyped, Places, Pictures
  <2>6. Placed'
    BY <2>1, <2>2, <2>3 DEF Placed, Writing
  <2> QED
    BY <2>4, <2>5, <2>6, TypeOKInParts DEF TypeInv
<1>5. CASE FaqDelete \/ FaqAdd
  <2>1. faq' \in Faqs
    BY <1>1, <1>5, JobFields DEF FaqDelete, FaqAdd, DataTyped, Faqs
  <2>2. SourceTyped' /\ KbTyped' /\ DataTyped' /\ RestTyped' /\ Placed'
    BY <1>1, <1>5, <2>1 DEF FaqDelete, FaqAdd, SourceTyped, KbTyped, DataTyped, RestTyped, Placed,
         Places, Writing
  <2> QED
    BY <2>2, TypeOKInParts DEF TypeInv
<1>6. CASE ListFiles
  <2>1. /\ job' \in Job /\ job'.target = job.target /\ job'.gone = job.gone /\ job'.base = job.base
    BY <1>1, <1>6 DEF ListFiles, Job
  <2>2. Placed'
    BY <1>1, <1>6, <2>1 DEF ListFiles, Placed, Writing
  <2> QED
    BY <1>1, <1>6, <2>1, <2>2, TypeInvMoves DEF ListFiles, RestTyped, Places
<1>7. ASSUME NEW f \in Files, SkipFile(f) PROVE TypeInv'
  <2>1. disk[f] \in Contents \cup {None}
    BY <1>1 DEF Disks
  <2>2. Placed'
    BY <1>1, <1>7, <2>1, NextFileFields DEF SkipFile, Placed, Writing
  <2> QED
    BY <1>1, <1>7, <2>1, <2>2, NextFileFields, TypeInvMoves DEF SkipFile, RestTyped, Places
<1>8. ASSUME NEW f \in Files, ReferenceFile(f) PROVE TypeInv'
  <2>1. disk[f] \in Contents \cup {None}
    BY <1>1 DEF Disks
  <2>2. BaseRow(f) # None /\ BaseRow(f) = manifest[job.base][f] /\ job.base # 0
    BY <1>8 DEF ReferenceFile, Matches, BaseRow
  <2>3. BaseRow(f) \in Row
    BY <1>1, <2>2, Bounds, JobFields DEF DataTyped, Manifests
  <2>4. manifest' \in Manifests
    BY <1>1, <1>8, <2>3 DEF ReferenceFile, DataTyped, Manifests
  <2>5. SourceTyped' /\ KbTyped' /\ DataTyped'
    BY <1>1, <1>8, <2>4 DEF ReferenceFile, SourceTyped, KbTyped, DataTyped
  <2>6. RestTyped' /\ Placed'
    BY <1>1, <1>8, <2>1, NextFileFields DEF ReferenceFile, RestTyped, Placed, Places, Writing
  <2> QED
    BY <2>5, <2>6, TypeOKInParts DEF TypeInv
<1>9. ASSUME NEW f \in Files, ChangeFile(f) PROVE TypeInv'
  <2>1. disk[f] \in Contents
    BY <1>1, <1>9 DEF ChangeFile, Disks
  <2>2. /\ job' \in Job /\ job'.target = job.target /\ job'.base = job.base /\ job'.gone = job.gone
        /\ job'.file = f /\ job'.content = disk[f] /\ pc' \in {"expire", "delete"}
    BY <1>1, <1>9, <2>1 DEF ChangeFile, Job
  <2>3. pc' = "expire" => job.base \in Versions
    BY <1>1, <1>9, Bounds, JobFields DEF ChangeFile, BaseRow
  <2>4. Placed'
    BY <1>1, <1>9, <2>1, <2>2, <2>3 DEF ChangeFile, Placed, Writing
  <2> QED
    BY <1>1, <1>9, <2>2, <2>4, TypeInvMoves DEF ChangeFile, RestTyped, Places
<1>10. ASSUME NEW f \in Files, ExpireMissing(f) PROVE TypeInv'
  <2>1. /\ job' \in Job /\ job'.target = job.target /\ job'.base = job.base /\ job'.gone = job.gone
        /\ job'.file = f /\ job'.todo = job.todo /\ job'.content = job.content
    BY <1>1, <1>10 DEF ExpireMissing, Job
  <2>2. f \in job.gone /\ job.base \in Versions /\ job.todo = {}
    BY <1>1, <1>10 DEF ExpireMissing, Placed
  <2>3. Placed'
    BY <1>1, <1>10, <2>1, <2>2 DEF ExpireMissing, Placed, Writing
  <2> QED
    BY <1>1, <1>10, <2>1, <2>3, TypeInvMoves DEF ExpireMissing, RestTyped, Places
<1>11. CASE FileVanished \/ GateFails \/ Crash
  <2>1. pc' = "idle" /\ job' = Idle /\ UNCHANGED <<source, kb, data, built, orderly>>
    BY <1>11 DEF FileVanished, GateFails, Crash
  <2> QED
    BY <1>1, <2>1, IdleIsTyped, IdlePlaced, TypeInvMoves DEF RestTyped, Places
<1>12. CASE ExpireVectors
  <2>1. vectors' \in Vectors
    <3>1. job.target \in Absent .. MaxSeq
      BY <1>1, Bounds, JobFields DEF Absent
    <3>2. \A c \in Chunk : (IF c \in Expiring THEN job.target ELSE vectors[c]) \in Absent .. MaxSeq
      BY <1>1, <3>1 DEF DataTyped, Vectors
    <3> QED
      BY <1>12, <3>2 DEF ExpireVectors, Vectors
  <2>2. SourceTyped' /\ KbTyped' /\ DataTyped' /\ RestTyped' /\ Placed'
    BY <1>1, <1>12, <2>1 DEF ExpireVectors, SourceTyped, KbTyped, DataTyped, RestTyped, Placed,
         Places, Writing
  <2> QED
    BY <2>2, TypeOKInParts DEF TypeInv
<1>13. CASE ExpireIndex
  <2>1. index' \in Indexes
    <3>1. [from |-> job.base, to |-> job.target] \in Window
      BY <1>1, <1>13, JobFields DEF ExpireIndex, Placed, Window
    <3>2. \A c \in Chunk : (IF c \in Expiring THEN [from |-> job.base, to |-> job.target]
                                              ELSE index[c]) \in Window \cup {None}
      BY <1>1, <3>1 DEF DataTyped, Indexes
    <3> QED
      BY <1>13, <3>2 DEF ExpireIndex, Indexes
  <2>2. /\ job' \in Job /\ job'.target = job.target /\ job'.base = job.base /\ job'.todo = job.todo
        /\ job'.gone \subseteq job.gone
        /\ job.todo # {} => job' = job
    <3>1. job.gone \ {job.file} \in SUBSET Files
      BY <1>1, JobFields
    <3>2. CASE job.todo = {}
      BY <1>1, <1>13, <3>1, <3>2 DEF ExpireIndex, Job
    <3>3. CASE job.todo # {}
      BY <1>1, <1>13, <3>3 DEF ExpireIndex
    <3> QED
      BY <3>2, <3>3
  <2>3. pc' = IF job.todo = {} THEN "missing" ELSE "delete"
    BY <1>13 DEF ExpireIndex
  <2>4. Placed'
    BY <1>1, <1>13, <2>2, <2>3 DEF ExpireIndex, Placed, Writing
  <2>5. SourceTyped' /\ KbTyped' /\ DataTyped'
    BY <1>1, <1>13, <2>1 DEF ExpireIndex, SourceTyped, KbTyped, DataTyped
  <2>6. RestTyped'
    BY <1>1, <1>13, <2>2, <2>3 DEF ExpireIndex, RestTyped, Places
  <2> QED
    BY <2>4, <2>5, <2>6, TypeOKInParts DEF TypeInv
<1>14. CASE DeleteOld
  <2>1. vectors' \in Vectors
    <3>1. Absent \in Absent .. MaxSeq
      BY Bounds DEF Absent
    <3>2. \A c \in Chunk : (IF /\ Existing(job.file) # None
                               /\ c \in Existing(job.file).chunks
                               /\ c.seq = job.target
                            THEN Absent ELSE vectors[c]) \in Absent .. MaxSeq
      BY <1>1, <3>1 DEF DataTyped, Vectors
    <3> QED
      BY <1>14, <3>2 DEF DeleteOld, Vectors
  <2>2. job.file \in Files /\ disk[job.file] \in Contents
    BY <1>1, <1>14 DEF DeleteOld, Placed, Writing, Disks
  <2>3. SourceTyped' /\ KbTyped' /\ DataTyped'
    BY <1>1, <1>14, <2>1 DEF DeleteOld, SourceTyped, KbTyped, DataTyped
  <2>4. CASE disk[job.file] = Empty
    <3>1. pc' = "walk" /\ job' = NextFile(job.file, Empty)
      BY <1>14, <2>4 DEF DeleteOld
    <3>2. RestTyped' /\ Placed'
      BY <1>1, <1>14, <2>2, <3>1, Bounds, NextFileFields DEF DeleteOld, RestTyped, Placed,
           Places, Writing
    <3> QED
      BY <2>3, <3>2, TypeOKInParts DEF TypeInv
  <2>5. CASE disk[job.file] # Empty
    <3>1. pc' = "add" /\ job' = [job EXCEPT !.got[job.file] = disk[job.file]]
      BY <1>14, <2>5 DEF DeleteOld
    <3>2. /\ job' \in Job /\ job'.got[job.file] = disk[job.file] /\ job'.file = job.file
          /\ job'.content = job.content /\ job'.target = job.target /\ job'.gone = job.gone
          /\ job'.base = job.base
      BY <1>1, <2>2, <3>1 DEF Job
    <3>3. RestTyped' /\ Placed'
      BY <1>1, <1>14, <2>2, <2>5, <3>1, <3>2 DEF DeleteOld, RestTyped, Placed, Places, Writing
    <3> QED
      BY <2>3, <3>3, TypeOKInParts DEF TypeInv
  <2> QED
    BY <2>4, <2>5
<1>15. CASE AddVectors
  <2>1. vectors' \in Vectors
    <3>1. Open \in Absent .. MaxSeq
      BY Bounds DEF Absent, Open
    <3> QED
      BY <1>1, <1>15, <3>1 DEF AddVectors, DataTyped, Vectors
  <2>2. SourceTyped' /\ KbTyped' /\ DataTyped' /\ RestTyped' /\ Placed'
    BY <1>1, <1>15, <2>1 DEF AddVectors, SourceTyped, KbTyped, DataTyped, RestTyped, Placed,
         Places, Writing
  <2> QED
    BY <2>2, TypeOKInParts DEF TypeInv
<1>16. CASE UpsertChunks
  <2>1. index' \in Indexes
    <3>1. [from |-> job.target, to |-> Open] \in Window
      BY <1>1, <1>16, Bounds DEF UpsertChunks, Placed, Window, Open
    <3> QED
      BY <1>1, <1>16, <3>1 DEF UpsertChunks, DataTyped, Indexes
  <2>2. SourceTyped' /\ KbTyped' /\ DataTyped' /\ RestTyped' /\ Placed'
    BY <1>1, <1>16, <2>1 DEF UpsertChunks, SourceTyped, KbTyped, DataTyped, RestTyped, Placed,
         Places, Writing
  <2> QED
    BY <2>2, TypeOKInParts DEF TypeInv
<1>17. CASE RecordManifest
  <2>1. NewChunk \in Chunk /\ job.content \in Contents /\ job.file \in Files
        /\ job.got[job.file] \in Contents \cup {None}
    BY <1>1, <1>17, NewChunkIsTyped DEF RecordManifest, Placed, Writing
  <2>2. [fp |-> job.content, chunks |-> {NewChunk}] \in Row
    BY <2>1 DEF Row
  <2>3. manifest' \in Manifests
    BY <1>1, <1>17, <2>2 DEF RecordManifest, DataTyped, Manifests
  <2>4. SourceTyped' /\ KbTyped' /\ DataTyped'
    BY <1>1, <1>17, <2>3 DEF RecordManifest, SourceTyped, KbTyped, DataTyped
  <2>5. RestTyped' /\ Placed'
    BY <1>1, <1>17, <2>1, NextFileFields DEF RecordManifest, RestTyped, Placed, Places, Writing
  <2> QED
    BY <2>4, <2>5, TypeOKInParts DEF TypeInv
<1>18. CASE FindMissing
  <2>1. /\ job' \in Job /\ job'.target = job.target /\ job'.base = job.base
        /\ job'.todo = job.todo /\ job'.gone # {} => job.base # 0
    BY <1>1, <1>18 DEF FindMissing, Job
  <2>2. Placed'
    BY <1>1, <1>18, <2>1, Bounds, JobFields DEF FindMissing, Placed, Writing
  <2> QED
    BY <1>1, <1>18, <2>1, <2>2, TypeInvMoves DEF FindMissing, RestTyped, Places
<1>19. CASE FinishIngest
  <2>1. [files |-> job.got, faq |-> job.asked] \in Picture
    BY <1>1, JobFields DEF Picture, Disks
  <2>2. built' \in Pictures
    BY <1>1, <1>19, <2>1 DEF FinishIngest, RestTyped, Pictures
  <2>3. Placed'
    BY <1>1, <1>19 DEF FinishIngest, Placed, Writing
  <2> QED
    BY <1>1, <1>19, <2>2, <2>3, TypeInvMoves DEF FinishIngest, RestTyped, Places
<1>20. CASE Release
  <2>1. KbTyped'
    BY <1>1, <1>20, Bounds DEF Release, KbTyped, Placed
  <2>2. SourceTyped' /\ DataTyped' /\ RestTyped' /\ Placed'
    BY <1>1, <1>20, IdleIsTyped, IdlePlaced DEF Release, SourceTyped, DataTyped, RestTyped, Places
  <2> QED
    BY <2>1, <2>2, TypeOKInParts DEF TypeInv
<1>21. ASSUME NEW f \in Files, Cleanup(f) PROVE TypeInv'
  <2>1. vectors' \in Vectors
    <3>1. Absent \in Absent .. MaxSeq
      BY Bounds DEF Absent
    <3>2. \A c \in Chunk : (IF c \in Forgotten(f) THEN Absent ELSE vectors[c]) \in Absent .. MaxSeq
      BY <1>1, <3>1 DEF DataTyped, Vectors
    <3> QED
      BY <1>21, <3>2 DEF Cleanup, Vectors
  <2>2. manifest' \in Manifests
    BY <1>1, <1>21 DEF Cleanup, DataTyped, Manifests
  <2>3. built' \in Pictures
    <3>1. \A v \in Versions : Finished(v) => [built[v] EXCEPT !.files[f] = None] \in Picture
      BY <1>1 DEF Finished, RestTyped, Pictures, Picture
    <3>2. \A v \in Versions : (IF Finished(v) /\ Forgotten(f) \cap View(v) # {}
                               THEN [built[v] EXCEPT !.files[f] = None] ELSE built[v])
                              \in Picture \cup {None}
      BY <1>1, <3>1 DEF RestTyped, Pictures
    <3> QED
      BY <1>21, <3>2 DEF Cleanup, Pictures
  <2>4. SourceTyped' /\ KbTyped' /\ DataTyped' /\ Placed'
    BY <1>1, <1>21, <2>1, <2>2 DEF Cleanup, SourceTyped, KbTyped, DataTyped, Placed
  <2>5. RestTyped'
    BY <1>1, <1>21, <2>3 DEF Cleanup, RestTyped
  <2> QED
    BY <2>4, <2>5, TypeOKInParts DEF TypeInv
<1>22. CASE UNCHANGED vars
  <2>1. Placed'
    BY <1>1, <1>22 DEF vars, Placed
  <2> QED
    BY <1>1, <1>22, <2>1, TypeInvMoves DEF vars, RestTyped
<1> QED
  BY <1>2, <1>3, <1>4, <1>5, <1>6, <1>7, <1>8, <1>9, <1>10, <1>11, <1>12, <1>13, <1>14, <1>15,
     <1>16, <1>17, <1>18, <1>19, <1>20, <1>21, <1>22 DEF Next, Build

LEMMA TypeInvAlways == Spec => []TypeInv
BY TypeInvInit, TypeInvStep, PTL DEF Spec

-----------------------------------------------------------------------------
(* The invariant.                                                          *)

\* The newest version has not been released.
Pending == created # 0 /\ created \notin released

Shows(v, c) == vectors[c] # Absent /\ InWindow(c.seq, vectors[c], v)

\* The chunk is named in the manifest of the newest version, or of the one before.
OfTarget(c) == manifest[created][c.file] # None /\ c \in manifest[created][c.file].chunks
HasBase(f)  == created # 1 /\ manifest[created - 1][f] # None
OfBase(c)   == HasBase(c.file) /\ c \in manifest[created - 1][c.file].chunks

\* The chunks the base has of file f have expired.
Out(f) == \A c \in Chunk : c.file = f /\ OfBase(c) => vectors[c] = created

\* The line: the newest version follows the released ones, and none is ahead.
LineInv ==
    /\ 1 .. created - 1 \subseteq released /\ released \subseteq 1 .. created
    /\ active \in released \cup {0}
    /\ \A v \in released : Finished(v)
    /\ \A v \in Versions : Finished(v) => v <= created
    /\ \A v \in Versions : v > created => faq[v] = {} /\ \A f \in Files : manifest[v][f] = None

\* A build works on the newest version, and on the one before as its base.
BuildInv ==
    pc # "idle" =>
        /\ Pending /\ job.target = created /\ job.base = created - 1
        /\ job.force => created = 1
        /\ job.asked = csv
        /\ pc = "gate" <=> Finished(created)

\* Windows lie between the version that wrote a chunk and the newest.
WindowInv ==
    \A c \in Chunk : vectors[c] # Absent =>
        /\ c.seq <= created
        /\ vectors[c] = Open \/ (c.seq < vectors[c] /\ vectors[c] <= created)

\* A record names one chunk of its file, made from the text it was taken of.
RowInv ==
    \A v \in Versions, f \in Files : manifest[v][f] # None =>
        \E c \in Chunk : /\ manifest[v][f].chunks = {c} /\ c.file = f
                         /\ c.content = manifest[v][f].fp

\* A released newest version shows what its manifest names.
SettledInv ==
    created # 0 /\ ~Pending =>
        /\ \A c \in Chunk : Shows(created, c) <=> OfTarget(c)
        /\ \A c \in Chunk : OfTarget(c) =>
             index[c] # None /\ index[c].from <= created /\ index[c].to = Open

\* One that is not: what the base shows, what may have happened to its chunks,
\* what the manifest names so far, and what has been written so far.
PendingInv ==
    Pending =>
        /\ \A c \in Chunk : Shows(created - 1, c) <=> OfBase(c)
        /\ \A c \in Chunk : OfBase(c) =>
             /\ index[c] # None /\ index[c].from < created
             /\ index[c].to = Open \/ (index[c].to = created /\ vectors[c] = created)
             /\ vectors[c] = created => c.content # disk[c.file]
        /\ \A c \in Chunk : OfTarget(c) =>
             /\ c.content = disk[c.file] /\ vectors[c] = Open
             /\ OfBase(c) \/ (c.seq = created /\ index[c] = [from |-> created, to |-> Open])
        /\ \A c \in Chunk : c.seq = created /\ vectors[c] # Absent =>
             c.content = disk[c.file] /\ vectors[c] = Open /\ Out(c.file)
        /\ faq[created] \subseteq csv

Walked == {"walk", "expire", "expireIndex", "missing", "gate"} \cup Writing

\* The walk: what has been seen is in the target, or is empty and out of it.
WalkInv ==
    /\ pc \in Walked \cup {"list"} => faq[created] = csv
    /\ pc \notin Walked => job.seen = {} /\ \A f \in Files : job.got[f] = None
    /\ pc # "idle" /\ job.force => \A f \in Files \ job.seen : manifest[created][f] = None
    /\ pc \in Walked =>
         /\ job.todo \cap job.seen = {}
         /\ \A f \in Files : disk[f] # None <=> f \in job.todo \cup job.seen
         /\ \A f \in Files : disk[f] = None => job.got[f] = None
         /\ \A f \in job.seen : /\ job.got[f] = disk[f]
                                /\ IF disk[f] = Empty THEN Out(f) ELSE manifest[created][f] # None
    /\ pc \in Writing => job.todo # {}
    /\ pc \in {"missing", "gate"} => job.todo = {}

\* One file: it differs from the base, whose chunks go before its own come.
FileInv ==
    /\ pc \in {"expire", "expireIndex"} => HasBase(job.file)
    /\ pc \in {"expire", "expireIndex"} \cup Writing /\ job.todo # {} =>
         /\ job.file \in job.todo /\ job.content = disk[job.file]
         /\ manifest[created][job.file] = None
         /\ HasBase(job.file) => manifest[created - 1][job.file].fp # disk[job.file]
    /\ pc \in {"expireIndex"} \cup Writing => Out(job.file)
    /\ pc \in Writing \ {"delete"} => job.got[job.file] = disk[job.file]
    /\ pc \in {"register", "record"} => vectors[NewChunk] = Open
    /\ pc = "record" => index[NewChunk] = [from |-> created, to |-> Open]

\* The files that have gone.
GoneInv ==
    /\ pc \in {"expire", "expireIndex", "missing", "gate"} /\ job.todo = {} =>
         /\ \A f \in job.gone : disk[f] = None /\ HasBase(f)
         /\ \A f \in Files : disk[f] = None => f \in job.gone \/ Out(f)
         /\ pc \in {"expire", "expireIndex"} => job.file \in job.gone
    /\ pc = "gate" => job.gone = {}

\* Version v shows what its build saw.
Exact(v) ==
    /\ \A c \in Chunk : Shows(v, c) => built[v].files[c.file] = c.content
    /\ \A f \in Files : built[v].files[f] \in Contents \ {Empty} =>
         \E c \in Chunk : c.file = f /\ Shows(v, c)
    /\ \A c, d \in Chunk : Shows(v, c) /\ Shows(v, d) /\ c.file = d.file => c = d
    /\ faq[v] = built[v].faq

ExactInv == \A v \in Versions : Finished(v) => Exact(v)

\* All of this, as long as the operators are orderly.
OrderlyInv ==
    /\ LineInv /\ BuildInv /\ WindowInv /\ RowInv /\ SettledInv /\ PendingInv
    /\ WalkInv /\ FileInv /\ GoneInv /\ ExactInv

-----------------------------------------------------------------------------
(* Facts about the state of an orderly build.                              *)

LEMMA InBuild ==
    ASSUME TypeInv, BuildInv, pc # "idle"
    PROVE  /\ Pending /\ created \in Versions /\ created \in Nat /\ created >= 1
           /\ job.target = created /\ job.base = created - 1
           /\ created # 1 => created - 1 \in Versions
           /\ \A f \in Files : /\ Existing(f) = manifest[created][f]
                               /\ BaseRow(f) # None <=> HasBase(f)
                               /\ HasBase(f) => BaseRow(f) = manifest[created - 1][f]
<1>1. created \in 0 .. MaxSeq /\ created # 0 /\ Pending
  BY TypeOKInParts DEF TypeInv, KbTyped, BuildInv, Pending
<1>2. created \in Versions /\ created \in Nat /\ created >= 1
  BY <1>1, Bounds
<1>3. created # 1 => created - 1 \in Versions
  BY <1>1, <1>2, Bounds
<1>4. job.target = created /\ job.base = created - 1 /\ (job.force => created = 1)
  BY DEF BuildInv
<1>5. created = 1 <=> job.base = 0
  BY <1>2, <1>4
<1> QED
  BY <1>1, <1>2, <1>3, <1>4, <1>5 DEF Existing, BaseRow, HasBase

\* The chunk a record of the target or of the base names.
LEMMA TheChunk ==
    ASSUME TypeInv, RowInv, created \in Versions, NEW f \in Files
    PROVE  /\ manifest[created][f] # None =>
                \E c \in Chunk : /\ c.file = f /\ c.content = manifest[created][f].fp
                                 /\ \A d : d \in manifest[created][f].chunks <=> d = c
                                 /\ OfTarget(c)
           /\ HasBase(f) =>
                \E c \in Chunk : /\ c.file = f /\ c.content = manifest[created - 1][f].fp
                                 /\ \A d : d \in manifest[created - 1][f].chunks <=> d = c
                                 /\ OfBase(c)
<1>1. created # 1 => created - 1 \in Versions
  BY Bounds
<1>2. ASSUME manifest[created][f] # None
      PROVE  \E c \in Chunk : /\ c.file = f /\ c.content = manifest[created][f].fp
                              /\ \A d : d \in manifest[created][f].chunks <=> d = c
                              /\ OfTarget(c)
  BY <1>2 DEF RowInv, OfTarget
<1>3. ASSUME HasBase(f)
      PROVE  \E c \in Chunk : /\ c.file = f /\ c.content = manifest[created - 1][f].fp
                              /\ \A d : d \in manifest[created - 1][f].chunks <=> d = c
                              /\ OfBase(c)
  <2>1. created - 1 \in Versions /\ manifest[created - 1][f] # None
    BY <1>1, <1>3 DEF HasBase
  <2>2. PICK c \in Chunk : /\ manifest[created - 1][f].chunks = {c} /\ c.file = f
                           /\ c.content = manifest[created - 1][f].fp
    BY <2>1 DEF RowInv
  <2> QED
    BY <1>3, <2>1, <2>2 DEF OfBase
<1> QED
  BY <1>2, <1>3

\* Two chunks one record names are the same.
LEMMA OneOfBase ==
    ASSUME TypeInv, RowInv, created \in Versions,
           NEW c \in Chunk, NEW d \in Chunk, c.file = d.file
    PROVE  /\ OfBase(c) /\ OfBase(d) => c = d
           /\ OfTarget(c) /\ OfTarget(d) => c = d
<1>1. c.file \in Files
  BY DEF Chunk
<1> QED
  BY <1>1, TheChunk DEF OfBase, OfTarget

\* A chunk, whose fields are all there is to it.
LEMMA ChunkFields ==
    /\ \A c \in Chunk : /\ c.seq \in Versions /\ c.file \in Files
                        /\ c.content \in Contents /\ c.content # Empty /\ c.content # None
    /\ \A c, d \in Chunk : c.seq = d.seq /\ c.file = d.file /\ c.content = d.content => c = d
BY Bounds DEF Chunk

\* What a search finds, chunk by chunk.
LEMMA InView ==
    ASSUME NEW v
    PROVE  \A c : c \in View(v) <=> c \in Chunk /\ Shows(v, c)
BY DEF View, Shows

\* When nothing is left to do, the target shows what its manifest names.
LEMMA Complete ==
    ASSUME TypeInv, OrderlyInv, pc \in {"missing", "gate"}, job.gone = {}
    PROVE  /\ \A c \in Chunk : Shows(created, c) <=> OfTarget(c)
           /\ \A c \in Chunk : OfTarget(c) =>
                index[c] # None /\ index[c].from <= created /\ index[c].to = Open
<1>1. /\ Pending /\ created \in Versions /\ created \in Nat /\ created >= 1
      /\ job.target = created /\ job.base = created - 1
  BY InBuild DEF OrderlyInv
<1>2. /\ job.todo = {}
      /\ \A f \in Files : disk[f] # None <=> f \in job.seen
      /\ \A f \in job.seen : IF disk[f] = Empty THEN Out(f) ELSE manifest[created][f] # None
      /\ \A f \in Files : disk[f] = None => Out(f)
  BY DEF OrderlyInv, WalkInv, GoneInv, Walked
<1>3. /\ \A c \in Chunk : Shows(created - 1, c) <=> OfBase(c)
      /\ \A c \in Chunk : OfBase(c) =>
           /\ index[c] # None /\ index[c].from < created
           /\ index[c].to = Open \/ (index[c].to = created /\ vectors[c] = created)
      /\ \A c \in Chunk : OfTarget(c) =>
           /\ c.content = disk[c.file] /\ vectors[c] = Open
           /\ OfBase(c) \/ (c.seq = created /\ index[c] = [from |-> created, to |-> Open])
      /\ \A c \in Chunk : c.seq = created /\ vectors[c] # Absent =>
           c.content = disk[c.file] /\ vectors[c] = Open /\ Out(c.file)
  BY <1>1 DEF OrderlyInv, PendingInv
<1>4. \A c \in Chunk : vectors[c] # Absent =>
        /\ c.seq <= created /\ c.seq \in Nat /\ vectors[c] \in Int
        /\ vectors[c] = Open \/ (c.seq < vectors[c] /\ vectors[c] <= created)
  <2>1. vectors \in Vectors
    BY TypeOKInParts DEF TypeInv, DataTyped
  <2> QED
    BY <2>1, ChunkFields, Bounds DEF OrderlyInv, WindowInv, Vectors, Absent
<1>5. RowInv
  BY DEF OrderlyInv
<1>6. ASSUME NEW c \in Chunk, OfTarget(c)
      PROVE  /\ Shows(created, c)
             /\ index[c] # None /\ index[c].from <= created /\ index[c].to = Open
  <2>1. vectors[c] = Open /\ Open # Absent /\ Open # created
    BY <1>1, <1>3, <1>6 DEF Open, Absent
  <2>2. Shows(created, c)
    BY <1>4, <2>1 DEF Shows, InWindow
  <2>3. CASE OfBase(c)
    <3>1. index[c] # None /\ index[c].from < created /\ index[c].to = Open
      BY <1>3, <2>1, <2>3
    <3>2. index[c] \in Window
      BY <3>1, TypeOKInParts DEF TypeInv, DataTyped, Indexes
    <3>3. index[c].from \in Nat
      BY <3>2, Bounds DEF Window
    <3> QED
      BY <1>1, <2>2, <3>1, <3>3
  <2>4. CASE index[c] = [from |-> created, to |-> Open]
    <3>1. [from |-> created, to |-> Open] \in Window
      BY <1>1, Bounds DEF Window, Open
    <3> QED
      BY <1>1, <2>2, <2>4, <3>1, Bounds
  <2> QED
    BY <1>3, <1>6, <2>3, <2>4
<1>7. ASSUME NEW c \in Chunk, Shows(created, c)
      PROVE  OfTarget(c)
  <2>1. vectors[c] # Absent /\ vectors[c] = Open /\ c.file \in Files
    BY <1>1, <1>4, <1>7, ChunkFields DEF Shows, InWindow
  <2>2. ASSUME Out(c.file), OfBase(c) PROVE FALSE
    BY <1>1, <2>1, <2>2 DEF Out, Open
  <2>3. ASSUME NEW d \in Chunk, d.file = c.file, OfBase(d), OfTarget(d)
        PROVE  ~Out(c.file)
    BY <1>1, <1>3, <2>3 DEF Out, Open
  <2>4. CASE c.seq = created
    <3>1. c.content = disk[c.file] /\ Out(c.file) /\ disk[c.file] # None /\ disk[c.file] # Empty
      BY <1>3, <2>1, <2>4, ChunkFields
    <3>2. manifest[created][c.file] # None
      BY <1>2, <2>1, <3>1
    <3>3. PICK d \in Chunk : d.file = c.file /\ OfTarget(d)
      BY <1>1, <1>5, <2>1, <3>2, TheChunk
    <3>4. d.content = c.content /\ d.seq = created
      BY <1>3, <2>3, <3>1, <3>3
    <3>5. d = c
      BY <2>4, <3>3, <3>4, ChunkFields
    <3> QED
      BY <3>3, <3>5
  <2>5. CASE c.seq # created
    <3>1. Shows(created - 1, c)
      BY <1>1, <1>4, <2>1, <2>5 DEF Shows, InWindow
    <3>2. OfBase(c) /\ ~Out(c.file)
      BY <1>3, <2>2, <3>1
    <3>3. manifest[created][c.file] # None
      BY <1>2, <2>1, <3>2
    <3>4. PICK d \in Chunk : d.file = c.file /\ OfTarget(d)
      BY <1>1, <1>5, <2>1, <3>3, TheChunk
    <3>5. OfBase(d)
      BY <1>3, <3>2, <3>4 DEF Open, Absent
    <3>6. d = c
      BY <1>1, <1>5, <3>2, <3>4, <3>5, OneOfBase
    <3> QED
      BY <3>4, <3>6
  <2> QED
    BY <2>4, <2>5
<1> QED
  BY <1>6, <1>7

-----------------------------------------------------------------------------
(* What a step of the build that writes nothing leaves alone.              *)

LEMMA Kept ==
    ASSUME OrderlyInv, UNCHANGED <<source, kb, data, built>>
    PROVE  LineInv' /\ WindowInv' /\ RowInv' /\ SettledInv' /\ PendingInv' /\ ExactInv'
<1> USE DEF source, kb, data
<1>1. LineInv' /\ WindowInv' /\ RowInv'
  BY DEF OrderlyInv, LineInv, WindowInv, RowInv, Finished
<1>2. SettledInv'
  BY DEF OrderlyInv, SettledInv, Pending, Shows, OfTarget
<1>3. PendingInv'
  BY DEF OrderlyInv, PendingInv, Pending, Shows, OfTarget, OfBase, HasBase, Out
<1>4. ExactInv'
  BY DEF OrderlyInv, ExactInv, Exact, Shows, Finished
<1> QED
  BY <1>1, <1>2, <1>3, <1>4

\* The build is over, one way or the other.
LEMMA EndedStep ==
    ASSUME OrderlyInv, pc' = "idle", job' = Idle, UNCHANGED <<source, kb, data, built>>
    PROVE  OrderlyInv'
<1>1. BuildInv' /\ FileInv' /\ GoneInv'
  BY DEF BuildInv, FileInv, GoneInv, Writing
<1>2. WalkInv'
  BY IdleIsTyped DEF WalkInv, Walked, Writing
<1> QED
  BY <1>1, <1>2, Kept DEF OrderlyInv

\* A step within the build.
LEMMA StillBuilding ==
    ASSUME OrderlyInv, pc # "idle", pc # "gate", pc' # "idle", pc' # "gate",
           UNCHANGED <<source, kb, built>>, job'.target = job.target, job'.base = job.base,
           job'.force = job.force, job'.asked = job.asked
    PROVE  BuildInv' /\ Pending /\ Pending' /\ SettledInv'
BY DEF OrderlyInv, BuildInv, Pending, Finished, SettledInv, source, kb

LEMMA ListFilesStep == ASSUME TypeInv, OrderlyInv, ListFiles PROVE OrderlyInv'
<1>1. /\ pc = "list" /\ pc' = "walk" /\ UNCHANGED <<source, kb, data, built>> /\ job \in Job
      /\ job' = [job EXCEPT !.todo = {f \in Files : disk[f] # None}, !.seen = {}]
  BY TypeOKInParts DEF ListFiles, TypeInv, RestTyped
<1>2. /\ job'.target = job.target /\ job'.base = job.base /\ job'.force = job.force
      /\ job'.asked = job.asked /\ job'.todo = {f \in Files : disk[f] # None} /\ job'.seen = {}
      /\ job'.got = job.got
  BY <1>1 DEF Job
<1>3. BuildInv' /\ FileInv' /\ GoneInv'
  BY <1>1, <1>2, StillBuilding DEF FileInv, GoneInv, Writing
<1>4. WalkInv'
  BY <1>1, <1>2 DEF OrderlyInv, WalkInv, Walked, Writing, source, kb, data
<1> QED
  BY <1>1, <1>3, <1>4, Kept DEF OrderlyInv

LEMMA SkipFileStep ==
    ASSUME TypeInv, OrderlyInv, NEW f \in Files, SkipFile(f) PROVE OrderlyInv'
<1>1. /\ pc = "walk" /\ pc' = "walk" /\ UNCHANGED <<source, kb, data, built>> /\ job \in Job
      /\ f \in job.todo /\ disk[f] # None /\ ~job.force /\ Matches(Existing(f), disk[f])
      /\ disk[f] \in Contents \cup {None} /\ job' = NextFile(f, disk[f])
  BY TypeOKInParts DEF SkipFile, TypeInv, RestTyped, SourceTyped, Disks
<1>2. manifest[created][f] # None /\ manifest[created][f].fp = disk[f]
  BY <1>1, InBuild DEF OrderlyInv, Matches
<1>3. disk[f] # Empty
  BY <1>1, <1>2, InBuild, TheChunk, ChunkFields DEF OrderlyInv
<1>4. BuildInv' /\ FileInv' /\ GoneInv'
  BY <1>1, StillBuilding, NextFileFields DEF FileInv, GoneInv, Writing
<1>5. WalkInv'
  <2>1. /\ UNCHANGED <<disk, csv, created, manifest, vectors, faq>>
        /\ \A g \in Files : Out(g)' <=> Out(g)
    BY <1>1 DEF source, kb, data, Out, OfBase, HasBase
  <2>2. /\ job.todo \cap job.seen = {} /\ faq[created] = csv
        /\ \A g \in Files : disk[g] # None <=> g \in job.todo \cup job.seen
        /\ \A g \in Files : disk[g] = None => job.got[g] = None
        /\ \A g \in job.seen : /\ job.got[g] = disk[g]
                               /\ IF disk[g] = Empty THEN Out(g) ELSE manifest[created][g] # None
    BY <1>1 DEF OrderlyInv, WalkInv, Walked
  <2>3. job.seen \subseteq Files
    BY <1>1, JobFields
  <2> QED
    BY <1>1, <1>2, <1>3, <2>1, <2>2, <2>3, NextFileFields DEF WalkInv, Walked, Writing
<1> QED
  BY <1>1, <1>4, <1>5, Kept DEF OrderlyInv

LEMMA FindMissingStep == ASSUME TypeInv, OrderlyInv, FindMissing PROVE OrderlyInv'
<1>1. /\ pc = "walk" /\ pc' = "missing" /\ UNCHANGED <<source, kb, data, built>> /\ job \in Job
      /\ job.todo = {}
      /\ job' = [job EXCEPT !.gone = {f \in Files \ job.seen :
                                        job.base # 0 /\ manifest[job.base][f] # None}]
  BY TypeOKInParts DEF FindMissing, TypeInv, RestTyped
<1>2. /\ job'.target = job.target /\ job'.base = job.base /\ job'.force = job.force
      /\ job'.asked = job.asked /\ job'.todo = {} /\ job'.seen = job.seen /\ job'.got = job.got
      /\ job'.gone = {f \in Files \ job.seen : job.base # 0 /\ manifest[job.base][f] # None}
  BY <1>1 DEF Job
<1>3. BuildInv' /\ FileInv'
  BY <1>1, <1>2, StillBuilding DEF FileInv, Writing
<1>4. WalkInv'
  BY <1>1, <1>2 DEF OrderlyInv, WalkInv, Walked, Writing, source, kb, data, Out, OfBase, HasBase
<1>5. GoneInv'
  <2>1. \A f \in Files : f \in job'.gone <=> disk[f] = None /\ HasBase(f)
    BY <1>1, <1>2, InBuild DEF OrderlyInv, WalkInv, Walked, HasBase
  <2>2. \A f \in Files : ~HasBase(f) => Out(f)
    BY DEF Out, OfBase
  <2>3. \A f \in Files : /\ Out(f)' <=> Out(f)
                         /\ HasBase(f)' <=> HasBase(f)
                         /\ disk'[f] = disk[f]
    BY <1>1 DEF source, kb, data, Out, OfBase, HasBase
  <2> QED
    BY <1>1, <1>2, <2>1, <2>2, <2>3 DEF GoneInv
<1> QED
  BY <1>1, <1>3, <1>4, <1>5, Kept DEF OrderlyInv

LEMMA ExpireMissingStep ==
    ASSUME TypeInv, OrderlyInv, NEW f \in Files, ExpireMissing(f) PROVE OrderlyInv'
<1>1. /\ pc = "missing" /\ pc' = "expire" /\ UNCHANGED <<source, kb, data, built>> /\ job \in Job
      /\ f \in job.gone /\ job' = [job EXCEPT !.file = f]
  BY TypeOKInParts DEF ExpireMissing, TypeInv, RestTyped
<1>2. /\ job'.target = job.target /\ job'.base = job.base /\ job'.force = job.force
      /\ job'.asked = job.asked /\ job'.todo = job.todo /\ job'.seen = job.seen
      /\ job'.got = job.got /\ job'.gone = job.gone /\ job'.file = f
  BY <1>1 DEF Job
<1>3. job.todo = {} /\ HasBase(f)
  BY <1>1 DEF OrderlyInv, WalkInv, GoneInv
<1>4. BuildInv'
  BY <1>1, <1>2, StillBuilding
<1>5. FileInv'
  BY <1>1, <1>2, <1>3 DEF FileInv, Writing, HasBase, kb, data
<1>6. WalkInv'
  BY <1>1, <1>2 DEF OrderlyInv, WalkInv, Walked, Writing, source, kb, data, Out, OfBase, HasBase
<1>7. GoneInv'
  BY <1>1, <1>2 DEF OrderlyInv, GoneInv, source, kb, data, Out, OfBase, HasBase
<1> QED
  BY <1>1, <1>4, <1>5, <1>6, <1>7, Kept DEF OrderlyInv

LEMMA ChangeFileStep ==
    ASSUME TypeInv, OrderlyInv, NEW f \in Files, ChangeFile(f) PROVE OrderlyInv'
<1>1. /\ pc = "walk" /\ UNCHANGED <<source, kb, data, built>> /\ job \in Job
      /\ f \in job.todo /\ disk[f] # None
      /\ job.force \/ ~Matches(Existing(f), disk[f])
      /\ ~(Existing(f) = None /\ Matches(BaseRow(f), disk[f]))
      /\ job' = [job EXCEPT !.file = f, !.content = disk[f]]
      /\ pc' = IF BaseRow(f) # None THEN "expire" ELSE "delete"
  BY TypeOKInParts DEF ChangeFile, TypeInv, RestTyped
<1>2. /\ job'.target = job.target /\ job'.base = job.base /\ job'.force = job.force
      /\ job'.asked = job.asked /\ job'.todo = job.todo /\ job'.seen = job.seen
      /\ job'.got = job.got /\ job'.gone = job.gone /\ job'.file = f /\ job'.content = disk[f]
  BY <1>1 DEF Job
<1>3. /\ Pending /\ created \in Versions /\ Existing(f) = manifest[created][f]
      /\ BaseRow(f) # None <=> HasBase(f)
      /\ HasBase(f) => BaseRow(f) = manifest[created - 1][f]
  BY <1>1, InBuild DEF OrderlyInv
<1>4. manifest[created][f] = None
  <2>1. CASE job.force
    BY <1>1, <2>1 DEF OrderlyInv, WalkInv, Walked
  <2>2. CASE ~Matches(Existing(f), disk[f])
    <3>1. manifest[created][f] # None => manifest[created][f].fp = disk[f]
      BY <1>3, TheChunk DEF OrderlyInv, PendingInv
    <3> QED
      BY <1>3, <2>2, <3>1 DEF Matches
  <2> QED
    BY <1>1, <2>1, <2>2
<1>5. HasBase(f) => manifest[created - 1][f].fp # disk[f]
  BY <1>1, <1>3, <1>4 DEF Matches
<1>6. BuildInv'
  BY <1>1, <1>2, StillBuilding
<1>7. FileInv'
  <2>1. pc' = IF HasBase(f) THEN "expire" ELSE "delete"
    BY <1>1, <1>3
  <2>2. ~HasBase(f) => Out(f)
    BY DEF Out, OfBase
  <2>3. /\ Out(f)' <=> Out(f)
        /\ HasBase(f)' <=> HasBase(f)
        /\ UNCHANGED <<disk, manifest, created>>
    BY <1>1 DEF source, kb, data, Out, OfBase, HasBase
  <2> QED
    BY <1>1, <1>2, <1>4, <1>5, <2>1, <2>2, <2>3 DEF FileInv, Writing
<1>8. WalkInv'
  BY <1>1, <1>2 DEF OrderlyInv, WalkInv, Walked, Writing, source, kb, data, Out, OfBase, HasBase
<1>9. GoneInv'
  BY <1>1, <1>2 DEF GoneInv
<1> QED
  BY <1>1, <1>6, <1>7, <1>8, <1>9, Kept DEF OrderlyInv

-----------------------------------------------------------------------------
(* Questions and manifest.                                                 *)

\* Nothing has changed in what older versions show.
LEMMA OlderKept ==
    ASSUME OrderlyInv, UNCHANGED built, ~Finished(created), created \in Nat,
           \A v \in Versions : v < created =>
             /\ faq'[v] = faq[v]
             /\ \A c \in Chunk : Shows(v, c)' <=> Shows(v, c)
    PROVE  ExactInv'
<1> SUFFICES ASSUME NEW v \in Versions, Finished(v)' PROVE Exact(v)'
  BY DEF ExactInv
<1>1. Finished(v) /\ Exact(v) /\ v <= created /\ v # created
  BY DEF OrderlyInv, ExactInv, LineInv, Finished
<1>2. v < created
  BY <1>1, Bounds
<1>3. /\ faq'[v] = faq[v] /\ built'[v] = built[v]
      /\ \A c \in Chunk : Shows(v, c)' <=> Shows(v, c)
  BY <1>2
<1> QED
  BY <1>1, <1>3 DEF Exact

LEMMA FaqStep == ASSUME TypeInv, OrderlyInv, FaqDelete \/ FaqAdd PROVE OrderlyInv'
<1>1. /\ pc \in {"faqDelete", "faqAdd"} /\ pc' = IF pc = "faqDelete" THEN "faqAdd" ELSE "list"
      /\ UNCHANGED <<source, kb, vectors, index, manifest, job, built>>
      /\ \E s : faq' = [faq EXCEPT ![job.target] = s]
                /\ s = IF pc = "faqDelete" THEN faq[job.target] \ job.asked
                                           ELSE faq[job.target] \cup job.asked
  BY DEF FaqDelete, FaqAdd
<1>2. /\ Pending /\ created \in Versions /\ created \in Nat /\ job.target = created
      /\ job.asked = csv /\ ~Finished(created) /\ faq \in Faqs
  BY <1>1, InBuild, TypeOKInParts DEF OrderlyInv, BuildInv, TypeInv, DataTyped
<1>3. /\ faq'[created] = IF pc = "faqDelete" THEN faq[created] \ csv ELSE faq[created] \cup csv
      /\ \A v \in Versions : v # created => faq'[v] = faq[v]
  BY <1>1, <1>2 DEF Faqs
<1>4. faq[created] \subseteq csv
  BY <1>2 DEF OrderlyInv, PendingInv
<1>5. BuildInv' /\ Pending' /\ SettledInv'
  BY <1>1, StillBuilding
<1>6. LineInv' /\ WindowInv' /\ RowInv'
  BY <1>1, <1>2, <1>3 DEF OrderlyInv, LineInv, WindowInv, RowInv, Finished, kb
<1>7. PendingInv'
  BY <1>1, <1>2, <1>3, <1>4 DEF OrderlyInv, PendingInv, Pending, Shows, OfTarget, OfBase, HasBase,
       Out, source, kb
<1>8. ExactInv'
  BY <1>1, <1>2, <1>3, OlderKept DEF Shows
<1>9. WalkInv'
  BY <1>1, <1>2, <1>3, <1>4 DEF OrderlyInv, WalkInv, Walked, Writing, source, kb
<1>10. FileInv' /\ GoneInv'
  BY <1>1 DEF FileInv, GoneInv, Writing
<1> QED
  BY <1>5, <1>6, <1>7, <1>8, <1>9, <1>10 DEF OrderlyInv

\* The file is named in the manifest of the target, by one valid chunk.
LEMMA NamedStep ==
    ASSUME TypeInv, OrderlyInv, pc \in Walked \ {"gate"}, pc' = "walk",
           UNCHANGED <<source, kb, vectors, index, faq, built>>,
           NEW f \in Files, f \in job.todo, job' = NextFile(f, disk[f]),
           manifest[created][f] = None,
           NEW row \in Row, manifest' = [manifest EXCEPT ![job.target][f] = row],
           NEW c \in Chunk, row.chunks = {c}, row.fp = c.content,
           c.file = f, c.content = disk[f], vectors[c] = Open,
           OfBase(c) \/ (c.seq = created /\ index[c] = [from |-> created, to |-> Open])
    PROVE  OrderlyInv'
<1>1. /\ pc # "idle" /\ pc # "gate" /\ job \in Job /\ disk[f] \in Contents
      /\ manifest \in Manifests
  BY ChunkFields, TypeOKInParts DEF TypeInv, RestTyped, DataTyped, Walked, Writing
<1>2. /\ Pending /\ created \in Versions /\ created \in Nat /\ job.target = created
      /\ ~Finished(created) /\ created - 1 # created
  BY <1>1, InBuild DEF OrderlyInv, BuildInv
<1>3. /\ manifest'[created][f] = row
      /\ \A g \in Files : g # f => manifest'[created][g] = manifest[created][g]
      /\ \A v \in Versions : v # created => manifest'[v] = manifest[v]
  BY <1>1, <1>2 DEF Manifests
<1>4. /\ UNCHANGED <<disk, csv, created, active, released>>
      /\ \A g \in Files : HasBase(g)' <=> HasBase(g)
      /\ \A d \in Chunk : OfBase(d)' <=> OfBase(d)
      /\ \A g \in Files : Out(g)' <=> Out(g)
      /\ \A d \in Chunk : OfTarget(d)' => OfTarget(d) \/ d = c
      /\ \A v, d : Shows(v, d)' <=> Shows(v, d)
  <2>1. UNCHANGED <<disk, csv, created, active, released>>
    BY DEF source, kb
  <2>2. \A g \in Files : HasBase(g)' <=> HasBase(g)
    BY <1>2, <1>3, <2>1, Bounds DEF HasBase
  <2>3. \A d \in Chunk : OfBase(d)' <=> OfBase(d)
    BY <1>2, <1>3, <2>1, <2>2, Bounds, ChunkFields DEF OfBase, HasBase
  <2>4. \A g \in Files : Out(g)' <=> Out(g)
    BY <2>1, <2>3 DEF Out
  <2>5. \A d \in Chunk : OfTarget(d)' => OfTarget(d) \/ d = c
    BY <1>3, <2>1, ChunkFields DEF OfTarget
  <2>6. \A v, d : Shows(v, d)' <=> Shows(v, d)
    BY DEF Shows
  <2> QED
    BY <2>1, <2>2, <2>3, <2>4, <2>5, <2>6
<1>5. BuildInv' /\ Pending' /\ SettledInv'
  BY <1>1, NextFileFields, StillBuilding
<1>6. LineInv'
  BY <1>2, <1>3, <1>4 DEF OrderlyInv, LineInv, Finished
<1>7. WindowInv'
  BY <1>4 DEF OrderlyInv, WindowInv
<1>8. RowInv'
  BY <1>2, <1>3 DEF OrderlyInv, RowInv
<1>9. PendingInv'
  BY <1>2, <1>4, ChunkFields DEF OrderlyInv, PendingInv
<1>10. ExactInv'
  BY <1>2, <1>4, OlderKept
<1>11. WalkInv'
  <2>1. /\ job.todo \cap job.seen = {} /\ faq[created] = csv
        /\ \A g \in Files : disk[g] # None <=> g \in job.todo \cup job.seen
        /\ \A g \in Files : disk[g] = None => job.got[g] = None
        /\ \A g \in job.seen : /\ job.got[g] = disk[g]
                               /\ IF disk[g] = Empty THEN Out(g) ELSE manifest[created][g] # None
        /\ job.force => \A g \in Files \ job.seen : manifest[created][g] = None
    BY <1>1 DEF OrderlyInv, WalkInv
  <2>2. job.seen \subseteq Files /\ disk[f] # Empty /\ row # None
    BY <1>1, JobFields, ChunkFields, Bounds
  <2> QED
    BY <1>1, <1>3, <1>4, <2>1, <2>2, NextFileFields DEF WalkInv, Walked, Writing
<1>12. FileInv' /\ GoneInv'
  BY DEF FileInv, GoneInv, Writing
<1> QED
  BY <1>5, <1>6, <1>7, <1>8, <1>9, <1>10, <1>11, <1>12 DEF OrderlyInv

LEMMA ReferenceFileStep ==
    ASSUME TypeInv, OrderlyInv, NEW f \in Files, ReferenceFile(f) PROVE OrderlyInv'
<1>1. /\ pc = "walk" /\ pc' = "walk" /\ f \in job.todo /\ disk[f] # None
      /\ Existing(f) = None /\ Matches(BaseRow(f), disk[f])
      /\ manifest' = [manifest EXCEPT ![job.target][f] = BaseRow(f)]
      /\ job' = NextFile(f, disk[f])
      /\ UNCHANGED <<source, kb, vectors, index, faq, built>>
  BY DEF ReferenceFile
<1>2. /\ Pending /\ created \in Versions /\ created \in Nat /\ Existing(f) = manifest[created][f]
      /\ HasBase(f) /\ BaseRow(f) = manifest[created - 1][f] /\ created - 1 \in Versions
      /\ BaseRow(f) # None /\ BaseRow(f).fp = disk[f]
  BY <1>1, InBuild DEF OrderlyInv, Matches, HasBase
<1>3. PICK c \in Chunk : /\ c.file = f /\ c.content = disk[f] /\ OfBase(c)
                         /\ BaseRow(f).chunks = {c}
  <2>1. PICK c \in Chunk : /\ manifest[created - 1][f].chunks = {c} /\ c.file = f
                           /\ c.content = manifest[created - 1][f].fp
    BY <1>2 DEF OrderlyInv, RowInv
  <2> QED
    BY <1>2, <2>1 DEF OfBase
<1>4. vectors[c] = Open
  <2>1. Shows(created - 1, c) /\ vectors[c] # created
    BY <1>2, <1>3 DEF OrderlyInv, PendingInv
  <2>2. vectors[c] = Open \/ vectors[c] <= created
    BY <2>1 DEF OrderlyInv, WindowInv, Shows
  <2>3. vectors[c] \in Int
    BY TypeOKInParts, Bounds DEF TypeInv, DataTyped, Vectors, Absent
  <2> QED
    BY <1>2, <2>1, <2>2, <2>3 DEF Shows, InWindow
<1>5. BaseRow(f) \in Row
  BY <1>2, TypeOKInParts DEF TypeInv, DataTyped, Manifests
<1> QED
  BY <1>1, <1>2, <1>3, <1>4, <1>5, NamedStep DEF Walked

LEMMA RecordManifestStep == ASSUME TypeInv, OrderlyInv, RecordManifest PROVE OrderlyInv'
<1>1. /\ pc = "record" /\ pc' = "walk" /\ UNCHANGED <<source, kb, vectors, index, faq, built>>
      /\ manifest' = [manifest EXCEPT ![job.target][job.file] =
                        [fp |-> job.content, chunks |-> {NewChunk}]]
      /\ job' = NextFile(job.file, job.got[job.file])
  BY DEF RecordManifest
<1>2. /\ job.todo # {} /\ job.file \in job.todo /\ job.content = disk[job.file]
      /\ manifest[created][job.file] = None /\ job.got[job.file] = disk[job.file]
      /\ vectors[NewChunk] = Open /\ index[NewChunk] = [from |-> created, to |-> Open]
  BY <1>1 DEF OrderlyInv, WalkInv, FileInv, Writing
<1>3. /\ NewChunk \in Chunk /\ NewChunk.seq = job.target /\ job.target = created
      /\ NewChunk.file = job.file /\ NewChunk.content = job.got[job.file]
      /\ job.file \in Files /\ job.content \in Contents
  BY <1>1, NewChunkIsTyped, InBuild DEF OrderlyInv, Writing, TypeInv, Placed
<1> DEFINE row == [fp |-> job.content, chunks |-> {NewChunk}]
<1>4. row \in Row /\ row.chunks = {NewChunk} /\ row.fp = NewChunk.content
  BY <1>2, <1>3 DEF Row
<1> HIDE DEF row
<1>5. manifest' = [manifest EXCEPT ![job.target][job.file] = row]
  BY <1>1 DEF row
<1>6. NewChunk.content = disk[job.file] /\ job' = NextFile(job.file, disk[job.file])
      /\ pc \in Walked \ {"gate"}
  BY <1>1, <1>2, <1>3 DEF Walked, Writing
<1> QED
  BY <1>1, <1>2, <1>3, <1>4, <1>5, <1>6, NamedStep

-----------------------------------------------------------------------------
(* The chunks of the base go.                                              *)

\* What expires is one chunk, which the target does not name.
LEMMA TheExpiring ==
    ASSUME TypeInv, OrderlyInv, pc \in {"expire", "expireIndex"}
    PROVE  \E c \in Chunk :
             /\ \A d : d \in Expiring <=> d = c
             /\ OfBase(c) /\ c.file = job.file /\ c.file \in Files
             /\ c.content # disk[c.file] /\ ~OfTarget(c) /\ c.seq < created
             /\ vectors[c] # Absent /\ (vectors[c] = Open \/ vectors[c] = created)
<1>1. /\ Pending /\ created \in Versions /\ created \in Nat /\ job.base = created - 1
      /\ HasBase(job.file) /\ created - 1 \in Versions /\ job.file \in Files
  BY InBuild DEF OrderlyInv, FileInv, HasBase, TypeInv, Placed
<1>2. PICK c \in Chunk : /\ manifest[created - 1][job.file].chunks = {c} /\ c.file = job.file
                         /\ c.content = manifest[created - 1][job.file].fp
  BY <1>1 DEF OrderlyInv, RowInv, HasBase
<1>3. OfBase(c) /\ \A d : d \in Expiring <=> d = c
  BY <1>1, <1>2 DEF OfBase, Expiring
<1>4. c.content # disk[c.file]
  <2>1. CASE job.todo # {}
    BY <1>1, <1>2, <2>1 DEF OrderlyInv, FileInv
  <2>2. CASE job.todo = {}
    <3>1. job.file \in job.gone /\ disk[job.file] = None
      BY <2>2 DEF OrderlyInv, GoneInv
    <3> QED
      BY <1>2, <3>1, ChunkFields
  <2> QED
    BY <2>1, <2>2
<1>5. ~OfTarget(c) /\ Shows(created - 1, c)
  BY <1>1, <1>3, <1>4 DEF OrderlyInv, PendingInv
<1>6. c.seq <= created - 1 /\ vectors[c] # Absent /\ (vectors[c] = Open \/ vectors[c] > created - 1)
  BY <1>5 DEF Shows, InWindow
<1>7. vectors[c] = Open \/ vectors[c] <= created
  BY <1>6 DEF OrderlyInv, WindowInv
<1>8. vectors[c] \in Int /\ c.seq \in Nat
  BY TypeOKInParts, Bounds, ChunkFields DEF TypeInv, DataTyped, Vectors, Absent
<1> QED
  BY <1>1, <1>2, <1>3, <1>4, <1>5, <1>6, <1>7, <1>8

\* What does not depend on the chunks' windows.
LEMMA NamesKept ==
    ASSUME OrderlyInv, UNCHANGED <<source, kb, manifest, faq, built>>
    PROVE  /\ UNCHANGED <<disk, csv, created, active, released, Pending>>
           /\ LineInv' /\ RowInv'
           /\ \A f \in Files : HasBase(f)' <=> HasBase(f)
           /\ \A c \in Chunk : (OfBase(c)' <=> OfBase(c)) /\ (OfTarget(c)' <=> OfTarget(c))
<1>1. UNCHANGED <<disk, csv, created, active, released, Pending>>
  BY DEF source, kb, Pending
<1>2. LineInv' /\ RowInv'
  BY <1>1 DEF OrderlyInv, LineInv, RowInv, Finished
<1>3. \A f \in Files : HasBase(f)' <=> HasBase(f)
  BY <1>1 DEF HasBase
<1>4. \A c \in Chunk : (OfBase(c)' <=> OfBase(c)) /\ (OfTarget(c)' <=> OfTarget(c))
  BY <1>1 DEF OfBase, OfTarget, HasBase
<1> QED
  BY <1>1, <1>2, <1>3, <1>4

LEMMA ExpireVectorsStep == ASSUME TypeInv, OrderlyInv, ExpireVectors PROVE OrderlyInv'
<1>1. /\ pc = "expire" /\ pc' = "expireIndex"
      /\ vectors' = [c \in Chunk |-> IF c \in Expiring THEN job.target ELSE vectors[c]]
      /\ UNCHANGED <<source, kb, index, manifest, faq, job, built>>
  BY DEF ExpireVectors
<1>2. /\ Pending /\ created \in Versions /\ created \in Nat /\ created >= 1
      /\ job.target = created /\ ~Finished(created)
  BY <1>1, InBuild DEF OrderlyInv, BuildInv
<1>3. PICK c \in Chunk :
        /\ \A d : d \in Expiring <=> d = c
        /\ OfBase(c) /\ c.file = job.file /\ c.file \in Files
        /\ c.content # disk[c.file] /\ ~OfTarget(c) /\ c.seq < created
        /\ vectors[c] # Absent /\ (vectors[c] = Open \/ vectors[c] = created)
  BY <1>1, TheExpiring
<1>4. vectors'[c] = created /\ \A d \in Chunk : d # c => vectors'[d] = vectors[d]
  BY <1>1, <1>2, <1>3
<1>5. /\ UNCHANGED <<disk, csv, created, active, released, Pending>>
      /\ LineInv' /\ RowInv'
      /\ \A f \in Files : HasBase(f)' <=> HasBase(f)
      /\ \A d \in Chunk : (OfBase(d)' <=> OfBase(d)) /\ (OfTarget(d)' <=> OfTarget(d))
  BY <1>1, NamesKept
<1>6. \A f \in Files : Out(f) => Out(f)'
  BY <1>4, <1>5 DEF Out
<1>7. Out(job.file)'
  <2> SUFFICES ASSUME NEW d \in Chunk, d.file = job.file, OfBase(d) PROVE vectors'[d] = created
    BY <1>1, <1>5 DEF Out
  <2>1. d = c
    BY <1>2, <1>3, OneOfBase DEF OrderlyInv
  <2> QED
    BY <1>4, <2>1
<1>8. ASSUME NEW v \in Versions \cup {created - 1}, v < created, NEW d \in Chunk
      PROVE  Shows(v, d)' <=> Shows(v, d)
  <2>1. CASE d = c
    <3>1. v \in Int /\ Absent # created /\ Open # created
      BY <1>2, Bounds DEF Absent, Open
    <3> QED
      BY <1>2, <1>3, <1>4, <1>8, <2>1, <3>1 DEF Shows, InWindow
  <2>2. CASE d # c
    BY <1>4, <2>2 DEF Shows
  <2> QED
    BY <2>1, <2>2
<1>9. BuildInv' /\ Pending' /\ SettledInv'
  BY <1>1, StillBuilding
<1>10. WindowInv'
  BY <1>2, <1>3, <1>4, <1>5 DEF OrderlyInv, WindowInv
<1>11. PendingInv'
  <2>1. \A d \in Chunk : Shows(created - 1, d)' <=> Shows(created - 1, d)
    BY <1>2, <1>5, <1>8
  <2> QED
    BY <1>1, <1>2, <1>3, <1>4, <1>5, <1>6, <2>1, ChunkFields DEF OrderlyInv, PendingInv
<1>12. ExactInv'
  BY <1>1, <1>2, <1>8, OlderKept
<1>13. WalkInv'
  BY <1>1, <1>5, <1>6, JobFields, TypeOKInParts DEF OrderlyInv, WalkInv, Walked, Writing,
       TypeInv, RestTyped
<1>14. FileInv' /\ GoneInv'
  BY <1>1, <1>3, <1>5, <1>6, <1>7, JobFields, TypeOKInParts DEF OrderlyInv, FileInv, GoneInv,
       Writing, TypeInv, RestTyped
<1> QED
  BY <1>5, <1>9, <1>10, <1>11, <1>12, <1>13, <1>14 DEF OrderlyInv

LEMMA ExpireIndexStep == ASSUME TypeInv, OrderlyInv, ExpireIndex PROVE OrderlyInv'
<1>1. /\ pc = "expireIndex" /\ pc' = IF job.todo = {} THEN "missing" ELSE "delete"
      /\ index' = [c \in Chunk |-> IF c \in Expiring
                                   THEN [from |-> job.base, to |-> job.target] ELSE index[c]]
      /\ job' = IF job.todo = {} THEN [job EXCEPT !.gone = @ \ {job.file}, !.file = None] ELSE job
      /\ UNCHANGED <<source, kb, vectors, manifest, faq, built>>
  BY DEF ExpireIndex
<1>2. /\ Pending /\ created \in Versions /\ created \in Nat /\ created >= 1 /\ created - 1 \in Versions
      /\ job.target = created /\ job.base = created - 1 /\ ~Finished(created) /\ job \in Job
  BY <1>1, InBuild, TypeOKInParts DEF OrderlyInv, BuildInv, FileInv, HasBase, TypeInv, RestTyped
<1>3. PICK c \in Chunk :
        /\ \A d : d \in Expiring <=> d = c
        /\ OfBase(c) /\ c.file = job.file /\ c.file \in Files
        /\ c.content # disk[c.file] /\ ~OfTarget(c) /\ c.seq < created
        /\ vectors[c] # Absent /\ (vectors[c] = Open \/ vectors[c] = created)
  BY <1>1, TheExpiring
<1>4. vectors[c] = created /\ Out(job.file)
  BY <1>1, <1>3 DEF OrderlyInv, FileInv, Out
<1>5. /\ index'[c] # None /\ index'[c].from = created - 1 /\ index'[c].to = created
      /\ \A d \in Chunk : d # c => index'[d] = index[d]
  <2>1. [from |-> created - 1, to |-> created] \in Window
    BY <1>2, Bounds DEF Window
  <2> QED
    BY <1>1, <1>2, <1>3, <2>1, Bounds
<1>6. /\ UNCHANGED <<disk, csv, created, active, released, Pending>>
      /\ LineInv' /\ RowInv'
      /\ \A f \in Files : HasBase(f)' <=> HasBase(f)
      /\ \A d \in Chunk : (OfBase(d)' <=> OfBase(d)) /\ (OfTarget(d)' <=> OfTarget(d))
  BY <1>1, NamesKept
<1>7. \A f \in Files : Out(f)' <=> Out(f)
  BY <1>1, <1>6 DEF Out
<1>8. \A v, d : Shows(v, d)' <=> Shows(v, d)
  BY <1>1 DEF Shows
<1>9. /\ job'.target = job.target /\ job'.base = job.base /\ job'.force = job.force
      /\ job'.asked = job.asked /\ job'.todo = job.todo /\ job'.seen = job.seen
      /\ job'.got = job.got /\ job'.content = job.content
      /\ job.todo # {} => job' = job
      /\ job.todo = {} => job'.gone = job.gone \ {job.file}
  <2>1. CASE job.todo = {}
    BY <1>1, <1>2, <2>1 DEF Job
  <2>2. CASE job.todo # {}
    BY <1>1, <2>2
  <2> QED
    BY <2>1, <2>2
<1>10. BuildInv' /\ Pending' /\ SettledInv'
  BY <1>1, <1>9, StillBuilding
<1>11. WindowInv' /\ ExactInv'
  BY <1>1, <1>2, <1>6, <1>8, OlderKept DEF OrderlyInv, WindowInv
<1>12. PendingInv'
  BY <1>1, <1>2, <1>3, <1>4, <1>5, <1>6, <1>7, <1>8, ChunkFields DEF OrderlyInv, PendingInv
<1>13. WalkInv'
  BY <1>1, <1>2, <1>6, <1>7, <1>9, JobFields DEF OrderlyInv, WalkInv, Walked, Writing
<1>14. FileInv'
  BY <1>1, <1>2, <1>4, <1>6, <1>7, <1>9, JobFields DEF OrderlyInv, FileInv, Writing
<1>15. GoneInv'
  BY <1>1, <1>2, <1>4, <1>6, <1>7, <1>9, JobFields DEF OrderlyInv, GoneInv
<1> QED
  BY <1>6, <1>10, <1>11, <1>12, <1>13, <1>14, <1>15 DEF OrderlyInv

-----------------------------------------------------------------------------
(* The chunks of the target come.                                          *)

LEMMA DeleteOldStep == ASSUME TypeInv, OrderlyInv, DeleteOld PROVE OrderlyInv'
<1>1. /\ pc = "delete" /\ disk[job.file] # None
      /\ vectors' = [c \in Chunk |->
                       IF /\ Existing(job.file) # None
                          /\ c \in Existing(job.file).chunks
                          /\ c.seq = job.target
                       THEN Absent ELSE vectors[c]]
      /\ IF disk[job.file] = Empty
         THEN pc' = "walk" /\ job' = NextFile(job.file, Empty)
         ELSE pc' = "add" /\ job' = [job EXCEPT !.got[job.file] = disk[job.file]]
      /\ UNCHANGED <<source, kb, index, manifest, faq, built>>
  BY DEF DeleteOld
<1>2. /\ job.file \in Files /\ job.todo # {} /\ job.file \in job.todo
      /\ job.content = disk[job.file] /\ manifest[created][job.file] = None
      /\ HasBase(job.file) => manifest[created - 1][job.file].fp # disk[job.file]
      /\ Out(job.file) /\ Existing(job.file) = None
  BY <1>1, InBuild DEF OrderlyInv, WalkInv, FileInv, Writing, TypeInv, Placed
<1>3. vectors' = vectors
  <2>1. vectors \in Vectors
    BY TypeOKInParts DEF TypeInv, DataTyped
  <2> QED
    BY <1>1, <1>2, <2>1 DEF Vectors
<1>4. UNCHANGED <<source, kb, data, built>>
  BY <1>1, <1>3 DEF data
<1>5. /\ UNCHANGED <<disk, csv, created, manifest, faq>>
      /\ \A f \in Files : /\ Out(f)' <=> Out(f)
                          /\ HasBase(f)' <=> HasBase(f)
  BY <1>4 DEF source, kb, data, Out, OfBase, HasBase
<1>6. /\ job.todo \cap job.seen = {} /\ faq[created] = csv /\ job.seen \subseteq Files
      /\ \A f \in Files : disk[f] # None <=> f \in job.todo \cup job.seen
      /\ \A f \in Files : disk[f] = None => job.got[f] = None
      /\ \A f \in job.seen : /\ job.got[f] = disk[f]
                             /\ IF disk[f] = Empty THEN Out(f) ELSE manifest[created][f] # None
      /\ job.force => \A f \in Files \ job.seen : manifest[created][f] = None
      /\ job \in Job
  BY <1>1, JobFields, TypeOKInParts DEF OrderlyInv, WalkInv, Walked, Writing, TypeInv, RestTyped
<1>7. CASE disk[job.file] = Empty
  <2>1. pc' = "walk" /\ job' = NextFile(job.file, Empty)
    BY <1>1, <1>7
  <2>2. BuildInv'
    BY <1>1, <1>2, <1>6, <2>1, Bounds, NextFileFields, StillBuilding
  <2>3. FileInv' /\ GoneInv'
    BY <2>1 DEF FileInv, GoneInv, Writing
  <2>4. WalkInv'
    BY <1>2, <1>5, <1>6, <1>7, <2>1, Bounds, NextFileFields DEF WalkInv, Walked, Writing
  <2> QED
    BY <1>4, <2>2, <2>3, <2>4, Kept DEF OrderlyInv
<1>8. CASE disk[job.file] # Empty
  <2>1. pc' = "add" /\ job' = [job EXCEPT !.got[job.file] = disk[job.file]]
    BY <1>1, <1>8
  <2>2. /\ job'.target = job.target /\ job'.base = job.base /\ job'.force = job.force
        /\ job'.asked = job.asked /\ job'.todo = job.todo /\ job'.seen = job.seen
        /\ job'.file = job.file /\ job'.content = job.content
        /\ job'.got[job.file] = disk[job.file]
        /\ \A f \in Files \ {job.file} : job'.got[f] = job.got[f]
    BY <1>2, <1>6, <2>1 DEF Job
  <2>3. BuildInv'
    BY <1>1, <2>1, <2>2, StillBuilding
  <2>4. FileInv' /\ GoneInv'
    BY <1>2, <1>5, <2>1, <2>2 DEF FileInv, GoneInv, Writing
  <2>5. WalkInv'
    BY <1>1, <1>2, <1>5, <1>6, <2>1, <2>2 DEF WalkInv, Walked, Writing
  <2> QED
    BY <1>4, <2>3, <2>4, <2>5, Kept DEF OrderlyInv
<1> QED
  BY <1>7, <1>8

\* The chunk that is added is neither of the base nor named in the target yet.
LEMMA TheNewChunk ==
    ASSUME TypeInv, OrderlyInv, pc \in Writing \ {"delete"}
    PROVE  /\ NewChunk \in Chunk /\ NewChunk.seq = created /\ NewChunk.file = job.file
           /\ NewChunk.content = disk[job.file] /\ job.file \in Files /\ job.file \in job.todo
           /\ ~OfBase(NewChunk) /\ ~OfTarget(NewChunk) /\ Out(job.file)
<1>1. /\ NewChunk \in Chunk /\ NewChunk.seq = created /\ NewChunk.file = job.file
      /\ NewChunk.content = job.got[job.file]
  BY NewChunkIsTyped, InBuild DEF OrderlyInv, Writing
<1>2. /\ job.got[job.file] = disk[job.file] /\ job.file \in job.todo /\ Out(job.file)
      /\ manifest[created][job.file] = None /\ job.file \in Files
  BY DEF OrderlyInv, WalkInv, FileInv, Writing, TypeInv, Placed
<1>3. ~Shows(created - 1, NewChunk) /\ Pending
  BY <1>1, InBuild DEF OrderlyInv, Writing, Shows, InWindow
<1> QED
  BY <1>1, <1>2, <1>3 DEF OrderlyInv, PendingInv, OfTarget

LEMMA AddVectorsStep == ASSUME TypeInv, OrderlyInv, AddVectors PROVE OrderlyInv'
<1>1. /\ pc = "add" /\ pc' = "register" /\ vectors' = [vectors EXCEPT ![NewChunk] = Open]
      /\ UNCHANGED <<source, kb, index, manifest, faq, job, built>>
  BY DEF AddVectors
<1>2. /\ Pending /\ created \in Versions /\ created \in Nat /\ created >= 1
      /\ job.target = created /\ ~Finished(created) /\ job \in Job /\ vectors \in Vectors
  BY <1>1, InBuild, TypeOKInParts DEF OrderlyInv, BuildInv, TypeInv, RestTyped, DataTyped
<1>3. /\ NewChunk \in Chunk /\ NewChunk.seq = created /\ NewChunk.file = job.file
      /\ NewChunk.content = disk[job.file] /\ job.file \in Files /\ job.file \in job.todo
      /\ ~OfBase(NewChunk) /\ ~OfTarget(NewChunk) /\ Out(job.file)
  BY <1>1, TheNewChunk DEF Writing
<1>4. NewChunk' = NewChunk
  BY <1>1 DEF NewChunk
<1> DEFINE c == NewChunk
<1> HIDE DEF c
<1>5. vectors'[c] = Open /\ \A d \in Chunk : d # c => vectors'[d] = vectors[d]
  BY <1>1, <1>2, <1>3 DEF c, Vectors
<1>6. /\ UNCHANGED <<disk, csv, created, active, released, Pending>>
      /\ LineInv' /\ RowInv'
      /\ \A f \in Files : HasBase(f)' <=> HasBase(f)
      /\ \A d \in Chunk : (OfBase(d)' <=> OfBase(d)) /\ (OfTarget(d)' <=> OfTarget(d))
  BY <1>1, NamesKept
<1>7. \A f \in Files : Out(f)' <=> Out(f)
  BY <1>3, <1>5, <1>6 DEF Out, c
<1>8. ASSUME NEW v \in Versions \cup {created - 1}, v < created, NEW d \in Chunk
      PROVE  Shows(v, d)' <=> Shows(v, d)
  <2>1. v \in Int
    BY <1>2, Bounds
  <2>2. CASE d = c
    BY <1>2, <1>3, <1>8, <2>1, <2>2 DEF Shows, InWindow, c
  <2>3. CASE d # c
    BY <1>5, <2>3 DEF Shows
  <2> QED
    BY <2>2, <2>3
<1>9. BuildInv' /\ Pending' /\ SettledInv'
  BY <1>1, StillBuilding
<1>10. WindowInv'
  BY <1>2, <1>3, <1>5, <1>6 DEF OrderlyInv, WindowInv, c
<1>11. PendingInv'
  <2>1. \A d \in Chunk : Shows(created - 1, d)' <=> Shows(created - 1, d)
    BY <1>2, <1>6, <1>8
  <2>2. c \in Chunk /\ c.content = disk[c.file] /\ Out(c.file) /\ ~OfBase(c) /\ ~OfTarget(c)
    BY <1>3 DEF c
  <2> QED
    BY <1>1, <1>2, <1>5, <1>6, <1>7, <2>1, <2>2, ChunkFields DEF OrderlyInv, PendingInv
<1>12. ExactInv'
  BY <1>1, <1>2, <1>8, OlderKept
<1>13. WalkInv'
  BY <1>1, <1>2, <1>6, <1>7, JobFields DEF OrderlyInv, WalkInv, Walked, Writing
<1>14. FileInv' /\ GoneInv'
  <2>1. vectors'[NewChunk'] = Open
    BY <1>4, <1>5 DEF c
  <2> QED
    BY <1>1, <1>3, <1>6, <1>7, <2>1 DEF OrderlyInv, FileInv, GoneInv, Writing
<1> QED
  BY <1>6, <1>9, <1>10, <1>11, <1>12, <1>13, <1>14 DEF OrderlyInv

LEMMA UpsertChunksStep == ASSUME TypeInv, OrderlyInv, UpsertChunks PROVE OrderlyInv'
<1>1. /\ pc = "register" /\ pc' = "record"
      /\ index' = [index EXCEPT ![NewChunk] = [from |-> job.target, to |-> Open]]
      /\ UNCHANGED <<source, kb, vectors, manifest, faq, job, built>>
  BY DEF UpsertChunks
<1>2. /\ Pending /\ created \in Versions /\ created \in Nat /\ created >= 1
      /\ job.target = created /\ ~Finished(created) /\ job \in Job /\ index \in Indexes
  BY <1>1, InBuild, TypeOKInParts DEF OrderlyInv, BuildInv, TypeInv, RestTyped, DataTyped
<1>3. /\ NewChunk \in Chunk /\ NewChunk.seq = created /\ NewChunk.file = job.file
      /\ job.file \in Files /\ job.file \in job.todo
      /\ ~OfBase(NewChunk) /\ ~OfTarget(NewChunk) /\ Out(job.file)
  BY <1>1, TheNewChunk DEF Writing
<1>4. NewChunk' = NewChunk
  BY <1>1 DEF NewChunk
<1> DEFINE c == NewChunk
<1> HIDE DEF c
<1>5. /\ index'[c] = [from |-> created, to |-> Open]
      /\ \A d \in Chunk : d # c => index'[d] = index[d]
  BY <1>1, <1>2, <1>3 DEF c, Indexes
<1>6. /\ UNCHANGED <<disk, csv, created, active, released, Pending>>
      /\ LineInv' /\ RowInv'
      /\ \A f \in Files : HasBase(f)' <=> HasBase(f)
      /\ \A d \in Chunk : (OfBase(d)' <=> OfBase(d)) /\ (OfTarget(d)' <=> OfTarget(d))
  BY <1>1, NamesKept
<1>7. \A f \in Files : Out(f)' <=> Out(f)
  BY <1>1, <1>6 DEF Out
<1>8. \A v, d : Shows(v, d)' <=> Shows(v, d)
  BY <1>1 DEF Shows
<1>9. BuildInv' /\ Pending' /\ SettledInv'
  BY <1>1, StillBuilding
<1>10. WindowInv' /\ ExactInv'
  BY <1>1, <1>2, <1>6, <1>8, OlderKept DEF OrderlyInv, WindowInv
<1>11. PendingInv'
  <2>1. c \in Chunk /\ ~OfBase(c) /\ ~OfTarget(c)
    BY <1>3 DEF c
  <2> QED
    BY <1>1, <1>2, <1>5, <1>6, <1>7, <1>8, <2>1, ChunkFields DEF OrderlyInv, PendingInv
<1>12. WalkInv'
  BY <1>1, <1>2, <1>6, <1>7, JobFields DEF OrderlyInv, WalkInv, Walked, Writing
<1>13. FileInv' /\ GoneInv'
  <2>1. index'[NewChunk'] = [from |-> created, to |-> Open] /\ vectors'[NewChunk'] = Open
    BY <1>1, <1>4, <1>5 DEF c, OrderlyInv, FileInv
  <2> QED
    BY <1>1, <1>3, <1>6, <1>7, <2>1 DEF OrderlyInv, FileInv, GoneInv, Writing
<1> QED
  BY <1>6, <1>9, <1>10, <1>11, <1>12, <1>13 DEF OrderlyInv

-----------------------------------------------------------------------------
(* A build ends, and another begins.                                       *)

LEMMA FinishIngestStep == ASSUME TypeInv, OrderlyInv, FinishIngest PROVE OrderlyInv'
<1>1. /\ pc = "missing" /\ job.gone = {} /\ pc' = "gate"
      /\ built' = [built EXCEPT ![job.target] = [files |-> job.got, faq |-> job.asked]]
      /\ UNCHANGED <<source, kb, data, job>>
  BY DEF FinishIngest
<1>2. /\ Pending /\ created \in Versions /\ job.target = created
      /\ job \in Job /\ built \in Pictures
  BY <1>1, InBuild, TypeOKInParts DEF OrderlyInv, BuildInv, TypeInv, RestTyped
<1>3. /\ built'[created] = [files |-> job.got, faq |-> job.asked]
      /\ built'[created] \in Picture /\ built'[created] # None
      /\ \A v \in Versions : v # created => built'[v] = built[v]
  <2>1. [files |-> job.got, faq |-> job.asked] \in Picture
    BY <1>2, JobFields DEF Picture, Disks
  <2> QED
    BY <1>1, <1>2, <2>1, Bounds DEF Pictures
<1>4. /\ UNCHANGED <<disk, csv, created, active, released, vectors, index, manifest, faq, Pending>>
      /\ \A v, c : Shows(v, c)' <=> Shows(v, c)
      /\ \A f \in Files : /\ Out(f)' <=> Out(f)
                          /\ HasBase(f)' <=> HasBase(f)
      /\ \A c \in Chunk : (OfBase(c)' <=> OfBase(c)) /\ (OfTarget(c)' <=> OfTarget(c))
  BY <1>1 DEF source, kb, data, Pending, Shows, Out, OfBase, OfTarget, HasBase
<1>5. LineInv'
  BY <1>2, <1>3, <1>4, Bounds DEF OrderlyInv, LineInv, Finished
<1>6. BuildInv'
  BY <1>1, <1>2, <1>3, <1>4 DEF OrderlyInv, BuildInv, Finished
<1>7. WindowInv' /\ RowInv' /\ SettledInv' /\ PendingInv'
  BY <1>2, <1>4, ChunkFields DEF OrderlyInv, WindowInv, RowInv, SettledInv, PendingInv
<1>8. WalkInv' /\ FileInv' /\ GoneInv'
  BY <1>1, <1>4, JobFields, <1>2 DEF OrderlyInv, WalkInv, FileInv, GoneInv, Walked, Writing
<1>9. Exact(created)'
  <2>1. /\ \A c \in Chunk : Shows(created, c) <=> OfTarget(c)
        /\ \A c \in Chunk : OfTarget(c) => c.content = disk[c.file]
    BY <1>1, <1>2, Complete DEF OrderlyInv, PendingInv
  <2>2. /\ \A f \in Files : disk[f] # None <=> f \in job.seen
        /\ \A f \in Files : disk[f] = None => job.got[f] = None
        /\ \A f \in job.seen : /\ job.got[f] = disk[f]
                               /\ disk[f] # Empty => manifest[created][f] # None
        /\ faq[created] = csv /\ job.asked = csv
    BY <1>1, <1>2 DEF OrderlyInv, WalkInv, BuildInv, Walked
  <2>3. ASSUME NEW c \in Chunk, Shows(created, c) PROVE job.got[c.file] = c.content
    BY <2>1, <2>2, <2>3, ChunkFields
  <2>4. ASSUME NEW f \in Files, job.got[f] \in Contents \ {Empty}
        PROVE  \E c \in Chunk : c.file = f /\ Shows(created, c)
    <3>1. disk[f] # None /\ f \in job.seen /\ disk[f] # Empty
      BY <2>2, <2>4, Bounds
    <3> QED
      BY <1>2, <2>1, <2>2, <3>1, TheChunk DEF OrderlyInv
  <2>5. ASSUME NEW c \in Chunk, NEW d \in Chunk, Shows(created, c), Shows(created, d),
               c.file = d.file
        PROVE  c = d
    BY <1>2, <2>1, <2>5, OneOfBase DEF OrderlyInv
  <2>6. built'[created].files = job.got /\ built'[created].faq = job.asked
    BY <1>3
  <2> QED
    BY <1>4, <2>2, <2>3, <2>4, <2>5, <2>6 DEF Exact
<1>10. ExactInv'
  <2> SUFFICES ASSUME NEW v \in Versions, Finished(v)' PROVE Exact(v)'
    BY DEF ExactInv
  <2>1. CASE v = created
    BY <1>4, <1>9, <2>1 DEF Exact
  <2>2. CASE v # created
    BY <1>3, <1>4, <2>2 DEF OrderlyInv, ExactInv, Exact, Finished
  <2> QED
    BY <2>1, <2>2
<1> QED
  BY <1>5, <1>6, <1>7, <1>8, <1>10 DEF OrderlyInv

LEMMA ReleaseStep == ASSUME TypeInv, OrderlyInv, Release PROVE OrderlyInv'
<1>1. /\ pc = "gate" /\ pc' = "idle" /\ job' = Idle
      /\ active' = job.target /\ released' = released \cup {job.target}
      /\ UNCHANGED <<source, created, data, built>>
  BY DEF Release
<1>2. /\ Pending /\ created \in Versions /\ created \in Nat /\ created >= 1 /\ job.target = created
      /\ Finished(created) /\ job.gone = {} /\ 1 \in Versions
  BY <1>1, InBuild, Bounds DEF OrderlyInv, BuildInv, GoneInv
<1>3. /\ UNCHANGED <<disk, csv, created, vectors, index, manifest, faq>>
      /\ \A v, c : Shows(v, c)' <=> Shows(v, c)
      /\ \A c \in Chunk : OfTarget(c)' <=> OfTarget(c)
      /\ ~Pending'
  BY <1>1, <1>2 DEF source, data, Shows, OfTarget, Pending
<1>4. LineInv'
  <2>1. /\ 1 .. created - 1 \subseteq released /\ released \subseteq 1 .. created
        /\ \A v \in released : Finished(v)
        /\ \A v \in Versions : Finished(v) => v <= created
        /\ \A v \in Versions : v > created => faq[v] = {} /\ \A f \in Files : manifest[v][f] = None
    BY DEF OrderlyInv, LineInv
  <2>2. created \in 1 .. created /\ released' = released \cup {created} /\ active' = created
    BY <1>1, <1>2
  <2>3. \A v : Finished(v)' <=> Finished(v)
    BY <1>1 DEF Finished
  <2>4. 1 .. created' - 1 \subseteq released' /\ released' \subseteq 1 .. created'
    BY <1>3, <2>1, <2>2
  <2>5. active' \in released' \cup {0}
    BY <2>2
  <2>6. \A v \in released' : Finished(v)'
    BY <1>2, <2>1, <2>2, <2>3
  <2>7. /\ \A v \in Versions : Finished(v)' => v <= created'
        /\ \A v \in Versions : v > created' =>
             faq'[v] = {} /\ \A f \in Files : manifest'[v][f] = None
    BY <1>3, <2>1, <2>3
  <2> QED
    BY <2>4, <2>5, <2>6, <2>7 DEF LineInv
<1>5. SettledInv'
  BY <1>1, <1>2, <1>3, Complete DEF SettledInv
<1>6. WindowInv' /\ RowInv' /\ PendingInv' /\ ExactInv'
  BY <1>1, <1>3 DEF OrderlyInv, WindowInv, RowInv, PendingInv, ExactInv, Exact, Finished
<1>7. BuildInv' /\ FileInv' /\ GoneInv'
  BY <1>1 DEF BuildInv, FileInv, GoneInv, Writing
<1>8. WalkInv'
  BY <1>1, IdleIsTyped DEF WalkInv, Walked, Writing
<1> QED
  BY <1>4, <1>5, <1>6, <1>7, <1>8 DEF OrderlyInv

LEMMA BeginStep ==
    ASSUME TypeInv, OrderlyInv, NEW mode \in Modes, Begin(mode), InLine(mode)
    PROVE  OrderlyInv'
<1> DEFINE t == TargetOf(mode)
<1>1. /\ pc = "idle" /\ MayBegin(mode) /\ pc' = "faqDelete" /\ created' = t
      /\ BaseOf(mode) = t - 1 /\ t \in Versions
      /\ job' = [Idle EXCEPT !.target = t, !.base = BaseOf(mode),
                             !.force = (mode = "full"), !.asked = csv]
      /\ built' = [built EXCEPT ![t] = None]
      /\ UNCHANGED <<source, active, released, data>>
  BY DEF Begin, InLine, MayBegin
<1>2. /\ job'.target = t /\ job'.base = t - 1 /\ job'.force = (mode = "full") /\ job'.asked = csv
      /\ job'.seen = {} /\ job'.got = Idle.got
  BY <1>1, IdleIsTyped DEF Idle
<1>3. created \in 0 .. MaxSeq /\ created \in Nat /\ built \in Pictures /\ 1 \in Versions
      /\ t \in Nat /\ t >= 1
  BY <1>1, Bounds, TypeOKInParts DEF TypeInv, KbTyped, RestTyped
<1>4. /\ UNCHANGED <<disk, csv, active, released, vectors, index, manifest, faq>>
      /\ \A v, c : Shows(v, c)' <=> Shows(v, c)
      /\ built'[t] = None
      /\ \A v \in Versions : v # t => built'[v] = built[v]
  BY <1>1, <1>3 DEF source, data, Shows, Pictures
\* Again on the newest version, or on the next after a released one.
<1>5. \/ t = created /\ Pending /\ mode # "full"
      \/ t = created + 1 /\ (created = 0 \/ ~Pending)
  <2>1. CASE mode = "rerun"
    <3>1. t = created /\ created \notin released
      BY <1>1, <2>1 DEF MayBegin, TargetOf
    <3> QED
      BY <1>3, <2>1, <3>1 DEF Pending
  <2>2. CASE mode # "rerun"
    <3>1. t = created + 1 /\ BaseOf(mode) = created
      BY <1>1, <1>3, <2>2 DEF TargetOf
    <3>2. created = 0 \/ created = active
      BY <3>1 DEF BaseOf
    <3> QED
      BY <3>1, <3>2 DEF OrderlyInv, LineInv, Pending
  <2> QED
    BY <2>1, <2>2
<1> HIDE DEF t
<1>6. t \notin released /\ Pending'
  BY <1>1, <1>3, <1>4, <1>5 DEF OrderlyInv, LineInv, Pending
<1>7. LineInv'
  <2>1. /\ 1 .. created - 1 \subseteq released /\ released \subseteq 1 .. created
        /\ active \in released \cup {0}
        /\ \A v \in released : Finished(v)
        /\ \A v \in Versions : Finished(v) => v <= created
        /\ \A v \in Versions : v > created => faq[v] = {} /\ \A f \in Files : manifest[v][f] = None
    BY DEF OrderlyInv, LineInv
  <2>2. \A v \in Versions : v \in Nat
    BY Bounds
  <2>3. 1 .. t - 1 \subseteq released
    <3>1. CASE t = created
      BY <2>1, <3>1
    <3>2. CASE t = created + 1 /\ (created = 0 \/ ~Pending)
      <4>1. created = 0 \/ created \in released
        BY <3>2 DEF Pending
      <4>2. \A v \in 1 .. t - 1 : v \in 1 .. created - 1 \/ (v = created /\ created # 0)
        BY <1>3, <3>2
      <4> QED
        BY <2>1, <4>1, <4>2
    <3> QED
      BY <1>5, <3>1, <3>2
  <2>4. released \subseteq 1 .. t /\ created <= t
    BY <1>3, <1>5, <2>1
  <2>5. \A v \in released : Finished(v)'
    BY <1>4, <1>6, <2>1, TypeOKInParts DEF Finished, TypeInv, KbTyped
  <2>6. \A v \in Versions : Finished(v)' => v <= t
    BY <1>3, <1>4, <2>1, <2>2, <2>4 DEF Finished
  <2>7. \A v \in Versions : v > t => faq[v] = {} /\ \A f \in Files : manifest[v][f] = None
    BY <1>3, <2>1, <2>2, <2>4
  <2> QED
    BY <1>1, <1>4, <2>1, <2>3, <2>4, <2>5, <2>6, <2>7 DEF LineInv
<1>8. BuildInv'
  <2>1. job'.force => t = 1
    <3>1. mode = "full" => BaseOf(mode) = 0
      BY DEF BaseOf
    <3>2. mode = "full" => t = 1
      BY <1>1, <1>3, <3>1
    <3> QED
      BY <1>2, <3>2
  <2> QED
    BY <1>1, <1>2, <1>4, <1>6, <2>1 DEF BuildInv, Finished
<1>9. WindowInv' /\ RowInv' /\ SettledInv'
  <2>1. vectors \in Vectors
    BY TypeOKInParts DEF TypeInv, DataTyped
  <2>2. \A c \in Chunk : c.seq \in Nat /\ vectors[c] \in Int
    BY <2>1, ChunkFields, Bounds DEF Vectors, Absent
  <2> QED
    BY <1>1, <1>3, <1>4, <1>5, <1>6, <2>2 DEF OrderlyInv, WindowInv, RowInv, SettledInv
<1>10. ExactInv'
  BY <1>4 DEF OrderlyInv, ExactInv, Exact, Finished
<1>11. PendingInv' /\ (mode = "full" => \A f \in Files : manifest[t][f] = None)
  <2>1. CASE t = created /\ Pending /\ mode # "full"
    BY <1>1, <1>4, <2>1 DEF OrderlyInv, PendingInv, OfTarget, OfBase, HasBase, Out
  <2>2. CASE t = created + 1 /\ (created = 0 \/ ~Pending)
    <3>1. faq[t] = {} /\ \A f \in Files : manifest[t][f] = None
      BY <1>1, <1>3, <2>2 DEF OrderlyInv, LineInv
    <3>2. \A c \in Chunk : vectors[c] # Absent =>
            c.seq <= created /\ (vectors[c] = Open \/ vectors[c] <= created) /\ vectors[c] \in Int
      BY TypeOKInParts, Bounds DEF OrderlyInv, WindowInv, TypeInv, DataTyped, Vectors, Absent
    <3>3. \A c \in Chunk : ~OfTarget(c)'
      BY <1>1, <1>4, <3>1, ChunkFields DEF OfTarget
    <3>4. \A c \in Chunk : c.seq \in Nat /\ c.seq >= 1
      BY ChunkFields, Bounds
    <3>5. \A c \in Chunk : c.seq = t => vectors[c] = Absent
      BY <1>3, <2>2, <3>2, <3>4
    <3>6. ASSUME NEW c \in Chunk
          PROVE  /\ Shows(created, c) <=> OfBase(c)'
                 /\ OfBase(c)' => /\ index[c] # None /\ index[c].from < t /\ index[c].to = Open
                                  /\ vectors[c] # t
      <4>1. CASE created = 0
        BY <1>1, <1>3, <2>2, <3>4, <4>1 DEF Shows, InWindow, OfBase, HasBase
      <4>2. CASE created # 0
        <5>1. OfBase(c)' <=> OfTarget(c)
          BY <1>1, <1>3, <1>4, <2>2, <4>2, ChunkFields DEF OfBase, HasBase, OfTarget
        <5>2. /\ Shows(created, c) <=> OfTarget(c)
              /\ OfTarget(c) => index[c] # None /\ index[c].from <= created /\ index[c].to = Open
          BY <2>2, <4>2 DEF OrderlyInv, SettledInv
        <5>3. index[c] # None => index[c].from \in Nat
          <6>1. index[c] # None => index[c] \in Window
            BY TypeOKInParts DEF TypeInv, DataTyped, Indexes
          <6> QED
            BY <6>1, Bounds DEF Window
        <5>4. Shows(created, c) => vectors[c] # t
          BY <1>3, <2>2, <3>2 DEF Shows, Open
        <5> QED
          BY <1>3, <2>2, <5>1, <5>2, <5>3, <5>4
      <4> QED
        BY <4>1, <4>2
    <3>7. created' - 1 = created
      BY <1>1, <1>3, <2>2
    <3> QED
      BY <1>1, <1>4, <3>1, <3>3, <3>5, <3>6, <3>7 DEF PendingInv
  <2> QED
    BY <1>5, <2>1, <2>2
<1>12. WalkInv' /\ FileInv' /\ GoneInv'
  BY <1>1, <1>2, <1>4, <1>11, IdleIsTyped DEF WalkInv, FileInv, GoneInv, Walked, Writing
<1> QED
  BY <1>7, <1>8, <1>9, <1>10, <1>11, <1>12 DEF OrderlyInv

-----------------------------------------------------------------------------
(* What people and operators do between builds.                            *)

LEMMA EditStep ==
    ASSUME TypeInv, OrderlyInv, Quiet, UNCHANGED <<kb, data, pc, job, built>>
    PROVE  OrderlyInv'
<1>1. /\ pc = "idle" /\ pc' = "idle" /\ ~Pending
      /\ UNCHANGED <<created, active, released, vectors, index, manifest, faq, Pending>>
  BY DEF Quiet, Settled, Pending, kb, data
<1>2. LineInv' /\ WindowInv' /\ RowInv' /\ ExactInv'
  BY <1>1 DEF OrderlyInv, LineInv, WindowInv, RowInv, ExactInv, Exact, Shows, Finished
<1>3. SettledInv' /\ PendingInv'
  BY <1>1 DEF OrderlyInv, SettledInv, PendingInv, Shows, OfTarget
<1>4. BuildInv' /\ FileInv' /\ GoneInv' /\ WalkInv'
  BY <1>1 DEF OrderlyInv, BuildInv, FileInv, GoneInv, WalkInv, Walked, Writing
<1> QED
  BY <1>2, <1>3, <1>4 DEF OrderlyInv

LEMMA RollbackStep ==
    ASSUME TypeInv, OrderlyInv, NEW v \in Versions, Rollback(v) PROVE OrderlyInv'
<1>1. /\ pc = "idle" /\ v \in released /\ active' = v
      /\ UNCHANGED <<source, created, released, data, pc, job, built>>
  BY DEF Rollback
<1>2. UNCHANGED <<disk, csv, created, released, vectors, index, manifest, faq, Pending>>
  BY <1>1 DEF source, data, Pending
<1>3. LineInv' /\ WindowInv' /\ RowInv' /\ ExactInv'
  BY <1>1, <1>2 DEF OrderlyInv, LineInv, WindowInv, RowInv, ExactInv, Exact, Shows, Finished
<1>4. SettledInv' /\ PendingInv'
  BY <1>2 DEF OrderlyInv, SettledInv, PendingInv, Shows, OfTarget, OfBase, HasBase, Out
<1>5. BuildInv' /\ FileInv' /\ GoneInv' /\ WalkInv'
  BY <1>1, <1>2 DEF OrderlyInv, BuildInv, FileInv, GoneInv, WalkInv, Walked, Writing
<1> QED
  BY <1>3, <1>4, <1>5 DEF OrderlyInv

LEMMA CleanupStep ==
    ASSUME TypeInv, OrderlyInv, NEW f \in Files, Cleanup(f), active = created PROVE OrderlyInv'
<1>1. /\ pc = "idle" /\ Forgotten(f) # {}
      /\ vectors' = [c \in Chunk |-> IF c \in Forgotten(f) THEN Absent ELSE vectors[c]]
      /\ manifest' = [manifest EXCEPT ![active][f] = None]
      /\ built' = [v \in Versions |->
                     IF Finished(v) /\ Forgotten(f) \cap View(v) # {}
                     THEN [built[v] EXCEPT !.files[f] = None] ELSE built[v]]
      /\ UNCHANGED <<source, kb, index, faq, pc, job>>
  BY DEF Cleanup
<1>2. /\ created \in Versions /\ created \in Nat /\ ~Pending /\ manifest \in Manifests
      /\ manifest[created][f] # None /\ Forgotten(f) = manifest[created][f].chunks
      /\ built \in Pictures /\ created \in released
  <2>1. active # 0 /\ manifest[active][f] # None /\ Forgotten(f) = manifest[active][f].chunks
    BY <1>1 DEF Forgotten
  <2>2. created \in released
    BY <2>1 DEF OrderlyInv, LineInv
  <2> QED
    BY <2>1, <2>2, Bounds, TypeOKInParts DEF TypeInv, KbTyped, DataTyped, RestTyped, Pending
<1>3. PICK c \in Chunk : /\ c.file = f /\ \A d : d \in Forgotten(f) <=> d = c
                         /\ OfTarget(c)
  BY <1>2, TheChunk DEF OrderlyInv
<1>4. /\ UNCHANGED <<disk, csv, created, active, released, index, faq, pc, job, Pending>>
      /\ vectors'[c] = Absent /\ \A d \in Chunk : d # c => vectors'[d] = vectors[d]
      /\ manifest'[created][f] = None
      /\ \A g \in Files : g # f => manifest'[created][g] = manifest[created][g]
      /\ \A v \in Versions : v # created => manifest'[v] = manifest[v]
  BY <1>1, <1>2, <1>3 DEF source, kb, Pending, Manifests
<1>5. \A v : \A d \in Chunk : Shows(v, d)' <=> Shows(v, d) /\ d # c
  BY <1>4 DEF Shows
<1>6. \A d \in Chunk : OfTarget(d)' <=> OfTarget(d) /\ d # c
  <2> SUFFICES ASSUME NEW d \in Chunk PROVE OfTarget(d)' <=> OfTarget(d) /\ d # c
    OBVIOUS
  <2>1. CASE d.file = f
    <3>1. OfTarget(d) => d = c
      BY <1>2, <1>3, <2>1, OneOfBase DEF OrderlyInv
    <3> QED
      BY <1>4, <2>1, <3>1 DEF OfTarget
  <2>2. CASE d.file # f
    BY <1>3, <1>4, <2>2, ChunkFields DEF OfTarget
  <2> QED
    BY <2>1, <2>2
<1>7. ASSUME NEW v \in Versions
      PROVE  /\ Finished(v)' <=> Finished(v)
             /\ Finished(v) /\ Shows(v, c) =>
                  /\ built'[v].files[f] = None /\ built'[v].faq = built[v].faq
                  /\ \A g \in Files : g # f => built'[v].files[g] = built[v].files[g]
             /\ ~(Finished(v) /\ Shows(v, c)) => built'[v] = built[v]
  <2>1. Forgotten(f) \cap View(v) # {} <=> Shows(v, c)
    BY <1>3, InView
  <2>2. built'[v] = IF Finished(v) /\ Shows(v, c) THEN [built[v] EXCEPT !.files[f] = None]
                                                  ELSE built[v]
    BY <1>1, <2>1
  <2>3. CASE Finished(v) /\ Shows(v, c)
    <3>1. built[v] \in Picture
      BY <1>2, <2>3 DEF Pictures, Finished
    <3>2. /\ built'[v] = [built[v] EXCEPT !.files = [built[v].files EXCEPT ![f] = None]]
          /\ [built[v].files EXCEPT ![f] = None] \in Disks
          /\ built[v].files \in Disks
      BY <2>2, <2>3, <3>1 DEF Picture, Disks
    <3>3. built'[v] \in Picture
      BY <3>1, <3>2 DEF Picture, Disks
    <3>4. /\ built'[v].files = [built[v].files EXCEPT ![f] = None]
          /\ built'[v].faq = built[v].faq
      BY <3>1, <3>2 DEF Picture
    <3> QED
      BY <2>3, <3>2, <3>3, <3>4, Bounds DEF Finished, Disks
  <2>4. CASE ~(Finished(v) /\ Shows(v, c))
    BY <2>2, <2>4 DEF Finished
  <2> QED
    BY <2>3, <2>4
<1>8. LineInv'
  BY <1>2, <1>4, <1>7, TypeOKInParts DEF OrderlyInv, LineInv, TypeInv, KbTyped
<1>9. WindowInv'
  BY <1>4 DEF OrderlyInv, WindowInv
<1>10. RowInv'
  BY <1>2, <1>4 DEF OrderlyInv, RowInv
<1>11. SettledInv'
  BY <1>2, <1>4, <1>5, <1>6 DEF OrderlyInv, SettledInv
<1>12. PendingInv' /\ BuildInv' /\ FileInv' /\ GoneInv'
  BY <1>1, <1>2, <1>4 DEF PendingInv, BuildInv, FileInv, GoneInv, Writing
<1>13. WalkInv'
  BY <1>1, <1>4 DEF OrderlyInv, WalkInv, Walked, Writing
<1>14. ExactInv'
  <2> SUFFICES ASSUME NEW v \in Versions, Finished(v) PROVE Exact(v)'
    BY <1>7 DEF ExactInv
  <2>1. Exact(v)
    BY DEF OrderlyInv, ExactInv
  <2>2. CASE ~Shows(v, c)
    <3>1. \A d \in Chunk : Shows(v, d)' <=> Shows(v, d)
      BY <1>5, <2>2
    <3> QED
      BY <1>4, <1>7, <2>1, <2>2, <3>1 DEF Exact
  <2>3. CASE Shows(v, c)
    <3>1. \A d \in Chunk : Shows(v, d) /\ d.file = f => d = c
      BY <1>3, <2>1, <2>3 DEF Exact
    <3>2. \A d \in Chunk : Shows(v, d)' => built'[v].files[d.file] = d.content
      BY <1>5, <1>7, <2>1, <2>3, <3>1, ChunkFields DEF Exact
    <3>3. ASSUME NEW g \in Files, built'[v].files[g] \in Contents \ {Empty}
          PROVE  \E d \in Chunk : d.file = g /\ Shows(v, d)'
      <4>1. g # f /\ built[v].files[g] \in Contents \ {Empty}
        BY <1>7, <2>3, <3>3, Bounds
      <4>2. PICK d \in Chunk : d.file = g /\ Shows(v, d)
        BY <2>1, <4>1 DEF Exact
      <4> QED
        BY <1>3, <1>5, <4>1, <4>2
    <3> QED
      BY <1>4, <1>5, <1>7, <2>1, <2>3, <3>2, <3>3 DEF Exact
  <2> QED
    BY <2>2, <2>3
<1> QED
  BY <1>8, <1>9, <1>10, <1>11, <1>12, <1>13, <1>14 DEF OrderlyInv

-----------------------------------------------------------------------------
(* The invariant holds as long as the operators are orderly.               *)

LEMMA OrderlyInit == Init => OrderlyInv
<1> SUFFICES ASSUME Init PROVE OrderlyInv
  OBVIOUS
<1>1. /\ created = 0 /\ active = 0 /\ released = {} /\ pc = "idle" /\ job = Idle
      /\ vectors = [c \in Chunk |-> Absent]
      /\ manifest = [v \in Versions |-> [f \in Files |-> None]]
      /\ faq = [v \in Versions |-> {}]
      /\ built = [v \in Versions |-> None]
  BY DEF Init
<1>2. LineInv
  BY <1>1, Bounds DEF LineInv, Finished
<1>3. WindowInv /\ RowInv /\ SettledInv /\ PendingInv /\ ExactInv
  BY <1>1 DEF WindowInv, RowInv, SettledInv, PendingInv, Pending, ExactInv, Finished
<1>4. BuildInv /\ FileInv /\ GoneInv /\ WalkInv
  BY <1>1, IdleIsTyped DEF BuildInv, FileInv, GoneInv, WalkInv, Walked, Writing
<1> QED
  BY <1>2, <1>3, <1>4 DEF OrderlyInv

LEMMA OrderlyStep ==
    TypeInv /\ (orderly => OrderlyInv) /\ [Next]_vars => (orderly' => OrderlyInv')
<1> SUFFICES ASSUME TypeInv, orderly => OrderlyInv, [Next]_vars, orderly'
             PROVE  OrderlyInv'
  OBVIOUS
<1>1. CASE UNCHANGED vars
  <2>1. UNCHANGED <<source, kb, data, pc, job, built, orderly>>
    BY <1>1 DEF vars
  <2>2. BuildInv' /\ WalkInv' /\ FileInv' /\ GoneInv'
    BY <2>1 DEF OrderlyInv, BuildInv, WalkInv, FileInv, GoneInv, source, kb, data, Pending,
         Finished, Out, OfBase, HasBase, NewChunk
  <2> QED
    BY <2>1, <2>2, Kept DEF OrderlyInv
<1>2. CASE (\E f \in Files : Edit(f)) \/ EditFaq
  <2>1. orderly /\ Quiet /\ UNCHANGED <<kb, data, pc, job, built>>
    BY <1>2 DEF Edit, EditFaq
  <2> QED
    BY <2>1, EditStep
<1>3. ASSUME NEW v \in Versions, Rollback(v) PROVE OrderlyInv'
  BY <1>3, RollbackStep DEF Rollback
<1>4. ASSUME NEW mode \in Modes, Begin(mode) PROVE OrderlyInv'
  BY <1>4, BeginStep DEF Begin
<1>5. CASE FaqDelete \/ FaqAdd
  BY <1>5, FaqStep DEF FaqDelete, FaqAdd
<1>6. CASE ListFiles \/ FindMissing
  BY <1>6, ListFilesStep, FindMissingStep DEF ListFiles, FindMissing
<1>7. ASSUME NEW f \in Files, SkipFile(f) \/ ReferenceFile(f) \/ ChangeFile(f) PROVE OrderlyInv'
  BY <1>7, SkipFileStep, ReferenceFileStep, ChangeFileStep DEF SkipFile, ReferenceFile, ChangeFile
<1>8. ASSUME NEW f \in Files, ExpireMissing(f) PROVE OrderlyInv'
  BY <1>8, ExpireMissingStep DEF ExpireMissing
<1>9. CASE FileVanished \/ GateFails \/ Crash
  <2>1. pc' = "idle" /\ job' = Idle /\ UNCHANGED <<source, kb, data, built, orderly>>
    BY <1>9 DEF FileVanished, GateFails, Crash
  <2> QED
    BY <2>1, EndedStep
<1>10. CASE ExpireVectors \/ ExpireIndex
  BY <1>10, ExpireVectorsStep, ExpireIndexStep DEF ExpireVectors, ExpireIndex
<1>11. CASE DeleteOld
  BY <1>11, DeleteOldStep DEF DeleteOld
<1>12. CASE AddVectors \/ UpsertChunks \/ RecordManifest
  BY <1>12, AddVectorsStep, UpsertChunksStep, RecordManifestStep
     DEF AddVectors, UpsertChunks, RecordManifest
<1>13. CASE FinishIngest \/ Release
  BY <1>13, FinishIngestStep, ReleaseStep DEF FinishIngest, Release
<1>14. ASSUME NEW f \in Files, Cleanup(f) PROVE OrderlyInv'
  BY <1>14, CleanupStep DEF Cleanup
<1> QED
  BY <1>1, <1>2, <1>3, <1>4, <1>5, <1>6, <1>7, <1>8, <1>9, <1>10, <1>11, <1>12, <1>13, <1>14
     DEF Next, Build

-----------------------------------------------------------------------------
(* The theorems.                                                           *)

\* Every variable keeps to its type, and each place of a build has the locals
\* it needs.
THEOREM TypeCorrect == Spec => []TypeOK
<1>1. TypeInv => TypeOK
  BY DEF TypeInv
<1> QED
  BY <1>1, TypeInvAlways, PTL

LEMMA OrderlyAlways == Spec => [](TypeInv /\ (orderly => OrderlyInv))
<1>1. Init => TypeInv /\ (orderly => OrderlyInv)
  BY TypeInvInit, OrderlyInit
<1>2. TypeInv /\ (orderly => OrderlyInv) /\ [Next]_vars => (TypeInv /\ (orderly => OrderlyInv))'
  BY TypeInvStep, OrderlyStep
<1> QED
  BY <1>1, <1>2, PTL DEF Spec

\* Every finished version shows each file and question once, as the build saw
\* them, however many builds, crashes, reruns, rollbacks and cleanups follow:
\* _reference_base_version, expire_documents_for_version and
\* delete_ids_for_kb_version move the windows so that the chain adds up.
THEOREM ViewsStayExact == Spec => []ViewsAreExact
<1>1. TypeInv /\ (orderly => OrderlyInv) => ViewsAreExact
  <2> SUFFICES ASSUME TypeInv, OrderlyInv, NEW v \in Versions, Finished(v)
               PROVE  /\ View(v) = {c \in Chunk : c \in View(v) /\ built[v].files[c.file] = c.content}
                      /\ \A f \in Files : built[v].files[f] \in Contents \ {Empty} =>
                             Cardinality({c \in View(v) : c.file = f}) = 1
                      /\ faq[v] = built[v].faq
    BY DEF ViewsAreExact
  <2>1. Exact(v)
    BY DEF OrderlyInv, ExactInv
  <2>2. \A c : c \in View(v) <=> c \in Chunk /\ Shows(v, c)
    BY InView
  <2>3. View(v) = {c \in Chunk : c \in View(v) /\ built[v].files[c.file] = c.content}
    BY <2>1, <2>2 DEF Exact
  <2>4. ASSUME NEW f \in Files, built[v].files[f] \in Contents \ {Empty}
        PROVE  Cardinality({c \in View(v) : c.file = f}) = 1
    <3>1. PICK c \in Chunk : c.file = f /\ Shows(v, c)
      BY <2>1, <2>4 DEF Exact
    <3>2. {d \in View(v) : d.file = f} = {c}
      BY <2>1, <2>2, <3>1 DEF Exact
    <3> QED
      BY <3>2, FS_Singleton
  <2> QED
    BY <2>1, <2>3, <2>4 DEF Exact
<1> QED
  BY <1>1, OrderlyAlways, PTL

\* What the released newest version shows is in kb_chunk_versions as well, and
\* valid there: upsert_chunks and expire_chunks keep up with Milvus.
THEOREM NewestViewStaysIndexed == Spec => []NewestViewIsIndexed
<1>1. TypeInv /\ (orderly => OrderlyInv) => NewestViewIsIndexed
  <2> SUFFICES ASSUME TypeInv, OrderlyInv, created \in released, NEW c \in View(created)
               PROVE  c \in IndexView(created)
    BY DEF NewestViewIsIndexed
  <2>1. created \in Versions /\ created # 0 /\ ~Pending
    BY Bounds, TypeOKInParts DEF TypeInv, KbTyped, Pending
  <2>2. c \in Chunk /\ Shows(created, c)
    BY InView
  <2>3. index[c] # None /\ index[c].from <= created /\ index[c].to = Open
    BY <2>1, <2>2 DEF OrderlyInv, SettledInv
  <2> QED
    BY <2>2, <2>3 DEF IndexView, InWindow
<1> QED
  BY <1>1, OrderlyAlways, PTL

\* A build takes nothing from what an older version shows, whatever operators
\* do, and along the line it changes nothing there: the delete is confined to
\* the target's own chunks, an expiry starts at the target.
THEOREM OlderViewsAreKept == Spec => BuildKeepsOlderViews
<1> DEFINE Keeps == pc # "idle" => \A v \in Versions : v < job.target =>
                      /\ View(v) \subseteq View(v)'
                      /\ orderly => View(v)' = View(v)
<1>1. TypeInv /\ (orderly => OrderlyInv) /\ [Next]_vars => [Keeps]_vars
  <2> SUFFICES ASSUME TypeInv, orderly => OrderlyInv, Next, pc # "idle",
                      NEW v \in Versions, v < job.target
               PROVE  View(v) \subseteq View(v)' /\ (orderly => View(v)' = View(v))
    OBVIOUS
  <2>1. \A c : (c \in View(v) <=> c \in Chunk /\ Shows(v, c))
             /\ (c \in View(v)' <=> c \in Chunk /\ Shows(v, c)')
    BY DEF View, Shows
  <2>2. /\ v \in Nat /\ v >= 1 /\ job.target \in Nat /\ job \in Job /\ vectors \in Vectors
        /\ job.target # Absent /\ job.target # Open
    <3>1. job \in Job /\ vectors \in Vectors
      BY TypeOKInParts DEF TypeInv, RestTyped, DataTyped
    <3> QED
      BY <3>1, Bounds, JobFields DEF Absent, Open
  <2>3. ASSUME ExpireVectors
        PROVE  /\ \A c \in Chunk : Shows(v, c) => Shows(v, c)'
               /\ orderly => \A c \in Chunk : Shows(v, c)' => Shows(v, c)
    <3>1. /\ pc = "expire"
          /\ vectors' = [c \in Chunk |-> IF c \in Expiring THEN job.target ELSE vectors[c]]
      BY <2>3 DEF ExpireVectors
    <3>2. ASSUME NEW c \in Chunk, Shows(v, c) PROVE Shows(v, c)'
      BY <2>2, <3>1, <3>2 DEF Shows, InWindow
    <3>3. ASSUME orderly, NEW c \in Chunk, Shows(v, c)' PROVE Shows(v, c)
      <4>1. job.target = created
        BY <3>3 DEF OrderlyInv, BuildInv
      <4>2. c \in Expiring => c.seq < created /\ vectors[c] # Absent
                              /\ (vectors[c] = Open \/ vectors[c] = created)
        BY <3>1, <3>3, TheExpiring
      <4> QED
        BY <2>2, <3>1, <3>3, <4>1, <4>2 DEF Shows, InWindow
    <3> QED
      BY <3>2, <3>3
  <2>4. ASSUME DeleteOld
        PROVE  \A c \in Chunk : Shows(v, c)' <=> Shows(v, c)
    <3> SUFFICES ASSUME NEW c \in Chunk PROVE Shows(v, c)' <=> Shows(v, c)
      OBVIOUS
    <3>1. vectors'[c] # vectors[c] => c.seq = job.target
      BY <2>4 DEF DeleteOld
    <3>2. Shows(v, c) => c.seq # job.target
      BY <2>2 DEF Shows, InWindow
    <3>3. vectors'[c] = Absent \/ vectors'[c] = vectors[c]
      BY <2>4 DEF DeleteOld
    <3> QED
      BY <3>1, <3>2, <3>3 DEF Shows
  <2>5. ASSUME AddVectors
        PROVE  \A c \in Chunk : Shows(v, c)' <=> Shows(v, c)
    <3> SUFFICES ASSUME NEW c \in Chunk PROVE Shows(v, c)' <=> Shows(v, c)
      OBVIOUS
    <3>1. NewChunk \in Chunk /\ NewChunk.seq = job.target
      BY <2>5, NewChunkIsTyped DEF AddVectors, Writing
    <3>2. vectors'[c] # vectors[c] => c = NewChunk
      BY <2>2, <2>5, <3>1 DEF AddVectors, Vectors
    <3>3. c.seq = job.target => ~Shows(v, c) /\ ~Shows(v, c)'
      BY <2>2 DEF Shows, InWindow
    <3> QED
      BY <3>1, <3>2, <3>3 DEF Shows
  <2>6. ASSUME UNCHANGED vectors
        PROVE  \A c \in Chunk : Shows(v, c)' <=> Shows(v, c)
    BY <2>6 DEF Shows
  <2>7. ExpireVectors \/ DeleteOld \/ AddVectors \/ UNCHANGED vectors
    BY DEF Next, Build, Begin, FaqDelete, FaqAdd, ListFiles, SkipFile, ReferenceFile, ChangeFile,
         ExpireMissing, FileVanished, ExpireIndex, UpsertChunks, RecordManifest, FindMissing,
         FinishIngest, Release, GateFails, Crash, EditFaq, Edit, Cleanup, Rollback, data
  <2> QED
    BY <2>1, <2>3, <2>4, <2>5, <2>6, <2>7
<1> QED
  BY <1>1, OrderlyAlways, PTL DEF Spec, BuildKeepsOlderViews
=============================================================================
