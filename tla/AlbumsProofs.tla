---------------------------- MODULE AlbumsProofs ----------------------------
(***************************************************************************)
(* The safety of uploads and listings, for any number of worker processes, *)
(* users, uploads and faults.                                              *)
(* Behind it, in the same way, that of a page of static files that is      *)
(* written and fetched, for any number of texts and seconds.               *)
(*                                                                         *)
(* An album belongs to one process for as long as that is at work on it,   *)
(* so what the process has done so far follows from where it is, and what  *)
(* it has left behind when it answered stays as it is.                     *)
(***************************************************************************)
EXTENDS Albums, StaticFiles, TLAPS

-----------------------------------------------------------------------------
(* The inductive invariant *)

Active(p) == pc[p] # "idle"

\* TypeOK without the listing, and the places of the walk that are not its end.
WorkType ==
  /\ uploads \in 0..MaxUploads
  /\ faults \in 0..MaxFaults
  /\ pc \in [Process -> Stages]
  /\ upload \in [Process -> 0..MaxUploads]
  /\ at \in [Process -> 1..9]
  /\ error \in [Process -> Errors]
  /\ owner \in [Upload -> User]
  /\ \A p \in Process : pc[p] = "mkdir" => at[p] # 9

DiskType ==
  /\ tmp \subseteq Upload
  /\ dirs \subseteq Dir
  /\ begun \in [Upload -> SUBSET Parts]
  /\ made \in [Upload -> SUBSET Parts]

HistoryType ==
  /\ code \in [Upload -> {0, 303, 400, 500, 507}]
  /\ bad \subseteq Upload
  /\ hurt \subseteq Upload
  /\ unclean \subseteq Upload \X (Parts \cup {"tmp"})
  /\ prepared \subseteq Upload

\* An upload is the work of one process, and has no answer while it is.
OneOwner ==
  \A p \in Process :
    Active(p) =>
      /\ upload[p] \in 1..uploads
      /\ code[upload[p]] = 0
      /\ \A q \in Process : Active(q) /\ upload[q] = upload[p] => q = p

\* Of an upload that has not come there is nothing.
NothingEarly ==
  \A n \in Upload :
    n > uploads => /\ code[n] = 0
                   /\ begun[n] = {} /\ Left(n) = {}
                   /\ n \notin tmp

MadeIsBegun == \A n \in Upload : made[n] \subseteq begun[n]

\* What the album of a process at a stage has, and what the cleaning has to
\* account for.
StageDone(stage, e, n) ==
  /\ stage \in {"save", "check", "mkdir", "srcs"} => begun[n] = {}
  /\ stage = "save" => Left(n) = {}
  /\ stage = "thmbs" => "srcs" \in made[n]
  /\ stage = "page" => {"srcs", "thmbs"} \subseteq made[n]
  /\ stage \in {"save", "check", "mkdir"} \cup Parts => e = "none"
  /\ stage \in {"clean srcs", "clean thmbs"} => e # "none"
  /\ stage = "clean thmbs" => ("srcs" \in Left(n) => <<n, "srcs">> \in unclean)
  /\ stage = "unlink" =>
       IF e = "none" THEN made[n] = Parts
       ELSE \A part \in Left(n) : <<n, part>> \in unclean

StagesDone == \A p \in Process : Active(p) => StageDone(pc[p], error[p], upload[p])

\* An upload that found the directories of its user made, and met no failing
\* call: its own directories are made in their turn, and nobody else makes
\* or removes them.
Unharmed(n) == n \in prepared /\ n \notin hurt

Walked(p) ==
  LET n == upload[p]
      srcs == DirOf("srcs", n)
      thmbs == DirOf("thmbs", n)
  IN  /\ pc[p] = "save" => at[p] = 1
      /\ pc[p] = "mkdir" => Path(p)[at[p]] \notin dirs
      /\ pc[p] \in {"check", "mkdir"} /\ at[p] > 4 => srcs \in dirs
      /\ pc[p] \in {"check", "mkdir"} /\ at[p] > 8 => thmbs \in dirs
      /\ pc[p] \in Parts => srcs \in dirs /\ thmbs \in dirs

UnharmedWalks ==
  /\ \A n \in prepared : Shared(owner[n]) \subseteq dirs
  /\ \A p \in Process : Active(p) /\ Unharmed(upload[p]) => Walked(p)

ErrorsHaveCauses ==
  \A p \in Process :
    Active(p) /\ error[p] # "none" => upload[p] \in bad \/ ~Unharmed(upload[p])

WorkInv ==
  /\ WorkType /\ DiskType /\ HistoryType
  /\ OneOwner /\ NothingEarly /\ MadeIsBegun
  /\ StagesDone
  /\ UnharmedWalks /\ ErrorsHaveCauses
  /\ CreatedIsWhole /\ FailureLeavesNothing /\ FailuresHaveCauses

\* A listing has a code only when it is done; it reads what was there when
\* it opened the directory, and the albums that were answered before are.
ListingInv ==
  /\ listing \in Listing
  /\ listing.pc # "done" => listing.code = 0
  /\ listing.titles = listing.seen
  /\ \A n \in listing.due : code[n] = 303
  /\ listing.pc = "read" =>
       {n \in listing.due : owner[n] = listing.user} \subseteq listing.entries
  /\ ListingHonest

AlbumsInv == WorkInv /\ ListingInv

-----------------------------------------------------------------------------
(* The initial state *)

LEMMA InitWorkInv == Init => WorkInv
<1> SUFFICES ASSUME Init PROVE WorkInv
  OBVIOUS
<1>1. WorkType /\ DiskType /\ HistoryType
  BY AlbumsAssumption DEF Init, WorkType, DiskType, HistoryType, Stages, Errors, Upload
<1>2. OneOwner /\ StagesDone /\ UnharmedWalks /\ ErrorsHaveCauses
  BY DEF Init, OneOwner, StagesDone, UnharmedWalks, ErrorsHaveCauses, Active
<1>3. NothingEarly /\ MadeIsBegun
  BY DEF Init, NothingEarly, MadeIsBegun, Left
<1>4. CreatedIsWhole /\ FailureLeavesNothing /\ FailuresHaveCauses
  BY DEF Init, CreatedIsWhole, FailureLeavesNothing, FailuresHaveCauses
<1> QED
  BY <1>1, <1>2, <1>3, <1>4 DEF WorkInv

LEMMA InitListingInv == Init => ListingInv
<1> SUFFICES ASSUME Init PROVE ListingInv
  OBVIOUS
<1>1. PICK u \in User :
        listing = [pc |-> "idle", user |-> u, entries |-> {}, seen |-> {},
                   titles |-> {}, due |-> {}, code |-> 0, hurt |-> FALSE]
  BY DEF Init
<1>2. listing \in Listing
  BY <1>1 DEF Listing
<1>3. ListingHonest
  BY <1>1 DEF ListingHonest
<1> QED
  BY <1>1, <1>2, <1>3 DEF ListingInv

-----------------------------------------------------------------------------
(* Types *)

\* The upload of an active process is one that has come.
LEMMA ActiveUpload ==
  ASSUME WorkType, OneOwner, NEW p \in Process, Active(p)
  PROVE  upload[p] \in Upload /\ upload[p] # 0 /\ upload[p] <= uploads
BY AlbumsAssumption DEF WorkType, OneOwner, Upload

LEMMA FaultTypes ==
  ASSUME WorkType, Fault
  PROVE  faults' \in 0..MaxFaults
BY AlbumsAssumption DEF WorkType, Fault

LEMMA PathFacts ==
  ASSUME WorkType, NEW p \in Process, upload[p] \in Upload
  PROVE  /\ Len(Path(p)) = 8
         /\ \A i \in 1..8 : Path(p)[i] \in Dir
BY AlbumsAssumption DEF WorkType, Path, Users, Home, Dir, Upload

LEMMA WorkTypeStep ==
  ASSUME WorkType, HistoryType, OneOwner, NEW p \in Process, ProcessStep(p), UNCHANGED owner
  PROVE  WorkType'
<1>1. pc' \in [Process -> Stages]
  BY DEF WorkType, Stages, Parts, Goto, Answer, ProcessStep, SaveTmpFile,
     SaveTmpFileFails, WriteArchive, WriteArchiveFails, CheckDir, MakeDir,
     MakeDirFails, PathsDone, MakePart, LibraryThrows, CleanSrcs, CleanThmbs,
     RemoveArchive, RemoveArchiveFails, Crash, Begin
<1>2. error' \in [Process -> Errors]
  BY DEF WorkType, Errors, ProcessStep, SaveTmpFile,
     SaveTmpFileFails, WriteArchive, WriteArchiveFails, CheckDir, MakeDir,
     MakeDirFails, PathsDone, MakePart, LibraryThrows, CleanSrcs, CleanThmbs,
     RemoveArchive, RemoveArchiveFails, Crash, Clean, CleanFails
<1>3. faults' \in 0..MaxFaults
  BY FaultTypes DEF WorkType, ProcessStep, SaveTmpFile,
     SaveTmpFileFails, WriteArchive, WriteArchiveFails, CheckDir, MakeDir,
     MakeDirFails, PathsDone, MakePart, LibraryThrows, CleanSrcs, CleanThmbs,
     RemoveArchive, RemoveArchiveFails, Crash, Clean, CleanFails
<1>4. /\ uploads' \in 0..MaxUploads
      /\ upload' \in [Process -> 0..MaxUploads]
  <2>1. CASE uploads < MaxUploads /\ uploads' = uploads + 1
             /\ upload' = [upload EXCEPT ![p] = uploads']
    <3>1. uploads' \in 0..MaxUploads
      BY <2>1, AlbumsAssumption DEF WorkType
    <3> QED
      BY <2>1, <3>1 DEF WorkType
  <2>2. CASE UNCHANGED <<uploads, upload>>
    BY <2>2 DEF WorkType
  <2> QED
    BY <2>1, <2>2 DEF ProcessStep, SaveTmpFile,
     SaveTmpFileFails, WriteArchive, WriteArchiveFails, CheckDir, MakeDir,
     MakeDirFails, PathsDone, MakePart, LibraryThrows, CleanSrcs, CleanThmbs,
     RemoveArchive, RemoveArchiveFails, Crash, Clean, CleanFails
<1>5. /\ at' \in [Process -> 1..9]
      /\ \A q \in Process : pc'[q] = "mkdir" => at'[q] # 9
  <2>1. Len(Path(p)) = 8
    BY DEF Path
  <2>2. CASE CheckDir(p)
    <3>1. at[p] \in 1..8
      BY <2>1, <2>2 DEF CheckDir, WorkType
    <3>2. at[p] + 1 \in 1..9
      BY <3>1
    <3>3. \/ at' = [at EXCEPT ![p] = at[p] + 1] /\ pc' = pc
          \/ at' = at /\ pc' = [pc EXCEPT ![p] = "mkdir"]
      BY <2>2 DEF CheckDir, Goto
    <3>4. pc[p] = "check"
      BY <2>2 DEF CheckDir
    <3>5. CASE at' = [at EXCEPT ![p] = at[p] + 1] /\ pc' = pc
      BY <3>2, <3>4, <3>5 DEF WorkType
    <3>6. CASE at' = at /\ pc' = [pc EXCEPT ![p] = "mkdir"]
      BY <3>1, <3>6 DEF WorkType
    <3> QED
      BY <3>3, <3>5, <3>6
  <2>3. CASE MakeDir(p)
    <3>1. at[p] + 1 \in 1..9
      BY <2>3 DEF MakeDir, WorkType
    <3> QED
      BY <2>3, <3>1 DEF MakeDir, Goto, WorkType
  <2>4. CASE SaveTmpFile(p)
    BY <2>4 DEF SaveTmpFile, FirstDir, Goto, WorkType
  <2>5. CASE at' = at /\ \A q \in Process : pc'[q] # pc[q] => pc'[q] # "mkdir"
    BY <2>5 DEF WorkType
  <2> QED
    BY <2>2, <2>3, <2>4, <2>5 DEF WorkType, Goto, Answer, ProcessStep,
     SaveTmpFileFails, WriteArchive, WriteArchiveFails,
     MakeDirFails, PathsDone, MakePart, LibraryThrows, CleanSrcs, CleanThmbs,
     RemoveArchive, RemoveArchiveFails, Crash, Clean, CleanFails
<1> QED
  BY <1>1, <1>2, <1>3, <1>4, <1>5 DEF WorkType

\* The number a new upload is given is one of an upload.
LEMMA NewUpload ==
  ASSUME WorkType, uploads < MaxUploads, uploads' = uploads + 1
  PROVE  uploads' \in Upload /\ uploads' > uploads
BY AlbumsAssumption DEF WorkType, Upload

\* The parts that a process can be at.
LEMMA PartOfUpload ==
  ASSUME WorkType, NEW n \in Upload, NEW part \in {"srcs", "thmbs"}
  PROVE  DirOf(part, n) \in Dir
BY AlbumsAssumption DEF WorkType, DirOf, Dir, Upload

LEMMA DiskTypeStep ==
  ASSUME WorkType, DiskType, HistoryType, OneOwner,
         NEW p \in Process, ProcessStep(p), UNCHANGED owner
  PROVE  DiskType'
<1> USE DEF Begin, Clean, CleanFails, disk
<1>1. Active(p) => upload[p] \in Upload
  BY ActiveUpload
<1>2. tmp' \subseteq Upload
  BY <1>1, NewUpload DEF DiskType, Active, ProcessStep, SaveTmpFile,
     SaveTmpFileFails, WriteArchive, WriteArchiveFails, CheckDir, MakeDir,
     MakeDirFails, PathsDone, MakePart, LibraryThrows, CleanSrcs, CleanThmbs,
     RemoveArchive, RemoveArchiveFails, Crash
<1>3. dirs' \subseteq Dir
  <2>1. CASE MakeDir(p)
    <3>1. at[p] \in 1..8
      BY <2>1 DEF MakeDir, WorkType
    <3>2. Path(p)[at[p]] \in Dir
      BY <1>1, <2>1, <3>1, PathFacts DEF MakeDir, Active
    <3> QED
      BY <2>1, <3>2 DEF MakeDir, DiskType
  <2>2. CASE dirs' \subseteq dirs
    BY <2>2 DEF DiskType
  <2> QED
    BY <2>1, <2>2 DEF ProcessStep, SaveTmpFile,
     SaveTmpFileFails, WriteArchive, WriteArchiveFails, CheckDir,
     MakeDirFails, PathsDone, MakePart, LibraryThrows, CleanSrcs, CleanThmbs,
     RemoveArchive, RemoveArchiveFails, Crash
<1>4. /\ begun' \in [Upload -> SUBSET Parts]
      /\ made' \in [Upload -> SUBSET Parts]
  <2>1. ASSUME NEW f \in [Upload -> SUBSET Parts], Active(p), NEW X \in SUBSET Parts
        PROVE  [f EXCEPT ![upload[p]] = X] \in [Upload -> SUBSET Parts]
    BY <1>1, <2>1
  <2>2. CASE pc[p] \in Parts /\ Begin(p)
    <3>1. Active(p)
      BY <2>2 DEF Active, Parts
    <3>2. /\ begun[upload[p]] \cup {pc[p]} \in SUBSET Parts
          /\ made[upload[p]] \cup {pc[p]} \in SUBSET Parts
      BY <1>1, <2>2, <3>1 DEF DiskType
    <3>3. begun' \in [Upload -> SUBSET Parts]
      BY <2>1, <2>2, <3>1, <3>2 DEF DiskType
    <3>4. made' = made \/ made' = [made EXCEPT ![upload[p]] = made[upload[p]] \cup {pc[p]}]
      BY <2>2 DEF Parts, ProcessStep, SaveTmpFile,
         SaveTmpFileFails, WriteArchive, WriteArchiveFails, CheckDir, MakeDir,
         MakeDirFails, PathsDone, MakePart, LibraryThrows, CleanSrcs, CleanThmbs,
         RemoveArchive, RemoveArchiveFails, Crash
    <3> QED
      BY <2>1, <3>1, <3>2, <3>3, <3>4 DEF DiskType
  <2>3. ASSUME NEW part, Clean(p, part) \/ CleanFails(p, part), Active(p)
        PROVE  /\ begun' \in [Upload -> SUBSET Parts]
               /\ made' \in [Upload -> SUBSET Parts]
    <3>1. /\ begun[upload[p]] \ {part} \in SUBSET Parts
          /\ made[upload[p]] \ {part} \in SUBSET Parts
      BY <1>1, <2>3 DEF DiskType
    <3> QED
      BY <2>1, <2>3, <3>1 DEF DiskType
  <2>4. CASE CleanSrcs(p) \/ CleanThmbs(p)
    BY <2>3, <2>4 DEF CleanSrcs, CleanThmbs, Active
  <2>5. CASE UNCHANGED <<begun, made>>
    BY <2>5 DEF DiskType
  <2> QED
    BY <2>2, <2>4, <2>5 DEF ProcessStep, SaveTmpFile,
       SaveTmpFileFails, WriteArchive, WriteArchiveFails, CheckDir, MakeDir,
       MakeDirFails, PathsDone, MakePart, LibraryThrows,
       RemoveArchive, RemoveArchiveFails, Crash
<1> QED
  BY <1>2, <1>3, <1>4 DEF DiskType

LEMMA CodesTyped ==
  \A e \in Errors : CodeFor(e) \in {303, 400, 500, 507}
BY DEF Errors, CodeFor

\* What LibraryThrows does, without the reasons it may have.
LEMMA ThrowFacts ==
  ASSUME NEW p \in Process, LibraryThrows(p)
  PROVE  /\ pc[p] \in Parts
         /\ \E e \in Errors \ {"none"} : error' = [error EXCEPT ![p] = e]
         /\ \/ hurt' = hurt /\ (upload[p] \in bad \/ ~DirIsThere(p))
            \/ hurt' = hurt \cup {upload[p]}
         /\ begun' = begun \/ Begin(p)
         /\ pc' = [pc EXCEPT ![p] = "clean srcs"]
         /\ UNCHANGED <<uploads, upload, at, tmp, dirs, made, code, bad, unclean,
                        prepared>>
<1>1. PICK e \in Errors \ {"none"} :
        /\ \/ upload[p] \in bad /\ e = "UserEx" /\ UNCHANGED <<faults, hurt>>
           \/ ~DirIsThere(p) /\ e \in {"UserEx", "other"} /\ UNCHANGED <<faults, hurt>>
           \/ /\ Fault
              /\ e \in {"NoSpace", "other"}
              /\ hurt' = hurt \cup {upload[p]}
        /\ error' = [error EXCEPT ![p] = e]
  BY DEF LibraryThrows
<1> QED
  BY <1>1 DEF LibraryThrows, Goto

LEMMA HistoryTypeStep ==
  ASSUME WorkType, DiskType, HistoryType, OneOwner,
         NEW p \in Process, ProcessStep(p), UNCHANGED owner
  PROVE  HistoryType'
<1> USE DEF Clean, CleanFails, Answer, history
<1>1. Active(p) => upload[p] \in Upload
  BY ActiveUpload
<1>2. /\ CodeFor(error[p]) \in {303, 400, 500, 507}
      /\ CodeFor("NoSpace") = 507 /\ CodeFor("other") = 500
  BY CodesTyped DEF WorkType, CodeFor
<1>3. CASE SaveTmpFile(p) \/ SaveTmpFileFails(p)
  <2>1. uploads' \in Upload
    BY <1>3, NewUpload DEF SaveTmpFile, SaveTmpFileFails
  <2>2. code' \in [Upload -> {0, 303, 400, 500, 507}]
    BY <1>2, <1>3, <2>1 DEF HistoryType, SaveTmpFile, SaveTmpFileFails
  <2>3. bad' \subseteq Upload /\ hurt' \subseteq Upload /\ prepared' \subseteq Upload
    BY <1>3, <2>1 DEF HistoryType, SaveTmpFile, SaveTmpFileFails
  <2> QED
    BY <1>3, <2>2, <2>3 DEF HistoryType, SaveTmpFile, SaveTmpFileFails
<1>4. CASE WriteArchiveFails(p)
  <2>1. upload[p] \in Upload
    BY <1>1, <1>4 DEF WriteArchiveFails, Active
  <2>2. hurt' \subseteq Upload
    BY <1>4, <2>1 DEF HistoryType, WriteArchiveFails
  <2>3. code' \in [Upload -> {0, 303, 400, 500, 507}]
    BY <1>2, <1>4, <2>1 DEF HistoryType, WriteArchiveFails
  <2>4. unclean' \subseteq Upload \X (Parts \cup {"tmp"})
    BY <1>4, <2>1 DEF HistoryType, WriteArchiveFails
  <2> QED
    BY <1>4, <2>2, <2>3, <2>4 DEF HistoryType, WriteArchiveFails
<1>5. CASE MakeDirFails(p)
  BY <1>1, <1>5 DEF HistoryType, MakeDirFails, Active
<1>6. CASE LibraryThrows(p)
  <2>1. upload[p] \in Upload
    BY <1>1, <1>6 DEF LibraryThrows, Active, Parts
  <2>2. /\ hurt' = hurt \/ hurt' = hurt \cup {upload[p]}
        /\ UNCHANGED <<code, bad, unclean, prepared>>
    BY <1>6, ThrowFacts
  <2> QED
    BY <2>1, <2>2 DEF HistoryType
<1>7. ASSUME NEW part \in {"srcs", "thmbs"}, Clean(p, part) \/ CleanFails(p, part),
             Active(p)
      PROVE  HistoryType'
  <2>1. <<upload[p], part>> \in Upload \X (Parts \cup {"tmp"})
    BY <1>1, <1>7 DEF Parts
  <2> QED
    BY <1>7, <2>1 DEF HistoryType
<1>8. CASE CleanSrcs(p) \/ CleanThmbs(p)
  BY <1>7, <1>8 DEF CleanSrcs, CleanThmbs, Active
<1>9. CASE RemoveArchive(p)
  <2>1. upload[p] \in Upload
    BY <1>1, <1>9 DEF RemoveArchive, Active
  <2>2. code' \in [Upload -> {0, 303, 400, 500, 507}]
    BY <1>2, <1>9, <2>1 DEF HistoryType, RemoveArchive
  <2> QED
    BY <1>9, <2>2 DEF HistoryType, RemoveArchive
<1>10. CASE RemoveArchiveFails(p)
  <2>1. upload[p] \in Upload
    BY <1>1, <1>10 DEF RemoveArchiveFails, Active
  <2>2. code' \in [Upload -> {0, 303, 400, 500, 507}]
    BY <1>2, <1>10, <2>1 DEF HistoryType, RemoveArchiveFails
  <2>3. unclean' \subseteq Upload \X (Parts \cup {"tmp"})
    BY <1>10, <2>1 DEF HistoryType, RemoveArchiveFails
  <2> QED
    BY <1>10, <2>2, <2>3 DEF HistoryType, RemoveArchiveFails
<1>11. CASE UNCHANGED <<code, history>>
  BY <1>11 DEF HistoryType
<1> QED
  BY <1>3, <1>4, <1>5, <1>6, <1>8, <1>9, <1>10, <1>11 DEF ProcessStep,
     WriteArchive, CheckDir, MakeDir, PathsDone, MakePart, Crash

-----------------------------------------------------------------------------
(* What a process leaves alone: other processes, and their uploads *)

\* A process is at work on the upload it was at work on, or on a new one.
LEMMA OwnUpload ==
  ASSUME WorkType, NEW p \in Process, ProcessStep(p), UNCHANGED owner
  PROVE  /\ Active(p) => upload' = upload /\ uploads' = uploads
         /\ ~Active(p) => /\ uploads < MaxUploads
                          /\ uploads' = uploads + 1
                          /\ upload'[p] = uploads'
BY DEF WorkType, Active, Parts, ProcessStep, SaveTmpFile, SaveTmpFileFails,
   WriteArchive, WriteArchiveFails, CheckDir, MakeDir, MakeDirFails, PathsDone,
   MakePart, LibraryThrows, CleanSrcs, CleanThmbs, RemoveArchive,
   RemoveArchiveFails, Crash, Begin, Clean, CleanFails

LEMMA FrameProcesses ==
  ASSUME WorkType, NEW p \in Process, ProcessStep(p), UNCHANGED owner,
         NEW q \in Process, q # p
  PROVE  /\ pc'[q] = pc[q]
         /\ upload'[q] = upload[q]
         /\ at'[q] = at[q]
         /\ error'[q] = error[q]
<1> USE DEF WorkType
<1>1. pc'[q] = pc[q]
  BY DEF ProcessStep, SaveTmpFile, SaveTmpFileFails, WriteArchive,
     WriteArchiveFails, CheckDir, MakeDir, MakeDirFails, PathsDone, MakePart,
     LibraryThrows, CleanSrcs, CleanThmbs, RemoveArchive, RemoveArchiveFails,
     Crash, Goto, Answer
<1>2. upload'[q] = upload[q]
  BY DEF ProcessStep, SaveTmpFile, SaveTmpFileFails, WriteArchive,
     WriteArchiveFails, CheckDir, MakeDir, MakeDirFails, PathsDone, MakePart,
     LibraryThrows, CleanSrcs, CleanThmbs, RemoveArchive, RemoveArchiveFails,
     Crash, Clean, CleanFails
<1>3. at'[q] = at[q]
  BY DEF ProcessStep, SaveTmpFile, SaveTmpFileFails, WriteArchive,
     WriteArchiveFails, CheckDir, MakeDir, MakeDirFails, PathsDone, MakePart,
     LibraryThrows, CleanSrcs, CleanThmbs, RemoveArchive, RemoveArchiveFails,
     Crash, Clean, CleanFails
<1>4. error'[q] = error[q]
  BY DEF ProcessStep, SaveTmpFile, SaveTmpFileFails, WriteArchive,
     WriteArchiveFails, CheckDir, MakeDir, MakeDirFails, PathsDone, MakePart,
     LibraryThrows, CleanSrcs, CleanThmbs, RemoveArchive, RemoveArchiveFails,
     Crash, Clean, CleanFails
<1> QED
  BY <1>1, <1>2, <1>3, <1>4

LEMMA FrameAlbums ==
  ASSUME WorkType, DiskType, HistoryType, NEW p \in Process, ProcessStep(p), UNCHANGED owner,
         NEW n \in Upload, n # upload'[p]
  PROVE  /\ begun'[n] = begun[n]
         /\ made'[n] = made[n]
         /\ code'[n] = code[n]
<1> USE DEF DiskType
<1>1. /\ Active(p) => upload'[p] = upload[p]
      /\ ~Active(p) => upload'[p] = uploads'
  BY OwnUpload DEF WorkType
<1>2. begun'[n] = begun[n]
  <2>1. CASE LibraryThrows(p)
    BY <1>1, <2>1, ThrowFacts DEF Begin, Active, Parts
  <2> QED
    BY <1>1, <2>1 DEF ProcessStep, SaveTmpFile, SaveTmpFileFails, WriteArchive,
       WriteArchiveFails, CheckDir, MakeDir, MakeDirFails, PathsDone, MakePart,
       CleanSrcs, CleanThmbs, RemoveArchive, RemoveArchiveFails,
       Crash, Begin, Clean, CleanFails, disk, Active, Parts
<1>3. made'[n] = made[n]
  BY <1>1 DEF ProcessStep, SaveTmpFile, SaveTmpFileFails, WriteArchive,
     WriteArchiveFails, CheckDir, MakeDir, MakeDirFails, PathsDone, MakePart,
     LibraryThrows, CleanSrcs, CleanThmbs, RemoveArchive, RemoveArchiveFails,
     Crash, Begin, Clean, CleanFails, disk, Active, Parts
<1>4. code'[n] = code[n]
  <2>1. CASE SaveTmpFileFails(p)
    BY <1>1, <2>1 DEF SaveTmpFileFails, HistoryType, WorkType
  <2>2. CASE WriteArchiveFails(p)
    BY <1>1, <2>2 DEF WriteArchiveFails, Answer, HistoryType, Active
  <2>3. CASE RemoveArchive(p) \/ RemoveArchiveFails(p)
    BY <1>1, <2>3 DEF RemoveArchive, RemoveArchiveFails, Answer, HistoryType, Active
  <2>4. CASE UNCHANGED code
    BY <2>4
  <2> QED
    BY <2>1, <2>2, <2>3, <2>4 DEF ProcessStep, SaveTmpFile, WriteArchive,
       CheckDir, MakeDir, MakeDirFails, PathsDone, MakePart, LibraryThrows,
       CleanSrcs, CleanThmbs, Crash, Clean, CleanFails
<1> QED
  BY <1>2, <1>3, <1>4

LEMMA FrameHistory ==
  ASSUME WorkType, NEW p \in Process, ProcessStep(p), UNCHANGED owner,
         NEW n, n # upload'[p]
  PROVE  /\ n \in tmp' <=> n \in tmp
         /\ n \in hurt' <=> n \in hurt
         /\ n \in bad' <=> n \in bad
         /\ n \in prepared' <=> n \in prepared
         /\ \A x : <<n, x>> \in unclean' <=> <<n, x>> \in unclean
<1>1. /\ Active(p) => upload'[p] = upload[p]
      /\ ~Active(p) => upload'[p] = uploads'
  BY OwnUpload DEF WorkType
<1>2. n \in tmp' <=> n \in tmp
  BY <1>1 DEF ProcessStep, SaveTmpFile, SaveTmpFileFails, WriteArchive,
     WriteArchiveFails, CheckDir, MakeDir, MakeDirFails, PathsDone, MakePart,
     LibraryThrows, CleanSrcs, CleanThmbs, RemoveArchive, RemoveArchiveFails,
     Crash, Clean, CleanFails, disk, Active, Parts
<1>3. n \in hurt' <=> n \in hurt
  <2>1. CASE LibraryThrows(p)
    BY <1>1, <2>1, ThrowFacts DEF Active, Parts
  <2> QED
    BY <1>1, <2>1 DEF ProcessStep, SaveTmpFile, SaveTmpFileFails, WriteArchive,
     WriteArchiveFails, CheckDir, MakeDir, MakeDirFails, PathsDone, MakePart,
     CleanSrcs, CleanThmbs, RemoveArchive, RemoveArchiveFails,
     Crash, Clean, CleanFails, history, Active, Parts
<1>4. /\ n \in bad' <=> n \in bad
      /\ n \in prepared' <=> n \in prepared
  BY <1>1 DEF ProcessStep, SaveTmpFile, SaveTmpFileFails, WriteArchive,
     WriteArchiveFails, CheckDir, MakeDir, MakeDirFails, PathsDone, MakePart,
     LibraryThrows, CleanSrcs, CleanThmbs, RemoveArchive, RemoveArchiveFails,
     Crash, Clean, CleanFails, history, Active, Parts
<1>5. ASSUME NEW x PROVE <<n, x>> \in unclean' <=> <<n, x>> \in unclean
  BY <1>1 DEF ProcessStep, SaveTmpFile, SaveTmpFileFails, WriteArchive,
     WriteArchiveFails, CheckDir, MakeDir, MakeDirFails, PathsDone, MakePart,
     LibraryThrows, CleanSrcs, CleanThmbs, RemoveArchive, RemoveArchiveFails,
     Crash, Clean, CleanFails, history, Active, Parts
<1> QED
  BY <1>2, <1>3, <1>4, <1>5

\* A process makes and removes no directory of another upload.
LEMMA FrameDirs ==
  ASSUME WorkType, OneOwner, NEW p \in Process, ProcessStep(p), UNCHANGED owner,
         NEW n \in Upload, n # upload'[p], NEW part \in {"srcs", "thmbs"}
  PROVE  DirOf(part, n) \in dirs' <=> DirOf(part, n) \in dirs
<1>1. n # 0
  BY AlbumsAssumption DEF Upload
<1>2. Active(p) => upload[p] # n /\ upload'[p] = upload[p]
  BY OwnUpload
<1>3. CASE CleanSrcs(p) \/ CleanThmbs(p)
  <2>1. \A other \in {"srcs", "thmbs"} : DirOf(part, n) # DirOf(other, upload[p])
    BY <1>2, <1>3 DEF DirOf, CleanSrcs, CleanThmbs, Active
  <2> QED
    BY <1>3, <2>1 DEF CleanSrcs, CleanThmbs, Clean, CleanFails
<1>4. CASE MakeDir(p)
  <2>1. at[p] \in 1..8 /\ upload[p] # n
    BY <1>2, <1>4 DEF MakeDir, WorkType, Active
  <2>2. Path(p)[at[p]] # DirOf(part, n)
    BY <1>1, <2>1 DEF Path, Users, Home, DirOf
  <2> QED
    BY <1>4, <2>2 DEF MakeDir
<1>5. CASE dirs' = dirs
  BY <1>5
<1> QED
  BY <1>3, <1>4, <1>5 DEF ProcessStep, SaveTmpFile, SaveTmpFileFails,
     WriteArchive, WriteArchiveFails, CheckDir, MakeDirFails, PathsDone,
     MakePart, LibraryThrows, RemoveArchive, RemoveArchiveFails, Crash, disk

\* So what is left of another upload is what was.
LEMMA FrameLeft ==
  ASSUME WorkType, DiskType, HistoryType, OneOwner,
         NEW p \in Process, ProcessStep(p), UNCHANGED owner,
         NEW n \in Upload, n # upload'[p]
  PROVE  Left(n)' = Left(n)
<1>1. begun'[n] = begun[n]
  BY FrameAlbums
<1>2. \A part \in {"srcs", "thmbs"} : DirOf(part, n) \in dirs' <=> DirOf(part, n) \in dirs
  BY FrameDirs
<1>3. \A part \in {"srcs", "thmbs"} : DirOf(part, n)' = DirOf(part, n)
  BY DEF DirOf
<1> QED
  BY <1>1, <1>2, <1>3 DEF Left

\* The upload of another process is not the one a process works on, before
\* or after its step.
LEMMA Separate ==
  ASSUME WorkType, OneOwner, NEW p \in Process, ProcessStep(p), UNCHANGED owner,
         NEW q \in Process, q # p, Active(q)
  PROVE  /\ upload'[q] = upload[q]
         /\ upload[q] # upload'[p]
         /\ upload[q] \in Upload
         /\ upload[q] \in 1..uploads'
<1>1. upload[q] \in Upload /\ upload[q] \in 1..uploads
  BY ActiveUpload DEF OneOwner
<1>2. CASE Active(p)
  BY <1>1, <1>2, OwnUpload, FrameProcesses DEF OneOwner
<1>3. CASE ~Active(p)
  <2>1. uploads' = uploads + 1 /\ uploads \in Nat
    BY <1>3, OwnUpload, AlbumsAssumption DEF WorkType
  <2> QED
    BY <1>1, <1>3, <2>1, OwnUpload, FrameProcesses
<1> QED
  BY <1>2, <1>3

\* While a process is at work its upload has no answer.
LEMMA OwnCode ==
  ASSUME WorkType, HistoryType, OneOwner, NothingEarly,
         NEW p \in Process, ProcessStep(p), UNCHANGED owner, Active(p)'
  PROVE  /\ upload'[p] \in Upload
         /\ upload'[p] \in 1..uploads'
         /\ code'[upload'[p]] = 0
<1>1. CASE Active(p)
  <2>1. UNCHANGED <<uploads, upload>>
    BY <1>1, OwnUpload
  <2>2. code' = code
    BY <1>1 DEF WorkType, Active, ProcessStep, SaveTmpFile, SaveTmpFileFails,
       WriteArchive, WriteArchiveFails, CheckDir, MakeDir, MakeDirFails,
       PathsDone, MakePart, LibraryThrows, CleanSrcs, CleanThmbs,
       RemoveArchive, RemoveArchiveFails, Crash, Clean, CleanFails, Goto, Answer
  <2> QED
    BY <1>1, <2>1, <2>2, ActiveUpload DEF OneOwner
<1>2. CASE ~Active(p)
  <2>1. /\ uploads < MaxUploads /\ uploads' = uploads + 1
        /\ upload'[p] = uploads'
    BY <1>2, OwnUpload
  <2>2. uploads' \in Upload /\ uploads' > uploads
    BY <2>1, NewUpload
  <2>6. uploads' \in 1..uploads'
    <3>1. uploads \in Nat
      BY AlbumsAssumption DEF WorkType
    <3> QED
      BY <2>1, <3>1
  <2>3. SaveTmpFile(p)
    BY <1>2 DEF WorkType, Active, ProcessStep, SaveTmpFileFails,
       WriteArchive, WriteArchiveFails, CheckDir, MakeDir, MakeDirFails,
       PathsDone, MakePart, LibraryThrows, CleanSrcs, CleanThmbs,
       RemoveArchive, RemoveArchiveFails, Crash, Begin, Parts
  <2>4. code' = code
    BY <2>3 DEF SaveTmpFile
  <2>5. code[uploads'] = 0
    BY <2>2 DEF NothingEarly
  <2> QED
    BY <2>1, <2>2, <2>4, <2>5, <2>6
<1> QED
  BY <1>1, <1>2

LEMMA OneOwnerStep ==
  ASSUME WorkType, DiskType, HistoryType, OneOwner, NothingEarly,
         NEW p \in Process, ProcessStep(p), UNCHANGED owner
  PROVE  OneOwner'
<1> SUFFICES ASSUME NEW q \in Process, Active(q)'
             PROVE  /\ upload'[q] \in 1..uploads'
                    /\ code'[upload'[q]] = 0
                    /\ \A r \in Process :
                         Active(r)' /\ upload'[r] = upload'[q] => r = q
  BY DEF OneOwner
<1>1. \A r \in Process : r # p => (Active(r)' <=> Active(r))
  BY FrameProcesses DEF Active
<1>2. CASE q = p
  BY <1>1, <1>2, OwnCode, Separate
<1>3. CASE q # p
  <2>1. /\ upload'[q] \in 1..uploads'
        /\ upload'[q] = upload[q] /\ upload[q] # upload'[p]
        /\ code'[upload'[q]] = 0
    BY <1>1, <1>3, Separate, FrameAlbums DEF OneOwner
  <2>2. ASSUME NEW r \in Process, Active(r)', upload'[r] = upload'[q]
        PROVE  r = q
    <3>1. r # p
      BY <2>1, <2>2
    <3> QED
      BY <1>1, <1>3, <2>1, <2>2, <3>1, FrameProcesses DEF OneOwner
  <2> QED
    BY <2>1, <2>2
<1> QED
  BY <1>2, <1>3

\* The rest of what is asked of an upload is asked of the one a process
\* works on; the others are as they were.
LEMMA NothingEarlyStep ==
  ASSUME WorkType, DiskType, HistoryType, OneOwner, NothingEarly,
         NEW p \in Process, ProcessStep(p), UNCHANGED owner
  PROVE  NothingEarly'
<1> SUFFICES ASSUME NEW n \in Upload, n > uploads'
             PROVE  /\ code'[n] = 0 /\ n \notin tmp'
                    /\ begun'[n] = {} /\ Left(n)' = {}
  BY DEF NothingEarly
<1>1. n > uploads /\ n # upload'[p]
  <2>1. CASE Active(p)
    <3>1. UNCHANGED <<uploads, upload>> /\ upload[p] \in Nat /\ upload[p] <= uploads
      BY <2>1, OwnUpload, ActiveUpload, AlbumsAssumption DEF WorkType
    <3>2. uploads \in Nat /\ n \in Nat
      BY AlbumsAssumption DEF Upload, WorkType
    <3> QED
      BY <3>1, <3>2
  <2>2. CASE ~Active(p)
    <3>1. uploads' = uploads + 1 /\ upload'[p] = uploads'
      BY <2>2, OwnUpload
    <3>2. uploads \in Nat /\ n \in Nat
      BY AlbumsAssumption DEF Upload, WorkType
    <3> QED
      BY <3>1, <3>2
  <2> QED
    BY <2>1, <2>2
<1> QED
  BY <1>1, FrameAlbums, FrameHistory, FrameLeft DEF NothingEarly

LEMMA MadeIsBegunStep ==
  ASSUME WorkType, DiskType, HistoryType, OneOwner, MadeIsBegun,
         NEW p \in Process, ProcessStep(p), UNCHANGED owner
  PROVE  MadeIsBegun'
<1> SUFFICES ASSUME NEW n \in Upload PROVE made'[n] \subseteq begun'[n]
  BY DEF MadeIsBegun
<1>1. CASE n # upload'[p]
  BY <1>1, FrameAlbums DEF MadeIsBegun
<1>2. CASE n = upload'[p] /\ ~Active(p)
  <2>1. UNCHANGED <<begun, made>>
    BY <1>2 DEF Active, ProcessStep, SaveTmpFile, SaveTmpFileFails,
       WriteArchive, WriteArchiveFails, CheckDir, MakeDir, MakeDirFails,
       PathsDone, MakePart, LibraryThrows, CleanSrcs, CleanThmbs,
       RemoveArchive, RemoveArchiveFails, Crash, Begin, Parts, disk
  <2> QED
    BY <2>1 DEF MadeIsBegun
<1>3. CASE n = upload[p] /\ Active(p)
  BY <1>3, ZenonT(60) DEF MadeIsBegun, DiskType, Active, ProcessStep, SaveTmpFile,
     SaveTmpFileFails, WriteArchive, WriteArchiveFails, CheckDir, MakeDir,
     MakeDirFails, PathsDone, MakePart, LibraryThrows, CleanSrcs, CleanThmbs,
     RemoveArchive, RemoveArchiveFails, Crash, Begin, Clean, CleanFails, disk
<1> QED
  BY <1>1, <1>2, <1>3, OwnUpload

-----------------------------------------------------------------------------
(* The stages of an upload *)

LEMMA StagesDoneStep ==
  ASSUME WorkType, DiskType, HistoryType, OneOwner, NothingEarly, MadeIsBegun,
         StagesDone, NEW p \in Process, ProcessStep(p), UNCHANGED owner
  PROVE  StagesDone'
<1>1. ASSUME NEW q \in Process, q # p, Active(q)'
      PROVE  StageDone(pc[q], error[q], upload[q])'
  <2>1. Active(q) /\ pc'[q] = pc[q] /\ error'[q] = error[q]
    BY <1>1, FrameProcesses DEF Active
  <2>2. /\ upload'[q] = upload[q] /\ upload[q] \in Upload
        /\ upload[q] # upload'[p]
    BY <1>1, <2>1, Separate
  <2>3. /\ begun'[upload[q]] = begun[upload[q]]
        /\ made'[upload[q]] = made[upload[q]]
    BY <2>2, FrameAlbums
  <2>4. \A x : <<upload[q], x>> \in unclean' <=> <<upload[q], x>> \in unclean
    BY <2>2, FrameHistory
  <2>5. StageDone(pc[q], error[q], upload[q])
    BY <2>1 DEF StagesDone
  <2>6. ASSUME NEW n \in Upload, n # upload'[p] PROVE Left(n)' = Left(n)
    BY <2>6, FrameLeft
  <2>7. Left(upload[q])' = Left(upload[q])
    BY <2>2, <2>6 DEF Left, DirOf
  <2> QED
    BY <2>1, <2>2, <2>3, <2>4, <2>5, <2>7 DEF StageDone
<1>2. ASSUME Active(p)'
      PROVE  StageDone(pc[p], error[p], upload[p])'
  <2> DEFINE n == upload[p]
  <2> USE DEF Goto
  <2>1. Active(p) => n \in Upload
    BY ActiveUpload
  <2>2. Active(p) => StageDone(pc[p], error[p], n)
    BY DEF StagesDone
  <2>3. CASE SaveTmpFile(p)
    <3>1. begun'[upload'[p]] = {} /\ error'[p] = "none" /\ pc'[p] = "save"
      BY <2>3, NewUpload DEF SaveTmpFile, NothingEarly, WorkType
    <3>2. Left(upload[p])' = {}
      <4>1. upload'[p] \in Upload /\ upload'[p] > uploads
            /\ begun' = begun /\ dirs' = dirs
        BY <2>3, NewUpload DEF SaveTmpFile, WorkType
      <4> QED
        BY <4>1 DEF NothingEarly, Left, DirOf
    <3> QED
      BY <3>1, <3>2 DEF StageDone, Parts
  <2>4. CASE SaveTmpFileFails(p)
    BY <2>4, <1>2 DEF SaveTmpFileFails, Active
  <2>5. CASE WriteArchive(p)
    BY <2>2, <2>5 DEF WriteArchive, Active, WorkType, StageDone, disk, Parts
  <2>6. CASE WriteArchiveFails(p) \/ RemoveArchive(p) \/ RemoveArchiveFails(p) \/ Crash(p)
    BY <1>2, <2>6 DEF WriteArchiveFails, RemoveArchive, RemoveArchiveFails,
       Crash, Answer, Active, WorkType
  <2>7. CASE CheckDir(p) \/ MakeDir(p) \/ MakeDirFails(p) \/ PathsDone(p)
    <3>1. /\ pc[p] \in {"check", "mkdir"}
          /\ pc'[p] \in {"check", "mkdir", "srcs"}
          /\ UNCHANGED <<upload, error, begun>>
      BY <2>7 DEF CheckDir, MakeDir, MakeDirFails, PathsDone, WorkType, disk
    <3> QED
      BY <2>2, <3>1 DEF StageDone, Active, Parts
  <2>8. CASE MakePart(p)
    <3>1. /\ pc[p] \in Parts /\ Active(p)
          /\ made' = [made EXCEPT ![n] = @ \cup {pc[p]}]
          /\ UNCHANGED <<upload, error>>
      BY <2>8 DEF MakePart, Begin, Active, Parts
    <3>2. pc'[p] = CASE pc[p] = "srcs" -> "thmbs" [] pc[p] = "thmbs" -> "page"
                     [] OTHER -> "unlink"
      BY <2>8 DEF MakePart, WorkType
    <3>3. made'[n] = made[n] \cup {pc[p]}
      BY <2>1, <3>1 DEF DiskType
    <3>4. error[p] = "none"
      BY <2>2, <3>1 DEF StageDone
    <3>5. CASE pc[p] = "srcs"
      BY <2>2, <3>1, <3>2, <3>3, <3>4, <3>5 DEF StageDone, Parts
    <3>6. CASE pc[p] = "thmbs"
      BY <2>2, <3>1, <3>2, <3>3, <3>4, <3>6 DEF StageDone, Parts
    <3>7. CASE pc[p] = "page"
      <4>1. made[n] \subseteq Parts /\ {"srcs", "thmbs"} \subseteq made[n]
        BY <2>1, <2>2, <3>1, <3>7 DEF StageDone, DiskType
      <4>2. made'[n] = Parts
        BY <3>3, <3>7, <4>1 DEF Parts
      <4> QED
        BY <3>1, <3>2, <3>4, <3>7, <4>2 DEF StageDone, Parts
    <3> QED
      BY <3>1, <3>5, <3>6, <3>7 DEF Parts
  <2>9. CASE LibraryThrows(p)
    <3>1. PICK e \in Errors \ {"none"} : error' = [error EXCEPT ![p] = e]
      BY <2>9, ThrowFacts
    <3>2. pc'[p] = "clean srcs" /\ error'[p] # "none"
      BY <2>9, <3>1, ThrowFacts DEF WorkType
    <3> QED
      BY <3>2 DEF StageDone, Parts
  <2>10. CASE CleanSrcs(p)
    <3>1. /\ pc[p] = "clean srcs" /\ Active(p) /\ pc'[p] = "clean thmbs"
          /\ UNCHANGED <<upload, error>>
      BY <2>10 DEF CleanSrcs, Clean, CleanFails, Active, WorkType
    <3>2. "srcs" \in Left(n)' => <<n, "srcs">> \in unclean'
      BY <2>1, <2>10, <3>1 DEF CleanSrcs, Clean, CleanFails, DiskType, Left, DirOf
    <3> QED
      BY <2>2, <3>1, <3>2 DEF StageDone, Parts
  <2>11. CASE CleanThmbs(p)
    <3>1. /\ pc[p] = "clean thmbs" /\ Active(p) /\ pc'[p] = "unlink"
          /\ UNCHANGED <<upload, error>>
      BY <2>11 DEF CleanThmbs, Clean, CleanFails, Active, WorkType
    <3>2. /\ begun'[n] \subseteq begun[n] /\ dirs' \subseteq dirs
          /\ unclean \subseteq unclean'
          /\ \/ "thmbs" \notin begun'[n] /\ DirOf("thmbs", n) \notin dirs'
             \/ <<n, "thmbs">> \in unclean'
      BY <2>1, <2>11, <3>1, ZenonT(60) DEF CleanThmbs, Clean, CleanFails, DiskType, history
    <3>3. error[p] # "none" /\ ("srcs" \in Left(n) => <<n, "srcs">> \in unclean)
      BY <2>2, <3>1 DEF StageDone
    <3>4. /\ Left(n)' \subseteq Left(n) /\ Left(n) \subseteq {"srcs", "thmbs"}
          /\ "thmbs" \in Left(n)' => <<n, "thmbs">> \in unclean'
      BY <3>1, <3>2 DEF Left, DirOf
    <3>5. \A part \in Left(n)' : <<n, part>> \in unclean'
      BY <3>2, <3>3, <3>4
    <3> QED
      BY <3>1, <3>3, <3>5 DEF StageDone, Parts
  <2> QED
    BY <2>3, <2>4, <2>5, <2>6, <2>7, <2>8, <2>9, <2>10, <2>11 DEF ProcessStep
<1> QED
  BY <1>1, <1>2 DEF StagesDone

-----------------------------------------------------------------------------
(* The directories *)

\* Cleaning removes the directories of the upload only.
LEMMA SharedStays ==
  ASSUME WorkType, OneOwner, NEW p \in Process, ProcessStep(p), UNCHANGED owner,
         NEW u \in User, NEW d \in Shared(u), d \in dirs
  PROVE  d \in dirs'
<1>1. CASE CleanSrcs(p) \/ CleanThmbs(p)
  <2>1. upload[p] # 0
    BY <1>1, ActiveUpload DEF CleanSrcs, CleanThmbs, Active
  <2>2. \A part \in {"srcs", "thmbs"} : d # DirOf(part, upload[p])
    BY <2>1 DEF DirOf, Shared, Users, Home
  <2> QED
    BY <1>1, <2>2 DEF CleanSrcs, CleanThmbs, Clean, CleanFails
<1>2. CASE dirs \subseteq dirs'
  BY <1>2
<1> QED
  BY <1>1, <1>2 DEF ProcessStep, SaveTmpFile, SaveTmpFileFails, WriteArchive,
     WriteArchiveFails, CheckDir, MakeDir, MakeDirFails, PathsDone, MakePart,
     LibraryThrows, RemoveArchive, RemoveArchiveFails, Crash, disk

\* The walk of a process passes the directories of its user, its photos and
\* its thumbnails.
LEMMA PathEntries ==
  ASSUME WorkType, NEW q \in Process
  PROVE  /\ \A i \in {1, 2, 3, 5, 6, 7} : Path(q)[i] \in Shared(owner[upload[q]])
         /\ Path(q)[4] = DirOf("srcs", upload[q])
         /\ Path(q)[8] = DirOf("thmbs", upload[q])
         /\ Len(Path(q)) = 8
BY DEF Path, Shared, Users, Home, DirOf

LEMMA OwnersAreUsers ==
  ASSUME WorkType
  PROVE  \A n \in Upload : owner[n] \in User
BY DEF WorkType

LEMMA WalkedStep ==
  ASSUME WorkType, HistoryType, OneOwner, UnharmedWalks,
         NEW p \in Process, ProcessStep(p), UNCHANGED owner, Active(p)', Unharmed(upload[p])'
  PROVE  Walked(p)'
<1> DEFINE n == upload[p]
<1> USE DEF Goto
<1>1. Active(p) => n \in Upload /\ UNCHANGED upload
  BY ActiveUpload, OwnUpload
<1>2. CASE SaveTmpFile(p)
  BY <1>2 DEF SaveTmpFile, FirstDir, Walked, WorkType, Parts
<1>3. CASE SaveTmpFileFails(p)
  BY <1>3 DEF SaveTmpFileFails, Active
<1>4. CASE WriteArchiveFails(p) \/ RemoveArchive(p) \/ RemoveArchiveFails(p) \/ Crash(p)
  BY <1>4 DEF WriteArchiveFails, RemoveArchive, RemoveArchiveFails, Crash,
     Answer, Active, WorkType
<1>5. CASE CleanSrcs(p) \/ CleanThmbs(p)
  <2>1. pc'[p] \in {"clean thmbs", "unlink"}
    BY <1>5 DEF CleanSrcs, CleanThmbs, WorkType
  <2> QED
    BY <2>1 DEF Walked, Parts
<1>6. CASE LibraryThrows(p)
  <2>1. pc'[p] = "clean srcs"
    BY <1>6, ThrowFacts DEF WorkType
  <2> QED
    BY <2>1 DEF Walked, Parts
<1>7. CASE WriteArchive(p) \/ CheckDir(p) \/ MakeDir(p) \/ MakeDirFails(p)
             \/ PathsDone(p) \/ MakePart(p)
  <2>1. Active(p) /\ prepared' = prepared /\ upload' = upload
    BY <1>1, <1>7 DEF WriteArchive, CheckDir, MakeDir, MakeDirFails, PathsDone,
       MakePart, Begin, Active, Parts, history
  <2>2. n \in Upload /\ n \in prepared /\ Shared(owner[n]) \subseteq dirs
    BY <1>1, <2>1 DEF Unharmed, UnharmedWalks
  <2>3. n \notin hurt
    BY <1>7, <2>1 DEF WriteArchive, CheckDir, MakeDir, MakeDirFails, PathsDone,
       MakePart, Unharmed, history
  <2>4. Walked(p)
    BY <2>1, <2>2, <2>3 DEF Unharmed, UnharmedWalks
  <2>5. Path(p)' = Path(p)
    BY <2>1 DEF Path, Users, Home
  <2>6. at[p] \in 1..9
    BY DEF WorkType
  <2>7. ASSUME NEW i \in 1..8, Path(p)[i] \notin dirs
        PROVE  i \in {4, 8}
    BY <2>2, <2>7, PathEntries
  <2>8. CASE WriteArchive(p)
    <3>1. at'[p] = 1 /\ pc'[p] = "check"
      BY <2>4, <2>8 DEF WriteArchive, Walked, WorkType
    <3> QED
      BY <3>1 DEF Walked, Parts
  <2>9. CASE CheckDir(p)
    <3>1. /\ pc[p] = "check" /\ at[p] \in 1..8 /\ dirs' = dirs
      BY <2>6, <2>9, PathEntries DEF CheckDir, disk
    <3>2. at[p] > 4 => DirOf("srcs", n) \in dirs
      BY <2>4, <3>1 DEF Walked
    <3>3. CASE Path(p)[at[p]] \in dirs
      <4>1. pc'[p] = "check" /\ at'[p] = at[p] + 1
        BY <2>9, <3>1, <3>3 DEF CheckDir, WorkType
      <4>2. at'[p] > 4 => DirOf("srcs", n) \in dirs
        BY <3>1, <3>2, <3>3, <4>1, PathEntries
      <4>3. at'[p] > 8 => DirOf("thmbs", n) \in dirs
        BY <3>1, <3>3, <4>1, PathEntries
      <4> QED
        BY <2>1, <3>1, <4>1, <4>2, <4>3 DEF Walked, Parts, DirOf
    <3>4. CASE Path(p)[at[p]] \notin dirs
      <4>1. pc'[p] = "mkdir" /\ at'[p] = at[p]
        BY <2>9, <3>1, <3>4 DEF CheckDir, WorkType
      <4> QED
        BY <2>1, <2>5, <3>1, <3>2, <3>4, <4>1 DEF Walked, Parts, DirOf
    <3> QED
      BY <3>3, <3>4
  <2>10. CASE MakeDir(p)
    <3>1. /\ pc[p] = "mkdir" /\ pc'[p] = "check" /\ at[p] \in 1..8
          /\ at'[p] = at[p] + 1
          /\ dirs' = dirs \cup {Path(p)[at[p]]}
          /\ Path(p)[at[p]] \notin dirs
      BY <2>6, <2>10 DEF MakeDir, WorkType
    <3>2. at[p] \in {4, 8}
      BY <2>7, <3>1
    <3>3. at[p] = 8 => DirOf("srcs", n) \in dirs
      BY <2>4, <3>1 DEF Walked
    <3>4. at'[p] > 4 => DirOf("srcs", n) \in dirs'
      BY <3>1, <3>2, <3>3, PathEntries
    <3>5. at'[p] > 8 => DirOf("thmbs", n) \in dirs'
      BY <3>1, <3>2, PathEntries
    <3> QED
      BY <2>1, <3>1, <3>4, <3>5 DEF Walked, Parts, DirOf
  <2>11. CASE MakeDirFails(p)
    <3>1. Path(p)[at[p]] \notin dirs
      BY <2>4, <2>11 DEF MakeDirFails, Walked
    <3>2. n \in hurt'
      BY <2>11, <3>1 DEF MakeDirFails
    <3> QED
      BY <2>1, <3>2 DEF Unharmed
  <2>12. CASE PathsDone(p)
    <3>1. at[p] = 9 /\ pc[p] = "check" /\ pc'[p] = "srcs" /\ dirs' = dirs
      BY <2>6, <2>12, PathEntries DEF PathsDone, WorkType, disk
    <3>2. DirOf("srcs", n) \in dirs /\ DirOf("thmbs", n) \in dirs
      BY <2>4, <3>1 DEF Walked
    <3> QED
      BY <2>1, <3>1, <3>2 DEF Walked, DirOf
  <2>13. CASE MakePart(p)
    <3>1. pc[p] \in Parts /\ pc'[p] \in {"thmbs", "page", "unlink"} /\ dirs' = dirs
      BY <2>13 DEF MakePart, Begin, WorkType
    <3>2. DirOf("srcs", n) \in dirs /\ DirOf("thmbs", n) \in dirs
      BY <2>4, <3>1 DEF Walked
    <3> QED
      BY <2>1, <3>1, <3>2 DEF Walked, DirOf
  <2> QED
    BY <1>7, <2>8, <2>9, <2>10, <2>11, <2>12, <2>13
<1> QED
  BY <1>2, <1>3, <1>4, <1>5, <1>6, <1>7 DEF ProcessStep

LEMMA UnharmedWalksStep ==
  ASSUME WorkType, DiskType, HistoryType, OneOwner, UnharmedWalks,
         NEW p \in Process, ProcessStep(p), UNCHANGED owner
  PROVE  UnharmedWalks'
<1>1. ASSUME NEW n \in prepared'
      PROVE  Shared(owner[n]) \subseteq dirs'
  <2>1. n \in Upload
    BY HistoryTypeStep DEF HistoryType
  <2>2. Shared(owner[n]) \subseteq dirs
    <3>1. CASE n \in prepared
      BY <3>1 DEF UnharmedWalks
    <3>2. CASE n \notin prepared
      <4>1. SaveTmpFile(p)
        BY <1>1, <3>2 DEF ProcessStep, SaveTmpFileFails,
           WriteArchive, WriteArchiveFails, CheckDir, MakeDir, MakeDirFails,
           PathsDone, MakePart, LibraryThrows, CleanSrcs, CleanThmbs,
           RemoveArchive, RemoveArchiveFails, Crash, Clean, CleanFails, history
      <4> QED
        BY <1>1, <3>2, <4>1 DEF SaveTmpFile
    <3> QED
      BY <3>1, <3>2
  <2> QED
    BY <2>1, <2>2, OwnersAreUsers, SharedStays
<1>2. ASSUME NEW q \in Process, q # p, Active(q)', Unharmed(upload[q])'
      PROVE  Walked(q)'
  <2> DEFINE n == upload[q]
  <2>1. Active(q) /\ pc'[q] = pc[q] /\ at'[q] = at[q]
    BY <1>2, FrameProcesses DEF Active
  <2>2. upload'[q] = n /\ n \in Upload /\ n # upload'[p]
    BY <1>2, <2>1, Separate
  <2>3. n \in prepared /\ Unharmed(n)
    BY <1>2, <2>2, FrameHistory DEF Unharmed
  <2>4. Walked(q) /\ Shared(owner[n]) \subseteq dirs
    BY <2>1, <2>3 DEF UnharmedWalks
  <2>5. \A part \in {"srcs", "thmbs"} :
          DirOf(part, n) \in dirs' <=> DirOf(part, n) \in dirs
    BY <2>2, FrameDirs
  <2>6. Path(q)' = Path(q)
    BY <2>2 DEF Path, Users, Home
  <2>7. pc[q] = "mkdir" => Path(q)[at[q]] \notin dirs'
    <3> SUFFICES ASSUME pc[q] = "mkdir" PROVE Path(q)[at[q]] \notin dirs'
      OBVIOUS
    <3>1. at[q] \in 1..8 /\ Path(q)[at[q]] \notin dirs
      BY <2>4 DEF Walked, WorkType
    <3>2. at[q] \in {4, 8}
      BY <2>4, <3>1, PathEntries
    <3> QED
      BY <2>5, <3>1, <3>2, PathEntries
  <2>8. /\ DirOf("srcs", upload[q])' = DirOf("srcs", n)
        /\ DirOf("thmbs", upload[q])' = DirOf("thmbs", n)
    BY <2>2 DEF DirOf
  <2> QED
    BY <2>1, <2>4, <2>5, <2>6, <2>7, <2>8 DEF Walked
<1>3. ASSUME Active(p)', Unharmed(upload[p])'
      PROVE  Walked(p)'
  BY <1>3, WalkedStep
<1> QED
  BY <1>1, <1>2, <1>3 DEF UnharmedWalks

LEMMA ErrorsHaveCausesStep ==
  ASSUME WorkType, DiskType, HistoryType, OneOwner, StagesDone, UnharmedWalks,
         ErrorsHaveCauses, NEW p \in Process, ProcessStep(p), UNCHANGED owner
  PROVE  ErrorsHaveCauses'
<1>1. ASSUME NEW q \in Process, q # p, Active(q)', error'[q] # "none"
      PROVE  (upload[q] \in bad \/ ~Unharmed(upload[q]))'
  <2>1. Active(q) /\ error'[q] = error[q]
    BY <1>1, FrameProcesses DEF Active
  <2>2. upload'[q] = upload[q] /\ upload[q] # upload'[p]
    BY <1>1, <2>1, Separate
  <2> QED
    BY <1>1, <2>1, <2>2, FrameHistory DEF ErrorsHaveCauses, Unharmed
<1>2. ASSUME Active(p)', error'[p] # "none"
      PROVE  (upload[p] \in bad \/ ~Unharmed(upload[p]))'
  <2>1. CASE SaveTmpFile(p)
    BY <1>2, <2>1 DEF SaveTmpFile, WorkType
  <2>2. CASE SaveTmpFileFails(p)
    BY <1>2, <2>2 DEF SaveTmpFileFails, Active
  <2>3. CASE LibraryThrows(p)
    <3>1. /\ pc[p] \in Parts /\ Active(p)
          /\ \/ hurt' = hurt /\ (upload[p] \in bad \/ ~DirIsThere(p))
             \/ hurt' = hurt \cup {upload[p]}
          /\ UNCHANGED <<upload, bad, prepared>>
      BY <2>3, ThrowFacts DEF Active, Parts
    <3>2. CASE ~DirIsThere(p)
      <4>1. pc[p] \in {"srcs", "thmbs"} => ~Walked(p)
        BY <3>2 DEF DirIsThere, Walked, Parts
      <4>2. pc[p] = "page" /\ Unharmed(upload[p]) => Shared(owner[upload[p]]) \subseteq dirs
        BY DEF Unharmed, UnharmedWalks
      <4>3. pc[p] = "page" => ~Unharmed(upload[p])
        BY <3>2, <4>2 DEF DirIsThere, DirOf, Shared
      <4>4. ~Unharmed(upload[p])
        BY <3>1, <4>1, <4>3 DEF UnharmedWalks, Parts
      <4> QED
        BY <3>1, <4>4 DEF Unharmed
    <3> QED
      BY <3>1, <3>2 DEF Unharmed
  <2>4. CASE UNCHANGED error
    <3>1. Active(p) /\ UNCHANGED upload
      BY <1>2, <2>4, OwnUpload DEF WorkType, Active, ProcessStep, SaveTmpFile,
         SaveTmpFileFails, WriteArchive, WriteArchiveFails, CheckDir, MakeDir,
         MakeDirFails, PathsDone, MakePart, LibraryThrows, CleanSrcs, CleanThmbs,
         RemoveArchive, RemoveArchiveFails, Crash, Begin, Parts
    <3>2. upload[p] \in bad \/ ~Unharmed(upload[p])
      BY <1>2, <2>4, <3>1 DEF ErrorsHaveCauses
    <3>3. hurt \subseteq hurt' /\ bad \subseteq bad'
      BY DEF ProcessStep, SaveTmpFile, SaveTmpFileFails, WriteArchive,
         WriteArchiveFails, CheckDir, MakeDir, MakeDirFails, PathsDone, MakePart,
         LibraryThrows, CleanSrcs, CleanThmbs, RemoveArchive, RemoveArchiveFails,
         Crash, Clean, CleanFails, history
    <3>4. prepared' = prepared
      BY <3>1 DEF Active, ProcessStep, SaveTmpFile, SaveTmpFileFails, WriteArchive,
         WriteArchiveFails, CheckDir, MakeDir, MakeDirFails, PathsDone, MakePart,
         LibraryThrows, CleanSrcs, CleanThmbs, RemoveArchive, RemoveArchiveFails,
         Crash, Clean, CleanFails, history
    <3> QED
      BY <3>1, <3>2, <3>3, <3>4 DEF Unharmed
  <2> QED
    BY <2>1, <2>2, <2>3, <2>4 DEF ProcessStep, WriteArchive, WriteArchiveFails,
       CheckDir, MakeDir, MakeDirFails, PathsDone, MakePart, CleanSrcs,
       CleanThmbs, RemoveArchive, RemoveArchiveFails, Crash, Clean, CleanFails
<1> QED
  BY <1>1, <1>2 DEF ErrorsHaveCauses

-----------------------------------------------------------------------------
(* The answers *)

LEMMA ErrorCodes ==
  \A e \in Errors : CodeFor(e) # 0 /\ (CodeFor(e) = 303 <=> e = "none")
BY DEF Errors, CodeFor

\* What is true of an upload when its answer is given: a new code is that of
\* a mkstemp() or a write() that fails, or that of the error at the end.
LEMMA NewAnswer ==
  ASSUME WorkType, DiskType, HistoryType, OneOwner, NothingEarly,
         NEW p \in Process, ProcessStep(p), UNCHANGED owner,
         NEW n \in Upload, n = upload'[p], code'[n] # 0
  PROVE  \/ /\ SaveTmpFileFails(p) /\ n = uploads' /\ n > uploads
            /\ code'[n] = 500
         \/ /\ WriteArchiveFails(p) /\ n = upload[p]
            /\ code'[n] \in {500, 507}
         \/ /\ RemoveArchive(p) \/ RemoveArchiveFails(p)
            /\ n = upload[p]
            /\ code'[n] = CodeFor(error[p])
<1>1. ~Active(p)'
  BY OwnCode
<1>2. CASE SaveTmpFileFails(p)
  <2>1. uploads < MaxUploads /\ uploads' = uploads + 1 /\ n = uploads'
    BY <1>2 DEF SaveTmpFileFails, WorkType
  <2>2. uploads' > uploads
    BY <2>1, NewUpload
  <2>3. code'[n] = 500
    BY <1>2, <2>1 DEF SaveTmpFileFails, HistoryType, CodeFor
  <2> QED
    BY <1>2, <2>1, <2>2, <2>3
<1>3. CASE WriteArchiveFails(p)
  <2>1. n = upload[p]
    BY <1>3 DEF WriteArchiveFails
  <2>2. code'[n] \in {500, 507}
    BY <1>3, <2>1 DEF WriteArchiveFails, Answer, HistoryType, CodeFor
  <2> QED
    BY <1>3, <2>1, <2>2
<1>4. CASE RemoveArchive(p) \/ RemoveArchiveFails(p)
  BY <1>4 DEF RemoveArchive, RemoveArchiveFails, Answer, HistoryType
<1>5. CASE Crash(p)
  <2>1. Active(p) /\ UNCHANGED <<upload, code>>
    BY <1>5 DEF Crash, Active
  <2>2. code[n] = 0
    BY <2>1 DEF OneOwner
  <2> QED
    BY <2>1, <2>2
<1>6. CASE \/ SaveTmpFile(p) \/ WriteArchive(p) \/ MakeDir(p)
           \/ MakeDirFails(p) \/ PathsDone(p) \/ LibraryThrows(p)
           \/ CleanSrcs(p) \/ CleanThmbs(p)
  <2>1. pc'[p] \in {"save", "check", "srcs", "clean srcs", "clean thmbs", "unlink"}
    BY <1>6 DEF WorkType, SaveTmpFile, WriteArchive, MakeDir, MakeDirFails,
       PathsDone, LibraryThrows, CleanSrcs, CleanThmbs, Goto
  <2> QED
    BY <1>1, <2>1 DEF Active
<1>7. CASE CheckDir(p)
  BY <1>1, <1>7 DEF WorkType, Active, CheckDir, Goto
<1>8. CASE MakePart(p)
  BY <1>1, <1>8 DEF WorkType, Active, MakePart, Goto
<1> QED
  BY <1>2, <1>3, <1>4, <1>5, <1>6, <1>7, <1>8 DEF ProcessStep

LEMMA AnswersStep ==
  ASSUME WorkInv, NEW p \in Process, ProcessStep(p), UNCHANGED owner
  PROVE  CreatedIsWhole' /\ FailureLeavesNothing' /\ FailuresHaveCauses'
<1> USE DEF WorkInv
<1>1. Active(p) => upload[p] \in Upload
  BY ActiveUpload
<1>2. error[p] \in Errors
  BY DEF WorkType
<1>3. ASSUME NEW n \in Upload, code'[n] = 303
      PROVE  made'[n] = Parts
  <2>1. CASE n # upload'[p]
    BY <1>3, <2>1, FrameAlbums DEF CreatedIsWhole
  <2>2. CASE n = upload'[p]
    <3>1. /\ RemoveArchive(p) \/ RemoveArchiveFails(p)
          /\ n = upload[p] /\ CodeFor(error[p]) = 303
      BY <1>3, <2>2, NewAnswer
    <3>2. pc[p] = "unlink" /\ error[p] = "none" /\ made' = made
      BY <1>2, <3>1, ErrorCodes DEF RemoveArchive, RemoveArchiveFails, disk
    <3> QED
      BY <3>1, <3>2 DEF StagesDone, StageDone, Active
  <2> QED
    BY <2>1, <2>2
<1>4. ASSUME NEW n \in Upload, code'[n] \notin {0, 303},
             NEW part \in Left(n)'
      PROVE  <<n, part>> \in unclean'
  <2>1. CASE n # upload'[p]
    <3>1. code'[n] = code[n] /\ Left(n)' = Left(n)
      BY <2>1, FrameAlbums, FrameLeft
    <3>2. <<n, part>> \in unclean
      BY <1>4, <3>1 DEF FailureLeavesNothing
    <3> QED
      BY <2>1, <3>2, FrameHistory
  <2>2. CASE n = upload'[p]
    <3>1. CASE SaveTmpFileFails(p) /\ n = uploads' /\ n > uploads
      <4>1. Left(n)' = Left(n) /\ Left(n) = {}
        BY <3>1 DEF SaveTmpFileFails, disk, NothingEarly, Left, DirOf
      <4> QED
        BY <1>4, <4>1
    <3>2. CASE WriteArchiveFails(p) /\ n = upload[p]
      <4>1. pc[p] = "save" /\ Left(n)' = Left(n)
        BY <3>2 DEF WriteArchiveFails, disk, Left, DirOf
      <4>2. StageDone(pc[p], error[p], n)
        BY <3>2, <4>1 DEF StagesDone, Active
      <4>3. Left(n) = {}
        BY <4>1, <4>2 DEF StageDone
      <4> QED
        BY <1>4, <4>1, <4>3
    <3>3. CASE /\ RemoveArchive(p) \/ RemoveArchiveFails(p)
               /\ n = upload[p] /\ code'[n] = CodeFor(error[p])
      <4>1. /\ pc[p] = "unlink" /\ error[p] # "none"
            /\ begun' = begun /\ dirs' = dirs
            /\ unclean \subseteq unclean'
        BY <1>2, <1>4, <3>3, ErrorCodes DEF RemoveArchive, RemoveArchiveFails,
           disk, history
      <4>2. Left(n)' = Left(n)
        BY <4>1 DEF Left, DirOf
      <4>3. StageDone(pc[p], error[p], n)
        BY <3>3, <4>1 DEF StagesDone, Active
      <4>4. <<n, part>> \in unclean
        BY <1>4, <4>1, <4>2, <4>3 DEF StageDone
      <4> QED
        BY <4>1, <4>4
    <3> QED
      BY <1>4, <2>2, <3>1, <3>2, <3>3, NewAnswer
  <2> QED
    BY <2>1, <2>2
<1>5. ASSUME NEW n \in Upload, code'[n] # 0, n \in tmp'
      PROVE  <<n, "tmp">> \in unclean'
  <2>1. CASE n # upload'[p]
    BY <1>5, <2>1, FrameAlbums, FrameHistory DEF FailureLeavesNothing
  <2>2. CASE n = upload'[p]
    <3>1. CASE SaveTmpFileFails(p) /\ n = uploads' /\ n > uploads
      BY <1>5, <3>1 DEF SaveTmpFileFails, disk, NothingEarly
    <3>2. CASE WriteArchiveFails(p) /\ n = upload[p]
      BY <3>2 DEF WriteArchiveFails
    <3>3. CASE (RemoveArchive(p) \/ RemoveArchiveFails(p)) /\ n = upload[p]
      BY <1>5, <3>3 DEF RemoveArchive, RemoveArchiveFails
    <3> QED
      BY <1>5, <2>2, <3>1, <3>2, <3>3, NewAnswer
  <2> QED
    BY <2>1, <2>2
<1>6. ASSUME NEW n \in Upload, code'[n] \notin {0, 303}
      PROVE  n \in bad' \/ n \in hurt' \/ n \notin prepared'
  <2>1. CASE n # upload'[p]
    BY <1>6, <2>1, FrameAlbums, FrameHistory DEF FailuresHaveCauses
  <2>2. CASE n = upload'[p]
    <3>1. CASE SaveTmpFileFails(p) /\ n = uploads'
      BY <3>1 DEF SaveTmpFileFails
    <3>2. CASE WriteArchiveFails(p) /\ n = upload[p]
      BY <3>2 DEF WriteArchiveFails
    <3>3. CASE /\ RemoveArchive(p) \/ RemoveArchiveFails(p)
               /\ n = upload[p] /\ code'[n] = CodeFor(error[p])
      <4>1. /\ Active(p) /\ error[p] # "none"
            /\ UNCHANGED <<bad, hurt, prepared>>
        BY <1>2, <1>6, <3>3, ErrorCodes DEF RemoveArchive, RemoveArchiveFails,
           history, Active
      <4> QED
        BY <3>3, <4>1 DEF ErrorsHaveCauses, Unharmed
    <3> QED
      BY <1>6, <2>2, <3>1, <3>2, <3>3, NewAnswer
  <2> QED
    BY <2>1, <2>2
<1> QED
  BY <1>3, <1>4, <1>5, <1>6 DEF CreatedIsWhole, FailureLeavesNothing,
     FailuresHaveCauses

LEMMA WorkInvStep ==
  ASSUME WorkInv, NEW p \in Process, ProcessStep(p), UNCHANGED owner
  PROVE  WorkInv'
<1>1. WorkType' /\ DiskType' /\ HistoryType'
  BY WorkTypeStep, DiskTypeStep, HistoryTypeStep DEF WorkInv
<1>2. OneOwner' /\ NothingEarly' /\ MadeIsBegun'
  BY OneOwnerStep, NothingEarlyStep, MadeIsBegunStep DEF WorkInv
<1>3. StagesDone' /\ UnharmedWalks' /\ ErrorsHaveCauses'
  BY StagesDoneStep, UnharmedWalksStep, ErrorsHaveCausesStep DEF WorkInv
<1> QED
  BY <1>1, <1>2, <1>3, AnswersStep DEF WorkInv

-----------------------------------------------------------------------------
(* The listing *)

\* An answer that was given stays.
LEMMA AnswerStays ==
  ASSUME WorkInv, NEW p \in Process, ProcessStep(p), UNCHANGED owner,
         NEW n \in Upload, code[n] # 0
  PROVE  code'[n] = code[n]
<1>1. n # upload'[p]
  <2>1. CASE Active(p)
    BY <2>1, OwnUpload DEF WorkInv, OneOwner
  <2>2. CASE ~Active(p)
    BY <2>2, OwnUpload, NewUpload DEF WorkInv, NothingEarly
  <2> QED
    BY <2>1, <2>2
<1> QED
  BY <1>1, FrameAlbums DEF WorkInv

\* Uploads go on during a listing.
LEMMA ListingMeanwhile ==
  ASSUME WorkInv, ListingInv, NEW p \in Process, ProcessStep(p), UNCHANGED <<owner, listing>>
  PROVE  ListingInv'
<1>1. \A n \in listing.due : n \in Upload /\ code[n] = 303
  BY DEF ListingInv, Listing
<1>2. \A n \in listing.due : code'[n] = 303
  BY <1>1, AnswerStays
<1>3. uploads <= uploads' /\ uploads' \in Nat /\ uploads \in Nat
  <2>1. uploads \in Nat /\ uploads' \in Nat
    BY AlbumsAssumption, WorkTypeStep DEF WorkInv, WorkType
  <2>2. uploads' = uploads \/ uploads' = uploads + 1
    BY OwnUpload DEF WorkInv
  <2> QED
    BY <2>1, <2>2
<1>4. ListingHonest'
  BY <1>3 DEF ListingInv, ListingHonest
<1> QED
  BY <1>2, <1>4 DEF ListingInv

\* The pages of albums that were answered are whole, and pages that are not
\* belong to uploads that were not.
LEMMA PagesOfAnswered ==
  ASSUME WorkInv, ListingInv
  PROVE  /\ {n \in listing.due : owner[n] = listing.user} \subseteq Whole(listing.user)
         /\ \A n \in Partial(listing.user) : n \in 1..uploads /\ n \notin listing.due
<1>1. \A n \in listing.due : n \in Upload /\ "page" \in made[n]
  BY DEF WorkInv, ListingInv, Listing, CreatedIsWhole, Parts
<1>2. ASSUME NEW n \in Partial(listing.user)
      PROVE  n \in 1..uploads /\ n \notin listing.due
  <2>1. n \in Upload /\ owner[n] = listing.user /\ "page" \notin made[n]
    BY <1>2 DEF Partial, Whole
  <2>2. \/ "page" \in begun[n]
        \/ \E p \in Process : pc[p] = "page" /\ upload[p] = n
    BY <1>2 DEF Partial
  <2>4. uploads \in Nat /\ n \in Nat /\ n >= 1
    BY <2>1, AlbumsAssumption DEF WorkInv, WorkType, Upload
  <2>3. ~(n > uploads)
    <3>1. CASE "page" \in begun[n]
      BY <2>1, <3>1 DEF WorkInv, NothingEarly
    <3>2. ASSUME NEW p \in Process, pc[p] = "page", upload[p] = n
          PROVE  ~(n > uploads)
      BY <2>4, <3>2 DEF WorkInv, OneOwner, Active
    <3> QED
      BY <2>2, <3>1, <3>2
  <2> QED
    BY <1>1, <2>1, <2>3, <2>4
<1> QED
  BY <1>1, <1>2 DEF Whole

LEMMA ListingFields ==
  ASSUME listing \in Listing
  PROVE  /\ listing.user \in User /\ listing.entries \in SUBSET Upload
         /\ listing.seen \in SUBSET Upload /\ listing.due \in SUBSET Upload
         /\ listing.hurt \in BOOLEAN
BY DEF Listing

\* What the fields of a listing have to be like after a step.
LEMMA ListingAfter ==
  ASSUME NEW w \in {"idle", "open", "read", "done"}, NEW u \in User,
         NEW e \in SUBSET Upload, NEW s \in SUBSET Upload,
         NEW d \in SUBSET Upload, NEW c \in {0, 200, 404, 500},
         NEW h \in BOOLEAN,
         listing' = [pc |-> w, user |-> u, entries |-> e, seen |-> s,
                     titles |-> s, due |-> d, code |-> c, hurt |-> h],
         UNCHANGED <<uploads, owner, code>>,
         w # "done" => c = 0,
         \A n \in d : code[n] = 303,
         w = "read" => {n \in d : owner[n] = u} \subseteq e,
         c = 200 => {n \in d : owner[n] = u} \subseteq s,
         c = 500 => listing'.hurt \/ \E n \in 1..uploads : n \notin d
  PROVE  ListingInv'
<1>1. listing' \in Listing
  BY DEF Listing
<1>2. /\ listing'.pc = w /\ listing'.user = u /\ listing'.entries = e
      /\ listing'.seen = s /\ listing'.titles = s /\ listing'.due = d
      /\ listing'.code = c /\ listing'.hurt = h
  OBVIOUS
<1>3. ListingHonest'
  BY <1>2 DEF ListingHonest
<1> QED
  BY <1>1, <1>2, <1>3 DEF ListingInv

LEMMA AnsweredListing ==
  ASSUME NEW l \in Listing, NEW answered \in SUBSET Upload, NEW m,
         m = [l EXCEPT !.pc = "open", !.due = answered]
  PROVE  m = [pc |-> "open", user |-> l.user, entries |-> l.entries,
              seen |-> l.seen, titles |-> l.titles, due |-> answered,
              code |-> l.code, hurt |-> l.hurt]
BY DEF Listing

LEMMA ListingStepInv ==
  ASSUME WorkInv, ListingInv, ListingStep,
         UNCHANGED <<uploads, owner, job, disk, code, history>>
  PROVE  ListingInv'
<1> DEFINE u == listing.user
           e == listing.entries
           s == listing.seen
           d == listing.due
           h == listing.hurt
<1>8. listing \in Listing /\ listing.titles = s
  BY DEF ListingInv
<1>1. /\ u \in User /\ e \in SUBSET Upload /\ s \in SUBSET Upload
      /\ d \in SUBSET Upload /\ h \in BOOLEAN
  BY <1>8, ListingFields
<1>2. /\ UNCHANGED <<uploads, owner, code>>
      /\ \A n \in d : code[n] = 303
      /\ listing.pc # "done" => listing.code = 0
      /\ listing.pc = "read" => {n \in d : owner[n] = u} \subseteq e
  BY DEF ListingInv
<1>3. CASE FindUser
  <2>1. listing.code = 0
    BY <1>2, <1>3 DEF FindUser
  <2>2. CASE Home(listing.user) \in dirs
    <3>1. PICK answered \in SUBSET Upload : answered = {n \in Upload : code[n] = 303}
      OBVIOUS
    <3>2. listing' = [listing EXCEPT !.pc = "open", !.due = answered]
      BY <1>3, <2>2, <3>1 DEF FindUser
    <3>3. listing' = [pc |-> "open", user |-> u, entries |-> e, seen |-> s,
                      titles |-> s, due |-> answered, code |-> 0, hurt |-> h]
      BY <1>8, <2>1, <3>1, <3>2, AnsweredListing
    <3>4. \A n \in answered : code[n] = 303
      BY <3>1
    <3> QED
      BY <1>1, <1>2, <3>1, <3>3, <3>4, ListingAfter, SMTT(30)
  <2>3. CASE Home(listing.user) \notin dirs
    <3>2. listing' = [listing EXCEPT !.pc = "done", !.code = 404]
      BY <1>3, <2>3 DEF FindUser
    <3>1. listing' = [pc |-> "done", user |-> u, entries |-> e, seen |-> s,
                      titles |-> s, due |-> d, code |-> 404, hurt |-> h]
      BY <1>8, <3>2, ZenonT(60) DEF Listing
    <3> QED
      BY <1>1, <1>2, <3>1, ListingAfter, SMTT(30)
  <2> QED
    BY <2>2, <2>3
<1>4. CASE OpenDir
  <2>1. listing' = [pc |-> "read", user |-> u, entries |-> Whole(u), seen |-> s,
                    titles |-> s, due |-> d, code |-> 0, hurt |-> h]
    BY <1>2, <1>4, <1>8, ZenonT(60) DEF OpenDir, Listing
  <2>2. Whole(u) \in SUBSET Upload
    BY DEF Whole
  <2> QED
    BY <1>1, <1>2, <2>1, <2>2, PagesOfAnswered, ListingAfter, SMTT(30)
<1>5. ASSUME NEW n \in Upload, ReadTitle(n)
      PROVE  ListingInv'
  <2>1. /\ listing.pc = "read"
        /\ listing' = [pc |-> "read", user |-> u, entries |-> e,
                       seen |-> s \cup {n}, titles |-> s \cup {n},
                       due |-> d, code |-> 0, hurt |-> h]
    BY <1>2, <1>5, <1>8, ZenonT(60) DEF ReadTitle, Listing
  <2>2. s \cup {n} \in SUBSET Upload
    BY <1>1
  <2> QED
    BY <1>1, <1>2, <2>1, <2>2, ListingAfter, SMTT(30)
<1>6. CASE ListingFails
  <2>1. CASE /\ Partial(u) \ s # {}
             /\ listing' = [listing EXCEPT !.pc = "done", !.code = 500]
    <3>1. \E n \in 1..uploads : n \notin d
      BY <2>1, PagesOfAnswered
    <3>2. listing' = [pc |-> "done", user |-> u, entries |-> e, seen |-> s,
                      titles |-> s, due |-> d, code |-> 500, hurt |-> h]
      BY <1>8, <2>1, ZenonT(60) DEF Listing
    <3> QED
      BY <1>1, <1>2, <3>1, <3>2, ListingAfter, SMTT(30)
  <2>2. CASE listing' = [listing EXCEPT !.pc = "done", !.code = 500, !.hurt = TRUE]
    <3>1. listing'.hurt
      BY <1>8, <2>2 DEF Listing
    <3>2. ASSUME NEW b \in BOOLEAN,
                 listing' = [listing EXCEPT !.pc = "done", !.code = 500, !.hurt = b]
          PROVE  ListingInv'
      <4>1. listing' = [pc |-> "done", user |-> u, entries |-> e, seen |-> s,
                        titles |-> s, due |-> d, code |-> 500, hurt |-> b]
        BY <1>8, <3>2, ZenonT(60) DEF Listing
      <4>2. listing' \in Listing
        BY <1>1, <4>1 DEF Listing
      <4>3. /\ listing'.pc = "done" /\ listing'.titles = listing'.seen
            /\ listing'.due = d /\ listing'.code = 500
        BY <4>1
      <4>4. ListingHonest'
        BY <3>1, <4>3 DEF ListingHonest
      <4> QED
        BY <1>2, <4>2, <4>3, <4>4 DEF ListingInv
    <3>3. PICK b \in BOOLEAN : b = TRUE
      OBVIOUS
    <3>4. listing' = [listing EXCEPT !.pc = "done", !.code = 500, !.hurt = b]
      BY <2>2, <3>3
    <3> QED
      BY <3>2, <3>3, <3>4
  <2> QED
    BY <1>6, <2>1, <2>2 DEF ListingFails
<1>7. CASE ListingDone
  <2>1. /\ listing' = [pc |-> "done", user |-> u, entries |-> e, seen |-> s,
                       titles |-> s, due |-> d, code |-> 200, hurt |-> h]
        /\ e \subseteq s
        /\ listing.pc = "read"
    BY <1>7, <1>8, ZenonT(60) DEF ListingDone, Listing
  <2>2. {n \in d : owner[n] = u} \subseteq s
    BY <1>2, <2>1
  <2> QED
    BY <1>1, <1>2, <2>1, <2>2, ListingAfter, SMTT(30)
<1> QED
  BY <1>3, <1>4, <1>5, <1>6, <1>7 DEF ListingStep

\* A listing changes nothing that it reads.
LEMMA ListingKeepsWork ==
  ASSUME WorkInv, ListingStep, UNCHANGED <<uploads, owner, job, disk, code, history>>
  PROVE  WorkInv'
<1>1. faults' \in 0..MaxFaults
  BY FaultTypes DEF WorkInv, WorkType, ListingStep, FindUser, OpenDir, ReadTitle,
     ListingFails, ListingDone
<1>2. /\ UNCHANGED <<uploads, owner, pc, upload, at, error, tmp, dirs, begun, made>>
      /\ UNCHANGED <<code, bad, hurt, unclean, prepared>>
  BY DEF job, disk, history
<1>3. WorkType' /\ DiskType' /\ HistoryType'
  BY <1>1, <1>2 DEF WorkInv, WorkType, DiskType, HistoryType
<1>4. OneOwner' /\ NothingEarly' /\ MadeIsBegun'
  BY <1>2 DEF WorkInv, OneOwner, NothingEarly, MadeIsBegun, Active, Left, DirOf
<1>7. StagesDone'
  BY <1>2 DEF WorkInv, StagesDone, StageDone, Active, Left, DirOf
<1>5. UnharmedWalks' /\ ErrorsHaveCauses'
  BY <1>2 DEF WorkInv, UnharmedWalks, ErrorsHaveCauses, Unharmed, Walked, Path,
     DirOf, Home, Shared, Active
<1>6. CreatedIsWhole' /\ FailureLeavesNothing' /\ FailuresHaveCauses'
  BY <1>2 DEF WorkInv, CreatedIsWhole, FailureLeavesNothing, FailuresHaveCauses,
     Left, DirOf
<1> QED
  BY <1>3, <1>4, <1>5, <1>6, <1>7 DEF WorkInv

-----------------------------------------------------------------------------
(* The theorems *)

LEMMA AlbumsInvStep == AlbumsInv /\ [Next]_vars => AlbumsInv'
<1> SUFFICES ASSUME AlbumsInv, [Next]_vars PROVE AlbumsInv'
  OBVIOUS
<1>1. ASSUME NEW p \in Process, ProcessStep(p), UNCHANGED <<owner, listing>>
      PROVE  AlbumsInv'
  BY <1>1, WorkInvStep, ListingMeanwhile DEF AlbumsInv
<1>2. CASE ListingStep /\ UNCHANGED <<uploads, owner, job, disk, code, history>>
  BY <1>2, ListingStepInv, ListingKeepsWork DEF AlbumsInv
<1>3. CASE UNCHANGED vars
  <2>1. /\ UNCHANGED <<uploads, faults, owner, pc, upload, at, error, tmp, dirs, begun>>
        /\ UNCHANGED <<made, code, bad, hurt, unclean, prepared, listing>>
    BY <1>3 DEF vars, job, disk, history
  <2>2. WorkType' /\ DiskType' /\ HistoryType'
    BY <2>1 DEF AlbumsInv, WorkInv, WorkType, DiskType, HistoryType
  <2>3. OneOwner' /\ NothingEarly' /\ MadeIsBegun' /\ StagesDone'
    BY <2>1 DEF AlbumsInv, WorkInv, OneOwner, NothingEarly, MadeIsBegun,
       StagesDone, StageDone, Active, Left, DirOf
  <2>4. UnharmedWalks' /\ ErrorsHaveCauses'
    BY <2>1 DEF AlbumsInv, WorkInv, UnharmedWalks, ErrorsHaveCauses, Unharmed,
       Walked, Path, DirOf, Home, Shared, Active
  <2>5. CreatedIsWhole' /\ FailureLeavesNothing' /\ FailuresHaveCauses'
    BY <2>1 DEF AlbumsInv, WorkInv, CreatedIsWhole, FailureLeavesNothing,
       FailuresHaveCauses, Left, DirOf
  <2>6. ListingInv'
    BY <2>1 DEF AlbumsInv, ListingInv, ListingHonest
  <2> QED
    BY <2>2, <2>3, <2>4, <2>5, <2>6 DEF AlbumsInv, WorkInv
<1> QED
  BY <1>1, <1>2, <1>3 DEF Next

LEMMA AlbumsInvariance == Spec => []AlbumsInv
<1>1. Init => AlbumsInv
  BY InitWorkInv, InitListingInv DEF AlbumsInv
<1> QED
  BY <1>1, AlbumsInvStep, PTL DEF Spec

\* Every variable of an upload and of a listing has its type, for any number
\* of processes, users, uploads and faults.
THEOREM TypeCorrect == Spec => []TypeOK
<1>1. AlbumsInv => TypeOK
  BY DEF AlbumsInv, WorkInv, ListingInv, TypeOK, WorkType, DiskType, HistoryType
<1> QED
  BY <1>1, AlbumsInvariance, PTL

\* An album whose upload was answered "created" is whole from then on.
THEOREM CreatedStaysWhole == Spec => []CreatedIsWhole
<1>1. AlbumsInv => CreatedIsWhole
  BY DEF AlbumsInv, WorkInv
<1> QED
  BY <1>1, AlbumsInvariance, PTL

\* After an answer other than "created" no photo, no thumbnail and no
\* directory for them is left, and after any answer no archive, but for what
\* a failing call left. A page that was begun stays.
THEOREM FailuresLeaveNothing == Spec => []FailureLeavesNothing
<1>1. AlbumsInv => FailureLeavesNothing
  BY DEF AlbumsInv, WorkInv
<1> QED
  BY <1>1, AlbumsInvariance, PTL

\* An upload does not fail because of other uploads, once the directories it
\* shares with them are there.
THEOREM FailuresAlwaysHaveCauses == Spec => []FailuresHaveCauses
<1>1. AlbumsInv => FailuresHaveCauses
  BY DEF AlbumsInv, WorkInv
<1> QED
  BY <1>1, AlbumsInvariance, PTL

\* A listing that succeeds shows every album that was answered "created"
\* before it, and one that fails met a failing call, or there was an upload
\* that had not been answered "created" when it began.
THEOREM ListingsAlwaysHonest == Spec => []ListingHonest
<1>1. AlbumsInv => ListingHonest
  BY DEF AlbumsInv, ListingInv
<1> QED
  BY <1>1, AlbumsInvariance, PTL

-----------------------------------------------------------------------------
(* Pages: a browser is told to keep a copy that is not the page only if it *)
(* asked for the copy in the second the page was changed in, for pages and *)
(* times without bounds. Nothing here is shared with the uploads.          *)

FetchTypeOK ==
  /\ now \in Nat
  /\ page \in Page
  /\ fetching \in {"no", "open", "read"}
  /\ asked_at \in Nat /\ st_mtime \in Nat /\ st_size \in Nat
  /\ copy \in Copy

\* What ProcessStatic knows is no newer than the moment it asked, and the
\* page has been changed since that moment if it differs.
FetchSound ==
  fetching # "no" =>
    /\ st_mtime <= asked_at /\ asked_at <= now
    /\ page.mtime = st_mtime \/ asked_at <= page.mtime

LengthSound ==
  fetching = "read" => st_size = page.length \/ asked_at <= page.mtime

\* So has a page that differs from the copy been changed since the browser
\* asked for that.
CopySound ==
  copy.kept =>
    /\ copy.last_modified <= copy.asked_at
    /\ \/ copy.text = page.text /\ copy.length = page.length
       \/ copy.asked_at <= page.mtime

FetchInv ==
  /\ FetchTypeOK
  /\ page.mtime <= now
  /\ copy.kept => copy.asked_at <= now
  /\ FetchSound
  /\ LengthSound
  /\ CopySound

\* The constants are bounds of the checks; nothing here depends on them.
LEMMA FetchInvariant == FetchSpec => []FetchInv
<1>1. FetchInit => FetchInv
  BY DEF FetchInit, FetchInv, FetchTypeOK, FetchSound, LengthSound, CopySound, Page, Copy
<1>2. FetchInv /\ [FetchNext]_fetch_vars => FetchInv'
  <2> SUFFICES ASSUME FetchInv, [FetchNext]_fetch_vars
               PROVE  FetchInv'
    OBVIOUS
  <2> USE DEF FetchInv, FetchTypeOK, FetchSound, LengthSound, CopySound, Page, Copy
  <2>1. CASE Tick
    BY <2>1 DEF Tick, process_static
  <2>2. CASE WriteAnew
    BY <2>2 DEF WriteAnew, process_static
  <2>3. CASE WriteMore
    <3>1. page' = [there |-> page.there, text |-> page.text,
                   length |-> page.length + 1, mtime |-> now]
      BY <2>3 DEF WriteMore
    <3>2. page.there \in BOOLEAN /\ page.length + 1 \in Nat
      OBVIOUS
    <3>3. page' \in Page
      BY <3>1, <3>2
    <3>4. page'.text = page.text /\ page'.mtime = now
      BY <3>1
    <3>5. UNCHANGED <<now, fetching, asked_at, st_mtime, st_size, copy>>
      BY <2>3 DEF WriteMore, process_static
    <3>6. FetchTypeOK' /\ (page.mtime <= now)' /\ (copy.kept => copy.asked_at <= now)'
      BY <3>3, <3>4, <3>5
    <3>7. FetchSound' /\ LengthSound' /\ CopySound'
      BY <3>3, <3>4, <3>5
    <3>8. QED
      BY <3>6, <3>7
  <2>4. CASE GetFileStatThrows \/ NotFound \/ BadDate \/ ReadFileFails
    BY <2>4 DEF GetFileStatThrows, NotFound, BadDate, ReadFileFails, Reply
  <2>5. CASE NotModified
    <3>1. copy' = [kept |-> copy.kept, text |-> copy.text,
                   length |-> copy.length, last_modified |-> page.mtime,
                   asked_at |-> copy.asked_at]
      BY <2>5 DEF NotModified
    <3>2. QED
      BY <2>5, <3>1 DEF NotModified, Reply
  <2>6. CASE Modified
    BY <2>6 DEF Modified
  <2>7. CASE OpenFile
    BY <2>7 DEF OpenFile
  <2>8. CASE ReadFile
    BY <2>8 DEF ReadFile, Reply
  <2>9. CASE UNCHANGED fetch_vars
    BY <2>9 DEF fetch_vars, process_static
  <2>10. QED
    BY <2>1, <2>2, <2>3, <2>4, <2>5, <2>6, <2>7, <2>8, <2>9
       DEF FetchNext, ProcessStatic
<1>3. QED
  BY <1>1, <1>2, PTL DEF FetchSpec

\* ProcessStatic answers "not modified" to a browser whose copy is not the
\* page only if that was asked for in the second its Last-Modified names.
THEOREM NotModifiedAlwaysHonest == FetchSpec => NotModifiedHonest
<1>1. FetchInv /\ NotModified =>
        \/ copy.text = page.text /\ copy.length = page.length
        \/ copy.asked_at = copy.last_modified
  BY DEF FetchInv, FetchTypeOK, CopySound, NotModified, Page, Copy
<1>2. FetchInv /\ [FetchNext]_fetch_vars =>
        [NotModified =>
           \/ copy.text = page.text /\ copy.length = page.length
           \/ copy.asked_at = copy.last_modified]_fetch_vars
  BY <1>1
<1>3. QED
  BY <1>2, FetchInvariant, PTL DEF FetchSpec, NotModifiedHonest

=============================================================================
