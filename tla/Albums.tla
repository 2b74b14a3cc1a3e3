------------------------------- MODULE Albums -------------------------------
(***************************************************************************)
(* Photohosting: the upload of an archive and the making of an album from  *)
(* it, by several worker processes on one file system, and the listing of  *)
(* a user's albums by a CGI process.                                       *)
(*                                                                         *)
(* ProcessPhotosUpload saves the archive to a temporary file, makes the    *)
(* directories of the user and of the album, has the album library unpack  *)
(* the photos, make the thumbnails and write the page, and cleans up when  *)
(* the library fails. Each call that changes the file system is a step.    *)
(* AlbumTitles reads the title out of every page in the directory of a     *)
(* user, while other processes write there.                                *)
(*                                                                         *)
(* Uploads are numbered. The number also stands for the name of the        *)
(* temporary file and for the random id of the album: no two processes     *)
(* draw the same one.                                                      *)
(***************************************************************************)
EXTENDS Integers, Sequences

CONSTANTS Process,  \* the worker processes
          User,
          MaxUploads, \* bound
          MaxFaults   \* bound: calls that fail, and processes that end

ASSUME AlbumsAssumption ==
  /\ MaxUploads \in Nat
  /\ MaxFaults \in Nat

VARIABLES
  uploads, faults,     \* how many there have been
  owner,               \* whose upload each is, those still to come included
  pc, upload,          \* each process: where it is, in which upload
  at,                  \* its place in the directories to be made
  error,               \* the exception that is on its way
  tmp,                 \* the temporary files
  dirs,                \* path_to_users and the directories below it
  begun, made,         \* the parts of each album that have files, and all
  code,                \* the response to each upload
  bad,                 \* archives that are not archives of photos
  hurt,                \* uploads that met a failing call before the cleaning
  unclean,             \* what could not be cleaned, and temporary files left
  prepared,            \* uploads that found the directories they share made
  listing              \* the CGI process that lists the albums of a user

job == <<pc, upload, at, error>>
disk == <<tmp, dirs, begun, made>>
history == <<bad, hurt, unclean, prepared>>
vars == <<uploads, faults, owner, job, disk, code, history, listing>>

Upload == 1..MaxUploads

Parts == {"srcs", "thmbs", "page"}

\* The directory of all users, those of user u, and those of the upload n.
Users == <<"users">>
Home(u) == <<u, "home", 0>>
Shared(u) == {Users, Home(u), <<u, "srcs", 0>>, <<u, "thmbs", 0>>}
DirOf(part, n) == IF part = "page" THEN Home(owner[n]) ELSE <<owner[n], part, n>>

Dir == {Users} \cup User \X {"home", "srcs", "thmbs"} \X (0..MaxUploads)

\* The directories create_user_paths makes, in its order: mkdir_p walks down
\* to the album's photos, then to its thumbnails.
Path(p) ==
  LET u == owner[upload[p]]
      n == upload[p]
  IN  <<Users, Home(u), <<u, "srcs", 0>>, <<u, "srcs", n>>,
        Users, Home(u), <<u, "thmbs", 0>>, <<u, "thmbs", n>>>>

Stages == {"idle", "save", "check", "mkdir", "srcs", "thmbs", "page",
           "clean srcs", "clean thmbs", "unlink"}
Errors == {"none", "NoSpace", "UserEx", "other"}

\* The listing: the albums whose pages are in the directory when it is
\* opened, those whose pages were read, the titles found and the response.
\* "due" are the albums whose uploads had been answered before.
Listing == [pc : {"idle", "open", "read", "done"}, user : User,
            entries : SUBSET Upload, seen : SUBSET Upload,
            titles : SUBSET Upload, due : SUBSET Upload,
            code : {0, 200, 404, 500}, hurt : BOOLEAN]

TypeOK ==
  /\ uploads \in 0..MaxUploads
  /\ faults \in 0..MaxFaults
  /\ owner \in [Upload -> User]
  /\ pc \in [Process -> Stages]
  /\ upload \in [Process -> 0..MaxUploads]
  /\ at \in [Process -> 1..9]
  /\ error \in [Process -> Errors]
  /\ tmp \subseteq Upload
  /\ dirs \subseteq Dir
  /\ begun \in [Upload -> SUBSET Parts]
  /\ made \in [Upload -> SUBSET Parts]
  /\ code \in [Upload -> {0, 303, 400, 500, 507}]
  /\ bad \subseteq Upload
  /\ hurt \subseteq Upload
  /\ unclean \subseteq Upload \X (Parts \cup {"tmp"})
  /\ prepared \subseteq Upload
  /\ listing \in Listing

Init ==
  /\ uploads = 0
  /\ faults = 0
  /\ owner \in [Upload -> User]
  /\ pc = [p \in Process |-> "idle"]
  /\ upload = [p \in Process |-> 0]
  /\ at = [p \in Process |-> 1]
  /\ error = [p \in Process |-> "none"]
  /\ tmp = {}
  /\ dirs = {}
  /\ begun = [n \in Upload |-> {}]
  /\ made = [n \in Upload |-> {}]
  /\ code = [n \in Upload |-> 0]
  /\ bad = {}
  /\ hurt = {}
  /\ unclean = {}
  /\ prepared = {}
  /\ \E u \in User :
       listing = [pc |-> "idle", user |-> u, entries |-> {}, seen |-> {},
                  titles |-> {}, due |-> {}, code |-> 0, hurt |-> FALSE]

-----------------------------------------------------------------------------
(* Helpers *)

Goto(p, stage) == pc' = [pc EXCEPT ![p] = stage]

\* A call fails that need not fail.
Fault == faults < MaxFaults /\ faults' = faults + 1

Answer(p, c) ==
  /\ Goto(p, "idle")
  /\ code' = [code EXCEPT ![upload[p]] = c]

\* The response, by the exception that reaches ProcessPhotosUpload.
\* Mutation: an exception without a handler of its own is swallowed.
SwallowingCode(e) == CASE e = "NoSpace" -> 507
                       [] e = "UserEx"  -> 400
                       [] OTHER         -> 303

CodeFor(e) == CASE e = "none"    -> 303
                [] e = "NoSpace" -> 507
                [] e = "UserEx"  -> 400
                [] OTHER         -> 500

\* Mutation: the walk starts before the first directory.
FirstDirBefore == 0

FirstDir == 1

-----------------------------------------------------------------------------
(* SaveTmpFile *)

\* A signed-in user's upload arrives; mkstemp() makes the file.
SaveTmpFile(p) ==
  /\ pc[p] = "idle"
  /\ uploads < MaxUploads
  /\ uploads' = uploads + 1
  /\ upload' = [upload EXCEPT ![p] = uploads']
  /\ at' = [at EXCEPT ![p] = FirstDir]
  /\ error' = [error EXCEPT ![p] = "none"]
  /\ bad' \in {bad, bad \cup {uploads'}}
  /\ prepared' = IF Shared(owner[uploads']) \subseteq dirs THEN prepared \cup {uploads'}
                                             ELSE prepared
  /\ tmp' = tmp \cup {uploads'}
  /\ Goto(p, "save")
  /\ UNCHANGED <<faults, dirs, begun, made, code, hurt, unclean>>

\* mkstemp() fails: there is no file, and nothing else has been done.
SaveTmpFileFails(p) ==
  /\ pc[p] = "idle"
  /\ uploads < MaxUploads
  /\ Fault
  /\ uploads' = uploads + 1
  /\ upload' = [upload EXCEPT ![p] = uploads']
  /\ code' = [code EXCEPT ![uploads'] = CodeFor("other")]
  /\ hurt' = hurt \cup {uploads'}
  /\ UNCHANGED <<pc, at, error, disk, bad, unclean, prepared>>

WriteArchive(p) ==
  /\ pc[p] = "save"
  /\ Goto(p, "check")
  /\ UNCHANGED <<uploads, faults, upload, at, error, disk, code, history>>

\* A short write(). Whether the response is 507 or 500 is up to errno, which
\* a short write does not set. The temporary file is left behind.
WriteArchiveFails(p) ==
  /\ pc[p] = "save"
  /\ Fault
  /\ \E e \in {"NoSpace", "other"} : Answer(p, CodeFor(e))
  /\ hurt' = hurt \cup {upload[p]}
  /\ unclean' = unclean \cup {<<upload[p], "tmp">>}
  /\ UNCHANGED <<uploads, upload, at, error, disk, bad, prepared>>

-----------------------------------------------------------------------------
(* create_user_paths *)

\* mkdir_p looks whether the directory is there, and makes it later.
\* Mutation: it does not look for the first one.
CheckAfterFirst(p) ==
  /\ pc[p] = "check"
  /\ at[p] <= Len(Path(p))
  /\ IF at[p] > 1 /\ Path(p)[at[p]] \in dirs
     THEN at' = [at EXCEPT ![p] = @ + 1] /\ UNCHANGED pc
     ELSE Goto(p, "mkdir") /\ UNCHANGED at
  /\ UNCHANGED <<uploads, faults, upload, error, disk, code, history>>

CheckDir(p) ==
  /\ pc[p] = "check"
  /\ at[p] <= Len(Path(p))
  /\ IF Path(p)[at[p]] \in dirs
     THEN at' = [at EXCEPT ![p] = @ + 1] /\ UNCHANGED pc
     ELSE Goto(p, "mkdir") /\ UNCHANGED at
  /\ UNCHANGED <<uploads, faults, upload, error, disk, code, history>>

MakeDir(p) ==
  /\ pc[p] = "mkdir"
  /\ Path(p)[at[p]] \notin dirs
  /\ dirs' = dirs \cup {Path(p)[at[p]]}
  /\ at' = [at EXCEPT ![p] = @ + 1]
  /\ Goto(p, "check")
  /\ UNCHANGED <<uploads, faults, upload, error, tmp, begun, made, code,
                 history>>

\* Another process has made the directory since, or mkdir() fails. Nobody
\* looks at what create_user_paths returns.
MakeDirFails(p) ==
  /\ pc[p] = "mkdir"
  /\ \/ Path(p)[at[p]] \in dirs /\ UNCHANGED <<faults, hurt>>
     \/ Fault /\ hurt' = hurt \cup {upload[p]}
  /\ Goto(p, "srcs")
  /\ UNCHANGED <<uploads, upload, at, error, disk, code, bad, unclean,
                 prepared>>

PathsDone(p) ==
  /\ pc[p] = "check"
  /\ at[p] > Len(Path(p))
  /\ Goto(p, "srcs")
  /\ UNCHANGED <<uploads, faults, upload, at, error, disk, code, history>>

-----------------------------------------------------------------------------
(* CreateWebAlbum, of the album library *)

DirIsThere(p) == DirOf(pc[p], upload[p]) \in dirs

\* The library has begun with a part of the album.
Begin(p) ==
  /\ pc[p] \in Parts
  /\ DirIsThere(p)
  /\ begun' = [begun EXCEPT ![upload[p]] = @ \cup {pc[p]}]

\* The library makes one part of the album after the other. A bad archive
\* may be unpacked, when it is a photo in it that is corrupt.
MakePart(p) ==
  /\ Begin(p)
  /\ upload[p] \in bad => pc[p] = "srcs"
  /\ made' = [made EXCEPT ![upload[p]] = @ \cup {pc[p]}]
  /\ Goto(p, CASE pc[p] = "srcs"  -> "thmbs"
               [] pc[p] = "thmbs" -> "page"
               [] OTHER           -> "unlink")
  /\ UNCHANGED <<uploads, faults, upload, at, error, tmp, dirs, code,
                 history>>

\* The library throws: the archive is bad, a directory is not there or a
\* call fails. It may leave a part of what it was making.
LibraryThrows(p) ==
  /\ pc[p] \in Parts
  /\ \E e \in Errors \ {"none"} :
       /\ \/ upload[p] \in bad /\ e = "UserEx" /\ UNCHANGED <<faults, hurt>>
          \/ ~DirIsThere(p) /\ e \in {"UserEx", "other"} /\ UNCHANGED <<faults, hurt>>
          \/ /\ Fault
             /\ e \in {"NoSpace", "other"}
             /\ hurt' = hurt \cup {upload[p]}
       /\ error' = [error EXCEPT ![p] = e]
  /\ UNCHANGED begun \/ Begin(p)
  /\ Goto(p, "clean srcs")
  /\ UNCHANGED <<uploads, upload, at, tmp, dirs, made, code, bad, unclean,
                 prepared>>

-----------------------------------------------------------------------------
(* clean_paths, and the end of CreateAlbum *)

\* rm_rf and remove: the files and their directory go, if it is there.
Clean(p, part) ==
  /\ dirs' = dirs \ {DirOf(part, upload[p])}
  /\ begun' = [begun EXCEPT ![upload[p]] = @ \ {part}]
  /\ made' = [made EXCEPT ![upload[p]] = @ \ {part}]
  /\ UNCHANGED <<uploads, faults, upload, at, error, tmp, code, history>>

\* A call of rm_rf fails: it gives up, and what it had left stays.
CleanFails(p, part) ==
  /\ Fault
  /\ unclean' = unclean \cup {<<upload[p], part>>}
  /\ made' = [made EXCEPT ![upload[p]] = @ \ {part}]
  /\ UNCHANGED <<uploads, upload, at, error, tmp, dirs, begun, code, bad,
                 hurt, prepared>>

\* Mutation: clean_paths gives up when the photos cannot be removed.
CleanSrcsOnly(p) ==
  /\ pc[p] = "clean srcs"
  /\ \/ Goto(p, "clean thmbs") /\ Clean(p, "srcs")
     \/ Goto(p, "unlink") /\ CleanFails(p, "srcs")

CleanSrcs(p) ==
  /\ pc[p] = "clean srcs"
  /\ Goto(p, "clean thmbs")
  /\ Clean(p, "srcs") \/ CleanFails(p, "srcs")

\* The page is not removed.
CleanThmbs(p) ==
  /\ pc[p] = "clean thmbs"
  /\ Goto(p, "unlink")
  /\ Clean(p, "thmbs") \/ CleanFails(p, "thmbs")

\* The archive is removed in either case; that it cannot be is only logged.
RemoveArchive(p) ==
  /\ pc[p] = "unlink"
  /\ tmp' = tmp \ {upload[p]}
  /\ Answer(p, CodeFor(error[p]))
  /\ UNCHANGED <<uploads, faults, upload, at, error, dirs, begun, made,
                 history>>

RemoveArchiveFails(p) ==
  /\ pc[p] = "unlink"
  /\ Fault
  /\ unclean' = unclean \cup {<<upload[p], "tmp">>}
  /\ Answer(p, CodeFor(error[p]))
  /\ UNCHANGED <<uploads, upload, at, error, disk, bad, hurt, prepared>>

\* The process ends and leaves everything as it is; another takes its place.
Crash(p) ==
  /\ pc[p] # "idle"
  /\ Fault
  /\ UNCHANGED begun \/ Begin(p)
  /\ Goto(p, "idle")
  /\ UNCHANGED <<uploads, upload, at, error, tmp, dirs, made, code, history>>

-----------------------------------------------------------------------------
(* ProcessListAlbums, of a CGI process *)

\* The pages in the directory of user u: those that are whole, and those
\* that are not, or not yet.
Whole(u) == {n \in Upload : owner[n] = u /\ "page" \in made[n]}
Partial(u) ==
  {n \in Upload \ Whole(u) : owner[n] = u /\
     ("page" \in begun[n] \/ \E p \in Process : pc[p] = "page" /\ upload[p] = n)}

\* UserExists, and opendir() later. "user" is the one asked for.
FindUser ==
  /\ listing.pc = "idle"
  /\ listing' =
       IF Home(listing.user) \in dirs
       THEN [listing EXCEPT !.pc = "open", !.due = {n \in Upload : code[n] = 303}]
       ELSE [listing EXCEPT !.pc = "done", !.code = 404]
  /\ UNCHANGED faults

OpenDir ==
  /\ listing.pc = "open"
  /\ listing' = [listing EXCEPT !.pc = "read", !.entries = Whole(listing.user)]
  /\ UNCHANGED faults

\* ParseAlbumTitle, and Append of the title it returns. A page that is not
\* whole may have its title already.
\* Mutation: Append does not keep what was there.
ReadTitleOnly(n) ==
  /\ listing.pc = "read"
  /\ n \in (Whole(listing.user) \cup Partial(listing.user)) \ listing.seen
  /\ listing' = [listing EXCEPT !.seen = @ \cup {n}, !.titles = {n}]
  /\ UNCHANGED faults

ReadTitle(n) ==
  /\ listing.pc = "read"
  /\ n \in (Whole(listing.user) \cup Partial(listing.user)) \ listing.seen
  /\ listing' = [listing EXCEPT !.seen = @ \cup {n}, !.titles = @ \cup {n}]
  /\ UNCHANGED faults

\* A page has no title yet, or was not read to its end, or a call fails:
\* the listing fails as a whole.
ListingFails ==
  /\ listing.pc \in {"open", "read"}
  /\ \/ /\ listing.pc = "read"
        /\ Partial(listing.user) \ listing.seen # {}
        /\ listing' = [listing EXCEPT !.pc = "done", !.code = 500]
        /\ UNCHANGED faults
     \/ /\ Fault
        /\ listing' = [listing EXCEPT !.pc = "done", !.code = 500, !.hurt = TRUE]

\* readdir() has no more entries: it has returned at least those that were
\* there all the time.
ListingDone ==
  /\ listing.pc = "read"
  /\ listing.entries \subseteq listing.seen
  /\ listing' = [listing EXCEPT !.pc = "done", !.code = 200]
  /\ UNCHANGED faults

ListingStep ==
  \/ FindUser \/ OpenDir
  \/ \E n \in Upload : ReadTitle(n)
  \/ ListingFails \/ ListingDone

-----------------------------------------------------------------------------
ProcessStep(p) ==
  \/ SaveTmpFile(p) \/ SaveTmpFileFails(p)
  \/ WriteArchive(p) \/ WriteArchiveFails(p)
  \/ CheckDir(p) \/ MakeDir(p) \/ MakeDirFails(p) \/ PathsDone(p)
  \/ MakePart(p) \/ LibraryThrows(p)
  \/ CleanSrcs(p) \/ CleanThmbs(p)
  \/ RemoveArchive(p) \/ RemoveArchiveFails(p)
  \/ Crash(p)

Next ==
  \/ (\E p \in Process : ProcessStep(p)) /\ UNCHANGED <<owner, listing>>
  \/ ListingStep /\ UNCHANGED <<uploads, owner, job, disk, code, history>>

Spec == Init /\ [][Next]_vars

-----------------------------------------------------------------------------
(* Properties *)

\* The answer "created" (303) is true and stays true: the album is whole,
\* whatever other uploads do, and however they fail, from then on.
CreatedIsWhole == \A n \in Upload : code[n] = 303 => made[n] = Parts

\* The parts of an upload of which there are files, or the directory. The
\* page, which clean_paths does not remove, is not among them.
Left(n) ==
  {part \in {"srcs", "thmbs"} : part \in begun[n] \/ DirOf(part, n) \in dirs}

\* After any other answer no photo and no thumbnail is left of the album,
\* nor the directories for them, and after any answer at all the archive is
\* gone, except what could not be removed, or an archive that could not be
\* saved. Nothing is said of the page: one that was begun stays.
FailureLeavesNothing ==
  \A n \in Upload :
    /\ code[n] \notin {0, 303} => \A part \in Left(n) : <<n, part>> \in unclean
    /\ code[n] # 0 /\ n \in tmp => <<n, "tmp">> \in unclean

\* An upload fails for a reason: the archive is bad, a call failed, or the
\* directories it shares with other uploads had still to be made when it
\* began. Only then can uploads get into each other's way: those of one user
\* by the user's directories, and those of all by path_to_users.
FailuresHaveCauses ==
  \A n \in Upload :
    code[n] \notin {0, 303} => n \in bad \/ n \in hurt \/ n \notin prepared

\* A listing that succeeds lists every album whose upload was answered
\* before it began, whatever other processes write meanwhile. It fails only
\* when a call fails or when there was an upload that had not been answered
\* "created": one page that is not whole is enough to hide all albums.
ListingHonest ==
  /\ listing.code = 200 => {n \in listing.due : owner[n] = listing.user}
                              \subseteq listing.titles
  /\ listing.code = 500 => \/ listing.hurt
                           \/ \E n \in 1..uploads : n \notin listing.due

=============================================================================
