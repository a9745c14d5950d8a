------------------------------ MODULE BuildDist -----------------------------
(***************************************************************************)
(* builddist: packages of binaries in a cloud bucket, with their metadata  *)
(* in datastore.  MakePackage uploads the files of a build with a bounded  *)
(* number of goroutines and records one FileEntry per upload; the state of *)
(* the package says "complete" only at the end.  InstallPackage downloads  *)
(* what the entries name, DeletePackage removes objects and entries.       *)
(*                                                                         *)
(* The model is one version of one package.  The same version may be made  *)
(* again, by a later build of the same CL, and calls may overlap or die.   *)
(* A file's contents and its sha1 are the number of the build it is of.    *)
(***************************************************************************)
EXTENDS Naturals, FiniteSets

CONSTANTS
  Files,           \* the files of the package, by relative path
  MaxConcurrency,  \* slots of concurrencyGuard
  BatchSize,       \* fileEntryBatchSize and datastoreBatchSize
  Calls,           \* which of "make", "install" and "delete" happen
  Faults,          \* the kinds of failure that may happen
  MaxBuilds        \* bound: calls of MakePackage

FaultKinds == {"open", "first", "second", "record", "put", "crash",
               "download", "object", "deleteMulti", "deleteCrash"}

ASSUME ConstantsOK ==
  /\ IsFiniteSet(Files)
  /\ MaxConcurrency \in Nat \ {0} /\ BatchSize \in Nat \ {0}
  /\ Calls \subseteq {"make", "install", "delete"}
  /\ Faults \subseteq FaultKinds
  /\ MaxBuilds \in Nat

VARIABLES
  pkg,      \* datastore: State of the PackageEntry, "none" when there is none
  entries,  \* datastore: the FileEntry entities
  objects,  \* bucket: the build each file's object is of, 0 for no object
  build,    \* the build on the disk of the machine that makes packages
  make,     \* the execution of MakePackage
  upload,   \* per file: the goroutine uploadPackageFileInBucket
  install,  \* the execution of InstallPackage
  local,    \* the disk of the machine that installs, 0 for no whole file
  del,      \* the execution of DeletePackage
  touched,  \* history: a DeletePackage has run on what is in store now
  overlap,  \* history: a MakePackage ran during the last DeletePackage
  dropped   \* history: the kinds of error that were dropped

vars == <<pkg, entries, objects, build, make, upload, install, local, del,
          touched, overlap, dropped>>

Builds    == 0 .. MaxBuilds
FileEntry == [file : Files, hash : Builds]

IdleMake    == [pc |-> "idle", todo |-> {}, queue |-> {}, batch |-> {}]
\* asked is history: the build an install may expect, 0 when a delete interferes.
IdleInstall == [pc |-> "idle", want |-> {}, asked |-> 0]
IdleDelete  == [pc |-> "idle", todo |-> {}, keys |-> {}, batch |-> {}]

TypeOK ==
  /\ pkg \in {"none", "writing", "complete"}
  /\ entries \subseteq FileEntry
  /\ objects \in [Files -> Builds] /\ build \in Builds
  /\ make \in [pc : {"idle", "walk", "flush", "finish"},
               todo : SUBSET Files,
               queue : SUBSET FileEntry, batch : SUBSET FileEntry]
  /\ upload \in [Files -> {"no", "first", "second", "lost", "up"}]
  /\ install \in [pc : {"idle", "query", "download", "complete"},
                  want : SUBSET FileEntry, asked : Builds]
  /\ local \in [Files -> Builds]
  /\ del \in [pc : {"idle", "objects", "flush", "finish", "stuck"},
              todo : SUBSET FileEntry, keys : SUBSET FileEntry,
              batch : SUBSET FileEntry]
  /\ Cardinality(make.batch) < BatchSize /\ Cardinality(del.batch) < BatchSize
  /\ touched \in BOOLEAN /\ overlap \in BOOLEAN
  /\ dropped \subseteq {"open", "record", "download"}

Init ==
  /\ pkg = "none" /\ entries = {}
  /\ objects = [f \in Files |-> 0] /\ build = 0
  /\ make = IdleMake /\ upload = [f \in Files |-> "no"]
  /\ install = IdleInstall /\ local = [f \in Files |-> 0]
  /\ del = IdleDelete /\ touched = FALSE /\ overlap = FALSE
  /\ dropped = {}

-----------------------------------------------------------------------------
(* MakePackage. *)

(* The state MakePackage starts from.  The mutant leaves a package that is *)
(* made again as it was.                                                   *)
StartedMut == IF pkg = "none" THEN "writing" ELSE pkg
Started == "writing"

MakeStart ==
  /\ "make" \in Calls /\ make.pc = "idle" /\ build < MaxBuilds
  /\ build' = build + 1
  /\ pkg' = Started
  /\ make' = [IdleMake EXCEPT !.pc = "walk", !.todo = Files]
  /\ upload' = [f \in Files |-> "no"]
  /\ touched' = (del.pc # "idle")
  /\ overlap' = (overlap \/ del.pc # "idle")
  /\ UNCHANGED <<entries, objects, install, local, del, dropped>>

(* The callback, or the walk itself, returns an error: forEachFileToUpload *)
(* drops it, and the file with it.                                         *)
SkipFile(f) ==
  /\ make.pc = "walk" /\ f \in make.todo /\ "open" \in Faults
  /\ make' = [make EXCEPT !.todo = @ \ {f}]
  /\ dropped' = dropped \cup {"open"}
  /\ UNCHANGED <<pkg, entries, objects, build, upload, install, local, del,
                 touched, overlap>>

InFlight == {f \in Files : upload[f] \in {"first", "second"}}

(* Slots taken in concurrencyGuard: only onFileUploaded gives one back.    *)
SlotsTaken == {f \in Files : upload[f] \in {"first", "second", "lost"}}

StartUpload(f) ==
  /\ make.pc = "walk" /\ f \in make.todo
  /\ Cardinality(SlotsTaken) < MaxConcurrency
  /\ make' = [make EXCEPT !.todo = @ \ {f}]
  /\ upload' = [upload EXCEPT ![f] = "first"]
  /\ UNCHANGED <<pkg, entries, objects, build, install, local, del, touched,
                 overlap, dropped>>

(* An attempt succeeds: the object is there, the entry is queued, the slot *)
(* and the WaitGroup are released (onFileUploaded).                        *)
Uploaded(f) ==
  /\ upload[f] \in {"first", "second"}
  /\ upload' = [upload EXCEPT ![f] = "up"]
  /\ objects' = [objects EXCEPT ![f] = build]
  /\ make' = [make EXCEPT !.queue = @ \cup {[file |-> f, hash |-> build]}]
  /\ UNCHANGED <<pkg, entries, build, install, local, del, touched, overlap, dropped>>

(* What becomes of the goroutine when an attempt fails: one retry.  The    *)
(* mutant gives up at once.                                                *)
AfterFailureMut(attempt) == "lost"
AfterFailure(attempt) == IF attempt = "first" THEN "second" ELSE "lost"

(* An attempt fails, possibly after the object was stored.  After the      *)
(* second one the error goes nowhere and onFileUploaded is never called.   *)
UploadFails(f) ==
  /\ upload[f] \in Faults \cap {"first", "second"}
  /\ upload' = [upload EXCEPT ![f] = AfterFailure(upload[f])]
  /\ objects' \in {objects, [objects EXCEPT ![f] = build]}
  /\ UNCHANGED <<pkg, entries, build, make, install, local, del, touched,
                 overlap, dropped>>

(* The walk is over; wgFileUpload.Wait(); close(fileEntries). *)
UploadsDone ==
  /\ make.pc = "walk" /\ make.todo = {}
  /\ SlotsTaken = {}
  /\ make' = [make EXCEPT !.pc = "flush"]
  /\ UNCHANGED <<pkg, entries, objects, build, upload, install, local, del,
                 touched, overlap, dropped>>

(* recordBatchFileEntries, whose error nobody looks at. *)
Recorded(batch) ==
  \/ entries' = entries \cup batch /\ UNCHANGED dropped
  \/ /\ "record" \in Faults
     /\ dropped' = dropped \cup {"record"}
     /\ UNCHANGED entries

(* A batch is sent when it is full; the mutant is one entry late. *)
BatchFullMut(batch) == Cardinality(batch) > BatchSize
BatchFull(batch) == Cardinality(batch) = BatchSize

(* recordFileEntries takes an entry from the channel; a full batch goes    *)
(* out.                                                                    *)
Record(e) ==
  LET batch == make.batch \cup {e} IN
  /\ e \in make.queue
  /\ IF BatchFull(batch)
     THEN /\ Recorded(batch)
          /\ make' = [make EXCEPT !.queue = @ \ {e}, !.batch = {}]
     ELSE /\ make' = [make EXCEPT !.queue = @ \ {e}, !.batch = batch]
          /\ UNCHANGED <<entries, dropped>>
  /\ UNCHANGED <<pkg, objects, build, upload, install, local, del, touched,
                 overlap>>

(* The channel is closed and empty: the last, short, batch. *)
RecordRest ==
  /\ make.pc = "flush" /\ make.queue = {}
  /\ Recorded(make.batch)
  /\ make' = [make EXCEPT !.pc = "finish", !.batch = {}]
  /\ UNCHANGED <<pkg, objects, build, upload, install, local, del, touched,
                 overlap>>

MakeEnds ==
  /\ make.pc = "finish"
  /\ \/ pkg' = "complete"
     \/ "put" \in Faults /\ UNCHANGED pkg
  /\ make' = IdleMake
  /\ UNCHANGED <<entries, objects, build, upload, install, local, del,
                 touched, overlap, dropped>>

(* The process dies, with its goroutines and what they had in memory. *)
MakeDies ==
  /\ make.pc # "idle" /\ "crash" \in Faults
  /\ make' = IdleMake
  /\ upload' = [f \in Files |-> "no"]
  /\ UNCHANGED <<pkg, entries, objects, build, install, local, del, touched,
                 overlap, dropped>>

-----------------------------------------------------------------------------
(* InstallPackage. *)

(* The test on the package's state; anything but complete is an error.     *)
Installable == pkg = "complete"

InstallStart ==
  /\ "install" \in Calls /\ install.pc = "idle"
  /\ Installable
  /\ install' = [IdleInstall EXCEPT !.pc = "query", !.asked = IF touched THEN 0 ELSE build]
  /\ UNCHANGED <<pkg, entries, objects, build, make, upload, local, del,
                 touched, overlap, dropped>>

(* The ancestor query; one goroutine per entry. *)
InstallQuery ==
  /\ install.pc = "query"
  /\ install' = [install EXCEPT !.pc = "download", !.want = entries]
  /\ UNCHANGED <<pkg, entries, objects, build, make, upload, local, del,
                 touched, overlap, dropped>>

(* isFileUpToDate; the mutant is content with any file of that name. *)
UpToDateMut(e) == local[e.file] # 0
UpToDate(e) == local[e.file] = e.hash

(* downloadFile, the error of which is dropped with its goroutine. *)
Download(e) ==
  /\ e \in install.want
  /\ install' = [install EXCEPT !.want = @ \ {e}]
  /\ \/ /\ ~UpToDate(e) /\ objects[e.file] # 0
        /\ local' = [local EXCEPT ![e.file] = objects[e.file]]
        /\ UNCHANGED dropped
     \/ /\ UpToDate(e) \/ objects[e.file] = 0
        /\ UNCHANGED <<local, dropped>>
     \/ /\ ~UpToDate(e) /\ "download" \in Faults
        /\ local' \in {local, [local EXCEPT ![e.file] = 0]}
        /\ dropped' = dropped \cup {"download"}
  /\ UNCHANGED <<pkg, entries, objects, build, make, upload, del, touched,
                 overlap>>

(* wgFileDownload.Wait(); "install complete". *)
InstallEnds ==
  /\ install.pc = "download" /\ install.want = {}
  /\ install' = [install EXCEPT !.pc = "complete"]
  /\ UNCHANGED <<pkg, entries, objects, build, make, upload, local, del,
                 touched, overlap, dropped>>

(* The caller moves on and may install again. *)
InstallAgain ==
  /\ install.pc = "complete"
  /\ install' = IdleInstall
  /\ UNCHANGED <<pkg, entries, objects, build, make, upload, local, del,
                 touched, overlap, dropped>>

-----------------------------------------------------------------------------
(* DeletePackage. *)

(* The query; the package itself is neither looked at nor marked. *)
DeleteStart ==
  /\ "delete" \in Calls /\ del.pc = "idle" /\ pkg # "none"
  /\ del' = [IdleDelete EXCEPT !.pc = "objects", !.todo = entries]
  /\ touched' = TRUE /\ overlap' = (make.pc # "idle")
  /\ install' = [install EXCEPT !.asked = 0]
  /\ UNCHANGED <<pkg, entries, objects, build, make, upload, local, dropped>>

(* deleteFileFromBucket: whether or not the object goes, its entry's key   *)
(* is handed on.                                                           *)
DeleteObject(e) ==
  /\ del.pc \in {"objects", "stuck"} /\ e \in del.todo
  /\ \/ objects' = [objects EXCEPT ![e.file] = 0]
     \/ "object" \in Faults /\ UNCHANGED objects
  /\ del' = [del EXCEPT !.todo = @ \ {e}, !.keys = @ \cup {e}]
  /\ UNCHANGED <<pkg, entries, build, make, upload, install, local, touched,
                 overlap, dropped>>

(* DeleteMulti on a batch; after an error deleteFileEntries returns and    *)
(* never says done.  The mutant also returns after a full batch.           *)
DeletedBatchMut(batch, next) ==
  /\ entries' = entries \ batch
  /\ del' = IF next.pc = "objects" THEN [next EXCEPT !.pc = "stuck"] ELSE next
DeletedBatch(batch, next) ==
  \/ entries' = entries \ batch /\ del' = next
  \/ /\ "deleteMulti" \in Faults
     /\ del' = [next EXCEPT !.pc = "stuck"]
     /\ UNCHANGED entries

DeleteKey(e) ==
  LET batch == del.batch \cup {e} IN
  /\ del.pc \in {"objects", "flush"} /\ e \in del.keys
  /\ IF BatchFull(batch)
     THEN DeletedBatch(batch, [del EXCEPT !.keys = @ \ {e}, !.batch = {}])
     ELSE /\ del' = [del EXCEPT !.keys = @ \ {e}, !.batch = batch]
          /\ UNCHANGED entries
  /\ UNCHANGED <<pkg, objects, build, make, upload, install, local, touched,
                 overlap, dropped>>

(* wgFileDelete.Wait(); close(keysToDelete). *)
ObjectsGone ==
  /\ del.pc = "objects" /\ del.todo = {}
  /\ del' = [del EXCEPT !.pc = "flush"]
  /\ UNCHANGED <<pkg, entries, objects, build, make, upload, install, local,
                 touched, overlap, dropped>>

(* What goes out when the channel is closed and empty.  The mutant forgets *)
(* the short batch.                                                        *)
LastBatchMut == {}
LastBatch == del.batch

DeleteRest ==
  /\ del.pc = "flush" /\ del.keys = {}
  /\ DeletedBatch(LastBatch, [del EXCEPT !.pc = "finish", !.batch = {}])
  /\ UNCHANGED <<pkg, objects, build, make, upload, install, local, touched,
                 overlap, dropped>>

DeleteEnds ==
  /\ del.pc = "finish"
  /\ \/ pkg' = "none"
     \/ "put" \in Faults /\ UNCHANGED pkg
  /\ del' = IdleDelete
  /\ UNCHANGED <<entries, objects, build, make, upload, install, local,
                 touched, overlap, dropped>>

DeleteDies ==
  /\ del.pc # "idle" /\ "deleteCrash" \in Faults
  /\ del' = IdleDelete
  /\ UNCHANGED <<pkg, entries, objects, build, make, upload, install, local,
                 touched, overlap, dropped>>

-----------------------------------------------------------------------------

MakeStep ==
  \/ UploadsDone \/ RecordRest \/ MakeEnds
  \/ \E f \in Files : SkipFile(f) \/ StartUpload(f) \/ Uploaded(f)
  \/ \E e \in FileEntry : Record(e)

InstallStep ==
  \/ InstallQuery \/ InstallEnds
  \/ \E e \in FileEntry : Download(e)

DeleteStep ==
  \/ ObjectsGone \/ DeleteRest \/ DeleteEnds
  \/ \E e \in FileEntry : DeleteObject(e) \/ DeleteKey(e)

Next ==
  \/ MakeStart \/ MakeStep \/ MakeDies
  \/ \E f \in Files : UploadFails(f)
  \/ InstallStart \/ InstallStep \/ InstallAgain
  \/ DeleteStart \/ DeleteStep \/ DeleteDies

Spec == Init /\ [][Next]_vars

(* A call that has started is scheduled; an upload that is tried ends one  *)
(* way or the other.                                                       *)
FairSpec ==
  /\ Spec
  /\ WF_vars(MakeStep) /\ WF_vars(InstallStep) /\ WF_vars(DeleteStep)

-----------------------------------------------------------------------------

(* What a complete package promises: for every file an entry whose hash is *)
(* that of the object in the bucket, even when the version is made again,  *)
(* when attempts fail after storing the object, and when a call dies half  *)
(* way.  (A DeletePackage does not mark the package, so it is excluded, and  *)
(* so are the errors of the walk and of the records, which are dropped.)   *)
CompleteHolds ==
  pkg = "complete" /\ ~touched /\ dropped \cap {"open", "record"} = {} =>
    \A f \in Files : \E e \in entries : e.file = f /\ e.hash = objects[f]

(* "Once uploaded, a file's metadata is queued for write in datastore"     *)
(* (make_package.go), and not before: an entry of the current build names  *)
(* an object of the current build, whatever fails and whoever dies.        *)
RecordedAfterUpload ==
  ~touched => \A e \in entries : e.hash = build => objects[e.file] = build

(* The datastore never says more than the bucket holds: neither the        *)
(* package, when it is complete, nor a single entry while it is made.      *)
DatastoreHonest == CompleteHolds /\ RecordedAfterUpload

(* "InstallPackage : download all the files from a package to the local    *)
(* disk" (install_package.go): when it says "install complete", every file *)
(* is of the build that was complete when it started, or of a later one,   *)
(* unless the package is being deleted or an error was dropped.            *)
InstallDelivers ==
  install.pc = "complete" /\ dropped = {} =>
    \A f \in Files : local[f] >= install.asked

(* "DeletePackage : delete files in cloud storage and metadata in          *)
(* datastore" (delete_package.go): when the package is gone and nothing    *)
(* was being made meanwhile, no entry is left behind.                      *)
DeletedClean ==
  pkg = "none" /\ ~overlap => entries = {}

(* "will block if too many tasks are in flight" (make_package.go): the     *)
(* walk is held up only while that many uploads are really under way.      *)
BlockedOnlyWhenBusy ==
  make.pc = "walk" /\ make.todo # {} /\ Cardinality(SlotsTaken) >= MaxConcurrency
  => Cardinality(InFlight) = MaxConcurrency

(* A MakePackage ends when no file fails twice. *)
MakeReturns == make.pc # "idle" ~> make.pc = "idle"

(* So does a DeletePackage when datastore answers. *)
DeleteReturns == del.pc # "idle" ~> del.pc = "idle"
=============================================================================
