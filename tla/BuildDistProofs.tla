-------------------------- MODULE BuildDistProofs ---------------------------
(***************************************************************************)
(* Proofs about BuildDist for any set of files, any number of builds, any  *)
(* batch size and any number of goroutines, with every call overlapping    *)
(* every other and every fault happening whenever it can.                  *)
(*                                                                         *)
(* None of the three properties is inductive.  What carries them is where  *)
(* a file or an entry is between two states of the store: on its way to    *)
(* datastore (NoneLostInv), still to be downloaded (InstallInv) or still   *)
(* to be deleted (DeleteInv).                                              *)
(***************************************************************************)
EXTENDS BuildDist, FiniteSetTheorems, TLAPS

(* What MakePackage holds in memory.  Goroutines run only during the walk, the channel and the
   batch are empty outside the call, and what they hold is of the build that is made. *)
MakeInv ==
  /\ make.pc # "walk" => SlotsTaken = {} /\ make.todo = {}
  /\ make.pc \in {"idle", "finish"} => make.queue = {} /\ make.batch = {}
  /\ make.pc # "idle" => pkg # "complete"
  /\ \A e \in make.queue \cup make.batch : e.hash = build
  /\ \A e \in entries : e.hash <= build
  /\ \A f \in Files : objects[f] <= build

(* Unless a DeletePackage has run, what is queued, batched or recorded is in the bucket. *)
StoredInv ==
  ~touched =>
    /\ del.pc = "idle"
    /\ \A e \in make.queue \cup make.batch \cup entries :
          e.hash = build => objects[e.file] = build

(* The entry of the current build for a file is in S. *)
EntryIn(S, f) == \E e \in S : e.file = f /\ e.hash = build

(* No file gets lost: one that the walk has left behind is in the hands of a goroutine, of the
   channel, of the batch or of datastore. *)
NoneLostInv ==
  ~touched /\ dropped \cap {"open", "record"} = {} =>
    /\ make.pc # "idle" =>
         \A f \in Files : \/ f \in make.todo \cup SlotsTaken
                          \/ EntryIn(make.queue \cup make.batch \cup entries, f)
    /\ pkg = "complete" => \A f \in Files : EntryIn(entries, f)

(* An install that may expect a build finds it, or a later one, in the bucket, and until it is
   complete still has an entry to download for every file that is older. *)
InstallInv ==
  /\ install.pc # "download" => install.want = {}
  /\ install.asked > 0 => ~touched /\ install.asked <= build
  /\ install.asked > 0 /\ dropped = {} =>
       /\ \A f \in Files : objects[f] >= install.asked
       /\ install.pc = "query" =>
            \A f \in Files : \E e \in entries : e.file = f /\ e.hash >= install.asked
       /\ install.pc = "download" =>
            \A f \in Files : \/ local[f] >= install.asked
                             \/ \E e \in install.want : e.file = f /\ e.hash >= install.asked
       /\ install.pc = "complete" => \A f \in Files : local[f] >= install.asked

(* Unless a MakePackage meddles, every entry that is left is still ahead of DeletePackage. *)
DeleteInv ==
  /\ del.pc \in {"flush", "finish"} => del.todo = {}
  /\ ~overlap /\ del.pc # "idle" => make.pc = "idle"
  /\ ~overlap /\ del.pc \in {"objects", "flush"} => entries \subseteq del.todo \cup del.keys \cup del.batch
  /\ ~overlap /\ del.pc = "finish" => entries = {}
  /\ ~overlap /\ pkg = "none" => entries = {} /\ make.pc = "idle"

USE ConstantsOK

-----------------------------------------------------------------------------
(* Types. *)

(* The batches are finite sets: Cardinality says how many entries they hold. *)
FiniteInv == IsFiniteSet(make.batch) /\ IsFiniteSet(del.batch)

(* A batch that is not full has room for one more entry, and is empty when it went out. *)
LEMMA BatchGrows ==
  ASSUME NEW S, IsFiniteSet(S), Cardinality(S) < BatchSize, NEW e
  PROVE  /\ IsFiniteSet(S \cup {e})
         /\ ~BatchFull(S \cup {e}) => Cardinality(S \cup {e}) < BatchSize
<1>1. IsFiniteSet(S \cup {e}) /\ Cardinality(S \cup {e}) \in {Cardinality(S), Cardinality(S) + 1}
  BY FS_AddElement
<1>2. Cardinality(S) \in Nat
  BY FS_CardinalityType
<1> QED
  BY <1>1, <1>2 DEF BatchFull

(* An empty batch is never full. *)
LEMMA EmptyBatch == IsFiniteSet({}) /\ Cardinality({}) < BatchSize
BY FS_EmptySet

(* The types of the three calls. *)
MakeType == [pc : {"idle", "walk", "flush", "finish"}, todo : SUBSET Files,
             queue : SUBSET FileEntry, batch : SUBSET FileEntry]
InstallType == [pc : {"idle", "query", "download", "complete"}, want : SUBSET FileEntry,
                asked : Builds]
DeleteType == [pc : {"idle", "objects", "flush", "finish", "stuck"}, todo : SUBSET FileEntry,
               keys : SUBSET FileEntry, batch : SUBSET FileEntry]

(* The inductive step for the types, one case per action. *)
LEMMA TypeStep == TypeOK /\ FiniteInv /\ [Next]_vars => TypeOK' /\ FiniteInv'
<1> SUFFICES ASSUME TypeOK, FiniteInv, [Next]_vars
             PROVE  TypeOK' /\ FiniteInv'
  OBVIOUS
<1> USE DEF TypeOK, FiniteInv
<1>1. CASE MakeStart
  <2>1. make' = [pc |-> "walk", todo |-> Files, queue |-> {}, batch |-> {}]
    BY <1>1 DEF MakeStart, IdleMake
  <2>2. touched' \in BOOLEAN /\ overlap' \in BOOLEAN
    BY <1>1 DEF MakeStart
  <2>3. build' \in Builds /\ pkg' = "writing" /\ upload' = [f \in Files |-> "no"]
    BY <1>1 DEF MakeStart, Started, Builds
  <2>4. UNCHANGED <<entries, objects, install, local, del, dropped>>
    BY <1>1 DEF MakeStart
  <2> QED
    BY <2>1, <2>2, <2>3, <2>4, EmptyBatch
<1>2. ASSUME NEW f \in Files, SkipFile(f) \/ StartUpload(f)
      PROVE  TypeOK' /\ FiniteInv'
  BY <1>2 DEF SkipFile, StartUpload
<1>3. ASSUME NEW f \in Files, Uploaded(f)
      PROVE  TypeOK' /\ FiniteInv'
  BY <1>3 DEF Uploaded, FileEntry
<1>4. ASSUME NEW f \in Files, UploadFails(f)
      PROVE  TypeOK' /\ FiniteInv'
  BY <1>4 DEF UploadFails, AfterFailure
<1>5. CASE UploadsDone
  BY <1>5 DEF UploadsDone
<1>6. ASSUME NEW e \in FileEntry, Record(e)
      PROVE  TypeOK' /\ FiniteInv'
  <2>1. IsFiniteSet(make.batch \cup {e})
        /\ (~BatchFull(make.batch \cup {e}) => Cardinality(make.batch \cup {e}) < BatchSize)
    BY BatchGrows
  <2>2. PICK b \in {{}, make.batch \cup {e}} :
           /\ make' = [make EXCEPT !.queue = @ \ {e}, !.batch = b]
           /\ b # {} => ~BatchFull(make.batch \cup {e})
    BY <1>6 DEF Record
  <2>3. IsFiniteSet(b) /\ Cardinality(b) < BatchSize /\ b \subseteq FileEntry
    BY <2>1, <2>2, EmptyBatch
  <2>4. make' \in MakeType /\ make'.batch = b
    BY <2>2, <2>3 DEF MakeType
  <2>5. entries' \subseteq FileEntry /\ dropped' \subseteq {"open", "record", "download"}
    BY <1>6 DEF Record, Recorded
  <2>6. UNCHANGED <<pkg, objects, build, upload, install, local, del, touched, overlap>>
    BY <1>6 DEF Record
  <2> QED
    BY <2>3, <2>4, <2>5, <2>6 DEF MakeType
<1>7. CASE RecordRest
  BY <1>7, EmptyBatch DEF RecordRest, Recorded
<1>8. CASE MakeEnds \/ MakeDies
  <2>1. make' = [pc |-> "idle", todo |-> {}, queue |-> {}, batch |-> {}]
    BY <1>8 DEF MakeEnds, MakeDies, IdleMake
  <2>2. pkg' \in {pkg, "complete"} /\ upload' \in {upload, [f \in Files |-> "no"]}
    BY <1>8 DEF MakeEnds, MakeDies
  <2>3. UNCHANGED <<entries, objects, build, install, local, del, touched, overlap, dropped>>
    BY <1>8 DEF MakeEnds, MakeDies
  <2> QED
    BY <2>1, <2>2, <2>3, EmptyBatch
<1>9. CASE InstallStart \/ InstallQuery \/ InstallEnds \/ InstallAgain
  <2>1. install' \in InstallType
    <3>1. CASE InstallStart
      <4>1. 0 \in Builds
        BY DEF Builds
      <4>2. install' = [pc |-> "query", want |-> {}, asked |-> IF touched THEN 0 ELSE build]
        BY <3>1 DEF InstallStart, IdleInstall
      <4> QED
        BY <4>1, <4>2 DEF InstallType
    <3>2. CASE InstallAgain
      BY <3>2 DEF InstallAgain, IdleInstall, InstallType, Builds
    <3>3. CASE InstallQuery \/ InstallEnds
      BY <3>3 DEF InstallQuery, InstallEnds, InstallType
    <3> QED
      BY <1>9, <3>1, <3>2, <3>3
  <2>2. UNCHANGED <<pkg, entries, objects, build, make, upload, local, del, touched, overlap,
                    dropped>>
    BY <1>9 DEF InstallStart, InstallQuery, InstallEnds, InstallAgain
  <2> QED
    BY <2>1, <2>2 DEF InstallType
<1>10. ASSUME NEW e \in FileEntry, Download(e)
       PROVE  TypeOK' /\ FiniteInv'
  BY <1>10 DEF Download, FileEntry, Builds
<1>11. CASE DeleteStart
  <2>1. del' = [pc |-> "objects", todo |-> entries, keys |-> {}, batch |-> {}]
    BY <1>11 DEF DeleteStart, IdleDelete
  <2>2. touched' \in BOOLEAN /\ overlap' \in BOOLEAN
    BY <1>11 DEF DeleteStart
  <2>3. install' \in InstallType
    BY <1>11 DEF DeleteStart, InstallType, Builds
  <2>4. UNCHANGED <<pkg, entries, objects, build, make, upload, local, dropped>>
    BY <1>11 DEF DeleteStart
  <2> QED
    BY <2>1, <2>2, <2>3, <2>4, EmptyBatch DEF InstallType
<1>12. ASSUME NEW e \in FileEntry, DeleteObject(e)
       PROVE  TypeOK' /\ FiniteInv'
  <2>1. del' = [del EXCEPT !.todo = @ \ {e}, !.keys = @ \cup {e}]
    BY <1>12 DEF DeleteObject
  <2>2. del' \in DeleteType /\ del'.batch = del.batch
    BY <2>1 DEF DeleteType
  <2>3. objects' \in [Files -> Builds]
    BY <1>12 DEF DeleteObject, FileEntry, Builds
  <2>4. UNCHANGED <<pkg, entries, build, make, upload, install, local, touched, overlap, dropped>>
    BY <1>12 DEF DeleteObject
  <2> QED
    BY <2>2, <2>3, <2>4 DEF DeleteType
<1>13. ASSUME NEW e \in FileEntry, DeleteKey(e)
       PROVE  TypeOK' /\ FiniteInv'
  <2>1. IsFiniteSet(del.batch \cup {e})
        /\ (~BatchFull(del.batch \cup {e}) => Cardinality(del.batch \cup {e}) < BatchSize)
    BY BatchGrows
  <2> DEFINE Goal == /\ del' \in DeleteType
                     /\ IsFiniteSet(del'.batch) /\ Cardinality(del'.batch) < BatchSize
  <2>2. ASSUME BatchFull(del.batch \cup {e})
        PROVE  Goal
    <3> DEFINE next == [del EXCEPT !.keys = @ \ {e}, !.batch = {}]
    <3>1. next \in DeleteType /\ next.batch = {}
      BY DEF DeleteType
    <3>2. [next EXCEPT !.pc = "stuck"] \in DeleteType /\ [next EXCEPT !.pc = "stuck"].batch = {}
      BY <3>1 DEF DeleteType
    <3>3. del' = next \/ del' = [next EXCEPT !.pc = "stuck"]
      BY <1>13, <2>2 DEF DeleteKey, DeletedBatch
    <3> QED
      BY <3>1, <3>2, <3>3, EmptyBatch
  <2>3. ASSUME ~BatchFull(del.batch \cup {e})
        PROVE  Goal
    <3>1. del' = [del EXCEPT !.keys = @ \ {e}, !.batch = del.batch \cup {e}]
      BY <1>13, <2>3 DEF DeleteKey
    <3>2. del' \in DeleteType /\ del'.batch = del.batch \cup {e}
      BY <3>1 DEF DeleteType
    <3> QED
      BY <2>1, <2>3, <3>2
  <2>4. Goal
    BY <2>2, <2>3
  <2>5. entries' \subseteq entries
    BY <1>13 DEF DeleteKey, DeletedBatch
  <2>6. UNCHANGED <<pkg, objects, build, make, upload, install, local, touched, overlap, dropped>>
    BY <1>13 DEF DeleteKey
  <2> QED
    BY <2>4, <2>5, <2>6 DEF DeleteType
<1>14. CASE ObjectsGone
  BY <1>14 DEF ObjectsGone
<1>15. CASE DeleteRest
  BY <1>15, EmptyBatch, ZenonT(40) DEF DeleteRest, DeletedBatch, LastBatch
<1>16. CASE DeleteEnds \/ DeleteDies
  <2>1. del' = [pc |-> "idle", todo |-> {}, keys |-> {}, batch |-> {}]
    BY <1>16 DEF DeleteEnds, DeleteDies, IdleDelete
  <2>2. pkg' \in {pkg, "none"}
    BY <1>16 DEF DeleteEnds, DeleteDies
  <2>3. UNCHANGED <<entries, objects, build, make, upload, install, local, touched, overlap,
                    dropped>>
    BY <1>16 DEF DeleteEnds, DeleteDies
  <2> QED
    BY <2>1, <2>2, <2>3, EmptyBatch
<1>17. CASE UNCHANGED vars
  BY <1>17 DEF vars
<1> QED
  BY <1>1, <1>2, <1>3, <1>4, <1>5, <1>6, <1>7, <1>8, <1>9, <1>10, <1>11, <1>12, <1>13, <1>14,
     <1>15, <1>16, <1>17 DEF Next, MakeStep, InstallStep, DeleteStep

-----------------------------------------------------------------------------
(* Who changes what: the steps of the three calls. *)

Making == MakeStart \/ MakeStep \/ MakeDies \/ \E f \in Files : UploadFails(f)
Installing == InstallStart \/ InstallStep \/ InstallAgain
Deleting == DeleteStart \/ DeleteStep \/ DeleteDies

(* An InstallPackage writes neither datastore nor the bucket. *)
LEMMA InstallFrame ==
  Installing => /\ UNCHANGED <<pkg, entries, objects, build, make, upload, del, touched, overlap>>
                /\ dropped \subseteq dropped'
BY DEF Installing, InstallStep, InstallStart, InstallQuery, Download, InstallEnds, InstallAgain

(* A DeletePackage leaves the other two calls' work alone. *)
LEMMA DeleteFrame == Deleting => UNCHANGED <<build, make, upload, local, dropped>>
BY DEF Deleting, DeleteStep, DeleteStart, DeleteObject, DeleteKey, ObjectsGone, DeleteRest,
       DeleteEnds, DeleteDies

(* A MakePackage only adds to datastore what it has queued, and leaves the other calls alone. *)
LEMMA MakeFrame ==
  Making => /\ UNCHANGED <<install, local, del>>
            /\ dropped \subseteq dropped'
            /\ entries \subseteq entries'
            /\ entries' \subseteq entries \cup make.batch \cup make.queue
<1> SUFFICES ASSUME Making
             PROVE  /\ UNCHANGED <<install, local, del>>
                    /\ dropped \subseteq dropped'
                    /\ entries \subseteq entries'
                    /\ entries' \subseteq entries \cup make.batch \cup make.queue
  OBVIOUS
<1>1. CASE \E e \in FileEntry : Record(e)
  BY <1>1 DEF Record, Recorded
<1>2. CASE RecordRest
  BY <1>2 DEF RecordRest, Recorded
<1>3. CASE \E f \in Files : SkipFile(f) \/ StartUpload(f) \/ Uploaded(f) \/ UploadFails(f)
  BY <1>3 DEF SkipFile, StartUpload, Uploaded, UploadFails
<1>4. CASE MakeStart \/ UploadsDone \/ MakeEnds \/ MakeDies
  BY <1>4 DEF MakeStart, UploadsDone, MakeEnds, MakeDies
<1> QED
  BY <1>1, <1>2, <1>3, <1>4 DEF Making, MakeStep

(* It only ever stores objects of the build it makes. *)
LEMMA MakeObjects ==
  TypeOK /\ Making =>
    \A f \in Files : objects'[f] = objects[f] \/ (objects'[f] = build /\ build' = build)
<1> SUFFICES ASSUME TypeOK, Making, NEW g \in Files
             PROVE  objects'[g] = objects[g] \/ (objects'[g] = build /\ build' = build)
  OBVIOUS
<1>1. CASE \E f \in Files : Uploaded(f) \/ UploadFails(f)
  BY <1>1 DEF Uploaded, UploadFails, TypeOK
<1>2. CASE objects' = objects
  BY <1>2
<1> QED
  BY <1>1, <1>2 DEF Making, MakeStep, MakeStart, SkipFile, StartUpload, UploadsDone, Record,
                    RecordRest, MakeEnds, MakeDies

(* The next-state relation, by call. *)
LEMMA NextByCall == [Next]_vars => Making \/ Installing \/ Deleting \/ UNCHANGED vars
BY DEF Next, Making, Installing, Deleting

-----------------------------------------------------------------------------
(* What MakePackage holds in memory. *)

(* The inductive step for MakeInv, one case per action of MakePackage. *)
LEMMA MakeInvStep == TypeOK /\ TypeOK' /\ MakeInv /\ [Next]_vars => MakeInv'
<1> SUFFICES ASSUME TypeOK, TypeOK', MakeInv, [Next]_vars
             PROVE  MakeInv'
  OBVIOUS
<1>0. build \in Nat /\ build' \in Nat /\ (\A e \in FileEntry : e.hash \in Nat /\ e.file \in Files)
      /\ (\A f \in Files : objects[f] \in Nat)
  BY DEF TypeOK, Builds, FileEntry
<1>1. CASE MakeStart
  <2>1. build' = build + 1 /\ pkg' = "writing" /\ entries' = entries /\ objects' = objects
    BY <1>1 DEF MakeStart, Started
  <2>2. make' = [pc |-> "walk", todo |-> Files, queue |-> {}, batch |-> {}]
    BY <1>1 DEF MakeStart, IdleMake
  <2>3. (\A e \in entries : e.hash <= build + 1) /\ (\A f \in Files : objects[f] <= build + 1)
    BY <1>0 DEF MakeInv, TypeOK
  <2> QED
    BY <2>1, <2>2, <2>3 DEF MakeInv
<1>2. ASSUME NEW f \in Files, SkipFile(f) \/ StartUpload(f)
      PROVE  MakeInv'
  BY <1>2 DEF SkipFile, StartUpload, MakeInv, TypeOK
<1>3. ASSUME NEW f \in Files, Uploaded(f)
      PROVE  MakeInv'
  <2>1. make.pc = "walk"
    BY <1>3 DEF Uploaded, MakeInv, SlotsTaken
  <2>2. \A e \in make'.queue \cup make'.batch : e.hash = build'
    BY <1>3 DEF Uploaded, MakeInv, TypeOK
  <2>3. \A g \in Files : objects'[g] <= build'
    BY <1>0, <1>3 DEF Uploaded, MakeInv, TypeOK
  <2>4. make'.pc = "walk" /\ pkg' = pkg /\ entries' = entries /\ build' = build
    BY <1>3, <2>1 DEF Uploaded, TypeOK
  <2> QED
    BY <2>1, <2>2, <2>3, <2>4 DEF MakeInv
<1>4. ASSUME NEW f \in Files, UploadFails(f)
      PROVE  MakeInv'
  <2>1. make.pc = "walk"
    BY <1>4 DEF UploadFails, MakeInv, SlotsTaken
  <2>2. \A g \in Files : objects'[g] <= build'
    BY <1>0, <1>4 DEF UploadFails, MakeInv, TypeOK
  <2>3. make' = make /\ pkg' = pkg /\ entries' = entries /\ build' = build
    BY <1>4 DEF UploadFails
  <2> QED
    BY <2>1, <2>2, <2>3 DEF MakeInv
<1>5. CASE UploadsDone
  <2>1. make' = [make EXCEPT !.pc = "flush"] /\ make.todo = {} /\ SlotsTaken = {} /\ make.pc = "walk"
        /\ UNCHANGED <<pkg, entries, objects, build, upload>>
    BY <1>5 DEF UploadsDone
  <2>2. SlotsTaken' = {}
    BY <2>1 DEF SlotsTaken
  <2> QED
    BY <2>1, <2>2 DEF MakeInv, TypeOK
<1>6. ASSUME NEW e \in FileEntry, Record(e)
      PROVE  MakeInv'
  <2>1. make.queue # {} /\ UNCHANGED <<pkg, objects, build, upload>>
    BY <1>6 DEF Record
  <2>2. /\ make'.pc = make.pc /\ make'.todo = make.todo
        /\ make'.queue \subseteq make.queue
        /\ make'.batch \subseteq make.batch \cup {e} /\ e \in make.queue
    <3>1. e \in make.queue
      BY <1>6 DEF Record
    <3>2. \E b \in {{}, make.batch \cup {e}} : make' = [make EXCEPT !.queue = @ \ {e}, !.batch = b]
      BY <1>6 DEF Record
    <3> QED
      BY <3>1, <3>2 DEF TypeOK
  <2>3. SlotsTaken' = SlotsTaken
    BY <2>1 DEF SlotsTaken
  <2>4. entries' \subseteq entries \cup make.batch \cup make.queue
    BY <1>6, MakeFrame DEF Making, MakeStep
  <2>5. make.pc \notin {"idle", "finish"}
    BY <2>1 DEF MakeInv
  <2>6. \A x \in entries' : x.hash <= build
    BY <1>0, <2>4 DEF MakeInv, TypeOK
  <2>7. \A x \in make'.queue \cup make'.batch : x.hash = build
    BY <2>2 DEF MakeInv
  <2> QED
    BY <2>1, <2>2, <2>3, <2>5, <2>6, <2>7 DEF MakeInv
<1>7. CASE RecordRest
  <2>1. /\ make.pc = "flush" /\ make.queue = {} /\ UNCHANGED <<pkg, objects, build, upload>>
        /\ make' = [make EXCEPT !.pc = "finish", !.batch = {}]
    BY <1>7 DEF RecordRest
  <2>2. make'.pc = "finish" /\ make'.todo = {} /\ make'.queue = {} /\ make'.batch = {}
    BY <2>1 DEF TypeOK, MakeInv
  <2>3. SlotsTaken' = {}
    BY <2>1 DEF SlotsTaken, MakeInv
  <2>4. entries' \subseteq entries \cup make.batch \cup make.queue
    BY <1>7, MakeFrame DEF Making, MakeStep
  <2>5. \A x \in entries' : x.hash <= build
    BY <1>0, <2>4 DEF MakeInv, TypeOK
  <2> QED
    BY <2>1, <2>2, <2>3, <2>5 DEF MakeInv
<1>8. CASE MakeEnds \/ MakeDies
  <2>1. make' = [pc |-> "idle", todo |-> {}, queue |-> {}, batch |-> {}]
    BY <1>8 DEF MakeEnds, MakeDies, IdleMake
  <2>2. UNCHANGED <<entries, objects, build>>
    BY <1>8 DEF MakeEnds, MakeDies
  <2>3. SlotsTaken' = {}
    BY <1>8 DEF MakeEnds, MakeDies, SlotsTaken, MakeInv
  <2> QED
    BY <2>1, <2>2, <2>3 DEF MakeInv
<1>9. CASE Installing \/ UNCHANGED vars
  BY <1>9, InstallFrame DEF vars, MakeInv, SlotsTaken
<1>10. CASE Deleting
  <2>1. UNCHANGED <<build, make, upload>>
    BY <1>10, DeleteFrame
  <2>2. entries' \subseteq entries
    BY <1>10 DEF Deleting, DeleteStep, DeleteStart, DeleteObject, DeleteKey, ObjectsGone,
                 DeleteRest, DeleteEnds, DeleteDies, DeletedBatch
  <2>3. \A f \in Files : objects'[f] \in {0, objects[f]}
    <3>1. CASE \E e \in FileEntry : DeleteObject(e)
      BY <3>1 DEF DeleteObject, TypeOK
    <3>2. CASE objects' = objects
      BY <3>2
    <3> QED
      BY <1>10, <3>1, <3>2 DEF Deleting, DeleteStep, DeleteStart, DeleteKey, ObjectsGone,
                 DeleteRest, DeleteEnds, DeleteDies
  <2>4. pkg' \in {pkg, "none"}
    BY <1>10 DEF Deleting, DeleteStep, DeleteStart, DeleteObject, DeleteKey, ObjectsGone,
                 DeleteRest, DeleteEnds, DeleteDies
  <2>5. SlotsTaken' = SlotsTaken
    BY <2>1 DEF SlotsTaken
  <2>6. \A f \in Files : objects'[f] <= build
    BY <1>0, <2>3 DEF MakeInv
  <2> QED
    BY <2>1, <2>2, <2>4, <2>5, <2>6 DEF MakeInv
<1> QED
  BY <1>1, <1>2, <1>3, <1>4, <1>5, <1>6, <1>7, <1>8, <1>9, <1>10, NextByCall
  DEF Making, MakeStep

(* Every step of a MakePackage but its first finds it running, on the same build. *)
LEMMA MakeRuns ==
  MakeInv /\ Making /\ ~MakeStart =>
    make.pc # "idle" /\ UNCHANGED <<build, touched, overlap>> /\ pkg' \in {pkg, "complete"}
<1> SUFFICES ASSUME MakeInv, Making, ~MakeStart
             PROVE  /\ make.pc # "idle" /\ UNCHANGED <<build, touched, overlap>>
                    /\ pkg' \in {pkg, "complete"}
  OBVIOUS
<1>1. CASE \E e \in FileEntry : Record(e)
  BY <1>1 DEF Record, MakeInv
<1>2. CASE \E f \in Files : Uploaded(f) \/ UploadFails(f)
  BY <1>2 DEF Uploaded, UploadFails, MakeInv, SlotsTaken
<1>3. CASE \E f \in Files : SkipFile(f) \/ StartUpload(f)
  BY <1>3 DEF SkipFile, StartUpload
<1>4. CASE UploadsDone \/ RecordRest \/ MakeEnds \/ MakeDies
  BY <1>4 DEF UploadsDone, RecordRest, MakeEnds, MakeDies
<1> QED
  BY <1>1, <1>2, <1>3, <1>4 DEF Making, MakeStep

(* recordFileEntries moves one entry from the channel to the batch, or the batch with it to
   datastore, unless the error of the write is dropped. *)
LEMMA RecordMoves ==
  ASSUME TypeOK, NEW e \in FileEntry, Record(e)
  PROVE  /\ e \in make.queue
         /\ make'.pc = make.pc /\ make'.todo = make.todo /\ make'.queue = make.queue \ {e}
         /\ \/ make'.batch = make.batch \cup {e} /\ entries' = entries
            \/ make'.batch = {} /\ entries' = entries \cup make.batch \cup {e}
            \/ make'.batch = {} /\ entries' = entries /\ "record" \in dropped'
<1>1. e \in make.queue
  BY DEF Record
<1>2. CASE BatchFull(make.batch \cup {e})
  <2>1. make' = [make EXCEPT !.queue = @ \ {e}, !.batch = {}]
    BY <1>2 DEF Record
  <2>2. entries' = entries \cup make.batch \cup {e} \/ (entries' = entries /\ "record" \in dropped')
    BY <1>2 DEF Record, Recorded
  <2> QED
    BY <1>1, <2>1, <2>2 DEF TypeOK
<1>3. CASE ~BatchFull(make.batch \cup {e})
  <2>1. make' = [make EXCEPT !.queue = @ \ {e}, !.batch = make.batch \cup {e}] /\ entries' = entries
    BY <1>3 DEF Record
  <2> QED
    BY <1>1, <2>1 DEF TypeOK
<1> QED
  BY <1>2, <1>3

-----------------------------------------------------------------------------
(* What is queued, batched or recorded is in the bucket. *)

(* DeletePackage leaves its mark. *)
LEMMA DeleteTouches == TypeOK /\ StoredInv /\ Deleting => touched'
<1> SUFFICES ASSUME TypeOK, StoredInv, Deleting
             PROVE  touched'
  OBVIOUS
<1>1. CASE DeleteStart
  BY <1>1 DEF DeleteStart
<1>2. CASE DeleteStep \/ DeleteDies
  <2>1. del.pc # "idle" /\ touched' = touched
    BY <1>2 DEF DeleteStep, DeleteDies, DeleteObject, DeleteKey, ObjectsGone, DeleteRest,
                DeleteEnds
  <2> QED
    BY <2>1 DEF StoredInv
<1> QED
  BY <1>1, <1>2 DEF Deleting

(* The entries on their way to datastore or there. *)
Known == make.queue \cup make.batch \cup entries

(* The inductive step for StoredInv: an entry is queued after its object is stored. *)
LEMMA StoredStep == TypeOK /\ TypeOK' /\ MakeInv /\ StoredInv /\ [Next]_vars => StoredInv'
<1> SUFFICES ASSUME TypeOK, TypeOK', MakeInv, StoredInv, [Next]_vars, ~touched'
             PROVE  /\ del'.pc = "idle"
                    /\ \A x \in Known' : x.hash = build' => objects'[x.file] = build'
  BY DEF StoredInv, Known
<1> DEFINE Goal == /\ del'.pc = "idle"
                   /\ \A x \in Known' : x.hash = build' => objects'[x.file] = build'
<1>0. /\ build \in Nat /\ Known \subseteq FileEntry
      /\ \A e \in FileEntry : e.hash \in Nat /\ e.file \in Files
  BY DEF TypeOK, Builds, FileEntry, Known
<1>1. CASE MakeStart
  <2>1. make'.queue = {} /\ make'.batch = {} /\ entries' = entries /\ build' = build + 1
    BY <1>1 DEF MakeStart, IdleMake
  <2>2. \A x \in Known' : x.hash # build'
    BY <1>0, <2>1 DEF MakeInv, Known
  <2>3. del'.pc = "idle"
    BY <1>1 DEF MakeStart
  <2> QED
    BY <2>2, <2>3
<1>2. CASE Making /\ ~MakeStart
  <2>1. UNCHANGED <<build, touched, del>>
    BY <1>2, MakeRuns, MakeFrame
  <2>2. \A x \in Known' : x \in Known \/ objects'[x.file] = build
    <3>1. CASE \E f \in Files : Uploaded(f)
      BY <3>1 DEF Uploaded, Known, TypeOK
    <3>2. CASE \E e \in FileEntry : Record(e)
      BY <3>2, RecordMoves DEF Known
    <3>3. CASE RecordRest
      BY <3>3 DEF RecordRest, Recorded, Known, TypeOK
    <3>4. CASE MakeEnds \/ MakeDies
      BY <3>4 DEF MakeEnds, MakeDies, IdleMake, Known
    <3>5. CASE (\E f \in Files : SkipFile(f) \/ StartUpload(f) \/ UploadFails(f)) \/ UploadsDone
      BY <3>5 DEF SkipFile, StartUpload, UploadFails, UploadsDone, Known, TypeOK
    <3> QED
      BY <1>2, <3>1, <3>2, <3>3, <3>4, <3>5 DEF Making, MakeStep
  <2>3. \A x \in Known : x.hash = build => objects[x.file] = build
    BY <2>1 DEF StoredInv, Known
  <2>4. \A f \in Files : objects'[f] = objects[f] \/ objects'[f] = build
    BY <1>2, MakeObjects
  <2>5. del'.pc = "idle"
    BY <2>1 DEF StoredInv
  <2> QED
    BY <1>0, <2>1, <2>2, <2>3, <2>4, <2>5
<1>3. CASE Installing \/ UNCHANGED vars
  BY <1>3, InstallFrame DEF vars, StoredInv, Known
<1>4. CASE Deleting
  BY <1>4, DeleteTouches
<1> QED
  BY <1>1, <1>2, <1>3, <1>4, NextByCall

-----------------------------------------------------------------------------
(* No file gets lost on its way to datastore. *)

(* Somebody still has the file. *)
Held(f) == f \in make.todo \cup SlotsTaken \/ EntryIn(Known, f)

(* The inductive step for NoneLostInv: every step hands a file on or drops an error. *)
LEMMA NoneLostStep ==
  TypeOK /\ TypeOK' /\ MakeInv /\ StoredInv /\ NoneLostInv /\ [Next]_vars => NoneLostInv'
<1> SUFFICES ASSUME TypeOK, TypeOK', MakeInv, StoredInv, NoneLostInv, [Next]_vars,
                    ~touched', dropped' \cap {"open", "record"} = {}
             PROVE  /\ make'.pc # "idle" => \A f \in Files : Held(f)'
                    /\ pkg' = "complete" => \A f \in Files : EntryIn(entries, f)'
  BY DEF NoneLostInv, Held, Known
<1> DEFINE Goal == /\ make'.pc # "idle" => \A f \in Files : Held(f)'
                   /\ pkg' = "complete" => \A f \in Files : EntryIn(entries, f)'
<1>1. CASE MakeStart
  BY <1>1 DEF MakeStart, IdleMake, Started, Held
<1>2. CASE Making /\ ~MakeStart
  <2>1. /\ make.pc # "idle" /\ UNCHANGED <<build, touched, del>>
        /\ dropped \subseteq dropped' /\ entries \subseteq entries'
    BY <1>2, MakeRuns, MakeFrame
  <2>2. pkg # "complete" /\ \A f \in Files : Held(f)
    BY <2>1 DEF MakeInv, NoneLostInv, Held, Known
  <2>3. CASE MakeEnds
    <3>1. make.pc = "finish" /\ make'.pc = "idle" /\ UNCHANGED <<entries, build>>
      BY <2>3 DEF MakeEnds, IdleMake
    <3>2. make.todo = {} /\ SlotsTaken = {} /\ make.queue = {} /\ make.batch = {}
      BY <3>1 DEF MakeInv
    <3>3. \A f \in Files : EntryIn(entries, f)
      BY <2>2, <3>2 DEF Held, Known
    <3> QED
      BY <3>1, <3>3 DEF EntryIn
  <2>4. CASE MakeDies
    BY <2>2, <2>4 DEF MakeDies, IdleMake
  <2>5. CASE ~MakeEnds /\ ~MakeDies
    <3>1. pkg' = pkg
      BY <1>2, <2>5 DEF Making, MakeStep, SkipFile, StartUpload, Uploaded, UploadFails,
                        UploadsDone, Record, RecordRest
    <3>2. ASSUME NEW f \in Files
          PROVE  Held(f)'
      <4>0. Held(f) /\ build' = build
        BY <2>1, <2>2
      <4>1. ASSUME NEW g \in Files, Uploaded(g)
            PROVE  Held(f)'
        <5>1. /\ make'.todo = make.todo /\ Known' = Known \cup {[file |-> g, hash |-> build]}
              /\ SlotsTaken \subseteq SlotsTaken' \cup {g}
          BY <4>1 DEF Uploaded, Known, SlotsTaken, TypeOK
        <5>2. CASE f = g
          <6>1. [file |-> g, hash |-> build] \in Known'
            BY <5>1
          <6>2. EntryIn(Known', f)
            BY <5>2, <6>1 DEF EntryIn
          <6> QED
            BY <4>0, <6>2 DEF Held, EntryIn
        <5>3. CASE f # g
          BY <4>0, <5>1, <5>3 DEF Held, EntryIn
        <5> QED
          BY <5>2, <5>3
      <4>2. ASSUME NEW e \in FileEntry, Record(e)
            PROVE  Held(f)'
        <5>1. Known \subseteq Known' /\ make'.todo = make.todo
          BY <4>2, RecordMoves DEF Known
        <5>2. SlotsTaken' = SlotsTaken
          BY <4>2 DEF Record, SlotsTaken
        <5> QED
          BY <4>0, <5>1, <5>2 DEF Held, EntryIn
      <4>3. CASE RecordRest
        <5>1. Known \subseteq Known' /\ make'.todo = make.todo
          BY <4>3 DEF RecordRest, Recorded, Known, TypeOK
        <5>2. SlotsTaken' = SlotsTaken
          BY <4>3 DEF RecordRest, SlotsTaken
        <5> QED
          BY <4>0, <5>1, <5>2 DEF Held, EntryIn
      <4>4. ASSUME NEW g \in Files, StartUpload(g) \/ UploadFails(g)
            PROVE  Held(f)'
        <5>1. Known' = Known
          BY <4>4 DEF StartUpload, UploadFails, Known, TypeOK
        <5>2. make.todo \cup SlotsTaken \subseteq make'.todo \cup SlotsTaken'
          BY <4>4 DEF StartUpload, UploadFails, AfterFailure, SlotsTaken, TypeOK
        <5> QED
          BY <4>0, <5>1, <5>2 DEF Held, EntryIn
      <4>5. CASE UploadsDone
        <5>1. Known' = Known /\ make'.todo = make.todo
          BY <4>5 DEF UploadsDone, Known, TypeOK
        <5>2. SlotsTaken' = SlotsTaken
          BY <4>5 DEF UploadsDone, SlotsTaken
        <5> QED
          BY <4>0, <5>1, <5>2 DEF Held, EntryIn
      <4>6. ASSUME NEW g \in Files, SkipFile(g)
            PROVE  FALSE
        BY <4>6 DEF SkipFile
      <4> QED
        BY <1>2, <2>5, <4>1, <4>2, <4>3, <4>4, <4>5, <4>6 DEF Making, MakeStep
    <3> QED
      BY <2>2, <3>1, <3>2
  <2> QED
    BY <2>3, <2>4, <2>5
<1>3. CASE Installing \/ UNCHANGED vars
  <2>1. /\ UNCHANGED <<pkg, entries, build, make, upload, touched>>
        /\ dropped \subseteq dropped'
    BY <1>3, InstallFrame DEF vars
  <2>2. SlotsTaken' = SlotsTaken /\ Known' = Known
    BY <2>1 DEF SlotsTaken, Known
  <2>3. /\ make.pc # "idle" => \A f \in Files : Held(f)
        /\ pkg = "complete" => \A f \in Files : EntryIn(entries, f)
    BY <2>1 DEF NoneLostInv, Held, Known
  <2> QED
    BY <2>1, <2>2, <2>3 DEF Held, EntryIn
<1>4. CASE Deleting
  BY <1>4, DeleteTouches
<1> QED
  BY <1>1, <1>2, <1>3, <1>4, NextByCall

-----------------------------------------------------------------------------
(* An install finds what it was promised. *)

(* The file is on the disk, or an entry that brings it is still in S. *)
Comes(S, f) == local[f] >= install.asked \/ \E e \in S : e.file = f /\ e.hash >= install.asked

(* What InstallInv says of an install that may expect a build. *)
Promised ==
  /\ \A f \in Files : objects[f] >= install.asked
  /\ install.pc = "query" =>
       \A f \in Files : \E e \in entries : e.file = f /\ e.hash >= install.asked
  /\ install.pc = "download" => \A f \in Files : Comes(install.want, f)
  /\ install.pc = "complete" => \A f \in Files : local[f] >= install.asked

(* The inductive step for InstallInv, one case per action of InstallPackage. *)
LEMMA InstallInvStep ==
  TypeOK /\ TypeOK' /\ MakeInv /\ StoredInv /\ NoneLostInv /\ InstallInv /\ [Next]_vars
  => InstallInv'
<1> SUFFICES ASSUME TypeOK, TypeOK', MakeInv, StoredInv, NoneLostInv, InstallInv, [Next]_vars
             PROVE  InstallInv'
  OBVIOUS
<1>0. /\ build \in Nat /\ build' \in Nat /\ install.asked \in Nat /\ install'.asked \in Nat
      /\ \A f \in Files : local[f] \in Nat /\ objects[f] \in Nat
      /\ \A e \in FileEntry : e.hash \in Nat /\ e.file \in Files
  BY DEF TypeOK, Builds, FileEntry
<1>P. install.asked > 0 /\ dropped = {} => Promised
  BY DEF InstallInv, Promised, Comes
<1> SUFFICES /\ install'.pc # "download" => install'.want = {}
             /\ install'.asked > 0 => ~touched' /\ install'.asked <= build'
             /\ install'.asked > 0 /\ dropped' = {} => Promised'
  BY DEF InstallInv, Promised, Comes
<1> DEFINE Goal == /\ install'.pc # "download" => install'.want = {}
                   /\ install'.asked > 0 => ~touched' /\ install'.asked <= build'
                   /\ install'.asked > 0 /\ dropped' = {} => Promised'
<1>1. CASE InstallStart
  <2>1. /\ pkg = "complete"
        /\ install' = [pc |-> "query", want |-> {}, asked |-> IF touched THEN 0 ELSE build]
        /\ UNCHANGED <<entries, objects, build, touched, dropped>>
    BY <1>1 DEF InstallStart, Installable, IdleInstall
  <2>2. ASSUME install'.asked > 0
        PROVE  ~touched /\ install'.asked = build
    BY <1>0, <2>1, <2>2
  <2>3. ASSUME install'.asked > 0, dropped = {}
        PROVE  Promised'
    <3>1. \A f \in Files : EntryIn(entries, f)
      BY <2>1, <2>2, <2>3 DEF NoneLostInv
    <3>2. \A e \in entries : e.hash = build => objects[e.file] = build
      BY <2>2, <2>3 DEF StoredInv
    <3>3. \A f \in Files : objects[f] = build
      BY <3>1, <3>2 DEF EntryIn
    <3>4. \A f \in Files : \E e \in entries : e.file = f /\ e.hash >= build
      BY <1>0, <3>1 DEF EntryIn
    <3> QED
      BY <1>0, <2>1, <2>2, <2>3, <3>3, <3>4 DEF Promised
  <2> QED
    BY <1>0, <2>1, <2>2, <2>3
<1>2. CASE InstallQuery
  <2>1. /\ install.pc = "query" /\ install' = [install EXCEPT !.pc = "download", !.want = entries]
        /\ UNCHANGED <<entries, objects, build, local, touched, dropped>>
    BY <1>2 DEF InstallQuery
  <2>2. install'.pc = "download" /\ install'.want = entries /\ install'.asked = install.asked
    BY <2>1 DEF TypeOK
  <2> QED
    BY <1>P, <2>1, <2>2 DEF InstallInv, Promised, Comes
<1>3. ASSUME NEW e \in FileEntry, Download(e)
      PROVE  Goal
  <2>1. /\ e \in install.want /\ install' = [install EXCEPT !.want = @ \ {e}]
        /\ UNCHANGED <<entries, objects, build, touched>>
    BY <1>3 DEF Download
  <2>2. /\ install'.pc = install.pc /\ install'.want = install.want \ {e}
        /\ install'.asked = install.asked
    BY <2>1 DEF TypeOK
  <2>3. install.pc = "download"
    BY <2>1 DEF InstallInv
  <2>4. ASSUME install.asked > 0, dropped' = {}
        PROVE  Promised'
    <3>1. dropped = {} /\ Promised
      BY <1>3, <1>P, <2>4 DEF Download
    <3>2. \/ /\ local[e.file] # e.hash
             /\ local' = [local EXCEPT ![e.file] = objects[e.file]]
          \/ local[e.file] = e.hash /\ local' = local
      BY <1>0, <1>3, <2>4, <3>1 DEF Download, UpToDate, Promised
    <3>3. ASSUME NEW f \in Files
          PROVE  Comes(install.want, f)'
      <4>1. Comes(install.want, f)
        BY <2>3, <3>1 DEF Promised
      <4>2. CASE f = e.file /\ local' = [local EXCEPT ![e.file] = objects[e.file]]
        <5>1. local'[f] = objects[f]
          BY <1>0, <4>2 DEF TypeOK
        <5> QED
          BY <2>2, <3>1, <5>1 DEF Promised, Comes
      <4>3. CASE f = e.file /\ local' = local /\ local[e.file] = e.hash
        BY <1>0, <2>2, <4>1, <4>3 DEF Comes
      <4>4. CASE f # e.file
        <5>1. local'[f] = local[f]
          BY <3>2, <4>4 DEF TypeOK
        <5> QED
          BY <2>2, <4>1, <4>4, <5>1 DEF Comes
      <4> QED
        BY <3>2, <4>2, <4>3, <4>4
    <3> QED
      BY <2>1, <2>2, <2>3, <3>1, <3>3 DEF Promised, Comes
  <2> QED
    BY <2>1, <2>2, <2>3, <2>4 DEF InstallInv
<1>4. CASE InstallEnds
  <2>1. /\ install.pc = "download" /\ install.want = {}
        /\ install' = [install EXCEPT !.pc = "complete"]
        /\ UNCHANGED <<entries, objects, build, local, touched, dropped>>
    BY <1>4 DEF InstallEnds
  <2>2. install'.pc = "complete" /\ install'.want = {} /\ install'.asked = install.asked
    BY <2>1 DEF TypeOK
  <2> QED
    BY <1>P, <2>1, <2>2 DEF InstallInv, Promised, Comes
<1>5. CASE InstallAgain
  <2>1. install'.pc = "idle" /\ install'.want = {} /\ install'.asked = 0
    BY <1>5 DEF InstallAgain, IdleInstall
  <2> QED
    BY <2>1
<1>6. CASE Making
  <2>1. /\ UNCHANGED <<install, local, del>> /\ dropped \subseteq dropped'
        /\ entries \subseteq entries'
    BY <1>6, MakeFrame
  <2>2. build <= build' /\ \A f \in Files : objects'[f] \in {objects[f], build}
    <3>1. CASE MakeStart
      BY <1>0, <3>1 DEF MakeStart
    <3>2. CASE ~MakeStart
      BY <1>0, <1>6, <3>2, MakeRuns, MakeObjects
    <3> QED
      BY <3>1, <3>2
  <2>3. install.asked > 0 => ~touched'
    <3>1. CASE MakeStart
      BY <3>1 DEF MakeStart, InstallInv, StoredInv
    <3>2. CASE ~MakeStart
      BY <1>6, <3>2, MakeRuns DEF InstallInv
    <3> QED
      BY <3>1, <3>2
  <2>4. install.asked > 0 => install.asked <= build
    BY DEF InstallInv
  <2>5. ASSUME install.asked > 0, dropped' = {}
        PROVE  Promised'
    <3>1. Promised
      BY <1>P, <2>1, <2>5
    <3>2. \A f \in Files : objects'[f] >= install.asked
      BY <1>0, <2>2, <2>4, <2>5, <3>1 DEF Promised
    <3> QED
      BY <2>1, <3>1, <3>2 DEF Promised, Comes
  <2> QED
    BY <1>0, <2>1, <2>2, <2>3, <2>4, <2>5 DEF InstallInv
<1>7. CASE Deleting
  <2>1. install'.pc = install.pc /\ install'.want = install.want /\ install'.asked = 0
    <3>1. CASE DeleteStart
      BY <3>1 DEF DeleteStart, TypeOK
    <3>2. CASE DeleteStep \/ DeleteDies
      <4>1. install' = install /\ touched' = touched
        BY <3>2 DEF DeleteStep, DeleteDies, DeleteObject, DeleteKey, ObjectsGone, DeleteRest,
                    DeleteEnds
      <4>2. touched
        BY <1>7, <4>1, DeleteTouches
      <4> QED
        BY <1>0, <4>1, <4>2 DEF InstallInv
    <3> QED
      BY <1>7, <3>1, <3>2 DEF Deleting
  <2> QED
    BY <2>1 DEF InstallInv
<1>8. CASE UNCHANGED vars
  BY <1>P, <1>8 DEF vars, InstallInv, Promised, Comes
<1> QED
  BY <1>1, <1>2, <1>3, <1>4, <1>5, <1>6, <1>7, <1>8, NextByCall DEF Installing, InstallStep

-----------------------------------------------------------------------------
(* DeletePackage leaves no entry behind. *)

(* The inductive step for DeleteInv, one case per action of DeletePackage. *)
LEMMA DeleteInvStep == TypeOK /\ TypeOK' /\ MakeInv /\ DeleteInv /\ [Next]_vars => DeleteInv'
<1> SUFFICES ASSUME TypeOK, TypeOK', MakeInv, DeleteInv, [Next]_vars
             PROVE  DeleteInv'
  OBVIOUS
<1>1. CASE MakeStart
  <2>1. overlap' = (overlap \/ del.pc # "idle") /\ pkg' = "writing" /\ del' = del
    BY <1>1 DEF MakeStart, Started
  <2> QED
    BY <2>1 DEF DeleteInv
<1>2. CASE Making /\ ~MakeStart
  <2>1. make.pc # "idle" /\ UNCHANGED <<overlap, del>> /\ pkg' \in {pkg, "complete"}
    BY <1>2, MakeRuns, MakeFrame
  <2> QED
    BY <2>1 DEF DeleteInv
<1>3. CASE Installing \/ UNCHANGED vars
  BY <1>3, InstallFrame DEF vars, DeleteInv
<1>4. CASE DeleteStart
  <2>1. /\ del' = [pc |-> "objects", todo |-> entries, keys |-> {}, batch |-> {}]
        /\ overlap' = (make.pc # "idle") /\ pkg # "none"
        /\ UNCHANGED <<pkg, entries, make>>
    BY <1>4 DEF DeleteStart, IdleDelete
  <2> QED
    BY <2>1 DEF DeleteInv
<1>5. ASSUME NEW e \in FileEntry, DeleteObject(e)
      PROVE  DeleteInv'
  <2>1. /\ del.pc \in {"objects", "stuck"}
        /\ del' = [del EXCEPT !.todo = @ \ {e}, !.keys = @ \cup {e}]
        /\ UNCHANGED <<pkg, entries, make, overlap>>
    BY <1>5 DEF DeleteObject
  <2>2. /\ del'.pc = del.pc /\ del'.todo = del.todo \ {e} /\ del'.keys = del.keys \cup {e}
        /\ del'.batch = del.batch
    BY <2>1 DEF TypeOK
  <2> QED
    BY <2>1, <2>2 DEF DeleteInv
<1>6. ASSUME NEW e \in FileEntry, DeleteKey(e)
      PROVE  DeleteInv'
  <2>1. del.pc \in {"objects", "flush"} /\ UNCHANGED <<pkg, make, overlap>>
    BY <1>6 DEF DeleteKey
  <2>2. CASE ~BatchFull(del.batch \cup {e})
    <3>1. /\ del' = [del EXCEPT !.keys = @ \ {e}, !.batch = del.batch \cup {e}]
          /\ entries' = entries
      BY <1>6, <2>2 DEF DeleteKey
    <3>2. /\ del'.pc = del.pc /\ del'.todo = del.todo /\ del'.keys = del.keys \ {e}
          /\ del'.batch = del.batch \cup {e}
      BY <3>1 DEF TypeOK
    <3> QED
      BY <2>1, <3>1, <3>2 DEF DeleteInv
  <2>3. CASE BatchFull(del.batch \cup {e})
    <3> DEFINE next == [del EXCEPT !.keys = @ \ {e}, !.batch = {}]
    <3>1. DeletedBatch(del.batch \cup {e}, next)
      BY <1>6, <2>3 DEF DeleteKey
    <3>2. /\ next.pc = del.pc /\ next.todo = del.todo /\ next.keys = del.keys \ {e}
          /\ next.batch = {}
      BY DEF TypeOK
    <3>3. [next EXCEPT !.pc = "stuck"].pc = "stuck"
      BY DEF TypeOK
    <3> HIDE DEF next
    <3>4. CASE del' = next /\ entries' = entries \ (del.batch \cup {e})
      BY <2>1, <3>2, <3>4 DEF DeleteInv
    <3>5. CASE del' = [next EXCEPT !.pc = "stuck"] /\ entries' = entries
      BY <2>1, <3>3, <3>5 DEF DeleteInv
    <3> QED
      BY <3>1, <3>4, <3>5 DEF DeletedBatch
  <2> QED
    BY <2>2, <2>3
<1>7. CASE ObjectsGone
  <2>1. /\ del.pc = "objects" /\ del.todo = {} /\ del' = [del EXCEPT !.pc = "flush"]
        /\ UNCHANGED <<pkg, entries, make, overlap>>
    BY <1>7 DEF ObjectsGone
  <2>2. /\ del'.pc = "flush" /\ del'.todo = {} /\ del'.keys = del.keys
        /\ del'.batch = del.batch
    BY <2>1 DEF TypeOK
  <2> QED
    BY <2>1, <2>2 DEF DeleteInv
<1>8. CASE DeleteRest
  <2> DEFINE next == [del EXCEPT !.pc = "finish", !.batch = {}]
  <2>1. /\ del.pc = "flush" /\ del.keys = {} /\ DeletedBatch(del.batch, next)
        /\ UNCHANGED <<pkg, make, overlap>>
    BY <1>8 DEF DeleteRest, LastBatch
  <2>2. next.pc = "finish" /\ next.todo = {}
    BY <2>1 DEF TypeOK, DeleteInv
  <2>3. [next EXCEPT !.pc = "stuck"].pc = "stuck"
    BY DEF TypeOK
  <2> HIDE DEF next
  <2>4. CASE del' = next /\ entries' = entries \ del.batch
    BY <2>1, <2>2, <2>4 DEF DeleteInv
  <2>5. CASE del' = [next EXCEPT !.pc = "stuck"] /\ entries' = entries
    BY <2>1, <2>3, <2>5 DEF DeleteInv
  <2> QED
    BY <2>1, <2>4, <2>5 DEF DeletedBatch
<1>9. CASE DeleteEnds \/ DeleteDies
  <2>1. /\ del'.pc = "idle" /\ del.pc # "idle" /\ UNCHANGED <<entries, make, overlap>>
        /\ pkg' = pkg \/ (pkg' = "none" /\ del.pc = "finish")
    BY <1>9 DEF DeleteEnds, DeleteDies, IdleDelete
  <2> QED
    BY <2>1 DEF DeleteInv
<1> QED
  BY <1>1, <1>2, <1>3, <1>4, <1>5, <1>6, <1>7, <1>8, <1>9, NextByCall DEF Deleting, DeleteStep

-----------------------------------------------------------------------------
(* The results. *)

(* The inductive invariant. *)
BuildDistInv == MakeInv /\ StoredInv /\ NoneLostInv /\ InstallInv /\ DeleteInv

(* Every variable keeps its type, and no batch ever holds more than datastore takes. *)
THEOREM TypeCorrect == Spec => []TypeOK
<1>1. Init => TypeOK /\ FiniteInv
  <2> SUFFICES ASSUME Init
               PROVE  TypeOK /\ FiniteInv
    OBVIOUS
  <2>1. /\ make \in MakeType /\ make.batch = {}
        /\ del \in DeleteType /\ del.batch = {}
    BY DEF Init, IdleMake, IdleDelete, MakeType, DeleteType
  <2>2. 0 \in Builds
    BY DEF Builds
  <2>3. install \in InstallType
    BY <2>2 DEF Init, IdleInstall, InstallType
  <2>4. /\ pkg = "none" /\ entries = {} /\ build = 0 /\ touched \in BOOLEAN /\ overlap \in BOOLEAN
        /\ objects = [f \in Files |-> 0] /\ upload = [f \in Files |-> "no"]
        /\ local = [f \in Files |-> 0] /\ dropped = {}
    BY DEF Init
  <2> QED
    BY <2>1, <2>2, <2>3, <2>4, EmptyBatch DEF TypeOK, FiniteInv, MakeType, InstallType, DeleteType
<1> QED
  BY <1>1, TypeStep, PTL DEF Spec

(* The inductive invariant holds of every behaviour. *)
LEMMA InvCorrect == Spec => []BuildDistInv
<1>1. Init => BuildDistInv
  <2> SUFFICES ASSUME Init
               PROVE  BuildDistInv
    OBVIOUS
  <2> USE DEF Init, IdleMake, IdleInstall, IdleDelete
  <2>1. MakeInv
    BY DEF MakeInv, SlotsTaken
  <2>2. StoredInv /\ NoneLostInv
    BY DEF StoredInv, NoneLostInv
  <2>3. InstallInv /\ DeleteInv
    BY DEF InstallInv, DeleteInv
  <2> QED
    BY <2>1, <2>2, <2>3 DEF BuildDistInv
<1>2. TypeOK /\ TypeOK' /\ BuildDistInv /\ [Next]_vars => BuildDistInv'
  BY MakeInvStep, StoredStep, NoneLostStep, InstallInvStep, DeleteInvStep DEF BuildDistInv
<1> QED
  BY <1>1, <1>2, TypeCorrect, PTL DEF Spec

(* A package that MakePackage says is complete is in the bucket, file by file, as datastore
   describes it, and no entry is recorded before its object is stored, for any number of
   files, slots and builds, whatever fails and whoever dies. *)
THEOREM DatastoreHonestCorrect == Spec => []DatastoreHonest
<1>1. TypeOK /\ BuildDistInv => DatastoreHonest
  <2> SUFFICES ASSUME TypeOK, BuildDistInv
               PROVE  CompleteHolds /\ RecordedAfterUpload
    BY DEF DatastoreHonest
  <2>1. RecordedAfterUpload
    BY DEF RecordedAfterUpload, BuildDistInv, StoredInv
  <2>2. CompleteHolds
    BY <2>1 DEF RecordedAfterUpload, CompleteHolds, BuildDistInv, NoneLostInv, EntryIn
  <2> QED
    BY <2>1, <2>2
<1> QED
  BY <1>1, TypeCorrect, InvCorrect, PTL

(* When InstallPackage says "install complete" the machine has the files of the build that was
   complete when the install began, or newer ones, although the version may be made again while
   it downloads. *)
THEOREM InstallDeliversCorrect == Spec => []InstallDelivers
<1>1. TypeOK /\ BuildDistInv => InstallDelivers
  <2> SUFFICES ASSUME TypeOK, InstallInv, install.pc = "complete", dropped = {}, NEW f \in Files
               PROVE  local[f] >= install.asked
    BY DEF InstallDelivers, BuildDistInv
  <2>1. local[f] \in Nat /\ install.asked \in Nat
    BY DEF TypeOK, Builds
  <2>2. CASE install.asked > 0
    BY <2>2 DEF InstallInv
  <2>3. CASE install.asked = 0
    BY <2>1, <2>3
  <2> QED
    BY <2>1, <2>2, <2>3
<1> QED
  BY <1>1, TypeCorrect, InvCorrect, PTL

(* When the PackageEntry is gone after a DeletePackage that no MakePackage met, so is every
   FileEntry, for any batch size and whatever failed in earlier attempts to delete. *)
THEOREM DeletedCleanCorrect == Spec => []DeletedClean
<1>1. BuildDistInv => DeletedClean
  BY DEF BuildDistInv, DeleteInv, DeletedClean
<1> QED
  BY <1>1, InvCorrect, PTL
=============================================================================
