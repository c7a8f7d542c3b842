-------------------------- MODULE CvLibrary_proofs --------------------------
(***************************************************************************)
(* Every CV and picture that is shown has its file, for any number of      *)
(* objects, requests and failures.                                         *)
(*                                                                         *)
(* The rows alone do not say why.  The invariant adds what the stores know *)
(* of one another through the requests between their statements: an object *)
(* about to be linked is new, unreferenced, held by one request and given  *)
(* up by nobody; what a request gives up is referred to no more, and its   *)
(* kind, which never changes, keeps it from being linked elsewhere; and    *)
(* what the pass is about to delete was old when the references were read, *)
(* while all that has been linked since is fresh.                          *)
(*                                                                         *)
(* Requests that come one at a time save nothing twice and leave one       *)
(* default: the last part.                                                 *)
(***************************************************************************)
EXTENDS MCCvLibrary, FiniteSetTheorems, TLAPS

USE LibraryAssumption

Does(h, op) == req[h] # Idle /\ req[h].op = op

\* The request will make a row refer to k.
Owes(h, k) ==
  \/ Does(h, "uploadCv") /\ req[h].key = k
  \/ Does(h, "uploadImage") /\ req[h].key = k
  \/ Does(h, "save") /\ req[h].pc \in {"unlink", "create"} /\ req[h].copy = k

\* The keys of a request are of the kind its operation is about, and what it
\* is to give up is referred to no more.
RequestFits(h) ==
  /\ req[h] # Idle /\ req[h].op # "deleteImage" => req[h].key \in Keys
  /\ Does(h, "uploadCv") => kind[req[h].key] = "cv"
  /\ Does(h, "uploadImage") => req[h].column \in Columns /\ kind[req[h].key] = req[h].column
  /\ req[h] # Idle /\ req[h].op \in {"uploadTemp", "preview", "save"} => kind[req[h].key] = "temp"
  /\ Does(h, "save") /\ req[h].pc \in {"unlink", "create"} =>
       req[h].copy \in Keys /\ kind[req[h].copy] = "cv"
  /\ Does(h, "deleteCv") =>
       /\ row[req[h].key] # "none"
       /\ req[h].pc = "dispatch" => row[req[h].key] = "deleted"
  /\ Does(h, "deleteImage") =>
       /\ req[h].column \in Columns
       /\ req[h].key # NoKey => kind[req[h].key] = req[h].column
       /\ req[h].pc # "clear" => req[h].key # NoKey
       /\ req[h].pc = "dispatch" => image[req[h].column] # req[h].key
  /\ req[h] # Idle /\ req[h].pc = "dispatch" => req[h].op \in {"deleteCv", "deleteImage"}
RequestsFit == \A h \in Handlers : RequestFits(h)

PendingIsNew ==
  \A h \in Handlers, k \in Keys : Owes(h, k) =>
    /\ object[k] = "fresh" /\ row[k] = "none" /\ k \notin doomed
    /\ \A c \in Columns : image[c] # k
    /\ \A g \in Handlers : Owes(g, k) => g = h
    /\ \A g \in Handlers : Does(g, "deleteImage") => req[g].key # k

KindsFit ==
  /\ \A k \in Keys :
       /\ object[k] = "unused" => kind[k] = "none"
       /\ row[k] # "none" => kind[k] = "cv"
       /\ temp[k] # "none" => kind[k] = "temp"
       /\ k \in doomed => kind[k] # "none"
  /\ \A c \in Columns : image[c] # NoKey => kind[image[c]] = c

FilesAreKept ==
  /\ \A k \in Keys : row[k] = "live" => Present(k) /\ k \notin doomed
  /\ \A c \in Columns : image[c] # NoKey => Present(image[c]) /\ image[c] \notin doomed

PassFits ==
  /\ pass.stage = "asleep" => pass.todo = {}
  /\ \A k \in pass.todo : object[k] \in {"old", "gone"}
  /\ pass.stage = "temp" => \A k \in pass.todo : kind[k] = "temp"
  /\ pass.stage = "buckets" =>
       /\ pass.todo \cap Referenced = {}
       /\ \A k \in Referenced : object[k] = "old" => k \in pass.kept
       /\ pass.ran = "whole" => \A k \in Keys : object[k] = "old" =>
            k \in pass.kept \/ k \in pass.todo \/ BucketOf(k) \in pass.left

IInv == TypeOK /\ RequestsFit /\ PendingIsNew /\ KindsFit /\ FilesAreKept /\ PassFits

\* Uploads: the object, then the row or the column.
LEMMA UploadStep ==
  ASSUME IInv,
         \E h \in Handlers :
           \/ CreateCv(h) \/ PersistImageUrl(h)
           \/ \E k \in Keys : UploadCv(h, k) \/ \E c \in Columns : UploadImage(h, k, c)
  PROVE  IInv'
<1> USE DEF IInv, TypeOK, Request, RequestsFit, RequestFits, Does, PendingIsNew, Owes, KindsFit,
      FilesAreKept, PassFits, Present, Live, Referenced, BucketOf, Buckets
<1>1. ASSUME NEW h \in Handlers, NEW k \in Keys, UploadCv(h, k)
      PROVE  IInv'
  BY <1>1, SMTT(30) DEF UploadCv, Begin, BeginAt, Doing, Put, table
<1>2. ASSUME NEW h \in Handlers, CreateCv(h)
      PROVE  IInv'
  BY <1>2, SMTT(30) DEF CreateCv, At, End, files
<1>3. ASSUME NEW h \in Handlers, NEW k \in Keys, NEW c \in Columns, UploadImage(h, k, c)
      PROVE  IInv'
  BY <1>3, SMTT(30) DEF UploadImage, BeginAt, Doing, Put, table
<1>4. ASSUME NEW h \in Handlers, PersistImageUrl(h)
      PROVE  IInv'
  BY <1>4, SMTT(30) DEF PersistImageUrl, At, End, files
<1> QED
  BY <1>1, <1>2, <1>3, <1>4

\* Deletions: the row or the column, then the job, then the object.
LEMMA DeletionStep ==
  ASSUME IInv,
         \/ \E h \in Handlers :
              \/ ClearImage(h) \/ SoftDelete(h) \/ DispatchDelete(h)
              \/ \E k \in Keys : DeleteCv(h, k)
              \/ \E c \in Columns : DeleteImage(h, c)
         \/ \E k \in Keys : PerformDelete(k)
  PROVE  IInv'
<1> USE DEF IInv, TypeOK, Request, RequestsFit, RequestFits, Does, PendingIsNew, Owes, KindsFit,
      FilesAreKept, PassFits, Present, Live, Referenced, BucketOf, Buckets
<1>1. ASSUME NEW h \in Handlers, NEW c \in Columns, DeleteImage(h, c)
      PROVE  IInv'
  BY <1>1, SMTT(30) DEF DeleteImage, BeginAt, Doing, files, table
<1>2. ASSUME NEW h \in Handlers, ClearImage(h)
      PROVE  IInv'
  <2>1. CASE req[h].key = NoKey
    BY <1>2, <2>1, SMTT(30) DEF ClearImage, At, End, files
  <2>2. CASE req[h].key # NoKey
    BY <1>2, <2>2, SMTT(30) DEF ClearImage, At, Goto, files
  <2> QED
    BY <2>1, <2>2
<1>3. ASSUME NEW h \in Handlers, NEW k \in Keys, DeleteCv(h, k)
      PROVE  IInv'
  BY <1>3, SMTT(30) DEF DeleteCv, Begin, BeginAt, Doing, files, table
<1>4. ASSUME NEW h \in Handlers, SoftDelete(h)
      PROVE  IInv'
  BY <1>4, SMTT(30) DEF SoftDelete, At, Goto, files
<1>5. ASSUME NEW h \in Handlers, DispatchDelete(h)
      PROVE  IInv'
  BY <1>5, SMTT(30) DEF DispatchDelete, End, files, table
<1>6. ASSUME NEW k \in Keys, PerformDelete(k)
      PROVE  IInv'
  BY <1>6, SMTT(30) DEF PerformDelete, table
<1> QED
  BY <1>1, <1>2, <1>3, <1>4, <1>5, <1>6

\* The default flag.
LEMMA DefaultStep ==
  ASSUME IInv,
         \/ \E h \in Handlers : UnsetOthers(h) \/ SetOwn(h) \/ \E k \in Keys : SetDefault(h, k)
         \/ \E k \in Keys : UnsetDefault(k)
  PROVE  IInv'
<1> USE DEF IInv, TypeOK, Request, RequestsFit, RequestFits, Does, PendingIsNew, Owes, KindsFit,
      FilesAreKept, PassFits, Present, Live, Referenced, BucketOf, Buckets
<1>1. ASSUME NEW h \in Handlers, NEW k \in Keys, SetDefault(h, k)
      PROVE  IInv'
  BY <1>1, SMTT(30) DEF SetDefault, Begin, BeginAt, Doing, files, table
<1>2. ASSUME NEW h \in Handlers, UnsetOthers(h)
      PROVE  IInv'
  BY <1>2, SMTT(30) DEF UnsetOthers, At, Doing, files, table
<1>3. ASSUME NEW h \in Handlers, SetOwn(h)
      PROVE  IInv'
  BY <1>3, SMTT(30) DEF SetOwn, At, End, files
<1>4. ASSUME NEW k \in Keys, UnsetDefault(k)
      PROVE  IInv'
  BY <1>4, SMTT(30) DEF UnsetDefault, files
<1> QED
  BY <1>1, <1>2, <1>3, <1>4

\* Temporary objects, their previews and saves, and a statement that throws.
LEMMA PreviewStep ==
  ASSUME IInv,
         \E h \in Handlers :
           \/ MakeOffer(h) \/ FetchTemp(h) \/ KeepPreview(h) \/ ReadPreview(h) \/ CopyFails(h)
           \/ UnlinkTemp(h) \/ CreateSaved(h) \/ Forget(h) \/ Abort(h)
           \/ \E k \in Keys : UploadTemp(h, k) \/ Preview(h, k) \/ Save(h, k) \/ CopyTemp(h, k)
  PROVE  IInv'
<1> USE DEF IInv, TypeOK, Request, RequestsFit, RequestFits, Does, PendingIsNew, Owes, KindsFit,
      FilesAreKept, PassFits, Present, Live, Referenced, BucketOf, Buckets
<1>1. ASSUME NEW h \in Handlers, NEW k \in Keys, UploadTemp(h, k)
      PROVE  IInv'
  BY <1>1, SMTT(30) DEF UploadTemp, Begin, BeginAt, Doing, Put, table
<1>2. ASSUME NEW h \in Handlers, MakeOffer(h)
      PROVE  IInv'
  BY <1>2, SMTT(30) DEF MakeOffer, At, End, Store, files, table
<1>3. ASSUME NEW h \in Handlers, NEW k \in Keys, Preview(h, k)
      PROVE  IInv'
  BY <1>3, SMTT(30) DEF Preview, Begin, BeginAt, Doing, files, table
<1>4. ASSUME NEW h \in Handlers, FetchTemp(h)
      PROVE  IInv'
  <2>1. CASE End(h)
    BY <1>4, <2>1, SMTT(30) DEF FetchTemp, At, End, files, table
  <2>2. CASE Goto(h, "keep")
    BY <1>4, <2>2, SMTT(30) DEF FetchTemp, At, Goto, files, table
  <2> QED
    BY <1>4, <2>1, <2>2 DEF FetchTemp
<1>5. ASSUME NEW h \in Handlers, KeepPreview(h)
      PROVE  IInv'
  BY <1>5, SMTT(30) DEF KeepPreview, At, End, Store, files, table
<1>6. ASSUME NEW h \in Handlers, NEW k \in Keys, Save(h, k)
      PROVE  IInv'
  BY <1>6, SMTT(30) DEF Save, Begin, BeginAt, Doing, files, table
<1>7. ASSUME NEW h \in Handlers, ReadPreview(h)
      PROVE  IInv'
  <2>1. CASE End(h)
    BY <1>7, <2>1, SMTT(30) DEF ReadPreview, At, End, files, table
  <2>2. CASE Goto(h, "copy")
    BY <1>7, <2>2, SMTT(30) DEF ReadPreview, At, Goto, files, table
  <2> QED
    BY <1>7, <2>1, <2>2 DEF ReadPreview
<1>8. ASSUME NEW h \in Handlers, NEW k \in Keys, CopyTemp(h, k)
      PROVE  IInv'
  BY <1>8, SMTT(30) DEF CopyTemp, At, Doing, Put
<1>9. ASSUME NEW h \in Handlers, CopyFails(h)
      PROVE  IInv'
  BY <1>9, SMTT(30) DEF CopyFails, At, End, files, table
<1>10. ASSUME NEW h \in Handlers, UnlinkTemp(h)
      PROVE  IInv'
  BY <1>10, SMTT(30) DEF UnlinkTemp, At, Goto, table
<1>11. ASSUME NEW h \in Handlers, CreateSaved(h)
      PROVE  IInv'
  BY <1>11, SMTT(30) DEF CreateSaved, At, Goto, files
<1>12. ASSUME NEW h \in Handlers, Forget(h)
      PROVE  IInv'
  BY <1>12, SMTT(30) DEF Forget, At, End, Store, files, table
<1>13. ASSUME NEW h \in Handlers, Abort(h)
      PROVE  IInv'
  BY <1>13, SMTT(30) DEF Abort, End, files, table
<1> QED
  BY <1>1, <1>2, <1>3, <1>4, <1>5, <1>6, <1>7, <1>8, <1>9, <1>10, <1>11, <1>12, <1>13

\* The nightly pass.
LEMMA PassStep ==
  ASSUME IInv,
         \/ BeginPass \/ CollectReferenced \/ PassFails \/ EndPass
         \/ \E b \in Buckets : ListBucket(b)
         \/ \E k \in Keys : DeleteObject(k)
  PROVE  IInv'
<1> USE DEF IInv, TypeOK, Request, RequestsFit, RequestFits, Does, PendingIsNew, Owes, KindsFit,
      FilesAreKept, PassFits, Present, Live, Referenced, BucketOf, Buckets
<1>1. CASE BeginPass
  BY <1>1, SMTT(30) DEF BeginPass, files, table, OldTemps, Pass
<1>2. CASE CollectReferenced
  <2>1. /\ pass'.stage = "buckets" /\ pass'.kept = Referenced /\ pass'.todo = {}
        /\ pass'.left = Buckets /\ pass'.ran = pass.ran
    BY <1>2 DEF CollectReferenced, Pass
  <2>2. TypeOK'
    BY <1>2, SMTT(30) DEF CollectReferenced, files, table, Pass
  <2>3. PassFits'
    BY <1>2, <2>1, SMTT(30) DEF CollectReferenced, files, table, Pass
  <2> QED
    BY <1>2, <2>2, <2>3, SMTT(30) DEF CollectReferenced, files, table, Pass
<1>3. ASSUME NEW b \in Buckets, ListBucket(b)
      PROVE  IInv'
  <2>1. /\ pass'.stage = "buckets" /\ pass'.kept = pass.kept /\ pass'.left = pass.left \ {b}
        /\ pass'.todo = {k \in Keys : OldEnough(k) /\ BucketOf(k) = b /\ k \notin pass.kept}
        /\ pass'.ran = pass.ran
    BY <1>3 DEF ListBucket, Pass
  <2>2. TypeOK'
    BY <1>3, SMTT(30) DEF ListBucket, files, table, Pass
  <2>3. PassFits'
    BY <1>3, <2>1, SMTT(30) DEF ListBucket, files, table, OldEnough, Pass
  <2> QED
    BY <1>3, <2>2, <2>3, SMTT(30) DEF ListBucket, files, table, Pass
<1>4. ASSUME NEW k \in Keys, DeleteObject(k)
      PROVE  IInv'
  <2>1. TypeOK'
    BY <1>4, SMTT(30) DEF DeleteObject, table
  <2>2. PassFits'
    BY <1>4, SMTT(30) DEF DeleteObject, table
  <2> QED
    BY <1>4, <2>1, <2>2, SMTT(30) DEF DeleteObject, table
<1>5. CASE PassFails
  <2>1. \/ pass'.stage = pass.stage /\ pass'.todo = {} /\ pass'.kept = pass.kept /\ pass'.ran = "cut"
        \/ pass' = Asleep
    BY <1>5, SMTT(30) DEF PassFails, Pass
  <2>2. TypeOK'
    BY <1>5, SMTT(30) DEF PassFails, files, table, Asleep, Pass
  <2>3. PassFits'
    BY <1>5, <2>1, SMTT(30) DEF PassFails, files, table, Asleep, Pass
  <2> QED
    BY <1>5, <2>2, <2>3, SMTT(30) DEF PassFails, files, table
<1>6. CASE EndPass
  BY <1>6, SMTT(30) DEF EndPass, files, table, Asleep, Pass
<1> QED
  BY <1>1, <1>2, <1>3, <1>4, <1>5, <1>6

\* Ageing and expiry.
LEMMA TimeStep ==
  ASSUME IInv,
         \E k \in Keys : Age(k) \/ ExpireKey(k)
  PROVE  IInv'
<1> USE DEF IInv, TypeOK, Request, RequestsFit, RequestFits, Does, PendingIsNew, Owes, KindsFit,
      FilesAreKept, PassFits, Present, Live, Referenced, BucketOf, Buckets
<1>1. ASSUME NEW k \in Keys, Age(k)
      PROVE  IInv'
  BY <1>1, SMTT(30) DEF Age, Holds, table
<1>2. ASSUME NEW k \in Keys, ExpireKey(k)
      PROVE  IInv'
  BY <1>2, SMTT(30) DEF ExpireKey, files, table
<1> QED
  BY <1>1, <1>2

\* Every step of the library keeps the invariant.
LEMMA Invariance == IInv /\ [Next]_vars => IInv'
<1> SUFFICES ASSUME IInv, [Next]_vars PROVE IInv'
  OBVIOUS
<1>1. CASE UNCHANGED vars
  BY <1>1 DEF vars, files, table, IInv, TypeOK, RequestsFit, RequestFits, Does, PendingIsNew, Owes,
    KindsFit, FilesAreKept, PassFits, Present, Live, Referenced, BucketOf, Buckets
<1>2. CASE Next
  BY <1>2, UploadStep, DeletionStep, DefaultStep, PreviewStep, PassStep, TimeStep
    DEF Next, Arrive, Continue, Clean
<1> QED
  BY <1>1, <1>2

\* The empty library satisfies it.
LEMMA Start == Init => IInv
BY DEF Init, Asleep, Pass, IInv, TypeOK, Request, RequestsFit, RequestFits, Does, PendingIsNew,
  Owes, KindsFit, FilesAreKept, PassFits, Present, Live, Referenced, BucketOf, Buckets

\* The invariant of the library: types, kinds, pending links and the pass
\* agree in every state.
THEOREM LibraryInvariant == Spec => []IInv
<1>1. Init => IInv
  BY Start
<1>2. IInv /\ [Next]_vars => IInv'
  BY Invariance
<1> QED
  BY <1>1, <1>2, PTL DEF Spec

\* A CV or picture that is shown has its file, whatever fails between the
\* stores and however deletions, saves and the nightly pass interleave.
THEOREM FilesAreThere == Spec => []RowsHaveTheirFiles
<1>1. IInv => RowsHaveTheirFiles
  BY DEF IInv, TypeOK, FilesAreKept, RowsHaveTheirFiles, Referenced, Live
<1> QED
  BY <1>1, LibraryInvariant, PTL

-----------------------------------------------------------------------------
(* The pass *)

\* Only its end and a failure put the pass to sleep.
LEMMA EndsBySelf ==
  ASSUME IInv, [Next]_vars, pass.stage # "asleep", pass'.stage = "asleep"
  PROVE  EndPass \/ PassFails
<1>1. CASE pass' = pass
  BY <1>1
<1>2. ASSUME BeginPass \/ CollectReferenced \/ \E b \in Buckets : ListBucket(b)
      PROVE  FALSE
  BY <1>2 DEF BeginPass, CollectReferenced, ListBucket, Pass, IInv, TypeOK
<1>3. ASSUME NEW k \in Keys, DeleteObject(k)
      PROVE  FALSE
  BY <1>3 DEF DeleteObject, IInv, TypeOK
<1> QED
  BY <1>1, <1>2, <1>3 DEF Next, Arrive, Continue, Clean, vars, files, table, UploadCv, UploadTemp,
    DeleteCv, SetDefault, Preview, Save, UploadImage, DeleteImage, CreateCv, PersistImageUrl,
    ClearImage, SoftDelete, DispatchDelete, UnsetOthers, SetOwn, MakeOffer, FetchTemp,
    KeepPreview, ReadPreview, CopyFails, UnlinkTemp, CreateSaved, Forget, CopyTemp, Abort,
    UnsetDefault, PerformDelete, Age, ExpireKey

\* A pass in which no statement fails leaves no old object but those that rows
\* referred to when it looked, whatever failures there had been before it.
THEOREM PassIsThorough == Spec => PassLeavesNoOrphan
<1>1. ASSUME IInv, [Next]_vars, pass.stage # "asleep", pass'.stage = "asleep",
             pass.ran = "whole", faults' = faults
      PROVE  {k \in Keys : object[k] = "old"} \subseteq pass.kept
  <2>1. CASE EndPass
    BY <1>1, <2>1 DEF EndPass, IInv, PassFits
  <2>2. CASE PassFails
    <3>1. faults' = faults + 1 /\ faults \in 0..MaxFaults
      BY <1>1, <2>2 DEF PassFails, IInv, TypeOK
    <3> QED
      BY <1>1, <3>1, LibraryAssumption
  <2> QED
    BY <1>1, <2>1, <2>2, EndsBySelf
<1>2. IInv /\ [Next]_vars =>
        [pass.stage # "asleep" /\ pass'.stage = "asleep" /\ pass.ran = "whole" /\ faults' = faults
           => {k \in Keys : object[k] = "old"} \subseteq pass.kept]_vars
  BY <1>1
<1> QED
  BY <1>2, LibraryInvariant, PTL DEF Spec, PassLeavesNoOrphan

-----------------------------------------------------------------------------
(* The refinement *)

\* What a step may do to one object: it is put, or grows old, or is removed,
\* without a change of what refers to it; or only the latter changes.
Keeps(k) == k \in Referenced' <=> k \in Referenced
Moved(k) ==
  \/ object'[k] = object[k]
  \/ object[k] = "unused" /\ object'[k] = "fresh" /\ Keeps(k)
  \/ object[k] = "fresh" /\ object'[k] = "old" /\ Keeps(k)
  \/ object[k] # "unused" /\ object'[k] = "gone" /\ Keeps(k)

\* Every step moves an object so.
LEMMA ObjectMoves ==
  ASSUME IInv, [Next]_vars, NEW k \in Keys
  PROVE  Moved(k)
<1>1. ASSUME UNCHANGED object
      PROVE  Moved(k)
  BY <1>1 DEF Moved
<1>2. ASSUME UNCHANGED table
      PROVE  Keeps(k)
  BY <1>2 DEF Keeps, table, Referenced, Live
<1>3. ASSUME NEW l \in Keys, NEW what, Put(l, what), UNCHANGED table
      PROVE  Moved(k)
  BY <1>2, <1>3 DEF Put, Moved, IInv, TypeOK
<1>4. ASSUME NEW l \in Keys, object[l] # "unused", object' = [object EXCEPT ![l] = "gone"],
             UNCHANGED table
      PROVE  Moved(k)
  BY <1>2, <1>4 DEF Moved, IInv, TypeOK
<1>5. ASSUME NEW h \in Handlers, NEW l \in Keys,
             UploadCv(h, l) \/ UploadTemp(h, l) \/ \E c \in Columns : UploadImage(h, l, c)
      PROVE  Moved(k)
  BY <1>3, <1>5 DEF UploadCv, UploadTemp, UploadImage
<1>6. ASSUME NEW h \in Handlers, NEW l \in Keys, CopyTemp(h, l)
      PROVE  Moved(k)
  <2>1. Keeps(k)
    BY <1>6 DEF CopyTemp, Keeps, Referenced, Live
  <2> QED
    BY <1>6, <2>1 DEF CopyTemp, Put, Moved, IInv, TypeOK
<1>7. ASSUME NEW h \in Handlers, UnlinkTemp(h)
      PROVE  Moved(k)
  <2>1. req[h].key \in Keys /\ object[req[h].key] # "unused"
    BY <1>7 DEF UnlinkTemp, At, Does, IInv, RequestsFit, RequestFits, KindsFit
  <2> QED
    BY <1>4, <1>7, <2>1 DEF UnlinkTemp
<1>8. ASSUME NEW l \in Keys, PerformDelete(l) \/ DeleteObject(l)
      PROVE  Moved(k)
  <2>1. object[l] # "unused"
    BY <1>8 DEF PerformDelete, DeleteObject, IInv, KindsFit, PassFits
  <2> QED
    BY <1>4, <1>8, <2>1 DEF PerformDelete, DeleteObject
<1>9. ASSUME NEW l \in Keys, Age(l)
      PROVE  Moved(k)
  BY <1>2, <1>9 DEF Age, Moved, IInv, TypeOK
<1> QED
  BY <1>1, <1>5, <1>6, <1>7, <1>8, <1>9 DEF Next, Arrive, Continue, Clean, vars, files, DeleteCv,
    SetDefault, Preview, Save, DeleteImage, CreateCv, PersistImageUrl, ClearImage, SoftDelete,
    DispatchDelete, UnsetOthers, SetOwn, MakeOffer, FetchTemp, KeepPreview, ReadPreview,
    CopyFails, CreateSaved, Forget, Abort, UnsetDefault, ExpireKey, BeginPass,
    CollectReferenced, ListBucket, PassFails, EndPass

\* Where the files are kept, a phase says whether the object is there and
\* whether a row refers to it.
PhaseFits(k) ==
  /\ k \in Referenced => Phase(k) = "linked" /\ Present(k)
  /\ k \notin Referenced /\ object[k] = "unused" => Phase(k) = "none"
  /\ k \notin Referenced /\ object[k] = "gone" => Phase(k) = "gone"
  /\ k \notin Referenced /\ Present(k) => Phase(k) = "stored"

\* No state of the invariant has a row without its file.
LEMMA PhasesFit == IInv => \A k \in Keys : PhaseFits(k)
<1> SUFFICES ASSUME IInv, NEW k \in Keys PROVE PhaseFits(k)
  OBVIOUS
<1>1. k \in Referenced => Present(k)
  BY DEF IInv, FilesAreKept, Referenced, Live
<1>2. object[k] \in {"unused", "fresh", "old", "gone"}
  BY DEF IInv, TypeOK
<1> QED
  BY <1>1, <1>2 DEF PhaseFits, Phase, Present

\* The same after a step.
LEMMA PhasesFitNext == IInv' => (\A k \in Keys : PhaseFits(k))'
BY PhasesFit, PTL

\* Every step moves the phase of an object as StoredFile allows.
LEMMA PhaseMoves ==
  ASSUME IInv, IInv', [Next]_vars, NEW k \in Keys
  PROVE  /\ Phase(k)' \in Promise!Phases
         /\ Phase(k)' = Phase(k) \/ <<Phase(k), Phase(k)'>> \in Promise!Moves
<1>1. Moved(k)
  BY ObjectMoves
<1>2. PhaseFits(k)
  BY PhasesFit
<1>3. PhaseFits(k)'
  BY PhasesFitNext
<1>4. /\ object[k] \in {"unused", "fresh", "old", "gone"}
      /\ object'[k] \in {"unused", "fresh", "old", "gone"}
  BY DEF IInv, TypeOK
<1> QED
  BY <1>1, <1>2, <1>3, <1>4, SMTT(30)
    DEF PhaseFits, Moved, Keeps, Present, Promise!Phases, Promise!Moves

\* The library implements StoredFile: an object is removed once and for good,
\* and only while no row refers to it.
THEOREM LibraryKeepsPromise == Spec => KeepsPromise
<1>1. Init => Promise!Init
  <2> SUFFICES ASSUME Init PROVE Promise!Init
    OBVIOUS
  <2>1. \A k \in Keys : Phase(k) = "none"
    BY DEF Init, Phase, Referenced, Live, Present
  <2> QED
    BY <2>1 DEF Promise!Init
<1>2. IInv /\ IInv' /\ [Next]_vars => [Promise!Next]_([k \in Keys |-> Phase(k)])
  <2> SUFFICES ASSUME IInv, IInv', [Next]_vars PROVE Promise!Next
    OBVIOUS
  <2>1. \A k \in Keys : /\ Phase(k)' \in Promise!Phases
                        /\ Phase(k)' = Phase(k) \/ <<Phase(k), Phase(k)'>> \in Promise!Moves
    BY PhaseMoves
  <2> QED
    BY <2>1 DEF Promise!Next
<1> QED
  BY <1>1, <1>2, LibraryInvariant, PTL DEF Spec, KeepsPromise, Promise!Spec

-----------------------------------------------------------------------------
(* Requests one at a time *)

\* One request is in flight.
Alone == \A g, h \in Handlers : req[g] # Idle /\ req[h] # Idle => g = h

\* The default is one, and a request about to set it has seen all others.
DefaultFits ==
  /\ \A k \in flagged : row[k] # "none"
  /\ \A k, l \in flagged \cap Live : k = l
  /\ \A h \in Handlers : At(h, "setDefault", "set") => flagged \cap Live \subseteq req[h].seen

\* The object a CV was saved from is gone; what is copied has not been saved.
SourcesFit ==
  /\ \A k \in Keys : object[k] = "unused" => source[k] = NoKey
  /\ \A k \in Keys : row[k] # "none" /\ source[k] # NoKey => object[source[k]] = "gone"
  /\ \A h \in Handlers :
       /\ Does(h, "uploadCv") => source[req[h].key] = NoKey
       /\ Does(h, "save") /\ req[h].pc \in {"unlink", "create"} =>
            /\ source[req[h].copy] = req[h].key
            /\ \A k \in Keys : row[k] # "none" => source[k] # req[h].key
            /\ req[h].pc = "create" => object[req[h].key] = "gone"

\* The inductive invariant of requests that come one at a time.
SequentialInv ==
  /\ Alone
  /\ DefaultFits
  /\ SourcesFit
  /\ SavedOnce

SeqInv == overlapped \/ SequentialInv

\* What the invariant of the library says of rows that are about to be.
LEMMA RowsToBe ==
  ASSUME IInv
  PROVE  /\ \A k \in Keys : object[k] = "unused" => row[k] = "none"
         /\ \A h \in Handlers :
              /\ req[h] # Idle /\ req[h].op \in {"uploadCv", "save", "deleteCv", "setDefault"} =>
                   req[h].key \in Keys
              /\ Does(h, "uploadCv") => row[req[h].key] = "none"
              /\ Does(h, "deleteCv") => row[req[h].key] # "none"
              /\ Does(h, "save") /\ req[h].pc \in {"unlink", "create"} =>
                   req[h].copy \in Keys /\ row[req[h].copy] = "none"
BY DEF IInv, TypeOK, Request, RequestsFit, RequestFits, Does, PendingIsNew, Owes, KindsFit

\* An object that is gone stays so, and one that is unused has always been.
LEMMA ObjectsGo ==
  ASSUME IInv, [Next]_vars
  PROVE  \A k \in Keys : /\ object[k] = "gone" => object'[k] = "gone"
                         /\ object'[k] = "unused" => object[k] = "unused"
BY ObjectMoves, SMTT(30) DEF Moved

\* Uploads and deletions keep the invariant.
LEMMA UploadInSequence ==
  ASSUME IInv, SequentialInv, Alone', [Next]_vars, NEW h \in Handlers,
         \/ CreateCv(h) \/ PersistImageUrl(h)
         \/ ClearImage(h) \/ SoftDelete(h) \/ DispatchDelete(h)
         \/ \E k \in Keys : UploadCv(h, k) \/ DeleteCv(h, k)
         \/ \E c \in Columns : DeleteImage(h, c) \/ \E k \in Keys : UploadImage(h, k, c)
  PROVE  SequentialInv'
<1>1. TypeOK
  BY DEF IInv
<1> USE <1>1, RowsToBe, ObjectsGo DEF TypeOK, Request, SequentialInv, Alone, DefaultFits,
      SourcesFit, SavedOnce, Does, At, Live
<1>2. ASSUME NEW k \in Keys, UploadCv(h, k) PROVE SequentialInv'
  BY <1>2, SMTT(30) DEF UploadCv, Begin, BeginAt, Doing, Put, table
<1>3. CASE CreateCv(h)
  BY <1>3, SMTT(30) DEF CreateCv, End, files
<1>4. ASSUME NEW k \in Keys, NEW c \in Columns, UploadImage(h, k, c) PROVE SequentialInv'
  BY <1>4, SMTT(30) DEF UploadImage, BeginAt, Doing, Put, table
<1>5. CASE PersistImageUrl(h)
  BY <1>5, SMTT(30) DEF PersistImageUrl, End, files
<1>6. ASSUME NEW c \in Columns, DeleteImage(h, c) PROVE SequentialInv'
  BY <1>6, SMTT(30) DEF DeleteImage, BeginAt, Doing, files, table
<1>7. CASE ClearImage(h) /\ req[h].key = NoKey
  BY <1>7, SMTT(30) DEF ClearImage, End, files
<1>8. CASE ClearImage(h) /\ req[h].key # NoKey
  BY <1>8, SMTT(30) DEF ClearImage, Goto, files
<1>9. ASSUME NEW k \in Keys, DeleteCv(h, k) PROVE SequentialInv'
  BY <1>9, SMTT(30) DEF DeleteCv, Begin, BeginAt, Doing, files, table
<1>10. CASE SoftDelete(h)
  BY <1>10, SMTT(30) DEF SoftDelete, Goto, files
<1>11. CASE DispatchDelete(h)
  BY <1>11, SMTT(30) DEF DispatchDelete, End, files, table
<1> QED
  BY <1>2, <1>3, <1>4, <1>5, <1>6, <1>7, <1>8, <1>9, <1>10, <1>11

\* So do changes of the default.
LEMMA DefaultInSequence ==
  ASSUME IInv, SequentialInv, Alone', [Next]_vars,
         \/ \E h \in Handlers : UnsetOthers(h) \/ SetOwn(h) \/ \E k \in Keys : SetDefault(h, k)
         \/ \E k \in Keys : UnsetDefault(k)
  PROVE  SequentialInv'
<1>1. TypeOK
  BY DEF IInv
<1> USE <1>1, RowsToBe, ObjectsGo DEF TypeOK, Request, SequentialInv, Alone, DefaultFits,
      SourcesFit, SavedOnce, Does, At, Live
<1>2. ASSUME NEW h \in Handlers, NEW k \in Keys, SetDefault(h, k) PROVE SequentialInv'
  BY <1>2, SMTT(30) DEF SetDefault, Begin, BeginAt, Doing, files, table
<1>3. ASSUME NEW h \in Handlers, UnsetOthers(h) PROVE SequentialInv'
  BY <1>3, SMTT(30) DEF UnsetOthers, Doing, files, table
<1>4. ASSUME NEW h \in Handlers, SetOwn(h) PROVE SequentialInv'
  BY <1>4, SMTT(30) DEF SetOwn, End, files
<1>5. ASSUME NEW k \in Keys, UnsetDefault(k) PROVE SequentialInv'
  BY <1>5, SMTT(30) DEF UnsetDefault, files
<1> QED
  BY <1>2, <1>3, <1>4, <1>5

\* So do previews and saves, wherever they fail.
LEMMA SaveInSequence ==
  ASSUME IInv, SequentialInv, Alone', [Next]_vars, NEW h \in Handlers,
         \/ MakeOffer(h) \/ FetchTemp(h) \/ KeepPreview(h) \/ ReadPreview(h) \/ CopyFails(h)
         \/ UnlinkTemp(h) \/ CreateSaved(h) \/ Forget(h) \/ Abort(h)
         \/ \E k \in Keys : UploadTemp(h, k) \/ Preview(h, k) \/ Save(h, k) \/ CopyTemp(h, k)
  PROVE  SequentialInv'
<1>1. TypeOK
  BY DEF IInv
<1> USE <1>1, RowsToBe, ObjectsGo DEF TypeOK, Request, SequentialInv, Alone, DefaultFits,
      SourcesFit, SavedOnce, Does, At, Live
<1>2. ASSUME NEW k \in Keys, UploadTemp(h, k) PROVE SequentialInv'
  BY <1>2, SMTT(30) DEF UploadTemp, Begin, BeginAt, Doing, Put, table
<1>3. ASSUME NEW k \in Keys, Preview(h, k) \/ Save(h, k) PROVE SequentialInv'
  BY <1>3, SMTT(30) DEF Preview, Save, Begin, BeginAt, Doing, files, table
<1>4. CASE /\ MakeOffer(h) \/ KeepPreview(h) \/ CopyFails(h) \/ Forget(h) \/ Abort(h)
                \/ FetchTemp(h) \/ ReadPreview(h)
           /\ End(h)
  <2>1. UNCHANGED <<files, table>>
    BY <1>4 DEF MakeOffer, KeepPreview, CopyFails, Forget, Abort, FetchTemp, ReadPreview
  <2>2. QED
    BY <1>4, <2>1, SMTT(30) DEF End, files, table
<1>5. CASE FetchTemp(h) /\ Goto(h, "keep")
  BY <1>5, SMTT(30) DEF FetchTemp, Goto, files, table
<1>6. CASE ReadPreview(h) /\ Goto(h, "copy")
  BY <1>6, SMTT(30) DEF ReadPreview, Goto, files, table
<1>7. ASSUME NEW k \in Keys, CopyTemp(h, k) PROVE SequentialInv'
  <2>1. /\ Does(h, "save") /\ req[h].key \in Keys /\ object[req[h].key] \in {"fresh", "old"}
        /\ object[k] = "unused" /\ row[k] = "none"
        /\ object' = [object EXCEPT ![k] = "fresh"]
        /\ source' = [source EXCEPT ![k] = req[h].key]
        /\ req' = [req EXCEPT ![h] = Doing("save", "unlink", req[h].key, k, "none", {})]
        /\ UNCHANGED <<row, flagged>>
    BY <1>7 DEF CopyTemp, Put, Present
  <2>2. /\ req'[h].op = "save" /\ req'[h].pc = "unlink" /\ req'[h].key = req[h].key
        /\ req'[h].copy = k /\ source'[k] = req[h].key
        /\ \A l \in Keys : l # k => source'[l] = source[l] /\ object'[l] = object[l]
        /\ \A g \in Handlers : g # h => req[g] = Idle /\ req'[g] = Idle
    BY <2>1 DEF Doing
  <2>3. \A l \in Keys : row[l] # "none" => source[l] \notin {k, req[h].key} /\ l # k
    BY <2>1, LibraryAssumption
  <2>4. DefaultFits' /\ SavedOnce'
    BY <2>1, <2>2, <2>3
  <2>5. SourcesFit'
    BY <2>1, <2>2, <2>3, SMTT(30)
  <2>6. QED
    BY <2>4, <2>5
<1>8. CASE UnlinkTemp(h)
  BY <1>8, SMTT(30) DEF UnlinkTemp, Goto, table
<1>9. CASE CreateSaved(h)
  BY <1>9, SMTT(30) DEF CreateSaved, Goto, files
<1> QED
  BY <1>2, <1>3, <1>4, <1>5, <1>6, <1>7, <1>8, <1>9
  DEF MakeOffer, KeepPreview, CopyFails, Forget, Abort, FetchTemp, ReadPreview

\* So do the deletions of objects, the pass and time, which write no row.
LEMMA OthersInSequence ==
  ASSUME IInv, SequentialInv, Alone', [Next]_vars, UNCHANGED <<table, req>>
  PROVE  SequentialInv'
<1>1. TypeOK
  BY DEF IInv
<1> QED
  BY <1>1, RowsToBe, ObjectsGo, SMTT(30) DEF TypeOK, Request, SequentialInv, Alone, DefaultFits,
    SourcesFit, SavedOnce, Does, At, Live, table

\* A step after which still one request at a time has come preserves the
\* invariant.
LEMMA SequentialStep ==
  ASSUME IInv, SeqInv, [Watched]_<<vars, overlapped>>
  PROVE  SeqInv'
<1>1. SUFFICES ASSUME ~ overlapped' PROVE SequentialInv'
  BY DEF SeqInv
<1>2. CASE Watched
  <2>1. SequentialInv /\ Alone' /\ Next /\ [Next]_vars
    BY <1>1, <1>2 DEF Watched, SeqInv, Alone, Busy
  <2>2. CASE \/ BeginPass \/ CollectReferenced \/ PassFails \/ EndPass
             \/ \E b \in Buckets : ListBucket(b)
             \/ \E k \in Keys : DeleteObject(k) \/ PerformDelete(k) \/ Age(k) \/ ExpireKey(k)
    <3>1. UNCHANGED <<table, req>>
      BY <2>2 DEF BeginPass, CollectReferenced, PassFails, EndPass, ListBucket,
         DeleteObject, PerformDelete, Age, ExpireKey
    <3>2. QED
      BY <2>1, <3>1, OthersInSequence
  <2>3. QED
    BY <2>1, <2>2, UploadInSequence, DefaultInSequence, SaveInSequence
    DEF Next, Arrive, Continue, Clean
<1>3. CASE UNCHANGED <<vars, overlapped>>
  <2>1. SequentialInv
    BY <1>1, <1>3 DEF SeqInv
  <2>2. UNCHANGED <<object, row, source, flagged, req>>
    BY <1>3 DEF vars, files, table
  <2>3. QED
    BY <2>1, <2>2 DEF SequentialInv, Alone, DefaultFits, SourcesFit, SavedOnce, Does, At, Live
<1>4. QED
  BY <1>2, <1>3

\* The empty library satisfies it.
LEMMA SequentialStart == Init => SequentialInv
BY DEF Init, SequentialInv, Alone, DefaultFits, SourcesFit, SavedOnce, Does, At, Live

\* A set whose members are all one has less than two.
LEMMA AtMostOne ==
  ASSUME NEW S, \A x, y \in S : x = y
  PROVE  Cardinality(S) < 2
<1>1. CASE S = {}
  BY <1>1, FS_EmptySet
<1>2. ASSUME NEW x \in S PROVE Cardinality(S) < 2
  <2>1. S = {x}
    BY <1>2
  <2>2. QED
    BY <2>1, FS_Singleton
<1>3. QED
  BY <1>1, <1>2

\* However often a save that failed is tried again, and wherever requests that
\* come one at a time fail: a temporary analysis is saved as one CV, and a
\* candidate has one default CV.
THEOREM NothingIsTwice == WatchedSpec => []NothingIsTwiceInSequence
<1>1. MCInit => IInv /\ SeqInv
  BY Start, SequentialStart DEF MCInit, SeqInv
<1>2. IInv /\ SeqInv /\ [Watched]_<<vars, overlapped>> => IInv' /\ SeqInv'
  <2> SUFFICES ASSUME IInv, SeqInv, [Watched]_<<vars, overlapped>>
               PROVE  IInv' /\ SeqInv'
    OBVIOUS
  <2>1. [Next]_vars
    BY DEF Watched
  <2>2. QED
    BY <2>1, Invariance, SequentialStep
<1>3. SeqInv => NothingIsTwiceInSequence
  BY AtMostOne DEF SeqInv, SequentialInv, DefaultFits, NothingIsTwiceInSequence, OneDefault
<1>4. QED
  BY <1>1, <1>2, <1>3, PTL DEF WatchedSpec
=============================================================================
