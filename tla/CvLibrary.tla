----------------------------- MODULE CvLibrary ------------------------------
(***************************************************************************)
(* A candidate's CVs and pictures: rows of Postgres that name objects in   *)
(* MinIO, the previews of a CV that is not saved yet, held in Redis, and   *)
(* the nightly pass over the buckets.                                      *)
(*                                                                         *)
(* No statement writes two of the stores.  An object is put before the row *)
(* that names it and deleted after it, by a queued job; what a failure     *)
(* leaves behind is found by the pass, which goes by the age of an object. *)
(* Every upload and copy draws a new random key, so a CV is identified by  *)
(* the key of its file.  The versions of the read caches are left to       *)
(* CacheCatalogue.                                                         *)
(***************************************************************************)
EXTENDS FiniteSets, Naturals

CONSTANTS
  Keys,       \* object keys ever drawn (bound)
  Columns,    \* columns that name a picture: avatarUrl, logoUrl, bannerUrl
  Handlers,   \* requests in flight at once (bound)
  MaxFaults,  \* statements that fail in a behaviour (bound)
  NoKey,
  Idle

ASSUME LibraryAssumption ==
  /\ NoKey \notin Keys /\ {"none", "temp", "cv"} \cap Columns = {}
  /\ MaxFaults \in Nat

VARIABLES
  object,   \* "unused", "fresh", "old" or "gone"; old is over two hours for a
            \* temporary object, over a day for any other
  kind,     \* what the object was put for: "none", "temp", "cv" or a column
  row,      \* cvs, by the key in fileUrl: "none", "live" or "deleted" (softly)
  source,   \* history: the temporary object a CV was copied from
  flagged,  \* CVs with isDefault
  image,    \* the key each column holds
  temp,     \* what Redis has of a temporary object: "none", its metadata
            \* ("offered"), or these and its analysis ("previewed")
  doomed,   \* storage-delete jobs in the queue
  req,      \* what each handler is doing
  pass,     \* the nightly pass
  faults

files == <<object, kind>>
table == <<row, source, flagged, image>>
vars == <<files, table, temp, doomed, req, pass, faults>>

Present(k) == object[k] \in {"fresh", "old"}
Live == {k \in Keys : row[k] = "live"}
Referenced == Live \cup ({image[c] : c \in Columns} \ {NoKey})
Buckets_CvOnly == {"cv"}   \* mutant: the buckets of pictures are forgotten
Buckets == {"cv"} \cup Columns
BucketOf(k) == IF kind[k] \in Columns THEN kind[k] ELSE "cv"

\* The request of a handler, and the object it is about.
At(h, op, pc) == req[h] # Idle /\ req[h].op = op /\ req[h].pc = pc
Holds(h, k) == req[h] # Idle /\ k \in {req[h].key, req[h].copy}
Doing(op, pc, k, copy, c, seen) ==
  [op |-> op, pc |-> pc, key |-> k, copy |-> copy, column |-> c, seen |-> seen]
BeginAt(h, op, pc, k, c) ==
  req[h] = Idle /\ req' = [req EXCEPT ![h] = Doing(op, pc, k, NoKey, c, {})]
Begin(h, op, pc, k) == BeginAt(h, op, pc, k, "none")
Goto(h, pc) == req' = [req EXCEPT ![h].pc = pc]
End(h) == req' = [req EXCEPT ![h] = Idle]

\* "ran" is history: "cut" once a statement of this pass has failed.
Pass(stage, kept, todo, left, ran) ==
  [stage |-> stage, kept |-> kept, todo |-> todo, left |-> left, ran |-> ran]
Asleep == Pass("asleep", {}, {}, {}, "whole")

Init ==
  /\ object = [k \in Keys |-> "unused"] /\ kind = [k \in Keys |-> "none"]
  /\ row = [k \in Keys |-> "none"] /\ source = [k \in Keys |-> NoKey]
  /\ flagged = {}
  /\ image = [c \in Columns |-> NoKey]
  /\ temp = [k \in Keys |-> "none"] /\ doomed = {}
  /\ req = [h \in Handlers |-> Idle]
  /\ pass = Asleep
  /\ faults = 0

----------------------------------------------------------------------------
\* PutObject under a new key.
Put(k, what) ==
  /\ object[k] = "unused"
  /\ object' = [object EXCEPT ![k] = "fresh"]
  /\ kind' = [kind EXCEPT ![k] = what]

\* UploadFileUseCase: the object, then the row.
UploadCv(h, k) ==
  /\ Put(k, "cv")
  /\ Begin(h, "uploadCv", "create", k)
  /\ UNCHANGED <<table, temp, doomed, pass, faults>>

CreateCv(h) ==
  /\ At(h, "uploadCv", "create")
  /\ row' = [row EXCEPT ![req[h].key] = "live"]
  /\ End(h)
  /\ UNCHANGED <<files, source, flagged, image, temp, doomed, pass, faults>>

UploadImage(h, k, c) ==
  /\ Put(k, c)
  /\ BeginAt(h, "uploadImage", "persist", k, c)
  /\ UNCHANGED <<table, temp, doomed, pass, faults>>

\* The picture it replaces is left to the nightly pass.
PersistImageUrl(h) ==
  /\ At(h, "uploadImage", "persist")
  /\ image' = [image EXCEPT ![req[h].column] = req[h].key]
  /\ End(h)
  /\ UNCHANGED <<files, row, source, flagged, temp, doomed, pass, faults>>

\* DeleteAvatarUseCase and its two likes: the key is read, the column cleared
\* whatever it holds by then, and the object that was read is given up.
DeleteImage(h, c) ==
  /\ BeginAt(h, "deleteImage", "clear", image[c], c)
  /\ UNCHANGED <<files, table, temp, doomed, pass, faults>>

ClearImage(h) ==
  /\ At(h, "deleteImage", "clear")
  /\ image' = [image EXCEPT ![req[h].column] = NoKey]
  /\ IF req[h].key = NoKey THEN End(h) ELSE Goto(h, "dispatch")
  /\ UNCHANGED <<files, row, source, flagged, temp, doomed, pass, faults>>

\* DeleteCVUseCase of a CV that is in no running application (JobApplication).
DeleteCv_FileFirst(h, k) ==   \* mutant: the file is given up before the row
  /\ row[k] = "live"
  /\ Begin(h, "deleteCv", "dispatch", k)
  /\ UNCHANGED <<files, table, temp, doomed, pass, faults>>

DeleteCv(h, k) ==
  /\ row[k] = "live"
  /\ Begin(h, "deleteCv", "remove", k)
  /\ UNCHANGED <<files, table, temp, doomed, pass, faults>>

SoftDelete(h) ==
  /\ At(h, "deleteCv", "remove")
  /\ row' = [row EXCEPT ![req[h].key] = "deleted"]
  /\ Goto(h, "dispatch")
  /\ UNCHANGED <<files, source, flagged, image, temp, doomed, pass, faults>>

DispatchDelete(h) ==
  /\ req[h] # Idle /\ req[h].pc = "dispatch"
  /\ doomed' = doomed \cup {req[h].key}
  /\ End(h)
  /\ UNCHANGED <<files, table, temp, pass, faults>>

\* The storage-delete worker.
PerformDelete(k) ==
  /\ k \in doomed
  /\ doomed' = doomed \ {k}
  /\ object' = [object EXCEPT ![k] = "gone"]
  /\ UNCHANGED <<kind, table, temp, req, pass, faults>>

----------------------------------------------------------------------------
\* SetDefaultCVUseCase.  The transaction is READ COMMITTED: its first UPDATE
\* takes the flag from the rows committed when it starts (waiting for those
\* that are locked), the second sets it on its own; both show at the commit.
SetDefault(h, k) ==
  /\ row[k] = "live"
  /\ Begin(h, "setDefault", "unset", k)
  /\ UNCHANGED <<files, table, temp, doomed, pass, faults>>

UnsetOthers_None(h) ==   \* mutant: isDefault is not taken from the others
  /\ At(h, "setDefault", "unset")
  /\ Goto(h, "set")
  /\ UNCHANGED <<files, table, temp, doomed, pass, faults>>

UnsetOthers(h) ==
  /\ At(h, "setDefault", "unset")
  /\ req' = [req EXCEPT ![h] =
       Doing("setDefault", "set", req[h].key, NoKey, "none", flagged \cap Live)]
  /\ UNCHANGED <<files, table, temp, doomed, pass, faults>>

SetOwn(h) ==
  /\ At(h, "setDefault", "set")
  /\ flagged' = (flagged \ req[h].seen) \cup ({req[h].key} \cap Live)
  /\ End(h)
  /\ UNCHANGED <<files, row, source, image, temp, doomed, pass, faults>>

UnsetDefault(k) ==
  /\ row[k] = "live" /\ k \in flagged
  /\ flagged' = flagged \ {k}
  /\ UNCHANGED <<files, row, source, image, temp, doomed, req, pass, faults>>

----------------------------------------------------------------------------
\* A command to Redis; the adapter swallows an error.
Store(k, value) ==
  \/ temp' = [temp EXCEPT ![k] = value] /\ UNCHANGED faults
  \/ faults < MaxFaults /\ faults' = faults + 1 /\ UNCHANGED temp

\* UploadTempCVAnalysisUseCase: the object, then its metadata for two hours.
UploadTemp(h, k) ==
  /\ Put(k, "temp")
  /\ Begin(h, "uploadTemp", "offer", k)
  /\ UNCHANGED <<table, temp, doomed, pass, faults>>

MakeOffer(h) ==
  /\ At(h, "uploadTemp", "offer")
  /\ Store(req[h].key, "offered")
  /\ End(h)
  /\ UNCHANGED <<files, table, doomed, pass>>

\* PreviewTempCVAnalysisUseCase: the file is read and analysed, and the
\* result kept for two hours from then, longer than the metadata, without
\* which nothing is done with it.
Preview(h, k) ==
  /\ temp[k] # "none"
  /\ Begin(h, "preview", "fetch", k)
  /\ UNCHANGED <<files, table, temp, doomed, pass, faults>>

FetchTemp(h) ==
  /\ At(h, "preview", "fetch")
  /\ IF Present(req[h].key) THEN Goto(h, "keep") ELSE End(h)
  /\ UNCHANGED <<files, table, temp, doomed, pass, faults>>

KeepPreview(h) ==
  /\ At(h, "preview", "keep")
  /\ LET k == req[h].key
     IN  Store(k, IF temp[k] = "none" THEN "none" ELSE "previewed")
  /\ End(h)
  /\ UNCHANGED <<files, table, doomed, pass>>

\* SaveTempCVAnalysisUseCase: metadata and preview are read, the object is
\* moved (copied, then deleted), the rows are inserted, the two keys deleted.
Save(h, k) ==
  /\ temp[k] # "none"
  /\ Begin(h, "save", "preview", k)
  /\ UNCHANGED <<files, table, temp, doomed, pass, faults>>

ReadPreview(h) ==
  /\ At(h, "save", "preview")
  /\ IF temp[req[h].key] = "previewed" THEN Goto(h, "copy") ELSE End(h)
  /\ UNCHANGED <<files, table, temp, doomed, pass, faults>>

CopyTemp(h, k) ==
  /\ At(h, "save", "copy")
  /\ Present(req[h].key)
  /\ Put(k, "cv")
  /\ source' = [source EXCEPT ![k] = req[h].key]
  /\ req' = [req EXCEPT ![h] = Doing("save", "unlink", req[h].key, k, "none", {})]
  /\ UNCHANGED <<row, flagged, image, temp, doomed, pass, faults>>

CopyFails(h) ==
  /\ At(h, "save", "copy")
  /\ ~ Present(req[h].key)
  /\ End(h)
  /\ UNCHANGED <<files, table, temp, doomed, pass, faults>>

UnlinkTemp_Not(h) ==   \* mutant: the object is copied, not moved
  /\ At(h, "save", "unlink")
  /\ Goto(h, "create")
  /\ UNCHANGED <<files, table, temp, doomed, pass, faults>>

UnlinkTemp(h) ==
  /\ At(h, "save", "unlink")
  /\ object' = [object EXCEPT ![req[h].key] = "gone"]
  /\ Goto(h, "create")
  /\ UNCHANGED <<kind, table, temp, doomed, pass, faults>>

CreateSaved(h) ==
  /\ At(h, "save", "create")
  /\ row' = [row EXCEPT ![req[h].copy] = "live"]
  /\ Goto(h, "forget")
  /\ UNCHANGED <<files, source, flagged, image, temp, doomed, pass, faults>>

\* Its parsed data and skills are inserted, and the keys in Redis deleted.
Forget(h) ==
  /\ At(h, "save", "forget")
  /\ Store(req[h].key, "none")
  /\ End(h)
  /\ UNCHANGED <<files, table, doomed, pass>>

\* A statement of the handler throws: what it has written stays.
Abort(h) ==
  /\ req[h] # Idle
  /\ faults < MaxFaults /\ faults' = faults + 1
  /\ End(h)
  /\ UNCHANGED <<files, table, temp, doomed, pass>>

----------------------------------------------------------------------------
\* StorageCleanupService, at midnight: expired temporary objects, then the
\* keys that rows refer to, then bucket by bucket what is a day old and not
\* among them.
OldTemps == {k \in Keys : kind[k] = "temp" /\ object[k] = "old"}
BeginPass ==
  /\ pass.stage = "asleep"
  /\ pass' = Pass("temp", {}, OldTemps, {}, "whole")
  /\ UNCHANGED <<files, table, temp, doomed, req, faults>>

Collect_CvsOnly ==   \* mutant: the columns of profiles and companies are left out
  /\ pass.stage = "temp" /\ pass.todo = {}
  /\ pass' = Pass("buckets", Live, {}, Buckets, pass.ran)
  /\ UNCHANGED <<files, table, temp, doomed, req, faults>>

CollectReferenced ==
  /\ pass.stage = "temp" /\ pass.todo = {}
  /\ pass' = Pass("buckets", Referenced, {}, Buckets, pass.ran)
  /\ UNCHANGED <<files, table, temp, doomed, req, faults>>

OldEnough(k) == object[k] = "old"

ListBucket(b) ==
  /\ pass.stage = "buckets" /\ pass.todo = {} /\ b \in pass.left
  /\ pass' = Pass("buckets", pass.kept,
       {k \in Keys : OldEnough(k) /\ BucketOf(k) = b /\ k \notin pass.kept},
       pass.left \ {b}, pass.ran)
  /\ UNCHANGED <<files, table, temp, doomed, req, faults>>

DeleteObject(k) ==
  /\ k \in pass.todo
  /\ pass' = [pass EXCEPT !.todo = @ \ {k}]
  /\ object' = [object EXCEPT ![k] = "gone"]
  /\ UNCHANGED <<kind, table, temp, doomed, req, faults>>

\* A failing delete, or a listing that fails, ends its bucket only; collecting
\* has no catch.
PassFails ==
  /\ faults < MaxFaults /\ faults' = faults + 1
  /\ \/ pass.todo # {} /\ pass' = Pass(pass.stage, pass.kept, {}, pass.left, "cut")
     \/ /\ pass.todo = {}
        /\ \E b \in pass.left :
             pass' = Pass(pass.stage, pass.kept, {}, pass.left \ {b}, "cut")
     \/ pass.stage = "temp" /\ pass.todo = {} /\ pass' = Asleep
  /\ UNCHANGED <<files, table, temp, doomed, req>>

EndPass ==
  /\ pass.stage = "buckets" /\ pass.todo = {} /\ pass.left = {}
  /\ pass' = Asleep
  /\ UNCHANGED <<files, table, temp, doomed, req, faults>>

----------------------------------------------------------------------------
\* Time.  A request lasts less than two hours and a pass less than a day, so
\* no object gets old while one holds it or the pass is under way; the keys in
\* Redis are set for two hours, and an offer ends when its object is old.
Age(k) ==
  /\ object[k] = "fresh"
  /\ pass.stage = "asleep" /\ \A h \in Handlers : ~ Holds(h, k)
  /\ object' = [object EXCEPT ![k] = "old"]
  /\ UNCHANGED <<kind, table, temp, doomed, req, pass, faults>>

ExpireKey(k) ==
  /\ object[k] # "fresh" /\ temp[k] # "none"
  /\ temp' = [temp EXCEPT ![k] = "none"]
  /\ UNCHANGED <<files, table, doomed, req, pass, faults>>

----------------------------------------------------------------------------
Arrive(h) ==
  \/ \E k \in Keys :
       \/ UploadCv(h, k) \/ UploadTemp(h, k) \/ DeleteCv(h, k) \/ SetDefault(h, k)
       \/ Preview(h, k) \/ Save(h, k)
       \/ \E c \in Columns : UploadImage(h, k, c)
  \/ \E c \in Columns : DeleteImage(h, c)

Continue(h) ==
  \/ CreateCv(h) \/ PersistImageUrl(h) \/ ClearImage(h) \/ SoftDelete(h)
  \/ DispatchDelete(h) \/ UnsetOthers(h) \/ SetOwn(h) \/ MakeOffer(h)
  \/ FetchTemp(h) \/ KeepPreview(h) \/ ReadPreview(h) \/ CopyFails(h)
  \/ UnlinkTemp(h) \/ CreateSaved(h) \/ Forget(h)
  \/ \E k \in Keys : CopyTemp(h, k)

Clean ==
  \/ BeginPass \/ CollectReferenced \/ EndPass
  \/ \E b \in Buckets : ListBucket(b)
  \/ \E k \in Keys : DeleteObject(k)

Next ==
  \/ \E h \in Handlers : Arrive(h) \/ Continue(h) \/ Abort(h)
  \/ \E k \in Keys : UnsetDefault(k) \/ PerformDelete(k) \/ Age(k) \/ ExpireKey(k)
  \/ Clean \/ PassFails

Spec == Init /\ [][Next]_vars

----------------------------------------------------------------------------
(* Properties *)

Request ==
  [op : {"uploadCv", "uploadImage", "deleteImage", "deleteCv", "setDefault",
         "uploadTemp", "preview", "save"},
   pc : {"create", "persist", "clear", "remove", "dispatch", "unset", "set", "offer",
         "fetch", "keep", "preview", "copy", "unlink", "forget"},
   key : Keys \cup {NoKey}, copy : Keys \cup {NoKey},
   column : Columns \cup {"none"}, seen : SUBSET Keys]

TypeOK ==
  /\ object \in [Keys -> {"unused", "fresh", "old", "gone"}]
  /\ kind \in [Keys -> {"none", "temp", "cv"} \cup Columns]
  /\ row \in [Keys -> {"none", "live", "deleted"}]
  /\ source \in [Keys -> Keys \cup {NoKey}]
  /\ flagged \subseteq Keys
  /\ image \in [Columns -> Keys \cup {NoKey}]
  /\ temp \in [Keys -> {"none", "offered", "previewed"}]
  /\ doomed \subseteq Keys
  /\ req \in [Handlers -> Request \cup {Idle}]
  /\ pass \in [stage : {"asleep", "temp", "buckets"}, kept : SUBSET Keys,
               todo : SUBSET Keys, left : SUBSET Buckets, ran : {"whole", "cut"}]
  /\ faults \in 0..MaxFaults

\* Whatever fails between the stores, however deletions, saves and the pass
\* interleave: a CV or picture that is shown has its file.
RowsHaveTheirFiles == \A k \in Referenced : Present(k)

\* What no row refers to does not stay: a pass in which no statement fails
\* leaves no old object but those rows referred to when it looked, whatever
\* failed requests and passes, lost dispatches, replaced pictures and half-done
\* saves had left behind.
PassLeavesNoOrphan ==
  [][pass.stage # "asleep" /\ pass'.stage = "asleep" /\ pass.ran = "whole" /\ faults' = faults
       => {k \in Keys : object[k] = "old"} \subseteq pass.kept]_vars

\* A candidate has one default CV.  Two transactions side by side break it;
\* MCCvLibrary states it for requests that come one at a time.
OneDefault == Cardinality(flagged \cap Live) < 2

\* A temporary analysis becomes one CV.  Two saves that both copy the object
\* before either has deleted it break it; see MCCvLibrary.
SavedOnce ==
  \A k, l \in Keys :
    row[k] # "none" /\ row[l] # "none" /\ source[k] = source[l] => k = l \/ source[k] = NoKey

\* The life of a stored object, as the rows see it.
Phase(k) ==
  CASE k \in Referenced /\ Present(k)                        -> "linked"
    [] k \in Referenced /\ ~ Present(k)                      -> "broken"
    [] k \notin Referenced /\ object[k] = "unused"           -> "none"
    [] k \notin Referenced /\ object[k] = "gone"             -> "gone"
    [] OTHER                                                 -> "stored"
Promise == INSTANCE StoredFile WITH phase <- [k \in Keys |-> Phase(k)]
KeepsPromise == Promise!Spec
=============================================================================
