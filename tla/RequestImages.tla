---------------------------- MODULE RequestImages ----------------------------
(****************************************************************************)
(* The images of one repair request: rows of repair_request_images and       *)
(* objects of the storage, with a key of its own for each upload.  An upload *)
(* counts the rows, saves the object, and commits the row last; a failed     *)
(* commit deletes the object.  The administrator's deletion works the other  *)
(* way round: the objects first, the rows with the request, and the commit   *)
(* last, which the database refuses when the request has an order.           *)
(****************************************************************************)
EXTENDS Naturals, FiniteSets

CONSTANTS
    Uploads,      \* POST /repair-requests/{id}/images, and their objects
    MaxImages,    \* max_images_per_request
    MaxFaults     \* bound on the faults that leave something behind

ASSUME LimitsAssumption == MaxImages \in Nat /\ MaxFaults \in Nat

VARIABLES
    exists,    \* the row of repair_requests
    ordered,   \* a quotation was accepted: a row of orders refers to it
    rows,      \* the keys in repair_request_images
    objects,   \* the keys in the storage
    step,      \* how far each upload got
    deletion,  \* how far the administrator's call got
    left,      \* the images it has read and not removed yet
    faults,
    lost,      \* uploads whose commit succeeded and whose reply was lost
    crossed    \* a call began while another was in progress

imagesVars ==
    <<exists, ordered, rows, objects, step, deletion, left, faults, lost, crossed>>

Steps == {"idle", "counted", "saved", "failed", "ended"}

ImagesTypeOK ==
    /\ exists \in BOOLEAN /\ ordered \in BOOLEAN
    /\ rows \subseteq Uploads /\ objects \subseteq Uploads
    /\ step \in [Uploads -> Steps]
    /\ deletion \in {"none", "removing", "refused", "done"}
    /\ left \subseteq Uploads
    /\ faults \in 0..MaxFaults
    /\ lost \subseteq Uploads
    /\ crossed \in BOOLEAN

ImagesInit ==
    /\ exists = TRUE /\ ordered = FALSE
    /\ rows = {} /\ objects = {}
    /\ step = [u \in Uploads |-> "idle"]
    /\ deletion = "none" /\ left = {}
    /\ faults = 0
    /\ lost = {} /\ crossed = FALSE

Goto(u, s) == step' = [step EXCEPT ![u] = s]

Fault == faults < MaxFaults /\ faults' = faults + 1

Quiet ==
    /\ \A u \in Uploads : step[u] \in {"idle", "ended"}
    /\ deletion # "removing"

Enter == crossed' = (crossed \/ ~Quiet)

MutOneKey(u) == CHOOSE v \in Uploads : TRUE
MutUnnamed(u) == "upload"

(* build_storage_key: a fresh uuid under the folder of the request.          *)
KeyOf(u) == u

-----------------------------------------------------------------------------
(* POST /repair-requests/{id}/images                                         *)

MutOneMore == Cardinality(rows) <= MaxImages

BelowLimit == Cardinality(rows) < MaxImages

(* The request is read, still editable, and its images are counted.          *)
CountImages(u) ==
    /\ step[u] = "idle"
    /\ Enter
    /\ exists /\ ~ordered
    /\ BelowLimit
    /\ Goto(u, "counted")
    /\ UNCHANGED <<exists, ordered, rows, objects, deletion, left, faults, lost>>

Save(u) ==
    /\ step[u] = "counted"
    /\ objects' = objects \cup {KeyOf(u)}
    /\ Goto(u, "saved")
    /\ UNCHANGED <<exists, ordered, rows, deletion, left, faults, lost,
                   crossed>>

(* Nothing was written, or the object was and could not be verified.         *)
SaveFails(u) ==
    /\ step[u] = "counted"
    /\ \/ UNCHANGED <<objects, faults>>
       \/ objects' = objects \cup {KeyOf(u)} /\ Fault
    /\ Goto(u, "ended")
    /\ UNCHANGED <<exists, ordered, rows, deletion, left, lost, crossed>>

(* The foreign key refuses the row of a request that is gone.                *)
Commit(u) ==
    /\ step[u] = "saved"
    /\ exists
    /\ rows' = rows \cup {KeyOf(u)}
    /\ Goto(u, "ended")
    /\ UNCHANGED <<exists, ordered, objects, deletion, left, faults, lost,
                   crossed>>

CommitUnknown(u) ==
    /\ step[u] = "saved"
    /\ exists
    /\ rows' = rows \cup {KeyOf(u)}
    /\ lost' = lost \cup {u}
    /\ Goto(u, "failed")
    /\ UNCHANGED <<exists, ordered, objects, deletion, left, faults, crossed>>

CommitFails(u) ==
    /\ step[u] = "saved"
    /\ Goto(u, "failed")
    /\ UNCHANGED <<exists, ordered, rows, objects, deletion, left, faults, lost,
                   crossed>>

MutLeaves(key) == UNCHANGED objects

Discard(key) == objects' = objects \ {key}

(* After the rollback; an error of the storage is ignored.                   *)
Cleanup(u) ==
    /\ step[u] = "failed"
    /\ \/ Discard(KeyOf(u)) /\ UNCHANGED faults
       \/ Fault /\ UNCHANGED objects
    /\ Goto(u, "ended")
    /\ UNCHANGED <<exists, ordered, rows, deletion, left, lost, crossed>>

(* The worker dies: nobody cleans up.                                        *)
Crash(u) ==
    /\ step[u] \in {"counted", "saved", "failed"}
    /\ Fault
    /\ Goto(u, "ended")
    /\ UNCHANGED <<exists, ordered, rows, objects, deletion, left, lost,
                   crossed>>

-----------------------------------------------------------------------------
(* DELETE /admin/requests/{id}                                               *)

ReadImages ==
    /\ exists /\ deletion \in {"none", "refused"}
    /\ Enter
    /\ deletion' = "removing"
    /\ left' = rows
    /\ UNCHANGED <<exists, ordered, rows, objects, step, faults, lost>>

(* delete_images: one object after the other.                                *)
RemoveObject ==
    /\ deletion = "removing"
    /\ \E key \in left :
        /\ Discard(key)
        /\ left' = left \ {key}
    /\ UNCHANGED <<exists, ordered, rows, step, deletion, faults, lost,
                   crossed>>

(* A StorageError, or a crash, half way.                                     *)
DeletionFails ==
    /\ deletion = "removing"
    /\ Fault
    /\ deletion' = "refused" /\ left' = {}
    /\ UNCHANGED <<exists, ordered, rows, objects, step, lost, crossed>>

(* The rows go with the request; a request with an order cannot go.          *)
CommitDeletion ==
    /\ deletion = "removing" /\ left = {}
    /\ IF ordered
       THEN deletion' = "refused" /\ UNCHANGED <<exists, rows>>
       ELSE deletion' = "done" /\ exists' = FALSE /\ rows' = {}
    /\ UNCHANGED <<ordered, objects, step, left, faults, lost, crossed>>

-----------------------------------------------------------------------------
(* A quotation of the request is accepted.                                   *)
Award ==
    /\ exists /\ ~ordered
    /\ Enter
    /\ ordered' = TRUE
    /\ UNCHANGED <<exists, rows, objects, step, deletion, left, faults, lost>>

Upload(u) ==
    \/ CountImages(u) \/ Save(u) \/ SaveFails(u) \/ Commit(u)
    \/ CommitUnknown(u) \/ CommitFails(u) \/ Cleanup(u)

Deletion == ReadImages \/ RemoveObject \/ CommitDeletion

ImagesNext ==
    \/ \E u \in Uploads : Upload(u) \/ Crash(u)
    \/ Deletion \/ DeletionFails
    \/ Award

ImagesSpec == ImagesInit /\ [][ImagesNext]_imagesVars

-----------------------------------------------------------------------------
(* GET /media: the key has to be in a row, and its object in the storage.    *)
Stored(key) == key \in objects

Fetched(key) == key \in rows /\ Stored(key)

(* What a reader of the request is given links to.                           *)
Linked == rows

-----------------------------------------------------------------------------
(* What a request links to can be fetched: the object is saved under a key   *)
(* of its own before the row is committed, and taken away only when the row  *)
(* was not.  An upload loses it when the reply to its commit was lost, since *)
(* the handler takes that for a failure; and all do once the administrator's *)
(* deletion has begun, one that the database then refuses, because of an     *)
(* order, included.                                                          *)
MissingNeedsAReason ==
    deletion = "none" => {key \in Linked : ~Fetched(key)} \subseteq lost

(* No object is left without a row when every call has returned, but for     *)
(* faults that no handler could see, and for an upload committed while its   *)
(* request is being deleted.                                                 *)
OrphansNeedAFault ==
    Quiet /\ objects \ rows # {}
        => faults > 0 \/ (crossed /\ deletion # "none")

(* Rows and objects belong together, but for the reasons named.              *)
ImagesHaveTheirObjects ==
    ImagesTypeOK /\ MissingNeedsAReason /\ OrphansNeedAFault

(* "Maximo N imagenes por solicitud", as long as no two calls overlap: two   *)
(* uploads that count the images at the same time pass the limit.            *)
SerialUploadsAreLimited == ~crossed => Cardinality(rows) <= MaxImages
=============================================================================
