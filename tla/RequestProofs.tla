---------------------------- MODULE RequestProofs ----------------------------
(****************************************************************************)
(* A repair request.  Rows and objects of its images, for any number of      *)
(* uploads, of faults and of attempts to delete the request, and for any     *)
(* limit.  And its columns, for any payloads and any number of overlapping   *)
(* edits.  The two are about different tables and share no call: each        *)
(* theorem is of one of the two specifications.                              *)
(****************************************************************************)
EXTENDS RequestImages, RequestEditing, FiniteSetTheorems, TLAPS

(* What an upload still has to do with the storage and the table.            *)
Open(u) == step[u] \in {"counted", "saved", "failed"}

LEMMA ImagesInitTypeOK == ImagesInit => ImagesTypeOK
<1> SUFFICES ASSUME ImagesInit PROVE ImagesTypeOK
  OBVIOUS
<1>1. step \in [Uploads -> Steps] /\ faults \in 0..MaxFaults
  BY LimitsAssumption DEF ImagesInit, Steps
<1>2. /\ rows \subseteq Uploads /\ objects \subseteq Uploads
      /\ left \subseteq Uploads /\ lost \subseteq Uploads
  BY DEF ImagesInit
<1> QED
  BY <1>1, <1>2 DEF ImagesInit, ImagesTypeOK

LEMMA ImagesStepTypeOK == ImagesTypeOK /\ [ImagesNext]_imagesVars
   => ImagesTypeOK'
<1> SUFFICES ASSUME ImagesTypeOK, [ImagesNext]_imagesVars PROVE ImagesTypeOK'
  OBVIOUS
<1> USE LimitsAssumption DEF ImagesTypeOK, Goto, KeyOf, Steps
<1>1. ASSUME NEW u \in Uploads, CountImages(u) PROVE ImagesTypeOK'
  BY <1>1 DEF CountImages, Enter
<1>2. ASSUME NEW u \in Uploads, Save(u) PROVE ImagesTypeOK'
  BY <1>2 DEF Save
<1>3. ASSUME NEW u \in Uploads, SaveFails(u) PROVE ImagesTypeOK'
  BY <1>3 DEF SaveFails, Fault
<1>4. ASSUME NEW u \in Uploads, Commit(u) \/ CommitUnknown(u) \/ CommitFails(u)
      PROVE  ImagesTypeOK'
  BY <1>4 DEF Commit, CommitUnknown, CommitFails
<1>5. ASSUME NEW u \in Uploads, Cleanup(u) \/ Crash(u) PROVE ImagesTypeOK'
  BY <1>5 DEF Cleanup, Crash, Fault, Discard
<1>6. CASE ReadImages
  BY <1>6 DEF ReadImages, Enter
<1>7. CASE RemoveObject
  BY <1>7 DEF RemoveObject, Discard
<1>8. CASE CommitDeletion \/ DeletionFails
  <2>1. rows' \subseteq Uploads /\ left' \subseteq Uploads
    BY <1>8 DEF CommitDeletion, DeletionFails
  <2>2. exists' \in BOOLEAN /\ deletion' \in {"refused", "done"}
    BY <1>8 DEF CommitDeletion, DeletionFails
  <2>3. faults' \in 0..MaxFaults
    BY <1>8 DEF CommitDeletion, DeletionFails, Fault
  <2> QED
    BY <1>8, <2>1, <2>2, <2>3 DEF CommitDeletion, DeletionFails
<1>9. CASE Award
  BY <1>9 DEF Award, Enter
<1>10. CASE UNCHANGED imagesVars
  BY <1>10 DEF imagesVars
<1> QED
  BY <1>1, <1>2, <1>3, <1>4, <1>5, <1>6, <1>7, <1>8, <1>9, <1>10
  DEF ImagesNext, Upload, Deletion

-----------------------------------------------------------------------------
(* Rows without objects                                                      *)

(* Until a deletion begins, an upload that is about to commit has its object. *)
SavedIsStored ==
    deletion = "none" => \A u \in Uploads : step[u] = "saved" => u \in objects

(* Only an upload past its commit has a row, and only one whose reply was    *)
(* lost is going to discard the object of its row.                           *)
RowsAreCommitted ==
    \A u \in rows : step[u] = "ended" \/ (step[u] = "failed" /\ u \in lost)

MissingInv == SavedIsStored /\ RowsAreCommitted /\ MissingNeedsAReason

LEMMA MissingInit == ImagesInit => MissingInv
  BY DEF ImagesInit, MissingInv, SavedIsStored, RowsAreCommitted,
     MissingNeedsAReason,
         Linked

LEMMA MissingStep == ImagesTypeOK /\ MissingInv /\ [ImagesNext]_imagesVars
   => MissingInv'
<1> SUFFICES ASSUME ImagesTypeOK, MissingInv, [ImagesNext]_imagesVars
    PROVE MissingInv'
  OBVIOUS
<1> USE DEF ImagesTypeOK, MissingInv, SavedIsStored, RowsAreCommitted,
            MissingNeedsAReason, Linked, Fetched, Stored, Goto, KeyOf
<1>1. ASSUME NEW u \in Uploads, CountImages(u) \/ CommitFails(u)
      PROVE MissingInv'
  BY <1>1 DEF CountImages, CommitFails
<1>2. ASSUME NEW u \in Uploads, Save(u) PROVE MissingInv'
  BY <1>2 DEF Save
<1>3. ASSUME NEW u \in Uploads, SaveFails(u) PROVE MissingInv'
  BY <1>3 DEF SaveFails
<1>4. ASSUME NEW u \in Uploads, Commit(u) PROVE MissingInv'
  BY <1>4 DEF Commit
<1>5. ASSUME NEW u \in Uploads, CommitUnknown(u) PROVE MissingInv'
  BY <1>5 DEF CommitUnknown
<1>6. ASSUME NEW u \in Uploads, Cleanup(u) PROVE MissingInv'
  BY <1>6 DEF Cleanup, Discard
<1>7. ASSUME NEW u \in Uploads, Crash(u) PROVE MissingInv'
  BY <1>7 DEF Crash
<1>8. CASE ReadImages
  BY <1>8 DEF ReadImages
<1>9. CASE RemoveObject
  BY <1>9 DEF RemoveObject
<1>10. CASE CommitDeletion \/ DeletionFails
  BY <1>10 DEF CommitDeletion, DeletionFails
<1>11. CASE Award
  BY <1>11 DEF Award
<1>12. CASE UNCHANGED imagesVars
  BY <1>12 DEF imagesVars
<1> QED
  BY <1>1, <1>2, <1>3, <1>4, <1>5, <1>6, <1>7, <1>8, <1>9, <1>10, <1>11, <1>12
  DEF ImagesNext, Upload, Deletion

-----------------------------------------------------------------------------
(* Objects without rows                                                      *)

(* A deletion that nothing overlaps finds no upload under way, and the       *)
(* objects it has not removed yet are those it has read.                     *)
DeletionAloneSeesAll ==
    deletion = "removing" /\ ~crossed =>
        /\ objects \cap rows \subseteq left
        /\ \A u \in Uploads : ~Open(u)

(* OrphansNeedAFault while calls are under way: their objects may wait.      *)
OrphansAreExplained ==
    \A u \in objects \ rows :
        \/ step[u] \in {"saved", "failed"}
        \/ faults > 0
        \/ crossed /\ deletion # "none"

OrphanInv == DeletionAloneSeesAll /\ OrphansAreExplained

LEMMA OrphanInit == ImagesInit => OrphanInv
  BY DEF ImagesInit, OrphanInv, DeletionAloneSeesAll, OrphansAreExplained

LEMMA OrphanStep == ImagesTypeOK /\ OrphanInv /\ [ImagesNext]_imagesVars
   => OrphanInv'
<1> SUFFICES ASSUME ImagesTypeOK, OrphanInv, [ImagesNext]_imagesVars
    PROVE OrphanInv'
  OBVIOUS
<1> USE LimitsAssumption
    DEF ImagesTypeOK, OrphanInv, DeletionAloneSeesAll, OrphansAreExplained,
       Open,
        Goto, KeyOf
<1>1. ASSUME NEW u \in Uploads, CountImages(u) PROVE OrphanInv'
  BY <1>1 DEF CountImages, Enter, Quiet
<1>2. ASSUME NEW u \in Uploads, Save(u) PROVE OrphanInv'
  BY <1>2 DEF Save
<1>3. ASSUME NEW u \in Uploads, SaveFails(u) PROVE OrphanInv'
  BY <1>3 DEF SaveFails, Fault
<1>4. ASSUME NEW u \in Uploads, Commit(u) PROVE OrphanInv'
  BY <1>4 DEF Commit
<1>5. ASSUME NEW u \in Uploads, CommitUnknown(u) PROVE OrphanInv'
  BY <1>5 DEF CommitUnknown
<1>6. ASSUME NEW u \in Uploads, CommitFails(u) PROVE OrphanInv'
  BY <1>6 DEF CommitFails
<1>7. ASSUME NEW u \in Uploads, Cleanup(u) PROVE OrphanInv'
  BY <1>7 DEF Cleanup, Discard, Fault
<1>8. ASSUME NEW u \in Uploads, Crash(u) PROVE OrphanInv'
  BY <1>8 DEF Crash, Fault
<1>9. CASE ReadImages
  BY <1>9 DEF ReadImages, Enter, Quiet, Steps
<1>10. CASE RemoveObject
  BY <1>10 DEF RemoveObject, Discard
<1>11. CASE CommitDeletion
  BY <1>11 DEF CommitDeletion
<1>12. CASE DeletionFails
  BY <1>12 DEF DeletionFails, Fault
<1>13. CASE Award
  BY <1>13 DEF Award, Enter, Quiet
<1>14. CASE UNCHANGED imagesVars
  BY <1>14 DEF imagesVars
<1> QED
  BY <1>1, <1>2, <1>3, <1>4, <1>5, <1>6, <1>7, <1>8, <1>9, <1>10, <1>11, <1>12,
     <1>13, <1>14
  DEF ImagesNext, Upload, Deletion

LEMMA OrphansOfQuietStates ==
  ASSUME ImagesTypeOK, OrphanInv PROVE OrphansNeedAFault
  BY DEF OrphanInv, OrphansAreExplained, OrphansNeedAFault, Quiet, ImagesTypeOK

(* What a request links to can be fetched, and what is stored is linked to,  *)
(* but for the reasons the property names.                                   *)
THEOREM ImagesAndObjectsMatch == ImagesSpec => []ImagesHaveTheirObjects
  BY ImagesInitTypeOK, ImagesStepTypeOK, MissingInit, MissingStep, OrphanInit,
     OrphanStep,
     OrphansOfQuietStates, PTL
  DEF ImagesSpec, ImagesHaveTheirObjects, MissingInv

-----------------------------------------------------------------------------
(* The limit                                                                 *)

(* While no calls overlap, an upload that has counted is alone until its     *)
(* commit, and what it counted is still so.                                  *)
LimitInv ==
    /\ IsFiniteSet(rows)
    /\ ~crossed =>
           /\ Cardinality(rows) <= MaxImages
           /\ \A u, v \in Uploads : Open(u) /\ Open(v) => u = v
           /\ \A u \in Uploads : step[u] \in {"counted", "saved"}
                                     => Cardinality(rows) < MaxImages

LEMMA LimitInit == ImagesInit => LimitInv
  BY FS_EmptySet, LimitsAssumption DEF ImagesInit, LimitInv, Open

LEMMA LimitStep ==
  ImagesTypeOK /\ OrphanInv /\ LimitInv /\ [ImagesNext]_imagesVars => LimitInv'
<1> SUFFICES ASSUME ImagesTypeOK, OrphanInv, LimitInv,
       [ImagesNext]_imagesVars PROVE LimitInv'
  OBVIOUS
<1> USE LimitsAssumption DEF ImagesTypeOK, LimitInv, Open, Goto, KeyOf
<1>1. Cardinality(rows) \in Nat
  BY FS_CardinalityType
<1>2. ASSUME NEW u \in Uploads, CountImages(u) PROVE LimitInv'
  BY <1>1, <1>2 DEF CountImages, Enter, Quiet, BelowLimit
<1>3. ASSUME NEW u \in Uploads, rows' = rows, crossed' = crossed,
             step[u] \in {"counted", "saved", "failed"},
             \/ step' = [step EXCEPT ![u] = "ended"]
             \/ step' = [step EXCEPT ![u] = "failed"]
             \/ step[u] = "counted" /\ step' = [step EXCEPT ![u] = "saved"]
      PROVE  LimitInv'
  BY <1>3
<1>4. ASSUME NEW u \in Uploads,
             Save(u) \/ SaveFails(u) \/ CommitFails(u) \/ Cleanup(u)
                \/ Crash(u)
      PROVE  LimitInv'
  BY <1>3, <1>4 DEF Save, SaveFails, CommitFails, Cleanup, Crash
<1>5. ASSUME NEW u \in Uploads, Commit(u) \/ CommitUnknown(u) PROVE LimitInv'
  <2>1. /\ rows' = rows \cup {u} /\ crossed' = crossed /\ step[u] = "saved"
        /\ \/ step' = [step EXCEPT ![u] = "ended"]
           \/ step' = [step EXCEPT ![u] = "failed"]
    BY <1>5 DEF Commit, CommitUnknown
  <2>2. IsFiniteSet(rows') /\ Cardinality(rows') <= Cardinality(rows) + 1
    <3>1. /\ IsFiniteSet(rows \cup {u})
          /\ Cardinality(rows \cup {u}) =
                 IF u \in rows THEN Cardinality(rows) ELSE Cardinality(rows) + 1
      BY FS_AddElement
    <3> QED
      BY <1>1, <2>1, <3>1
  <2>3. Cardinality(rows') \in Nat
    BY <2>2, FS_CardinalityType
  <2>4. ~crossed => Cardinality(rows') <= MaxImages
    BY <1>1, <2>1, <2>2, <2>3
  <2>5. ~crossed => \A v \in Uploads : step'[v] \notin {"counted", "saved"}
    BY <2>1
  <2>6. ~crossed => \A v, w \in Uploads : Open(v)' /\ Open(w)' => v = w
    BY <2>1
  <2> QED
    BY <2>1, <2>2, <2>4, <2>5, <2>6
<1>6. CASE CommitDeletion
  <2>1. rows' \in {rows, {}} /\ crossed' = crossed /\ step' = step
    BY <1>6 DEF CommitDeletion
  <2>2. CASE rows' = rows
    BY <2>1, <2>2
  <2>3. CASE rows' = {}
    <3>1. IsFiniteSet(rows') /\ Cardinality(rows') = 0
      BY <2>3, FS_EmptySet
    <3>2. ~crossed => \A u \in Uploads : ~Open(u)
      BY <1>6 DEF CommitDeletion, OrphanInv, DeletionAloneSeesAll
    <3> QED
      BY <2>1, <3>1, <3>2
  <2> QED
    BY <2>1, <2>2, <2>3
<1>7. CASE ReadImages \/ RemoveObject \/ DeletionFails \/ Award
  BY <1>7 DEF ReadImages, RemoveObject, DeletionFails, Award, Enter
<1>8. CASE UNCHANGED imagesVars
  BY <1>8 DEF imagesVars
<1> QED
  BY <1>2, <1>4, <1>5, <1>6, <1>7, <1>8 DEF ImagesNext, Upload, Deletion

(* As long as no two calls overlap, a request has at most as many images as  *)
(* the limit says.                                                           *)
THEOREM LimitHoldsSerially == ImagesSpec => []SerialUploadsAreLimited
<1>1. LimitInv => SerialUploadsAreLimited
  BY DEF LimitInv, SerialUploadsAreLimited
<1> QED
  BY <1>1, ImagesInitTypeOK, ImagesStepTypeOK, OrphanInit, OrphanStep,
     LimitInit, LimitStep,
     PTL
  DEF ImagesSpec

-----------------------------------------------------------------------------
(* The columns of the request                                                *)

(* A call in progress carries an UPDATE of columns it names; until two calls *)
(* overlap, the row is still the one it checked (SerialInv).                 *)
Names(p) ==
    DOMAIN p \cup IF "district" \in DOMAIN p THEN {"department"} ELSE {}

EditsAreNamed == \A k \in busy : DOMAIN write[k] \subseteq Names(named[k])

EditingInv ==
    /\ TypeOK
    /\ DOMAIN named = Calls /\ DOMAIN write = Calls
    /\ named = [k \in Calls |-> named[k]]
    /\ write = [k \in Calls |-> write[k]]
    /\ EditsAreNamed

SerialInv ==
    /\ Coherent(row)
    /\ \A j, k \in busy : j = k
    /\ \A k \in busy : /\ Coherent(Store(row, write[k]))
                       /\ status \in EDITABLE_STATUSES

-----------------------------------------------------------------------------
(* The helpers                                                               *)

LEMMA ColumnsOfARow ==
  ASSUME NEW r \in Row
  PROVE  r = [f \in Columns |-> r[f]]
  BY DEF Row, Columns

(* A row of which some columns are replaced by values of theirs is a row.    *)
LEMMA RowByColumns ==
  ASSUME NEW n, n = [f \in Columns |-> n[f]],
         \A f \in Columns : \E r \in Row : n[f] = r[f]
  PROVE  n \in Row
<1>1. n["budget_min"] \in Amounts \cup {None}
  BY DEF Columns, Row
<1>2. n["budget_max"] \in Amounts \cup {None}
  BY DEF Columns, Row
<1>3. n["modality"] \in {"home", "workshop"}
  BY DEF Columns, Row
<1>4. n["address"] \in BOOLEAN
  BY Zenon DEF Columns, Row
<1>5. n["district"] \in Districts \cup {None}
  BY DEF Columns, Row
<1>6. n["department"] \in {DepartmentOf[d] : d \in Districts} \cup {None}
  BY DEF Columns, Row
<1>7. n = [budget_min |-> n["budget_min"], budget_max |-> n["budget_max"],
           modality |-> n["modality"], address |-> n["address"],
           district |-> n["district"], department |-> n["department"]]
  BY DEF Columns
<1>. QED
  BY <1>1, <1>2, <1>3, <1>4, <1>5, <1>6, <1>7 DEF Row

LEMMA StoreIsARow ==
  ASSUME NEW r \in Row, NEW w,
     \A f \in DOMAIN w : \E q \in Row : w[f] = q[f]
  PROVE  Store(r, w) \in Row
<1>. DEFINE n == Store(r, w)
<1>1. n = [f \in Columns |-> n[f]]
  BY DEF Store
<1>2. \A f \in Columns : \E q \in Row : n[f] = q[f]
  BY DEF Store
<1>. QED
  BY <1>1, <1>2, RowByColumns

LEMMA ChangesOfMerge ==
  ASSUME NEW r \in Row, NEW p \in Payloads, PayloadIsWellFormed(p)
  PROVE  /\ DOMAIN Changes(r, Merge(r, p)) \subseteq Names(p)
         /\ \A f \in DOMAIN Changes(r, Merge(r, p)) :
                \E q \in Row : Changes(r, Merge(r, p))[f] = q[f]
         /\ Store(r, Changes(r, Merge(r, p))) = Merge(r, p)
<1>. DEFINE n == Merge(r, p)
            w == Changes(r, n)
<1>1. DOMAIN w = {g \in Columns : n[g] # r[g]}
         /\ \A f \in DOMAIN w : w[f] = n[f]
  BY DEF Changes
<1>2. \A f \in Columns \ Names(p) : n[f] = r[f]
  BY DEF Merge, Names
<1>3. DOMAIN w \subseteq Names(p)
  BY <1>1, <1>2
<1>4. \A f \in Columns : \E q \in Row : n[f] = q[f]
  <2>. SUFFICES ASSUME NEW f \in Columns
       PROVE \E q \in Row : n[f] = q[f]
    OBVIOUS
  <2>1. CASE f \in DOMAIN p
    BY <2>1 DEF Merge, PayloadIsWellFormed
  <2>2. CASE f \notin DOMAIN p /\ f = "department" /\ "district" \in DOMAIN p
    <3>1. n[f] = DepartmentOf[p["district"]] /\ p["district"] \in Districts
      BY <2>2 DEF Merge, PayloadIsWellFormed
    <3>2. [r EXCEPT !.department = n[f]] \in Row
      BY <3>1 DEF Row
    <3>3. [r EXCEPT !.department = n[f]][f] = n[f]
      BY <2>2 DEF Row
    <3>. QED
      BY <3>2, <3>3
  <2>3. CASE f \notin DOMAIN p /\ ~(f = "department"
           /\ "district" \in DOMAIN p)
    BY <2>3 DEF Merge
  <2>. QED
    BY <2>1, <2>2, <2>3
<1>5. Store(r, w) = n
  BY <1>1 DEF Store, Merge
<1>. QED
  BY <1>1, <1>3, <1>4, <1>5

(* What update accepts is coherent: the merge keeps districts in their       *)
(* departments, the rest it checks.                                          *)
LEMMA MergeIsCoherent ==
  ASSUME NEW r \in Row, NEW p \in Payloads, PayloadIsWellFormed(p),
         Coherent(r), Accepted(Merge(r, p))
  PROVE  Coherent(Merge(r, p))
<1>1. CASE "district" \in DOMAIN p
  <2>1. Merge(r, p).department = DepartmentOf[p["district"]]
        /\ Merge(r, p).district = p["district"]
    BY <1>1 DEF Merge, PayloadIsWellFormed, Columns
  <2>. QED
    BY <2>1 DEF Coherent, Accepted, DistrictFits
<1>2. CASE "district" \notin DOMAIN p
  <2>1. Merge(r, p).department = r.department
        /\ Merge(r, p).district = r.district
    BY <1>2 DEF Merge, PayloadIsWellFormed, Columns
  <2>. QED
    BY <2>1 DEF Coherent, Accepted, DistrictFits
<1>. QED
  BY <1>1, <1>2

-----------------------------------------------------------------------------
(* The invariant of any number of overlapping calls                          *)

LEMMA EditingInit == Init => EditingInv
  BY DEF Init, EditingInv, TypeOK, EditsAreNamed, Empty,
     RequestStatus,
     EDITABLE_STATUSES

LEMMA BeginIsBoolean == Begin => overlapped' \in BOOLEAN
<1>1. (overlapped \/ busy # {}) \in BOOLEAN
  BY Zenon
<1>. QED
  BY <1>1 DEF Begin

LEMMA ReadHolds ==
  ASSUME EditingInv, NEW k \in Calls, UpdateRead(k)
  PROVE  EditingInv'
<1>. USE DEF EditingInv
<1>1. PICK p \in Payloads :
          /\ PayloadIsWellFormed(p)
          /\ named' = [named EXCEPT ![k] = p]
          /\ write' = [write EXCEPT ![k] = Changes(row, Merge(row, p))]
  BY DEF UpdateRead
<1>2. UNCHANGED <<row, status>> /\ busy' = busy \cup {k}
  BY DEF UpdateRead
<1>3. /\ named'[k] = p /\ write'[k] = Changes(row, Merge(row, p))
      /\ \A j \in Calls \ {k} : named'[j] = named[j] /\ write'[j] = write[j]
      /\ DOMAIN named' = Calls /\ DOMAIN write' = Calls
      /\ named' = [j \in Calls |-> named'[j]]
      /\ write' = [j \in Calls |-> write'[j]]
  BY <1>1
<1>4. /\ DOMAIN write'[k] \subseteq Names(p)
      /\ \A f \in DOMAIN write'[k] : \E r \in Row : write'[k][f] = r[f]
  BY <1>1, <1>3, ChangesOfMerge DEF TypeOK
<1>5. TypeOK'
  <2>1. overlapped' \in BOOLEAN
    BY BeginIsBoolean DEF UpdateRead
  <2>. QED
    BY <1>2, <1>3, <1>4, <2>1 DEF TypeOK
<1>6. EditsAreNamed'
  BY <1>2, <1>3, <1>4 DEF EditsAreNamed, TypeOK
<1>. QED
  BY <1>3, <1>5, <1>6

LEMMA CommitHolds ==
  ASSUME EditingInv, NEW k \in Calls, UpdateCommit(k)
  PROVE  EditingInv'
<1>. USE DEF EditingInv
<1>1. /\ named'[k] = Empty /\ write'[k] = Empty
      /\ \A j \in Calls \ {k} : named'[j] = named[j] /\ write'[j] = write[j]
      /\ DOMAIN named' = Calls /\ DOMAIN write' = Calls
      /\ named' = [j \in Calls |-> named'[j]]
      /\ write' = [j \in Calls |-> write'[j]]
  BY DEF UpdateCommit
<1>2. row' \in Row
  BY StoreIsARow DEF UpdateCommit, TypeOK
<1>3. \A f \in DOMAIN Empty : FALSE
  BY DEF Empty
<1>4. TypeOK'
  BY <1>1, <1>2, <1>3 DEF TypeOK, UpdateCommit
<1>5. EditsAreNamed'
  BY <1>1 DEF EditsAreNamed, UpdateCommit, TypeOK
<1>. QED
  BY <1>1, <1>4, <1>5

LEMMA EditingStep ==
  ASSUME EditingInv, [Next]_vars
  PROVE  EditingInv'
<1>1. CASE StatusMoves
  BY <1>1, BeginIsBoolean
  DEF StatusMoves, EditingInv, TypeOK, EditsAreNamed,
     RequestStatus,
     EDITABLE_STATUSES
<1>2. CASE UNCHANGED vars
  BY <1>2 DEF vars, EditingInv, TypeOK, EditsAreNamed
<1>. QED
  BY <1>1, <1>2, ReadHolds, CommitHolds DEF Next

-----------------------------------------------------------------------------
(* The invariant of calls that do not overlap                                *)

LEMMA CheckedStep ==
  ASSUME EditingInv, SerialInv, [Next]_vars, ~overlapped'
  PROVE  SerialInv' /\ (row' # row => status \in EDITABLE_STATUSES)
<1>. USE DEF EditingInv
<1>1. ASSUME NEW k \in Calls, UpdateRead(k)
      PROVE  SerialInv' /\ UNCHANGED row
  <2>1. PICK p \in Payloads :
            /\ PayloadIsWellFormed(p)
            /\ Accepted(Merge(row, p))
            /\ write' = [write EXCEPT ![k] = Changes(row, Merge(row, p))]
    BY <1>1 DEF UpdateRead
  <2>2. /\ UNCHANGED <<row, status>> /\ busy' = {k}
        /\ status \in EDITABLE_STATUSES
    BY <1>1 DEF UpdateRead, Begin, IsEditable
  <2>3. write'[k] = Changes(row, Merge(row, p))
    BY <2>1
  <2>4. Store(row, write'[k]) = Merge(row, p)
    BY <2>1, <2>3, ChangesOfMerge DEF TypeOK
  <2>5. Coherent(Merge(row, p))
    BY <2>1, MergeIsCoherent DEF TypeOK, SerialInv
  <2>6. Coherent(row)' /\ Coherent(Store(row, write[k]))'
    BY <2>2, <2>4, <2>5, Zenon DEF SerialInv
  <2>. QED
    BY <2>2, <2>6 DEF SerialInv
<1>2. ASSUME NEW k \in Calls, UpdateCommit(k)
      PROVE  SerialInv' /\ status \in EDITABLE_STATUSES
  <2>1. k \in busy /\ row' = Store(row, write[k]) /\ busy' = {}
    BY <1>2 DEF UpdateCommit, SerialInv
  <2>2. Coherent(row') /\ status \in EDITABLE_STATUSES
    BY <2>1 DEF SerialInv
  <2>3. Coherent(row)'
    BY <2>2
    DEF Coherent, BudgetsInOrder, HomeHasAddress,
       DistrictFits
  <2>. QED
    BY <2>1, <2>2, <2>3 DEF SerialInv
<1>3. CASE StatusMoves
  <2>1. UNCHANGED <<row, busy, write>> /\ busy = {}
    BY <1>3 DEF StatusMoves, Begin
  <2>2. Coherent(row)'
    BY <2>1
    DEF SerialInv, Coherent, BudgetsInOrder, HomeHasAddress,
       DistrictFits
  <2>. QED
    BY <2>1, <2>2 DEF SerialInv
<1>4. CASE UNCHANGED vars
  <2>1. UNCHANGED <<row, status, write, busy>>
    BY <1>4 DEF vars
  <2>2. Coherent(row)'
    BY <2>1
    DEF SerialInv, Coherent, BudgetsInOrder, HomeHasAddress,
       DistrictFits
  <2>3. ASSUME NEW k \in busy PROVE Coherent(Store(row, write[k]))'
    <3>1. (Store(row, write[k]))' = Store(row, write[k])
      BY <2>1 DEF Store
    <3>2. Coherent(Store(row, write[k]))
      BY DEF SerialInv
    <3>. QED
      BY <3>1, <3>2
      DEF Coherent, BudgetsInOrder, HomeHasAddress,
         DistrictFits
  <2>. QED
    BY <2>1, <2>2, <2>3 DEF SerialInv
<1>. QED
  BY <1>1, <1>2, <1>3, <1>4 DEF Next

-----------------------------------------------------------------------------
(* Theorems                                                                  *)

(* Overlapping edits never write a value no column of a row may hold.        *)
THEOREM EditingTypeCorrect == Spec => []TypeOK
<1>1. EditingInv => TypeOK
  BY DEF EditingInv
<1>2. EditingInv /\ [Next]_vars => EditingInv'
  BY EditingStep
<1>. QED
  BY <1>1, <1>2, EditingInit, PTL DEF Spec

(* An edit touches the fields it was sent and no other: overlapping edits of *)
(* different fields both take effect.                                        *)
THEOREM EditsMerge == Spec => OnlyNamedColumnsChange
<1>1. EditingInv /\ [Next]_vars => EditingInv'
  BY EditingStep
<1>2. EditingInv /\ [Next]_vars =>
          [\A f \in Columns : row'[f] # row[f] =>
              \E k \in busy :
                  \/ f \in DOMAIN named[k]
                  \/ f = "department"
                        /\ "district" \in DOMAIN named[k]]_vars
  <2>. SUFFICES ASSUME EditingInv, [Next]_vars,
          NEW f \in Columns,
                       row'[f] # row[f]
                PROVE  \E k \in busy :
                           \/ f \in DOMAIN named[k]
                           \/ f = "department"
                                 /\ "district" \in DOMAIN named[k]
    OBVIOUS
  <2>1. PICK k \in Calls : UpdateCommit(k)
    BY DEF Next, StatusMoves, UpdateRead, vars
  <2>2. k \in busy /\ f \in DOMAIN write[k]
    BY <2>1 DEF UpdateCommit, Store
  <2>3. f \in Names(named[k])
    BY <2>2 DEF EditingInv, EditsAreNamed
  <2>. QED
    BY <2>2, <2>3 DEF Names
<1>. QED
  BY <1>1, <1>2, EditingInit, PTL DEF Spec, OnlyNamedColumnsChange

(* Until two calls overlap, every row satisfies what update checks, and no   *)
(* request is edited once it was awarded or cancelled.                       *)
THEOREM SerialEditsAreChecked ==
  Spec => []SerialEditsAreCoherent /\ AwardedIsNotEdited
<1>. DEFINE Inv == ~overlapped => SerialInv
<1>1. Init => Inv
  BY DEF Init, SerialInv
<1>2. EditingInv /\ [Next]_vars => EditingInv'
  BY EditingStep
<1>3. [Next]_vars => (overlapped => overlapped')
  BY DEF Next, StatusMoves, UpdateRead, UpdateCommit,
     Begin, vars
<1>4. EditingInv /\ Inv /\ [Next]_vars => Inv'
  <2>. SUFFICES ASSUME EditingInv, Inv, [Next]_vars, ~overlapped'
                PROVE  SerialInv'
    OBVIOUS
  <2>. QED
    BY <1>3, CheckedStep
<1>5. EditingInv /\ Inv /\ [Next]_vars
          => [row' # row
             => overlapped \/ status \in EDITABLE_STATUSES]_vars
  <2>. SUFFICES ASSUME EditingInv, Inv, [Next]_vars, row' # row,
          ~overlapped
                PROVE  status \in EDITABLE_STATUSES
    OBVIOUS
  <2>1. PICK k \in Calls : UpdateCommit(k)
    BY DEF Next, StatusMoves, UpdateRead, vars
  <2>2. ~overlapped'
    BY <2>1 DEF UpdateCommit
  <2>. QED
    BY <2>2, CheckedStep
<1>6. Inv => SerialEditsAreCoherent
  BY DEF SerialInv, SerialEditsAreCoherent
<1>. QED
  BY <1>1, <1>2, <1>4, <1>5, <1>6, EditingInit, PTL
  DEF Spec, AwardedIsNotEdited

(* Unless updates overlap, what update refuses is in no row.                 *)
THEOREM RowsAreCoherent == Spec => []RowIsCoherent
  BY EditingTypeCorrect, SerialEditsAreChecked, PTL DEF RowIsCoherent

(* Overlapping edits merge, and the award ends them.                         *)
THEOREM EditsMergeThenStand == Spec => EditsMergeUntilTheAward
  BY EditsMerge, SerialEditsAreChecked DEF EditsMergeUntilTheAward
=============================================================================
