---------------------------- MODULE ReportStorage ----------------------------
(****************************************************************************)
(* The report of one order in two stores that share no transaction: the row  *)
(* of repair_reports in the database and the PDF in the object storage.      *)
(* Closing calls (/complete, /not-repairable) run one at a time under the    *)
(* lock of the order row, upload the PDF, write and notify, and commit last. *)
(* A call that fails rolls back, WHICH RELEASES THE LOCK, and deletes the    *)
(* PDF only then.  The key of the PDF is the same for every attempt (version *)
(* 1 as long as no report is committed), so "document" is one object, and    *)
(* its value tells which attempt wrote it.                                   *)
(****************************************************************************)
EXTENDS Naturals

CONSTANTS
    Attempts,     \* closing calls made on the order
    None,         \* no attempt
    MaxFaults,    \* bound on the faults no handler can clean up after
    LostReplies   \* TRUE: a commit may succeed and its reply be lost

ASSUME NoneAssumption == None \notin Attempts
ASSUME FaultsAssumption == MaxFaults \in Nat /\ LostReplies \in BOOLEAN

VARIABLES
    orderStatus,  \* the order: open, completed or cancelled
    report,       \* the attempt whose row repair_reports holds
    document,     \* the attempt whose PDF the storage holds under the key
    holder,       \* the attempt that holds the lock of the order row
    step,         \* how far each attempt got
    pending,      \* attempts with _pending_report_key set
    faults,       \* crashes and storage errors that leave something behind
    late          \* history: a clean-up was still to come when a retry began, or
                  \* when its own attempt had been committed

storageVars == <<orderStatus, report, document, holder, step, pending, faults, late>>

Steps == {"idle", "locked", "uploaded", "failed", "ended"}

StorageTypeOK ==
    /\ orderStatus \in {"open", "completed", "cancelled"}
    /\ report \in Attempts \cup {None}
    /\ document \in Attempts \cup {None}
    /\ holder \in Attempts \cup {None}
    /\ step \in [Attempts -> Steps]
    /\ pending \subseteq Attempts
    /\ faults \in 0..MaxFaults
    /\ late \in BOOLEAN

StorageInit ==
    /\ orderStatus = "open" /\ report = None /\ document = None
    /\ holder = None
    /\ step = [a \in Attempts |-> "idle"]
    /\ pending = {} /\ faults = 0 /\ late = FALSE

Goto(a, s) == step' = [step EXCEPT ![a] = s]

InTransaction(a) == step[a] \in {"locked", "uploaded"}

(* The end of the transaction, whichever, releases the lock.                 *)
MutStaysLocked(a) == UNCHANGED holder

Unlock(a) == holder' = IF holder = a THEN None ELSE holder

Fault == faults < MaxFaults /\ faults' = faults + 1

-----------------------------------------------------------------------------
(* repo.lock; the call waits while another one is in its transaction.        *)
LockOrder(a) ==
    /\ step[a] = "idle"
    /\ holder = None
    /\ holder' = a
    /\ Goto(a, "locked")
    /\ late' = (late \/ \E b \in pending : step[b] = "failed")
    /\ UNCHANGED <<orderStatus, report, document, pending, faults>>

MutClosesAgain == TRUE

IsOpen == orderStatus = "open"

(* A repeated close returns the closed order, or answers 409.                *)
AlreadyClosed(a) ==
    /\ step[a] = "locked"
    /\ orderStatus # "open"
    /\ Unlock(a)
    /\ Goto(a, "ended")
    /\ UNCHANGED <<orderStatus, report, document, pending, faults, late>>

(* _persist_report: save_at overwrites the object, then the row is added to  *)
(* the session and the key is remembered for the clean-up.                   *)
MutUnnamed(a) == document' = "pdf"

SaveAt(a) == document' = a

MutForgetsKey(a) == UNCHANGED pending

RememberKey(a) == pending' = pending \cup {a}

Upload(a) ==
    /\ step[a] = "locked"
    /\ IsOpen
    /\ SaveAt(a)
    /\ RememberKey(a)
    /\ Goto(a, "uploaded")
    /\ UNCHANGED <<orderStatus, report, holder, faults, late>>

(* save_at raised: nothing was written, or the object was and its            *)
(* verification failed.  The key is not remembered yet.                      *)
UploadFails(a) ==
    /\ step[a] = "locked"
    /\ IsOpen
    /\ \/ UNCHANGED <<document, faults>>
       \/ SaveAt(a) /\ Fault
    /\ Unlock(a)
    /\ Goto(a, "failed")
    /\ UNCHANGED <<orderStatus, report, pending, late>>

Committed(a) ==
    /\ step[a] = "uploaded"
    /\ orderStatus' = "completed"
    /\ report' = a
    /\ Unlock(a)

CommitReport(a) ==
    /\ Committed(a)
    /\ Goto(a, "ended")
    /\ UNCHANGED <<document, pending, faults, late>>

(* The connection broke after the server committed: commit() raises.         *)
CommitUnknown(a) ==
    /\ LostReplies
    /\ Committed(a)
    /\ Goto(a, "failed")
    /\ late' = TRUE
    /\ UNCHANGED <<document, pending, faults>>

(* Anything raised after the upload: rollback.                               *)
Fail(a) ==
    /\ step[a] = "uploaded"
    /\ Unlock(a)
    /\ Goto(a, "failed")
    /\ UNCHANGED <<orderStatus, report, document, pending, faults, late>>

(* _cleanup_pending_report, after the rollback; its own failure is ignored.  *)
Cleanup(a) ==
    /\ step[a] = "failed"
    /\ \/ a \in pending /\ document' = None /\ UNCHANGED faults
       \/ a \in pending /\ UNCHANGED document /\ Fault
       \/ a \notin pending /\ UNCHANGED <<document, faults>>
    /\ pending' = pending \ {a}
    /\ Goto(a, "ended")
    /\ UNCHANGED <<orderStatus, report, holder, late>>

(* The worker dies: the database rolls back, nobody cleans up.               *)
Crash(a) ==
    /\ InTransaction(a) \/ step[a] = "failed"
    /\ Fault
    /\ Unlock(a)
    /\ pending' = pending \ {a}
    /\ Goto(a, "ended")
    /\ UNCHANGED <<orderStatus, report, document, late>>

(* POST /orders/{id}/cancel: closes without a report.                        *)
CancelOrder ==
    /\ holder = None
    /\ IsOpen
    /\ orderStatus' = "cancelled"
    /\ UNCHANGED <<report, document, holder, step, pending, faults, late>>

-----------------------------------------------------------------------------
Proceed(a) ==
    \/ LockOrder(a) \/ AlreadyClosed(a)
    \/ Upload(a) \/ UploadFails(a)
    \/ CommitReport(a) \/ CommitUnknown(a) \/ Fail(a) \/ Cleanup(a)

StorageNext == CancelOrder \/ \E a \in Attempts : Proceed(a) \/ Crash(a)

StorageSpec == StorageInit /\ [][StorageNext]_storageVars

(* A call goes on, and the lock queue of the database is first come, first   *)
(* served.  Neither the cancellation nor a crash has to happen.              *)
Fairness ==
    \A a \in Attempts : WF_storageVars(Proceed(a)) /\ SF_storageVars(LockOrder(a))

StorageFairSpec == StorageSpec /\ Fairness

-----------------------------------------------------------------------------
(* The PDF under the key is the one of the close that was committed, never   *)
(* that of an attempt that failed before or came after.                      *)
DocumentMatchesReport ==
    report # None /\ document # None => document = report

(* One close wins: however many calls are retried or overlap, what the order *)
(* says of itself and its report row never change once it is closed.         *)
ClosedOnce ==
    [][orderStatus # "open" => UNCHANGED <<orderStatus, report>>]_storageVars

NoneUnderWay == \A a \in Attempts : step[a] \in {"idle", "ended"}

(* "Borra el PDF si la transaccion fallo (evita informes huerfanos)": once   *)
(* no attempt is under way, a PDF without a row is left only by a fault that *)
(* no handler of the call could see.                                         *)
OrphansNeedAFault ==
    NoneUnderWay /\ report = None /\ document # None => faults > 0

(* Every closing call returns, whatever the others do.                       *)
AttemptsEnd == \A a \in Attempts : <>(step[a] = "ended")

-----------------------------------------------------------------------------
(* What the repository says of a closed order                                *)

(* README: closing comes "con generacion obligatoria del informe": a closed  *)
(* order has its PDF, as long as every clean-up is over before the next      *)
(* attempt begins and no commit() raises for a transaction that went through.*)
(* A clean-up that runs behind its retry deletes the PDF the retry committed:*)
(* the lock was given back before, and the key is the same.                  *)
ReportIsKept == ~late /\ report # None => document # None

(* Row and object of a report belong together: no attempt leaves its own     *)
(* document under another's row, nor one of the two without the other, but   *)
(* for the reasons named.                                                    *)
ReportHasItsDocument ==
    StorageTypeOK /\ DocumentMatchesReport /\ OrphansNeedAFault /\ ReportIsKept
=============================================================================
