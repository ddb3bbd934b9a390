---------------------------- MODULE QuotingProofs ----------------------------
(****************************************************************************)
(* Safety of Quoting, and the privacy that RequestPrivacy defines over it,   *)
(* for any number of technicians and of overlapping calls.                   *)
(* The inductive invariant adds to the safety invariants what a call that is *)
(* about to notify knows: the row it is about was committed.                 *)
(****************************************************************************)
EXTENDS RequestPrivacy, TLAPS

(* A call past its first commit is about something the tables hold.          *)
CommittedCallsAreTrue == \A k \in Calls :
    /\ At(k, "accept", "notify") => call[k].tech \in orders
    /\ At(k, "create", "notify") =>
           /\ call[k].tech \in Technicians
           /\ quotation[call[k].tech] # "none"
    /\ call[k].op \in {"create", "withdraw", "accept"}
           => call[k].tech \in Technicians

QuotingInv ==
    TypeOK /\ AwardIsCoherent /\ NoticesAreTrue /\ CommittedCallsAreTrue

-----------------------------------------------------------------------------
LEMMA InitHolds == Init => QuotingInv
<1>. SUFFICES ASSUME Init PROVE QuotingInv
  OBVIOUS
<1>. USE NobodyAssumption DEF Init
<1>1. TypeOK
  BY DEF TypeOK, RequestStatus, QuotationStatus, Call, Idle
<1>2. AwardIsCoherent /\ NoticesAreTrue
  BY DEF AwardIsCoherent, NoticesAreTrue
<1>3. CommittedCallsAreTrue
  BY DEF CommittedCallsAreTrue, At, Idle
<1>. QED
  BY <1>1, <1>2, <1>3 DEF QuotingInv

(* Beginning a call reads and writes nothing but the call.                   *)
LEMMA BeginHolds ==
  ASSUME QuotingInv, NEW k \in Calls, NEW op, NEW t \in Technicians \cup {Nobody},
         op \in {"create", "withdraw", "accept", "cancel", "order"},
         op \in {"create", "withdraw", "accept"} => t \in Technicians,
         Begin(k, op, t)
  PROVE  QuotingInv'
<1>. USE NobodyAssumption DEF QuotingInv
<1>. UNCHANGED <<request, assigned, quotation, orders, closed, conversations,
                 told, announced, holder>>
  BY DEF Begin, tables, notices
<1>1. TypeOK'
  <2>1. crossed' \in BOOLEAN
    BY Zenon DEF Begin
  <2>2. call' \in [Calls -> Call]
    BY DEF TypeOK, Begin, Call, RequestStatus, QuotationStatus
  <2>. QED
    BY <2>1, <2>2 DEF TypeOK
<1>2. AwardIsCoherent' /\ NoticesAreTrue'
  BY DEF AwardIsCoherent, NoticesAreTrue
<1>3. CommittedCallsAreTrue'
  BY DEF CommittedCallsAreTrue, At, Begin, TypeOK
<1>. QED
  BY <1>1, <1>2, <1>3

LEMMA AbortHolds ==
  ASSUME QuotingInv, NEW k \in Calls, Abort(k)
  PROVE  QuotingInv'
<1>. USE NobodyAssumption DEF QuotingInv
<1>. UNCHANGED <<request, assigned, quotation, orders, closed, conversations,
                 told, announced, crossed>>
  BY DEF Abort, tables, notices
<1>1. TypeOK'
  BY DEF TypeOK, Abort, End, Release, Idle, Call, RequestStatus, QuotationStatus
<1>2. AwardIsCoherent' /\ NoticesAreTrue'
  BY DEF AwardIsCoherent, NoticesAreTrue
<1>3. CommittedCallsAreTrue'
  BY DEF CommittedCallsAreTrue, At, Abort, End, Idle, TypeOK
<1>. QED
  BY <1>1, <1>2, <1>3

(* A new quotation is nobody's award: its row was not there before.          *)
LEMMA CreateHolds ==
  ASSUME QuotingInv, NEW k \in Calls, CreateCommit(k) \/ CreateNotify(k)
  PROVE  QuotingInv'
<1>. USE NobodyAssumption DEF QuotingInv
<1>t. call[k].tech \in Technicians
  BY DEF CreateCommit, CreateNotify, At, CommittedCallsAreTrue
<1>1. CASE CreateCommit(k)
  <2>. UNCHANGED <<assigned, orders, closed, conversations, told, announced,
                   holder, crossed>>
    BY <1>1 DEF CreateCommit, notices
  <2>1. TypeOK'
    BY <1>1, <1>t DEF TypeOK, CreateCommit, ThenNotify, QuotedStatus, Call,
                      RequestStatus, QuotationStatus
  <2>2. AwardIsCoherent' /\ NoticesAreTrue'
    BY <1>1, <1>t DEF AwardIsCoherent, NoticesAreTrue, CreateCommit, TypeOK
  <2>3. CommittedCallsAreTrue'
    BY <1>1, <1>t DEF CommittedCallsAreTrue, At, CreateCommit, ThenNotify, TypeOK
  <2>. QED
    BY <2>1, <2>2, <2>3
<1>2. CASE CreateNotify(k)
  <2>. UNCHANGED <<request, assigned, quotation, orders, closed, conversations,
                   told, holder, crossed>>
    BY <1>2 DEF CreateNotify, tables
  <2>1. TypeOK'
    BY <1>2, <1>t DEF TypeOK, CreateNotify, End, Idle, Call, RequestStatus,
                      QuotationStatus
  <2>2. AwardIsCoherent' /\ NoticesAreTrue'
    BY <1>2, <1>t DEF AwardIsCoherent, NoticesAreTrue, CreateNotify,
                      CommittedCallsAreTrue
  <2>3. CommittedCallsAreTrue'
    BY <1>2 DEF CommittedCallsAreTrue, At, CreateNotify, End, Idle, TypeOK
  <2>. QED
    BY <2>1, <2>2, <2>3
<1>. QED
  BY <1>1, <1>2

LEMMA WithdrawHolds ==
  ASSUME QuotingInv, NEW k \in Calls, WithdrawCommit(k)
  PROVE  QuotingInv'
<1>. USE NobodyAssumption DEF QuotingInv
<1>. UNCHANGED <<request, assigned, orders, closed, conversations, told,
                 announced, holder, crossed>>
  BY DEF WithdrawCommit, notices
<1>t. call[k].tech \in Technicians
  BY DEF WithdrawCommit, At, CommittedCallsAreTrue
<1>1. TypeOK'
  BY <1>t DEF TypeOK, WithdrawCommit, End, Idle, Call, RequestStatus,
              QuotationStatus
<1>2. AwardIsCoherent' /\ NoticesAreTrue'
  BY <1>t DEF AwardIsCoherent, NoticesAreTrue, WithdrawCommit, TypeOK
<1>3. CommittedCallsAreTrue'
  BY <1>t DEF CommittedCallsAreTrue, At, WithdrawCommit, End, Idle, TypeOK
<1>. QED
  BY <1>1, <1>2, <1>3

(* The award: the unique constraint says there was no order, so no other     *)
(* quotation was accepted and nobody was told anything.                      *)
LEMMA AcceptHolds ==
  ASSUME QuotingInv, NEW k \in Calls,
         AcceptLock(k) \/ AcceptCommit(k) \/ AcceptNotify(k)
  PROVE  QuotingInv'
<1>. USE NobodyAssumption DEF QuotingInv
<1>t. call[k].tech \in Technicians
  BY DEF AcceptLock, AcceptCommit, AcceptNotify, Accepted, At,
         CommittedCallsAreTrue
<1>1. CASE AcceptLock(k)
  <2>. UNCHANGED <<request, assigned, quotation, orders, closed, conversations,
                   told, announced, crossed>>
    BY <1>1 DEF AcceptLock, tables, notices
  <2>1. TypeOK'
    <3>1. OtherPending(call[k].tech) \in SUBSET Technicians
      BY DEF OtherPending
    <3>2. [call[k] EXCEPT !.step = "locked",
                          !.others = OtherPending(call[k].tech)] \in Call
      BY <3>1 DEF TypeOK, Call
    <3>3. call' \in [Calls -> Call] /\ holder' \in Calls \cup {Nobody}
      BY <1>1, <3>2 DEF TypeOK, AcceptLock
    <3>. QED
      BY <3>3 DEF TypeOK
  <2>2. AwardIsCoherent' /\ NoticesAreTrue'
    BY DEF AwardIsCoherent, NoticesAreTrue
  <2>3. CommittedCallsAreTrue'
    BY <1>1 DEF CommittedCallsAreTrue, At, AcceptLock, TypeOK
  <2>. QED
    BY <2>1, <2>2, <2>3
<1>2. CASE AcceptCommit(k)
  <2>1. TypeOK'
    BY <1>2, <1>t DEF TypeOK, AcceptCommit, AwardedStatus, Release, ThenNotify,
                      notices, Call, RequestStatus, QuotationStatus
  <2>2. AwardIsCoherent'
    BY <1>2, <1>t DEF AwardIsCoherent, AcceptCommit, RequestHasNoOrder, TypeOK
  <2>3. NoticesAreTrue'
    BY <1>2, <1>t DEF NoticesAreTrue, AcceptCommit, RequestHasNoOrder, notices,
                      TypeOK
  <2>4. CommittedCallsAreTrue'
    BY <1>2, <1>t DEF CommittedCallsAreTrue, At, AcceptCommit, ThenNotify, TypeOK
  <2>. QED
    BY <2>1, <2>2, <2>3, <2>4
<1>3. CASE AcceptNotify(k)
  <2>. UNCHANGED <<request, assigned, quotation, orders, closed, conversations,
                   announced, holder, crossed>>
    BY <1>3 DEF AcceptNotify, tables
  <2>1. TypeOK'
    BY <1>3, <1>t DEF TypeOK, AcceptNotify, End, Idle, Call, RequestStatus,
                      QuotationStatus
  <2>2. AwardIsCoherent' /\ NoticesAreTrue'
    BY <1>3 DEF AwardIsCoherent, NoticesAreTrue, AcceptNotify, Accepted,
                CommittedCallsAreTrue
  <2>3. CommittedCallsAreTrue'
    BY <1>3 DEF CommittedCallsAreTrue, At, AcceptNotify, End, Idle, TypeOK
  <2>. QED
    BY <2>1, <2>2, <2>3
<1>. QED
  BY <1>1, <1>2, <1>3

(* Cancelling the request and the order's handlers write its status only.    *)
LEMMA StatusWritesHold ==
  ASSUME QuotingInv, NEW k \in Calls, NEW outcome \in {"completed", "cancelled"},
         CancelCommit(k) \/ OrderProgress(k) \/ OrderClose(k, outcome)
  PROVE  QuotingInv'
<1>. USE NobodyAssumption DEF QuotingInv
<1>. UNCHANGED <<assigned, quotation, orders, conversations, told, announced,
                 holder, crossed>>
  BY DEF CancelCommit, OrderProgress, OrderClose, notices
<1>e. End(k)
  BY DEF CancelCommit, OrderProgress, OrderClose
<1>1. TypeOK'
  <2>1. request' \in RequestStatus /\ closed' \in BOOLEAN
    BY DEF TypeOK, CancelCommit, OrderProgress, OrderClose, RequestStatus
  <2>2. call' \in [Calls -> Call]
    BY <1>e DEF TypeOK, End, Idle, Call, RequestStatus, QuotationStatus
  <2>. QED
    BY <2>1, <2>2 DEF TypeOK
<1>2. AwardIsCoherent' /\ NoticesAreTrue'
  BY DEF AwardIsCoherent, NoticesAreTrue
<1>3. CommittedCallsAreTrue'
  BY <1>e DEF CommittedCallsAreTrue, At, End, Idle, TypeOK
<1>. QED
  BY <1>1, <1>2, <1>3

LEMMA StepHolds == QuotingInv /\ [Next]_vars => QuotingInv'
<1>. SUFFICES ASSUME QuotingInv, [Next]_vars PROVE QuotingInv'
  OBVIOUS
<1>1. ASSUME NEW k \in Calls, Start(k) PROVE QuotingInv'
  <2>1. ASSUME NEW t \in Technicians,
               CreateRead(k, t) \/ WithdrawRead(k, t) \/ AcceptRead(k, t)
        PROVE  QuotingInv'
    <3>1. PICK op \in {"create", "withdraw", "accept"} : Begin(k, op, t)
      BY <2>1 DEF CreateRead, WithdrawRead, AcceptRead
    <3>. QED
      BY <3>1, BeginHolds
  <2>2. CASE CancelRead(k) \/ OrderRead(k)
    <3>1. PICK op \in {"cancel", "order"} : Begin(k, op, Nobody)
      BY <2>2 DEF CancelRead, OrderRead
    <3>. QED
      BY <3>1, BeginHolds
  <2>. QED
    BY <1>1, <2>1, <2>2 DEF Start
<1>2. ASSUME NEW k \in Calls, Continue(k) PROVE QuotingInv'
  BY <1>2, CreateHolds, WithdrawHolds, AcceptHolds, StatusWritesHold DEF Continue
<1>3. ASSUME NEW k \in Calls, Abort(k) PROVE QuotingInv'
  BY <1>3, AbortHolds
<1>4. CASE UNCHANGED vars
  BY <1>4 DEF vars, tables, notices, QuotingInv, TypeOK, AwardIsCoherent,
              NoticesAreTrue, CommittedCallsAreTrue, At
<1>. QED
  BY <1>1, <1>2, <1>3, <1>4 DEF Next

LEMMA QuotingInvariant == Spec => []QuotingInv
<1>. QED
  BY InitHolds, StepHolds, PTL DEF Spec

-----------------------------------------------------------------------------
(* Every call and every table stay within their types.                       *)
THEOREM QuotingTypeCorrect == Spec => []TypeOK
<1>1. QuotingInv => TypeOK
  BY DEF QuotingInv
<1>. QED
  BY <1>1, QuotingInvariant, PTL

(* However many acceptances overlap, the order, the assigned technician, the *)
(* conversation and the accepted quotation name the same technician, and no  *)
(* notification announces what is not there.                                 *)
THEOREM AwardIsAtomic == Spec => []AwardIsCoherent /\ []NoticesAreTrue
<1>1. QuotingInv => AwardIsCoherent /\ NoticesAreTrue
  BY DEF QuotingInv
<1>. QED
  BY <1>1, QuotingInvariant, PTL

(* No call takes the award away once it was made.                            *)
THEOREM AwardStands == Spec => AwardIsFinal
<1>1. ASSUME [Next]_vars, orders # {}
      PROVE  UNCHANGED <<orders, assigned, conversations>>
  <2>1. ASSUME NEW k \in Calls, Start(k)
        PROVE  UNCHANGED <<orders, assigned, conversations>>
    BY <2>1 DEF Start, CreateRead, WithdrawRead, AcceptRead, CancelRead,
                OrderRead, Begin, tables
  <2>2. ASSUME NEW k \in Calls, Continue(k)
        PROVE  UNCHANGED <<orders, assigned, conversations>>
    <3>1. ~AcceptCommit(k)
      BY <1>1 DEF AcceptCommit, RequestHasNoOrder
    <3>. QED
      BY <2>2, <3>1 DEF Continue, CreateCommit, CreateNotify, WithdrawCommit,
         AcceptLock, AcceptNotify, CancelCommit, OrderProgress, OrderClose, tables
  <2>3. ASSUME NEW k \in Calls, Abort(k)
        PROVE  UNCHANGED <<orders, assigned, conversations>>
    BY <2>3 DEF Abort, tables
  <2>. QED
    BY <1>1, <2>1, <2>2, <2>3 DEF Next, vars, tables
<1>. QED
  BY <1>1, PTL DEF Spec, AwardIsFinal

-----------------------------------------------------------------------------
(* Acceptances that are alone.  A creation or a withdrawal under way then    *)
(* means that no order exists, and an acceptance under way that what it has  *)
(* read is what the tables hold.                                             *)
Complete ==
    orders # {} =>
        /\ request \notin ACCEPTING
        /\ \A t \in Technicians : quotation[t] # "pending"
        /\ \A t \in orders : quotation[t] = "accepted"

Accepting(k) == call[k].op = "accept" /\ call[k].step # "notify"

CallsAreCurrent == \A k \in Calls :
    /\ At(k, "create", "read") \/ At(k, "withdraw", "read") => orders = {}
    /\ Accepting(k) =>
           /\ call[k].seen = request
           /\ \A j \in Calls \ {k} : ~Uncommitted(j)
    /\ At(k, "accept", "locked") =>
           /\ call[k].seen \in ACCEPTING
           /\ call[k].others = OtherPending(call[k].tech)

AloneInv == QuotingInv /\ Complete /\ CallsAreCurrent

LEMMA AloneInit == Init => AloneInv
<1>. SUFFICES ASSUME Init PROVE AloneInv
  OBVIOUS
<1>1. Complete
  BY DEF Init, Complete
<1>2. CallsAreCurrent
  BY DEF Init, CallsAreCurrent, At, Accepting, Idle
<1>. QED
  BY <1>1, <1>2, InitHolds DEF AloneInv

(* A call that ends, having written at most notifications.                   *)
LEMMA EndStaysCurrent ==
  ASSUME AloneInv, NEW k \in Calls, End(k), UNCHANGED tables
  PROVE  Complete' /\ CallsAreCurrent'
<1>1. /\ call'[k].op = "idle"
      /\ \A j \in Calls \ {k} : call'[j] = call[j]
  BY DEF End, Idle, AloneInv, QuotingInv, TypeOK
<1>2. Complete'
  BY DEF AloneInv, Complete, tables
<1>3. CallsAreCurrent'
  BY <1>1 DEF AloneInv, CallsAreCurrent, At, Accepting, Uncommitted,
     OtherPending, tables
<1>. QED
  BY <1>2, <1>3

(* A commit of another operation: no acceptance is under way.                *)
LEMMA CommitStaysCurrent ==
  ASSUME AloneInv, NEW k \in Calls, Uncommitted(k), call[k].op # "accept",
         UNCHANGED orders, Complete',
         call'[k].op # "accept",
         ~At(k, "create", "read")', ~At(k, "withdraw", "read")',
         \A j \in Calls \ {k} : call'[j] = call[j]
  PROVE  CallsAreCurrent'
<1>1. \A j \in Calls : ~Accepting(j)
  BY DEF AloneInv, CallsAreCurrent, Accepting
<1>2. \A j \in Calls : ~Accepting(j)'
  BY <1>1 DEF Accepting
<1>3. \A j \in Calls : ~At(j, "accept", "locked")'
  BY <1>2 DEF Accepting, At
<1>4. \A j \in Calls : At(j, "create", "read")' \/ At(j, "withdraw", "read")'
                           => orders' = {}
  BY DEF AloneInv, CallsAreCurrent, At
<1>. QED
  BY <1>2, <1>3, <1>4 DEF CallsAreCurrent

LEMMA BeginStaysCurrent ==
  ASSUME AloneInv, NEW k \in Calls, NEW op, NEW t \in Technicians \cup {Nobody},
         Begin(k, op, t), ~crossed',
         op \in {"create", "withdraw"} => orders = {}
  PROVE  Complete' /\ CallsAreCurrent'
<1>1. \A j \in Calls : Uncommitted(j) => op # "accept" /\ call[j].op # "accept"
  BY DEF Begin
<1>2. /\ call'[k].op = op /\ call'[k].step = "read" /\ call'[k].seen = request
      /\ \A j \in Calls \ {k} : call'[j] = call[j]
  BY DEF Begin, AloneInv, QuotingInv, TypeOK
<1>3. UNCHANGED <<request, quotation, orders>>
  BY DEF Begin, tables
<1>4. Complete'
  BY <1>3 DEF AloneInv, Complete
<1>5. \A j \in Calls \ {k} : ~Accepting(j)'
  BY <1>1, <1>2 DEF Accepting, Uncommitted
<1>6. CallsAreCurrent'
  <2>. SUFFICES ASSUME NEW j \in Calls
       PROVE /\ At(j, "create", "read")' \/ At(j, "withdraw", "read")'
                   => orders' = {}
             /\ Accepting(j)' =>
                   /\ call'[j].seen = request'
                   /\ \A i \in Calls \ {j} : ~Uncommitted(i)'
             /\ ~At(j, "accept", "locked")'
    BY DEF CallsAreCurrent
  <2>1. CASE j = k
    BY <1>1, <1>2, <1>3, <2>1 DEF At, Accepting, Uncommitted
  <2>2. CASE j # k
    BY <1>2, <1>3, <1>5, <2>2 DEF At, Accepting, AloneInv, CallsAreCurrent
  <2>. QED
    BY <2>1, <2>2
<1>. QED
  BY <1>4, <1>6

LEMMA AcceptStaysCurrent ==
  ASSUME AloneInv, NEW k \in Calls, AcceptLock(k) \/ AcceptCommit(k)
  PROVE  Complete' /\ CallsAreCurrent'
<1>t. call[k].tech \in Technicians /\ TypeOK
  BY DEF AloneInv, QuotingInv, CommittedCallsAreTrue, AcceptLock, AcceptCommit,
     At
<1>a. call[k].seen = request /\ \A j \in Calls \ {k} : ~Uncommitted(j)
  BY DEF AcceptLock, AcceptCommit, At, Accepting, AloneInv, CallsAreCurrent
<1>1. CASE AcceptLock(k)
  <2>1. UNCHANGED <<request, quotation, orders>>
    BY <1>1 DEF AcceptLock, tables
  <2>2. /\ call'[k].op = "accept" /\ call'[k].step = "locked"
        /\ call'[k].seen = call[k].seen /\ call'[k].tech = call[k].tech
        /\ call'[k].others = OtherPending(call[k].tech)
        /\ \A j \in Calls \ {k} : call'[j] = call[j]
    BY <1>1, <1>t DEF AcceptLock, At, TypeOK, Call
  <2>3. Complete'
    BY <2>1 DEF AloneInv, Complete
  <2>4. call[k].seen \in ACCEPTING
    BY <1>1 DEF AcceptLock, Acceptable
  <2>5. OtherPending(call[k].tech)' = call'[k].others
    BY <2>1, <2>2 DEF OtherPending
  <2>6. \A j \in Calls \ {k} : ~Uncommitted(j)'
    BY <1>a, <2>2 DEF Uncommitted
  <2>7. CallsAreCurrent'
    BY <1>a, <2>1, <2>2, <2>4, <2>5, <2>6 DEF CallsAreCurrent, At, Accepting,
       Uncommitted
  <2>. QED
    BY <2>3, <2>7
<1>2. CASE AcceptCommit(k)
  <2>1. /\ orders = {} /\ orders' = {call[k].tech} /\ request' = "accepted"
        /\ call[k].others = OtherPending(call[k].tech)
        /\ quotation' = [t \in Technicians |->
               IF t = call[k].tech THEN "accepted"
               ELSE IF t \in call[k].others THEN "rejected" ELSE quotation[t]]
    BY <1>2 DEF AcceptCommit, RequestHasNoOrder, AwardedStatus, AloneInv,
       CallsAreCurrent
  <2>2. /\ call'[k].step = "notify" /\ call'[k].op = "accept"
        /\ \A j \in Calls \ {k} : call'[j] = call[j]
    BY <1>2, <1>t DEF AcceptCommit, ThenNotify, At, TypeOK, Call
  <2>3. \A t \in Technicians : quotation'[t] # "pending"
    BY <2>1 DEF OtherPending
  <2>4. Complete'
    BY <1>t, <2>1, <2>3 DEF Complete, ACCEPTING
  <2>5. \A j \in Calls : ~Uncommitted(j)'
    BY <1>a, <2>2 DEF Uncommitted
  <2>6. CallsAreCurrent'
    BY <2>5 DEF CallsAreCurrent, At, Accepting, Uncommitted
  <2>. QED
    BY <2>4, <2>6
<1>. QED
  BY <1>1, <1>2

LEMMA CommitsStayCurrent ==
  ASSUME AloneInv, NEW k \in Calls, NEW outcome \in {"completed", "cancelled"},
         \/ CreateCommit(k) \/ WithdrawCommit(k) \/ CancelCommit(k)
         \/ OrderProgress(k) \/ OrderClose(k, outcome)
  PROVE  Complete' /\ CallsAreCurrent'
<1>1. UNCHANGED orders /\ Uncommitted(k) /\ call[k].op # "accept"
  BY DEF CreateCommit, WithdrawCommit, CancelCommit, OrderProgress, OrderClose,
     At, Uncommitted
<1>2. Complete'
  <2>1. CASE CreateCommit(k) \/ WithdrawCommit(k)
    <3>1. orders = {}
      BY <2>1 DEF CreateCommit, WithdrawCommit, AloneInv, CallsAreCurrent
    <3>. QED
      BY <1>1, <3>1 DEF Complete
  <2>2. CASE CancelCommit(k) \/ OrderProgress(k) \/ OrderClose(k, outcome)
    BY <2>2 DEF CancelCommit, OrderProgress, OrderClose, AloneInv, Complete,
       ACCEPTING
  <2>. QED
    BY <2>1, <2>2
<1>3. /\ call'[k].op # "accept" /\ call'[k].op # "withdraw"
      /\ call'[k].op = "create" => call'[k].step = "notify"
      /\ \A j \in Calls \ {k} : call'[j] = call[j]
  <2>. TypeOK
    BY DEF AloneInv, QuotingInv
  <2>1. CASE CreateCommit(k)
    BY <2>1 DEF CreateCommit, At, ThenNotify, TypeOK, Call
  <2>2. CASE End(k)
    BY <2>2 DEF End, Idle, TypeOK
  <2>. QED
    BY <2>1, <2>2 DEF WithdrawCommit, CancelCommit, OrderProgress, OrderClose
<1>. QED
  BY <1>1, <1>2, <1>3, CommitStaysCurrent DEF At

LEMMA CrossedStays ==
  ASSUME TypeOK, [Next]_vars, ~crossed'
  PROVE  ~crossed
<1>1. ASSUME NEW k \in Calls, NEW op, NEW t, Begin(k, op, t) PROVE ~crossed
  BY <1>1, Zenon DEF Begin
<1>. QED
  BY <1>1 DEF Next, Start, Continue, vars, CreateRead, WithdrawRead, AcceptRead,
     CancelRead, OrderRead, CreateCommit, CreateNotify, WithdrawCommit,
     AcceptLock, AcceptCommit, AcceptNotify, CancelCommit, OrderProgress,
     OrderClose, Abort

LEMMA AloneStep ==
  ASSUME AloneInv, [Next]_vars, ~crossed'
  PROVE  AloneInv'
<1>1. QuotingInv'
  BY StepHolds DEF AloneInv
<1>2. ASSUME NEW k \in Calls, Start(k) PROVE Complete' /\ CallsAreCurrent'
  <2>1. ASSUME NEW t \in Technicians, CreateRead(k, t)
        PROVE  Complete' /\ CallsAreCurrent'
    <3>1. Begin(k, "create", t) /\ orders = {}
      BY <2>1 DEF CreateRead, AloneInv, Complete
    <3>. QED
      BY <3>1, BeginStaysCurrent
  <2>2. ASSUME NEW t \in Technicians, WithdrawRead(k, t)
        PROVE  Complete' /\ CallsAreCurrent'
    <3>1. Begin(k, "withdraw", t) /\ orders = {}
      BY <2>2 DEF WithdrawRead, Withdrawable, AloneInv, Complete
    <3>. QED
      BY <3>1, BeginStaysCurrent
  <2>3. ASSUME NEW t \in Technicians, AcceptRead(k, t)
        PROVE  Complete' /\ CallsAreCurrent'
    BY <2>3, BeginStaysCurrent DEF AcceptRead
  <2>4. CASE CancelRead(k) \/ OrderRead(k)
    BY <2>4, BeginStaysCurrent DEF CancelRead, OrderRead
  <2>. QED
    BY <1>2, <2>1, <2>2, <2>3, <2>4 DEF Start
<1>3. ASSUME NEW k \in Calls, Continue(k) \/ Abort(k)
      PROVE  Complete' /\ CallsAreCurrent'
  <2>1. CASE CreateNotify(k) \/ AcceptNotify(k) \/ Abort(k)
    BY <2>1, EndStaysCurrent DEF CreateNotify, AcceptNotify, Abort
  <2>2. CASE AcceptLock(k) \/ AcceptCommit(k)
    BY <2>2, AcceptStaysCurrent
  <2>. QED
    BY <1>3, <2>1, <2>2, CommitsStayCurrent DEF Continue
<1>4. ASSUME UNCHANGED vars PROVE Complete' /\ CallsAreCurrent'
  <2>1. UNCHANGED <<request, quotation, orders, call>>
    BY <1>4 DEF vars, tables
  <2>2. Complete'
    BY <2>1 DEF AloneInv, Complete
  <2>3. \A t : UNCHANGED OtherPending(t)
    BY <2>1 DEF OtherPending
  <2>4. CallsAreCurrent'
    BY <2>1, <2>3 DEF AloneInv, CallsAreCurrent, At, Accepting, Uncommitted
  <2>. QED
    BY <2>2, <2>4
<1>. QED
  BY <1>1, <1>2, <1>3, <1>4 DEF Next, AloneInv

(* As long as acceptances are alone, an award refuses the other quotations   *)
(* and closes the request for good, and no cancelled request is awarded.     *)
THEOREM AwardAloneIsComplete == Spec => []AwardIsComplete /\ CancelledIsNotAwarded
<1>. DEFINE Inv == QuotingInv /\ (~crossed => AloneInv)
<1>1. Init => Inv
  BY InitHolds, AloneInit
<1>2. Inv /\ [Next]_vars => Inv'
  BY StepHolds, AloneStep, CrossedStays DEF QuotingInv
<1>3. Inv => AwardIsComplete
  BY DEF AloneInv, Complete, AwardIsComplete
<1>4. Inv /\ [Next]_vars
          => [~crossed /\ request = "cancelled" => orders' = orders]_vars
  <2>. SUFFICES ASSUME Inv, Next, ~crossed, request = "cancelled"
                PROVE  orders' = orders
    BY DEF vars, tables
  <2>1. ASSUME NEW k \in Calls PROVE ~AcceptCommit(k)
    BY DEF AcceptCommit, At, Accepting, AloneInv, CallsAreCurrent, ACCEPTING
  <2>. QED
    BY <2>1 DEF Next, Start, Continue, CreateRead, WithdrawRead, AcceptRead,
       CancelRead, OrderRead, Begin, CreateCommit, CreateNotify, WithdrawCommit,
       AcceptLock, AcceptNotify, CancelCommit, OrderProgress, OrderClose, Abort,
       tables
<1>. QED
  BY <1>1, <1>2, <1>3, <1>4, PTL DEF Spec, CancelledIsNotAwarded

(* Order, conversation and accepted quotation appear together, and every     *)
(* notice follows its commit.                                                *)
THEOREM AwardsAreWhole == Spec => []AwardIsWhole
  BY QuotingTypeCorrect, AwardIsAtomic, PTL DEF AwardIsWhole

(* An order stays with its technician, and an acceptance alone opens none on *)
(* a cancelled request.                                                      *)
THEOREM AwardsAreForGood == Spec => AwardIsForGood
  BY AwardStands, AwardAloneIsComplete DEF AwardIsForGood

-----------------------------------------------------------------------------
(* Privacy.  What the policies and the lists read is of four tables, and     *)
(* what the award keeps of these (AwardIsWhole, and AwardIsComplete when it  *)
(* was alone) is all they need to agree: no step of a call is looked at here. *)

(* The technician the policies of requests look for, the one of the order    *)
(* and the one of the conversation are the same.                             *)
LEMMA OneTechnician ==
  ASSUME AwardIsWhole
  PROVE  /\ \A t \in Technicians : t \in orders <=> t = assigned
         /\ conversations = orders /\ orders \subseteq Technicians
         /\ assigned \in orders \cup {Nobody}
         /\ \A t \in orders : quotation[t] # "none"
  BY NobodyAssumption DEF AwardIsWhole, AwardIsCoherent, TypeOK

(* Who is neither a technician of the program nor the owner.                 *)
LEMMA NotATechnician ==
  Customer \notin Technicians /\ Customer # Nobody
  /\ \A v \in Viewers : v.id # Nobody /\ v.roles \subseteq Roles
                       /\ (v.id \in Technicians => v.technician)
  BY CustomerAssumption, NobodyAssumption DEF Viewers

(* Without the role of an administrator nothing is moderated.                *)
LEMMA OnlyAdministratorsModerate ==
  ASSUME NEW v \in Viewers, "admin" \notin v.roles
  PROVE  Codes(v) = {}
  BY DEF Codes, ROLE_PERMISSIONS

-----------------------------------------------------------------------------
LEMMA AddressHolds == ASSUME AwardIsWhole PROVE AddressFollowsTheOrder
<1>. SUFFICES ASSUME NEW v \in Viewers, v.id \in Technicians,
                     "admin" \notin v.roles
              PROVE  LET works == v.id \in orders IN
                     /\ CanSeeAddress(v) <=> works
                     /\ OrderShowsAddress(v) <=> works
                     /\ ShowsInternal(v) <=> works
                     /\ CustomerProfile(v) <=> works
                     /\ CanManage(v) <=> works
                     /\ Participates(v) <=> works
                     /\ works => CanView(v)
  BY DEF AddressFollowsTheOrder
<1>1. Codes(v) = {} /\ v.id # Customer
  BY OnlyAdministratorsModerate, NotATechnician
<1>2. (v.id = assigned) <=> (v.id \in orders)
  BY OneTechnician
<1>3. CanSeeAddress(v) <=> (v.id \in orders)
  BY <1>1, <1>2 DEF CanSeeAddress, Moderates
<1>4. OrderViewer(v) <=> (v.id \in orders)
  BY <1>1 DEF OrderViewer, IsAdmin, IsAssigned
<1>5. ShowsInternal(v) <=> (v.id \in orders)
  BY <1>1 DEF ShowsInternal, IsAdmin, IsAssigned
<1>6. Participates(v) <=> (v.id \in orders)
  BY <1>1, OneTechnician DEF Participates
<1>. QED
  BY <1>3, <1>4, <1>5, <1>6
  DEF OrderShowsAddress, CustomerProfile, CanManage, IsAssigned, CanView

LEMMA AwardedHolds ==
  ASSUME AwardIsWhole, AwardIsComplete PROVE AwardedIsPrivate
<1>. SUFFICES ASSUME ~crossed, orders # {}, NEW v \in Viewers
              PROVE  /\ ~Available(v)
                     /\ CanView(v) => v.id = Customer \/ Moderates(v)
                                      \/ v.id \in orders
  BY DEF AwardedIsPrivate
<1>1. request \notin ACCEPTING
  BY DEF AwardIsComplete
<1>2. v.id = assigned => v.id \in orders
  BY OneTechnician, NotATechnician
<1>. QED
  BY <1>1, <1>2 DEF Available, PublishedTo, CanView, CanSeeAddress

LEMMA ListsHold == ASSUME AwardIsWhole PROVE ListsAgree
<1>. SUFFICES ASSUME NEW v \in Viewers
              PROVE  /\ Mine(v) \/ Moderated(v) => CanSeeAddress(v)
                     /\ CanSeeAddress(v) => Mine(v) \/ Moderated(v) \/ IsAssigned(v)
                     /\ OrderAdministered(v) => OrderViewer(v)
                     /\ OrderListed(v) => OrderViewer(v)
                     /\ OrderViewer(v) => OrderListed(v)
                                           \/ (v.id = Customer /\ v.technician)
                     /\ (ConversationListed(v) <=> Participates(v))
                     /\ Available(v) => CanView(v)
                     /\ IsAssigned(v) => v.id \in QuotationsShown(v)
  BY DEF ListsAgree
<1>1. Mine(v) \/ Moderated(v) => CanSeeAddress(v)
  BY DEF Mine, Moderated, Requires, CanSeeAddress, Moderates
<1>2. CanSeeAddress(v) => Mine(v) \/ Moderated(v) \/ IsAssigned(v)
  BY OneTechnician, NotATechnician
  DEF Mine, Moderated, Requires, CanSeeAddress, Moderates, IsAssigned
<1>3. OrderListed(v) => OrderViewer(v)
  BY DEF OrderListed, OrderViewer, IsAssigned, OrdersOfTechnician, OrdersOfCustomer
<1>4. OrderViewer(v) => OrderListed(v) \/ (v.id = Customer /\ v.technician)
  <2>. SUFFICES ASSUME OrderViewer(v), ~IsAdmin(v)
                PROVE  OrderListed(v) \/ (v.id = Customer /\ v.technician)
    BY DEF OrderViewer, OrderListed
  <2>1. CASE v.id = Customer
    BY <2>1 DEF OrderViewer, OrderListed, OrdersOfCustomer
  <2>2. CASE v.id \in orders
    BY <2>2, OneTechnician, NotATechnician
    DEF OrderListed, OrdersOfTechnician
  <2>. QED
    BY <2>1, <2>2 DEF OrderViewer, IsAssigned
<1>5. OrderAdministered(v) => OrderViewer(v)
  BY <1>3 DEF OrderAdministered
<1>6. ConversationListed(v) <=> Participates(v)
  BY DEF ConversationListed, Participates
<1>7. Available(v) => CanView(v)
  BY DEF Available, PublishedTo, CanView
<1>8. IsAssigned(v) => v.id \in QuotationsShown(v)
  BY OneTechnician DEF IsAssigned, QuotationsShown
<1>. QED
  BY <1>1, <1>2, <1>3, <1>4, <1>5, <1>6, <1>7, <1>8

(* Whatever calls overlap, policies and lists agree on who sees the request, *)
(* its address, its order and its conversation.                              *)
THEOREM OnlyPartiesSee == Spec => []OnlyThePartiesSee
<1>1. AwardIsWhole /\ AwardIsComplete => OnlyThePartiesSee
  BY AddressHolds, AwardedHolds, ListsHold DEF OnlyThePartiesSee
<1>. QED
  BY <1>1, AwardsAreWhole, AwardAloneIsComplete, PTL
=============================================================================
