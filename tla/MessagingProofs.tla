---------------------------- MODULE MessagingProofs ----------------------------
(****************************************************************************)
(* A conversation, for any number of messages and any limit of a listing.   *)
(****************************************************************************)
EXTENDS Messaging, FiniteSetTheorems, TLAPS

-----------------------------------------------------------------------------
(* The inductive invariant                                                   *)

(* What a call has left behind says how far it got, and the other way round. *)
CallInv ==
    \A c \in Calls :
        /\ begun[c] \in 0 .. clock /\ (step[c] = "idle" <=> begun[c] = 0)
        /\ step[c] \in {"committed", "published", "noted", "ended"} => c \in stored
        /\ c \in stored => step[c] \notin {"idle", "read"}
        /\ c \in heard \cup pushed \cup notices => c \in stored
        /\ c \in pushed => step[c] \in {"noted", "ended", "crashed"}
        /\ step[c] = "ended" => c \in notices

(* now() tells the calls apart.                                              *)
TimesAreDistinct ==
    \A c, d \in Calls : begun[c] = begun[d] /\ begun[c] # 0 => c = d

(* A call that has begun after one which is still to commit, and that one.   *)
LaterCallsCross ==
    \A c, d \in Calls : At(c, "read") /\ Precedes(c, d) => {c, d} \subseteq crossed

ArchiveInv ==
    /\ conversation = "archived" <=> closing = "ended"
    /\ closing \in {"flushed", "ended"} => Uncommitted \subseteq crossed
    /\ closing = "none" => Closing \notin pushed
    /\ closing = "ended" => Closing \in notices

(* A listing under way that is to make the page whole lacks only what has    *)
(* come through the socket since.                                            *)
PageInv ==
    /\ IsFiniteSet(stored) /\ (whole => socket = "listening")
    /\ behind => /\ socket = "listening"
                 /\ heard \subseteq found[Reader] \cup received

(* The listings under way were marked when they were read.                   *)
AnswersInv == \A p \in Parties : ForReading(p, found[p]) \subseteq read

MessagingInv ==
    /\ TypeOK /\ CallInv /\ TimesAreDistinct /\ LaterCallsCross
    /\ ArchiveInv /\ PageInv /\ AnswersInv
    /\ NothingIsMissed /\ ReadMeansListed /\ LastIsNewest

-----------------------------------------------------------------------------
(* What the steps of a call after its commit, those of the closing handler   *)
(* and those of the page are to the messages: they leave them alone.         *)
Later(c) == Publish(c) \/ PublishFails(c) \/ Notify(c) \/ CommitNotice(c) \/ Crash(c)

Closes == Archive \/ CommitArchive \/ ArchiveFails

Socket == Accept \/ Subscribe \/ Disconnect

Lists(p) == List(p) \/ Answer(p) \/ AnswerLost(p)

LEMMA StepsOfTheSystem ==
  ASSUME [Next]_vars
  PROVE  \/ \E c \in Calls : SendRead(c) \/ SendCommit(c) \/ Later(c)
         \/ Closes \/ Socket
         \/ \E p \in Parties : Lists(p)
         \/ UNCHANGED vars
BY DEF Next, Continue, Later, Closes, Socket, Lists

LEMMA TypeStep == MessagingInv /\ [Next]_vars => TypeOK'
<1> SUFFICES ASSUME MessagingInv, [Next]_vars PROVE TypeOK'
  OBVIOUS
<1> USE DEF MessagingInv, TypeOK, rows, page, answers, At, Go
<1>1. ASSUME NEW c \in Calls, SendRead(c) PROVE TypeOK'
  <2>1. step' = [step EXCEPT ![c] = "read"] /\ begun' = [begun EXCEPT ![c] = clock + 1]
    BY <1>1 DEF SendRead
  <2>2. clock' \in Nat /\ begun' \in [Calls -> Nat]
    BY <1>1, <2>1 DEF SendRead
  <2>3. crossed' \subseteq Calls
    BY <1>1 DEF SendRead, Uncommitted
  <2> QED
    BY <1>1, <2>1, <2>2, <2>3 DEF SendRead
<1>2. ASSUME NEW c \in Calls, SendCommit(c) PROVE TypeOK'
  <2>1. last' \in stored' /\ stored' \subseteq Calls /\ read' \subseteq stored'
    BY <1>2 DEF SendCommit, Touched
  <2>2. step' = [step EXCEPT ![c] = "committed"]
    BY <1>2 DEF SendCommit
  <2> QED
    BY <1>2, <2>1, <2>2 DEF SendCommit
<1>3. ASSUME NEW c \in Calls, Later(c) PROVE TypeOK'
  BY <1>3 DEF Later, Publish, PublishFails, Notify, CommitNotice, Crash, Active,
     Swallowed, Publishable, Announceable
<1>4. CASE Closes
  <2>1. CASE Archive
    BY <2>1 DEF Archive, Uncommitted
  <2>2. CASE CommitArchive
    BY <2>2 DEF CommitArchive
  <2>3. CASE ArchiveFails
    BY <2>3 DEF ArchiveFails
  <2> QED
    BY <1>4, <2>1, <2>2, <2>3 DEF Closes
<1>5. CASE Socket
  BY <1>5 DEF Socket, Accept, Subscribe, Disconnect, Moves
<1>6. ASSUME NEW p \in Parties, Lists(p) PROVE TypeOK'
  <2>1. Listing \subseteq stored
    BY DEF Listing, History
  <2> QED
    BY <1>6, <2>1 DEF Lists, List, Marks, ForReading, Settles, Answer, AnswerLost
<1>7. CASE UNCHANGED vars
  BY <1>7 DEF vars
<1> QED
  BY <1>1, <1>2, <1>3, <1>4, <1>5, <1>6, <1>7, StepsOfTheSystem

LEMMA CallStep == MessagingInv /\ [Next]_vars => CallInv'
<1> SUFFICES ASSUME MessagingInv, [Next]_vars PROVE CallInv'
  OBVIOUS
<1> USE DEF MessagingInv, TypeOK, CallInv, rows, page, answers, At, Go
<1>1. ASSUME NEW c \in Calls, SendRead(c) PROVE CallInv'
  BY <1>1 DEF SendRead
<1>2. ASSUME NEW c \in Calls, SendCommit(c) PROVE CallInv'
  BY <1>2 DEF SendCommit, Touched
<1>3. ASSUME NEW c \in Calls, Later(c) PROVE CallInv'
  BY <1>3 DEF Later, Publish, PublishFails, Notify, CommitNotice, Crash, Active,
     Swallowed, Publishable, Announceable
<1>4. CASE Closes
  <2>1. UNCHANGED <<step, clock, begun, stored, heard>>
    BY <1>4 DEF Closes, Archive, CommitArchive, ArchiveFails
  <2>2. pushed' \ {Closing} \subseteq pushed
    BY <1>4 DEF Closes, Archive, CommitArchive, ArchiveFails
  <2>3. notices \subseteq notices' /\ notices' \ {Closing} \subseteq notices
    BY <1>4 DEF Closes, Archive, CommitArchive, ArchiveFails
  <2> QED
    BY <2>1, <2>2, <2>3, NobodyAssumption
<1>5. CASE Socket
  BY <1>5 DEF Socket, Accept, Subscribe, Disconnect, Moves
<1>6. ASSUME NEW p \in Parties, Lists(p) PROVE CallInv'
  BY <1>6 DEF Lists, List, Marks, Settles, Answer, AnswerLost
<1>7. CASE UNCHANGED vars
  BY <1>7 DEF vars
<1> QED
  BY <1>1, <1>2, <1>3, <1>4, <1>5, <1>6, <1>7, StepsOfTheSystem

LEMMA TimesStep == MessagingInv /\ [Next]_vars => TimesAreDistinct'
<1> SUFFICES ASSUME MessagingInv, [Next]_vars PROVE TimesAreDistinct'
  OBVIOUS
<1> USE DEF MessagingInv, TypeOK, CallInv, TimesAreDistinct, rows, page, answers, At, Go
<1>1. ASSUME NEW c \in Calls, SendRead(c) PROVE TimesAreDistinct'
  BY <1>1 DEF SendRead
<1>2. ASSUME NEW c \in Calls, SendCommit(c) PROVE TimesAreDistinct'
  BY <1>2 DEF SendCommit
<1>3. ASSUME NEW c \in Calls, Later(c) PROVE TimesAreDistinct'
  BY <1>3 DEF Later, Publish, PublishFails, Notify, CommitNotice, Crash
<1>4. CASE Closes
  BY <1>4 DEF Closes, Archive, CommitArchive, ArchiveFails
<1>5. CASE Socket
  BY <1>5 DEF Socket, Accept, Subscribe, Disconnect, Moves
<1>6. ASSUME NEW p \in Parties, Lists(p) PROVE TimesAreDistinct'
  BY <1>6 DEF Lists, List, Marks, Settles, Answer, AnswerLost
<1>7. CASE UNCHANGED vars
  BY <1>7 DEF vars
<1> QED
  BY <1>1, <1>2, <1>3, <1>4, <1>5, <1>6, <1>7, StepsOfTheSystem

LEMMA CrossStep == MessagingInv /\ [Next]_vars => LaterCallsCross'
<1> SUFFICES ASSUME MessagingInv, [Next]_vars PROVE LaterCallsCross'
  OBVIOUS
<1> USE DEF MessagingInv, TypeOK, CallInv, LaterCallsCross, Precedes, rows, page, answers, At, Go
<1>1. ASSUME NEW c \in Calls, SendRead(c) PROVE LaterCallsCross'
  BY <1>1 DEF SendRead, Uncommitted
<1>2. ASSUME NEW c \in Calls, SendCommit(c) PROVE LaterCallsCross'
  BY <1>2 DEF SendCommit
<1>3. ASSUME NEW c \in Calls, Later(c) PROVE LaterCallsCross'
  BY <1>3 DEF Later, Publish, PublishFails, Notify, CommitNotice, Crash, Active,
     Swallowed, Publishable, Announceable
<1>4. CASE Closes
  BY <1>4 DEF Closes, Archive, CommitArchive, ArchiveFails
<1>5. CASE Socket
  BY <1>5 DEF Socket, Accept, Subscribe, Disconnect, Moves
<1>6. ASSUME NEW p \in Parties, Lists(p) PROVE LaterCallsCross'
  BY <1>6 DEF Lists, List, Marks, Settles, Answer, AnswerLost
<1>7. CASE UNCHANGED vars
  BY <1>7 DEF vars
<1> QED
  BY <1>1, <1>2, <1>3, <1>4, <1>5, <1>6, <1>7, StepsOfTheSystem

LEMMA ArchiveStep == MessagingInv /\ [Next]_vars => ArchiveInv'
<1> SUFFICES ASSUME MessagingInv, [Next]_vars PROVE ArchiveInv'
  OBVIOUS
<1> USE DEF MessagingInv, TypeOK, ArchiveInv, Uncommitted, rows, page, answers, At, Go
<1>1. ASSUME NEW c \in Calls, SendRead(c) PROVE ArchiveInv'
  BY <1>1 DEF SendRead, IsOpen
<1>2. ASSUME NEW c \in Calls, SendCommit(c) PROVE ArchiveInv'
  BY <1>2 DEF SendCommit
<1>3. ASSUME NEW c \in Calls, Later(c) PROVE ArchiveInv'
  BY <1>3, NobodyAssumption DEF Later, Publish, PublishFails, Notify, CommitNotice, Crash, Active,
     Swallowed, Publishable, Announceable
<1>4. CASE Closes
  BY <1>4 DEF Closes, Archive, CommitArchive, ArchiveFails
<1>5. CASE Socket
  BY <1>5 DEF Socket, Accept, Subscribe, Disconnect, Moves
<1>6. ASSUME NEW p \in Parties, Lists(p) PROVE ArchiveInv'
  BY <1>6 DEF Lists, List, Marks, Settles, Answer, AnswerLost
<1>7. CASE UNCHANGED vars
  BY <1>7 DEF vars
<1> QED
  BY <1>1, <1>2, <1>3, <1>4, <1>5, <1>6, <1>7, StepsOfTheSystem

-----------------------------------------------------------------------------
(* Listings                                                                  *)

(* A listing returns the whole history when its limit allows for as many.    *)
LEMMA ShortHistoryIsListed ==
  ASSUME TypeOK, IsFiniteSet(stored), Cardinality(stored) <= Limit
  PROVE  Listing = stored
<1>1. ASSUME NEW c \in stored
      PROVE  Cardinality({d \in stored : Precedes(d, c)}) < Limit
  <2> DEFINE older == {d \in stored : Precedes(d, c)}
  <2>1. begun[c] \in Nat
    BY DEF TypeOK
  <2>2. older \in SUBSET (stored \ {c})
    BY <2>1 DEF Precedes
  <2>3. /\ IsFiniteSet(stored \ {c})
        /\ Cardinality(stored \ {c}) = Cardinality(stored) - 1
    BY FS_RemoveElement
  <2>4. IsFiniteSet(older) /\ Cardinality(older) <= Cardinality(stored \ {c})
    BY <2>2, <2>3, FS_Subset
  <2>5. Cardinality(older) \in Nat /\ Cardinality(stored) \in Nat
    BY <2>4, FS_CardinalityType
  <2> QED
    BY <2>3, <2>4, <2>5, LimitAssumption
<1> QED
  BY <1>1 DEF Listing, History

LEMMA PageStep == MessagingInv /\ [Next]_vars => PageInv'
<1> SUFFICES ASSUME MessagingInv, [Next]_vars PROVE PageInv'
  OBVIOUS
<1> USE DEF MessagingInv, TypeOK, PageInv, rows, page, answers, At, Go
<1>1. ASSUME NEW c \in Calls, SendRead(c) PROVE PageInv'
  BY <1>1 DEF SendRead
<1>2. ASSUME NEW c \in Calls, SendCommit(c) PROVE PageInv'
  BY <1>2, FS_AddElement DEF SendCommit
<1>3. ASSUME NEW c \in Calls, Later(c) PROVE PageInv'
  <2>1. CASE Publish(c)
    BY <2>1 DEF Publish
  <2>2. CASE ~Publish(c)
    BY <1>3, <2>2 DEF Later, PublishFails, Notify, CommitNotice, Crash
  <2> QED
    BY <2>1, <2>2
<1>4. CASE Closes
  BY <1>4 DEF Closes, Archive, CommitArchive, ArchiveFails
<1>5. CASE Socket
  BY <1>5 DEF Socket, Accept, Subscribe, Disconnect, Moves
<1>6. ASSUME NEW p \in Parties, Lists(p) PROVE PageInv'
  <2>1. UNCHANGED <<stored, heard, received, socket>>
    BY <1>6 DEF Lists, List, Settles, Answer, AnswerLost
  <2>2. whole' => socket' = "listening"
    BY <1>6, <2>1 DEF Lists, List, Settles, Answer, AnswerLost
  <2>3. ASSUME behind' PROVE socket = "listening" /\ heard \subseteq found'[Reader] \cup received
    <3>1. CASE List(p) /\ p = Reader
      <4>1. found'[Reader] = stored /\ socket = "listening"
        BY <2>3, <3>1, ShortHistoryIsListed DEF List, History
      <4> QED
        BY <4>1 DEF CallInv
    <3>2. CASE p # Reader
      <4>1. behind' = behind /\ found'[Reader] = found[Reader]
        BY <1>6, <3>2, ByAssumption DEF Lists, List, Settles, Answer, AnswerLost
      <4> QED
        BY <2>3, <4>1
    <3>3. CASE ~List(p) /\ p = Reader
      BY <1>6, <2>3, <3>3 DEF Lists, Settles, Answer, AnswerLost
    <3> QED
      BY <3>1, <3>2, <3>3
  <2> QED
    BY <2>1, <2>2, <2>3
<1>7. CASE UNCHANGED vars
  BY <1>7 DEF vars
<1> QED
  BY <1>1, <1>2, <1>3, <1>4, <1>5, <1>6, <1>7, StepsOfTheSystem

LEMMA MissedStep == MessagingInv /\ [Next]_vars => NothingIsMissed'
<1> SUFFICES ASSUME MessagingInv, [Next]_vars PROVE NothingIsMissed'
  OBVIOUS
<1> USE DEF MessagingInv, TypeOK, NothingIsMissed, PageInv, rows, page, answers, At, Go
<1>1. ASSUME NEW c \in Calls, SendRead(c) PROVE NothingIsMissed'
  BY <1>1 DEF SendRead
<1>2. ASSUME NEW c \in Calls, SendCommit(c) PROVE NothingIsMissed'
  BY <1>2 DEF SendCommit
<1>3. ASSUME NEW c \in Calls, Later(c) PROVE NothingIsMissed'
  <2>1. CASE Publish(c)
    BY <2>1 DEF Publish
  <2>2. CASE ~Publish(c)
    BY <1>3, <2>2 DEF Later, PublishFails, Notify, CommitNotice, Crash
  <2> QED
    BY <2>1, <2>2
<1>4. CASE Closes
  BY <1>4 DEF Closes, Archive, CommitArchive, ArchiveFails
<1>5. CASE Socket
  BY <1>5 DEF Socket, Accept, Subscribe, Disconnect, Moves
<1>6. ASSUME NEW p \in Parties, Lists(p) PROVE NothingIsMissed'
  <2>1. UNCHANGED <<heard, received>>
    BY <1>6 DEF Lists, List, Settles, Answer, AnswerLost
  <2>2. CASE Answer(p) /\ p = Reader
    BY <2>1, <2>2 DEF Answer
  <2>3. CASE ~(Answer(p) /\ p = Reader)
    BY <1>6, <2>1, <2>3 DEF Lists, List, Settles, Answer, AnswerLost
  <2> QED
    BY <2>2, <2>3
<1>7. CASE UNCHANGED vars
  BY <1>7 DEF vars
<1> QED
  BY <1>1, <1>2, <1>3, <1>4, <1>5, <1>6, <1>7, StepsOfTheSystem

(* Only listings and their answers touch is_read and what it is of.          *)
LEMMA ReadStep == MessagingInv /\ [Next]_vars => (AnswersInv /\ ReadMeansListed)'
<1> SUFFICES ASSUME MessagingInv, [Next]_vars PROVE (AnswersInv /\ ReadMeansListed)'
  OBVIOUS
<1> USE DEF MessagingInv, TypeOK, AnswersInv, ReadMeansListed, ForReading
<1>1. CASE UNCHANGED <<read, asking, found, shown, unanswered>>
  BY <1>1
<1>2. ASSUME NEW p \in Parties, List(p) PROVE (AnswersInv /\ ReadMeansListed)'
  <2>1. /\ read' = read \cup ForReading(p, Listing) /\ UNCHANGED <<shown, unanswered>>
        /\ asking' = asking \cup {p} /\ found' = [found EXCEPT ![p] = Listing]
        /\ p \notin asking
    BY <1>2 DEF List, Marks
  <2>2. \A q \in Parties : found'[q] = IF q = p THEN Listing ELSE found[q]
    BY <2>1
  <2>3. ASSUME NEW c \in read' \ shown', c \notin unanswered'
        PROVE  \E q \in asking' : c \in ForReading(q, found'[q])
    <3>1. CASE c \in read
      <4>1. PICK q \in asking : c \in ForReading(q, found[q])
        BY <2>1, <2>3, <3>1
      <4> QED
        BY <2>1, <2>2, <4>1
    <3>2. CASE c \notin read
      BY <2>1, <2>2, <2>3, <3>2
    <3> QED
      BY <3>1, <3>2
  <2> QED
    BY <2>1, <2>2, <2>3
<1>3. ASSUME NEW p \in Parties, Answer(p) \/ AnswerLost(p)
      PROVE  (AnswersInv /\ ReadMeansListed)'
  <2>1. /\ read' = read /\ asking' = asking \ {p} /\ p \in asking
        /\ found' = [found EXCEPT ![p] = {}]
    BY <1>3 DEF Answer, AnswerLost, Settles, rows
  <2>2. \/ shown' = shown \cup ForReading(p, found[p]) /\ unanswered' = unanswered
        \/ shown' = shown /\ unanswered' = unanswered \cup ForReading(p, found[p])
    BY <1>3 DEF Answer, AnswerLost
  <2>3. \A q \in Parties : found'[q] = IF q = p THEN {} ELSE found[q]
    BY <2>1
  <2>4. ASSUME NEW c \in read \ shown', c \notin unanswered'
        PROVE  \E q \in asking' : c \in ForReading(q, found'[q])
    <3>1. PICK q \in asking : c \in ForReading(q, found[q])
      BY <2>2, <2>4
    <3>2. q # p
      BY <2>2, <2>4, <3>1
    <3> QED
      BY <2>1, <2>3, <3>1, <3>2
  <2> QED
    BY <2>1, <2>2, <2>3, <2>4
<1>4. ASSUME NEW c \in Calls, SendRead(c) \/ SendCommit(c) \/ Later(c)
      PROVE  UNCHANGED <<read, asking, found, shown, unanswered>>
  BY <1>4 DEF SendRead, SendCommit, Later, Publish, PublishFails, Notify, CommitNotice,
     Crash, rows, answers
<1>5. Closes \/ Socket \/ UNCHANGED vars
         => UNCHANGED <<read, asking, found, shown, unanswered>>
  BY DEF Closes, Archive, CommitArchive, ArchiveFails, Socket, Accept, Subscribe,
     Disconnect, Moves, rows, answers, vars
<1> QED
  BY <1>1, <1>2, <1>3, <1>4, <1>5, StepsOfTheSystem DEF Lists

LEMMA NewestStep == MessagingInv /\ [Next]_vars => LastIsNewest'
<1> SUFFICES ASSUME MessagingInv, [Next]_vars PROVE LastIsNewest'
  OBVIOUS
<1> USE DEF MessagingInv, TypeOK, CallInv, LastIsNewest, Precedes, rows, page, answers, At, Go
<1>1. ASSUME NEW c \in Calls, SendRead(c) PROVE LastIsNewest'
  BY <1>1 DEF SendRead
<1>2. ASSUME NEW c \in Calls, SendCommit(c) PROVE LastIsNewest'
  <2>1. /\ last' = c /\ stored' = stored \cup {c} /\ begun' = begun /\ crossed' = crossed
        /\ At(c, "read")
    BY <1>2 DEF SendCommit, Touched
  <2>2. ASSUME NEW x \in stored', \A d \in stored' \ {x} : begun[d] < begun[x]
        PROVE  x \in crossed \cup {c}
    <3>1. x # c => Precedes(c, x)
      BY <2>1, <2>2
    <3> QED
      BY <2>1, <2>2, <3>1 DEF LaterCallsCross
  <2> QED
    BY <2>1, <2>2
<1>3. ASSUME NEW c \in Calls, Later(c) PROVE LastIsNewest'
  BY <1>3 DEF Later, Publish, PublishFails, Notify, CommitNotice, Crash
<1>4. CASE Closes
  BY <1>4 DEF Closes, Archive, CommitArchive, ArchiveFails
<1>5. CASE Socket
  BY <1>5 DEF Socket, Accept, Subscribe, Disconnect, Moves
<1>6. ASSUME NEW p \in Parties, Lists(p) PROVE LastIsNewest'
  BY <1>6 DEF Lists, List, Marks, Settles, Answer, AnswerLost
<1>7. CASE UNCHANGED vars
  BY <1>7 DEF vars
<1> QED
  BY <1>1, <1>2, <1>3, <1>4, <1>5, <1>6, <1>7, StepsOfTheSystem

-----------------------------------------------------------------------------
LEMMA InitInv == Init => MessagingInv
<1> SUFFICES ASSUME Init PROVE MessagingInv
  OBVIOUS
<1> USE DEF Init
<1>1. TypeOK
  BY DEF TypeOK
<1>2. CallInv /\ TimesAreDistinct
  BY DEF CallInv, TimesAreDistinct
<1>3. LaterCallsCross /\ ArchiveInv
  BY DEF LaterCallsCross, ArchiveInv, At, Uncommitted
<1>4. PageInv /\ AnswersInv
  BY FS_EmptySet, ByAssumption DEF PageInv, AnswersInv, ForReading
<1>5. NothingIsMissed /\ ReadMeansListed /\ LastIsNewest
  BY DEF NothingIsMissed, ReadMeansListed, LastIsNewest
<1> QED
  BY <1>1, <1>2, <1>3, <1>4, <1>5 DEF MessagingInv

LEMMA MessagingInvHolds == Spec => []MessagingInv
<1>1. MessagingInv /\ [Next]_vars => MessagingInv'
  BY TypeStep, CallStep, TimesStep, CrossStep, ArchiveStep, PageStep, MissedStep,
     ReadStep, NewestStep DEF MessagingInv
<1> QED
  BY <1>1, InitInv, PTL DEF Spec

(* The tables, the page and the history variables have the values they can. *)
THEOREM TypeCorrect == Spec => []TypeOK
<1>1. MessagingInv => TypeOK
  BY DEF MessagingInv
<1> QED
  BY <1>1, MessagingInvHolds, PTL

(* For any number of messages, any limit and any listings under way, a page  *)
(* shown a listing made while its socket listens has every message published *)
(* in a history that fits the listing; what a participant was shown is       *)
(* marked as read, and a message marked and not shown is in a listing still  *)
(* to be answered or in one whose answer was lost.                           *)
THEOREM ReadersGetTheirMessages == Spec => []MessagesReachTheirReader
<1>1. MessagingInv => MessagesReachTheirReader
  BY DEF MessagingInv, MessagesReachTheirReader
<1> QED
  BY <1>1, MessagingInvHolds, PTL

(* However calls overlap, nobody is told of a message that is not stored,    *)
(* a notice without its row is one of a call still at it or dead, and the    *)
(* newest message sorts the conversation unless it overlapped another.       *)
THEOREM ToldIsStored == Spec => []WhatIsToldIsStored
<1>1. MessagingInv => WhatIsToldIsStored
  <2> SUFFICES ASSUME MessagingInv PROVE NoticesFollowMessages
    BY DEF MessagingInv, WhatIsToldIsStored
  <2>1. heard \cup ((pushed \cup notices) \ {Closing}) \subseteq Calls
    BY DEF MessagingInv, TypeOK
  <2>2. heard \cup ((pushed \cup notices) \ {Closing}) \subseteq stored
    BY <2>1 DEF MessagingInv, CallInv
  <2>3. \A c \in (pushed \ notices) \ {Closing} : step[c] \in {"noted", "crashed"}
    BY <2>1 DEF MessagingInv, CallInv
  <2>4. Closing \in pushed \ notices => closing \in {"flushed", "crashed"}
    BY DEF MessagingInv, ArchiveInv, TypeOK
  <2> QED
    BY <2>2, <2>3, <2>4 DEF NoticesFollowMessages
<1> QED
  BY <1>1, MessagingInvHolds, PTL

(* What a step stores is the message of one call that was about to commit.   *)
LEMMA OneMessageAtATime ==
  ASSUME [Next]_vars, NEW c \in stored' \ stored
  PROVE  c \in Calls => At(c, "read") /\ UNCHANGED <<begun, crossed>>
<1>1. ASSUME NEW k \in Calls, SendCommit(k)
      PROVE  At(c, "read") /\ UNCHANGED <<begun, crossed>>
  BY <1>1 DEF SendCommit
<1> QED
  BY <1>1, StepsOfTheSystem DEF SendRead, Later, Publish, PublishFails, Notify,
     CommitNotice, Crash, Closes, Archive, CommitArchive, ArchiveFails, Socket, Accept,
     Subscribe, Disconnect, Moves, Lists, List, Settles, Answer, AnswerLost, vars, rows

(* An archived conversation takes only the messages of calls that were under *)
(* way, and a call that overlaps no other adds its message at the end.       *)
THEOREM HistoryOnlyGrows == Spec => HistoryStands
<1>1. MessagingInv /\ TypeOK' /\ [Next]_vars
         => [conversation = "archived" => stored' \ stored \subseteq crossed]_vars
  <2> SUFFICES ASSUME MessagingInv, TypeOK', [Next]_vars, conversation = "archived",
                      NEW c \in stored' \ stored
               PROVE  c \in crossed
    OBVIOUS
  <2>1. c \in Uncommitted
    BY OneMessageAtATime DEF TypeOK, Uncommitted, At
  <2> QED
    BY <2>1 DEF MessagingInv, ArchiveInv
<1>2. MessagingInv /\ TypeOK' /\ [Next]_vars
         => [\A c \in stored' \ stored :
                c \notin crossed => \A d \in stored : Precedes(d, c)]_vars
  <2> SUFFICES ASSUME MessagingInv, TypeOK', [Next]_vars,
                      NEW c \in stored' \ stored, c \notin crossed, NEW d \in stored
               PROVE  Precedes(d, c)
    OBVIOUS
  <2>1. c \in Calls /\ d \in Calls /\ c # d /\ At(c, "read")
    BY OneMessageAtATime DEF TypeOK, MessagingInv
  <2>2. begun[c] # begun[d] /\ begun[c] \in Nat /\ begun[d] \in Nat
    BY <2>1 DEF MessagingInv, TypeOK, CallInv, TimesAreDistinct, At
  <2>3. ~Precedes(c, d)
    BY <2>1 DEF MessagingInv, LaterCallsCross
  <2> QED
    BY <2>2, <2>3 DEF Precedes
<1>3. MessagingInv => TypeOK
  BY DEF MessagingInv
<1>4. Spec => ArchivedIsFrozen
  BY <1>1, <1>3, MessagingInvHolds, PTL DEF Spec, ArchivedIsFrozen
<1>5. Spec => HistoryGrowsAtTheEnd
  BY <1>2, <1>3, MessagingInvHolds, PTL DEF Spec, HistoryGrowsAtTheEnd
<1> QED
  BY <1>4, <1>5 DEF HistoryStands
=============================================================================
