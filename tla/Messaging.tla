------------------------------- MODULE Messaging -------------------------------
(****************************************************************************)
(* The conversation of an order: messages, the notices about them, and the   *)
(* page that reads both from the API and from a socket.                      *)
(*                                                                           *)
(* send_message commits the message, publishes it on the conversation's      *)
(* channel of Redis, then writes and publishes a notification and commits    *)
(* again.  What is published reaches the sockets subscribed at that moment   *)
(* and nobody else, and a publication that fails is logged and forgotten.    *)
(* A row's created_at is the time its transaction began, which is the first  *)
(* SELECT of the call; the history is sorted by it.                          *)
(*                                                                           *)
(* The handlers that close the order archive the conversation without        *)
(* asking for the calls that are sending; they hold its row from their flush *)
(* to their commit, and a message's UPDATE of last_message_at waits for it.  *)
(****************************************************************************)
EXTENDS Naturals, FiniteSets

CONSTANTS
    Calls,   \* calls of send_message, and the message each of them sends
    By,      \* By[c]: the participant who makes call c
    Reader,  \* the participant whose page is open
    Limit,   \* of a listing
    AtOnce,  \* bound: listings under way at a time
    Nobody

Parties == {"customer", "technician"}
Closing == "closing"  \* the notice of the order's closing

ASSUME ByAssumption == By \in [Calls -> Parties] /\ Reader \in Parties
ASSUME LimitAssumption == Limit \in Nat \ {0} /\ AtOnce \in Nat
ASSUME NobodyAssumption == Nobody \notin Calls /\ Closing \notin Calls

VARIABLES
    step,          \* how far each call got
    clock,         \* now(), counted by the calls that read it
    begun,         \* created_at of what each call inserts, 0: not begun
    stored,        \* committed rows of messages
    read,          \* rows with is_read
    last,          \* whose clock last_message_at was set from
    conversation,  \* conversations.status
    closing,       \* the handler that closes the order
    pushed,        \* notices published on their recipient's channel
    notices,       \* committed rows of notifications
    socket,        \* the page's socket
    received,      \* messages on their way through the socket, or through it
    listed,        \* the listing the page shows, if made behind the socket
    whole,         \* that listing was not cut by its limit
    asking,        \* participants with a listing read and not yet answered
    found,         \* the rows it holds
    behind,        \* the reader's was made behind the socket and is not cut
    heard,         \* history: messages published on the channel
    shown,         \* history: messages listed to their recipient
    unanswered,    \* history: messages in a listing that did not arrive
    crossed        \* history: calls that overlapped another or the closing

rows == <<clock, begun, stored, read, last, conversation>>
page == <<socket, received, listed, whole>>
answers == <<asking, found, behind, shown, unanswered>>
vars == <<step, rows, closing, pushed, notices, page, answers, heard, crossed>>

Uncommitted == {c \in Calls : step[c] = "read"}
Active == {c \in Calls : step[c] \notin {"idle", "ended", "crashed"}}

TypeOK ==
    /\ step \in [Calls -> {"idle", "read", "committed", "published",
                           "noted", "ended", "crashed"}]
    /\ clock \in Nat /\ begun \in [Calls -> Nat]
    /\ last \in stored \cup {Nobody}
    /\ stored \subseteq Calls /\ read \subseteq stored
    /\ conversation \in {"open", "archived"}
    /\ closing \in {"none", "flushed", "ended", "crashed"}
    /\ pushed \subseteq Calls \cup {Closing}
    /\ notices \subseteq Calls \cup {Closing}
    /\ socket \in {"closed", "accepted", "listening"}
    /\ received \subseteq Calls /\ listed \subseteq Calls /\ whole \in BOOLEAN
    /\ asking \subseteq Parties /\ found \in [Parties -> SUBSET Calls]
    /\ behind \in BOOLEAN
    /\ shown \subseteq Calls /\ unanswered \subseteq Calls
    /\ heard \subseteq Calls /\ crossed \subseteq Calls

Init ==
    /\ step = [c \in Calls |-> "idle"]
    /\ clock = 0 /\ begun = [c \in Calls |-> 0] /\ stored = {} /\ read = {} /\ last = Nobody
    /\ conversation = "open" /\ closing = "none"
    /\ pushed = {} /\ notices = {}
    /\ socket = "closed" /\ received = {} /\ listed = {} /\ whole = FALSE
    /\ asking = {} /\ found = [p \in Parties |-> {}] /\ behind = FALSE
    /\ shown = {} /\ unanswered = {} /\ heard = {} /\ crossed = {}

At(c, s) == step[c] = s
Go(c, s) == step' = [step EXCEPT ![c] = s]

-----------------------------------------------------------------------------
(* send_message                                                              *)

MutAnyStatus == TRUE

IsOpen == conversation = "open"

(* The participant and the status are checked on what this read finds.       *)
SendRead(c) ==
    /\ At(c, "idle") /\ IsOpen
    /\ Go(c, "read")
    /\ clock' = clock + 1 /\ begun' = [begun EXCEPT ![c] = clock + 1]
    /\ crossed' = crossed \cup
         (IF Uncommitted # {} \/ closing = "flushed" THEN Uncommitted \cup {c}
                                                     ELSE {})
    /\ UNCHANGED <<stored, read, last, conversation, closing, pushed, notices,
                   page, answers, heard>>

MutFirstStays(c) == IF last = Nobody THEN c ELSE last

Touched(c) == c

(* The row is inserted with the timestamp of BEGIN, and committed.           *)
SendCommit(c) ==
    /\ At(c, "read") /\ closing # "flushed"
    /\ Go(c, "committed")
    /\ stored' = stored \cup {c}
    /\ last' = Touched(c)
    /\ UNCHANGED <<clock, begun, read, conversation, closing, pushed, notices, page,
                   answers, heard, crossed>>

MutPublishesFirst(c) == step[c] \in {"read", "committed"}

Publishable(c) == At(c, "committed")

Publish(c) ==
    /\ Publishable(c)
    /\ Go(c, "published")
    /\ heard' = heard \cup {c}
    /\ received' = IF socket = "listening" THEN received \cup {c} ELSE received
    /\ UNCHANGED <<rows, closing, pushed, notices, socket, listed, whole,
                   answers, crossed>>

MutRaises(c) == Go(c, "ended")

Swallowed(c) == Go(c, "published")

(* "la mensajeria nunca debe romper la operacion"                            *)
PublishFails(c) ==
    /\ At(c, "committed")
    /\ Swallowed(c)
    /\ UNCHANGED <<rows, closing, pushed, notices, page, answers, heard, crossed>>

(* NotificationService.create: the row is flushed, then published, or not;   *)
(* it is the caller who commits it.                                          *)
MutNotifiesEarly(c) == step[c] \in {"read", "published"}

Announceable(c) == At(c, "published")

Notify(c) ==
    /\ Announceable(c)
    /\ Go(c, "noted")
    /\ pushed' \in {pushed, pushed \cup {c}}
    /\ UNCHANGED <<rows, closing, notices, page, answers, heard, crossed>>

CommitNotice(c) ==
    /\ At(c, "noted")
    /\ Go(c, "ended")
    /\ notices' = notices \cup {c}
    /\ UNCHANGED <<rows, closing, pushed, page, answers, heard, crossed>>

(* The worker dies or the database fails; what is committed stays.           *)
Crash(c) ==
    /\ c \in Active
    /\ Go(c, "crashed")
    /\ UNCHANGED <<rows, closing, pushed, notices, page, answers, heard, crossed>>

-----------------------------------------------------------------------------
(* complete, not_repairable and cancel: _archive_conversation, the notice    *)
(* that is published before the commit, the commit (RepairOrder has the      *)
(* rest).                                                                    *)

Archive ==
    /\ closing = "none"
    /\ closing' = "flushed"
    /\ pushed' \in {pushed, pushed \cup {Closing}}
    /\ crossed' = crossed \cup Uncommitted
    /\ UNCHANGED <<step, rows, notices, page, answers, heard>>

CommitArchive ==
    /\ closing = "flushed"
    /\ closing' = "ended"
    /\ conversation' = "archived"
    /\ notices' = notices \cup {Closing}
    /\ UNCHANGED <<step, clock, begun, stored, read, last, pushed, page, answers, heard,
                   crossed>>

ArchiveFails ==
    /\ closing = "flushed"
    /\ closing' = "crashed"
    /\ UNCHANGED <<step, rows, pushed, notices, page, answers, heard, crossed>>

-----------------------------------------------------------------------------
(* list_messages: the first rows of the history, those of the other party    *)
(* marked as read and committed; the answer comes after it, or is lost with  *)
(* the worker or the connection.  One listing of each party at a time.       *)

MutDirty == {c \in Calls : begun[c] # 0}

History == stored

MutNewestFirst(d, c) == begun[d] > begun[c]

Precedes(d, c) == begun[d] < begun[c]

Listing ==
    {c \in History : Cardinality({d \in History : Precedes(d, c)}) < Limit}

ForReading(p, messages) == {c \in messages : By[c] # p}

MutMarksAll(p) == read' = read \cup ForReading(p, stored)
MutMarksNothing(p) == UNCHANGED read

Marks(p) == read' = read \cup ForReading(p, Listing)

List(p) ==
    /\ p \notin asking /\ Cardinality(asking) < AtOnce
    /\ Marks(p)
    /\ asking' = asking \cup {p} /\ found' = [found EXCEPT ![p] = Listing]
    /\ behind' = IF p = Reader
                 THEN socket = "listening" /\ Cardinality(History) <= Limit
                 ELSE behind
    /\ UNCHANGED <<step, clock, begun, stored, last, conversation, closing, pushed,
                   notices, page, shown, unanswered, heard, crossed>>

(* The listing is no longer under way; only the reader's page has a state.   *)
Settles(p) ==
    /\ p \in asking
    /\ asking' = asking \ {p} /\ found' = [found EXCEPT ![p] = {}]
    /\ behind' = IF p = Reader THEN FALSE ELSE behind
    /\ UNCHANGED <<step, rows, closing, pushed, notices, socket, received, heard,
                   crossed>>

Answer(p) ==
    /\ Settles(p)
    /\ shown' = shown \cup ForReading(p, found[p])
    /\ IF p = Reader
       THEN listed' = (IF behind THEN found[p] ELSE {}) /\ whole' = behind
       ELSE UNCHANGED <<listed, whole>>
    /\ UNCHANGED unanswered

AnswerLost(p) ==
    /\ Settles(p)
    /\ unanswered' = unanswered \cup ForReading(p, found[p])
    /\ UNCHANGED <<listed, whole, shown>>

-----------------------------------------------------------------------------
(* The chat socket: accepted for the holder of a ticket who participates,    *)
(* and only then subscribed; it may break at any moment.                     *)

Moves(from, to) ==
    /\ socket = from /\ socket' = to
    /\ UNCHANGED <<step, rows, closing, pushed, notices, received, listed, whole,
                   answers, heard, crossed>>

Accept == Moves("closed", "accepted")
Subscribe == Moves("accepted", "listening")

Disconnect ==
    /\ socket # "closed"
    /\ socket' = "closed" /\ received' = {} /\ listed' = {} /\ whole' = FALSE
    /\ behind' = FALSE
    /\ UNCHANGED <<step, rows, closing, pushed, notices, asking, found, shown,
                   unanswered, heard, crossed>>

-----------------------------------------------------------------------------
Continue(c) ==
    \/ SendCommit(c) \/ Publish(c) \/ PublishFails(c)
    \/ Notify(c) \/ CommitNotice(c)

Next ==
    \/ \E c \in Calls : SendRead(c) \/ Continue(c) \/ Crash(c)
    \/ Archive \/ CommitArchive \/ ArchiveFails
    \/ \E p \in Parties : List(p) \/ Answer(p) \/ AnswerLost(p)
    \/ Accept \/ Subscribe \/ Disconnect

(* A call that has begun goes on, and so does a closing.                     *)
Spec ==
    /\ Init /\ [][Next]_vars
    /\ \A c \in Calls : WF_vars(Continue(c))
    /\ WF_vars(CommitArchive \/ ArchiveFails)

-----------------------------------------------------------------------------
(* Properties                                                                *)

(* A page that is shown a listing made while its socket listens misses no    *)
(* message that was published, before or since: there is no gap between the  *)
(* commit of a message and its publication, however late the answer is.  It  *)
(* is said of a history that fits one listing, and not of a message whose    *)
(* publication failed nor of a page that lists before it listens.            *)
NothingIsMissed == whole => heard \subseteq listed \cup received

(* A message a participant was shown is marked as read; one that is marked   *)
(* and was not shown is in a listing still to be answered, or was in one     *)
(* whose answer was lost.  Rows a listing did not hold stay unread.          *)
ReadMeansListed ==
    /\ shown \subseteq read
    /\ \A c \in read \ shown :
          c \in unanswered \/ \E p \in asking : c \in ForReading(p, found[p])

(* The sockets and the table tell of messages that are stored; and a notice  *)
(* was published without being stored only by a call that is still at it or  *)
(* failed there: create publishes before the commit of its caller.           *)
NoticesFollowMessages ==
    /\ heard \cup ((pushed \cup notices) \ {Closing}) \subseteq stored
    /\ \A c \in (pushed \ notices) \ {Closing} : step[c] \in {"noted", "crashed"}
    /\ Closing \in pushed \ notices => closing \in {"flushed", "crashed"}

(* A page that lists behind its socket has every published message of a     *)
(* history that fits the listing, and is_read is of what was listed, whether *)
(* or not the answer arrived.                                                *)
MessagesReachTheirReader == TypeOK /\ NothingIsMissed /\ ReadMeansListed

(* "el historial permanece disponible": an archived conversation grows only  *)
(* by the calls that were under way when it was archived.                    *)
ArchivedIsFrozen ==
    [][conversation = "archived" => stored' \ stored \subseteq crossed]_vars

(* A message of a call that overlapped no other appears at the end of the    *)
(* history, never between messages already read.                             *)
HistoryGrowsAtTheEnd ==
    [][\A c \in stored' \ stored :
          c \notin crossed => \A d \in stored : Precedes(d, c)]_vars

(* last_message_at, which sorts the list of conversations, is of the newest  *)
(* message, unless that message overlapped another.                          *)
LastIsNewest ==
    \A c \in stored :
        (\A d \in stored \ {c} : Precedes(d, c)) => c \in crossed \cup {last}

(* The history only grows at its end, and no more once it is archived, but   *)
(* for calls that overlap.                                                   *)
HistoryStands == ArchivedIsFrozen /\ HistoryGrowsAtTheEnd

(* What is told of a conversation, in notices, over sockets and in the list  *)
(* of conversations, is of messages stored in it.                            *)
WhatIsToldIsStored == NoticesFollowMessages /\ LastIsNewest

(* Liveness: a stored message is announced in the end, also when Redis       *)
(* cannot be reached, unless its call dies.                                  *)
EveryMessageIsAnnounced ==
    \A c \in Calls : c \in stored ~> c \in notices \/ At(c, "crashed")
=============================================================================
