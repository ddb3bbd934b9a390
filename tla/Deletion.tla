------------------------------- MODULE Deletion -------------------------------
(****************************************************************************)
(* Deleting a user, a specialty or a repair request for good, while the      *)
(* people concerned go on working.                                           *)
(*                                                                           *)
(* The world is one customer, one technician, one specialty and the rows     *)
(* that can grow between them, each at most once; the foreign keys of the    *)
(* schema say which row refers to which and what its deletion does to it.    *)
(* A deletion counts what stands in its way with one SELECT after another,   *)
(* each of which sees what is committed by then, and deletes at the end;     *)
(* the DELETE waits for inserts under way and takes what they committed.     *)
(****************************************************************************)
EXTENDS Sequences, Naturals

CONSTANT Repeats  \* how often a deletion is tried (a bound)

ASSUME RepeatsAssumption == Repeats \in Nat

VARIABLES
    rows,     \* the rows there are
    nulled,   \* references that are NULL, as <<row, row it could refer to>>
    target,   \* what is being deleted
    checked,  \* how many of its counts are done
    tries,    \* deletions begun
    born,     \* history: rows inserted since the deletion began
    given     \* history: an edit gave the request the specialty since then

deletionVars == <<rows, nulled, target, checked, tries, born, given>>

Nothing == "nothing"

Users == {"customer", "technician"}
Roots == Users \cup {"specialty"}

(* "profile" and "workshop" are the rows of customer_profiles and            *)
(* technicians; "question" and "answer" are messages of the customer and of  *)
(* the technician; "news" and "alert" their notifications; "skill" is the    *)
(* row of technician_specialties.                                            *)
Names == Roots \cup
    {"profile", "workshop", "skill", "request", "image", "quotation", "order",
     "event", "conversation", "question", "answer", "review", "news", "alert"}

-----------------------------------------------------------------------------
(* The foreign keys, as <<row, row it refers to, ON DELETE>>                 *)

AccountKeys ==
    {<<"profile", "customer", "CASCADE">>, <<"workshop", "technician", "CASCADE">>,
     <<"skill", "workshop", "CASCADE">>, <<"skill", "specialty", "CASCADE">>,
     <<"news", "customer", "CASCADE">>, <<"alert", "technician", "CASCADE">>}

(* The technician of a request is set when its order is opened.              *)
RequestKeys ==
    {<<"request", "customer", "CASCADE">>, <<"request", "specialty", "SET_NULL">>,
     <<"request", "workshop", "SET_NULL">>, <<"image", "request", "CASCADE">>,
     <<"quotation", "request", "CASCADE">>, <<"quotation", "workshop", "CASCADE">>}

OrderKeys ==
    {<<"order", "request", "CASCADE">>, <<"order", "quotation", "RESTRICT">>,
     <<"order", "customer", "RESTRICT">>, <<"order", "workshop", "RESTRICT">>,
     <<"event", "order", "CASCADE">>, <<"event", "technician", "SET_NULL">>}

ConversationKeys ==
    {<<"conversation", "request", "CASCADE">>, <<"conversation", "order", "SET_NULL">>,
     <<"conversation", "customer", "CASCADE">>, <<"conversation", "workshop", "CASCADE">>,
     <<"question", "conversation", "CASCADE">>, <<"question", "customer", "CASCADE">>,
     <<"answer", "conversation", "CASCADE">>, <<"answer", "technician", "CASCADE">>}

ReviewKeys ==
    {<<"review", "order", "CASCADE">>, <<"review", "customer", "CASCADE">>,
     <<"review", "workshop", "CASCADE">>}

Keys(rule) ==
    {<<k[1], k[2]>> : k \in {key \in AccountKeys \cup RequestKeys \cup OrderKeys
                                  \cup ConversationKeys \cup ReviewKeys :
                            key[3] = rule}}

CascadeKeys == Keys("CASCADE")

MutRestrictsUsers == Keys("RESTRICT") \ {<<"order", "quotation">>}

RestrictKeys == Keys("RESTRICT")

SetNullKeys == Keys("SET_NULL")

(* What DELETE of a row takes with it: what refers to it with ON DELETE      *)
(* CASCADE, and so on.  The longest chain of the schema has three keys (a    *)
(* customer, its request, the order, its events).                            *)
Fall(S) == S \cup {k[1] : k \in {c \in CascadeKeys : c[1] \in rows /\ c[2] \in S}}

Taken(r) == Fall(Fall(Fall({r})))

(* ON DELETE RESTRICT refuses even when the row would go by another key.     *)
Restricted(r) == \E k \in RestrictKeys : k[1] \in rows /\ k[2] \in Taken(r)

-----------------------------------------------------------------------------
(* What is counted before, in the order of the code                          *)

MutForgetsOne(r) ==
    CASE r = "customer"   -> <<"order", "request", "review", "conversation">>
      [] r = "technician" -> <<"order", "review", "conversation">>
      [] r = "specialty"  -> <<"skill">>
      [] r = "request"    -> <<>>

Counts(r) ==
    CASE r = "customer"   -> <<"order", "request", "review", "conversation">>
      [] r = "technician" -> <<"order", "quotation", "review", "conversation">>
      [] r = "specialty"  -> <<"skill", "request">>
      [] r = "request"    -> <<>>

(* What goes with a deletion that nothing stands in the way of.              *)
Own(r) ==
    CASE r = "customer"   -> {"customer", "profile", "news"}
      [] r = "technician" -> {"technician", "workshop", "skill", "alert"}
      [] r = "specialty"  -> {"specialty"}
      [] r = "request"    -> {"request", "image", "quotation"}

-----------------------------------------------------------------------------
DeletionTypeOK ==
    /\ rows \subseteq Names
    /\ nulled \subseteq SetNullKeys
    /\ target \in Roots \cup {"request", Nothing}
    /\ checked \in 0 .. 4
    /\ tries \in 0 .. Repeats
    /\ born \subseteq rows /\ given \in BOOLEAN

DeletionInit ==
    /\ rows = Roots \cup {"profile", "workshop"}
    /\ nulled = {} /\ target = Nothing /\ checked = 0 /\ tries = 0 /\ born = {}
    /\ given = FALSE

(* What a call of the rest of the system inserts, on what it finds.          *)
Needs(r) ==
    CASE r = "skill"     -> {"workshop", "specialty"}
      [] r = "image"     -> {"request"}
      [] r = "quotation" -> {"request", "workshop"}
      [] r = "event"     -> {"order"}
      [] r = "question"  -> {"conversation", "customer"}
      [] r = "answer"    -> {"conversation", "technician"}
      [] r = "review"    -> {"order", "customer"}
      [] r = "news"      -> {"customer"}
      [] r = "alert"     -> {"technician"}
      [] OTHER           -> {Nothing}

Arrive(R) == rows' = rows \cup R /\ born' = born \cup R

Insert(r) ==
    /\ r \notin rows /\ Needs(r) \subseteq rows
    /\ Arrive({r})
    /\ nulled' = {k \in nulled : k[1] # r}
    /\ UNCHANGED <<target, checked, tries, given>>

(* A request may be of no specialty, also while there is one.                *)
PublishRequest ==
    /\ "request" \notin rows /\ "profile" \in rows
    /\ Arrive({"request"})
    /\ \E lacking \in {{"workshop"}, {"workshop", "specialty"}} :
          /\ "specialty" \in lacking \cup rows
          /\ nulled' = {k \in nulled : k[1] # "request"} \cup
                          {<<"request", none>> : none \in lacking}
    /\ UNCHANGED <<target, checked, tries, given>>

(* PATCH gives a request the specialty, if it exists, or takes it away.  Its *)
(* check of the status is of an earlier read: there may be an order by now.  *)
EditRequest ==
    /\ "request" \in rows
    /\ \/ /\ "specialty" \in rows
          /\ nulled' = nulled \ {<<"request", "specialty">>} /\ given' = TRUE
       \/ nulled' = nulled \cup {<<"request", "specialty">>} /\ UNCHANGED given
    /\ UNCHANGED <<rows, target, checked, tries, born>>

(* An order is opened with its conversation.                                 *)
OpenOrder ==
    /\ "quotation" \in rows /\ "order" \notin rows
    /\ Arrive({"order", "conversation"})
    /\ nulled' = nulled \ {<<"request", "workshop">>, <<"conversation", "order">>}
    /\ UNCHANGED <<target, checked, tries, given>>

-----------------------------------------------------------------------------
(* The deletions: admin_delete of users and of requests, SpecialtyService    *)

MutCountsOn == target' = Nothing /\ checked' = checked + 1

Ends == target' = Nothing /\ checked' = 0

Begin(r) ==
    /\ target = Nothing /\ tries < Repeats
    /\ r \in rows
    /\ target' = r /\ checked' = 0
    /\ tries' = tries + 1
    /\ born' = {} /\ given' = FALSE
    /\ UNCHANGED <<rows, nulled>>

(* A SELECT counts the rows that refer to what is deleted.                   *)
Counted(r) == r \in rows /\ <<r, target>> \notin nulled

Count ==
    /\ target # Nothing /\ checked < Len(Counts(target))
    /\ IF Counted(Counts(target)[checked + 1])
       THEN Ends
       ELSE checked' = checked + 1 /\ UNCHANGED target
    /\ UNCHANGED <<rows, nulled, tries, born, given>>

(* The row may have gone with another one, and the database may refuse.      *)
Delete ==
    /\ target # Nothing /\ checked = Len(Counts(target))
    /\ Ends
    /\ IF target \in rows /\ ~Restricted(target)
       THEN /\ rows' = rows \ Taken(target)
            /\ born' = born \ Taken(target)
            /\ nulled' = {k \in nulled : k[1] \notin Taken(target)} \cup
                 {k \in SetNullKeys : /\ k[1] \in rows \ Taken(target)
                                      /\ k[2] \in Taken(target)}
       ELSE UNCHANGED <<rows, born, nulled>>
    /\ UNCHANGED <<tries, given>>

DeletionNext ==
    \/ \E r \in Names : Insert(r)
    \/ \E r \in Roots \cup {"request"} : Begin(r)
    \/ PublishRequest \/ EditRequest \/ OpenOrder
    \/ Count \/ Delete

DeletionSpec == DeletionInit /\ [][DeletionNext]_deletionVars

-----------------------------------------------------------------------------
(* Properties                                                                *)

(* "Ante cualquier huella se exige desactivar": deleting a user or a         *)
(* specialty destroys nothing but its own rows, and what was inserted while  *)
(* the counts were under way.  The counts of four tables stand for all that  *)
(* the foreign keys would take, messages and images included.                *)
NothingOfOthersIsLost ==
    [][\A r \in rows \ rows' : r \in Own(target) \cup born]_deletionVars

(* Not even that destroys an order, or separates it from its request,        *)
(* quotation, conversation, customer or technician: however the calls        *)
(* overlap, a RESTRICT stands in the way of every CASCADE that leads there.  *)
OrdersOutliveDeletions ==
    [][("order" \in rows) =>
            /\ {"order", "request", "quotation", "conversation", "customer",
                "workshop"} \subseteq rows'
            /\ nulled' \ nulled \subseteq {<<"request", "specialty">>} ]_deletionVars

(* A specialty is taken from a request, which any technician may then quote, *)
(* only behind the count: the request was published, or an edit gave it the  *)
(* specialty, since the deletion began.  What its customer takes away by an  *)
(* edit is not the matter.                                                   *)
SpecialtiesAreKept ==
    [][/\ "specialty" \in rows \ rows'
       /\ "request" \in rows /\ <<"request", "specialty">> \notin nulled
       => "request" \in born \/ given]_deletionVars

(* Counts and foreign keys together: a deletion takes its own rows and what  *)
(* came behind its counts, leaves orders alone, and takes a specialty from   *)
(* no request it could have counted.                                         *)
DeletionsStayApart ==
    []DeletionTypeOK /\ NothingOfOthersIsLost /\ OrdersOutliveDeletions /\ SpecialtiesAreKept
=============================================================================
