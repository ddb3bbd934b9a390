-------------------------------- MODULE SignIn --------------------------------
(****************************************************************************)
(* Becoming a user: password registration, and sign-in with Google as far    *)
(* as the session or the new account it ends in.                             *)
(*                                                                           *)
(* A flow starts in a browser, which keeps a binding cookie, passes through  *)
(* Google and comes back to the callback.  From then on it is a code that    *)
(* is exchanged for a session, or an onboarding token that is completed with *)
(* a form.  State, code and token are keys of Redis that are used once and   *)
(* may expire at any moment; users and oauth_accounts are rows, and the only *)
(* locks on them are their unique indexes.                                   *)
(*                                                                           *)
(* A call that the registration limit refuses does nothing of what follows,  *)
(* and is a call that never starts.  Tokens are named by their flow, rows of *)
(* users by the call that inserted them.                                     *)
(****************************************************************************)
EXTENDS Naturals

CONSTANTS
    Browsers,
    Flows,      \* sign-ins with Google
    Calls,      \* POST /auth/register and POST /auth/oauth/complete
    People,     \* accounts of Google ("sub")
    Emails,
    Phones,
    Nobody      \* no browser, flow, call, person, email or phone

ASSUME NobodyAssumption ==
    Nobody \notin Browsers \cup Flows \cup Calls \cup People \cup Emails
                      \cup Phones

VARIABLES
    cookie,   \* the flow each browser's binding cookie belongs to
    flow,     \* what the server knows of each flow
    keys,     \* the keys of Redis: <<kind, flow>>
    users,    \* the row each call inserted, with its oauth_accounts row
    call,     \* how far each call got, and what its form says
    googles,  \* the email each account of Google has now
    given,    \* history: the browser a flow's code was exchanged in last
    crossed   \* history: calls overtaken by the commit of another one

vars == <<cookie, flow, keys, users, call, googles, given, crossed>>

FlowSteps == {"idle", "google", "identity", "account", "email", "issue",
              "ended"}

Flow == [step : FlowSteps, by : Browsers \cup {Nobody},
         via : Browsers \cup {Nobody}, sub : People \cup {Nobody},
         email : Emails \cup {Nobody}, user : Calls \cup {Nobody}]

Row == [live : BOOLEAN, active : BOOLEAN, admin : BOOLEAN,
        email : Emails \cup {Nobody}, phone : Phones \cup {Nobody},
        sub : People \cup {Nobody}]

Call == [step : {"idle", "burn", "insert", "created", "conflict", "ended"},
         flow : Flows \cup {Nobody}, email : Emails \cup {Nobody},
         phone : Phones \cup {Nobody}]

Kinds == {"state", "exchange", "onboarding"}

TypeOK ==
    /\ cookie \in [Browsers -> Flows \cup {Nobody}]
    /\ flow \in [Flows -> Flow]
    /\ keys \subseteq Kinds \X Flows
    /\ users \in [Calls -> Row]
    /\ call \in [Calls -> Call]
    /\ googles \in [People -> Emails]
    /\ given \in [Flows -> Browsers \cup {Nobody}]
    /\ crossed \subseteq Calls

NoFlow == [step |-> "idle", by |-> Nobody, via |-> Nobody, sub |-> Nobody,
           email |-> Nobody, user |-> Nobody]
NoRow == [live |-> FALSE, active |-> FALSE, admin |-> FALSE, email |-> Nobody,
          phone |-> Nobody, sub |-> Nobody]
Refused == [NoFlow EXCEPT !.step = "ended"]
NoCall == [step |-> "idle", flow |-> Nobody, email |-> Nobody, phone |-> Nobody]

Init ==
    /\ cookie = [b \in Browsers |-> Nobody]
    /\ flow = [f \in Flows |-> NoFlow]
    /\ keys = {}
    /\ users = [c \in Calls |-> NoRow]
    /\ call = [c \in Calls |-> NoCall]
    /\ googles \in [People -> Emails]
    /\ given = [f \in Flows |-> Nobody]
    /\ crossed = {}

Live(u) == users[u].live
Created(u) == call[u].step = "created"
EmailTaken(e) == \E u \in Calls : Live(u) /\ users[u].email = e
PhoneTaken(p) == p # Nobody /\ \E u \in Calls : Live(u) /\ users[u].phone = p
OwnersOf(p) == {u \in Calls : Live(u) /\ users[u].sub = p}

-----------------------------------------------------------------------------
(* GET /auth/google and its callback                                         *)

Begin(b, f) ==
    /\ flow[f].step = "idle"
    /\ flow' = [flow EXCEPT ![f].step = "google", ![f].by = b]
    /\ keys' = keys \cup {<<"state", f>>}
    /\ cookie' = [cookie EXCEPT ![b] = f]
    /\ UNCHANGED <<users, call, googles, given, crossed>>

MutAnyBrowser(b, f) == TRUE

(* compare_digest: the callback comes with the cookie of this flow.          *)
BindMatches(b, f) == cookie[b] = f

(* Every answer of the callback deletes the browser's cookie, be it by then  *)
(* that of another flow.                                                     *)
Answer(b) == cookie' = [cookie EXCEPT ![b] = Nobody]

(* Google redirects to the callback; the URL may be opened in any browser.   *)
Callback(b, f) ==
    /\ flow[f].step = "google"
    /\ <<"state", f>> \in keys
    /\ keys' = keys \ {<<"state", f>>}
    /\ IF BindMatches(b, f)
       THEN /\ flow' = [flow EXCEPT ![f].step = "identity", ![f].via = b]
            /\ UNCHANGED cookie
       ELSE /\ flow' = [flow EXCEPT ![f] = Refused]
            /\ Answer(b)
    /\ UNCHANGED <<users, call, googles, given, crossed>>

(* The state was used or has expired.                                        *)
CallbackLate(b, f) ==
    /\ flow[f].step # "idle"
    /\ <<"state", f>> \notin keys
    /\ Answer(b)
    /\ UNCHANGED <<flow, keys, users, call, googles, given, crossed>>

(* exchange_code and get_identity: a token signed for this client and this   *)
(* flow's nonce says who the person is.                                      *)
Identify(f, p) ==
    /\ flow[f].step = "identity"
    /\ flow' = [flow EXCEPT ![f].step = "account", ![f].sub = p,
                            ![f].email = googles[p]]
    /\ UNCHANGED <<cookie, keys, users, call, googles, given, crossed>>

(* Google refuses the code, or its keys have changed since they were cached: *)
(* an answer like the others.  A command of Redis or the database that fails *)
(* is a 500, which leaves the cookie.                                        *)
CallbackFails(f) ==
    /\ flow[f].step \in {"identity", "account", "email", "issue"}
    /\ flow' = [flow EXCEPT ![f] = Refused]
    /\ \/ flow[f].step = "identity" /\ Answer(flow[f].via)
       \/ UNCHANGED cookie
    /\ UNCHANGED <<keys, users, call, googles, given, crossed>>

MutOwnersByEmail(f) == {u \in Calls : Live(u) /\ users[u].email = flow[f].email}

Linked(f) == OwnersOf(flow[f].sub)

(* _resolve_identity looks for the account, _login_existing at its user.     *)
FindAccount(f) ==
    /\ flow[f].step = "account"
    /\ \/ /\ Linked(f) = {}
          /\ flow' = [flow EXCEPT ![f].step = "email"]
          /\ UNCHANGED cookie
       \/ \E u \in Linked(f) :
              IF users[u].active /\ ~users[u].admin
              THEN /\ flow' = [flow EXCEPT ![f].step = "issue", ![f].user = u]
                   /\ UNCHANGED cookie
              ELSE /\ flow' = [flow EXCEPT ![f] = Refused]
                   /\ Answer(flow[f].via)
    /\ UNCHANGED <<keys, users, call, googles, given, crossed>>

(* A user with this email who is not linked is never linked silently.        *)
FindEmail(f) ==
    /\ flow[f].step = "email"
    /\ IF EmailTaken(flow[f].email)
       THEN flow' = [flow EXCEPT ![f] = Refused] /\ UNCHANGED keys
       ELSE /\ flow' = [flow EXCEPT ![f].step = "ended"]
            /\ keys' = keys \cup {<<"onboarding", f>>}
    /\ Answer(flow[f].via)
    /\ UNCHANGED <<users, call, googles, given, crossed>>

IssueExchange(f) ==
    /\ flow[f].step = "issue"
    /\ flow' = [flow EXCEPT ![f].step = "ended"]
    /\ keys' = keys \cup {<<"exchange", f>>}
    /\ Answer(flow[f].via)
    /\ UNCHANGED <<users, call, googles, given, crossed>>

MutGetOnly(k) == UNCHANGED keys

GetDel(k) == keys' = keys \ {k}

(* POST /auth/oauth/exchange, in whatever browser the link with the code was *)
(* opened: nothing but the code is asked for.                                *)
Exchange(b, f) ==
    /\ <<"exchange", f>> \in keys
    /\ GetDel(<<"exchange", f>>)
    /\ given' = [given EXCEPT ![f] = b]
    /\ UNCHANGED <<cookie, flow, users, call, googles, crossed>>

-----------------------------------------------------------------------------
(* POST /auth/oauth/complete and POST /auth/register                         *)

MutEmailOnly(e, p) == ~EmailTaken(e)

Available(e, p) == ~EmailTaken(e) /\ ~PhoneTaken(p)

(* The token is read and kept; only a form that passes every check goes on.  *)
(* Like the code, the token is all that is asked for: the call may come from *)
(* any browser, and answers it with the session of the new account.          *)
CompleteRead(c, f, p) ==
    /\ call[c].step = "idle"
    /\ <<"onboarding", f>> \in keys
    /\ Available(flow[f].email, p)
    /\ call' = [call EXCEPT ![c] = [step |-> "burn", flow |-> f,
                                    email |-> flow[f].email, phone |-> p]]
    /\ UNCHANGED <<cookie, flow, keys, users, googles, given, crossed>>

Consumes(c) ==
    /\ <<"onboarding", call[c].flow>> \in keys
    /\ GetDel(<<"onboarding", call[c].flow>>)

CompleteBurn(c) ==
    /\ call[c].step = "burn"
    /\ \/ Consumes(c) /\ call' = [call EXCEPT ![c].step = "insert"]
       \/ /\ <<"onboarding", call[c].flow>> \notin keys
          /\ call' = [call EXCEPT ![c].step = "ended"]
          /\ UNCHANGED keys
    /\ UNCHANGED <<cookie, flow, users, googles, given, crossed>>

RegisterRead(c, e, p) ==
    /\ call[c].step = "idle"
    /\ Available(e, p)
    /\ call' = [call EXCEPT ![c] = [step |-> "insert", flow |-> Nobody,
                                    email |-> e, phone |-> p]]
    /\ UNCHANGED <<cookie, flow, keys, users, googles, given, crossed>>

MutFlowAsSub(c) == call[c].flow

SubOf(c) == IF call[c].flow = Nobody THEN Nobody ELSE flow[call[c].flow].sub

MutNoUniqueSub(c) == ~EmailTaken(call[c].email) /\ ~PhoneTaken(call[c].phone)

(* ix_users_email, ix_users_phone_normalized, uq_oauth_accounts_provider_user *)
Unique(c) ==
    /\ ~EmailTaken(call[c].email)
    /\ ~PhoneTaken(call[c].phone)
    /\ SubOf(c) # Nobody => OwnersOf(SubOf(c)) = {}

UnderWay == {c \in Calls : call[c].step \in {"burn", "insert"}}

(* User, profile and oauth_accounts row in one transaction.                  *)
Insert(c) ==
    /\ call[c].step = "insert"
    /\ IF Unique(c)
       THEN /\ users' = [users EXCEPT ![c] =
                   [live |-> TRUE, active |-> TRUE, admin |-> FALSE,
                    email |-> call[c].email, phone |-> call[c].phone,
                    sub |-> SubOf(c)]]
            /\ call' = [call EXCEPT ![c].step = "created"]
            /\ crossed' = crossed \cup (UnderWay \ {c})
       ELSE /\ call' = [call EXCEPT ![c].step = "conflict"]
            /\ UNCHANGED <<users, crossed>>
    /\ UNCHANGED <<cookie, flow, keys, googles, given>>

(* A worker dies, or Redis or the database fails, in the middle of a call.   *)
Crash(c) ==
    /\ c \in UnderWay
    /\ call' = [call EXCEPT ![c].step = "ended"]
    /\ UNCHANGED <<cookie, flow, keys, users, googles, given, crossed>>

-----------------------------------------------------------------------------
(* Everything else                                                           *)

Expire(k) ==
    /\ k \in keys
    /\ keys' = keys \ {k}
    /\ UNCHANGED <<cookie, flow, users, call, googles, given, crossed>>

(* PATCH and DELETE /admin/users/{id}; the deletion cascades to the link.    *)
AdminUpdate(u, active, admin) ==
    /\ Live(u)
    /\ users' = [users EXCEPT ![u].active = active, ![u].admin = admin]
    /\ UNCHANGED <<cookie, flow, keys, call, googles, given, crossed>>

AdminDelete(u) ==
    /\ Live(u)
    /\ users' = [users EXCEPT ![u].live = FALSE]
    /\ UNCHANGED <<cookie, flow, keys, call, googles, given, crossed>>

(* PATCH /users/me and /admin/users/{id}: the phone is looked up, and the    *)
(* unique index has the last word; an update that it refuses changes nothing.*)
ChangePhone(u, p) ==
    /\ Live(u)
    /\ p # users[u].phone /\ ~PhoneTaken(p)
    /\ users' = [users EXCEPT ![u].phone = p]
    /\ crossed' = crossed \cup UnderWay
    /\ UNCHANGED <<cookie, flow, keys, call, googles, given>>

(* An account of Google gets another address.                                *)
Readdress(p, e) ==
    /\ googles' = [googles EXCEPT ![p] = e]
    /\ UNCHANGED <<cookie, flow, keys, users, call, given, crossed>>

FlowStep(f) ==
    \/ \E b \in Browsers : \/ Begin(b, f) \/ Callback(b, f) \/ CallbackLate(b, f)
                           \/ Exchange(b, f)
    \/ \E p \in People : Identify(f, p)
    \/ CallbackFails(f) \/ FindAccount(f) \/ FindEmail(f) \/ IssueExchange(f)

CallStep(c) ==
    \/ \E p \in Phones \cup {Nobody} :
           \/ \E f \in Flows : CompleteRead(c, f, p)
           \/ \E e \in Emails : RegisterRead(c, e, p)
    \/ CompleteBurn(c) \/ Insert(c) \/ Crash(c)

Next ==
    \/ \E f \in Flows : FlowStep(f)
    \/ \E c \in Calls : CallStep(c)
    \/ \E k \in Kinds \X Flows : Expire(k)
    \/ \E u \in Calls, x, y \in BOOLEAN : AdminUpdate(u, x, y)
    \/ \E u \in Calls : AdminDelete(u)
    \/ \E u \in Calls, p \in Phones \cup {Nobody} : ChangePhone(u, p)
    \/ \E p \in People, e \in Emails : Readdress(p, e)

Spec == Init /\ [][Next]_vars

-----------------------------------------------------------------------------
(* Properties                                                                *)

(* One onboarding token makes one account at most, however many forms are    *)
(* sent with it and even when the account is deleted in between.             *)
OneAccountPerToken ==
    \A c, d \in Calls :
        Created(c) /\ Created(d) /\ call[c].flow # Nobody
            /\ call[c].flow = call[d].flow => c = d

(* A session of Google is of a user who was created with that same account   *)
(* of Google: an email in common opens nobody's account.  And it is handed   *)
(* out once: no code is left when somebody has it.                           *)
SessionsAreTheOwners ==
    \A f \in Flows :
        <<"exchange", f>> \in keys \/ given[f] # Nobody =>
            /\ users[flow[f].user].sub = flow[f].sub
            /\ ~(<<"exchange", f>> \in keys /\ given[f] # Nobody)

(* A person is one user: no two rows share an email, a phone or an account   *)
(* of Google, whatever the calls read before they inserted.                  *)
OnePersonOneUser ==
    \A c, d \in Calls :
        Live(c) /\ Live(d) /\ c # d =>
            /\ users[c].email # users[d].email
            /\ users[c].phone = Nobody \/ users[c].phone # users[d].phone
            /\ users[c].sub = Nobody \/ users[c].sub # users[d].sub

(* A form whose token was consumed ("todo está validado") is refused only    *)
(* when another registration overtook it, or when the person already signs   *)
(* in with this account of Google under an address it had at another time:   *)
(* that link is the one thing the checks before the token do not look at.    *)
BurntNeedsAReason ==
    \A c \in Calls :
        call[c].step = "conflict" =>
            \/ c \in crossed
            \/ \E u \in Calls : /\ Created(u) /\ SubOf(u) # Nobody
                                /\ SubOf(u) = SubOf(c)
                                /\ call[u].email # call[c].email

(* What a flow may lead to: a code to exchange, the form of a new account,   *)
(* or a session or an account that came of them.                             *)
LedSomewhere(f) ==
    \/ \E k \in {"exchange", "onboarding"} : <<k, f>> \in keys
    \/ given[f] # Nobody
    \/ \E c \in Calls : call[c].flow = f

(* A sign-in leads somewhere only when it came back from Google in the       *)
(* browser that began it: a callback opened elsewhere ends it.  (The binding *)
(* ends there too: the code and the token are in the address the browser is  *)
(* sent to, and whoever brings them is served.)                              *)
IssuedWhereBegun ==
    \A f \in Flows :
        LedSomewhere(f) => flow[f].via # Nobody /\ flow[f].by = flow[f].via

(* Registrations, links and deletions in any overlap: a person is one user,  *)
(* and one sign-in makes one.                                                *)
AccountsAreSingle == TypeOK /\ OneAccountPerToken /\ OnePersonOneUser

(* A session of Google is its owner's, is issued in the browser in which he   *)
(* asked for it, and falls into one hand, that of whoever brings its code    *)
(* first.                                                                    *)
SessionsAreOfOneHand == SessionsAreTheOwners /\ IssuedWhereBegun
=============================================================================
