----------------------------- MODULE SignInProofs -----------------------------
(****************************************************************************)
(* Registration and sign-in with Google, for any number of browsers, flows,  *)
(* calls, people, emails and phones.                                         *)
(****************************************************************************)
EXTENDS RegisteredPhones, SequenceTheorems, TLAPS

-----------------------------------------------------------------------------
(* Type correctness                                                          *)

LEMMA InitTypeOK == Init => TypeOK
<1> SUFFICES ASSUME Init PROVE TypeOK
  OBVIOUS
<1>1. NoFlow \in Flow
  BY DEF NoFlow, Flow, FlowSteps
<1>2. NoRow \in Row
  BY DEF NoRow, Row
<1>3. NoCall \in Call
  BY DEF NoCall, Call
<1> QED
  BY <1>1, <1>2, <1>3 DEF Init, TypeOK

(* The rows that a call or an administrator writes.                          *)
LEMMA SubType == ASSUME TypeOK, NEW c \in Calls
                 PROVE  SubOf(c) \in People \cup {Nobody}
  BY DEF TypeOK, SubOf, Flow, Call

LEMMA FlowStepTypeOK ==
  ASSUME TypeOK, NEW f \in Flows, FlowStep(f) PROVE TypeOK'
<1> USE DEF TypeOK
<1>0. flow[f] \in Flow /\ Refused \in Flow
  BY DEF Flow, FlowSteps, Refused, NoFlow
<1>1. ASSUME NEW b \in Browsers, Begin(b, f) PROVE TypeOK'
  <2>1. [flow[f] EXCEPT !.step = "google", !.by = b] \in Flow
    BY <1>0 DEF Flow, FlowSteps
  <2>2. flow' \in [Flows -> Flow]
    BY <1>1, <2>1 DEF Begin
  <2>3. cookie' \in [Browsers -> Flows \cup {Nobody}] /\ keys' \subseteq Kinds \X Flows
    BY <1>1 DEF Begin, Kinds
  <2> QED
    BY <1>1, <2>2, <2>3 DEF Begin
<1>2. ASSUME NEW b \in Browsers, Callback(b, f) PROVE TypeOK'
  <2>1. [flow[f] EXCEPT !.step = "identity", !.via = b] \in Flow
    BY <1>0 DEF Flow, FlowSteps
  <2>2. flow' \in [Flows -> Flow]
    BY <1>0, <1>2, <2>1 DEF Callback
  <2> QED
    BY <1>2, <2>2 DEF Callback, Answer
<1>3. ASSUME NEW b \in Browsers, CallbackLate(b, f) PROVE TypeOK'
  BY <1>3 DEF CallbackLate, Answer
<1>4. ASSUME NEW p \in People, Identify(f, p) PROVE TypeOK'
  <2>1. [flow[f] EXCEPT !.step = "account", !.sub = p, !.email = googles[p]] \in Flow
    BY <1>0 DEF Flow, FlowSteps
  <2>2. flow' \in [Flows -> Flow]
    BY <1>4, <2>1 DEF Identify
  <2> QED
    BY <1>4, <2>2 DEF Identify
<1>5. CASE CallbackFails(f)
  <2>1. flow' \in [Flows -> Flow]
    BY <1>0, <1>5 DEF CallbackFails
  <2> QED
    BY <1>5, <2>1 DEF CallbackFails, Answer
<1>6. CASE FindAccount(f)
  <2>1. [flow[f] EXCEPT !.step = "email"] \in Flow
    BY <1>0 DEF Flow, FlowSteps
  <2>2. \A u \in Calls : [flow[f] EXCEPT !.step = "issue", !.user = u] \in Flow
    BY <1>0 DEF Flow, FlowSteps
  <2>3. flow' \in [Flows -> Flow]
    BY <1>0, <1>6, <2>1, <2>2 DEF FindAccount, Linked, OwnersOf
  <2> QED
    BY <1>6, <2>3 DEF FindAccount, Answer
<1>7. CASE FindEmail(f) \/ IssueExchange(f)
  <2>1. [flow[f] EXCEPT !.step = "ended"] \in Flow
    BY <1>0 DEF Flow, FlowSteps
  <2>2. flow' \in [Flows -> Flow] /\ keys' \subseteq Kinds \X Flows
    BY <1>0, <1>7, <2>1 DEF FindEmail, IssueExchange, Kinds
  <2> QED
    BY <1>7, <2>2 DEF FindEmail, IssueExchange, Answer
<1>8. ASSUME NEW b \in Browsers, Exchange(b, f) PROVE TypeOK'
  BY <1>8 DEF Exchange, GetDel
<1> QED
  BY <1>1, <1>2, <1>3, <1>4, <1>5, <1>6, <1>7, <1>8 DEF FlowStep

LEMMA CallStepTypeOK ==
  ASSUME TypeOK, NEW c \in Calls, CallStep(c) PROVE TypeOK'
<1> USE DEF TypeOK
<1>0. call[c] \in Call
  OBVIOUS
<1>1. ASSUME NEW p \in Phones \cup {Nobody}, NEW f \in Flows, CompleteRead(c, f, p)
      PROVE  TypeOK'
  <2>1. [step |-> "burn", flow |-> f, email |-> flow[f].email, phone |-> p] \in Call
    BY DEF Call, Flow
  <2>2. call' \in [Calls -> Call]
    BY <1>1, <2>1 DEF CompleteRead
  <2> QED
    BY <1>1, <2>2 DEF CompleteRead
<1>2. ASSUME NEW p \in Phones \cup {Nobody}, NEW e \in Emails, RegisterRead(c, e, p)
      PROVE  TypeOK'
  <2>1. [step |-> "insert", flow |-> Nobody, email |-> e, phone |-> p] \in Call
    BY DEF Call
  <2>2. call' \in [Calls -> Call]
    BY <1>2, <2>1 DEF RegisterRead
  <2> QED
    BY <1>2, <2>2 DEF RegisterRead
<1>3. \A s \in {"insert", "ended", "created", "conflict"} :
         [call[c] EXCEPT !.step = s] \in Call
  BY <1>0 DEF Call
<1>4. CASE CompleteBurn(c)
  <2>1. call' \in [Calls -> Call]
    BY <1>3, <1>4 DEF CompleteBurn
  <2> QED
    BY <1>4, <2>1 DEF CompleteBurn, Consumes, GetDel
<1>5. CASE Insert(c)
  <2>1. [live |-> TRUE, active |-> TRUE, admin |-> FALSE, email |-> call[c].email,
         phone |-> call[c].phone, sub |-> SubOf(c)] \in Row
    BY <1>0, SubType DEF Call, Row
  <2>2. call' \in [Calls -> Call] /\ users' \in [Calls -> Row]
    BY <1>3, <1>5, <2>1 DEF Insert
  <2>3. crossed' \subseteq Calls
    BY <1>5 DEF Insert, UnderWay
  <2> QED
    BY <1>5, <2>2, <2>3 DEF Insert
<1>6. CASE Crash(c)
  <2>1. call' \in [Calls -> Call]
    BY <1>3, <1>6 DEF Crash
  <2> QED
    BY <1>6, <2>1 DEF Crash
<1> QED
  BY <1>1, <1>2, <1>4, <1>5, <1>6 DEF CallStep

LEMMA StepTypeOK == TypeOK /\ [Next]_vars => TypeOK'
<1> SUFFICES ASSUME TypeOK, [Next]_vars PROVE TypeOK'
  OBVIOUS
<1>1. ASSUME NEW k \in Kinds \X Flows, Expire(k) PROVE TypeOK'
  BY <1>1 DEF Expire, TypeOK
<1>2. ASSUME NEW u \in Calls, NEW x \in BOOLEAN, NEW y \in BOOLEAN,
             AdminUpdate(u, x, y)
      PROVE  TypeOK'
  <2>1. [users[u] EXCEPT !.active = x, !.admin = y] \in Row
    BY DEF TypeOK, Row
  <2> QED
    BY <1>2, <2>1 DEF AdminUpdate, TypeOK
<1>3. ASSUME NEW u \in Calls, AdminDelete(u) PROVE TypeOK'
  <2>1. [users[u] EXCEPT !.live = FALSE] \in Row
    BY DEF TypeOK, Row
  <2> QED
    BY <1>3, <2>1 DEF AdminDelete, TypeOK
<1>4. ASSUME NEW u \in Calls, NEW p \in Phones \cup {Nobody}, ChangePhone(u, p)
      PROVE  TypeOK'
  <2>1. [users[u] EXCEPT !.phone = p] \in Row
    BY DEF TypeOK, Row
  <2>2. crossed' \subseteq Calls
    BY <1>4 DEF ChangePhone, UnderWay, TypeOK
  <2> QED
    BY <1>4, <2>1, <2>2 DEF ChangePhone, TypeOK
<1>5. ASSUME NEW p \in People, NEW e \in Emails, Readdress(p, e) PROVE TypeOK'
  BY <1>5 DEF Readdress, TypeOK
<1>6. CASE UNCHANGED vars
  BY <1>6 DEF vars, TypeOK
<1> QED
  BY <1>1, <1>2, <1>3, <1>4, <1>5, <1>6, FlowStepTypeOK, CallStepTypeOK DEF Next

(* The state every call and callback finds has the values it may have.       *)
THEOREM TypeCorrect == Spec => []TypeOK
  BY InitTypeOK, StepTypeOK, PTL DEF Spec

-----------------------------------------------------------------------------
(* What a step leaves alone                                                  *)

(* Only a flow's own steps move it, and only they hand out keys and sessions. *)
LEMMA FlowsMoveThemselves ==
  ASSUME [Next]_vars
  PROVE  \/ \E f \in Flows : FlowStep(f)
         \/ UNCHANGED <<cookie, flow, given>> /\ keys' \subseteq keys
  BY DEF Next, CallStep, CompleteRead, CompleteBurn, Consumes, GetDel,
         RegisterRead, Insert, Crash, Expire, AdminUpdate, AdminDelete,
         ChangePhone, Readdress, vars

LEMMA FlowStepsLeaveRows ==
  ASSUME NEW f \in Flows, FlowStep(f)
  PROVE  UNCHANGED <<users, call, crossed>>
  BY DEF FlowStep, Begin, Callback, CallbackLate, Identify, CallbackFails,
         FindAccount, FindEmail, IssueExchange, Exchange

(* A flow that has ended is never opened again, nor given another key.       *)
LEMMA EndedStands ==
  ASSUME TypeOK, [Next]_vars, NEW f \in Flows, flow[f].step = "ended"
  PROVE  /\ flow'[f] = flow[f]
         /\ \A k : <<k, f>> \notin keys => <<k, f>> \notin keys'
<1>1. ASSUME NEW g \in Flows, FlowStep(g)
      PROVE  /\ flow'[f] = flow[f]
             /\ \A k : <<k, f>> \notin keys => <<k, f>> \notin keys'
  <2> USE DEF TypeOK
  <2>1. ASSUME NEW b \in Browsers,
               Begin(b, g) \/ Callback(b, g) \/ CallbackLate(b, g)
        PROVE  /\ flow'[f] = flow[f]
               /\ \A k : <<k, f>> \notin keys => <<k, f>> \notin keys'
    BY <2>1 DEF Begin, Callback, CallbackLate
  <2>2. ASSUME NEW p \in People, Identify(g, p)
        PROVE  flow'[f] = flow[f] /\ keys' = keys
    BY <2>2 DEF Identify
  <2>3. CASE CallbackFails(g) \/ FindAccount(g)
    BY <2>3 DEF CallbackFails, FindAccount
  <2>4. CASE FindEmail(g) \/ IssueExchange(g)
    BY <2>4 DEF FindEmail, IssueExchange
  <2>5. ASSUME NEW b \in Browsers, Exchange(b, g)
        PROVE  flow' = flow /\ keys' \subseteq keys
    BY <2>5 DEF Exchange, GetDel
  <2> QED
    BY <1>1, <2>1, <2>2, <2>3, <2>4, <2>5 DEF FlowStep
<1> QED
  BY <1>1, FlowsMoveThemselves

(* A row that was inserted keeps its call, its email and its link, also when *)
(* it is deleted.                                                            *)
LEMMA CreatedStands ==
  ASSUME TypeOK, [Next]_vars, NEW u \in Calls, Created(u)
  PROVE  /\ call'[u] = call[u]
         /\ users'[u].email = users[u].email
         /\ users'[u].sub = users[u].sub
<1> USE DEF Created, TypeOK
<1>1. ASSUME NEW c \in Calls, CallStep(c)
      PROVE  call'[u] = call[u] /\ users'[u] = users[u]
  BY <1>1 DEF CallStep, CompleteRead, CompleteBurn, RegisterRead, Insert, Crash,
              UnderWay
<1>2. ASSUME NEW d \in Calls, NEW x, NEW y, AdminUpdate(d, x, y)
      PROVE  /\ call'[u] = call[u]
             /\ users'[u].email = users[u].email /\ users'[u].sub = users[u].sub
  BY <1>2 DEF AdminUpdate, Row
<1>3. ASSUME NEW d \in Calls, AdminDelete(d)
      PROVE  /\ call'[u] = call[u]
             /\ users'[u].email = users[u].email /\ users'[u].sub = users[u].sub
  BY <1>3 DEF AdminDelete, Row
<1>4. ASSUME NEW d \in Calls, NEW p, ChangePhone(d, p)
      PROVE  /\ call'[u] = call[u]
             /\ users'[u].email = users[u].email /\ users'[u].sub = users[u].sub
  BY <1>4 DEF ChangePhone, Row
<1>5. CASE UNCHANGED <<users, call>>
  BY <1>5
<1> QED
  BY <1>1, <1>2, <1>3, <1>4, <1>5, FlowStepsLeaveRows DEF Next, Expire, Readdress, vars

-----------------------------------------------------------------------------
(* One browser                                                               *)

(* The cookie of a browser is of a flow it began; the callback goes on only  *)
(* in the browser that has it.                                               *)
CookiesAreOwn ==
    \A b \in Browsers : cookie[b] # Nobody =>
        LET f == cookie[b]
        IN flow[f].step = "ended" \/ (flow[f].step # "idle" /\ flow[f].by = b)

PastCallback == {"identity", "account", "email", "issue"}

OwnBrowser(f) == flow[f].via # Nobody /\ flow[f].by = flow[f].via

BrowserInv ==
    /\ CookiesAreOwn
    /\ \A f \in Flows : flow[f].step \in PastCallback => OwnBrowser(f)
    /\ \A f \in Flows, k \in {"exchange", "onboarding"} :
           <<k, f>> \in keys => flow[f].step = "ended" /\ OwnBrowser(f)

LEMMA BrowserInit == Init => BrowserInv
  BY DEF Init, BrowserInv, CookiesAreOwn, NoFlow, PastCallback

LEMMA BrowserStep == TypeOK /\ BrowserInv /\ [Next]_vars => BrowserInv'
<1> SUFFICES ASSUME TypeOK, BrowserInv, [Next]_vars PROVE BrowserInv'
  OBVIOUS
<1> USE DEF TypeOK, BrowserInv, CookiesAreOwn, PastCallback, OwnBrowser
<1>1. ASSUME NEW f \in Flows, NEW b \in Browsers, Begin(b, f) PROVE BrowserInv'
  <2>1. CookiesAreOwn'
    BY <1>1, NobodyAssumption DEF Begin
  <2>2. \A g \in Flows : flow'[g].step \in PastCallback => OwnBrowser(g)'
    BY <1>1 DEF Begin
  <2>3. \A g \in Flows, k \in {"exchange", "onboarding"} :
           <<k, g>> \in keys' => <<k, g>> \in keys /\ g # f
    BY <1>1 DEF Begin
  <2> QED
    BY <1>1, <2>1, <2>2, <2>3 DEF Begin
<1>2. ASSUME NEW f \in Flows, NEW b \in Browsers, Callback(b, f) PROVE BrowserInv'
  <2>1. \A g \in Flows \ {f} : flow'[g] = flow[g]
    BY <1>2 DEF Callback
  <2>2. keys' \subseteq keys /\ flow[f].step = "google"
    BY <1>2 DEF Callback
  <2>3. CASE BindMatches(b, f)
    <3>1. cookie[b] = f /\ cookie[b] # Nobody /\ b # Nobody
      BY <2>3, NobodyAssumption DEF BindMatches
    <3>2. flow[f].by = b
      BY <2>2, <3>1
    <3>3. /\ flow'[f].step = "identity" /\ flow'[f].via = b /\ flow'[f].by = b
          /\ cookie' = cookie
      BY <1>2, <2>3, <3>2 DEF Callback, Flow
    <3>4. CookiesAreOwn'
      BY <2>1, <2>2, <3>2, <3>3, NobodyAssumption
    <3> QED
      BY <2>1, <2>2, <3>1, <3>3, <3>4
  <2>4. CASE ~BindMatches(b, f)
    <3>1. flow'[f].step = "ended"
      BY <1>2, <2>4 DEF Callback, Refused, NoFlow
    <3>2. \A d \in Browsers : cookie'[d] \in {cookie[d], Nobody}
      BY <1>2, <2>4 DEF Callback, Answer
    <3>3. CookiesAreOwn'
      BY <2>1, <3>1, <3>2, NobodyAssumption
    <3> QED
      BY <2>1, <2>2, <3>1, <3>3
  <2> QED
    BY <2>3, <2>4
<1>3. ASSUME NEW f \in Flows, NEW b \in Browsers, CallbackLate(b, f)
      PROVE  BrowserInv'
  BY <1>3 DEF CallbackLate, Answer
(* A later step of a flow keeps who began it and where it came back.         *)
<1>4. ASSUME NEW f \in Flows, flow[f].step \in PastCallback,
             flow'[f].step \in PastCallback \cup {"ended"},
             \/ flow'[f].step = "ended" /\ keys' = keys
             \/ /\ flow'[f].by = flow[f].by /\ flow'[f].via = flow[f].via
                /\ keys' = keys \/
                     /\ flow'[f].step = "ended"
                     /\ keys' \subseteq keys \cup {<<"exchange", f>>, <<"onboarding", f>>},
             \A g \in Flows \ {f} : flow'[g] = flow[g],
             \A d \in Browsers : cookie'[d] \in {cookie[d], Nobody}
      PROVE  BrowserInv'
  <2>1. CookiesAreOwn'
    BY <1>4, NobodyAssumption
  <2>2. \A g \in Flows : flow'[g].step \in PastCallback => OwnBrowser(g)'
    BY <1>4
  <2>3. ASSUME NEW g \in Flows, NEW k \in {"exchange", "onboarding"},
               <<k, g>> \in keys'
        PROVE  flow'[g].step = "ended" /\ OwnBrowser(g)'
    <3>1. CASE g = f
      BY <1>4, <2>3, <3>1
    <3>2. CASE g # f
      BY <1>4, <2>3, <3>2
    <3> QED
      BY <3>1, <3>2
  <2> QED
    BY <2>1, <2>2, <2>3
<1>5. ASSUME NEW f \in Flows, NEW p \in People, Identify(f, p) PROVE BrowserInv'
  BY <1>4, <1>5 DEF Identify, Flow
<1>6. ASSUME NEW f \in Flows, CallbackFails(f) PROVE BrowserInv'
  BY <1>4, <1>6 DEF CallbackFails, Refused, NoFlow, Answer
<1>7. ASSUME NEW f \in Flows, FindAccount(f) PROVE BrowserInv'
  BY <1>4, <1>7 DEF FindAccount, Refused, NoFlow, Answer, Flow
<1>8. ASSUME NEW f \in Flows, FindEmail(f) PROVE BrowserInv'
  BY <1>4, <1>8 DEF FindEmail, Refused, NoFlow, Answer, Flow
<1>9. ASSUME NEW f \in Flows, IssueExchange(f) PROVE BrowserInv'
  BY <1>4, <1>9 DEF IssueExchange, Answer, Flow
<1>10. CASE UNCHANGED <<cookie, flow>> /\ keys' \subseteq keys
  BY <1>10
<1>11. ASSUME NEW f \in Flows, NEW b \in Browsers, Exchange(b, f)
       PROVE  BrowserInv'
  BY <1>10, <1>11 DEF Exchange, GetDel
<1> QED
  BY <1>1, <1>2, <1>3, <1>5, <1>6, <1>7, <1>8, <1>9, <1>10, <1>11,
     FlowsMoveThemselves
  DEF FlowStep

(* What became of a flow's code or token was begun in its browser as well.   *)
Used(f) == given[f] # Nobody \/ \E c \in Calls : call[c].flow = f

UsedInv == \A f \in Flows : Used(f) => flow[f].step = "ended" /\ OwnBrowser(f)

LEMMA UsedInit == Init => UsedInv
  BY NobodyAssumption DEF Init, UsedInv, Used, NoCall

LEMMA UsedStep == TypeOK /\ BrowserInv /\ UsedInv /\ [Next]_vars => UsedInv'
<1> SUFFICES ASSUME TypeOK, BrowserInv, UsedInv, [Next]_vars,
                    NEW f \in Flows, Used(f)'
             PROVE  flow'[f].step = "ended" /\ OwnBrowser(f)'
  BY DEF UsedInv
<1>1. Used(f) \/ \E k \in {"exchange", "onboarding"} : <<k, f>> \in keys
  <2>1. ASSUME NEW g \in Flows, FlowStep(g), given'[f] # given[f]
        PROVE  <<"exchange", f>> \in keys
    BY <2>1 DEF FlowStep, Begin, Callback, CallbackLate, Identify, CallbackFails,
                FindAccount, FindEmail, IssueExchange, Exchange, TypeOK
  <2>2. ASSUME NEW c \in Calls, CallStep(c), NEW d \in Calls, call'[d].flow = f
        PROVE  call[d].flow = f \/ <<"onboarding", f>> \in keys
    <3> USE DEF TypeOK
    <3>1. ASSUME NEW p, NEW g \in Flows, CompleteRead(c, g, p)
          PROVE  call[d].flow = f \/ <<"onboarding", f>> \in keys
      BY <2>2, <3>1 DEF CompleteRead
    <3>2. ASSUME NEW e, NEW p, RegisterRead(c, e, p)
          PROVE  call[d].flow = f
      BY <2>2, <3>2, NobodyAssumption DEF RegisterRead
    <3>3. ASSUME NEW to, call' = [call EXCEPT ![c].step = to]
          PROVE  call[d].flow = f
      BY <2>2, <3>3 DEF Call
    <3> QED
      BY <2>2, <3>1, <3>2, <3>3
      DEF CallStep, CompleteBurn, Consumes, GetDel, Insert, Crash
  <2>3. CASE \E g \in Flows : FlowStep(g)
    BY <2>1, <2>3, FlowStepsLeaveRows DEF Used
  <2>4. CASE UNCHANGED given /\ \E c \in Calls : CallStep(c)
    BY <2>2, <2>4 DEF Used
  <2>5. CASE UNCHANGED <<given, call>>
    BY <2>5 DEF Used
  <2> QED
    BY <2>3, <2>4, <2>5, FlowsMoveThemselves
    DEF Next, Expire, AdminUpdate, AdminDelete, ChangePhone, Readdress, vars
<1>2. flow[f].step = "ended" /\ OwnBrowser(f)
  BY <1>1 DEF UsedInv, BrowserInv
<1> QED
  BY <1>2, EndedStands DEF OwnBrowser

-----------------------------------------------------------------------------
(* One account                                                               *)

PastToken(c) == call[c].step \in {"insert", "created", "conflict"}

(* A call works for a flow that has ended; the one that consumed its token   *)
(* is the only one past it, and the token is not there any more.             *)
TokenInv ==
    /\ \A c \in Calls : call[c].flow # Nobody =>
           /\ flow[call[c].flow].step = "ended"
           /\ PastToken(c) => <<"onboarding", call[c].flow>> \notin keys
    /\ \A c, d \in Calls :
           PastToken(c) /\ PastToken(d) /\ call[c].flow # Nobody
               /\ call[c].flow = call[d].flow => c = d

LEMMA TokenInit == Init => TokenInv
  BY DEF Init, TokenInv, PastToken, NoCall

LEMMA TokenStep == TypeOK /\ BrowserInv /\ TokenInv /\ [Next]_vars => TokenInv'
<1> SUFFICES ASSUME TypeOK, BrowserInv, TokenInv, [Next]_vars PROVE TokenInv'
  OBVIOUS
<1> USE DEF TypeOK, TokenInv, PastToken
(* What a call relied on still holds, whoever moved.                         *)
<1>1. ASSUME NEW c \in Calls, call[c].flow # Nobody
      PROVE  /\ flow'[call[c].flow].step = "ended"
             /\ <<"onboarding", call[c].flow>> \notin keys
                    => <<"onboarding", call[c].flow>> \notin keys'
  <2>1. call[c].flow \in Flows
    BY <1>1 DEF Call
  <2> QED
    BY <1>1, <2>1, EndedStands
(* A call that changes no flow and does not come past a token.               *)
<1>2. ASSUME \A c \in Calls :
                 call'[c].flow = call[c].flow /\ (PastToken(c)' => PastToken(c))
      PROVE  TokenInv'
  BY <1>1, <1>2
<1>3. CASE UNCHANGED call
  BY <1>2, <1>3
<1>4. ASSUME NEW c \in Calls, NEW f \in Flows, NEW p, CompleteRead(c, f, p)
      PROVE  TokenInv'
  <2>1. /\ call'[c].flow = f /\ ~PastToken(c)'
        /\ \A d \in Calls \ {c} : call'[d] = call[d]
    BY <1>4 DEF CompleteRead
  <2>2. flow'[f].step = "ended"
    BY <1>4 DEF CompleteRead, BrowserInv
  <2> QED
    BY <1>1, <2>1, <2>2
<1>5. ASSUME NEW c \in Calls, NEW e, NEW p, RegisterRead(c, e, p) PROVE TokenInv'
  <2>1. /\ call'[c].flow = Nobody
        /\ \A d \in Calls \ {c} : call'[d] = call[d]
    BY <1>5 DEF RegisterRead
  <2> QED
    BY <1>1, <2>1
<1>6. ASSUME NEW c \in Calls, CompleteBurn(c) PROVE TokenInv'
  <2>1. CASE Consumes(c) /\ call' = [call EXCEPT ![c].step = "insert"]
    <3>1. /\ <<"onboarding", call[c].flow>> \in keys
          /\ <<"onboarding", call[c].flow>> \notin keys'
      BY <2>1 DEF Consumes, GetDel
    <3>2. /\ call'[c].flow = call[c].flow
          /\ \A d \in Calls \ {c} : call'[d] = call[d]
      BY <2>1 DEF Call
    <3>3. \A d \in Calls : PastToken(d) /\ d # c =>
            call[d].flow # call[c].flow \/ call[d].flow = Nobody
      BY <3>1
    <3>4. ASSUME NEW a \in Calls, call'[a].flow # Nobody
          PROVE  /\ flow'[call'[a].flow].step = "ended"
                 /\ PastToken(a)' => <<"onboarding", call'[a].flow>> \notin keys'
      <4>1. call'[a].flow = call[a].flow
        BY <3>2
      <4>2. flow'[call'[a].flow].step = "ended"
        BY <1>1, <3>4, <4>1
      <4>3. CASE a = c
        BY <3>1, <4>1, <4>2, <4>3
      <4>4. CASE a # c
        BY <1>1, <3>2, <3>4, <4>1, <4>2, <4>4
      <4> QED
        BY <4>3, <4>4
    <3>5. ASSUME NEW a \in Calls, NEW d \in Calls, PastToken(a)', PastToken(d)',
                 call'[a].flow # Nobody, call'[a].flow = call'[d].flow
          PROVE  a = d
      BY <3>2, <3>3, <3>5
    <3> QED
      BY <3>4, <3>5
  <2>2. CASE call' = [call EXCEPT ![c].step = "ended"]
    BY <1>2, <2>2 DEF Call
  <2> QED
    BY <1>6, <2>1, <2>2 DEF CompleteBurn
<1>7. ASSUME NEW c \in Calls, Insert(c) \/ Crash(c) PROVE TokenInv'
  <2>1. \A d \in Calls :
            call'[d].flow = call[d].flow /\ (PastToken(d)' => PastToken(d))
    BY <1>7 DEF Insert, Crash, Call
  <2> QED
    BY <1>2, <2>1
<1> QED
  BY <1>3, <1>4, <1>5, <1>6, <1>7, FlowStepsLeaveRows
  DEF Next, CallStep, Expire, AdminUpdate, AdminDelete, ChangePhone, Readdress, vars

-----------------------------------------------------------------------------
(* One user                                                                  *)

(* A live row is one that its call inserted, with the email and the account  *)
(* of Google that call came with.                                            *)
RowsAreTheirCalls ==
    \A u \in Calls :
        /\ Live(u) => Created(u)
        /\ Created(u) => /\ users[u].email = call[u].email
                         /\ users[u].sub = SubOf(u)

RowInv == RowsAreTheirCalls /\ OnePersonOneUser

LEMMA RowInit == Init => RowInv
  BY DEF Init, RowInv, RowsAreTheirCalls, OnePersonOneUser, Live, Created, NoRow,
         NoCall

(* The account of Google a call works for stays what it was.                 *)
LEMMA SubStands ==
  ASSUME TypeOK, TokenInv, [Next]_vars, NEW c \in Calls,
         call'[c].flow = call[c].flow
  PROVE  SubOf(c)' = SubOf(c)
<1>1. CASE call[c].flow = Nobody
  BY <1>1 DEF SubOf
<1>2. CASE call[c].flow # Nobody
  <2>1. call[c].flow \in Flows /\ flow[call[c].flow].step = "ended"
    BY <1>2 DEF TypeOK, Call, TokenInv
  <2> QED
    BY <1>2, <2>1, EndedStands DEF SubOf
<1> QED
  BY <1>1, <1>2

LEMMA RowStep == TypeOK /\ TokenInv /\ RowInv /\ [Next]_vars => RowInv'
<1> SUFFICES ASSUME TypeOK, TokenInv, RowInv, [Next]_vars PROVE RowInv'
  OBVIOUS
<1>1. ASSUME NEW u \in Calls, Created(u)
      PROVE  /\ Created(u)'
             /\ users'[u].email = call'[u].email /\ users'[u].sub = SubOf(u)'
  BY <1>1, CreatedStands, SubStands DEF RowInv, RowsAreTheirCalls, Created
(* Nobody is inserted, and no live row gets a phone.                         *)
<1>2. ASSUME \A u \in Calls : Created(u)' => Created(u),
             \A u \in Calls : users'[u].live => Live(u) /\ users'[u].phone = users[u].phone
      PROVE  RowInv'
  <2>1. RowsAreTheirCalls'
    BY <1>1, <1>2 DEF RowInv, RowsAreTheirCalls, Live
  <2>2. OnePersonOneUser'
    BY <1>2, CreatedStands DEF RowInv, RowsAreTheirCalls, OnePersonOneUser, Live
  <2> QED
    BY <2>1, <2>2 DEF RowInv
<1>3. CASE UNCHANGED <<users, call>>
  BY <1>2, <1>3 DEF Live, Created
<1>4. ASSUME NEW c \in Calls,
             \/ \E p \in Phones \cup {Nobody} :
                    \/ \E f \in Flows : CompleteRead(c, f, p)
                    \/ \E e \in Emails : RegisterRead(c, e, p)
             \/ CompleteBurn(c) \/ Crash(c)
      PROVE  RowInv'
  <2>1. /\ users' = users
        /\ \A u \in Calls \ {c} : call'[u] = call[u]
    BY <1>4 DEF CompleteRead, RegisterRead, CompleteBurn, Crash, TypeOK
  <2>2. call'[c].step # "created"
    <3>1. ASSUME NEW p, NEW f, CompleteRead(c, f, p) PROVE call'[c].step = "burn"
      BY <3>1 DEF CompleteRead, TypeOK
    <3>2. ASSUME NEW p, NEW e, RegisterRead(c, e, p) PROVE call'[c].step = "insert"
      BY <3>2 DEF RegisterRead, TypeOK
    <3>3. CASE CompleteBurn(c)
      BY <3>3 DEF CompleteBurn, TypeOK, Call
    <3>4. CASE Crash(c)
      BY <3>4 DEF Crash, TypeOK, Call
    <3> QED
      BY <1>4, <3>1, <3>2, <3>3, <3>4
  <2>3. \A u \in Calls : Created(u)' => Created(u)
    BY <2>1, <2>2 DEF Created
  <2> QED
    BY <1>2, <2>1, <2>3 DEF Live
<1>5. ASSUME NEW c \in Calls, Insert(c) PROVE RowInv'
  <2>1. ~Live(c) /\ call[c].step = "insert"
    BY <1>5 DEF Insert, RowInv, RowsAreTheirCalls, Created
  <2>2. CASE ~Unique(c)
    <3>1. users' = users /\ \A u \in Calls : Created(u)' => Created(u)
      BY <1>5, <2>2 DEF Insert, Created, TypeOK, Call
    <3> QED
      BY <1>2, <3>1 DEF Live
  <2>3. CASE Unique(c)
    <3>1. /\ users'[c].email = call[c].email /\ users'[c].phone = call[c].phone
          /\ users'[c].sub = SubOf(c)
          /\ call'[c].flow = call[c].flow /\ call'[c].email = call[c].email
          /\ call'[c].step = "created"
          /\ \A d \in Calls \ {c} : call'[d] = call[d] /\ users'[d] = users[d]
      BY <1>5, <2>3 DEF Insert, TypeOK, Call
    <3>2. users'[c].sub = SubOf(c)'
      BY <3>1, SubStands
    <3>3. RowsAreTheirCalls'
      <4> SUFFICES ASSUME NEW u \in Calls
                   PROVE  /\ Live(u)' => Created(u)'
                          /\ Created(u)' => /\ users'[u].email = call'[u].email
                                            /\ users'[u].sub = SubOf(u)'
        BY DEF RowsAreTheirCalls
      <4>1. CASE u = c
        BY <3>1, <3>2, <4>1 DEF Created
      <4>2. CASE u # c
        <5>1. /\ Live(u)' <=> Live(u)
              /\ Created(u)' <=> Created(u)
          BY <3>1, <4>2 DEF Live, Created
        <5> QED
          BY <1>1, <5>1 DEF RowInv, RowsAreTheirCalls
      <4> QED
        BY <4>1, <4>2
    <3>4. ASSUME NEW d \in Calls, d # c, Live(d)
          PROVE  /\ users[d].email # call[c].email
                 /\ call[c].phone = Nobody \/ users[d].phone # call[c].phone
                 /\ SubOf(c) = Nobody \/ users[d].sub # SubOf(c)
      BY <2>3, <3>4 DEF Unique, EmailTaken, PhoneTaken, OwnersOf
    <3>5. OnePersonOneUser'
      <4> SUFFICES ASSUME NEW a \in Calls, NEW d \in Calls, Live(a)', Live(d)', a # d
                   PROVE  /\ users'[a].email # users'[d].email
                          /\ users'[a].phone = Nobody \/ users'[a].phone # users'[d].phone
                          /\ users'[a].sub = Nobody \/ users'[a].sub # users'[d].sub
        BY DEF OnePersonOneUser
      <4>1. CASE a = c
        BY <3>1, <3>4, <4>1 DEF Live
      <4>2. CASE d = c
        BY <3>1, <3>4, <4>2 DEF Live
      <4>3. CASE a # c /\ d # c
        BY <3>1, <4>3 DEF Live, RowInv, OnePersonOneUser
      <4> QED
        BY <4>1, <4>2, <4>3
    <3> QED
      BY <3>3, <3>5 DEF RowInv
  <2> QED
    BY <2>2, <2>3
<1>6. ASSUME NEW u \in Calls, NEW x, NEW y, AdminUpdate(u, x, y) PROVE RowInv'
  BY <1>2, <1>6 DEF AdminUpdate, Live, Created, TypeOK, Row
<1>7. ASSUME NEW u \in Calls, AdminDelete(u) PROVE RowInv'
  BY <1>2, <1>7 DEF AdminDelete, Live, Created, TypeOK, Row
<1>8. ASSUME NEW u \in Calls, NEW p, ChangePhone(u, p) PROVE RowInv'
  <2>1. /\ \A d \in Calls \ {u} : users'[d] = users[d]
        /\ users'[u].phone = p /\ users'[u].live = users[u].live
        /\ users'[u].email = users[u].email /\ users'[u].sub = users[u].sub
        /\ call' = call /\ Live(u)
    BY <1>8 DEF ChangePhone, TypeOK, Row
  <2>2. \A d \in Calls : Live(d) => p = Nobody \/ users[d].phone # p
    BY <1>8 DEF ChangePhone, PhoneTaken
  <2>3. RowsAreTheirCalls'
    <3>1. \A d \in Calls : (Live(d)' <=> Live(d)) /\ (Created(d)' <=> Created(d))
      BY <2>1 DEF Live, Created
    <3> QED
      BY <1>1, <3>1 DEF RowInv, RowsAreTheirCalls
  <2>4. OnePersonOneUser'
    BY <2>1, <2>2 DEF RowInv, OnePersonOneUser, Live
  <2> QED
    BY <2>3, <2>4 DEF RowInv
<1> QED
  BY <1>3, <1>4, <1>5, <1>6, <1>7, <1>8, FlowStepsLeaveRows
  DEF Next, CallStep, Expire, Readdress, vars

(* However registrations, links, updates and deletions overlap, one token    *)
(* makes one account, and no two users share an email, a phone or a person.  *)
THEOREM AccountsStaySingle == Spec => []AccountsAreSingle
<1>1. TokenInv => OneAccountPerToken
  BY DEF TokenInv, PastToken, OneAccountPerToken, Created
<1> QED
  BY <1>1, InitTypeOK, StepTypeOK, BrowserInit, BrowserStep, TokenInit, TokenStep,
     RowInit, RowStep, PTL
  DEF Spec, AccountsAreSingle, RowInv

-----------------------------------------------------------------------------
(* One session                                                               *)

(* The user a flow leads to was created with the flow's account of Google.   *)
LeadsToItsOwner(f) ==
    /\ flow[f].user \in Calls
    /\ Created(flow[f].user)
    /\ users[flow[f].user].sub = flow[f].sub

HandedOut(f) == <<"exchange", f>> \in keys \/ given[f] # Nobody

SessionInv == \A f \in Flows :
    /\ flow[f].step = "issue" => LeadsToItsOwner(f)
    /\ HandedOut(f) => flow[f].step = "ended" /\ LeadsToItsOwner(f)
    /\ <<"exchange", f>> \in keys => given[f] = Nobody

LEMMA SessionInit == Init => SessionInv
  BY DEF Init, SessionInv, NoFlow, HandedOut

LEMMA SessionStep == TypeOK /\ RowInv /\ SessionInv /\ [Next]_vars => SessionInv'
<1> SUFFICES ASSUME TypeOK, RowInv, SessionInv, [Next]_vars PROVE SessionInv'
  OBVIOUS
<1> USE DEF TypeOK, SessionInv, HandedOut
(* Who a flow leads to stays who he is.                                      *)
<1>1. ASSUME NEW f \in Flows, LeadsToItsOwner(f),
             flow'[f].user = flow[f].user, flow'[f].sub = flow[f].sub
      PROVE  LeadsToItsOwner(f)'
  BY <1>1, CreatedStands DEF LeadsToItsOwner, Created
<1>2. ASSUME NEW f \in Flows,
             flow'[f].step # "issue",
             HandedOut(f) => flow'[f] = flow[f],
             <<"exchange", f>> \in keys' => <<"exchange", f>> \in keys,
             given'[f] = given[f],
             \A g \in Flows \ {f} :
                 /\ flow'[g] = flow[g] /\ given'[g] = given[g]
                 /\ <<"exchange", g>> \in keys' => <<"exchange", g>> \in keys
      PROVE  SessionInv'
  BY <1>1, <1>2
<1>3. CASE UNCHANGED <<flow, given>> /\ keys' \subseteq keys
  BY <1>1, <1>3
<1>4. ASSUME NEW f \in Flows, NEW b \in Browsers, Begin(b, f) PROVE SessionInv'
  <2>1. flow'[f].step = "google" /\ flow[f].step = "idle"
    BY <1>4 DEF Begin, Flow
  <2>2. /\ \A g \in Flows \ {f} : flow'[g] = flow[g]
        /\ given' = given /\ keys' = keys \cup {<<"state", f>>}
    BY <1>4 DEF Begin
  <2> QED
    BY <1>2, <2>1, <2>2
<1>5. ASSUME NEW f \in Flows, NEW b \in Browsers, Callback(b, f) PROVE SessionInv'
  <2>1. flow'[f].step # "issue" /\ flow[f].step = "google"
    BY <1>5 DEF Callback, Refused, NoFlow, Flow
  <2> QED
    BY <1>2, <1>5, <2>1 DEF Callback
<1>6. ASSUME NEW f \in Flows, NEW b \in Browsers, CallbackLate(b, f)
      PROVE  SessionInv'
  BY <1>3, <1>6 DEF CallbackLate
<1>7. ASSUME NEW f \in Flows, NEW p \in People, Identify(f, p) PROVE SessionInv'
  <2>1. flow'[f].step = "account" /\ flow[f].step = "identity"
    BY <1>7 DEF Identify, Flow
  <2>2. UNCHANGED <<given, keys>> /\ \A g \in Flows \ {f} : flow'[g] = flow[g]
    BY <1>7 DEF Identify
  <2> QED
    BY <1>2, <2>1, <2>2
<1>8. ASSUME NEW f \in Flows, CallbackFails(f) PROVE SessionInv'
  <2>1. flow[f].step # "ended" /\ ~HandedOut(f)
    BY <1>8 DEF CallbackFails
  <2>2. flow'[f].step # "issue" /\ UNCHANGED <<given, keys>>
    BY <1>8 DEF CallbackFails, Refused, NoFlow
  <2>3. \A g \in Flows \ {f} : flow'[g] = flow[g]
    BY <1>8 DEF CallbackFails
  <2> QED
    BY <1>2, <2>1, <2>2, <2>3
<1>9. ASSUME NEW f \in Flows, FindAccount(f) PROVE SessionInv'
  <2>1. CASE flow'[f].step # "issue"
    BY <1>2, <1>9, <2>1 DEF FindAccount
  <2>2. CASE flow'[f].step = "issue"
    <3>1. PICK u \in Linked(f) :
              flow' = [flow EXCEPT ![f].step = "issue", ![f].user = u]
      BY <1>9, <2>2 DEF FindAccount, Refused, NoFlow, Flow
    <3>2. u \in Calls /\ Created(u) /\ users[u].sub = flow[f].sub
      BY <3>1 DEF Linked, OwnersOf, RowInv, RowsAreTheirCalls
    <3>3. /\ flow'[f].user = u /\ flow'[f].sub = flow[f].sub
          /\ \A g \in Flows \ {f} : flow'[g] = flow[g]
      BY <3>1 DEF Flow
    <3>4. UNCHANGED <<keys, given, users, call>> /\ ~HandedOut(f)
      BY <1>9 DEF FindAccount
    <3>5. LeadsToItsOwner(f)'
      BY <3>2, <3>3, <3>4 DEF LeadsToItsOwner, Created
    <3> QED
      BY <1>1, <3>3, <3>4, <3>5
  <2> QED
    BY <2>1, <2>2
<1>10. ASSUME NEW f \in Flows, FindEmail(f) PROVE SessionInv'
  <2>1. flow[f].step = "email" /\ ~HandedOut(f) /\ given' = given
    BY <1>10 DEF FindEmail
  <2>2. \A g \in Flows \ {f} : flow'[g] = flow[g]
    BY <1>10 DEF FindEmail
  <2>3. flow'[f].step # "issue"
    BY <1>10 DEF FindEmail, Refused, NoFlow, Flow
  <2>4. \A g \in Flows : <<"exchange", g>> \in keys' => <<"exchange", g>> \in keys
    BY <1>10 DEF FindEmail
  <2> QED
    BY <1>2, <2>1, <2>2, <2>3, <2>4
<1>11. ASSUME NEW f \in Flows, IssueExchange(f) PROVE SessionInv'
  <2>1. /\ flow[f].step = "issue" /\ flow'[f].step = "ended"
        /\ flow'[f].user = flow[f].user /\ flow'[f].sub = flow[f].sub
        /\ given' = given /\ keys' = keys \cup {<<"exchange", f>>}
        /\ \A g \in Flows \ {f} : flow'[g] = flow[g]
    BY <1>11 DEF IssueExchange, Flow
  <2>2. given[f] = Nobody
    BY <2>1
  <2>3. LeadsToItsOwner(f)'
    BY <1>1, <2>1
  <2> QED
    BY <1>1, <2>1, <2>2, <2>3
<1>12. ASSUME NEW f \in Flows, NEW b \in Browsers, Exchange(b, f)
       PROVE  SessionInv'
  <2>1. /\ flow' = flow /\ HandedOut(f) /\ \A g \in Flows \ {f} : given'[g] = given[g]
        /\ keys' \subseteq keys /\ <<"exchange", f>> \notin keys'
    BY <1>12 DEF Exchange, GetDel
  <2> QED
    BY <1>1, <2>1
<1> QED
  BY <1>3, <1>4, <1>5, <1>6, <1>7, <1>8, <1>9, <1>10, <1>11, <1>12,
     FlowsMoveThemselves
  DEF FlowStep

LEMMA SessionsOfOwners == TypeOK /\ SessionInv => SessionsAreTheOwners
  BY DEF TypeOK, SessionInv, HandedOut, LeadsToItsOwner, SessionsAreTheOwners

LEMMA FlowsOfOneBrowser == BrowserInv /\ UsedInv => IssuedWhereBegun
  BY DEF BrowserInv, UsedInv, Used, OwnBrowser, LedSomewhere, IssuedWhereBegun

(* The session of a sign-in is of the user created with its account of       *)
(* Google, its code was issued in the browser that began it, and it is       *)
(* handed out once.                                                          *)
THEOREM SessionsAreHandedOutOnce == Spec => []SessionsAreOfOneHand
  BY InitTypeOK, StepTypeOK, BrowserInit, BrowserStep, UsedInit, UsedStep,
     TokenInit, TokenStep, RowInit, RowStep, SessionInit, SessionStep,
     SessionsOfOwners, FlowsOfOneBrowser, PTL
  DEF Spec, SessionsAreOfOneHand

-----------------------------------------------------------------------------
(* Consumed tokens                                                           *)

(* What a call checked still holds at its insert, unless another one's       *)
(* commit overtook it.                                                       *)
ChecksStillHold ==
    \A c \in UnderWay \ crossed : Available(call[c].email, call[c].phone)

LinkedBefore(c) ==
    \E u \in Calls : /\ Created(u) /\ SubOf(u) # Nobody
                     /\ SubOf(u) = SubOf(c)
                     /\ call[u].email # call[c].email

ConflictInv == ChecksStillHold /\ BurntNeedsAReason

LEMMA ConflictInit == Init => ConflictInv
  BY DEF Init, ConflictInv, ChecksStillHold, BurntNeedsAReason, UnderWay, NoCall

LEMMA ConflictStep ==
  TypeOK /\ TokenInv /\ RowInv /\ ConflictInv /\ [Next]_vars => ConflictInv'
<1> SUFFICES ASSUME TypeOK, TokenInv, RowInv, ConflictInv, [Next]_vars
             PROVE  ConflictInv'
  OBVIOUS
<1> USE DEF TypeOK
(* A conflict keeps its reason.                                              *)
<1>1. ASSUME NEW c \in Calls, call[c].step = "conflict", call'[c] = call[c],
             crossed \subseteq crossed'
      PROVE  c \in crossed' \/ LinkedBefore(c)'
  <2>1. CASE c \in crossed
    BY <1>1, <2>1
  <2>2. CASE c \notin crossed
    <3>1. PICK u \in Calls : /\ Created(u) /\ SubOf(u) # Nobody
                             /\ SubOf(u) = SubOf(c)
                             /\ call[u].email # call[c].email
      BY <1>1, <2>2 DEF ConflictInv, BurntNeedsAReason
    <3>2. call'[u] = call[u]
      BY <3>1, CreatedStands
    <3>3. SubOf(u)' = SubOf(u) /\ SubOf(c)' = SubOf(c)
      BY <1>1, <3>2, SubStands
    <3> QED
      BY <1>1, <3>1, <3>2, <3>3 DEF LinkedBefore, Created
  <2> QED
    BY <2>1, <2>2
(* A step in which nobody gets a conflict, nor an email or a phone.          *)
<1>2. ASSUME crossed' = crossed,
             \A c \in Calls :
                 \/ call'[c] = call[c]
                 \/ call'[c].step \notin {"burn", "insert", "conflict"}
                 \/ /\ call'[c].step \in {"burn", "insert"}
                    /\ Available(call'[c].email, call'[c].phone) \/ c \in crossed,
             \A u \in Calls : users'[u].live =>
                 Live(u) /\ users'[u].email = users[u].email
                         /\ users'[u].phone = users[u].phone
      PROVE  ConflictInv'
  <2>1. ASSUME NEW c \in UnderWay' \ crossed'
        PROVE  Available(call[c].email, call[c].phone)'
    <3>1. Available(call'[c].email, call'[c].phone)
      BY <1>2, <2>1 DEF UnderWay, ConflictInv, ChecksStillHold
    <3> QED
      BY <1>2, <3>1 DEF Available, EmailTaken, PhoneTaken, Live
  <2>2. ASSUME NEW c \in Calls, call'[c].step = "conflict"
        PROVE  c \in crossed' \/ LinkedBefore(c)'
    <3>1. call'[c] = call[c]
      BY <1>2, <2>2
    <3> QED
      BY <1>1, <1>2, <2>2, <3>1
  <2> QED
    BY <2>1, <2>2 DEF ConflictInv, ChecksStillHold, BurntNeedsAReason, LinkedBefore
<1>3. CASE UNCHANGED <<users, call, crossed>>
  BY <1>2, <1>3 DEF Live
<1>4. ASSUME NEW c \in Calls, NEW f \in Flows, NEW p \in Phones \cup {Nobody},
             CompleteRead(c, f, p)
      PROVE  ConflictInv'
  BY <1>2, <1>4 DEF CompleteRead, Live
<1>5. ASSUME NEW c \in Calls, NEW e \in Emails, NEW p \in Phones \cup {Nobody},
             RegisterRead(c, e, p)
      PROVE  ConflictInv'
  BY <1>2, <1>5 DEF RegisterRead, Live
<1>6. ASSUME NEW c \in Calls, CompleteBurn(c) PROVE ConflictInv'
  <2>1. UNCHANGED <<users, crossed>> /\ call[c].step = "burn"
    BY <1>6 DEF CompleteBurn
  <2>2. /\ \A d \in Calls \ {c} : call'[d] = call[d]
        /\ call'[c].step \in {"insert", "ended"}
        /\ call'[c].email = call[c].email /\ call'[c].phone = call[c].phone
    BY <1>6 DEF CompleteBurn, Call
  <2>3. Available(call[c].email, call[c].phone) \/ c \in crossed
    BY <2>1 DEF ConflictInv, ChecksStillHold, UnderWay
  <2> QED
    BY <1>2, <2>1, <2>2, <2>3 DEF Live
<1>7. ASSUME NEW c \in Calls, Crash(c) PROVE ConflictInv'
  <2>1. UNCHANGED <<users, crossed>>
    BY <1>7 DEF Crash
  <2>2. /\ \A d \in Calls \ {c} : call'[d] = call[d]
        /\ call'[c].step = "ended"
    BY <1>7 DEF Crash, Call, UnderWay
  <2> QED
    BY <1>2, <2>1, <2>2 DEF Live
<1>8. ASSUME NEW c \in Calls, Insert(c) PROVE ConflictInv'
  <2>1. /\ call[c].step = "insert"
        /\ \A d \in Calls \ {c} : call'[d] = call[d]
        /\ call'[c].email = call[c].email /\ call'[c].flow = call[c].flow
    BY <1>8 DEF Insert, Call
  <2>2. CASE Unique(c)
    <3>1. crossed' = crossed \cup (UnderWay \ {c}) /\ call'[c].step = "created"
      BY <1>8, <2>2 DEF Insert, Call
    <3>2. UnderWay' \ crossed' = {}
      BY <2>1, <3>1 DEF UnderWay
    <3>3. ASSUME NEW d \in Calls, call'[d].step = "conflict"
          PROVE  d \in crossed' \/ LinkedBefore(d)'
      BY <1>1, <2>1, <3>1, <3>3
    <3> QED
      BY <3>2, <3>3 DEF ConflictInv, ChecksStillHold, BurntNeedsAReason, LinkedBefore
  <2>3. CASE ~Unique(c)
    <3>1. UNCHANGED <<users, crossed>> /\ call'[c].step = "conflict"
      BY <1>8, <2>3 DEF Insert, Call
    <3>2. c \in crossed' \/ LinkedBefore(c)'
      <4> SUFFICES ASSUME c \notin crossed PROVE LinkedBefore(c)'
        BY <3>1
      <4>1. Available(call[c].email, call[c].phone)
        BY <2>1 DEF ConflictInv, ChecksStillHold, UnderWay
      <4>2. PICK u \in OwnersOf(SubOf(c)) : SubOf(c) # Nobody
        BY <2>3, <4>1 DEF Unique, Available
      <4>3. Created(u) /\ users[u].email = call[u].email /\ SubOf(u) = SubOf(c)
        BY <4>2 DEF OwnersOf, RowInv, RowsAreTheirCalls
      <4>4. call[u].email # call[c].email
        BY <4>1, <4>2, <4>3 DEF OwnersOf, Available, EmailTaken
      <4>5. call'[u] = call[u] /\ SubOf(u)' = SubOf(u) /\ SubOf(c)' = SubOf(c)
        BY <2>1, <4>2, <4>3, CreatedStands, SubStands DEF OwnersOf
      <4> QED
        BY <2>1, <4>2, <4>3, <4>4, <4>5 DEF LinkedBefore, Created, OwnersOf
    <3>3. ASSUME NEW d \in Calls, call'[d].step = "conflict"
          PROVE  d \in crossed' \/ LinkedBefore(d)'
      BY <1>1, <2>1, <3>1, <3>2, <3>3
    <3>4. ASSUME NEW d \in UnderWay' \ crossed'
          PROVE  Available(call[d].email, call[d].phone)'
      BY <2>1, <3>1, <3>4
      DEF UnderWay, ConflictInv, ChecksStillHold, Available, EmailTaken, PhoneTaken,
          Live
    <3> QED
      BY <3>3, <3>4 DEF ConflictInv, ChecksStillHold, BurntNeedsAReason, LinkedBefore
  <2> QED
    BY <2>2, <2>3
<1>9. ASSUME NEW u \in Calls, NEW x, NEW y, AdminUpdate(u, x, y) PROVE ConflictInv'
  BY <1>2, <1>9 DEF AdminUpdate, Live, Row
<1>10. ASSUME NEW u \in Calls, AdminDelete(u) PROVE ConflictInv'
  BY <1>2, <1>10 DEF AdminDelete, Live, Row
<1>11. ASSUME NEW u \in Calls, NEW p, ChangePhone(u, p) PROVE ConflictInv'
  <2>1. call' = call /\ crossed' = crossed \cup UnderWay
    BY <1>11 DEF ChangePhone
  <2>2. UnderWay' \ crossed' = {}
    BY <2>1 DEF UnderWay
  <2>3. ASSUME NEW d \in Calls, call'[d].step = "conflict"
        PROVE  d \in crossed' \/ LinkedBefore(d)'
    BY <1>1, <2>1, <2>3
  <2> QED
    BY <2>2, <2>3 DEF ConflictInv, ChecksStillHold, BurntNeedsAReason, LinkedBefore
<1> QED
  BY <1>3, <1>4, <1>5, <1>6, <1>7, <1>8, <1>9, <1>10, <1>11, FlowStepsLeaveRows
  DEF Next, CallStep, Expire, Readdress, vars

(* A form that every check accepted is refused after its token is gone only  *)
(* when it was overtaken, or when its person is a user under another email.  *)
THEOREM BurntForAReason == Spec => []BurntNeedsAReason
  BY InitTypeOK, StepTypeOK, BrowserInit, BrowserStep, TokenInit, TokenStep,
     RowInit, RowStep, ConflictInit, ConflictStep, PTL
  DEF Spec, ConflictInv

-----------------------------------------------------------------------------
(* Phone numbers                                                             *)

LEMMA NumbersAreSequences ==
  ASSUME NEW d \in Numbers
  PROVE  d \in Seq(Digits) /\ Len(d) \in Nat
<1>1. PICK m \in 0 .. NationalDigits + 4 : d \in [1 .. m -> Digits]
  BY DEF Numbers, SeqOf
<1> QED
  BY <1>1

(* Prefixes, and what is behind them, digit by digit.                        *)
LEMMA PrefixByDigits ==
  ASSUME NEW s \in Seq(Digits), NEW d \in Seq(Digits)
  PROVE  IsPrefix(s, d) <=> Len(s) <= Len(d) /\ \A i \in 1 .. Len(s) : s[i] = d[i]
<1> DEFINE t == SubSeq(d, 1, Len(s))
<1>1. SubSeq(s, 1, Len(s)) = s
  OBVIOUS
<1>2. ASSUME Len(s) <= Len(d)
      PROVE  t \in Seq(Digits) /\ Len(t) = Len(s) /\ \A i \in 1 .. Len(s) : t[i] = d[i]
  BY <1>2
<1>3. ASSUME Len(s) <= Len(d)
      PROVE  s = t <=> \A i \in 1 .. Len(s) : s[i] = d[i]
  <2> HIDE DEF t
  <2>1. ASSUME \A i \in 1 .. Len(s) : s[i] = d[i]
        PROVE  s = t
    <3>1. \A i \in 1 .. Len(s) : s[i] = t[i]
      BY <1>2, <1>3, <2>1
    <3> QED
      BY <1>2, <1>3, <3>1, SeqEqual
  <2> QED
    BY <1>2, <1>3, <2>1
<1> QED
  BY <1>1, <1>3 DEF IsPrefix

LEMMA CodesByDigits ==
  ASSUME NEW d \in Seq(Digits)
  PROVE  /\ IsPrefix(Trunk, d) <=> Len(d) >= 2 /\ d[1] = 0 /\ d[2] = 0
         /\ IsPrefix(Country, d) <=> Len(d) >= 2 /\ d[1] = 5 /\ d[2] = 1
         /\ IsPrefix(Trunk \o Country, d) <=>
              Len(d) >= 4 /\ d[1] = 0 /\ d[2] = 0 /\ d[3] = 5 /\ d[4] = 1
<1> DEFINE Both == Trunk \o Country
<1>1. /\ Trunk \in Seq(Digits) /\ Len(Trunk) = 2 /\ Trunk[1] = 0 /\ Trunk[2] = 0
      /\ Country \in Seq(Digits) /\ Len(Country) = 2 /\ Country[1] = 5 /\ Country[2] = 1
  BY DEF Trunk, Country, Digits
<1>2. /\ Both \in Seq(Digits) /\ Len(Both) = 4
      /\ Both[1] = 0 /\ Both[2] = 0 /\ Both[3] = 5 /\ Both[4] = 1
  BY DEF Trunk, Country, Digits
<1> HIDE DEF Both
<1>3. \A i : /\ i \in 1 .. 2 <=> i \in {1, 2}
             /\ i \in 1 .. 4 <=> i \in {1, 2, 3, 4}
  OBVIOUS
<1>4. IsPrefix(Trunk, d) <=> Len(d) >= 2 /\ d[1] = 0 /\ d[2] = 0
  <2> DEFINE T == Trunk
  <2>1. T \in Seq(Digits) /\ Len(T) = 2
    BY <1>1
  <2>2. IsPrefix(T, d) <=> Len(T) <= Len(d) /\ \A i \in 1 .. Len(T) : T[i] = d[i]
    <3> HIDE DEF T
    <3> QED
      BY <2>1, PrefixByDigits
  <2>3. IsPrefix(Trunk, d) <=> 2 <= Len(d) /\ \A i \in 1 .. 2 : Trunk[i] = d[i]
    BY <2>1, <2>2
  <2> QED
    BY <1>1, <1>3, <2>3
<1>5. IsPrefix(Country, d) <=> Len(d) >= 2 /\ d[1] = 5 /\ d[2] = 1
  <2>1. IsPrefix(Country, d) <=> 2 <= Len(d) /\ \A i \in 1 .. 2 : Country[i] = d[i]
    BY <1>1, PrefixByDigits
  <2> QED
    BY <1>1, <1>3, <2>1
<1>6. IsPrefix(Both, d) <=>
         Len(d) >= 4 /\ d[1] = 0 /\ d[2] = 0 /\ d[3] = 5 /\ d[4] = 1
  <2>1. IsPrefix(Both, d) <=> 4 <= Len(d) /\ \A i \in 1 .. 4 : Both[i] = d[i]
    BY <1>2, PrefixByDigits
  <2>2. (\A i \in 1 .. 4 : Both[i] = d[i]) <=>
           d[1] = 0 /\ d[2] = 0 /\ d[3] = 5 /\ d[4] = 1
    BY <1>2, <1>3
  <2> QED
    BY <2>1, <2>2
<1> QED
  BY <1>4, <1>5, <1>6 DEF Both

LEMMA Dropped ==
  ASSUME NEW d \in Seq(Digits), NEW n \in Nat, n <= Len(d)
  PROVE  /\ Drop(n, d) \in Seq(Digits) /\ Len(Drop(n, d)) = Len(d) - n
         /\ \A i \in 1 .. Len(d) - n : Drop(n, d)[i] = d[i + n]
  BY DEF Drop

LEMMA NationalBehind ==
  ASSUME NEW d \in Seq(Digits), NEW n \in Nat, n <= Len(d)
  PROVE  IsNational(Drop(n, d)) <=> Len(d) = NationalDigits + n /\ d[n + 1] = 9
<1>1. /\ Drop(n, d) \in Seq(Digits) /\ Len(Drop(n, d)) = Len(d) - n
      /\ \A i \in 1 .. Len(d) - n : Drop(n, d)[i] = d[i + n]
  BY Dropped
<1>2. NationalDigits \in Nat \ {0}
  BY NationalDigitsAssumption
<1> QED
  BY <1>1, <1>2 DEF IsNational

LEMMA DroppedTwice ==
  ASSUME NEW d \in Seq(Digits), Len(d) >= 4
  PROVE  Drop(2, Drop(2, d)) = Drop(4, d)
  BY DEF Drop

(* The two programs differ in one form: a national number behind 00.  Either *)
(* tries the prefixes in its own order; the length of a text decides which   *)
(* of them can be what is in front of a national number.                     *)
LEMMA NormalForms ==
  ASSUME NEW d \in Seq(Digits)
  PROVE  Backfilled(d) # NormalizePhone(d) <=>
            IsPrefix(Trunk, d) /\ IsNational(Drop(2, d))
<1> DEFINE K == NationalDigits
           Long == Len(d) = K + 4 /\ IsPrefix(Trunk \o Country, d)
           Short == Len(d) = K + 2 /\ IsPrefix(Country, d)
<1>1. K \in Nat \ {0} /\ Len(d) \in Nat
  BY NationalDigitsAssumption
<1>2. \A e : IsNational(e) => e # Invalid
  BY <1>1 DEF IsNational, Invalid
<1>3. IsNational(d) <=> Len(d) = K /\ d[1] = 9
  BY DEF IsNational
<1>4. ASSUME IsPrefix(Trunk, d)
      PROVE  /\ WithoutTrunk(d) = Drop(2, d) /\ Drop(2, d) \in Seq(Digits)
             /\ Len(Drop(2, d)) = Len(d) - 2 /\ Len(d) >= 2
             /\ IsPrefix(Country, Drop(2, d)) <=> Len(d) >= 4 /\ d[3] = 5 /\ d[4] = 1
             /\ ~IsNational(d) /\ ~Short
  <2>1. Len(d) >= 2 /\ d[1] = 0 /\ d[2] = 0
    BY <1>4, CodesByDigits
  <2>2. /\ Drop(2, d) \in Seq(Digits) /\ Len(Drop(2, d)) = Len(d) - 2
        /\ \A i \in 1 .. Len(d) - 2 : Drop(2, d)[i] = d[i + 2]
    BY <2>1, Dropped
  <2>3. IsPrefix(Country, Drop(2, d)) <=>
           Len(Drop(2, d)) >= 2 /\ Drop(2, d)[1] = 5 /\ Drop(2, d)[2] = 1
    BY <2>2, CodesByDigits
  <2>4. IsPrefix(Country, Drop(2, d)) <=> Len(d) >= 4 /\ d[3] = 5 /\ d[4] = 1
    BY <1>1, <2>2, <2>3
  <2> QED
    BY <1>3, <1>4, <2>1, <2>2, <2>4, CodesByDigits DEF WithoutTrunk
<1>5. CASE Long
  <2>1. IsPrefix(Trunk, d) /\ Len(d) >= 4 /\ d[3] = 5 /\ d[4] = 1
    BY <1>5, CodesByDigits
  <2>2. WithoutCountry(WithoutTrunk(d)) = Drop(4, d)
    BY <1>1, <1>4, <1>5, <2>1, DroppedTwice DEF WithoutCountry
  <2>3. Backfilled(d) = NormalizePhone(d)
    <3>1. ~Short
      BY <1>4, <2>1
    <3>2. Backfilled(d) = IF IsNational(Drop(4, d)) THEN Drop(4, d) ELSE Invalid
      BY <1>5, <3>1 DEF Backfilled
    <3> QED
      BY <2>2, <3>2 DEF NormalizePhone
  <2>4. ~IsNational(Drop(2, d))
    BY <1>1, <1>5, <2>1, NationalBehind
  <2> QED
    BY <2>3, <2>4
<1>6. CASE IsPrefix(Trunk, d) /\ ~Long
  <2> DEFINE w == Drop(2, d)
  <2>1. Backfilled(d) = Invalid
    BY <1>4, <1>6 DEF Backfilled
  <2>2. WithoutTrunk(d) = w /\ Len(w) = Len(d) - 2 /\ Len(d) >= 2
    BY <1>4, <1>6
  <2>3. CASE Len(w) > K /\ IsPrefix(Country, w)
    <3>1. WithoutCountry(w) = Drop(4, d) /\ Len(d) >= 4
      BY <1>1, <1>4, <1>6, <2>3, DroppedTwice DEF WithoutCountry
    <3>2. ~IsNational(Drop(4, d))
      <4>1. Len(d) # K + 4
        BY <1>4, <1>6, <2>3, CodesByDigits
      <4> QED
        BY <1>1, <3>1, <4>1, NationalBehind
    <3>3. ~IsNational(w)
      BY <1>1, <2>2, <2>3 DEF IsNational
    <3> QED
      BY <2>1, <2>2, <3>1, <3>2, <3>3 DEF NormalizePhone
  <2>4. CASE ~(Len(w) > K /\ IsPrefix(Country, w))
    <3>1. WithoutCountry(w) = w
      BY <2>4 DEF WithoutCountry
    <3>2. NormalizePhone(d) = IF IsNational(w) THEN w ELSE Invalid
      BY <2>2, <3>1 DEF NormalizePhone
    <3> QED
      BY <1>2, <1>6, <2>1, <3>2
  <2> QED
    BY <2>3, <2>4
<1>7. CASE ~IsPrefix(Trunk, d)
  <2>1. WithoutTrunk(d) = d /\ ~Long
    BY <1>7, CodesByDigits DEF WithoutTrunk
  <2>2. CASE Short
    <3>1. WithoutCountry(d) = Drop(2, d)
      BY <1>1, <2>2 DEF WithoutCountry
    <3> QED
      BY <1>7, <2>1, <2>2, <3>1 DEF Backfilled, NormalizePhone
  <2>3. CASE ~Short
    <3>1. Backfilled(d) = IF IsNational(d) THEN d ELSE Invalid
      BY <2>1, <2>3 DEF Backfilled
    <3>2. CASE Len(d) > K /\ IsPrefix(Country, d)
      <4>1. WithoutCountry(d) = Drop(2, d) /\ Len(d) >= 2
        BY <3>2, CodesByDigits DEF WithoutCountry
      <4>2. ~IsNational(Drop(2, d))
        BY <1>1, <2>3, <3>2, <4>1, NationalBehind
      <4>3. ~IsNational(d)
        BY <1>1, <1>3, <3>2
      <4> QED
        BY <1>7, <2>1, <3>1, <4>1, <4>2, <4>3 DEF NormalizePhone
    <3>3. CASE ~(Len(d) > K /\ IsPrefix(Country, d))
      <4>1. WithoutCountry(d) = d
        BY <3>3 DEF WithoutCountry
      <4> QED
        BY <1>7, <2>1, <3>1, <4>1 DEF NormalizePhone
    <3> QED
      BY <3>2, <3>3
  <2> QED
    BY <2>2, <2>3
<1> QED
  BY <1>5, <1>6, <1>7

(* Of two rows with one number the later one loses it.                       *)
LEMMA NoNumberTwice ==
  ASSUME NEW rows, NEW m \in Nat, DOMAIN rows = 1 .. m,
         NEW i \in 1 .. m, NEW j \in 1 .. m, i # j,
         BackfilledColumn(rows)[i] # Invalid
  PROVE  BackfilledColumn(rows)[i] # BackfilledColumn(rows)[j]
<1> DEFINE column == BackfilledColumn(rows)
           Earlier(k) == \E l \in 1 .. k - 1 : Backfilled(rows[l]) = Backfilled(rows[k])
<1>1. \A k \in 1 .. m : column[k] = IF Earlier(k) THEN Invalid ELSE Backfilled(rows[k])
  BY DEF BackfilledColumn
<1> HIDE DEF column
<1>2. ASSUME NEW k \in 1 .. m, NEW l \in 1 .. m, k < l,
             column[k] # Invalid, column[k] = column[l]
      PROVE  FALSE
  <2>1. column[k] = Backfilled(rows[k]) /\ column[l] = Backfilled(rows[l]) /\ ~Earlier(l)
    <3> HIDE DEF Earlier
    <3> QED
      BY <1>1, <1>2
  <2>2. k \in 1 .. l - 1
    BY <1>2
  <2> QED
    BY <1>2, <2>1, <2>2
<1>3. i < j \/ j < i
  OBVIOUS
<1> QED
  BY <1>2, <1>3 DEF column

LEMMA ColumnIsUnique ==
  ASSUME NEW d, NEW e, NEW f, NEW i \in 1 .. 3, NEW j \in 1 .. 3, i # j,
         BackfilledColumn(<<d, e, f>>)[i] # Invalid
  PROVE  BackfilledColumn(<<d, e, f>>)[i] # BackfilledColumn(<<d, e, f>>)[j]
<1> DEFINE rows == <<d, e, f>>
<1>1. DOMAIN rows = 1 .. 3
  OBVIOUS
<1> HIDE DEF rows
<1>2. BackfilledColumn(rows)[i] # Invalid
  BY DEF rows
<1> QED
  <2>1. BackfilledColumn(rows)[i] # BackfilledColumn(rows)[j]
    BY <1>1, <1>2, NoNumberTwice
  <2> QED
    BY <2>1 DEF rows

(* Migration and application make the same number of every text, but for     *)
(* one form that the migration leaves out; and the column it fills can bear  *)
(* its unique index.                                                         *)
LEMMA MigrationAgrees == BackfillAgrees
<1>1. \A d \in Numbers :
        Backfilled(d) # NormalizePhone(d) <=>
            IsPrefix(Trunk, d) /\ IsNational(Drop(2, d))
  BY NumbersAreSequences, NormalForms
<1>2. \A d, e, f : \A i, j \in 1 .. 3 :
        i # j /\ BackfilledColumn(<<d, e, f>>)[i] # Invalid =>
            BackfilledColumn(<<d, e, f>>)[i] # BackfilledColumn(<<d, e, f>>)[j]
  BY ColumnIsUnique
<1> QED
  BY <1>1, <1>2 DEF BackfillAgrees

(* Canonical numbers are texts that neither program changes.                 *)
LEMMA PhonesStandAsTheyAre ==
  ASSUME NEW p \in Phones
  PROVE  p # Invalid /\ NormalizePhone(p) = p /\ Backfilled(p) = p
<1>1. p \in Numbers /\ p # Invalid /\ NormalizePhone(p) = p
  BY PhonesAssumption
<1>2. p \in Seq(Digits) /\ Len(p) \in Nat
  BY <1>1, NumbersAreSequences
<1>3. IsNational(p)
  BY <1>1 DEF NormalizePhone
<1>4. ~IsPrefix(Trunk, p)
  BY <1>2, <1>3, CodesByDigits DEF IsNational
<1> QED
  BY <1>1, <1>2, <1>4, NormalForms

(* The last row keeps its number when no row before it has the same.         *)
LEMMA LastRowKeepsItsNumber ==
  ASSUME NEW S, NEW rows \in SeqOf(S, Before), NEW p,
         \A q \in S : Backfilled(q) # Backfilled(p)
  PROVE  BackfilledColumn(Append(rows, p))[Len(rows) + 1] = Backfilled(p)
<1>1. PICK m \in 0 .. Before : rows \in [1 .. m -> S]
  BY DEF SeqOf
<1>2. m \in Nat /\ Len(rows) = m
  BY <1>1 DEF Before
<1> DEFINE all == Append(rows, p)
<1>3. /\ DOMAIN all = 1 .. m + 1 /\ all[m + 1] = p
      /\ \A i \in 1 .. m : all[i] = rows[i]
  BY <1>1, <1>2
<1> HIDE DEF all
<1>4. \A i \in 1 .. m : Backfilled(all[i]) # Backfilled(p)
  BY <1>1, <1>3
<1>5. m + 1 \in DOMAIN all /\ (m + 1) - 1 = m
  BY <1>2, <1>3
<1>6. BackfilledColumn(all)[m + 1] = Backfilled(p)
  BY <1>3, <1>4, <1>5 DEF BackfilledColumn
<1> QED
  BY <1>2, <1>6 DEF all

(* Every user's phone is where the application looks for it: no other user   *)
(* has it, and the migration writes it as the application does.              *)
THEOREM PhonesStayFound == Spec => []PhonesAreFoundAgain
<1>1. ASSUME TypeOK, OnePersonOneUser PROVE PhonesAreFoundAgain
  <2>1. ASSUME NEW c \in Calls, Live(c), users[c].phone # Nobody,
               NEW rows \in SeqOf(PhonesOfOthers(c), Before)
        PROVE  BackfilledColumn(Append(rows, users[c].phone))[Len(rows) + 1]
                  = NormalizePhone(users[c].phone)
    <3>1. \A d \in Calls : users[d].phone # Nobody => users[d].phone \in Phones
      BY <1>1 DEF TypeOK, Row
    <3>2. users[c].phone \in Phones
      BY <2>1, <3>1
    <3>3. \A q \in PhonesOfOthers(c) : q \in Phones /\ q # users[c].phone
      BY <1>1, <2>1, <3>1 DEF PhonesOfOthers, OnePersonOneUser
    <3>4. \A q \in PhonesOfOthers(c) : Backfilled(q) # Backfilled(users[c].phone)
      BY <3>2, <3>3, PhonesStandAsTheyAre
    <3> QED
      BY <3>2, <3>4, LastRowKeepsItsNumber, PhonesStandAsTheyAre
  <2> QED
    BY <2>1, MigrationAgrees DEF PhonesAreFoundAgain
<1> QED
  BY <1>1, InitTypeOK, StepTypeOK, BrowserInit, BrowserStep, TokenInit, TokenStep,
     RowInit, RowStep, PTL
  DEF Spec, RowInv
=============================================================================
