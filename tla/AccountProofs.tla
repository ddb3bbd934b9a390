---------------------------- MODULE AccountProofs ----------------------------
(****************************************************************************)
(* The account of a user: its sessions, for any number of calls, of refresh  *)
(* tokens and of changes of password (Sessions), and its deletion, among any *)
(* insertions around it (Deletion). The two share no variable: each theorem  *)
(* is of one of the two specifications.                                      *)
(****************************************************************************)
EXTENDS Sessions, Deletion, TLAPS

-----------------------------------------------------------------------------
(* The sessions of a user, for any number of calls.  Three layers:           *)
(*   TokensInv    what holds of tokens and keys whatever overlaps,           *)
(*   VersionsInv  until a change of password crosses another writer: no      *)
(*                token is ahead of the user's row, and a change writes over *)
(*                the row it read,                                           *)
(*   VouchedInv   until then also: whoever holds the version of the row      *)
(*                holds its password, the logins that renew a hash included. *)

IssuedHasEnded == \A c \in Calls : pair[c].issued => call[c].step = "ended"

IssuedFromItsCall == \A c \in Calls :
    pair[c].issued => pair[c].from = call[c].from

(* A refresh holds a token that was issued and is spent, alone.              *)
RefreshHoldsItsToken == \A c \in Calls :
    call[c].from # Nobody =>
        /\ pair[call[c].from].issued
        /\ call[c].from \notin live
        /\ call[c].basis = pair[call[c].from].basis
        /\ \A d \in Calls : call[d].from = call[c].from => c = d

OnlyRefreshesHold == \A c \in Calls :
    /\ call[c].step \in {"epoch", "user"} => call[c].from # Nobody
    /\ call[c].step = "idle" => call[c].from = Nobody

TokensInv ==
    /\ TypeOK
    /\ IssuedHasEnded
    /\ IssuedFromItsCall
    /\ RefreshHoldsItsToken
    /\ OnlyRefreshesHold

NothingIsAhead == \A c \in Calls :
    /\ call[c].step \in {"rehash", "issue", "store"}
           => call[c].seen.version <= user.version
    /\ pair[c].issued => pair[c].tv <= user.version

ChangeReadsTheRow ==
    /\ \A c \in Calls : At(c, "change") => call[c].seen.version = user.version
    /\ \A c, d \in Calls : At(c, "change") /\ At(d, "change") => c = d
    /\ \A c, d \in Calls : At(c, "change") => ~At(d, "rehash")

VersionsInv == TokensInv /\ NothingIsAhead /\ ChangeReadsTheRow

RehashKeepsThePassword ==
    /\ user.secret = lastSet
    /\ \A c \in Calls : At(c, "rehash") => call[c].basis = user.secret

VersionVouches == \A c \in Calls :
    /\ call[c].step \in {"issue", "store"}
           /\ call[c].seen.version = user.version
           => call[c].basis = user.secret
    /\ pair[c].issued /\ pair[c].tv = user.version
           => pair[c].basis = user.secret

VouchedInv == VersionsInv /\ RehashKeepsThePassword /\ VersionVouches

-----------------------------------------------------------------------------
(* Tokens and keys                                                           *)

(* What the two ways of moving a call change of its record.                  *)
LEMMA GotoFrame ==
  ASSUME TypeOK, NEW c \in Calls, NEW s \in Steps, Goto(c, s)
  PROVE  /\ call' \in [Calls -> Call]
         /\ call'[c] = [call[c] EXCEPT !.step = s]
         /\ call'[c].step = s
         /\ call'[c].from = call[c].from /\ call'[c].basis = call[c].basis
         /\ call'[c].seen = call[c].seen
         /\ \A d \in Calls \ {c} : call'[d] = call[d]
  BY DEF TypeOK, Goto, Call

LEMMA SeenFrame ==
  ASSUME TypeOK, NEW c \in Calls, NEW s \in Steps,
         call' = [call EXCEPT ![c].seen = user, ![c].step = s]
  PROVE  /\ call' \in [Calls -> Call]
         /\ call'[c].step = s
         /\ call'[c].from = call[c].from /\ call'[c].basis = call[c].basis
         /\ call'[c].seen = user
         /\ \A d \in Calls \ {c} : call'[d] = call[d]
<1>1. [call[c] EXCEPT !.seen = user, !.step = s] \in Call
  BY DEF TypeOK, Call
<1>2. call' = [call EXCEPT ![c] = [call[c] EXCEPT !.seen = user, !.step = s]]
  OBVIOUS
<1>. QED
  BY <1>1, <1>2 DEF TypeOK, Call

LEMMA TokensInit == Init => TokensInv
<1>. SUFFICES ASSUME Init PROVE TokensInv
  OBVIOUS
<1>. USE NobodyAssumption DEF Init
<1>1. FirstUser \in User /\ user \in User
  <2>1. FirstUser \in User
    BY DEF FirstUser, User, Secret
  <2>2. user = FirstUser \/ user = [FirstUser EXCEPT !.outdated = TRUE]
    OBVIOUS
  <2>. QED
    BY <2>1, <2>2 DEF User
<1>2. TypeOK
  BY <1>1 DEF TypeOK, Idle, Call, Steps, NoPair, Pair, Secret
<1>3. IssuedHasEnded /\ IssuedFromItsCall
  BY DEF IssuedHasEnded, IssuedFromItsCall, NoPair
<1>4. RefreshHoldsItsToken /\ OnlyRefreshesHold
  BY DEF RefreshHoldsItsToken, OnlyRefreshesHold, Idle
<1>. QED
  BY <1>2, <1>3, <1>4 DEF TokensInv

(* A step of a call changes its own record only; it keeps TokensInv when it  *)
(* issues nothing, spends keys only, and leaves the token it holds alone.    *)
LEMMA QuietStep ==
  ASSUME TokensInv, NEW c \in Calls,
         user' \in User, epoch' \in Nat, lastSet' \in Secret,
         crossed' \in BOOLEAN,
         live' \subseteq live, UNCHANGED pair,
         call' \in [Calls -> Call],
         \A d \in Calls \ {c} : call'[d] = call[d],
         call[c].step # "ended",
         call'[c].from = call[c].from,
         call'[c].basis = call[c].basis \/ call[c].from = Nobody,
         call'[c].step # "idle",
         call'[c].step \in {"epoch", "user"} => call[c].from # Nobody
  PROVE  TokensInv'
<1>. USE DEF TokensInv
<1>1. TypeOK'
  BY DEF TypeOK
<1>2. IssuedHasEnded' /\ IssuedFromItsCall'
  BY DEF IssuedHasEnded, IssuedFromItsCall
<1>3. RefreshHoldsItsToken'
  BY DEF RefreshHoldsItsToken
<1>4. OnlyRefreshesHold'
  BY DEF OnlyRefreshesHold
<1>. QED
  BY <1>1, <1>2, <1>3, <1>4

(* Steps of no call.                                                         *)
LEMMA OutsideStep ==
  ASSUME TokensInv,
         SetActive \/ Flush \/ (\E t \in Calls : Expire(t)) \/ UNCHANGED vars
  PROVE  TokensInv'
<1>. USE DEF TokensInv
<1>1. UNCHANGED <<pair, call, lastSet, crossed>> /\ live' \subseteq live
  BY DEF SetActive, Flush, Expire, GetDel, vars
<1>2. user' \in User /\ epoch' \in Nat
  <2>1. CASE SetActive
    <3>1. user \in User
      BY DEF TypeOK
    <3>2. (~user.active) \in BOOLEAN
      BY Zenon
    <3>. HIDE DEF TokensInv
    <3>. QED
      BY <2>1, <3>1, <3>2 DEF SetActive, User, TokensInv, TypeOK
  <2>2. CASE ~SetActive
    BY <2>2 DEF Flush, Expire, vars, TypeOK
  <2>. QED
    BY <2>1, <2>2
<1>3. TypeOK'
  BY <1>1, <1>2 DEF TypeOK
<1>4. IssuedHasEnded' /\ IssuedFromItsCall'
  BY <1>1 DEF IssuedHasEnded, IssuedFromItsCall
<1>5. RefreshHoldsItsToken' /\ OnlyRefreshesHold'
  BY <1>1 DEF RefreshHoldsItsToken, OnlyRefreshesHold
<1>. QED
  BY <1>3, <1>4, <1>5

LEMMA LoginTokens ==
  ASSUME TokensInv, crossed' \in BOOLEAN, NEW c \in Calls,
         LoginRead(c) \/ LoginRehash(c) \/ IssueRead(c)
  PROVE  TokensInv'
<1>. USE DEF TokensInv
<1>1. CASE LoginRead(c)
  <2>1. call[c].from = Nobody
    BY <1>1 DEF LoginRead, At, OnlyRefreshesHold
  <2>. DEFINE next == IF NeedsRehash(user) THEN "rehash" ELSE "issue"
  <2>2. call' \in [Calls -> Call]
    <3>1. next \in Steps /\ user \in User /\ user.secret \in Secret
      BY DEF Steps, TypeOK, User
    <3>2. call' = [call EXCEPT ![c] = [call[c] EXCEPT !.seen = user,
                                       !.basis = user.secret, !.step = next]]
      BY <1>1, Zenon DEF LoginRead
    <3>. HIDE DEF next
    <3>3. [call[c] EXCEPT !.seen = user, !.basis = user.secret,
                          !.step = next] \in Call
      BY <3>1 DEF TypeOK, Call
    <3>. QED
      BY <3>2, <3>3 DEF TypeOK
  <2>3. /\ call'[c].step \in {"rehash", "issue"}
        /\ call'[c].from = call[c].from
        /\ \A d \in Calls \ {c} : call'[d] = call[d]
    BY <1>1 DEF LoginRead, TypeOK
  <2>. QED
    BY <1>1, <2>1, <2>2, <2>3, QuietStep DEF LoginRead, TypeOK, At
<1>2. CASE LoginRehash(c)
  <2>1. user' \in User
    BY <1>2 DEF LoginRehash, TypeOK, User, Call
  <2>2. call' \in [Calls -> Call]
    BY <1>2 DEF LoginRehash, Goto, TypeOK, Call, Steps
  <2>3. /\ call'[c].step = "issue"
        /\ call'[c].from = call[c].from /\ call'[c].basis = call[c].basis
        /\ \A d \in Calls \ {c} : call'[d] = call[d]
    BY <1>2 DEF LoginRehash, Goto, TypeOK
  <2>. QED
    BY <1>2, <2>1, <2>2, <2>3, QuietStep DEF LoginRehash, TypeOK, At
<1>3. CASE IssueRead(c)
  <2>1. call' \in [Calls -> Call]
    BY <1>3 DEF IssueRead, TypeOK, Call, Steps
  <2>2. /\ call'[c].step = "store"
        /\ call'[c].from = call[c].from /\ call'[c].basis = call[c].basis
        /\ \A d \in Calls \ {c} : call'[d] = call[d]
    BY <1>3 DEF IssueRead, TypeOK
  <2>. QED
    BY <1>3, <2>1, <2>2, QuietStep DEF IssueRead, TypeOK, At
<1>. QED
  BY <1>1, <1>2, <1>3

LEMMA StoreTokens ==
  ASSUME TokensInv, crossed' \in BOOLEAN, NEW c \in Calls, IssueStore(c)
  PROVE  TokensInv'
<1>. USE DEF TokensInv
<1>1. ~pair[c].issued
  BY DEF IssueStore, At, IssuedHasEnded
<1>2. call' \in [Calls -> Call]
  BY DEF IssueStore, End, Goto, TypeOK, Call, Steps
<1>3. pair' \in [Calls -> Pair]
  BY DEF IssueStore, TokenVersion, TypeOK, Call, User, Pair
<1>4. /\ call'[c].step = "ended" /\ call'[c].from = call[c].from
      /\ call'[c].basis = call[c].basis
      /\ pair'[c].issued /\ pair'[c].from = call[c].from
      /\ \A d \in Calls \ {c} : call'[d] = call[d] /\ pair'[d] = pair[d]
  BY DEF IssueStore, End, Goto, TypeOK
<1>5. TypeOK'
  BY <1>2, <1>3, <1>4 DEF TypeOK, IssueStore
<1>6. IssuedHasEnded' /\ IssuedFromItsCall'
  BY <1>4 DEF IssuedHasEnded, IssuedFromItsCall
<1>7. \A d \in Calls : call[d].from # Nobody => call[d].from \in Calls \ {c}
  BY <1>1 DEF RefreshHoldsItsToken, TypeOK, Call, Secret
<1>8. RefreshHoldsItsToken'
  BY <1>4, <1>7 DEF RefreshHoldsItsToken, IssueStore
<1>9. OnlyRefreshesHold'
  BY <1>4 DEF OnlyRefreshesHold
<1>. QED
  BY <1>5, <1>6, <1>8, <1>9

LEMMA RefreshTokens ==
  ASSUME TokensInv, crossed' \in BOOLEAN, NEW c \in Calls, NEW t \in Calls,
         RefreshConsume(c, t) \/ RefreshEpoch(c) \/ RefreshUser(c)
  PROVE  TokensInv'
<1>. USE DEF TokensInv
<1>1. CASE RefreshConsume(c, t)
  <2>. USE <1>1, NobodyAssumption
  <2>1. call' \in [Calls -> Call]
    <3>1. t \in Calls /\ pair[t].basis \in Secret /\ call[c] \in Call
      BY DEF TypeOK, Pair
    <3>2. [call[c] EXCEPT !.from = t, !.basis = pair[t].basis,
                          !.step = "epoch"] \in Call
      BY <3>1 DEF Call, Steps, Secret
    <3>3. call' = [call EXCEPT ![c] = [call[c] EXCEPT !.from = t,
                       !.basis = pair[t].basis, !.step = "epoch"]]
      BY DEF RefreshConsume
    <3>. QED
      BY <3>2, <3>3 DEF TypeOK
  <2>2. /\ call'[c].step = "epoch" /\ call'[c].from = t
        /\ call'[c].basis = pair[t].basis /\ call[c].step = "idle"
        /\ \A d \in Calls \ {c} : call'[d] = call[d]
    BY DEF RefreshConsume, At, TypeOK
  <2>3. pair[t].issued /\ t # Nobody /\ live' = live \ {t} /\ UNCHANGED pair
    BY DEF RefreshConsume, TypeOK, GetDel
  <2>4. \A d \in Calls : call[d].from # t
    BY <2>3 DEF RefreshHoldsItsToken, RefreshConsume
  <2>5. TypeOK'
    BY <2>1, <2>3 DEF RefreshConsume, TypeOK
  <2>6. IssuedHasEnded' /\ IssuedFromItsCall'
    BY <2>2, <2>3 DEF IssuedHasEnded, IssuedFromItsCall
  <2>7. RefreshHoldsItsToken'
    BY <2>2, <2>3, <2>4 DEF RefreshHoldsItsToken
  <2>8. OnlyRefreshesHold'
    BY <2>2, <2>3 DEF OnlyRefreshesHold
  <2>. QED
    BY <2>5, <2>6, <2>7, <2>8
<1>2. CASE RefreshEpoch(c)
  <2>1. call' \in [Calls -> Call]
    BY <1>2 DEF RefreshEpoch, End, Goto, TypeOK, Call, Steps
  <2>2. /\ call'[c].step \in {"user", "ended"} /\ call[c].step = "epoch"
        /\ call'[c].from = call[c].from /\ call'[c].basis = call[c].basis
        /\ \A d \in Calls \ {c} : call'[d] = call[d]
    <3>1. Goto(c, "user") \/ Goto(c, "ended")
      BY <1>2, Zenon DEF RefreshEpoch, End
    <3>2. "user" \in Steps /\ "ended" \in Steps
      BY DEF Steps
    <3>. QED
      BY <1>2, <3>1, <3>2, GotoFrame DEF RefreshEpoch, At
  <2>3. call[c].from # Nobody
    BY <2>2 DEF OnlyRefreshesHold
  <2>. QED
    BY <1>2, <2>1, <2>2, <2>3, QuietStep DEF RefreshEpoch, TypeOK
<1>3. CASE RefreshUser(c)
  <2>1. call' \in [Calls -> Call]
    BY <1>3 DEF RefreshUser, End, Goto, TypeOK, Call, Steps
  <2>2. /\ call'[c].step \in {"issue", "ended"} /\ call[c].step = "user"
        /\ call'[c].from = call[c].from /\ call'[c].basis = call[c].basis
        /\ \A d \in Calls \ {c} : call'[d] = call[d]
    <3>1. \/ Goto(c, "ended")
          \/ call' = [call EXCEPT ![c].seen = user, ![c].step = "issue"]
      BY <1>3, Zenon DEF RefreshUser, End
    <3>2. "issue" \in Steps /\ "ended" \in Steps
      BY DEF Steps
    <3>. QED
      BY <1>3, <3>1, <3>2, GotoFrame, SeenFrame DEF RefreshUser, At
  <2>. QED
    BY <1>3, <2>1, <2>2, QuietStep DEF RefreshUser, TypeOK
<1>. QED
  BY <1>1, <1>2, <1>3

LEMMA ChangeTokens ==
  ASSUME TokensInv, crossed' \in BOOLEAN, NEW c \in Calls, NEW t \in Calls,
         \/ Logout(c, t) \/ ChangeRead(c, t) \/ ChangeCommit(c)
         \/ ChangeRevoke(c) \/ Crash(c)
  PROVE  TokensInv'
<1>. USE DEF TokensInv
<1>1. call' \in [Calls -> Call]
  BY DEF Logout, ChangeRead, ChangeCommit, ChangeRevoke, Crash, End, Goto,
         TypeOK, Call, Steps
<1>2. /\ call'[c].step \in {"change", "revoke", "ended"}
      /\ call[c].step # "ended"
      /\ call'[c].from = call[c].from /\ call'[c].basis = call[c].basis
      /\ \A d \in Calls \ {c} : call'[d] = call[d]
  <2>1. \/ Goto(c, "ended") \/ Goto(c, "revoke")
        \/ call' = [call EXCEPT ![c].seen = user, ![c].step = "change"]
    BY DEF Logout, ChangeRead, ChangeCommit, ChangeRevoke, Crash, End
  <2>2. call[c].step # "ended"
    BY DEF Logout, ChangeRead, ChangeCommit, ChangeRevoke, Crash, At
  <2>3. {"ended", "revoke", "change"} \subseteq Steps
    BY DEF Steps
  <2>. QED
    BY <2>1, <2>2, <2>3, GotoFrame, SeenFrame
<1>3. UNCHANGED pair /\ live' \subseteq live
  BY DEF Logout, ChangeRead, ChangeCommit, ChangeRevoke, Crash, GetDel
<1>4. user' \in User
  <2>1. CASE ChangeCommit(c)
    <3>1. NextVersion(call[c].seen.version) \in Nat
      BY DEF NextVersion, TypeOK, Call, User
    <3>. QED
      BY <2>1, <3>1 DEF ChangeCommit, TypeOK, User, Secret
  <2>2. CASE ~ChangeCommit(c)
    BY <2>2 DEF Logout, ChangeRead, ChangeRevoke, Crash, TypeOK
  <2>. QED
    BY <2>1, <2>2
<1>5. epoch' \in Nat /\ lastSet' \in Secret
  BY DEF Logout, ChangeRead, ChangeCommit, ChangeRevoke, Crash, TypeOK, Secret
<1>. QED
  BY <1>1, <1>2, <1>3, <1>4, <1>5, QuietStep

LEMMA CrossedStays ==
  ASSUME crossed \in BOOLEAN, NEW c \in Calls, Step(c)
  PROVE  crossed' \in BOOLEAN /\ (crossed => crossed')
<1>1. (crossed \/ (user.outdated /\ Changing # {})) \in BOOLEAN
  BY Zenon
<1>2. (crossed \/ Changing # {} \/ Rehashing # {}) \in BOOLEAN
  BY Zenon
<1>3. \/ UNCHANGED crossed
      \/ crossed' = (crossed \/ (user.outdated /\ Changing # {}))
      \/ crossed' = (crossed \/ Changing # {} \/ Rehashing # {})
  BY Zenon DEF Step, LoginRead, LoginRehash, IssueRead, IssueStore,
     RefreshEpoch, RefreshUser, ChangeCommit, ChangeRevoke, Crash,
     RefreshConsume, Logout, ChangeRead
<1>. QED
  BY <1>1, <1>2, <1>3, Zenon

LEMMA CrossedRemains ==
  ASSUME TokensInv, [Next]_vars, ~crossed'
  PROVE  ~crossed
  BY CrossedStays, Zenon DEF Next, SetActive, Flush, Expire, vars, TokensInv,
     TypeOK

LEMMA TokensStep ==
  ASSUME TokensInv, [Next]_vars
  PROVE  TokensInv'
<1>1. ASSUME NEW c \in Calls, Step(c) PROVE TokensInv'
  <2>1. crossed' \in BOOLEAN
    BY <1>1, CrossedStays DEF TokensInv, TypeOK
  <2>. QED
    BY <1>1, <2>1, LoginTokens, StoreTokens, RefreshTokens, ChangeTokens
    DEF Step
<1>. QED
  BY <1>1, OutsideStep DEF Next

-----------------------------------------------------------------------------
(* Versions                                                                  *)

LEMMA AheadFrame ==
  ASSUME NothingIsAhead, NEW c \in Calls, user'.version = user.version,
         \A d \in Calls \ {c} : call'[d] = call[d] /\ pair'[d] = pair[d],
         call'[c].step \in {"rehash", "issue", "store"}
             => call'[c].seen.version <= user.version,
         pair'[c].issued => pair'[c].tv <= user.version
  PROVE  NothingIsAhead'
  BY DEF NothingIsAhead

(* Every step but the commit of a change keeps the version of the row, and   *)
(* what is issued or prepared carries a version already seen.                *)
LEMMA VersionKept ==
  ASSUME VersionsInv, [Next]_vars, \A c \in Calls : ~ChangeCommit(c)
  PROVE  /\ user'.version = user.version
         /\ NothingIsAhead'
<1>. USE DEF VersionsInv, TokensInv
<1>1. user'.version = user.version
  BY DEF Next, Step, vars, LoginRead, LoginRehash, IssueRead, IssueStore,
     RefreshEpoch, RefreshUser, ChangeRevoke, Crash, RefreshConsume, Logout,
     ChangeRead, SetActive, Flush, Expire, TypeOK, User
<1>2. user.version \in Nat
  BY DEF TypeOK, User
<1>3. CASE UNCHANGED <<pair, call>>
  BY <1>1, <1>3 DEF NothingIsAhead
<1>4. ASSUME NEW c \in Calls, Step(c) PROVE NothingIsAhead'
  <2>1. CASE LoginRead(c)
    <3>1. /\ call'[c].seen = user /\ UNCHANGED pair
          /\ \A d \in Calls \ {c} : call'[d] = call[d]
      BY <2>1 DEF LoginRead, TypeOK, Call
    <3>. QED
      BY <1>1, <1>2, <3>1 DEF NothingIsAhead
  <2>2. CASE LoginRehash(c)
    <3>1. /\ call[c].step = "rehash" /\ Goto(c, "issue") /\ UNCHANGED pair
          /\ "issue" \in Steps
      BY <2>2 DEF LoginRehash, At, Steps
    <3>. QED
      BY <1>1, <3>1, GotoFrame DEF NothingIsAhead
  <2>3. CASE IssueRead(c)
    <3>1. /\ call[c].step = "issue" /\ call'[c].seen = call[c].seen
          /\ UNCHANGED pair
          /\ \A d \in Calls \ {c} : call'[d] = call[d]
      BY <2>3 DEF IssueRead, At, TypeOK, Call
    <3>. QED
      BY <1>1, <3>1 DEF NothingIsAhead
  <2>4. CASE IssueStore(c)
    <3>1. /\ call[c].step = "store" /\ Goto(c, "ended")
          /\ pair'[c].tv = call[c].seen.version
          /\ \A d \in Calls \ {c} : pair'[d] = pair[d]
          /\ "ended" \in Steps
      BY <2>4 DEF IssueStore, At, End, TokenVersion, TypeOK, Steps
    <3>2. /\ call'[c].step = "ended"
          /\ \A d \in Calls \ {c} : call'[d] = call[d]
      BY <3>1, GotoFrame
    <3>3. call[c].seen.version <= user.version
      BY <3>1 DEF NothingIsAhead
    <3>. QED
      BY <1>1, <3>1, <3>2, <3>3, AheadFrame
  <2>5. CASE RefreshUser(c)
    <3>1. \/ Goto(c, "ended")
          \/ call' = [call EXCEPT ![c].seen = user, ![c].step = "issue"]
      BY <2>5, Zenon DEF RefreshUser, End
    <3>2. {"issue", "ended"} \subseteq Steps /\ UNCHANGED pair
      BY <2>5 DEF Steps, RefreshUser
    <3>3. /\ call'[c].step = "ended" \/ call'[c].seen = user
          /\ \A d \in Calls \ {c} : call'[d] = call[d]
      BY <3>1, <3>2, GotoFrame, SeenFrame
    <3>4. pair'[c].issued => pair'[c].tv <= user.version
      BY <3>2 DEF NothingIsAhead
    <3>. QED
      BY <1>1, <1>2, <3>2, <3>3, <3>4, AheadFrame
  <2>6. ASSUME NEW t \in Calls,
               \/ RefreshConsume(c, t) \/ Logout(c, t) \/ ChangeRead(c, t)
               \/ RefreshEpoch(c) \/ ChangeRevoke(c) \/ Crash(c)
        PROVE  NothingIsAhead'
    <3>1. \/ Goto(c, "ended") \/ Goto(c, "user")
          \/ call' = [call EXCEPT ![c].seen = user, ![c].step = "change"]
          \/ call' = [call EXCEPT ![c].from = t, ![c].basis = pair[t].basis,
                                  ![c].step = "epoch"]
      BY <2>6, Zenon DEF RefreshConsume, Logout, ChangeRead, RefreshEpoch,
         ChangeRevoke, Crash, End
    <3>2. {"change", "user", "ended"} \subseteq Steps
      BY DEF Steps
    <3>3. UNCHANGED pair
      BY <2>6 DEF RefreshConsume, Logout, ChangeRead, RefreshEpoch,
         ChangeRevoke, Crash
    <3>4. /\ call'[c].step \in {"ended", "user", "change", "epoch"}
          /\ \A d \in Calls \ {c} : call'[d] = call[d]
      <4>1. CASE call' = [call EXCEPT ![c].from = t, ![c].basis = pair[t].basis,
                                     ![c].step = "epoch"]
        BY <4>1 DEF TypeOK, Call
      <4>. QED
        BY <3>1, <3>2, <4>1, GotoFrame, SeenFrame
    <3>. QED
      BY <1>1, <3>3, <3>4 DEF NothingIsAhead
  <2>. QED
    BY <1>4, <2>1, <2>2, <2>3, <2>4, <2>5, <2>6 DEF Step
<1>5. CASE ~\E c \in Calls : Step(c)
  BY <1>3, <1>5 DEF Next, SetActive, Flush, Expire, vars
<1>. QED
  BY <1>1, <1>4, <1>5

(* Where the calls that are to write a password come from.                   *)
LEMMA WritersStep ==
  ASSUME TypeOK, [Next]_vars, NEW d \in Calls
  PROVE  /\ call'[d].step = "change" =>
                \/ call[d].step = "change" /\ call'[d].seen = call[d].seen
                \/ \E t \in Calls : ChangeRead(d, t)
         /\ call'[d].step = "rehash" =>
                \/ call[d].step = "rehash" /\ call'[d].basis = call[d].basis
                \/ LoginRead(d) /\ call'[d].basis = user.secret
<1>1. CASE UNCHANGED call
  BY <1>1
<1>2. ASSUME NEW c \in Calls, Step(c), c # d PROVE call'[d] = call[d]
  <2>1. CASE LoginRead(c) \/ IssueRead(c)
    BY <1>2, <2>1 DEF LoginRead, IssueRead, TypeOK
  <2>2. ASSUME NEW t \in Calls, RefreshConsume(c, t) PROVE call'[d] = call[d]
    BY <1>2, <2>2 DEF RefreshConsume, TypeOK
  <2>3. ASSUME NEW s \in {"issue", "change"},
               call' = [call EXCEPT ![c].seen = user, ![c].step = s]
        PROVE  call'[d] = call[d]
    BY <1>2, <2>3 DEF TypeOK
  <2>4. ASSUME NEW s \in Steps, Goto(c, s) PROVE call'[d] = call[d]
    BY <1>2, <2>4 DEF TypeOK, Goto
  <2>5. {"issue", "user", "ended", "revoke"} \subseteq Steps
    BY DEF Steps
  <2>6. \/ LoginRead(c) \/ IssueRead(c)
        \/ \E t \in Calls : RefreshConsume(c, t)
        \/ \E s \in {"issue", "change"} :
               call' = [call EXCEPT ![c].seen = user, ![c].step = s]
        \/ \E s \in {"issue", "user", "ended", "revoke"} : Goto(c, s)
    BY <1>2, Zenon DEF Step, LoginRehash, IssueStore, RefreshEpoch, RefreshUser,
       ChangeRead, ChangeCommit, ChangeRevoke, Crash, Logout, End
  <2>. QED
    BY <2>1, <2>2, <2>3, <2>4, <2>5, <2>6
<1>3. CASE LoginRead(d)
  BY <1>3 DEF LoginRead, TypeOK, Call
<1>4. CASE IssueRead(d)
  BY <1>4 DEF IssueRead, TypeOK, Call
<1>5. ASSUME NEW t \in Calls, RefreshConsume(d, t)
      PROVE  call'[d].step = "epoch"
  BY <1>5 DEF RefreshConsume, TypeOK, Call
<1>6. ASSUME call' = [call EXCEPT ![d].seen = user, ![d].step = "issue"]
      PROVE  call'[d].step = "issue"
  BY <1>6, SeenFrame DEF Steps
<1>7. ASSUME NEW s \in {"issue", "user", "ended", "revoke"}, Goto(d, s)
      PROVE  call'[d].step = s
  <2>1. s \in Steps
    BY DEF Steps
  <2>. QED
    BY <1>7, <2>1, GotoFrame
<1>8. CASE Step(d)
  <2>1. \/ LoginRead(d) \/ IssueRead(d)
        \/ \E t \in Calls : RefreshConsume(d, t)
        \/ \E t \in Calls : ChangeRead(d, t)
        \/ call' = [call EXCEPT ![d].seen = user, ![d].step = "issue"]
        \/ \E s \in {"issue", "user", "ended", "revoke"} : Goto(d, s)
    BY <1>8, Zenon DEF Step, LoginRehash, IssueStore, RefreshEpoch, RefreshUser,
       ChangeCommit, ChangeRevoke, Crash, Logout, End
  <2>2. ASSUME NEW t \in Calls, ChangeRead(d, t) PROVE call'[d].step = "change"
    BY <2>2, SeenFrame DEF ChangeRead, Steps
  <2>. QED
    BY <2>1, <2>2, <1>3, <1>4, <1>5, <1>6, <1>7
<1>. QED
  BY <1>1, <1>2, <1>8 DEF Next, SetActive, Flush, Expire, vars

(* A call that is changing the password is alone, so the row it read stays.  *)
LEMMA ChangeKept ==
  ASSUME VersionsInv, [Next]_vars, ~crossed'
  PROVE  ChangeReadsTheRow'
<1>. USE DEF VersionsInv, TokensInv
<1>1. ASSUME NEW c \in Calls, ChangeCommit(c) PROVE ChangeReadsTheRow'
  <2>1. Goto(c, "revoke") /\ "revoke" \in Steps /\ At(c, "change")
    BY <1>1 DEF ChangeCommit, Steps
  <2>2. /\ call'[c].step = "revoke"
        /\ \A d \in Calls \ {c} : call'[d] = call[d]
    BY <2>1, GotoFrame
  <2>3. \A d \in Calls \ {c} : call[d].step # "change"
    BY <2>1 DEF ChangeReadsTheRow, At
  <2>4. \A d \in Calls : call'[d].step # "change"
    BY <2>2, <2>3
  <2>. QED
    BY <2>4 DEF ChangeReadsTheRow, At
<1>2. ASSUME NEW c \in Calls, NEW t \in Calls, ChangeRead(c, t)
      PROVE  ChangeReadsTheRow'
  <2>1. /\ call' = [call EXCEPT ![c].seen = user, ![c].step = "change"]
        /\ "change" \in Steps /\ UNCHANGED user
    BY <1>2 DEF ChangeRead, Steps
  <2>2. \A d \in Calls : call[d].step # "change" /\ call[d].step # "rehash"
    BY <1>2 DEF ChangeRead, Changing, Rehashing, At
  <2>. QED
    BY <2>1, <2>2, SeenFrame DEF ChangeReadsTheRow, At
<1>3. ASSUME \A c \in Calls : ~ChangeCommit(c),
             \A c, t \in Calls : ~ChangeRead(c, t)
      PROVE  ChangeReadsTheRow'
  <2>1. \A d \in Calls : call'[d].step = "change" =>
            call[d].step = "change" /\ call'[d].seen = call[d].seen
    BY <1>3, WritersStep
  <2>2. user'.version = user.version
    BY <1>3, VersionKept
  <2>3. ASSUME NEW c \in Calls, NEW d \in Calls, call'[c].step = "change",
               call'[d].step = "rehash"
        PROVE  FALSE
    <3>1. call[c].step = "change" /\ call[d].step # "rehash"
      BY <2>1, <2>3 DEF ChangeReadsTheRow, At
    <3>2. LoginRead(d) /\ call'[d].step = "rehash"
      BY <2>3, <3>1, WritersStep
    <3>3. call'[d].step = IF user.outdated THEN "rehash" ELSE "issue"
      BY <3>2 DEF LoginRead, NeedsRehash, TypeOK, Call
    <3>4. Changing # {}
      BY <3>1 DEF Changing, At
    <3>5. ~user.outdated
      BY <3>2, <3>4 DEF LoginRead
    <3>. QED
      BY <3>2, <3>3, <3>5
  <2>. QED
    BY <2>1, <2>2, <2>3 DEF ChangeReadsTheRow, At
<1>. QED
  BY <1>1, <1>2, <1>3

LEMMA VersionsStep ==
  ASSUME VersionsInv, [Next]_vars, ~crossed'
  PROVE  /\ VersionsInv'
         /\ user'.version >= user.version
<1>. USE DEF VersionsInv
<1>1. TokensInv' /\ ChangeReadsTheRow'
  BY TokensStep, ChangeKept
<1>2. user.version \in Nat
  BY DEF TokensInv, TypeOK, User
<1>3. CASE \A c \in Calls : ~ChangeCommit(c)
  BY <1>1, <1>2, <1>3, VersionKept
<1>4. ASSUME NEW c \in Calls, ChangeCommit(c)
      PROVE  user'.version = user.version + 1 /\ NothingIsAhead'
  <2>1. /\ Goto(c, "revoke") /\ "revoke" \in Steps /\ At(c, "change")
        /\ UNCHANGED pair
        /\ user'.version = NextVersion(call[c].seen.version)
    BY <1>4 DEF ChangeCommit, Steps, TokensInv, TypeOK, User
  <2>2. user'.version = user.version + 1
    BY <2>1 DEF NextVersion, ChangeReadsTheRow
  <2>3. \A d \in Calls : pair[d].tv \in Nat /\ call[d].seen.version \in Nat
    BY DEF TokensInv, TypeOK, Call, Pair, User
  <2>4. /\ call'[c].step = "revoke" /\ UNCHANGED pair
        /\ \A d \in Calls \ {c} : call'[d] = call[d]
    BY <2>1, GotoFrame DEF TokensInv
  <2>5. NothingIsAhead'
    <3>. SUFFICES ASSUME NEW d \in Calls
                  PROVE  /\ call'[d].step \in {"rehash", "issue", "store"}
                             => call'[d].seen.version <= user'.version
                         /\ pair'[d].issued => pair'[d].tv <= user'.version
      BY DEF NothingIsAhead
    <3>1. pair'[d].issued => pair'[d].tv <= user'.version
      BY <1>2, <2>2, <2>3, <2>4 DEF NothingIsAhead
    <3>2. CASE d = c
      BY <2>4, <3>1, <3>2
    <3>3. CASE d # c
      BY <1>2, <2>2, <2>3, <2>4, <3>1, <3>3 DEF NothingIsAhead
    <3>. QED
      BY <3>2, <3>3
  <2>. QED
    BY <2>2, <2>5
<1>. QED
  BY <1>1, <1>2, <1>3, <1>4

-----------------------------------------------------------------------------
(* Passwords                                                                 *)

LEMMA VouchFrame ==
  ASSUME VersionVouches, NEW c \in Calls,
         user'.version = user.version, user'.secret = user.secret,
         \A d \in Calls \ {c} : call'[d] = call[d] /\ pair'[d] = pair[d],
         call'[c].step \in {"issue", "store"}
             /\ call'[c].seen.version = user.version
             => call'[c].basis = user.secret,
         pair'[c].issued /\ pair'[c].tv = user.version
             => pair'[c].basis = user.secret
  PROVE  VersionVouches'
  BY DEF VersionVouches

LEMMA RehashKept ==
  ASSUME VouchedInv, [Next]_vars
  PROVE  /\ RehashKeepsThePassword'
         /\ (\A c \in Calls : ~ChangeCommit(c)) => user'.secret = user.secret
<1>. USE DEF VouchedInv, VersionsInv, TokensInv
<1>1. ASSUME NEW c \in Calls, ChangeCommit(c) PROVE RehashKeepsThePassword'
  <2>1. Goto(c, "revoke") /\ "revoke" \in Steps /\ At(c, "change")
    BY <1>1 DEF ChangeCommit, Steps
  <2>2. user'.secret = lastSet'
    BY <1>1 DEF ChangeCommit, TypeOK, User
  <2>3. \A d \in Calls : call'[d].step # "rehash"
    BY <2>1, GotoFrame DEF ChangeReadsTheRow, At
  <2>. QED
    BY <2>2, <2>3 DEF RehashKeepsThePassword, At
<1>2. ASSUME \A c \in Calls : ~ChangeCommit(c)
      PROVE  RehashKeepsThePassword' /\ user'.secret = user.secret
  <2>1. user'.secret = user.secret
    <3>1. CASE SetActive
      BY <3>1 DEF SetActive, TypeOK, User
    <3>2. ASSUME NEW c \in Calls, LoginRehash(c)
          PROVE  user'.secret = user.secret
      BY <3>2 DEF LoginRehash, RehashKeepsThePassword, TypeOK, User
    <3>3. CASE ~SetActive /\ \A c \in Calls : ~LoginRehash(c)
      <4>1. UNCHANGED user
        BY <1>2, <3>3 DEF Next, Step, vars, LoginRead, IssueRead,
           IssueStore, RefreshEpoch, RefreshUser, ChangeRevoke, Crash,
           RefreshConsume, Logout, ChangeRead, Flush, Expire
      <4>. QED
        BY <4>1
    <3>. QED
      BY <3>1, <3>2, <3>3
  <2>2. UNCHANGED lastSet
    BY <1>2 DEF Next, Step, vars, LoginRead, LoginRehash, IssueRead,
       IssueStore, RefreshEpoch, RefreshUser, ChangeRevoke, Crash,
       RefreshConsume, Logout, ChangeRead, SetActive, Flush, Expire
  <2>3. \A d \in Calls : call'[d].step = "rehash"
                             => call'[d].basis = user.secret
    BY WritersStep DEF RehashKeepsThePassword, At
  <2>. QED
    BY <2>1, <2>2, <2>3 DEF RehashKeepsThePassword, At
<1>. QED
  BY <1>1, <1>2

LEMMA VouchedStep ==
  ASSUME VouchedInv, [Next]_vars, ~crossed'
  PROVE  VouchedInv'
<1>. USE DEF VouchedInv
<1>1. VersionsInv' /\ RehashKeepsThePassword'
  BY VersionsStep, RehashKept
<1>2. user.version \in Nat /\ TypeOK
  BY DEF VersionsInv, TokensInv, TypeOK, User
<1>3. ASSUME NEW c \in Calls, ChangeCommit(c) PROVE VersionVouches'
  <2>1. /\ Goto(c, "revoke") /\ "revoke" \in Steps /\ UNCHANGED pair
        /\ At(c, "change")
        /\ user'.version = NextVersion(call[c].seen.version)
    BY <1>2, <1>3 DEF ChangeCommit, Steps, TypeOK, User
  <2>2. user'.version = user.version + 1
    BY <2>1 DEF NextVersion, VersionsInv, ChangeReadsTheRow
  <2>3. \A d \in Calls : pair[d].tv \in Nat /\ call[d].seen.version \in Nat
    BY <1>2 DEF TypeOK, Call, Pair, User
  <2>4. /\ call'[c].step = "revoke"
        /\ \A d \in Calls \ {c} : call'[d] = call[d]
    BY <1>2, <2>1, GotoFrame
  <2>5. \A d \in Calls : pair[d].issued => pair[d].tv # user'.version
    BY <1>2, <2>2, <2>3 DEF VersionsInv, NothingIsAhead
  <2>6. \A d \in Calls : call[d].step \in {"issue", "store"}
                             => call[d].seen.version # user'.version
    BY <1>2, <2>2, <2>3 DEF VersionsInv, NothingIsAhead
  <2>. QED
    BY <2>1, <2>4, <2>5, <2>6 DEF VersionVouches
<1>4. ASSUME \A c \in Calls : ~ChangeCommit(c) PROVE VersionVouches'
  <2>1. user'.version = user.version /\ user'.secret = user.secret
    BY <1>4, VersionKept, RehashKept
  <2>2. CASE UNCHANGED <<pair, call>>
    BY <2>1, <2>2 DEF VersionVouches
  <2>3. ASSUME NEW c \in Calls, Step(c) PROVE VersionVouches'
    <3>1. CASE LoginRead(c)
      <4>1. /\ call'[c].basis = user.secret /\ UNCHANGED pair
            /\ \A d \in Calls \ {c} : call'[d] = call[d]
        BY <1>2, <3>1 DEF LoginRead, TypeOK, Call
      <4>2. pair'[c].issued /\ pair'[c].tv = user.version
                => pair'[c].basis = user.secret
        BY <4>1 DEF VersionVouches
      <4>. QED
        BY <2>1, <4>1, <4>2, VouchFrame
    <3>2. CASE IssueRead(c)
      <4>1. /\ call'[c].basis = call[c].basis /\ call'[c].seen = call[c].seen
            /\ call[c].step = "issue" /\ UNCHANGED pair
            /\ \A d \in Calls \ {c} : call'[d] = call[d]
        BY <1>2, <3>2 DEF IssueRead, At, TypeOK, Call
      <4>. QED
        BY <2>1, <4>1 DEF VersionVouches
    <3>3. CASE IssueStore(c)
      <4>1. /\ Goto(c, "ended") /\ "ended" \in Steps /\ call[c].step = "store"
            /\ pair'[c].tv = call[c].seen.version
            /\ pair'[c].basis = call[c].basis
            /\ \A d \in Calls \ {c} : pair'[d] = pair[d]
        BY <1>2, <3>3 DEF IssueStore, End, Steps, At, TokenVersion, TypeOK
      <4>2. /\ call'[c].step = "ended"
            /\ \A d \in Calls \ {c} : call'[d] = call[d]
        BY <1>2, <4>1, GotoFrame
      <4>3. pair'[c].tv = user.version => pair'[c].basis = user.secret
        BY <4>1 DEF VersionVouches
      <4>. QED
        BY <2>1, <4>1, <4>2, <4>3, VouchFrame
    <3>4. CASE RefreshUser(c)
      <4>1. CASE Goto(c, "ended")
        <5>1. /\ call'[c].step = "ended" /\ UNCHANGED pair
              /\ \A d \in Calls \ {c} : call'[d] = call[d]
          BY <1>2, <3>4, <4>1, GotoFrame DEF RefreshUser, Steps
        <5>. QED
          BY <2>1, <5>1 DEF VersionVouches
      <4>2. CASE VersionMatches(call[c].from)
                 /\ call' = [call EXCEPT ![c].seen = user, ![c].step = "issue"]
        <5>1. /\ call'[c].seen = user /\ call'[c].basis = call[c].basis
              /\ UNCHANGED pair
              /\ \A d \in Calls \ {c} : call'[d] = call[d]
          BY <1>2, <3>4, <4>2, SeenFrame DEF RefreshUser, Steps
        <5>2. /\ call[c].from \in Calls
              /\ pair[call[c].from].issued
              /\ call[c].basis = pair[call[c].from].basis
          BY <1>2, <3>4 DEF RefreshUser, At, VersionsInv, TokensInv, Call,
             TypeOK, OnlyRefreshesHold, RefreshHoldsItsToken, Secret
        <5>3. call[c].basis = user.secret
          BY <4>2, <5>2 DEF VersionMatches, VersionVouches
        <5>. QED
          BY <2>1, <5>1, <5>3 DEF VersionVouches
      <4>. QED
        BY <3>4, <4>1, <4>2, Zenon DEF RefreshUser, End
    <3>5. ASSUME NEW t \in Calls,
                 \/ RefreshConsume(c, t) \/ Logout(c, t) \/ ChangeRead(c, t)
                 \/ RefreshEpoch(c) \/ ChangeRevoke(c) \/ Crash(c)
          PROVE  VersionVouches'
      <4>1. /\ call'[c].step \notin {"issue", "store"}
            /\ \A d \in Calls \ {c} : call'[d] = call[d]
        <5>1. CASE RefreshConsume(c, t)
          BY <1>2, <5>1 DEF RefreshConsume, TypeOK, Call
        <5>2. CASE ChangeRead(c, t)
          BY <1>2, <5>2, SeenFrame DEF ChangeRead, Steps
        <5>3. ASSUME NEW s \in {"user", "ended"}, Goto(c, s)
              PROVE  /\ call'[c].step \notin {"issue", "store"}
                     /\ \A d \in Calls \ {c} : call'[d] = call[d]
          <6>1. s \in Steps
            BY DEF Steps
          <6>2. call'[c].step = s /\ \A d \in Calls \ {c} : call'[d] = call[d]
            BY <1>2, <5>3, <6>1, GotoFrame
          <6>. QED
            BY <6>2
        <5>4. \/ RefreshConsume(c, t) \/ ChangeRead(c, t)
              \/ \E s \in {"user", "ended"} : Goto(c, s)
          BY <3>5, Zenon DEF Logout, RefreshEpoch, ChangeRevoke, Crash, End
        <5>. QED
          BY <5>1, <5>2, <5>3, <5>4
      <4>2. UNCHANGED pair
        BY <3>5 DEF RefreshConsume, Logout, ChangeRead, RefreshEpoch,
           ChangeRevoke, Crash
      <4>. QED
        BY <2>1, <4>1, <4>2 DEF VersionVouches
    <3>6. CASE LoginRehash(c)
      <4>1. /\ Goto(c, "issue") /\ "issue" \in Steps /\ UNCHANGED pair
            /\ call[c].basis = user.secret
        BY <3>6 DEF LoginRehash, Steps, RehashKeepsThePassword
      <4>2. /\ call'[c].basis = user.secret
            /\ \A d \in Calls \ {c} : call'[d] = call[d]
        BY <1>2, <4>1, GotoFrame
      <4>3. pair'[c].issued /\ pair'[c].tv = user.version
                => pair'[c].basis = user.secret
        BY <4>1 DEF VersionVouches
      <4>. QED
        BY <2>1, <4>1, <4>2, <4>3, VouchFrame
    <3>. QED
      BY <2>3, <1>4, <3>1, <3>2, <3>3, <3>4, <3>5, <3>6 DEF Step
  <2>. QED
    BY <2>2, <2>3 DEF Next, SetActive, Flush, Expire, vars
<1>. QED
  BY <1>1, <1>3, <1>4

-----------------------------------------------------------------------------
(* Theorems                                                                  *)

(* Types, and keys only of tokens that were issued.                          *)
THEOREM SessionsTypeCorrect == Spec => []TypeOK
<1>1. Init => TokensInv
  BY TokensInit
<1>2. TokensInv /\ [Next]_vars => TokensInv'
  BY TokensStep
<1>3. TokensInv => TypeOK
  BY DEF TokensInv
<1>. QED
  BY <1>1, <1>2, <1>3, PTL DEF Spec

(* A refresh token is exchanged once, whatever overlaps, crashes or is lost. *)
THEOREM RefreshIsExchangedOnce == Spec => []OneSuccessor
<1>1. TokensInv => OneSuccessor
  BY DEF TokensInv, OneSuccessor, IssuedFromItsCall, RefreshHoldsItsToken
<1>2. Init => TokensInv
  BY TokensInit
<1>3. TokensInv /\ [Next]_vars => TokensInv'
  BY TokensStep
<1>. QED
  BY <1>1, <1>2, <1>3, PTL DEF Spec

LEMMA VersionsInit == Init => VersionsInv
<1>. SUFFICES ASSUME Init PROVE VersionsInv
  OBVIOUS
<1>1. TokensInv
  BY TokensInit
<1>2. NothingIsAhead
  BY DEF Init, NothingIsAhead, Idle, NoPair
<1>3. ChangeReadsTheRow
  BY DEF Init, ChangeReadsTheRow, At, Idle
<1>. QED
  BY <1>1, <1>2, <1>3 DEF VersionsInv

(* What a call has issued is never written again.                            *)
LEMMA PairsAreKept ==
  ASSUME TokensInv, [Next]_vars, NEW t \in Calls, pair[t].issued
  PROVE  pair'[t] = pair[t]
<1>1. \A c \in Calls : IssueStore(c) => c # t
  BY DEF IssueStore, At, TokensInv, IssuedHasEnded
<1>. QED
  BY <1>1 DEF Next, Step, vars, LoginRead, LoginRehash, IssueRead, IssueStore,
     RefreshEpoch, RefreshUser, ChangeCommit, ChangeRevoke, Crash,
     RefreshConsume, Logout, ChangeRead, SetActive, Flush, Expire,
     TokensInv, TypeOK

(* The step at which calls cross is a read.                                  *)
LEMMA CrossingIsARead ==
  ASSUME [Next]_vars, ~crossed, crossed'
  PROVE  UNCHANGED <<user, pair>>
  BY DEF Next, Step, vars, LoginRead, LoginRehash, IssueRead, IssueStore,
     RefreshEpoch, RefreshUser, ChangeCommit, ChangeRevoke, Crash,
     RefreshConsume, Logout, ChangeRead, SetActive, Flush, Expire

(* As long as no change of the password crosses another writer of it, a      *)
(* token that a change revoked stays revoked.                                *)
THEOREM RevocationHolds == Spec => RevokedStaysRevoked
<1>. DEFINE Inv == TokensInv /\ (~crossed => VersionsInv)
<1>1. Init => Inv
  BY VersionsInit DEF VersionsInv
<1>2. Inv /\ [Next]_vars => Inv'
  BY TokensStep, VersionsStep, CrossedRemains
<1>3. Inv /\ Inv' /\ [Next]_vars
          => [~crossed => \A t \in Calls : Revoked(t) => Revoked(t)']_vars
  <2>1. ASSUME Inv, Inv', Next, ~crossed, ~crossed', NEW t \in Calls, Revoked(t)
        PROVE  Revoked(t)'
    <3>. USE <2>1 DEF Next
    <3>1. VersionsInv
      BY DEF Inv
    <3>2. /\ pair[t].issued /\ pair[t].tv # user.version
          /\ pair[t].tv <= user.version /\ user'.version >= user.version
      BY <3>1, VersionsStep DEF Revoked, VersionMatches, VersionsInv,
         NothingIsAhead
    <3>3. /\ pair[t].tv \in Nat /\ user.version \in Nat
          /\ user'.version \in Nat
      BY DEF TokensInv, TypeOK, Pair, User
    <3>4. pair'[t] = pair[t]
      BY <3>2, PairsAreKept
    <3>5. pair[t].tv # user'.version
      BY <3>2, <3>3
    <3>. QED
      BY <3>2, <3>4, <3>5 DEF Revoked, VersionMatches
  <2>2. ASSUME Next, ~crossed, crossed', NEW t \in Calls, Revoked(t)
        PROVE  Revoked(t)'
    BY <2>2, CrossingIsARead DEF Revoked, VersionMatches
  <2>3. ASSUME UNCHANGED vars, NEW t \in Calls, Revoked(t)
        PROVE  Revoked(t)'
    BY <2>3 DEF vars, Revoked, VersionMatches
  <2>. QED
    BY <2>1, <2>2, <2>3
<1>. QED
  BY <1>1, <1>2, <1>3, PTL DEF Spec, RevokedStaysRevoked

LEMMA VouchedInit == Init => VouchedInv
<1>. SUFFICES ASSUME Init PROVE VouchedInv
  OBVIOUS
<1>1. RehashKeepsThePassword
  BY DEF Init, RehashKeepsThePassword, At, Idle, FirstUser
<1>2. VersionVouches
  BY DEF Init, VersionVouches, Idle, NoPair
<1>. QED
  BY <1>1, <1>2, VersionsInit DEF VouchedInv

(* As long as no change of the password crosses another writer of it, the    *)
(* password is the one last set, and every accepted token is of a session    *)
(* that was opened with it.                                                  *)
THEOREM SessionsFollowThePassword ==
  Spec => [](SessionsAreOfThePassword /\ PasswordStands)
<1>. DEFINE Inv == TokensInv /\ (~crossed => VouchedInv)
<1>1. Init => Inv
  BY TokensInit, VouchedInit
<1>2. Inv /\ [Next]_vars => Inv'
  BY TokensStep, VouchedStep, CrossedRemains
<1>3. Inv => SessionsAreOfThePassword /\ PasswordStands
  BY DEF VouchedInv, SessionsAreOfThePassword, PasswordStands, AccessAccepted,
     VersionMatches, VersionVouches, RehashKeepsThePassword
<1>. QED
  BY <1>1, <1>2, <1>3, PTL DEF Spec

(* Unless a change of password crosses another writer, tokens and stored     *)
(* password are of the last one that was set.                                *)
THEOREM PasswordRulesHold == Spec => []PasswordRules
  BY SessionsTypeCorrect, SessionsFollowThePassword, PTL DEF PasswordRules

-----------------------------------------------------------------------------
(* The deletion: the foreign keys, rule by rule                              *)

AllKeys ==
    AccountKeys \cup RequestKeys \cup OrderKeys \cup ConversationKeys \cup ReviewKeys

(* Every row that refers to another with ON DELETE CASCADE.                  *)
LEMMA CascadesListed ==
  ASSUME NEW k \in CascadeKeys
  PROVE  \/ k \in {<<"profile", "customer">>, <<"news", "customer">>,
                   <<"request", "customer">>, <<"conversation", "customer">>,
                   <<"question", "customer">>, <<"review", "customer">>}
         \/ k \in {<<"workshop", "technician">>, <<"alert", "technician">>,
                   <<"answer", "technician">>}
         \/ k \in {<<"skill", "workshop">>, <<"quotation", "workshop">>,
                   <<"conversation", "workshop">>, <<"review", "workshop">>}
         \/ k = <<"skill", "specialty">>
         \/ k \in {<<"image", "request">>, <<"quotation", "request">>,
                   <<"order", "request">>, <<"conversation", "request">>}
         \/ k \in {<<"event", "order">>, <<"review", "order">>}
         \/ k \in {<<"question", "conversation">>, <<"answer", "conversation">>}
<1>1. PICK key \in AllKeys : key[3] = "CASCADE" /\ k = <<key[1], key[2]>>
  BY DEF CascadeKeys, Keys, AllKeys
<1>2. CASE key \in AccountKeys
  BY <1>1, <1>2 DEF AccountKeys
<1>3. CASE key \in RequestKeys
  BY <1>1, <1>3 DEF RequestKeys
<1>4. CASE key \in OrderKeys
  BY <1>1, <1>4 DEF OrderKeys
<1>5. CASE key \in ConversationKeys
  BY <1>1, <1>5 DEF ConversationKeys
<1>6. CASE key \in ReviewKeys
  BY <1>1, <1>6 DEF ReviewKeys
<1> QED
  BY <1>1, <1>2, <1>3, <1>4, <1>5, <1>6 DEF AllKeys

LEMMA RestrictsListed ==
  ASSUME NEW k \in RestrictKeys
  PROVE  k[1] = "order" /\ k[2] \in {"quotation", "customer", "workshop"}
<1>1. PICK key \in AllKeys : key[3] = "RESTRICT" /\ k = <<key[1], key[2]>>
  BY DEF RestrictKeys, Keys, AllKeys
<1>2. key \in OrderKeys
  BY <1>1 DEF AllKeys, AccountKeys, RequestKeys, ConversationKeys, ReviewKeys
<1> QED
  BY <1>1, <1>2 DEF OrderKeys

LEMMA SetNullsListed ==
  ASSUME NEW k \in SetNullKeys
  PROVE  k \in {<<"request", "specialty">>, <<"request", "workshop">>,
               <<"event", "technician">>, <<"conversation", "order">>}
<1>1. PICK key \in AllKeys : key[3] = "SET_NULL" /\ k = <<key[1], key[2]>>
  BY DEF SetNullKeys, Keys, AllKeys
<1>2. CASE key \in RequestKeys
  BY <1>1, <1>2 DEF RequestKeys
<1>3. CASE key \in OrderKeys
  BY <1>1, <1>3 DEF OrderKeys
<1>4. CASE key \in ConversationKeys
  BY <1>1, <1>4 DEF ConversationKeys
<1>5. key \notin AccountKeys /\ key \notin ReviewKeys
  BY <1>1 DEF AccountKeys, ReviewKeys
<1> QED
  BY <1>1, <1>2, <1>3, <1>4, <1>5 DEF AllKeys

(* The keys that the arguments below follow.                                 *)
LEMMA KeysThere ==
  /\ {<<"request", "customer">>, <<"profile", "customer">>, <<"workshop", "technician">>,
      <<"quotation", "request">>, <<"quotation", "workshop">>, <<"event", "order">>,
      <<"order", "request">>, <<"question", "conversation">>,
      <<"answer", "conversation">>} \subseteq CascadeKeys
  /\ {<<"order", "quotation">>, <<"order", "customer">>,
      <<"order", "workshop">>} \subseteq RestrictKeys
  /\ {<<"request", "specialty">>, <<"request", "workshop">>} \subseteq SetNullKeys
<1>1. ASSUME NEW a, NEW b, <<a, b, "CASCADE">> \in AllKeys
      PROVE  <<a, b>> \in CascadeKeys
  BY <1>1 DEF AllKeys, CascadeKeys, Keys
<1>2. ASSUME NEW a, NEW b, <<a, b, "RESTRICT">> \in AllKeys
      PROVE  <<a, b>> \in RestrictKeys
  BY <1>2 DEF AllKeys, RestrictKeys, Keys
<1>3. ASSUME NEW a, NEW b, <<a, b, "SET_NULL">> \in AllKeys
      PROVE  <<a, b>> \in SetNullKeys
  BY <1>3 DEF AllKeys, SetNullKeys, Keys
<1>4. {<<"request", "customer">>, <<"profile", "customer">>, <<"workshop", "technician">>,
       <<"quotation", "request">>, <<"quotation", "workshop">>} \subseteq CascadeKeys
  BY <1>1 DEF AllKeys, AccountKeys, RequestKeys
<1>5. {<<"event", "order">>, <<"order", "request">>, <<"question", "conversation">>,
       <<"answer", "conversation">>} \subseteq CascadeKeys
  BY <1>1 DEF AllKeys, OrderKeys, ConversationKeys
<1>6. {<<"order", "quotation">>, <<"order", "customer">>,
       <<"order", "workshop">>} \subseteq RestrictKeys
  BY <1>2 DEF AllKeys, OrderKeys
<1>7. {<<"request", "specialty">>, <<"request", "workshop">>} \subseteq SetNullKeys
  BY <1>3 DEF AllKeys, RequestKeys
<1> QED
  BY <1>4, <1>5, <1>6, <1>7

-----------------------------------------------------------------------------
(* What falls with a row                                                     *)

(* How long a chain of rows can fall with one.                               *)
Height(r) ==
    CASE r \in Users -> 3
      [] r \in {"request", "workshop"} -> 2
      [] r \in {"order", "conversation", "specialty"} -> 1
      [] OTHER -> 0

LEMMA KeysLeadUp ==
  ASSUME NEW k \in CascadeKeys
  PROVE  /\ Height(k[1]) < Height(k[2])
         /\ Height(k[1]) \in 0 .. 3 /\ Height(k[2]) \in 0 .. 3
  BY CascadesListed DEF Height, Users

LEMMA FallGrows ==
  ASSUME NEW S
  PROVE  S \subseteq Fall(S)
  BY DEF Fall

LEMMA WhatFalls ==
  ASSUME NEW S, NEW r \in Fall(S), r \notin S
  PROVE  \E k \in CascadeKeys : k[1] = r /\ r \in rows /\ k[2] \in S
  BY DEF Fall

LEMMA ItFalls ==
  ASSUME NEW S, NEW k \in CascadeKeys, k[1] \in rows, k[2] \in S
  PROVE  k[1] \in Fall(S)
  BY DEF Fall

LEMMA NothingElseFalls ==
  ASSUME NEW S, NEW O, S \subseteq O,
         \A k \in CascadeKeys : k[1] \in rows /\ k[2] \in O => k[1] \in O
  PROVE  Fall(S) \subseteq O
  BY WhatFalls

(* Three rounds of falling are enough.                                       *)
LEMMA TakenIsAll ==
  ASSUME NEW t, NEW k \in CascadeKeys, k[1] \in rows, k[2] \in Taken(t)
  PROVE  k[1] \in Taken(t)
<1> DEFINE One == Fall({t})
           Two == Fall(One)
<1>1. {t} \subseteq One /\ One \subseteq Two /\ Two \subseteq Taken(t)
  BY FallGrows DEF Taken
<1>3. ASSUME NEW r \in One, r # t
      PROVE  Height(r) \in 0 .. 2
  <2>1. PICK h \in CascadeKeys : h[1] = r
    BY <1>3, WhatFalls
  <2> QED
    BY <2>1, KeysLeadUp
<1>4. ASSUME NEW r \in Two, r \notin One
      PROVE  Height(r) \in 0 .. 1
  <2>1. PICK h \in CascadeKeys : h[1] = r /\ r \in rows /\ h[2] \in One
    BY <1>4, WhatFalls
  <2>2. h[2] # t
    BY <1>4, <2>1, ItFalls
  <2> QED
    BY <1>3, <2>1, <2>2, KeysLeadUp
<1>5. CASE k[2] \in Two
  BY <1>5, ItFalls DEF Taken
<1>6. CASE k[2] \notin Two
  <2>1. PICK h \in CascadeKeys : h[1] = k[2] /\ k[2] \in rows /\ h[2] \in Two
    BY <1>6, WhatFalls DEF Taken
  <2>2. h[2] \notin One
    BY <1>6, <2>1, ItFalls
  <2>3. Height(h[2]) \in 0 .. 1
    BY <1>4, <2>1, <2>2
  <2> QED
    BY <2>1, <2>3, KeysLeadUp
<1> QED
  BY <1>5, <1>6

LEMMA TakenFor ==
  ASSUME NEW t, NEW r \in Taken(t), r # t
  PROVE  \E k \in CascadeKeys : k[1] = r /\ r \in rows /\ k[2] \in Taken(t)
<1> DEFINE One == Fall({t})
           Two == Fall(One)
<1>1. {t} \subseteq One /\ One \subseteq Two /\ Two \subseteq Taken(t)
  BY FallGrows DEF Taken
<1>2. r \in Fall(Two)
  BY DEF Taken
<1>3. r \notin {t}
  OBVIOUS
<1> HIDE DEF One, Two
<1>4. CASE r \in One
  <2>1. \E k \in CascadeKeys : k[1] = r /\ r \in rows /\ k[2] \in {t}
    BY <1>3, <1>4, WhatFalls DEF One
  <2> QED
    BY <1>1, <2>1
<1>5. CASE r \in Two \ One
  <2>1. \E k \in CascadeKeys : k[1] = r /\ r \in rows /\ k[2] \in One
    BY <1>5, WhatFalls DEF Two
  <2> QED
    BY <1>1, <2>1
<1>6. CASE r \notin Two
  <2>1. \E k \in CascadeKeys : k[1] = r /\ r \in rows /\ k[2] \in Two
    BY <1>2, <1>6, WhatFalls
  <2> QED
    BY <1>1, <2>1
<1> QED
  BY <1>4, <1>5, <1>6

-----------------------------------------------------------------------------
(* The inductive invariant                                                   *)

(* No row refers to one that is gone.                                        *)
KeysHold ==
    \A k \in CascadeKeys \cup RestrictKeys : k[1] \in rows => k[2] \in rows

(* What depends on a new row is new.                                         *)
BornTogether ==
    \A k \in CascadeKeys : k[1] \in rows /\ k[2] \in born => k[1] \in born

(* What a count did not find came behind it: the row itself, or its          *)
(* reference to the specialty.                                               *)
Came(r) == r \in born \/ (r = "request" /\ target = "specialty" /\ given)

CountedAreBorn ==
    target # Nothing =>
        /\ checked \in 0 .. Len(Counts(target))
        /\ \A i \in 1 .. checked : Counted(Counts(target)[i]) => Came(Counts(target)[i])

OrdersAreTalkedAbout == "order" \in rows <=> "conversation" \in rows

DeletionInv ==
    /\ DeletionTypeOK /\ KeysHold /\ BornTogether
    /\ CountedAreBorn /\ OrdersAreTalkedAbout

(* An order, where there is one, holds on to its neighbours: a deletion that *)
(* is not refused takes none of them, and not its technician either.         *)
LEMMA OrdersHoldOn ==
  ASSUME DeletionInv, "order" \in rows, ~Restricted(target),
         target \in Roots \cup {"request"}
  PROVE  Taken(target) \cap {"order", "request", "quotation", "conversation",
                            "customer", "workshop", "technician"} = {}
<1>1. {"request", "quotation", "customer", "workshop"} \subseteq rows
  BY KeysThere DEF DeletionInv, KeysHold
<1>2. Taken(target) \cap {"quotation", "customer", "workshop"} = {}
  BY KeysThere DEF Restricted
<1>3. "request" \notin Taken(target)
  BY <1>1, <1>2, TakenIsAll, KeysThere
<1>4. "technician" \notin Taken(target)
  BY <1>1, <1>2, TakenIsAll, KeysThere
<1>5. "order" \notin Taken(target)
  <2> SUFFICES ASSUME "order" \in Taken(target) PROVE FALSE
    OBVIOUS
  <2>1. PICK k \in CascadeKeys : k[1] = "order" /\ k[2] \in Taken(target)
    BY TakenFor DEF Roots, Users
  <2> QED
    BY <1>3, <2>1, CascadesListed
<1>6. "conversation" \notin Taken(target)
  <2> SUFFICES ASSUME "conversation" \in Taken(target) PROVE FALSE
    OBVIOUS
  <2>1. PICK k \in CascadeKeys : k[1] = "conversation" /\ k[2] \in Taken(target)
    BY TakenFor DEF Roots, Users
  <2> QED
    BY <1>2, <1>3, <2>1, CascadesListed
<1> QED
  BY <1>2, <1>3, <1>4, <1>5, <1>6

(* What is counted for a user, and a skill, refers to what is deleted.       *)
LEMMA RowsRefer ==
  ASSUME DeletionInv, NEW r \in rows, r # "event", target \in Users \/ r = "skill"
  PROVE  Counted(r)
<1> SUFFICES ASSUME <<r, target>> \in nulled PROVE FALSE
  BY DEF Counted
<1>1. <<r, target>> \in {<<"request", "specialty">>, <<"request", "workshop">>,
                         <<"event", "technician">>, <<"conversation", "order">>}
  BY SetNullsListed DEF DeletionInv, DeletionTypeOK
<1> QED
  BY <1>1 DEF Users

(* What the counts did not find is new where it is there at all.             *)
LEMMA FootprintIsNew ==
  ASSUME DeletionInv, checked = Len(Counts(target)), target # Nothing
  PROVE  /\ target = "customer" =>
              rows \cap {"order", "request", "review", "conversation"} \subseteq born
         /\ target = "technician" =>
              rows \cap {"order", "quotation", "review", "conversation"} \subseteq born
         /\ target = "specialty" =>
              /\ "skill" \in rows => "skill" \in born
              /\ Counted("request") => "request" \in born \/ given
<1>1. \A i \in 1 .. checked : Counted(Counts(target)[i]) => Came(Counts(target)[i])
  BY DEF DeletionInv, CountedAreBorn
<1>2. ASSUME target = "customer"
      PROVE  rows \cap {"order", "request", "review", "conversation"} \subseteq born
  <2>1. Counts(target) = <<"order", "request", "review", "conversation">> /\ checked = 4
    BY <1>2 DEF Counts
  <2>2. {1, 2, 3, 4} \subseteq 1 .. checked
    BY <2>1
  <2>3. \A r \in rows \ {"event"} : Counted(r) /\ (Came(r) => r \in born)
    BY <1>2, RowsRefer DEF Users, Came
  <2> QED
    BY <1>1, <2>1, <2>2, <2>3
<1>3. ASSUME target = "technician"
      PROVE  rows \cap {"order", "quotation", "review", "conversation"} \subseteq born
  <2>1. Counts(target) = <<"order", "quotation", "review", "conversation">> /\ checked = 4
    BY <1>3 DEF Counts
  <2>2. {1, 2, 3, 4} \subseteq 1 .. checked
    BY <2>1
  <2>3. \A r \in rows \ {"event"} : Counted(r) /\ (Came(r) => r \in born)
    BY <1>3, RowsRefer DEF Users, Came
  <2> QED
    BY <1>1, <2>1, <2>2, <2>3
<1>4. ASSUME target = "specialty"
      PROVE  /\ "skill" \in rows => "skill" \in born
             /\ Counted("request") => "request" \in born \/ given
  <2>1. Counts(target) = <<"skill", "request">> /\ checked = 2
    BY <1>4 DEF Counts
  <2>2. {1, 2} \subseteq 1 .. checked
    BY <2>1
  <2>3. "skill" \in rows => Counted("skill")
    BY RowsRefer
  <2> QED
    BY <1>1, <2>1, <2>2, <2>3 DEF Came
<1> QED
  BY <1>2, <1>3, <1>4

(* A deletion takes what is its own and what came behind its counts.         *)
LEMMA TakesItsOwn ==
  ASSUME DeletionInv, checked = Len(Counts(target)), ~Restricted(target),
         target \in Roots \cup {"request"}
  PROVE  Taken(target) \subseteq Own(target) \cup born
<1> DEFINE O == Own(target) \cup born
<1>1. \A k \in CascadeKeys : k[1] \in rows /\ k[2] \in born => k[1] \in born
  BY DEF DeletionInv, BornTogether
<1>2. /\ "question" \in rows \/ "answer" \in rows => "conversation" \in rows
      /\ "conversation" \in rows => "order" \in rows
  BY KeysThere DEF DeletionInv, KeysHold, OrdersAreTalkedAbout
<1>3. "conversation" \in born =>
        /\ "question" \in rows => "question" \in born
        /\ "answer" \in rows => "answer" \in born
  BY <1>1, KeysThere
<1>4. \A k \in CascadeKeys : k[1] \in rows /\ k[2] \in Own(target) => k[1] \in O
  <2> SUFFICES ASSUME NEW k \in CascadeKeys, k[1] \in rows, k[2] \in Own(target)
               PROVE  k[1] \in O
    OBVIOUS
  <2>1. CASE target = "customer"
    <3>1. k[1] \in {"profile", "news", "request", "conversation", "question", "review"}
      BY <2>1, CascadesListed DEF Own
    <3> QED
      BY <1>2, <1>3, <2>1, <3>1, FootprintIsNew DEF Own, Nothing
  <2>2. CASE target = "technician"
    <3>1. k[1] \in {"workshop", "alert", "answer", "skill", "quotation",
                   "conversation", "review"}
      BY <2>2, CascadesListed DEF Own
    <3> QED
      BY <1>2, <1>3, <2>2, <3>1, FootprintIsNew DEF Own, Nothing
  <2>3. CASE target = "specialty"
    <3>1. k[1] = "skill"
      BY <2>3, CascadesListed DEF Own
    <3> QED
      BY <2>3, <3>1, FootprintIsNew DEF Own, Nothing
  <2>4. CASE target = "request"
    <3>1. k[1] \in {"image", "quotation", "order", "conversation"}
      BY <2>4, CascadesListed DEF Own
    <3>2. target \in Taken(target)
      BY FallGrows DEF Taken
    <3>3. "order" \notin rows
      BY <2>4, <3>2, OrdersHoldOn
    <3> QED
      BY <1>2, <2>4, <3>1, <3>3 DEF Own
  <2> QED
    BY <2>1, <2>2, <2>3, <2>4 DEF Roots, Users
<1>5. \A k \in CascadeKeys : k[1] \in rows /\ k[2] \in O => k[1] \in O
  BY <1>1, <1>4
<1>6. {target} \subseteq O
  BY DEF Own, Roots, Users
<1> HIDE DEF O
<1>7. Fall({target}) \subseteq O
  BY <1>5, <1>6, NothingElseFalls
<1>8. Fall(Fall({target})) \subseteq O
  BY <1>5, <1>7, NothingElseFalls
<1>9. Taken(target) \subseteq O
  BY <1>5, <1>8, NothingElseFalls DEF Taken
<1> QED
  BY <1>9 DEF O

LEMMA DeletionInitHolds == DeletionInit => DeletionInv
<1> SUFFICES ASSUME DeletionInit PROVE DeletionInv
  OBVIOUS
<1>1. DeletionTypeOK
  <2>1. given \in BOOLEAN
    BY DEF DeletionInit
  <2> QED
    BY <2>1, RepeatsAssumption DEF DeletionInit, DeletionTypeOK, Names, Roots, Users
<1>2. KeysHold
  <2> SUFFICES ASSUME NEW k \in CascadeKeys \cup RestrictKeys, k[1] \in rows
               PROVE  k[2] \in rows
    BY DEF KeysHold
  <2>1. CASE k \in CascadeKeys
    BY <2>1, CascadesListed DEF DeletionInit, Roots, Users
  <2>2. CASE k \in RestrictKeys
    BY <2>2, RestrictsListed DEF DeletionInit, Roots, Users
  <2> QED
    BY <2>1, <2>2
<1>3. BornTogether /\ CountedAreBorn /\ OrdersAreTalkedAbout
  BY DEF DeletionInit, BornTogether, CountedAreBorn, OrdersAreTalkedAbout, Roots, Users
<1> QED
  BY <1>1, <1>2, <1>3 DEF DeletionInv

(* What a row is inserted on is what its foreign keys refer to.              *)
LEMMA InsertedOnItsParents ==
  ASSUME DeletionInv, NEW r \in Names, Insert(r)
  PROVE  /\ r \in {"skill", "image", "quotation", "event", "question", "answer",
                  "review", "news", "alert"}
         /\ \A k \in CascadeKeys \cup RestrictKeys : k[1] = r => k[2] \in rows
<1>1. Nothing \notin rows
  BY DEF DeletionInv, DeletionTypeOK, Nothing, Names, Roots, Users
<1>2. r \in {"skill", "image", "quotation", "event", "question", "answer",
            "review", "news", "alert"}
  BY <1>1 DEF Insert, Needs
<1>3. "order" \in rows => "workshop" \in rows
  BY KeysThere DEF DeletionInv, KeysHold
<1>4. ASSUME NEW k \in CascadeKeys, k[1] = r
      PROVE  k[2] \in rows
  <2>1. CASE r \in {"skill", "image", "quotation"}
    <3>1. \/ r = "skill" /\ k[2] \in {"workshop", "specialty"}
          \/ r = "image" /\ k[2] = "request"
          \/ r = "quotation" /\ k[2] \in {"request", "workshop"}
      BY <1>4, <2>1, CascadesListed
    <3> QED
      BY <1>3, <3>1 DEF Insert, Needs
  <2>2. CASE r \in {"event", "question", "answer"}
    <3>1. \/ r = "event" /\ k[2] = "order"
          \/ r = "question" /\ k[2] \in {"conversation", "customer"}
          \/ r = "answer" /\ k[2] \in {"conversation", "technician"}
      BY <1>4, <2>2, CascadesListed
    <3> QED
      BY <3>1 DEF Insert, Needs
  <2>3. CASE r \in {"review", "news", "alert"}
    <3>1. \/ r = "review" /\ k[2] \in {"order", "customer", "workshop"}
          \/ r = "news" /\ k[2] = "customer"
          \/ r = "alert" /\ k[2] = "technician"
      BY <1>4, <2>3, CascadesListed
    <3> QED
      BY <1>3, <3>1 DEF Insert, Needs
  <2> QED
    BY <1>2, <2>1, <2>2, <2>3
<1>5. ASSUME NEW k \in RestrictKeys
      PROVE  k[1] # r
  BY <1>2, RestrictsListed
<1> QED
  BY <1>2, <1>4, <1>5

(* Rows that come on their parents keep the references and the history.      *)
LEMMA ArrivalKeepsKeys ==
  ASSUME DeletionInv, NEW R, R \cap rows = {}, Arrive(R),
         \A k \in CascadeKeys \cup RestrictKeys : k[1] \in R => k[2] \in rows \cup R
  PROVE  KeysHold' /\ BornTogether'
<1>1. KeysHold'
  <2>1. \A k \in CascadeKeys \cup RestrictKeys : k[1] \in rows => k[2] \in rows
    BY DEF DeletionInv, KeysHold
  <2> QED
    BY <2>1 DEF KeysHold, Arrive
<1>2. BornTogether'
  <2> SUFFICES ASSUME NEW k \in CascadeKeys, k[1] \in rows', k[2] \in born'
               PROVE  k[1] \in born'
    BY DEF BornTogether
  <2>1. CASE k[1] \in R
    BY <2>1 DEF Arrive
  <2>2. CASE k[1] \in rows
    BY <2>2 DEF Arrive, DeletionInv, KeysHold, BornTogether
  <2> QED
    BY <2>1, <2>2 DEF Arrive
<1> QED
  BY <1>1, <1>2

LEMMA ArrivalKeepsCounts ==
  ASSUME DeletionInv, NEW R, Arrive(R), UNCHANGED <<target, checked, given>>,
         \A r \in rows : <<r, target>> \in nulled =>
             r \in R \/ target \notin Roots \cup {"request"} \/ <<r, target>> \in nulled'
  PROVE  CountedAreBorn'
<1> SUFFICES ASSUME target # Nothing, NEW i \in 1 .. checked, Counted(Counts(target)[i])'
             PROVE  Came(Counts(target)[i])'
  BY DEF DeletionInv, CountedAreBorn, Counts
<1>1. Counts(target)' = Counts(target)
  BY DEF Counts
<1> DEFINE r == Counts(target)[i]
<1>2. r \in rows' /\ <<r, target>> \notin nulled'
  BY <1>1 DEF Counted
<1>3. Counted(r) => Came(r)
  BY DEF DeletionInv, CountedAreBorn
<1>4. target \in Roots \cup {"request"}
  BY DEF DeletionInv, DeletionTypeOK
<1>5. r \in R \/ Counted(r)
  BY <1>2, <1>4 DEF Arrive, Counted
<1> QED
  BY <1>1, <1>3, <1>5 DEF Came, Arrive

LEMMA NewRequestLacks ==
  <<"request", "specialty">> \in SetNullKeys /\ <<"request", "workshop">> \in SetNullKeys
  BY KeysThere

LEMMA InsertKeepsInv ==
  ASSUME DeletionInv, NEW r \in Names, Insert(r)
  PROVE  DeletionInv'
<1>1. Arrive({r}) /\ {r} \cap rows = {}
  BY DEF Insert
<1>2. KeysHold' /\ BornTogether'
  <2>1. \A k \in CascadeKeys \cup RestrictKeys : k[1] \in {r} => k[2] \in rows \cup {r}
    BY InsertedOnItsParents
  <2> QED
    BY <1>1, <2>1, ArrivalKeepsKeys
<1>3. CountedAreBorn'
  BY <1>1, ArrivalKeepsCounts DEF Insert
<1>4. OrdersAreTalkedAbout'
  BY <1>1, InsertedOnItsParents DEF DeletionInv, OrdersAreTalkedAbout, Arrive
<1>5. DeletionTypeOK'
  BY <1>1 DEF Insert, Arrive, DeletionInv, DeletionTypeOK
<1> QED
  BY <1>2, <1>3, <1>4, <1>5 DEF DeletionInv

LEMMA PublishKeepsInv ==
  ASSUME DeletionInv, PublishRequest
  PROVE  DeletionInv'
<1>1. Arrive({"request"}) /\ {"request"} \cap rows = {}
  BY DEF PublishRequest
<1>2. KeysHold' /\ BornTogether'
  <2>1. "customer" \in rows
    BY KeysThere DEF PublishRequest, DeletionInv, KeysHold
  <2>2. \A k \in CascadeKeys \cup RestrictKeys :
           k[1] \in {"request"} => k[2] \in rows \cup {"request"}
    BY <2>1, CascadesListed, RestrictsListed
  <2> QED
    BY <1>1, <2>2, ArrivalKeepsKeys
<1>3. CountedAreBorn'
  BY <1>1, ArrivalKeepsCounts DEF PublishRequest
<1>4. OrdersAreTalkedAbout'
  BY <1>1 DEF DeletionInv, OrdersAreTalkedAbout, Arrive
<1>5. DeletionTypeOK'
  BY <1>1, NewRequestLacks
  DEF PublishRequest, Arrive, DeletionInv, DeletionTypeOK, Names
<1> QED
  BY <1>2, <1>3, <1>4, <1>5 DEF DeletionInv

LEMMA EditKeepsInv ==
  ASSUME DeletionInv, EditRequest
  PROVE  DeletionInv'
<1>1. KeysHold' /\ BornTogether' /\ OrdersAreTalkedAbout'
  BY DEF EditRequest, DeletionInv, KeysHold, BornTogether, OrdersAreTalkedAbout
<1>2. DeletionTypeOK'
  BY NewRequestLacks DEF EditRequest, DeletionInv, DeletionTypeOK
<1>3. CountedAreBorn'
  <2> SUFFICES ASSUME target # Nothing, NEW i \in 1 .. checked,
                      Counted(Counts(target)[i])'
               PROVE  Came(Counts(target)[i])'
    BY DEF EditRequest, DeletionInv, CountedAreBorn, Counts
  <2>1. Counts(target)' = Counts(target)
    BY DEF EditRequest, Counts
  <2> DEFINE r == Counts(target)[i]
  <2>2. r \in rows /\ <<r, target>> \notin nulled'
    BY <2>1 DEF EditRequest, Counted
  <2>3. Counted(r) => Came(r)
    BY DEF EditRequest, DeletionInv, CountedAreBorn
  <2>4. \/ Counted(r) /\ (given => given')
        \/ r = "request" /\ target = "specialty" /\ given'
    BY <2>2 DEF EditRequest, Counted
  <2> QED
    BY <2>1, <2>3, <2>4 DEF Came, EditRequest
<1> QED
  BY <1>1, <1>2, <1>3 DEF DeletionInv

LEMMA OpenOrderKeepsInv ==
  ASSUME DeletionInv, OpenOrder
  PROVE  DeletionInv'
<1> DEFINE R == {"order", "conversation"}
<1>1. Arrive(R) /\ R \cap rows = {}
  BY DEF OpenOrder, DeletionInv, OrdersAreTalkedAbout
<1>2. /\ {"quotation", "request", "customer", "workshop"} \subseteq rows
  BY KeysThere DEF OpenOrder, DeletionInv, KeysHold
<1>3. \A k \in CascadeKeys \cup RestrictKeys : k[1] \in R => k[2] \in rows \cup R
  BY <1>2, CascadesListed, RestrictsListed
<1>4. DeletionTypeOK'
  BY <1>1 DEF OpenOrder, Arrive, DeletionInv, DeletionTypeOK, Names
<1>5. OrdersAreTalkedAbout'
  BY <1>1 DEF Arrive, OrdersAreTalkedAbout
<1> HIDE DEF R
<1>6. KeysHold' /\ BornTogether'
  BY <1>1, <1>3, ArrivalKeepsKeys
<1>7. CountedAreBorn'
  BY <1>1, ArrivalKeepsCounts DEF OpenOrder, Roots, Users
<1> QED
  BY <1>4, <1>5, <1>6, <1>7 DEF DeletionInv

LEMMA BeginKeepsInv ==
  ASSUME DeletionInv, NEW r \in Roots \cup {"request"}, Begin(r)
  PROVE  DeletionInv'
<1>1. DeletionTypeOK'
  <2>1. given' \in BOOLEAN
    BY DEF Begin
  <2> QED
    BY <2>1, RepeatsAssumption DEF Begin, DeletionInv, DeletionTypeOK
<1>2. KeysHold' /\ OrdersAreTalkedAbout'
  BY DEF Begin, DeletionInv, KeysHold, OrdersAreTalkedAbout
<1>3. BornTogether'
  BY DEF Begin, BornTogether
<1>4. CountedAreBorn'
  <2>1. Len(Counts(r)) \in Nat
    BY DEF Counts, Roots, Users
  <2>2. checked' = 0 /\ target' = r
    BY DEF Begin
  <2> QED
    BY <2>1, <2>2 DEF CountedAreBorn
<1> QED
  BY <1>1, <1>2, <1>3, <1>4 DEF DeletionInv

LEMMA CountsAreFew ==
  ASSUME NEW r \in Roots \cup {"request"}
  PROVE  Len(Counts(r)) \in 0 .. 4
  BY DEF Counts, Roots, Users

LEMMA CountKeepsInv ==
  ASSUME DeletionInv, Count
  PROVE  DeletionInv'
<1>1. KeysHold' /\ OrdersAreTalkedAbout' /\ BornTogether'
  BY DEF Count, DeletionInv, KeysHold, OrdersAreTalkedAbout, BornTogether
<1>2. CASE Counted(Counts(target)[checked + 1])
  <2>1. Ends
    BY <1>2 DEF Count
  <2>2. DeletionTypeOK' /\ CountedAreBorn'
    BY <2>1 DEF Count, Ends, DeletionInv, DeletionTypeOK, CountedAreBorn
  <2> QED
    BY <1>1, <2>2 DEF DeletionInv
<1>3. CASE ~Counted(Counts(target)[checked + 1])
  <2>1. checked' = checked + 1 /\ UNCHANGED <<target, rows, born, nulled, given>>
    BY <1>3 DEF Count
  <2>2. /\ checked \in 0 .. Len(Counts(target)) /\ checked < Len(Counts(target))
        /\ Len(Counts(target)) \in 0 .. 4
    BY CountsAreFew DEF Count, DeletionInv, CountedAreBorn, DeletionTypeOK
  <2>3. checked + 1 \in 0 .. Len(Counts(target)) /\ checked + 1 \in 0 .. 4
    <3> DEFINE n == Len(Counts(target))
    <3>1. checked \in 0 .. n /\ checked < n /\ n \in 0 .. 4
      BY <2>2
    <3> HIDE DEF n
    <3>2. checked + 1 \in 0 .. n /\ checked + 1 \in 0 .. 4
      BY <3>1
    <3> QED
      BY <3>2 DEF n
  <2>4. DeletionTypeOK'
    BY <2>1, <2>3 DEF Count, DeletionInv, DeletionTypeOK
  <2>5. \A i \in 1 .. checked + 1 :
           Counted(Counts(target)[i]) => Came(Counts(target)[i])
    <3>1. \A i \in 1 .. checked :
             Counted(Counts(target)[i]) => Came(Counts(target)[i])
      BY DEF Count, DeletionInv, CountedAreBorn
    <3>2. \A i \in 1 .. checked + 1 : i \in 1 .. checked \/ i = checked + 1
      BY <2>2
    <3> QED
      BY <1>3, <3>1, <3>2
  <2>6. CountedAreBorn'
    <3>1. Counts(target)' = Counts(target)
      BY <2>1 DEF Counts
    <3> QED
      BY <2>1, <2>3, <2>5, <3>1 DEF CountedAreBorn, Counted, Came
  <2> QED
    BY <1>1, <2>4, <2>6 DEF DeletionInv
<1> QED
  BY <1>2, <1>3

LEMMA DeleteKeepsInv ==
  ASSUME DeletionInv, Delete
  PROVE  DeletionInv'
<1>1. CountedAreBorn'
  BY DEF Delete, Ends, CountedAreBorn
<1>2. CASE ~(target \in rows /\ ~Restricted(target))
  <2>1. UNCHANGED <<rows, born, nulled>>
    BY <1>2 DEF Delete
  <2>2. KeysHold' /\ BornTogether' /\ OrdersAreTalkedAbout'
    BY <2>1 DEF DeletionInv, KeysHold, BornTogether, OrdersAreTalkedAbout
  <2>3. DeletionTypeOK'
    BY <2>1 DEF Delete, Ends, DeletionInv, DeletionTypeOK
  <2> QED
    BY <1>1, <2>2, <2>3 DEF DeletionInv
<1>3. CASE target \in rows /\ ~Restricted(target)
  <2>1. /\ rows' = rows \ Taken(target) /\ born' = born \ Taken(target)
        /\ target \in Roots \cup {"request"}
    BY <1>3 DEF Delete, DeletionInv, DeletionTypeOK
  <2>2. KeysHold'
    <3> SUFFICES ASSUME NEW k \in CascadeKeys \cup RestrictKeys,
                        k[1] \in rows, k[1] \notin Taken(target)
                 PROVE  k[2] \in rows /\ k[2] \notin Taken(target)
      BY <2>1 DEF KeysHold
    <3>1. k[2] \in rows
      BY DEF DeletionInv, KeysHold
    <3>2. CASE k \in CascadeKeys
      BY <3>1, <3>2, TakenIsAll
    <3>3. CASE k \in RestrictKeys
      BY <1>3, <3>1, <3>3 DEF Restricted
    <3> QED
      BY <3>2, <3>3
  <2>3. BornTogether'
    BY <2>1 DEF DeletionInv, BornTogether
  <2>4. OrdersAreTalkedAbout'
    BY <1>3, <2>1, OrdersHoldOn DEF DeletionInv, OrdersAreTalkedAbout
  <2>5. nulled' \subseteq SetNullKeys
    BY <1>3 DEF Delete, DeletionInv, DeletionTypeOK
  <2>6. DeletionTypeOK'
    BY <2>1, <2>5 DEF Delete, Ends, DeletionInv, DeletionTypeOK
  <2> QED
    BY <1>1, <2>2, <2>3, <2>4, <2>6 DEF DeletionInv
<1> QED
  BY <1>2, <1>3

LEMMA DeletionInvHolds == DeletionSpec => []DeletionInv
<1>1. DeletionInv /\ UNCHANGED deletionVars => DeletionInv'
  <2> SUFFICES ASSUME DeletionInv, UNCHANGED deletionVars PROVE DeletionInv'
    OBVIOUS
  <2>1. DeletionTypeOK' /\ KeysHold' /\ BornTogether' /\ OrdersAreTalkedAbout'
    BY DEF deletionVars, DeletionInv, DeletionTypeOK, KeysHold, BornTogether,
       OrdersAreTalkedAbout
  <2>2. CountedAreBorn'
    <3>1. Counts(target)' = Counts(target)
      BY DEF deletionVars, Counts
    <3> QED
      BY <3>1 DEF deletionVars, DeletionInv, CountedAreBorn, Counted, Came
  <2> QED
    BY <2>1, <2>2 DEF DeletionInv
<1>2. DeletionInv /\ DeletionNext => DeletionInv'
  BY InsertKeepsInv, PublishKeepsInv, EditKeepsInv, OpenOrderKeepsInv, BeginKeepsInv, CountKeepsInv, DeleteKeepsInv
  DEF DeletionNext
<1> QED
  BY <1>1, <1>2, DeletionInitHolds, PTL DEF DeletionSpec

-----------------------------------------------------------------------------
(* What a step takes and what it separates                                   *)

LEMMA NothingElseDeletes ==
  ASSUME [DeletionNext]_deletionVars
  PROVE  rows \subseteq rows' \/ Delete
<1>1. ASSUME NEW r \in Names, Insert(r) PROVE rows \subseteq rows'
  BY <1>1 DEF Insert, Arrive
<1>2. ASSUME NEW r, Begin(r) PROVE rows \subseteq rows'
  BY <1>2 DEF Begin
<1> QED
  BY <1>1, <1>2 DEF DeletionNext, PublishRequest, EditRequest, OpenOrder, Arrive, Count,
     deletionVars

LEMMA TakesWithReason ==
  ASSUME DeletionInv, [DeletionNext]_deletionVars
  PROVE  \A r \in rows \ rows' : r \in Own(target) \cup born
<1>1. CASE rows \subseteq rows'
  BY <1>1
<1>2. CASE Delete /\ target \in rows /\ ~Restricted(target)
  <2>1. rows' = rows \ Taken(target) /\ target \in Roots \cup {"request"}
        /\ checked = Len(Counts(target))
    BY <1>2 DEF Delete, DeletionInv, DeletionTypeOK
  <2> QED
    BY <1>2, <2>1, TakesItsOwn
<1>3. CASE Delete /\ ~(target \in rows /\ ~Restricted(target))
  BY <1>3 DEF Delete
<1> QED
  BY <1>1, <1>2, <1>3, NothingElseDeletes

(* What a deletion that is not refused sets to NULL.                         *)
LEMMA Separates ==
  ASSUME DeletionInv, Delete, NEW k \in nulled' \ nulled
  PROVE  /\ target \in Roots \cup {"request"} /\ checked = Len(Counts(target))
         /\ rows' = rows \ Taken(target) /\ born' = born \ Taken(target)
         /\ ~Restricted(target)
         /\ k \in SetNullKeys /\ k[1] \in rows' /\ k[2] \in Taken(target)
<1>1. target \in rows /\ ~Restricted(target)
  BY DEF Delete
<1> QED
  BY <1>1 DEF Delete, DeletionInv, DeletionTypeOK

LEMMA OrdersStand ==
  ASSUME DeletionInv, [DeletionNext]_deletionVars, "order" \in rows
  PROVE  /\ {"order", "request", "quotation", "conversation", "customer",
             "workshop"} \subseteq rows'
         /\ nulled' \ nulled \subseteq {<<"request", "specialty">>}
<1>1. {"order", "request", "quotation", "conversation", "customer",
       "workshop"} \subseteq rows
  BY KeysThere DEF DeletionInv, KeysHold, OrdersAreTalkedAbout
<1>2. CASE Delete
  <2>1. {"order", "request", "quotation", "conversation", "customer",
         "workshop"} \subseteq rows'
    BY <1>1, <1>2, OrdersHoldOn DEF Delete, DeletionInv, DeletionTypeOK
  <2>2. ASSUME NEW k \in nulled' \ nulled PROVE k = <<"request", "specialty">>
    <3>1. Taken(target) \cap {"workshop", "technician", "order"} = {}
      BY <1>2, Separates, OrdersHoldOn
    <3> QED
      BY <1>2, <3>1, Separates, SetNullsListed
  <2> QED
    BY <2>1, <2>2
<1>3. CASE ~Delete
  <2>1. nulled' \subseteq nulled \cup {<<"request", "specialty">>}
    <3>1. ASSUME NEW r \in Names, Insert(r) PROVE nulled' \subseteq nulled
      BY <3>1 DEF Insert
    <3>2. ASSUME NEW r, Begin(r) PROVE nulled' \subseteq nulled
      BY <3>2 DEF Begin
    <3>3. ~PublishRequest
      BY <1>1 DEF PublishRequest
    <3> QED
      BY <1>3, <3>1, <3>2, <3>3
      DEF DeletionNext, EditRequest, OpenOrder, Count, deletionVars
  <2> QED
    BY <1>1, <1>3, <2>1, NothingElseDeletes
<1> QED
  BY <1>2, <1>3

LEMMA SpecialtiesStand ==
  ASSUME DeletionInv, [DeletionNext]_deletionVars, "specialty" \in rows \ rows',
         "request" \in rows, <<"request", "specialty">> \notin nulled
  PROVE  "request" \in born \/ given
<1>1. Delete /\ target \in rows
  BY NothingElseDeletes DEF Delete
<1>2. /\ target \in Roots \cup {"request"} /\ checked = Len(Counts(target))
      /\ "specialty" \in Taken(target)
  BY <1>1 DEF Delete, DeletionInv, DeletionTypeOK
<1>3. target = "specialty"
  <2> SUFFICES ASSUME target # "specialty" PROVE FALSE
    OBVIOUS
  <2>1. PICK h \in CascadeKeys : h[1] = "specialty"
    BY <1>2, TakenFor
  <2> QED
    BY <2>1, CascadesListed
<1>4. Counted("request")
  BY <1>3 DEF Counted
<1> QED
  BY <1>2, <1>3, <1>4, FootprintIsNew DEF Nothing

(* The rows, the counts and the references to NULL have values they can.     *)
THEOREM DeletionTypeCorrect == DeletionSpec => []DeletionTypeOK
<1>1. DeletionInv => DeletionTypeOK
  BY DEF DeletionInv
<1> QED
  BY <1>1, DeletionInvHolds, PTL

(* However the rest of the system inserts and edits between the counts of a  *)
(* deletion and its DELETE, it takes its own rows and what was inserted      *)
(* since it began; an order stands with everybody and everything it refers   *)
(* to; and a specialty is taken only from a request that was published or    *)
(* given it since the deletion began.                                        *)
THEOREM WhatIsDeletedIsItsOwn == DeletionSpec => DeletionsStayApart
<1>1. DeletionSpec => NothingOfOthersIsLost
  <2>1. DeletionInv /\ [DeletionNext]_deletionVars =>
          [\A r \in rows \ rows' : r \in Own(target) \cup born]_deletionVars
    BY TakesWithReason
  <2> QED
    BY <2>1, DeletionInvHolds, PTL DEF DeletionSpec, NothingOfOthersIsLost
<1>2. DeletionSpec => OrdersOutliveDeletions
  <2>1. DeletionInv /\ [DeletionNext]_deletionVars =>
          [("order" \in rows) =>
            /\ {"order", "request", "quotation", "conversation", "customer",
                "workshop"} \subseteq rows'
            /\ nulled' \ nulled \subseteq {<<"request", "specialty">>} ]_deletionVars
    BY OrdersStand
  <2> QED
    BY <2>1, DeletionInvHolds, PTL DEF DeletionSpec, OrdersOutliveDeletions
<1>3. DeletionSpec => SpecialtiesAreKept
  <2>1. DeletionInv /\ [DeletionNext]_deletionVars =>
          [/\ "specialty" \in rows \ rows'
           /\ "request" \in rows /\ <<"request", "specialty">> \notin nulled
           => "request" \in born \/ given]_deletionVars
    BY SpecialtiesStand
  <2> QED
    BY <2>1, DeletionInvHolds, PTL DEF DeletionSpec, SpecialtiesAreKept
<1> QED
  BY <1>1, <1>2, <1>3, DeletionTypeCorrect, PTL DEF DeletionsStayApart
=============================================================================
