------------------------------- MODULE Sessions -------------------------------
(****************************************************************************)
(* The sessions of one user: a row of users in the database (password,       *)
(* token_version, is_active) and keys in Redis (refresh:{jti} of each        *)
(* refresh token that may still be used, refresh:version of the user).       *)
(*                                                                           *)
(* A pair of tokens carries the token_version its call read ("tv") and the   *)
(* refresh token the Redis version too ("ver").  Login, refresh, logout and  *)
(* change of password are HTTP calls of several steps with nothing locked    *)
(* between them: one read of the user's row, its UPDATE, single commands of  *)
(* Redis.  A call issues one pair at most, so a pair is named by its call,   *)
(* and a password by the call that set it.                                   *)
(****************************************************************************)
EXTENDS Naturals

CONSTANTS
    Calls,   \* HTTP calls about this user
    Nobody   \* no call; as a password, the first one

ASSUME NobodyAssumption == Nobody \notin Calls

VARIABLES
    user,     \* the row of users
    epoch,    \* refresh:version:{user}
    live,     \* the refresh:{jti} keys that exist
    pair,     \* the tokens each call issued
    call,     \* how far each call got, and what it has read
    lastSet,  \* the password of the last change that was committed
    crossed   \* history: a change of password and another writer of the
              \* user's password were under way at the same time

vars == <<user, epoch, live, pair, call, lastSet, crossed>>

Secret == Calls \cup {Nobody}

User == [secret : Secret, version : Nat, active : BOOLEAN, outdated : BOOLEAN]

NoPair == [issued |-> FALSE, ver |-> 0, tv |-> 0, basis |-> Nobody,
           from |-> Nobody]

(* The claims ver and tv, the password that vouched for the session when it  *)
(* was opened, and the refresh token it was renewed with.                    *)
Pair == [issued : BOOLEAN, ver : Nat, tv : Nat, basis : Secret,
         from : Secret]

Steps == {"idle", "rehash", "issue", "store", "epoch", "user", "change",
          "revoke", "ended"}

(* seen: the user's row as the session of the call holds it.                 *)
Call == [step : Steps, seen : User, ver : Nat, basis : Secret, from : Secret]

FirstUser == [secret |-> Nobody, version |-> 0, active |-> TRUE,
              outdated |-> FALSE]

Idle == [step |-> "idle", seen |-> FirstUser, ver |-> 0, basis |-> Nobody,
         from |-> Nobody]

TypeOK ==
    /\ user \in User
    /\ epoch \in Nat
    /\ live \subseteq {c \in Calls : pair[c].issued}
    /\ pair \in [Calls -> Pair]
    /\ call \in [Calls -> Call]
    /\ lastSet \in Secret
    /\ crossed \in BOOLEAN

(* The hash of the first password may have parameters out of date.           *)
Init ==
    /\ user \in {FirstUser, [FirstUser EXCEPT !.outdated = TRUE]}
    /\ epoch = 0 /\ live = {}
    /\ pair = [c \in Calls |-> NoPair]
    /\ call = [c \in Calls |-> Idle]
    /\ lastSet = Nobody
    /\ crossed = FALSE

At(c, s) == call[c].step = s

Goto(c, s) == call' = [call EXCEPT ![c].step = s]

End(c) == Goto(c, "ended")

Changing == {c \in Calls : At(c, "change")}
Rehashing == {c \in Calls : At(c, "rehash")}

-----------------------------------------------------------------------------
(* Which tokens are accepted                                                 *)

(* _is_revoked                                                               *)
VersionMatches(t) == pair[t].tv = user.version

AccessAccepted(t) == pair[t].issued /\ user.active /\ VersionMatches(t)

-----------------------------------------------------------------------------
(* POST /auth/login                                                          *)
MutAlwaysRehash(u) == TRUE

NeedsRehash(u) == u.outdated

(* authenticate: the password matches the row it has read, which is active.  *)
LoginRead(c) ==
    /\ At(c, "idle")
    /\ user.active
    /\ call' = [call EXCEPT ![c].seen = user, ![c].basis = user.secret,
                            ![c].step = IF NeedsRehash(user) THEN "rehash"
                                                             ELSE "issue"]
    /\ crossed' = (crossed \/ (user.outdated /\ Changing # {}))
    /\ UNCHANGED <<user, epoch, live, pair, lastSet>>

(* The password the login came with is hashed and stored again.              *)
LoginRehash(c) ==
    /\ At(c, "rehash")
    /\ user' = [user EXCEPT !.secret = call[c].basis, !.outdated = FALSE]
    /\ Goto(c, "issue")
    /\ UNCHANGED <<epoch, live, pair, lastSet, crossed>>

(* issue_tokens reads the version of Redis after the row of the user ...     *)
IssueRead(c) ==
    /\ At(c, "issue")
    /\ call' = [call EXCEPT ![c].ver = epoch, ![c].step = "store"]
    /\ UNCHANGED <<user, epoch, live, pair, lastSet, crossed>>

MutVersionNow(c) == user.version

TokenVersion(c) == call[c].seen.version

(* ... and stores the key of the refresh token.                              *)
IssueStore(c) ==
    /\ At(c, "store")
    /\ pair' = [pair EXCEPT ![c] =
           [issued |-> TRUE, ver |-> call[c].ver, tv |-> TokenVersion(c),
            basis |-> call[c].basis, from |-> call[c].from]]
    /\ live' = live \cup {c}
    /\ End(c)
    /\ UNCHANGED <<user, epoch, lastSet, crossed>>

-----------------------------------------------------------------------------
(* POST /auth/refresh, POST /auth/logout                                     *)
MutGetOnly(t) == UNCHANGED live

GetDel(t) == live' = live \ {t}

RefreshConsume(c, t) ==
    /\ At(c, "idle")
    /\ t \in live
    /\ GetDel(t)
    /\ call' = [call EXCEPT ![c].from = t, ![c].basis = pair[t].basis,
                            ![c].step = "epoch"]
    /\ UNCHANGED <<user, epoch, pair, lastSet, crossed>>

RefreshEpoch(c) ==
    /\ At(c, "epoch")
    /\ IF pair[call[c].from].ver = epoch THEN Goto(c, "user") ELSE End(c)
    /\ UNCHANGED <<user, epoch, live, pair, lastSet, crossed>>

RefreshUser(c) ==
    /\ At(c, "user")
    /\ IF user.active /\ VersionMatches(call[c].from)
       THEN call' = [call EXCEPT ![c].seen = user, ![c].step = "issue"]
       ELSE End(c)
    /\ UNCHANGED <<user, epoch, live, pair, lastSet, crossed>>

(* The answer to a logout, or to a refresh with a token already used.        *)
Logout(c, t) ==
    /\ At(c, "idle")
    /\ pair[t].issued
    /\ GetDel(t)
    /\ End(c)
    /\ UNCHANGED <<user, epoch, pair, lastSet, crossed>>

-----------------------------------------------------------------------------
(* POST /users/me/change-password                                            *)
(* The caller's access token is accepted and the current password matches:   *)
(* one read of the row serves both.                                          *)
ChangeRead(c, t) ==
    /\ At(c, "idle")
    /\ AccessAccepted(t)
    /\ call' = [call EXCEPT ![c].seen = user, ![c].step = "change"]
    /\ crossed' = (crossed \/ Changing # {} \/ Rehashing # {})
    /\ UNCHANGED <<user, epoch, live, pair, lastSet>>

MutFlips(v) == IF v = 0 THEN 1 ELSE 0
MutCountsDown(v) == v - 1

NextVersion(v) == v + 1

(* The UPDATE writes the version computed from the row the call had read.    *)
ChangeCommit(c) ==
    /\ At(c, "change")
    /\ user' = [user EXCEPT !.secret = c, !.outdated = FALSE,
                            !.version = NextVersion(call[c].seen.version)]
    /\ lastSet' = c
    /\ Goto(c, "revoke")
    /\ UNCHANGED <<epoch, live, pair, crossed>>

(* revoke_all_refresh_tokens: INCR, after the commit.                        *)
ChangeRevoke(c) ==
    /\ At(c, "revoke")
    /\ epoch' = epoch + 1
    /\ End(c)
    /\ UNCHANGED <<user, live, pair, lastSet, crossed>>

-----------------------------------------------------------------------------
(* PATCH /admin/users/{id}: is_active.                                       *)
SetActive ==
    /\ user' = [user EXCEPT !.active = ~user.active]
    /\ UNCHANGED <<epoch, live, pair, call, lastSet, crossed>>

(* The key of a refresh token reaches the end of its life.                   *)
Expire(t) ==
    /\ t \in live
    /\ GetDel(t)
    /\ UNCHANGED <<user, epoch, pair, call, lastSet, crossed>>

(* Redis loses its data.                                                     *)
Flush ==
    /\ live # {} \/ epoch # 0
    /\ live' = {} /\ epoch' = 0
    /\ UNCHANGED <<user, pair, call, lastSet, crossed>>

(* A worker dies, or Redis or the database fails, in the middle of a call.   *)
Crash(c) ==
    /\ call[c].step \notin {"idle", "ended"}
    /\ End(c)
    /\ UNCHANGED <<user, epoch, live, pair, lastSet, crossed>>

Step(c) ==
    \/ LoginRead(c) \/ LoginRehash(c) \/ IssueRead(c) \/ IssueStore(c)
    \/ RefreshEpoch(c) \/ RefreshUser(c)
    \/ ChangeCommit(c) \/ ChangeRevoke(c) \/ Crash(c)
    \/ \E t \in Calls :
           RefreshConsume(c, t) \/ Logout(c, t) \/ ChangeRead(c, t)

Next ==
    \/ \E c \in Calls : Step(c)
    \/ \E t \in Calls : Expire(t)
    \/ SetActive
    \/ Flush

Spec == Init /\ [][Next]_vars

-----------------------------------------------------------------------------
(* Properties                                                                *)

(* A session is of the password it was opened with: when the password        *)
(* changes, no token of an earlier session is accepted any more, those that  *)
(* a login or a refresh under way is still to issue included.  Two changes   *)
(* that cross write the same version, and the tokens of the first are then   *)
(* accepted under the password of the second.                                *)
SessionsAreOfThePassword ==
    ~crossed => \A t \in Calls :
                    AccessAccepted(t) => pair[t].basis = user.secret

(* A change of password that was committed stays: only another one replaces  *)
(* it, whatever hashes the logins renew.  A login that crosses the change    *)
(* stores the old password again.                                            *)
PasswordStands == ~crossed => user.secret = lastSet

(* Unless a change of password crosses another writer of it, what opens a    *)
(* session and what keeps it open are of the last password that was set.     *)
PasswordRules == TypeOK /\ SessionsAreOfThePassword /\ PasswordStands

(* A refresh token is exchanged for one pair at most, however many calls     *)
(* bring it at the same time.                                                *)
OneSuccessor ==
    \A c, d \in Calls :
        pair[c].issued /\ pair[d].issued /\ pair[c].from # Nobody
            /\ pair[c].from = pair[d].from => c = d

Revoked(t) == pair[t].issued /\ ~VersionMatches(t)

(* Tokens left behind by a change of password are never accepted again.      *)
(* The version goes down when a change writes over a row that two others     *)
(* have changed since it read it.                                            *)
RevokedStaysRevoked ==
    [][~crossed => \A t \in Calls : Revoked(t) => Revoked(t)']_vars

=============================================================================
