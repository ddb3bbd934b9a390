------------------------------ MODULE RateLimiter ------------------------------
(****************************************************************************)
(* WindowRateLimiter: the attempts of one identifier, counted in Redis in a  *)
(* fixed window that starts with the first of them.                          *)
(*                                                                           *)
(* LoginRateLimiter counts attempts to log in by email and address, and a    *)
(* right password resets the count; RegistrationRateLimiter counts calls to  *)
(* register and complete by address and never resets: its behaviours are     *)
(* those of a login in which nobody succeeds.  Identifiers have keys of      *)
(* their own, so one of them is enough.  When Redis fails the call fails     *)
(* with it, having done nothing.                                             *)
(****************************************************************************)
EXTENDS Naturals, FiniteSets

CONSTANTS
    Calls,         \* calls in progress at the same time
    max_attempts,
    block_seconds  \* in ticks of the clock

ASSUME LimitsAssumption ==
    max_attempts \in Nat \ {0} /\ block_seconds \in Nat \ {0}

VARIABLES
    attempts,  \* the counter under the attempts key, 0: no such key
    ttl,       \* ticks the attempts key has left
    blocked,   \* ticks the blocked key has left
    call,      \* how far each call got
    recent     \* history: attempts admitted n ticks ago, since the last reset

vars == <<attempts, ttl, blocked, call, recent>>

(* Above the limit all counts are alike: the bound of the counter.           *)
Counted == 0 .. max_attempts + 1
Ages    == 0 .. block_seconds - 1

TypeOK ==
    /\ attempts \in Counted
    /\ ttl \in 0 .. block_seconds
    /\ blocked \in 0 .. block_seconds
    /\ call \in [Calls -> {"idle", "verify", "reset", "block"}]
    /\ recent \in [Ages -> Nat]

NoneAdmitted == [n \in Ages |-> 0]

Init ==
    /\ attempts = 0 /\ ttl = 0 /\ blocked = 0
    /\ call = [c \in Calls |-> "idle"]
    /\ recent = NoneAdmitted

-----------------------------------------------------------------------------
(* reserve: INCR and EXPIRE ... NX in one MULTI                              *)

Incr == IF attempts \in 0 .. max_attempts THEN attempts + 1 ELSE attempts

MutAddsTime == ttl' = ttl + block_seconds
MutRenews == ttl' = block_seconds
MutKeepsForever == UNCHANGED ttl

ExpireNX == ttl' = IF ttl = 0 THEN block_seconds ELSE ttl

MutOneMore(n) == n > max_attempts + 1

Over(n) == n > max_attempts

Reserve(c) ==
    /\ call[c] = "idle"
    /\ attempts' = Incr
    /\ ExpireNX
    /\ IF Over(attempts')
       THEN call' = [call EXCEPT ![c] = "block"] /\ UNCHANGED recent
       ELSE /\ call' = [call EXCEPT ![c] = "verify"]
            /\ recent' = [recent EXCEPT ![0] = @ + 1]
    /\ UNCHANGED blocked

(* SETEX of the blocked key, then 429.  Nothing ever reads that key.         *)
Block(c) ==
    /\ call[c] = "block"
    /\ blocked' = block_seconds
    /\ call' = [call EXCEPT ![c] = "idle"]
    /\ UNCHANGED <<attempts, ttl, recent>>

(* authenticate: unknown email or wrong password, or the process dies.       *)
Fails(c) ==
    /\ call[c] # "idle"
    /\ call' = [call EXCEPT ![c] = "idle"]
    /\ UNCHANGED <<attempts, ttl, blocked, recent>>

Succeeds(c) ==
    /\ call[c] = "verify"
    /\ call' = [call EXCEPT ![c] = "reset"]
    /\ UNCHANGED <<attempts, ttl, blocked, recent>>

(* reset, before the account's is_active is looked at                        *)
Reset(c) ==
    /\ call[c] = "reset"
    /\ attempts' = 0 /\ ttl' = 0 /\ blocked' = 0
    /\ recent' = NoneAdmitted
    /\ call' = [call EXCEPT ![c] = "idle"]

(* The clock of Redis: a key with no time left is gone.                      *)
Left(t) == IF t = 0 THEN 0 ELSE t - 1

Tick ==
    /\ ttl' = Left(ttl)
    /\ blocked' = Left(blocked)
    /\ attempts' = IF ttl = 1 THEN 0 ELSE attempts
    /\ recent' = [n \in Ages |-> IF n = 0 THEN 0 ELSE recent[n - 1]]
    /\ UNCHANGED call

Next ==
    \/ \E c \in Calls :
          Reserve(c) \/ Block(c) \/ Fails(c) \/ Succeeds(c) \/ Reset(c)
    \/ Tick

(* Time passes; nobody has to call, and a call need not return.              *)
Spec == Init /\ [][Next]_vars /\ WF_vars(Tick)

-----------------------------------------------------------------------------
(* Properties                                                                *)

AdmittedAttempts == UNION {{n} \X (1 .. recent[n]) : n \in Ages}

Admitted == Cardinality(AdmittedAttempts)

(* "N peticiones concurrentes reciben valores distintos y solo max_attempts  *)
(* pueden continuar": with no reset in between, any stretch of block_seconds *)
(* holds at most twice max_attempts passwords tried, at the end of a window  *)
(* and the start of the next, whatever calls overlap and whoever crashes.    *)
AttemptsAreLimited == Admitted <= 2 * max_attempts

(* Nobody is refused for attempts that lie further back than the block is    *)
(* long, nor for attempts that were refused themselves: the refused ones do  *)
(* not prolong the window.                                                   *)
RefusedForRecentAttempts == attempts > max_attempts => Admitted >= max_attempts

(* A counter always has its expiry: no crash leaves a block without an end.  *)
CountersExpire == attempts > 0 <=> ttl > 0

(* The counter is a window of recent attempts, whatever calls overlap, crash *)
(* or reset it in between: never too wide, never too long, never without an  *)
(* end.                                                                      *)
WindowIsOfRecentAttempts ==
    TypeOK /\ AttemptsAreLimited /\ RefusedForRecentAttempts /\ CountersExpire

(* Liveness: whoever goes on trying while refused gets in all the same, as   *)
(* soon as the window of the first attempt is over.                          *)
BlocksEnd == attempts > max_attempts ~> attempts = 0
=============================================================================
