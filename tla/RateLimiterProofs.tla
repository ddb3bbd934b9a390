--------------------------- MODULE RateLimiterProofs ---------------------------
(****************************************************************************)
(* The limit of attempts, for any limit, any length of the block and any     *)
(* number of calls, and whose attempts it counts, for any set of addresses.  *)
(****************************************************************************)
EXTENDS ClientAddress, FiniteSetTheorems, TLAPS

-----------------------------------------------------------------------------
(* Type correctness                                                          *)

LEMMA InitTypeOK == Init => TypeOK
<1> SUFFICES ASSUME Init PROVE TypeOK
  OBVIOUS
<1> USE LimitsAssumption DEF Init, TypeOK, Counted
<1>1. 0 \in 0 .. max_attempts + 1 /\ 0 \in 0 .. block_seconds
  OBVIOUS
<1>2. NoneAdmitted \in [Ages -> Nat]
  BY DEF NoneAdmitted
<1> QED
  BY <1>1, <1>2

LEMMA StepTypeOK == TypeOK /\ [Next]_vars => TypeOK'
<1> SUFFICES ASSUME TypeOK, [Next]_vars PROVE TypeOK'
  OBVIOUS
<1> USE LimitsAssumption DEF TypeOK
<1>1. ASSUME NEW c \in Calls, Reserve(c) PROVE TypeOK'
  <2>1. attempts' \in Counted
    BY <1>1 DEF Reserve, Incr, Counted
  <2>2. ttl' \in 0 .. block_seconds
    BY <1>1 DEF Reserve, ExpireNX
  <2>3. recent[0] \in Nat
    BY DEF Ages
  <2>4. recent' \in [Ages -> Nat]
    BY <1>1, <2>3 DEF Reserve
  <2> QED
    BY <1>1, <2>1, <2>2, <2>4 DEF Reserve
<1>2. ASSUME NEW c \in Calls, Block(c) PROVE TypeOK'
  BY <1>2 DEF Block
<1>3. ASSUME NEW c \in Calls, Fails(c) \/ Succeeds(c) PROVE TypeOK'
  BY <1>3 DEF Fails, Succeeds
<1>4. ASSUME NEW c \in Calls, Reset(c) PROVE TypeOK'
  <2>1. 0 \in Counted /\ 0 \in 0 .. block_seconds
    BY DEF Counted
  <2>2. NoneAdmitted \in [Ages -> Nat]
    BY DEF NoneAdmitted
  <2> QED
    BY <1>4, <2>1, <2>2 DEF Reset
<1>5. CASE Tick
  <2>1. attempts' \in Counted
    BY <1>5 DEF Tick, Counted
  <2>2. ttl' \in 0 .. block_seconds /\ blocked' \in 0 .. block_seconds
    BY <1>5 DEF Tick, Left
  <2>3. recent' \in [Ages -> Nat]
    BY <1>5 DEF Tick, Ages
  <2> QED
    BY <1>5, <2>1, <2>2, <2>3 DEF Tick
<1>6. CASE UNCHANGED vars
  BY <1>6 DEF vars
<1> QED
  BY <1>1, <1>2, <1>3, <1>4, <1>5, <1>6 DEF Next

(* The counters keep within their bounds, and no age is beyond the block.    *)
THEOREM TypeCorrect == Spec => []TypeOK
  BY InitTypeOK, StepTypeOK, PTL DEF Spec

-----------------------------------------------------------------------------
(* The attempts of the window that is open, and those of the one before      *)

Elapsed == block_seconds - ttl

InWindow == {p \in AdmittedAttempts : p[1] <= Elapsed}

BeforeIt == {p \in AdmittedAttempts : p[1] > Elapsed}

(* The attempts of the open window are as many as its counter says, up to    *)
(* the limit; those that lie further back are of one window, which ended     *)
(* before this one began: a window is as long as the stretch that counts.    *)
WindowInv ==
    /\ TypeOK
    /\ CountersExpire
    /\ IsFiniteSet(AdmittedAttempts)
    /\ ttl = 0 => /\ recent[0] = 0
                  /\ Cardinality(AdmittedAttempts) <= max_attempts
    /\ ttl > 0 =>
          /\ Cardinality(InWindow) =
                IF attempts <= max_attempts THEN attempts ELSE max_attempts
          /\ Cardinality(BeforeIt) <= max_attempts

(* An admitted attempt is its age and its number among those of that age.    *)
LEMMA Members ==
  ASSUME NEW r, NEW A, A = UNION {{n} \X (1 .. r[n]) : n \in Ages}
  PROVE  /\ \A n, k : <<n, k>> \in A <=> n \in Ages /\ k \in 1 .. r[n]
         /\ \A p \in A :
               p = <<p[1], p[2]>> /\ p[1] \in Ages /\ p[2] \in 1 .. r[p[1]]
<1>1. \A n, k : <<n, k>> \in A <=> n \in Ages /\ k \in 1 .. r[n]
  OBVIOUS
<1>2. ASSUME NEW p \in A
      PROVE  p = <<p[1], p[2]>> /\ p[1] \in Ages /\ p[2] \in 1 .. r[p[1]]
  <2>1. PICK n \in Ages : p \in {n} \X (1 .. r[n])
    OBVIOUS
  <2>2. p = <<p[1], p[2]>> /\ p[1] = n /\ p[2] \in 1 .. r[n]
    BY <2>1
  <2> QED
    BY <2>2
<1> QED
  BY <1>1, <1>2

(* A tick makes every attempt one older and forgets the oldest.              *)
LEMMA Older ==
  ASSUME NEW S, IsFiniteSet(S), S \subseteq Nat \X Nat,
         NEW T, T \subseteq Nat \X Nat,
         \A p \in T : p[1] >= 1 /\ <<p[1] - 1, p[2]>> \in S
  PROVE  /\ IsFiniteSet(T)
         /\ Cardinality(T) <= Cardinality(S)
         /\ (\A p \in S : <<p[1] + 1, p[2]>> \in T)
               => Cardinality(T) = Cardinality(S)
<1> DEFINE f == [p \in T |-> <<p[1] - 1, p[2]>>]
<1>1. f \in [T -> S]
  OBVIOUS
<1>2. ASSUME NEW p \in T, NEW q \in T, f[p] = f[q] PROVE p = q
  <2>1. p[1] - 1 = q[1] - 1 /\ p[2] = q[2]
    BY <1>2
  <2>2. p[1] \in Nat /\ q[1] \in Nat /\ p = <<p[1], p[2]>> /\ q = <<q[1], q[2]>>
    OBVIOUS
  <2> QED
    BY <2>1, <2>2
<1>3. f \in Injection(T, S)
  BY <1>1, <1>2 DEF Injection, IsInjective
<1>4. IsFiniteSet(T) /\ Cardinality(T) <= Cardinality(S)
  BY <1>3, FS_Injection
<1>5. ASSUME \A p \in S : <<p[1] + 1, p[2]>> \in T
      PROVE  Cardinality(T) = Cardinality(S)
  <2>1. ASSUME NEW p \in S PROVE \E q \in T : f[q] = p
    <3>1. p = <<p[1], p[2]>> /\ p[1] \in Nat
      OBVIOUS
    <3>2. <<p[1] + 1, p[2]>> \in T
      BY <1>5
    <3>3. f[<<p[1] + 1, p[2]>>] = <<p[1] + 1 - 1, p[2]>>
      BY <3>2
    <3> QED
      BY <3>1, <3>2, <3>3
  <2>2. f \in Surjection(T, S)
    BY <1>1, <2>1 DEF Surjection
  <2> QED
    BY <1>3, <2>2, FS_Injection
<1> QED
  BY <1>4, <1>5

-----------------------------------------------------------------------------
(* The window is of recent attempts                                          *)

LEMMA WindowInit == Init => WindowInv
<1> SUFFICES ASSUME Init PROVE WindowInv
  OBVIOUS
<1>1. TypeOK
  BY InitTypeOK
<1>2. AdmittedAttempts = {}
  BY DEF Init, AdmittedAttempts, NoneAdmitted
<1>3. IsFiniteSet(AdmittedAttempts) /\ Cardinality(AdmittedAttempts) = 0
  BY <1>2, FS_EmptySet
<1>4. recent[0] = 0
  BY LimitsAssumption DEF Init, NoneAdmitted, Ages
<1> QED
  BY <1>1, <1>3, <1>4, LimitsAssumption DEF WindowInv, CountersExpire, Init

(* One more attempt: of age 0, in the window that is open or opens.          *)
LEMMA ReserveWindow ==
  ASSUME WindowInv, NEW c \in Calls, Reserve(c), TypeOK'
  PROVE  WindowInv'
<1> DEFINE AA == AdmittedAttempts
<1> DEFINE new == <<0, recent[0] + 1>>
<1>1. TypeOK /\ recent[0] \in Nat /\ 0 \in Ages /\ attempts \in Nat
  BY LimitsAssumption DEF WindowInv, TypeOK, Ages, Counted
<1>2. attempts' > 0 /\ ttl' > 0 /\ ttl' = IF ttl = 0 THEN block_seconds ELSE ttl
  BY <1>1, LimitsAssumption DEF Reserve, Incr, ExpireNX, TypeOK
<1>3. CASE Over(attempts')
  <2>1. attempts >= max_attempts /\ attempts' = max_attempts + 1 /\ recent' = recent
    BY <1>1, <1>3, LimitsAssumption DEF Over, Reserve, Incr, TypeOK, Counted
  <2>2. ttl > 0 /\ ttl' = ttl
    BY <1>1, <1>2, <2>1, LimitsAssumption DEF WindowInv, CountersExpire, TypeOK
  <2>3. AA' = AA /\ InWindow' = InWindow /\ BeforeIt' = BeforeIt
    BY <2>1, <2>2 DEF AdmittedAttempts, InWindow, BeforeIt, Elapsed
  <2>4. Cardinality(InWindow) = max_attempts
    BY <1>1, <2>1, <2>2, LimitsAssumption DEF WindowInv
  <2> QED
    BY <1>2, <2>1, <2>2, <2>3, <2>4, LimitsAssumption DEF WindowInv, CountersExpire
<1>4. CASE ~Over(attempts')
  <2>1. attempts < max_attempts /\ attempts' = attempts + 1
    BY <1>1, <1>4, LimitsAssumption DEF Over, Reserve, Incr, TypeOK, Counted
  <2>2. recent' = [recent EXCEPT ![0] = @ + 1]
    BY <1>4 DEF Reserve
  <2>3. \A n, k : <<n, k>> \in AA <=> n \in Ages /\ k \in 1 .. recent[n]
    BY Members DEF AdmittedAttempts
  <2>4. new \notin AA
    BY <1>1, <2>3
  <2>5. AA' = AA \cup {new}
    <3>1. \A n, k : <<n, k>> \in AA' <=> n \in Ages /\ k \in 1 .. recent'[n]
      BY Members DEF AdmittedAttempts
    <3>2. \A n \in Ages : recent'[n] = IF n = 0 THEN recent[0] + 1 ELSE recent[n]
      BY <1>1, <2>2 DEF TypeOK
    <3>3. ASSUME NEW n, NEW k
          PROVE  <<n, k>> \in AA' <=> <<n, k>> \in AA \/ <<n, k>> = new
      <4>1. <<n, k>> = new <=> n = 0 /\ k = recent[0] + 1
        OBVIOUS
      <4>2. n = 0 => (k \in 1 .. recent[0] + 1 <=>
                         k \in 1 .. recent[0] \/ k = recent[0] + 1)
        BY <1>1
      <4>3. CASE n = 0
        <5>1. recent'[n] = recent[0] + 1 /\ recent[n] = recent[0]
          BY <1>1, <3>2, <4>3
        <5>2. <<n, k>> \in AA' <=> k \in 1 .. recent[0] + 1
          BY <1>1, <3>1, <4>3, <5>1
        <5>3. <<n, k>> \in AA <=> k \in 1 .. recent[0]
          BY <1>1, <2>3, <4>3, <5>1
        <5> QED
          BY <4>1, <4>2, <4>3, <5>2, <5>3
      <4>4. CASE n # 0
        BY <2>3, <3>1, <3>2, <4>1, <4>4
      <4> QED
        BY <4>3, <4>4
    <3>4. \A p \in AA : p = <<p[1], p[2]>>
      BY Members DEF AdmittedAttempts
    <3>5. \A p \in AA' : p = <<p[1], p[2]>>
      BY Members DEF AdmittedAttempts
    <3> QED
      BY <3>3, <3>4, <3>5
  <2>6. IsFiniteSet(AA')
    BY <2>5, FS_AddElement DEF WindowInv
  <2>7. CASE ttl = 0
    <3>1. attempts = 0 /\ recent[0] = 0 /\ ttl' = block_seconds
      BY <1>1, <1>2, <2>7 DEF WindowInv, CountersExpire
    <3>2. \A p \in AA : p[1] \in Ages /\ p[1] # 0
      <4>1. ASSUME NEW p \in AA PROVE p[1] \in Ages /\ p[2] \in 1 .. recent[p[1]]
        BY Members DEF AdmittedAttempts
      <4> QED
        BY <3>1, <4>1
    <3>3. InWindow' = {p \in AA' : p[1] <= 0} /\ BeforeIt' = {p \in AA' : p[1] > 0}
      BY <3>1, LimitsAssumption DEF InWindow, BeforeIt, Elapsed
    <3>4. InWindow' = {new} /\ BeforeIt' = AA
      BY <2>5, <3>2, <3>3 DEF Ages
    <3>5. Cardinality(InWindow') = 1
      BY <3>4, FS_Singleton
    <3>6. attempts' = 1 /\ 1 <= max_attempts
      BY <2>1, <3>1, LimitsAssumption
    <3> QED
      BY <1>2, <2>6, <2>7, <3>4, <3>5, <3>6 DEF WindowInv, CountersExpire
  <2>8. CASE ttl # 0
    <3>1. ttl' = ttl /\ ttl \in 1 .. block_seconds
      BY <1>1, <1>2, <2>8, LimitsAssumption DEF TypeOK
    <3>2. InWindow' = InWindow \cup {new} /\ BeforeIt' = BeforeIt
      <4>1. new[1] <= Elapsed /\ Elapsed' = Elapsed
        BY <3>1, LimitsAssumption DEF Elapsed
      <4>2. ~(new[1] > Elapsed)
        BY <3>1, LimitsAssumption DEF Elapsed
      <4> QED
        BY <2>5, <4>1, <4>2 DEF InWindow, BeforeIt
    <3>3. IsFiniteSet(InWindow) /\ new \notin InWindow
      BY <2>4, FS_Subset DEF WindowInv, InWindow
    <3>4. Cardinality(InWindow \cup {new}) = Cardinality(InWindow) + 1
      BY <3>3, FS_AddElement
    <3>5. Cardinality(InWindow) = attempts
      BY <1>1, <2>1, <3>1, LimitsAssumption DEF WindowInv
    <3>6. Cardinality(InWindow') = attempts' /\ attempts' <= max_attempts
      BY <1>1, <2>1, <3>2, <3>4, <3>5, LimitsAssumption
    <3>7. Cardinality(BeforeIt) <= max_attempts
      BY <3>1 DEF WindowInv
    <3> QED
      BY <1>2, <2>6, <3>1, <3>2, <3>6, <3>7 DEF WindowInv, CountersExpire
  <2> QED
    BY <2>7, <2>8
<1> QED
  BY <1>3, <1>4

LEMMA PairsOfNaturals ==
  ASSUME TypeOK
  PROVE  AdmittedAttempts \subseteq Nat \X Nat
<1> SUFFICES ASSUME NEW p \in AdmittedAttempts PROVE p \in Nat \X Nat
  OBVIOUS
<1>1. p = <<p[1], p[2]>> /\ p[1] \in Ages /\ p[2] \in 1 .. recent[p[1]]
  BY Members DEF AdmittedAttempts
<1>2. p[1] \in Nat /\ recent[p[1]] \in Nat
  BY <1>1 DEF Ages, TypeOK
<1>3. p[2] \in Nat
  BY <1>1, <1>2
<1> QED
  BY <1>1, <1>2, <1>3

(* What a tick leaves of the attempts.                                       *)
LEMMA TickAges ==
  ASSUME TypeOK, TypeOK', Tick
  PROVE  /\ \A p \in AdmittedAttempts' :
               p[1] >= 1 /\ <<p[1] - 1, p[2]>> \in AdmittedAttempts
         /\ \A p \in AdmittedAttempts :
               p[1] + 1 \in Ages => <<p[1] + 1, p[2]>> \in AdmittedAttempts'
<1> DEFINE AA == AdmittedAttempts
<1>1. \A n \in Ages : recent'[n] = IF n = 0 THEN 0 ELSE recent[n - 1]
  BY DEF Tick
<1>2. /\ \A n, k : <<n, k>> \in AA <=> n \in Ages /\ k \in 1 .. recent[n]
      /\ \A n, k : <<n, k>> \in AA' <=> n \in Ages /\ k \in 1 .. recent'[n]
  BY Members DEF AdmittedAttempts
<1>3. ASSUME NEW p \in AA' PROVE p[1] >= 1 /\ <<p[1] - 1, p[2]>> \in AA
  <2>1. p[1] \in Ages /\ p[2] \in 1 .. recent'[p[1]]
    BY Members DEF AdmittedAttempts
  <2>2. p[1] # 0
    <3> SUFFICES ASSUME p[1] = 0 PROVE FALSE
      OBVIOUS
    <3>1. recent'[p[1]] = 0
      BY <1>1, <2>1
    <3> QED
      BY <2>1, <3>1
  <2>3. p[1] >= 1 /\ p[1] - 1 \in Ages
    BY <2>1, <2>2, LimitsAssumption DEF Ages
  <2>4. p[2] \in 1 .. recent[p[1] - 1]
    BY <1>1, <2>1, <2>2
  <2> QED
    BY <1>2, <2>3, <2>4
<1>4. ASSUME NEW p \in AA, p[1] + 1 \in Ages PROVE <<p[1] + 1, p[2]>> \in AA'
  <2>1. p[1] \in Ages /\ p[2] \in 1 .. recent[p[1]]
    BY Members DEF AdmittedAttempts
  <2>2. recent'[p[1] + 1] = recent[p[1]]
    <3>1. p[1] \in Nat
      BY <2>1 DEF Ages
    <3>2. PICK m \in Ages : m = p[1] + 1
      BY <1>4
    <3>3. m # 0 /\ m - 1 = p[1]
      BY <3>1, <3>2
    <3>4. recent'[m] = recent[m - 1]
      BY <1>1, <3>3
    <3> QED
      BY <3>2, <3>3, <3>4
  <2> QED
    BY <1>2, <1>4, <2>1, <2>2
<1> QED
  BY <1>3, <1>4

(* A tick: the open window grows with the clock, as the attempts do; when it *)
(* ends, what it held is all that is left.                                   *)
LEMMA TickWindow ==
  ASSUME WindowInv, Tick, TypeOK'
  PROVE  WindowInv'
<1> DEFINE AA == AdmittedAttempts
<1>1. TypeOK /\ 0 \in Ages /\ attempts \in Nat /\ ttl \in 0 .. block_seconds
  BY LimitsAssumption DEF WindowInv, TypeOK, Ages, Counted
<1>2. /\ \A p \in AA' : p[1] >= 1 /\ <<p[1] - 1, p[2]>> \in AA
      /\ \A p \in AA : p[1] + 1 \in Ages => <<p[1] + 1, p[2]>> \in AA'
  BY <1>1, TickAges
<1>3. AA \subseteq Nat \X Nat /\ AA' \subseteq Nat \X Nat
  <2>1. AA \subseteq Nat \X Nat
    BY <1>1, PairsOfNaturals
  <2>2. ASSUME NEW p \in AA' PROVE p \in Nat \X Nat
    <3>1. <<p[1] - 1, p[2]>> \in Nat \X Nat
      BY <1>2, <2>1
    <3>2. p = <<p[1], p[2]>> /\ p[1] \in Ages
      BY Members DEF AdmittedAttempts
    <3> QED
      BY <3>1, <3>2 DEF Ages
  <2> QED
    BY <2>1, <2>2
<1>4. IsFiniteSet(AA)
  BY DEF WindowInv
<1>5. IsFiniteSet(AA') /\ Cardinality(AA') <= Cardinality(AA)
  <2> HIDE DEF AA
  <2>1. IsFiniteSet(AA)
    BY <1>4
  <2> QED
    BY <1>2, <1>3, <2>1, Older
<1>6. recent'[0] = 0
  BY <1>1 DEF Tick
<1>7. /\ IsFiniteSet(InWindow) /\ Cardinality(InWindow) \in Nat
      /\ IsFiniteSet(BeforeIt) /\ Cardinality(BeforeIt) \in Nat
  <2>1. InWindow \subseteq AA /\ BeforeIt \subseteq AA
    BY DEF InWindow, BeforeIt
  <2> QED
    BY <1>4, <2>1, FS_Subset, FS_CardinalityType
<1>8. Cardinality(AA) \in Nat /\ Cardinality(AA') \in Nat
  BY <1>4, <1>5, FS_CardinalityType
<1>9. CASE ttl <= 1
  <2>1. ttl' = 0 /\ attempts' = 0
    BY <1>1, <1>9 DEF Tick, Left, WindowInv, CountersExpire
  <2>2. Cardinality(AA) <= max_attempts
    <3>1. CASE ttl = 0
      BY <3>1 DEF WindowInv
    <3>2. CASE ttl = 1
      <4>1. \A p \in AA : p[1] <= Elapsed
        <5>1. \A p \in AA : p[1] \in Ages
          BY Members DEF AdmittedAttempts
        <5> QED
          BY <3>2, <5>1, LimitsAssumption DEF Elapsed, Ages
      <4>2. InWindow = AA
        BY <4>1 DEF InWindow
      <4> QED
        BY <1>1, <3>2, <4>2, LimitsAssumption DEF WindowInv
    <3> QED
      BY <1>1, <1>9, <3>1, <3>2
  <2>3. Cardinality(AA') <= max_attempts
    BY <1>5, <1>8, <2>2, LimitsAssumption
  <2> QED
    BY <1>5, <1>6, <2>1, <2>3 DEF WindowInv, CountersExpire
<1>10. CASE ttl > 1
  <2>1. ttl' = ttl - 1 /\ ttl' > 0 /\ attempts' = attempts
    BY <1>1, <1>10 DEF Tick, Left
  <2>2. Elapsed' = Elapsed + 1 /\ Elapsed \in Int /\ Elapsed <= block_seconds - 2
    BY <1>1, <1>10, <2>1, LimitsAssumption DEF Elapsed
  <2>3. /\ InWindow \subseteq Nat \X Nat /\ InWindow' \subseteq Nat \X Nat
        /\ BeforeIt \subseteq Nat \X Nat /\ BeforeIt' \subseteq Nat \X Nat
    BY <1>3 DEF InWindow, BeforeIt
  <2>4. ASSUME NEW p \in InWindow'
        PROVE  p[1] >= 1 /\ <<p[1] - 1, p[2]>> \in InWindow
    <3>1. p \in AA' /\ p[1] <= Elapsed + 1
      BY <2>2 DEF InWindow
    <3>2. p[1] >= 1 /\ <<p[1] - 1, p[2]>> \in AA /\ p[1] \in Nat
      BY <1>2, <1>3, <3>1
    <3> QED
      BY <2>2, <3>1, <3>2 DEF InWindow
  <2>5. ASSUME NEW p \in InWindow
        PROVE  <<p[1] + 1, p[2]>> \in InWindow'
    <3>1. p \in AA /\ p[1] <= Elapsed /\ p[1] \in Nat
      BY <2>3 DEF InWindow
    <3>2. p[1] + 1 \in Ages /\ p[1] + 1 <= Elapsed + 1
      BY <2>2, <3>1, LimitsAssumption DEF Ages
    <3>3. <<p[1] + 1, p[2]>> \in AA'
      BY <1>2, <3>1, <3>2
    <3> QED
      BY <2>2, <3>2, <3>3 DEF InWindow
  <2>6. Cardinality(InWindow') = Cardinality(InWindow)
    BY <1>7, <2>3, <2>4, <2>5, Older
  <2>7. ASSUME NEW p \in BeforeIt'
        PROVE  p[1] >= 1 /\ <<p[1] - 1, p[2]>> \in BeforeIt
    <3>1. p \in AA' /\ p[1] > Elapsed + 1
      BY <2>2 DEF BeforeIt
    <3>2. p[1] >= 1 /\ <<p[1] - 1, p[2]>> \in AA /\ p[1] \in Nat
      BY <1>2, <1>3, <3>1
    <3> QED
      BY <2>2, <3>1, <3>2 DEF BeforeIt
  <2>8. IsFiniteSet(BeforeIt') /\ Cardinality(BeforeIt') <= Cardinality(BeforeIt)
    BY <1>7, <2>3, <2>7, Older
  <2>9. Cardinality(BeforeIt') <= max_attempts
    <3>1. Cardinality(BeforeIt) <= max_attempts
      BY <1>1, <1>10 DEF WindowInv
    <3>2. Cardinality(BeforeIt') \in Nat
      BY <2>8, FS_CardinalityType
    <3> QED
      BY <1>7, <2>8, <3>1, <3>2, LimitsAssumption
  <2>10. attempts' > 0
    BY <1>1, <1>10, <2>1 DEF WindowInv, CountersExpire
  <2>11. Cardinality(InWindow') =
            IF attempts' <= max_attempts THEN attempts' ELSE max_attempts
    BY <1>1, <1>10, <2>1, <2>6 DEF WindowInv
  <2> QED
    BY <1>5, <1>6, <2>1, <2>9, <2>10, <2>11 DEF WindowInv, CountersExpire
<1> QED
  BY <1>1, <1>9, <1>10

LEMMA WindowStep == WindowInv /\ [Next]_vars => WindowInv'
<1> SUFFICES ASSUME WindowInv, [Next]_vars PROVE WindowInv'
  OBVIOUS
<1>0. TypeOK'
  BY StepTypeOK DEF WindowInv
<1>1. ASSUME NEW c \in Calls, Reserve(c) PROVE WindowInv'
  BY <1>0, <1>1, ReserveWindow
<1>2. ASSUME UNCHANGED <<attempts, ttl, recent>> PROVE WindowInv'
  BY <1>0, <1>2
  DEF WindowInv, CountersExpire, AdmittedAttempts, InWindow, BeforeIt, Elapsed
<1>3. ASSUME NEW c \in Calls, Block(c) \/ Fails(c) \/ Succeeds(c) PROVE WindowInv'
  BY <1>2, <1>3 DEF Block, Fails, Succeeds
<1>4. ASSUME NEW c \in Calls, Reset(c) PROVE WindowInv'
  <2>1. recent' = NoneAdmitted /\ ttl' = 0 /\ attempts' = 0
    BY <1>4 DEF Reset
  <2>2. AdmittedAttempts' = {}
    BY <2>1 DEF AdmittedAttempts, NoneAdmitted
  <2>3. IsFiniteSet(AdmittedAttempts') /\ Cardinality(AdmittedAttempts') = 0
    BY <2>2, FS_EmptySet
  <2>4. recent'[0] = 0
    BY <2>1, LimitsAssumption DEF NoneAdmitted, Ages
  <2> QED
    BY <1>0, <2>1, <2>3, <2>4, LimitsAssumption DEF WindowInv, CountersExpire
<1>5. CASE Tick
  BY <1>0, <1>5, TickWindow
<1>6. CASE UNCHANGED vars
  BY <1>2, <1>6 DEF vars
<1> QED
  BY <1>1, <1>3, <1>4, <1>5, <1>6 DEF Next

LEMMA WindowImplies == WindowInv => WindowIsOfRecentAttempts
<1> SUFFICES ASSUME WindowInv PROVE WindowIsOfRecentAttempts
  OBVIOUS
<1> DEFINE AA == AdmittedAttempts
<1>1. TypeOK /\ ttl \in 0 .. block_seconds /\ attempts \in Nat /\ CountersExpire
  BY DEF WindowInv, TypeOK, Counted
<1>2. IsFiniteSet(AA) /\ Cardinality(AA) \in Nat
  BY FS_CardinalityType DEF WindowInv
<1>3. InWindow \subseteq AA /\ BeforeIt \subseteq AA
  BY DEF InWindow, BeforeIt
<1>4. /\ IsFiniteSet(InWindow) /\ Cardinality(InWindow) \in Nat
      /\ IsFiniteSet(BeforeIt) /\ Cardinality(BeforeIt) \in Nat
      /\ Cardinality(InWindow) <= Cardinality(AA)
  BY <1>2, <1>3, FS_Subset, FS_CardinalityType
<1>5. CASE ttl = 0
  BY <1>1, <1>2, <1>5, LimitsAssumption
  DEF WindowInv, WindowIsOfRecentAttempts, AttemptsAreLimited, Admitted,
      RefusedForRecentAttempts, CountersExpire
<1>6. CASE ttl > 0
  <2>1. AA = InWindow \cup BeforeIt
    <3>1. \A p \in AA : p[1] \in Int /\ Elapsed \in Int
      <4>1. \A p \in AA : p[1] \in Ages
        BY Members DEF AdmittedAttempts
      <4> QED
        BY <1>1, <4>1, LimitsAssumption DEF Ages, Elapsed
    <3> QED
      BY <3>1 DEF InWindow, BeforeIt
  <2>2. Cardinality(InWindow \cup BeforeIt) <=
           Cardinality(InWindow) + Cardinality(BeforeIt)
    <3>1. Cardinality(InWindow \cup BeforeIt) =
             Cardinality(InWindow) + Cardinality(BeforeIt)
                - Cardinality(InWindow \cap BeforeIt)
      BY <1>4, FS_Union
    <3>2. Cardinality(InWindow \cap BeforeIt) \in Nat
      BY <1>4, FS_Intersection, FS_CardinalityType
    <3> QED
      BY <1>4, <3>1, <3>2
  <2>3. Cardinality(InWindow) <= max_attempts /\ Cardinality(BeforeIt) <= max_attempts
    BY <1>1, <1>6, LimitsAssumption DEF WindowInv
  <2>4. AttemptsAreLimited
    BY <1>2, <1>4, <2>1, <2>2, <2>3, LimitsAssumption DEF AttemptsAreLimited, Admitted
  <2>5. RefusedForRecentAttempts
    <3> SUFFICES ASSUME attempts > max_attempts PROVE Admitted >= max_attempts
      BY DEF RefusedForRecentAttempts
    <3>1. Cardinality(InWindow) = max_attempts
      BY <1>1, <1>6, LimitsAssumption DEF WindowInv
    <3> QED
      BY <1>4, <3>1, LimitsAssumption, <1>2 DEF Admitted
  <2> QED
    BY <1>1, <2>4, <2>5 DEF WindowIsOfRecentAttempts
<1> QED
  BY <1>1, <1>5, <1>6

(* The counter of an identifier is a window of recent attempts: in no        *)
(* stretch of a block's length are more than two limits of passwords tried,  *)
(* nobody is refused for older attempts, and every counter has its expiry.   *)
THEOREM WindowStaysRecent == Spec => []WindowIsOfRecentAttempts
  BY WindowInit, WindowStep, WindowImplies, PTL DEF Spec

-----------------------------------------------------------------------------
(* Whose attempts                                                            *)

(* Directly or through the proxy, with whatever header: the address found is *)
(* the client's.                                                             *)
LEMMA AddressIsTheClients ==
  ASSUME NEW c \in Clients, NEW q \in Requests(c)
  PROVE  ClientIp(q) = c
<1>1. c \notin Proxies /\ c \in Hosts /\ c # None
  BY HostsAssumption DEF Clients
<1> QED
  BY <1>1 DEF Requests, Direct, ThroughNginx, ClientIp, IsTrustedProxy

LEMMA WindowsApart == WindowsAreOfOneClient
<1> SUFFICES ASSUME NEW c \in Clients, NEW d \in Clients,
                    NEW q \in Requests(c), NEW r \in Requests(d)
             PROVE  /\ RegistrationIdentifier(q) = RegistrationIdentifier(r) <=> c = d
                    /\ \A e, f \in Emails :
                          LoginIdentifier(e, q) = LoginIdentifier(f, r)
                             <=> (c = d /\ e = f)
  BY DEF WindowsAreOfOneClient
<1>1. ClientIp(q) = c /\ ClientIp(r) = d
  BY AddressIsTheClients
<1> QED
  BY <1>1 DEF RegistrationIdentifier, LoginIdentifier

LEMMA OneWindow ==
  ASSUME NEW c \in Clients, NEW e \in Emails
  PROVE  Cardinality({LoginIdentifier(e, q) : q \in Requests(c)}) = 1
<1>1. Direct(c, None) \in Requests(c)
  BY DEF Requests
<1>2. \A q \in Requests(c) : LoginIdentifier(e, q) = <<"login", e, c>>
  BY AddressIsTheClients DEF LoginIdentifier
<1>3. {LoginIdentifier(e, q) : q \in Requests(c)} = {<<"login", e, c>>}
  BY <1>1, <1>2
<1> QED
  BY <1>3, FS_Singleton

(* However a client's requests arrive, the passwords it tries on one account *)
(* in any stretch of a block's length are limited, and no other client is    *)
(* refused for them.                                                         *)
THEOREM EachClientIsLimited == Spec => []EachClientHasItsLimit
<1>1. WindowInv => EachClientHasItsLimit
  <2> SUFFICES ASSUME WindowInv PROVE EachClientHasItsLimit
    OBVIOUS
  <2>1. Admitted <= 2 * max_attempts /\ Admitted \in Nat
    BY WindowImplies, FS_CardinalityType
    DEF WindowIsOfRecentAttempts, AttemptsAreLimited, WindowInv, Admitted
  <2>2. ASSUME NEW c \in Clients, NEW e \in Emails
        PROVE  Cardinality({LoginIdentifier(e, q) : q \in Requests(c)}) * Admitted
                  <= 2 * max_attempts
    <3>1. 1 * Admitted = Admitted
      BY <2>1
    <3> QED
      BY <2>1, <3>1, OneWindow
  <2> QED
    BY <2>2, WindowsApart DEF EachClientHasItsLimit
<1> QED
  BY <1>1, WindowInit, WindowStep, PTL DEF Spec
=============================================================================
