---------------------- MODULE AiImageRuntimeLimiter_proofs ----------------------
(***************************************************************************)
(* The limiter's counters, limits and wake-ups, for any requests, channels *)
(* and limits.                                                             *)
(***************************************************************************)
EXTENDS AiImageRuntimeLimiter, SequenceTheorems, FiniteSetTheorems, TLAPS

\* A request waits once, and not while it holds a slot.
OncePerRequest ==
  /\ \A i \in DOMAIN waiters : waiters[i] \notin holding
  /\ \A i, j \in DOMAIN waiters : waiters[i] = waiters[j] => i = j

\* Requests that hold slots are finitely many, and so are any of them.
LEMMA FinitelyMany ==
  ASSUME NEW S \in SUBSET Requests
  PROVE  IsFiniteSet(S) /\ Cardinality(S) \in Nat
BY LimiterAssumption, FS_Subset, FS_CardinalityType

\* What is left of the queue when its i-th waiter is taken out.
LEMMA TakenOut ==
  ASSUME NEW q \in Seq(Requests), NEW i \in DOMAIN q
  PROVE  /\ RemoveAt(q, i) \in Seq(Requests)
         /\ Len(RemoveAt(q, i)) = Len(q) - 1
         /\ \A k \in DOMAIN RemoveAt(q, i) :
              RemoveAt(q, i)[k] = IF k < i THEN q[k] ELSE q[k + 1]
<1> DEFINE a == SubSeq(q, 1, i - 1)
           b == SubSeq(q, i + 1, Len(q))
<1>0. i \in 1 .. Len(q) /\ Len(q) \in Nat
  BY LenProperties
<1>1. /\ a \in Seq(Requests) /\ Len(a) = i - 1
      /\ \A k \in 1 .. i - 1 : a[k] = q[k]
  BY <1>0
<1>2. /\ b \in Seq(Requests) /\ Len(b) = Len(q) - i
      /\ \A k \in 1 .. Len(q) - i : b[k] = q[i + k]
  BY <1>0
<1>5. DOMAIN RemoveAt(q, i) = 1 .. Len(a \o b) /\ RemoveAt(q, i) = a \o b
  <2>1. RemoveAt(q, i) = a \o b /\ a \o b \in Seq(Requests)
    BY <1>1, <1>2, ConcatProperties DEF RemoveAt
  <2> HIDE DEF a, b
  <2>2. QED
    BY <2>1, LenProperties
<1> HIDE DEF a, b
<1>3. /\ a \o b \in Seq(Requests) /\ Len(a \o b) = Len(q) - 1
      /\ \A k \in 1 .. Len(q) - 1 :
           (a \o b)[k] = IF k <= i - 1 THEN a[k] ELSE b[k - (i - 1)]
  <2>1. /\ a \o b \in Seq(Requests)
        /\ Len(a \o b) = Len(a) + Len(b)
        /\ \A k \in 1 .. Len(a) + Len(b) :
             (a \o b)[k] = IF k <= Len(a) THEN a[k] ELSE b[k - Len(a)]
    BY <1>1, <1>2, ConcatProperties
  <2>2. Len(a) = i - 1 /\ Len(a) + Len(b) = Len(q) - 1
    BY <1>0, <1>1, <1>2
  <2>3. QED
    BY <2>1, <2>2
<1>4. \A k \in 1 .. Len(q) - 1 : (a \o b)[k] = IF k < i THEN q[k] ELSE q[k + 1]
  <2> SUFFICES ASSUME NEW k \in 1 .. Len(q) - 1
               PROVE  (a \o b)[k] = IF k < i THEN q[k] ELSE q[k + 1]
    OBVIOUS
  <2>1. CASE k < i
    BY <2>1, <1>0, <1>1, <1>3
  <2>2. CASE ~(k < i)
    <3>1. k - (i - 1) \in 1 .. Len(q) - i /\ i + (k - (i - 1)) = k + 1
      BY <2>2, <1>0
    <3>2. b[k - (i - 1)] = q[k + 1]
      BY <3>1, <1>2
    <3>3. ~(k <= i - 1)
      BY <2>2, <1>0
    <3>4. QED
      BY <3>2, <3>3, <2>2, <1>3
  <2>3. QED
    BY <2>1, <2>2
<1>6. QED
  BY <1>3, <1>4, <1>5

-----------------------------------------------------------------------------
\* Every reachable state is well typed, counts every slot that is held, and no
\* request waits twice or beside its own slot.
IInv == TypeOK /\ OncePerRequest /\ Accounting

\* A grant counts the waiter in.
LEMMA StartKeeps ==
  ASSUME IInv, NEW i \in DOMAIN waiters, Start(i)
  PROVE  IInv'
<1> DEFINE r == waiters[i]
<1>1. /\ r \in Requests /\ r \notin holding /\ ChannelOf[r] \in Channels
      /\ holding' = holding \cup {r}
  BY LimiterAssumption, ElementOfSeq DEF IInv, TypeOK, OncePerRequest, Start
<1>2. /\ activeTotal' = activeTotal + 1 /\ activeTotal < Cap
      /\ activeByChannel' = [activeByChannel EXCEPT ![ChannelOf[r]] = @ + 1]
  BY DEF Start, CountIn, MayStart, BelowCap
<1>3. \A k \in DOMAIN waiters' :
        waiters'[k] = IF k < i THEN waiters[k] ELSE waiters[k + 1]
  BY TakenOut DEF Start, IInv, TypeOK
<1>4. waiters' \in Seq(Requests) /\ Len(waiters') = Len(waiters) - 1
  BY TakenOut DEF Start, IInv, TypeOK
<1>5. \A S \in SUBSET Requests : r \notin S => Cardinality(S \cup {r}) = Cardinality(S) + 1
  BY <1>1, FinitelyMany, FS_AddElement
<1>6. Accounting'
  <2>1. activeTotal' = Cardinality(holding')
    BY <1>1, <1>2, <1>5 DEF IInv, TypeOK, Accounting
  <2>2. ASSUME NEW c \in Channels
        PROVE  activeByChannel'[c] = Cardinality(HoldingOn(c)')
    <3>1. HoldingOn(c) \in SUBSET Requests /\ r \notin HoldingOn(c)
      BY <1>1 DEF HoldingOn, IInv, TypeOK
    <3>2. CASE c = ChannelOf[r]
      <4>1. HoldingOn(c)' = HoldingOn(c) \cup {r}
        BY <1>1, <3>2 DEF HoldingOn
      <4>2. QED
        BY <4>1, <3>1, <3>2, <1>2, <1>5 DEF IInv, TypeOK, Accounting
    <3>3. CASE c # ChannelOf[r]
      <4>1. HoldingOn(c)' = HoldingOn(c)
        BY <1>1, <3>3 DEF HoldingOn
      <4>2. QED
        BY <4>1, <3>3, <1>2 DEF IInv, TypeOK, Accounting
    <3>4. QED
      BY <3>2, <3>3
  <2>3. QED
    BY <2>1, <2>2 DEF Accounting
<1>7. TypeOK'
  <2>1. \A c \in Channels : Cardinality(HoldingOn(c)') <= Cardinality(holding')
    BY <1>1, FinitelyMany, FS_Subset DEF HoldingOn, IInv, TypeOK
  <2>2. \A c \in Channels : Cardinality(HoldingOn(c)') \in Nat
    BY <1>1, FinitelyMany DEF HoldingOn, IInv, TypeOK
  <2>3. activeTotal' \in 0 .. Cap
    BY <1>2, LimiterAssumption DEF IInv, TypeOK
  <2>4. \A c \in Channels : activeByChannel'[c] \in 0 .. Cap
    BY <2>1, <2>2, <2>3, <1>6, LimiterAssumption DEF Accounting
  <2>5. activeByChannel' \in [Channels -> 0 .. Cap]
    BY <2>4, <1>2 DEF IInv, TypeOK
  <2>6. QED
    BY <2>3, <2>5, <1>1, <1>4 DEF IInv, TypeOK, Start
<1>8. OncePerRequest'
  <2>1. DOMAIN waiters = 1 .. Len(waiters) /\ DOMAIN waiters' = 1 .. Len(waiters) - 1
    BY <1>4, LenProperties DEF IInv, TypeOK
  <2>2. Len(waiters) \in Nat /\ i \in 1 .. Len(waiters)
    BY <2>1, LenProperties DEF IInv, TypeOK
  <2> DEFINE old(k) == IF k < i THEN k ELSE k + 1
  <2>3. \A k \in DOMAIN waiters' :
          old(k) \in DOMAIN waiters /\ old(k) # i /\ waiters'[k] = waiters[old(k)]
    BY <2>1, <2>2, <1>3
  <2>4. \A k, l \in DOMAIN waiters' : old(k) = old(l) => k = l
    BY <2>1, <2>2
  <2> HIDE DEF old
  <2>5. QED
    BY <2>3, <2>4, <1>1 DEF OncePerRequest, IInv
<1>9. QED
  BY <1>6, <1>7, <1>8 DEF IInv

\* A release counts its request out, and the clamp at zero never bites.
LEMMA ReleaseKeeps ==
  ASSUME IInv, NEW r \in Requests, Release(r)
  PROVE  IInv'
<1>1. /\ r \in holding /\ holding' = holding \ {r} /\ ChannelOf[r] \in Channels
      /\ waiters' = waiters
      /\ activeTotal' = LessOne(activeTotal)
      /\ activeByChannel' = [activeByChannel EXCEPT ![ChannelOf[r]] = LessOne(@)]
  BY LimiterAssumption DEF Release, CountOut
<1>2. \A S \in SUBSET Requests :
        r \in S => Cardinality(S \ {r}) = Cardinality(S) - 1 /\ Cardinality(S) # 0
  BY FinitelyMany, FS_RemoveElement, FS_EmptySet
<1>3. activeTotal' = Cardinality(holding')
  BY <1>1, <1>2 DEF IInv, TypeOK, Accounting, LessOne
<1>4. ASSUME NEW c \in Channels
      PROVE  /\ activeByChannel'[c] = Cardinality(HoldingOn(c)')
             /\ activeByChannel'[c] \in 0 .. Cap
  <2>1. HoldingOn(c) \in SUBSET Requests
    BY DEF HoldingOn, IInv, TypeOK
  <2>2. CASE c = ChannelOf[r]
    <3>1. r \in HoldingOn(c) /\ HoldingOn(c)' = HoldingOn(c) \ {r}
      BY <1>1, <2>2 DEF HoldingOn
    <3>2. activeByChannel'[c] = LessOne(activeByChannel[c]) /\ activeByChannel[c] \in 0 .. Cap
      BY <1>1, <2>2 DEF IInv, TypeOK
    <3>3. activeByChannel[c] = Cardinality(HoldingOn(c))
      BY DEF IInv, Accounting
    <3>4. QED
      BY <3>1, <3>2, <3>3, <2>1, <1>2, LimiterAssumption DEF LessOne
  <2>3. CASE c # ChannelOf[r]
    <3>1. HoldingOn(c)' = HoldingOn(c)
      BY <1>1, <2>3 DEF HoldingOn
    <3>2. QED
      BY <3>1, <2>3, <1>1 DEF IInv, TypeOK, Accounting
  <2>4. QED
    BY <2>2, <2>3
<1>5. activeTotal' \in 0 .. Cap
  BY <1>1, LimiterAssumption DEF IInv, TypeOK, LessOne
<1>6. activeByChannel' \in [Channels -> 0 .. Cap]
  BY <1>1, <1>4 DEF IInv, TypeOK
<1>7. TypeOK'
  BY <1>1, <1>5, <1>6 DEF IInv, TypeOK, Release
<1>8. OncePerRequest'
  BY <1>1 DEF IInv, OncePerRequest
<1>9. QED
  BY <1>3, <1>4, <1>7, <1>8 DEF IInv, Accounting

\* A waiter that queues is a new one.
LEMMA AcquireKeeps ==
  ASSUME IInv, NEW r \in Requests, Acquire(r)
  PROVE  IInv'
<1>1. /\ waiters' \in Seq(Requests) /\ Len(waiters') = Len(waiters) + 1
      /\ \A i \in 1 .. Len(waiters) : waiters'[i] = waiters[i]
      /\ waiters'[Len(waiters) + 1] = r
  BY AppendProperties DEF Acquire, IInv, TypeOK
<1>2. DOMAIN waiters = 1 .. Len(waiters) /\ Len(waiters) \in Nat
      /\ DOMAIN waiters' = 1 .. Len(waiters) + 1
  BY <1>1, LenProperties DEF IInv, TypeOK
<1>3. r \notin holding /\ \A i \in DOMAIN waiters : waiters[i] # r
  BY DEF Acquire, Waiting
<1>4. OncePerRequest'
  BY <1>1, <1>2, <1>3 DEF Acquire, IInv, OncePerRequest
<1>5. TypeOK' /\ Accounting'
  BY <1>1 DEF Acquire, IInv, TypeOK, Accounting, HoldingOn
<1>6. QED
  BY <1>4, <1>5 DEF IInv

LEMMA CountedInvariant == Spec => []IInv
<1>1. Init => IInv
  <2> SUFFICES ASSUME Init PROVE IInv
    OBVIOUS
  <2>1. \A c \in Channels : HoldingOn(c) = {}
    BY DEF Init, HoldingOn
  <2>2. waiters \in Seq(Requests) /\ DOMAIN waiters = {}
    BY EmptySeq DEF Init
  <2>3. TypeOK
    <3>1. 0 \in 0 .. Cap
      BY LimiterAssumption
    <3>2. activeByChannel \in [Channels -> 0 .. Cap]
      BY <3>1 DEF Init
    <3>3. QED
      BY <2>2, <3>1, <3>2 DEF Init, TypeOK
  <2>4. Accounting
    <3>1. activeTotal = 0 /\ holding = {} /\ \A c \in Channels : activeByChannel[c] = 0
      BY DEF Init
    <3>2. Cardinality({}) = 0
      BY FS_EmptySet
    <3>3. QED
      BY <2>1, <3>1, <3>2 DEF Accounting
  <2>5. QED
    BY <2>2, <2>3, <2>4 DEF IInv, OncePerRequest
<1>2. IInv /\ [Next]_vars => IInv'
  <2> SUFFICES ASSUME IInv, [Next]_vars PROVE IInv'
    OBVIOUS
  <2>1. ASSUME NEW r \in Requests, Acquire(r) PROVE IInv'
    BY <2>1, AcquireKeeps
  <2>2. ASSUME NEW i \in DOMAIN waiters, Start(i) PROVE IInv'
    BY <2>2, StartKeeps
  <2>3. ASSUME DrainEnds PROVE IInv'
    BY <2>3 DEF DrainEnds, IInv, TypeOK, OncePerRequest, Accounting, HoldingOn
  <2>4. ASSUME NEW r \in Requests, Release(r) PROVE IInv'
    BY <2>4, ReleaseKeeps
  <2>5. ASSUME UNCHANGED vars PROVE IInv'
    BY <2>5 DEF vars, IInv, TypeOK, OncePerRequest, Accounting, HoldingOn
  <2>6. QED
    BY <2>1, <2>2, <2>3, <2>4, <2>5 DEF Next, Drain
<1>3. QED
  BY <1>1, <1>2, PTL DEF Spec

\* Counters, queue and slots keep their types: no counter leaves the range 0 .. Cap.
THEOREM LimiterTypeCorrect == Spec => []TypeOK
BY CountedInvariant, PTL DEF IInv

\* The counters are the slots held: neither a grant nor a release, in whatever
\* order they come, leaks a slot or returns one twice.
THEOREM CountersAreTheSlotsHeld == Spec => []Accounting
BY CountedInvariant, PTL DEF IInv

-----------------------------------------------------------------------------
\* While somebody waits, somebody holds a slot: a drain stops only when every
\* waiter is refused, and with no slot held none is.
THEOREM NoWakeUpIsLost == Spec => []NoStall
<1>1. Init => NoStall
  BY DEF Init, NoStall
<1>2. IInv /\ NoStall /\ [Next]_vars => NoStall'
  <2> SUFFICES ASSUME IInv, NoStall, [Next]_vars, ~draining', waiters' # <<>>
               PROVE  holding' # {}
    BY DEF NoStall
  <2>1. CASE DrainEnds
    <3>1. waiters \in Seq(Requests) /\ waiters # <<>> /\ holding' = holding
      BY <2>1 DEF DrainEnds, IInv, TypeOK
    <3>2. 1 \in DOMAIN waiters /\ waiters[1] \in Requests
      BY <3>1, EmptySeq, LenProperties, ElementOfSeq
    <3>3. MayRefuse(waiters[1]) /\ ChannelOf[waiters[1]] \in Channels
      BY <2>1, <3>2, LimiterAssumption DEF DrainEnds
    <3>4. ASSUME holding = {} PROVE FALSE
      <4>1. activeTotal = 0
        BY <3>4, FS_EmptySet DEF IInv, Accounting
      <4>2. HoldingOn(ChannelOf[waiters[1]]) = {}
        BY <3>4 DEF HoldingOn
      <4>3. activeByChannel[ChannelOf[waiters[1]]] = 0
        BY <4>2, <3>3, FS_EmptySet DEF IInv, Accounting
      <4>4. ChannelLimit[waiters[1]] \in Nat \ {0}
        BY <3>2, LimiterAssumption
      <4>5. QED
        BY <3>3, <4>1, <4>3, <4>4 DEF MayRefuse, AtOne, ChannelFree
    <3>5. QED
      BY <3>1, <3>4
  <2>2. CASE \E i \in DOMAIN waiters : Start(i)
    BY <2>2 DEF Start
  <2>3. CASE \E r \in Requests : Acquire(r) \/ Release(r)
    BY <2>3 DEF Acquire, Release
  <2>4. CASE UNCHANGED vars
    BY <2>4 DEF vars, NoStall
  <2>5. QED
    BY <2>1, <2>2, <2>3, <2>4 DEF Next, Drain
<1>3. QED
  BY <1>1, <1>2, CountedInvariant, PTL DEF Spec

-----------------------------------------------------------------------------
\* Of the requests that allow their channel, or their pool, n slots, at most n
\* hold one: each was admitted while fewer than n slots were taken.
THEOREM LimitsAreKept == Spec => []LimitsKept
<1>1. Init => LimitsKept
  <2> SUFFICES ASSUME Init, NEW r \in Requests
               PROVE  /\ Cardinality(Patient(r)) <= ChannelLimit[r]
                      /\ Cardinality(Moderate(r)) <= PoolLimit[r]
    BY DEF LimitsKept
  <2>1. Patient(r) = {} /\ Moderate(r) = {}
    BY DEF Init, Patient, Moderate, HoldingOn
  <2>2. QED
    BY <2>1, FS_EmptySet, LimiterAssumption
<1>2. IInv /\ LimitsKept /\ [Next]_vars => LimitsKept'
  <2> SUFFICES ASSUME IInv, LimitsKept, [Next]_vars, NEW r \in Requests
               PROVE  /\ Cardinality(Patient(r)') <= ChannelLimit[r]
                      /\ Cardinality(Moderate(r)') <= PoolLimit[r]
    BY DEF LimitsKept
  <2>0. /\ Patient(r) \in SUBSET Requests /\ Moderate(r) \in SUBSET Requests
        /\ Cardinality(Patient(r)) <= ChannelLimit[r]
        /\ Cardinality(Moderate(r)) <= PoolLimit[r]
        /\ ChannelLimit[r] \in Nat /\ PoolLimit[r] \in Nat /\ ChannelOf[r] \in Channels
    BY LimiterAssumption DEF Patient, Moderate, HoldingOn, IInv, TypeOK, LimitsKept
  <2>1. CASE holding' \subseteq holding
    <3>1. Patient(r)' \subseteq Patient(r) /\ Moderate(r)' \subseteq Moderate(r)
      BY <2>1 DEF Patient, Moderate, HoldingOn
    <3>2. /\ Cardinality(Patient(r)') <= Cardinality(Patient(r))
          /\ Cardinality(Moderate(r)') <= Cardinality(Moderate(r))
      BY <3>1, <2>0, FinitelyMany, FS_Subset
    <3>3. /\ Cardinality(Patient(r)) \in Nat /\ Cardinality(Patient(r)') \in Nat
          /\ Cardinality(Moderate(r)) \in Nat /\ Cardinality(Moderate(r)') \in Nat
      BY <3>1, <2>0, FinitelyMany
    <3>4. QED
      BY <3>2, <3>3, <2>0
  <2>2. CASE \E i \in DOMAIN waiters : Start(i)
    <3>1. PICK i \in DOMAIN waiters : Start(i)
      BY <2>2
    <3> DEFINE q == waiters[i]
    <3>2. /\ q \in Requests /\ q \notin holding /\ holding' = holding \cup {q}
          /\ ChannelLimit[q] \in Nat /\ PoolLimit[q] \in Nat /\ ChannelOf[q] \in Channels
          /\ holding \in SUBSET Requests
      BY <3>1, LimiterAssumption, ElementOfSeq DEF IInv, TypeOK, OncePerRequest, Start
    <3>3. /\ Cardinality(holding) < PoolLimit[q]
          /\ Cardinality(HoldingOn(ChannelOf[q])) < ChannelLimit[q]
      BY <3>1, <3>2 DEF Start, MayStart, BelowCap, ChannelFree, IInv, Accounting
    <3> HIDE DEF q
    <3>4. \A S \in SUBSET Requests :
            Cardinality(S) \in Nat /\ (q \notin S => Cardinality(S \cup {q}) = Cardinality(S) + 1)
      BY <3>2, FinitelyMany, FS_AddElement
    <3>5. \A S \in SUBSET Requests : \A T \in SUBSET S : Cardinality(T) <= Cardinality(S)
      BY FinitelyMany, FS_Subset
    <3>6. Cardinality(Moderate(r)') <= PoolLimit[r]
      <4>1. CASE PoolLimit[q] <= PoolLimit[r]
        <5>1. Moderate(r)' = Moderate(r) \cup {q} /\ q \notin Moderate(r)
          BY <4>1, <3>2 DEF Moderate
        <5>2. Cardinality(Moderate(r)) <= Cardinality(holding)
          BY <3>2, <3>5 DEF Moderate
        <5>3. Cardinality(Moderate(r)') = Cardinality(Moderate(r)) + 1
          BY <5>1, <2>0, <3>4
        <5>4. Cardinality(Moderate(r)) \in Nat /\ Cardinality(holding) \in Nat
          BY <3>4, <2>0, <3>2
        <5>5. QED
          BY <5>2, <5>3, <5>4, <4>1, <3>3, <3>2, <2>0
      <4>2. CASE ~(PoolLimit[q] <= PoolLimit[r])
        <5>1. Moderate(r)' = Moderate(r)
          BY <4>2, <3>2 DEF Moderate
        <5>2. QED
          BY <5>1, <2>0
      <4>3. QED
        BY <4>1, <4>2
    <3>7. Cardinality(Patient(r)') <= ChannelLimit[r]
      <4>1. CASE ChannelOf[q] = ChannelOf[r] /\ ChannelLimit[q] <= ChannelLimit[r]
        <5>1. Patient(r)' = Patient(r) \cup {q} /\ q \notin Patient(r)
          BY <4>1, <3>2 DEF Patient, HoldingOn
        <5>2. HoldingOn(ChannelOf[q]) \in SUBSET Requests
              /\ Patient(r) \in SUBSET HoldingOn(ChannelOf[q])
          BY <4>1, <3>2 DEF Patient, HoldingOn
        <5>3. Cardinality(Patient(r)) <= Cardinality(HoldingOn(ChannelOf[q]))
          BY <5>2, <3>5
        <5>4. Cardinality(Patient(r)') = Cardinality(Patient(r)) + 1
          BY <5>1, <2>0, <3>4
        <5>5. Cardinality(Patient(r)) \in Nat /\ Cardinality(HoldingOn(ChannelOf[q])) \in Nat
          BY <3>4, <2>0, <5>2
        <5>6. QED
          BY <5>3, <5>4, <5>5, <4>1, <3>3, <3>2, <2>0
      <4>2. CASE ~(ChannelOf[q] = ChannelOf[r] /\ ChannelLimit[q] <= ChannelLimit[r])
        <5>1. Patient(r)' = Patient(r)
          BY <4>2, <3>2 DEF Patient, HoldingOn
        <5>2. QED
          BY <5>1, <2>0
      <4>3. QED
        BY <4>1, <4>2
    <3>8. QED
      BY <3>6, <3>7
  <2>3. QED
    BY <2>1, <2>2 DEF Next, Drain, Acquire, DrainEnds, Release, vars
<1>3. QED
  BY <1>1, <1>2, CountedInvariant, PTL DEF Spec
=============================================================================
