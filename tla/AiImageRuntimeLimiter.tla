-------------------------- MODULE AiImageRuntimeLimiter --------------------------
(***************************************************************************)
(* The slots in which one server process calls the image providers.        *)
(*                                                                         *)
(* A request queues a waiter and drains the queue; so does the release of  *)
(* a slot.  The drain runs in one piece on the event loop: while draining, *)
(* nothing else does.  How many slots there are depends on the memory and  *)
(* the database pool at each look, so it is any number from one to what    *)
(* the waiter's pool and the cap allow.                                    *)
(***************************************************************************)
EXTENDS Integers, FiniteSets, Sequences, SequencesExt

CONSTANTS
  Requests,      \* image requests
  Channels,      \* channel keys
  ChannelOf,     \* the channel of a request
  ChannelLimit,  \* channelLimit of a request
  PoolLimit,     \* poolLimit of a request
  Cap            \* GLOBAL_CONCURRENCY_CAP

ASSUME LimiterAssumption ==
  /\ IsFiniteSet(Requests)
  /\ ChannelOf \in [Requests -> Channels]
  /\ ChannelLimit \in [Requests -> Nat \ {0}]
  /\ PoolLimit \in [Requests -> Nat \ {0}]
  /\ Cap \in Nat \ {0}

VARIABLES
  waiters,          \* state.waiters
  activeTotal,      \* state.activeTotal
  activeByChannel,  \* state.activeByChannel, zero where the map has no entry
  holding,          \* requests that hold a slot
  draining          \* a drain is under way

vars == <<waiters, activeTotal, activeByChannel, holding, draining>>

Init ==
  /\ waiters = <<>>
  /\ activeTotal = 0
  /\ activeByChannel = [c \in Channels |-> 0]
  /\ holding = {}
  /\ draining = FALSE

-----------------------------------------------------------------------------
Waiting == {waiters[i] : i \in DOMAIN waiters}
LessOne(n) == IF n = 0 THEN 0 ELSE n - 1

\* The channel has room.  Faulty variant: one more than its limit.
ChannelFreeLate(r) == activeByChannel[ChannelOf[r]] <= ChannelLimit[r]
ChannelFree(r) == activeByChannel[ChannelOf[r]] < ChannelLimit[r]

\* activeTotal < adaptiveAiImageConcurrency(poolLimit) at its highest.  Faulty
\* variant: the cap is forgotten.
PoolOnly(r) == activeTotal < PoolLimit[r]
BelowCap(r) == activeTotal < PoolLimit[r] /\ activeTotal < Cap

\* At its lowest the adaptive limit is one.  Faulty variant: it is zero.
Starved(r) == TRUE
AtOne(r) == activeTotal >= 1

MayStart(r)  == BelowCap(r) /\ ChannelFree(r)
MayRefuse(r) == AtOne(r) \/ ~ChannelFree(r)

\* A waiter that holds a slot counts once more for the pool and its channel.
CountIn(r) ==
  /\ activeTotal' = activeTotal + 1
  /\ activeByChannel' = [activeByChannel EXCEPT ![ChannelOf[r]] = @ + 1]

\* Faulty variant: the release forgets the channel.
CountOutTotal(r) ==
  activeTotal' = LessOne(activeTotal) /\ UNCHANGED activeByChannel
CountOut(r) ==
  /\ activeTotal' = LessOne(activeTotal)
  /\ activeByChannel' = [activeByChannel EXCEPT ![ChannelOf[r]] = LessOne(@)]

-----------------------------------------------------------------------------
\* acquireAiImageRuntimeSlot.
Acquire(r) ==
  /\ ~draining
  /\ r \notin holding \cup Waiting
  /\ waiters' = Append(waiters, r)
  /\ draining' = TRUE
  /\ UNCHANGED <<activeTotal, activeByChannel, holding>>

\* One round of drainWaiters: every waiter before the i-th is refused, the
\* i-th starts.
Start(i) ==
  LET r == waiters[i] IN
  /\ draining
  /\ \A k \in 1 .. i - 1 : MayRefuse(waiters[k])
  /\ MayStart(r)
  /\ waiters' = RemoveAt(waiters, i)
  /\ holding' = holding \cup {r}
  /\ CountIn(r)
  /\ UNCHANGED draining

\* The last round: every waiter is refused.
DrainEnds ==
  /\ draining
  /\ \A i \in DOMAIN waiters : MayRefuse(waiters[i])
  /\ draining' = FALSE
  /\ UNCHANGED <<waiters, activeTotal, activeByChannel, holding>>

\* The operation of r ended, or its permission was gone: finally, release().
Release(r) ==
  /\ ~draining
  /\ r \in holding
  /\ holding' = holding \ {r}
  /\ CountOut(r)
  /\ draining' = TRUE
  /\ UNCHANGED waiters

Drain == (\E i \in DOMAIN waiters : Start(i)) \/ DrainEnds

Next ==
  \/ \E r \in Requests : Acquire(r)
  \/ Drain
  \/ \E r \in Requests : Release(r)

Spec == Init /\ [][Next]_vars

-----------------------------------------------------------------------------
\* Types; however the memory and the pool swing, the cap holds.
TypeOK ==
  /\ waiters \in Seq(Requests)
  /\ activeTotal \in 0 .. Cap
  /\ activeByChannel \in [Channels -> 0 .. Cap]
  /\ holding \subseteq Requests
  /\ draining \in BOOLEAN

HoldingOn(c) == {r \in holding : ChannelOf[r] = c}

\* The counters are the slots that are held, through every order of grants and
\* releases: none leaks and none is returned twice.
Accounting ==
  /\ activeTotal = Cardinality(holding)
  /\ \A c \in Channels : activeByChannel[c] = Cardinality(HoldingOn(c))

\* At most n of the requests that allow their channel, or their pool, n slots
\* hold one, whatever limits the requests beside them carry.
Patient(r)  == {q \in HoldingOn(ChannelOf[r]) : ChannelLimit[q] <= ChannelLimit[r]}
Moderate(r) == {q \in holding : PoolLimit[q] <= PoolLimit[r]}
LimitsKept ==
  \A r \in Requests :
    /\ Cardinality(Patient(r)) <= ChannelLimit[r]
    /\ Cardinality(Moderate(r)) <= PoolLimit[r]

\* No wake-up is lost: while somebody waits, somebody holds a slot whose release
\* drains the queue again.
NoStall == ~draining /\ waiters # <<>> => holding # {}
=============================================================================
