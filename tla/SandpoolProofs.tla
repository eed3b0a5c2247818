--------------------------- MODULE SandpoolProofs ---------------------------
(* Theorems about Sandpool, for every number of callers and every option.  *)
EXTENDS Sandpool, FiniteSetTheorems, CommunityLemmas, TLAPS

(***************************************************************************)
(* The inductive invariant.  Sound holds of the state before a pump as     *)
(* well as after it, Settled only after it.                                *)
(***************************************************************************)
IdleQueueSound(s) ==
    /\ \A i \in 1..Len(s.idle) : s.phase[s.idle[i]] = "idle"
    /\ \A i, j \in 1..Len(s.idle) : s.idle[i] = s.idle[j] => i = j

Bounded(s) ==
    /\ IsFiniteSet(Records(s))
    /\ Size(s) + s.creating <= MaxSandboxes
    /\ s.createFailures + s.creating <= MaxCreateAttempts

BatchSound(s) ==
    /\ s.creationExhausted =>
         /\ s.createFailures = MaxCreateAttempts
         /\ ~s.retryTimer
         /\ s.acquisitions = <<>>
         /\ s.heatWaiters = {}
    /\ s.lifecycle = "active" /\ s.createFailures = MaxCreateAttempts =>
         s.creationExhausted

Drained(s) ==
    s.lifecycle # "active" =>
      /\ s.acquisitions = <<>> /\ s.heatWaiters = {} /\ s.idle = <<>>
      /\ ~s.retryTimer
      /\ \A r \in Sandboxes : s.phase[r] \notin {"idle", "leased"}

Sound(s) ==
    /\ s \in State
    /\ IdleQueueSound(s)
    /\ Bounded(s)
    /\ BatchSound(s)
    /\ Drained(s)

Progress(s) == s.creating > 0 \/ s.retryTimer \/ Size(s) = MaxSandboxes

Settled(s) ==
    /\ s.acquisitions # <<>> => s.idle = <<>> /\ Progress(s)
    /\ s.heatWaiters # {} => Len(s.idle) < MinIdle /\ Progress(s)
    /\ (s.lifecycle = "disposed") <=>
          (s.lifecycle # "active" /\ s.creating = 0 /\ Records(s) = {})

PoolInv == Sound(pool) /\ Settled(pool)
-----------------------------------------------------------------------------
(* the parts of pump *)

\* Records depends on the phases only through "absent".
LEMMA RecordsSame ==
    ASSUME NEW s, NEW t,
           \A r \in Sandboxes : s.phase[r] = "absent" <=> t.phase[r] = "absent"
    PROVE  Records(s) = Records(t) /\ Size(s) = Size(t)
  BY DEF Records, Size

\* Handing idle sandboxes to acquisitions keeps the state sound and leaves
\* either no idle sandbox or no acquisition.
LEMMA GrantIdleSound ==
    ASSUME NEW s, Sound(s), s.lifecycle = "active"
    PROVE  LET t == GrantIdle(s)
           IN  /\ Sound(t)
               /\ t.lifecycle = "active"
               /\ t.idle = <<>> \/ t.acquisitions = <<>>
               /\ t.creationExhausted = s.creationExhausted
<1> DEFINE t == GrantIdle(s)
           k == Min({Len(s.idle), Len(s.acquisitions)})
           Rank(c) == CHOOSE i \in 1..k : s.acquisitions[i] = c
<1>1. s \in State
  BY DEF Sound
<1>2. /\ s.idle \in Seq(Sandboxes) /\ Len(s.idle) \in Nat
      /\ s.acquisitions \in Seq(Callers) /\ Len(s.acquisitions) \in Nat
      /\ \A i \in 1..Len(s.idle) : s.idle[i] \in Sandboxes
  BY <1>1 DEF State
<1>3. /\ k \in Nat /\ k <= Len(s.idle) /\ k <= Len(s.acquisitions)
      /\ k = Len(s.idle) \/ k = Len(s.acquisitions)
  <2>1. Len(s.idle) \in Int /\ Len(s.acquisitions) \in Int
    BY <1>2
  <2>2. /\ k \in {Len(s.idle), Len(s.acquisitions)}
        /\ k <= Len(s.idle) /\ k <= Len(s.acquisitions)
    BY <2>1, MinOfTwo
  <2> HIDE DEF k
  <2>3. QED
    BY <2>2, <1>2
<1> HIDE DEF k
<1>4. t = [s EXCEPT
            !.idle = SubSeq(s.idle, k + 1, Len(s.idle)),
            !.acquisitions = SubSeq(s.acquisitions, k + 1, Len(s.acquisitions)),
            !.phase = [r \in Sandboxes |->
                 IF r \in {s.idle[i] : i \in 1..k} THEN "leased" ELSE s.phase[r]],
            !.call = [c \in Callers |->
                 IF c \in {s.acquisitions[i] : i \in 1..k} THEN "holding" ELSE s.call[c]],
            !.lease = [c \in Callers |->
                 IF c \in {s.acquisitions[i] : i \in 1..k}
                 THEN s.idle[Rank(c)] ELSE s.lease[c]]]
  BY DEF GrantIdle, k
<1> HIDE DEF t
<1>5. /\ t.lifecycle = s.lifecycle
      /\ t.heatWaiters = s.heatWaiters
      /\ t.creating = s.creating
      /\ t.createFailures = s.createFailures
      /\ t.creationExhausted = s.creationExhausted
      /\ t.retryTimer = s.retryTimer
      /\ t.idle = SubSeq(s.idle, k + 1, Len(s.idle))
      /\ t.acquisitions = SubSeq(s.acquisitions, k + 1, Len(s.acquisitions))
      /\ t.phase = [r \in Sandboxes |->
           IF r \in {s.idle[i] : i \in 1..k} THEN "leased" ELSE s.phase[r]]
  BY <1>1, <1>4 DEF State
<1>5a. /\ \A r \in Sandboxes : t.phase[r] =
             IF \E i \in 1..k : r = s.idle[i] THEN "leased" ELSE s.phase[r]
       /\ \A i \in 1..k : s.phase[s.idle[i]] = "idle"
  <2>1. \A r : r \in {s.idle[i] : i \in 1..k} <=> \E i \in 1..k : r = s.idle[i]
    OBVIOUS
  <2>2. \A i \in 1..k : i \in 1..Len(s.idle)
    BY <1>2, <1>3
  <2>3. QED
    BY <2>1, <2>2, <1>5 DEF Sound, IdleQueueSound
<1>6. /\ t.idle \in Seq(Sandboxes)
      /\ Len(t.idle) = Len(s.idle) - k
      /\ \A i \in 1..(Len(s.idle) - k) : t.idle[i] = s.idle[k + i]
  <2>1. \A i \in (k + 1)..Len(s.idle) : s.idle[i] \in Sandboxes
    BY <1>2, <1>3
  <2>2. /\ t.idle \in Seq(Sandboxes)
        /\ Len(t.idle) = IF k + 1 <= Len(s.idle) THEN Len(s.idle) - (k + 1) + 1 ELSE 0
        /\ \A i \in 1..(Len(s.idle) - (k + 1) + 1) : t.idle[i] = s.idle[(k + 1) + i - 1]
    BY <2>1, <1>2, <1>3, <1>5, SubSeqProperties
  <2>3. QED
    BY <2>2, <1>2, <1>3
<1>7. /\ t.acquisitions \in Seq(Callers)
      /\ Len(t.acquisitions) = Len(s.acquisitions) - k
  <2>1. \A i \in (k + 1)..Len(s.acquisitions) : s.acquisitions[i] \in Callers
    BY <1>2, <1>3
  <2>2. /\ t.acquisitions \in Seq(Callers)
        /\ Len(t.acquisitions) = IF k + 1 <= Len(s.acquisitions)
                                 THEN Len(s.acquisitions) - (k + 1) + 1 ELSE 0
    BY <2>1, <1>2, <1>3, <1>5, SubSeqProperties
  <2>3. QED
    BY <2>2, <1>2, <1>3
<1>8. \A c \in {s.acquisitions[i] : i \in 1..k} : s.idle[Rank(c)] \in Sandboxes
  BY <1>2, <1>3
<1>9. t \in State
  BY <1>1, <1>4, <1>6, <1>7, <1>8, <1>5, ZenonT(30) DEF State, Phases, CallStates
<1>10. IdleQueueSound(t)
  <2>1. \A i \in 1..Len(t.idle) :
           /\ k + i \in 1..Len(s.idle) /\ t.idle[i] = s.idle[k + i]
           /\ \A j \in 1..k : s.idle[k + i] # s.idle[j]
    <3> SUFFICES ASSUME NEW i \in 1..Len(t.idle)
                 PROVE  /\ k + i \in 1..Len(s.idle) /\ t.idle[i] = s.idle[k + i]
                        /\ \A j \in 1..k : s.idle[k + i] # s.idle[j]
      OBVIOUS
    <3>1. k + i \in 1..Len(s.idle) /\ t.idle[i] = s.idle[k + i]
      BY <1>2, <1>3, <1>6
    <3>2. \A j \in 1..k : j \in 1..Len(s.idle) /\ j # k + i
      BY <1>2, <1>3
    <3>3. QED
      BY <3>1, <3>2 DEF Sound, IdleQueueSound
  <2>2. ASSUME NEW i \in 1..Len(t.idle) PROVE t.phase[t.idle[i]] = "idle"
    <3>1. /\ s.idle[k + i] \in Sandboxes /\ t.idle[i] = s.idle[k + i]
          /\ ~ \E j \in 1..k : s.idle[k + i] = s.idle[j]
      BY <2>1, <1>2
    <3>2. t.phase[s.idle[k + i]] = s.phase[s.idle[k + i]]
      BY <3>1, <1>5a
    <3>3. s.phase[s.idle[k + i]] = "idle"
      BY <2>1 DEF Sound, IdleQueueSound
    <3>4. QED
      BY <3>1, <3>2, <3>3
  <2>3. ASSUME NEW i \in 1..Len(t.idle), NEW j \in 1..Len(t.idle), t.idle[i] = t.idle[j]
        PROVE  i = j
    <3>1. k + i = k + j
      BY <2>1, <2>3 DEF Sound, IdleQueueSound
    <3>2. QED
      BY <3>1, <1>3, <1>6, <1>2
  <2>4. QED
    BY <2>2, <2>3 DEF IdleQueueSound
<1>11. Bounded(t)
  <2>1. \A r \in Sandboxes : s.phase[r] = "absent" <=> t.phase[r] = "absent"
    BY <1>2, <1>5a
  <2>2. QED
    BY <2>1, <1>5, RecordsSame, SMTT(30) DEF Sound, Bounded
<1>12. BatchSound(t)
  <2>1. s.acquisitions = <<>> => t.acquisitions = <<>>
    BY <1>2, <1>3, <1>7
  <2>2. QED
    BY <2>1, <1>5 DEF Sound, BatchSound
<1>13. Drained(t) /\ t.lifecycle = "active"
  BY <1>5 DEF Drained
<1>14. t.idle = <<>> \/ t.acquisitions = <<>>
  BY <1>2, <1>3, <1>6, <1>7
<1>15. QED
  BY <1>5, <1>9, <1>10, <1>11, <1>12, <1>13, <1>14 DEF Sound, t

\* Resolving the heat waiters leaves none in a heated pool.
LEMMA ResolveHeatWaitersSound ==
    ASSUME NEW s, Sound(s), s.lifecycle = "active"
    PROVE  LET t == ResolveHeatWaiters(s)
           IN  /\ Sound(t)
               /\ t.lifecycle = "active"
               /\ t.idle = s.idle
               /\ t.acquisitions = s.acquisitions
               /\ t.heatWaiters # {} => Len(t.idle) < MinIdle
<1> DEFINE t == ResolveHeatWaiters(s)
<1>1. s \in State /\ Len(s.idle) \in Nat /\ MinIdle \in Nat
  BY PoolOptions DEF Sound, State
<1>2. CASE IsHeated(s)
  <2>1. t = [s EXCEPT !.heatWaiters = {},
                      !.call = [c \in Callers |->
                                  IF c \in s.heatWaiters THEN "out" ELSE s.call[c]]]
    BY <1>2 DEF ResolveHeatWaiters
  <2> HIDE DEF t
  <2>2. /\ t \in State /\ t.lifecycle = s.lifecycle /\ t.idle = s.idle
        /\ t.phase = s.phase /\ t.acquisitions = s.acquisitions /\ t.heatWaiters = {}
        /\ t.creating = s.creating /\ t.createFailures = s.createFailures
        /\ t.creationExhausted = s.creationExhausted /\ t.retryTimer = s.retryTimer
    BY <1>1, <2>1 DEF State, CallStates
  <2>3. Records(s) = Records(t) /\ Size(s) = Size(t)
    BY <2>2, RecordsSame
  <2>4. QED
    BY <2>2, <2>3 DEF Sound, IdleQueueSound, Bounded, BatchSound, Drained, t
<1>3. CASE ~IsHeated(s)
  BY <1>1, <1>3 DEF ResolveHeatWaiters, IsHeated
<1>4. QED
  BY <1>2, <1>3

\* Starting creations respects both bounds, and leaves no waiter without a
\* factory call, a timer or a full pool.
LEMMA StartRequiredCreationsSound ==
    ASSUME NEW s, Sound(s), s.lifecycle = "active",
           s.idle = <<>> \/ s.acquisitions = <<>>,
           s.heatWaiters # {} => Len(s.idle) < MinIdle
    PROVE  LET t == StartRequiredCreations(s) IN Sound(t) /\ Settled(t)
<1> DEFINE t == StartRequiredCreations(s)
           capacity == MaxSandboxes - (Size(s) + s.creating)
           deficit == Len(s.acquisitions) + MinIdle - Len(s.idle)
           remaining == MaxCreateAttempts - s.createFailures - s.creating
           n == RequiredCreations(s)
<1>1. /\ s \in State /\ s.creating \in Nat /\ s.createFailures \in Nat
      /\ Len(s.idle) \in Nat /\ Len(s.acquisitions) \in Nat /\ Size(s) \in Nat
      /\ s.acquisitions \in Seq(Callers) /\ s.idle \in Seq(Sandboxes)
  BY FS_CardinalityType DEF Sound, State, Bounded, Size
<1>2. MinIdle \in Nat /\ MaxSandboxes \in Nat /\ MaxCreateAttempts \in Nat
  BY PoolOptions
<1>3. CASE s.retryTimer \/ s.creationExhausted
  <2>1. t = s
    BY <1>3 DEF StartRequiredCreations
  <2>2. s.acquisitions # <<>> \/ s.heatWaiters # {} => s.retryTimer
    BY <1>3 DEF Sound, BatchSound
  <2>3. QED
    BY <2>1, <2>2 DEF Settled, Progress
<1>4. CASE ~(s.retryTimer \/ s.creationExhausted)
  <2>1. t = [s EXCEPT !.creating = s.creating + n]
    BY <1>4 DEF StartRequiredCreations
  <2>2. /\ n \in Nat
        /\ n <= 0 \/ n <= capacity
        /\ n <= 0 \/ n <= remaining
        /\ capacity >= 1 /\ deficit >= 1 /\ remaining >= 1 => n >= 1
    <3>1. capacity \in Int /\ deficit \in Int /\ remaining \in Int
      BY <1>1, <1>2
    <3>2. n = Max({0, Min({capacity, deficit, remaining})})
      BY DEF RequiredCreations
    <3> HIDE DEF capacity, deficit, remaining, n
    <3>3. /\ Min({capacity, deficit, remaining}) \in {capacity, deficit, remaining}
          /\ Min({capacity, deficit, remaining}) <= capacity
          /\ Min({capacity, deficit, remaining}) <= deficit
          /\ Min({capacity, deficit, remaining}) <= remaining
      BY <3>1, MinOfThree
    <3> DEFINE m == Min({capacity, deficit, remaining})
    <3> HIDE DEF m
    <3>4. /\ m \in {capacity, deficit, remaining} /\ m \in Int
          /\ m <= capacity /\ m <= deficit /\ m <= remaining
      BY <3>1, <3>3 DEF m
    <3>5. n = Max({0, m})
      BY <3>2 DEF m
    <3>6. n \in {0, m} /\ n >= 0 /\ n >= m
      <4>1. 0 \in Int /\ m \in Int
        BY <3>4
      <4>2. Max({0, m}) \in {0, m} /\ Max({0, m}) >= 0 /\ Max({0, m}) >= m
        BY <4>1, MaxOfTwo, Zenon
      <4>3. QED
        BY <3>5, <4>2
    <3>7. n \in Nat
      BY <3>4, <3>6
    <3>8. n <= 0 \/ (n <= capacity /\ n <= remaining)
      BY <3>1, <3>4, <3>6
    <3>9. capacity >= 1 /\ deficit >= 1 /\ remaining >= 1 => m >= 1
      BY <3>1, <3>4
    <3>10. QED
      BY <3>1, <3>4, <3>6, <3>7, <3>8, <3>9
  <2> HIDE DEF t, n
  <2>3. /\ t \in State /\ t.lifecycle = s.lifecycle /\ t.idle = s.idle
        /\ t.phase = s.phase /\ t.acquisitions = s.acquisitions
        /\ t.heatWaiters = s.heatWaiters
        /\ t.creating = s.creating + n /\ t.createFailures = s.createFailures
        /\ t.creationExhausted = s.creationExhausted /\ t.retryTimer = s.retryTimer
    BY <1>1, <2>1, <2>2, SMTT(30) DEF State
  <2>4. Records(s) = Records(t) /\ Size(s) = Size(t)
    BY <2>3, RecordsSame
  <2>5. Bounded(t)
    <3>1. Size(s) + s.creating + n <= MaxSandboxes
      BY <1>1, <1>2, <2>2 DEF Sound, Bounded
    <3>2. s.createFailures + s.creating + n <= MaxCreateAttempts
      BY <1>1, <1>2, <2>2 DEF Sound, Bounded
    <3>3. QED
      BY <3>1, <3>2, <2>2, <2>3, <2>4, <1>1 DEF Sound, Bounded
  <2>6. Sound(t)
    BY <2>3, <2>5 DEF Sound, IdleQueueSound, BatchSound, Drained
  <2>7. ASSUME deficit >= 1
        PROVE  Progress(t)
    <3>1. CASE s.creating > 0
      BY <3>1, <1>1, <2>2, <2>3 DEF Progress
    <3>2. CASE s.creating = 0 /\ Size(s) = MaxSandboxes
      BY <3>2, <2>4 DEF Progress
    <3>3. CASE s.creating = 0 /\ Size(s) # MaxSandboxes
      <4>1. capacity >= 1
        BY <3>3, <1>1, <1>2 DEF Sound, Bounded
      <4>2. s.createFailures # MaxCreateAttempts
        BY <1>4 DEF Sound, BatchSound
      <4>3. remaining >= 1
        BY <4>2, <3>3, <1>1, <1>2 DEF Sound, Bounded
      <4>4. n >= 1
        BY <4>1, <4>3, <2>2, <2>7
      <4>5. QED
        BY <4>4, <2>2, <2>3, <1>1 DEF Progress
    <3>4. QED
      BY <3>1, <3>2, <3>3, <1>1
  <2>8. s.acquisitions # <<>> => s.idle = <<>> /\ deficit >= 1
    <3>1. s.acquisitions # <<>> => Len(s.acquisitions) >= 1
      BY <1>1
    <3>2. s.idle = <<>> => Len(s.idle) = 0
      OBVIOUS
    <3>3. QED
      BY <3>1, <3>2, <1>1, <1>2
  <2>9. s.heatWaiters # {} => Len(s.idle) < MinIdle /\ deficit >= 1
    BY <1>1, <1>2
  <2>10. QED
    BY <2>3, <2>6, <2>7, <2>8, <2>9 DEF Settled, t
<1>5. QED
  BY <1>3, <1>4

\* A pool that is being disposed of becomes disposed exactly when it is empty.
LEMMA FinishDisposeSound ==
    ASSUME NEW s, Sound(s), s.lifecycle # "active",
           s.lifecycle = "disposed" => s.creating = 0 /\ Records(s) = {}
    PROVE  LET t == FinishDisposeIfPossible(s) IN Sound(t) /\ Settled(t)
<1> DEFINE t == FinishDisposeIfPossible(s)
<1>1. s \in State /\ s.lifecycle \in {"disposing", "disposed"}
  BY DEF Sound, State
<1>2. CASE s.lifecycle = "disposing" /\ s.creating = 0 /\ Records(s) = {}
  <2>1. t = [s EXCEPT !.lifecycle = "disposed"]
    BY <1>2 DEF FinishDisposeIfPossible
  <2> HIDE DEF t
  <2>2. /\ t \in State /\ t.lifecycle = "disposed" /\ t.idle = s.idle
        /\ t.phase = s.phase /\ t.acquisitions = s.acquisitions
        /\ t.heatWaiters = s.heatWaiters
        /\ t.creating = s.creating /\ t.createFailures = s.createFailures
        /\ t.creationExhausted = s.creationExhausted /\ t.retryTimer = s.retryTimer
    BY <1>1, <2>1 DEF State
  <2>3. Records(s) = Records(t) /\ Size(s) = Size(t)
    BY <2>2, RecordsSame
  <2>4. Sound(t)
    BY <2>2, <2>3 DEF Sound, IdleQueueSound, Bounded, BatchSound, Drained
  <2>5. QED
    BY <1>2, <2>2, <2>3, <2>4 DEF Settled, Sound, Drained, t
<1>3. CASE ~(s.lifecycle = "disposing" /\ s.creating = 0 /\ Records(s) = {})
  <2>1. t = s
    BY <1>3 DEF FinishDisposeIfPossible
  <2>2. QED
    BY <1>1, <1>3, <2>1 DEF Settled, Sound, Drained
<1>4. QED
  BY <1>2, <1>3

\* Every handler that ends in pump only has to leave a sound state.
LEMMA PumpSound ==
    ASSUME NEW s, Sound(s),
           s.lifecycle = "disposed" => s.creating = 0 /\ Records(s) = {}
    PROVE  Sound(Pump(s)) /\ Settled(Pump(s))
<1>1. CASE s.lifecycle = "active"
  <2> DEFINE g == GrantIdle(s)
             h == ResolveHeatWaiters(g)
  <2>1. Pump(s) = StartRequiredCreations(h)
    BY <1>1 DEF Pump
  <2>2. Sound(g) /\ g.lifecycle = "active" /\ (g.idle = <<>> \/ g.acquisitions = <<>>)
    BY <1>1, GrantIdleSound
  <2> HIDE DEF g
  <2>3. /\ Sound(h) /\ h.lifecycle = "active"
        /\ h.idle = <<>> \/ h.acquisitions = <<>>
        /\ h.heatWaiters # {} => Len(h.idle) < MinIdle
    BY <2>2, ResolveHeatWaitersSound
  <2> HIDE DEF h
  <2>4. QED
    BY <2>1, <2>3, StartRequiredCreationsSound
<1>2. CASE s.lifecycle # "active"
  BY <1>2, FinishDisposeSound DEF Pump
<1>3. QED
  BY <1>1, <1>2

-----------------------------------------------------------------------------
(* the calls and the continuations: each leaves a sound state to pump *)

LEMMA InitSound == Init => PoolInv
<1> SUFFICES ASSUME Init PROVE PoolInv
  OBVIOUS
<1> DEFINE s == [lifecycle |-> "active", idle |-> <<>>,
                 phase |-> [r \in Sandboxes |-> "absent"],
                 acquisitions |-> <<>>, heatWaiters |-> {},
                 creating |-> 0, createFailures |-> 0,
                 creationExhausted |-> FALSE, retryTimer |-> FALSE,
                 call |-> [c \in Callers |-> "out"],
                 lease |-> [c \in Callers |-> None]]
<1>1. s \in State
  BY DEF State, Phases, CallStates
<1>2. Records(s) = {} /\ Size(s) = 0 /\ IsFiniteSet(Records(s))
  BY FS_EmptySet DEF Records, Size
<1>3. Sound(s)
  BY <1>1, <1>2, PoolOptions DEF Sound, IdleQueueSound, Bounded, BatchSound, Drained
<1>4. pool = Pump(s)
  BY DEF Init
<1>5. s.lifecycle # "disposed"
  OBVIOUS
<1> HIDE DEF s
<1>6. QED
  BY <1>3, <1>4, <1>5, PumpSound DEF PoolInv

\* A fresh batch starts without failures; an exhausted pool has no creation
\* under way, so that both bounds still hold.
LEMMA ResumeSound ==
    ASSUME NEW s, Sound(s)
    PROVE  LET t == ResumeCreationAttempts(s)
           IN  /\ Sound(t)
               /\ ~t.creationExhausted
               /\ t.lifecycle = s.lifecycle /\ t.idle = s.idle
               /\ t.acquisitions = s.acquisitions /\ t.phase = s.phase
               /\ t.call = s.call /\ t.lease = s.lease /\ t.heatWaiters = s.heatWaiters
<1> DEFINE t == ResumeCreationAttempts(s)
<1>1. s \in State
  BY DEF Sound
<1>2. CASE s.creationExhausted
  <2>1. t = [s EXCEPT !.creationExhausted = FALSE, !.createFailures = 0]
    BY <1>2 DEF ResumeCreationAttempts
  <2> HIDE DEF t
  <2>2. /\ t \in State /\ t.lifecycle = s.lifecycle /\ t.idle = s.idle
        /\ t.phase = s.phase /\ t.acquisitions = s.acquisitions
        /\ t.heatWaiters = s.heatWaiters /\ t.call = s.call /\ t.lease = s.lease
        /\ t.creating = s.creating /\ t.createFailures = 0
        /\ t.creationExhausted = FALSE /\ t.retryTimer = s.retryTimer
    BY <1>1, <2>1 DEF State
  <2>3. Records(s) = Records(t) /\ Size(s) = Size(t)
    BY <2>2, RecordsSame
  <2>4. s.creating \in Nat /\ s.createFailures \in Nat
    BY <1>1 DEF State
  <2>5. Bounded(t)
    BY <2>2, <2>3, <2>4, PoolOptions DEF Sound, Bounded
  <2>6. QED
    BY <2>2, <2>5, PoolOptions DEF Sound, IdleQueueSound, BatchSound, Drained, t
<1>3. CASE ~s.creationExhausted
  BY <1>3 DEF ResumeCreationAttempts
<1>4. QED
  BY <1>2, <1>3

LEMMA RejectWaitersFields ==
    ASSUME NEW s, s \in State
    PROVE  LET t == RejectWaiters(s)
           IN  /\ t \in State /\ t.lifecycle = s.lifecycle /\ t.idle = s.idle
               /\ t.phase = s.phase /\ t.acquisitions = <<>> /\ t.heatWaiters = {}
               /\ t.creating = s.creating /\ t.createFailures = s.createFailures
               /\ t.creationExhausted = s.creationExhausted
               /\ t.retryTimer = s.retryTimer /\ t.lease = s.lease
<1> DEFINE t == RejectWaiters(s)
           call == [c \in Callers |->
                      IF c \in ToSet(s.acquisitions) \cup s.heatWaiters
                      THEN "out" ELSE s.call[c]]
<1>1. call \in [Callers -> CallStates]
  BY DEF State, CallStates
<1>2. t = [s EXCEPT !.acquisitions = <<>>, !.heatWaiters = {}, !.call = call]
  BY DEF RejectWaiters
<1> HIDE DEF t, call
<1>3. <<>> \in Seq(Callers)
  OBVIOUS
<1>4. /\ t \in State /\ t.lifecycle = s.lifecycle /\ t.idle = s.idle
      /\ t.phase = s.phase /\ t.acquisitions = <<>> /\ t.heatWaiters = {}
      /\ t.creating = s.creating /\ t.createFailures = s.createFailures
      /\ t.creationExhausted = s.creationExhausted
      /\ t.retryTimer = s.retryTimer /\ t.lease = s.lease
  BY <1>1, <1>2, <1>3 DEF State
<1>5. QED
  BY <1>4 DEF t

\* A disposal takes its sandbox out of the idle queue and keeps its place.
LEMMA StartDisposalSound ==
    ASSUME NEW s, Sound(s), NEW r \in Sandboxes
    PROVE  LET t == StartDisposal(s, r)
           IN  /\ Sound(t) /\ t.lifecycle = s.lifecycle /\ t.creating = s.creating
               /\ Records(t) = Records(s)
<1> DEFINE t == StartDisposal(s, r)
           rest == RemoveFirst(s.idle, r)
<1>1. s \in State /\ s.idle \in Seq(Sandboxes)
  BY DEF Sound, State
<1>2. CASE s.phase[r] \notin {"idle", "leased"}
  BY <1>2 DEF StartDisposal
<1>3. CASE s.phase[r] \in {"idle", "leased"}
  <2>1. t = [s EXCEPT !.phase[r] = "disposing", !.idle = rest]
    BY <1>3 DEF StartDisposal
  <2>2. /\ rest \in Seq(Sandboxes) /\ Len(rest) <= Len(s.idle)
        /\ \A i \in 1..Len(rest) : rest[i] # r /\ \E j \in 1..Len(s.idle) : rest[i] = s.idle[j]
        /\ \A i, j \in 1..Len(rest) : rest[i] = rest[j] => i = j
    <3>1. \A i, j \in 1..Len(s.idle) : s.idle[i] = s.idle[j] => i = j
      BY DEF Sound, IdleQueueSound
    <3>2. /\ rest \in Seq(Sandboxes)
          /\ \A i \in 1..Len(rest) : \E j \in 1..Len(s.idle) : rest[i] = s.idle[j]
          /\ Len(rest) <= Len(s.idle)
          /\ (\A i, j \in 1..Len(s.idle) : s.idle[i] = s.idle[j] => i = j) =>
                /\ \A i, j \in 1..Len(rest) : rest[i] = rest[j] => i = j
                /\ \A i \in 1..Len(rest) : rest[i] # r
      BY <1>1, RemoveFirstProperties, Zenon
    <3> HIDE DEF rest
    <3>3. QED
      BY <3>1, <3>2
  <2> HIDE DEF t, rest
  <2>3. /\ t \in State /\ t.lifecycle = s.lifecycle /\ t.idle = rest
        /\ t.phase = [s.phase EXCEPT ![r] = "disposing"]
        /\ t.acquisitions = s.acquisitions /\ t.heatWaiters = s.heatWaiters
        /\ t.creating = s.creating /\ t.createFailures = s.createFailures
        /\ t.creationExhausted = s.creationExhausted /\ t.retryTimer = s.retryTimer
    BY <1>1, <2>1, <2>2 DEF State, Phases
  <2>4. \A q \in Sandboxes : s.phase[q] = "absent" <=> t.phase[q] = "absent"
    BY <1>1, <1>3, <2>3 DEF State
  <2>5. Records(s) = Records(t) /\ Size(s) = Size(t)
    BY <2>4, RecordsSame
  <2>6. IdleQueueSound(t)
    <3>1. \A i \in 1..Len(rest) : rest[i] \in Sandboxes /\ s.phase[rest[i]] = "idle"
      BY <1>1, <2>2 DEF Sound, IdleQueueSound
    <3>2. QED
      BY <1>1, <2>2, <2>3, <3>1 DEF IdleQueueSound, State
  <2>7. Drained(t)
    BY <1>3, <2>3 DEF Sound, Drained
  <2>8. QED
    BY <2>3, <2>5, <2>6, <2>7 DEF Sound, Bounded, BatchSound, t
<1>4. QED
  BY <1>2, <1>3

\* Adding a waiter to an active pool that is not exhausted is sound.
LEMMA AcquireSound ==
    ASSUME PoolInv, NEW c \in Callers, Acquire(c)
    PROVE  PoolInv'
<1> DEFINE s == ResumeCreationAttempts(pool)
           t == [s EXCEPT !.acquisitions = Append(s.acquisitions, c),
                          !.call[c] = "acquiring"]
<1>1. /\ Sound(s) /\ ~s.creationExhausted /\ s.lifecycle = "active"
  BY ResumeSound DEF PoolInv, Acquire
<1>2. pool' = Pump(t)
  BY DEF Acquire
<1> HIDE DEF s
<1>3. /\ t \in State /\ t.lifecycle = "active" /\ t.idle = s.idle
      /\ t.phase = s.phase /\ t.heatWaiters = s.heatWaiters
      /\ t.creating = s.creating /\ t.createFailures = s.createFailures
      /\ t.creationExhausted = s.creationExhausted /\ t.retryTimer = s.retryTimer
  <2>1. s \in State /\ s.acquisitions \in Seq(Callers)
    BY <1>1 DEF Sound, State
  <2>2. Append(s.acquisitions, c) \in Seq(Callers)
    BY <2>1, AppendProperties
  <2>3. QED
    BY <1>1, <2>1, <2>2 DEF State, CallStates
<1> HIDE DEF t
<1>4. Records(s) = Records(t) /\ Size(s) = Size(t)
  BY <1>3, RecordsSame
<1>5. Sound(t)
  BY <1>1, <1>3, <1>4 DEF Sound, IdleQueueSound, Bounded, BatchSound, Drained
<1>6. QED
  BY <1>2, <1>3, <1>5, PumpSound DEF PoolInv

LEMMA WaitUntilHeatedSound ==
    ASSUME PoolInv, NEW c \in Callers, WaitUntilHeated(c)
    PROVE  PoolInv'
<1> DEFINE s == ResumeCreationAttempts(pool)
           t == [s EXCEPT !.heatWaiters = s.heatWaiters \cup {c},
                          !.call[c] = "heating"]
<1>1. /\ Sound(s) /\ ~s.creationExhausted /\ s.lifecycle = "active"
  BY ResumeSound DEF PoolInv, WaitUntilHeated
<1>2. pool' = Pump(t)
  BY DEF WaitUntilHeated
<1> HIDE DEF s
<1>3. /\ t \in State /\ t.lifecycle = "active" /\ t.idle = s.idle
      /\ t.phase = s.phase /\ t.acquisitions = s.acquisitions
      /\ t.creating = s.creating /\ t.createFailures = s.createFailures
      /\ t.creationExhausted = s.creationExhausted /\ t.retryTimer = s.retryTimer
  BY <1>1 DEF Sound, State, CallStates
<1> HIDE DEF t
<1>4. Records(s) = Records(t) /\ Size(s) = Size(t)
  BY <1>3, RecordsSame
<1>5. Sound(t)
  BY <1>1, <1>3, <1>4 DEF Sound, IdleQueueSound, Bounded, BatchSound, Drained
<1>6. QED
  BY <1>2, <1>3, <1>5, PumpSound DEF PoolInv

LEMMA AbortAcquireSound ==
    ASSUME PoolInv, NEW c \in Callers, AbortAcquire(c)
    PROVE  PoolInv'
<1> DEFINE t == [pool EXCEPT !.acquisitions = RemoveFirst(pool.acquisitions, c),
                             !.call[c] = "out"]
<1>1. Sound(pool) /\ Settled(pool) /\ pool' = Pump(t)
  BY DEF PoolInv, AbortAcquire
<1>2. pool.acquisitions \in Seq(Callers)
  BY <1>1 DEF Sound, State
<1>3. /\ RemoveFirst(pool.acquisitions, c) \in Seq(Callers)
      /\ Len(RemoveFirst(pool.acquisitions, c)) <= Len(pool.acquisitions)
  BY <1>2, RemoveFirstProperties
<1>4. pool.acquisitions = <<>> => RemoveFirst(pool.acquisitions, c) = <<>>
  BY <1>2, <1>3
<1>5. /\ t \in State /\ t.lifecycle = pool.lifecycle /\ t.idle = pool.idle
      /\ t.phase = pool.phase /\ t.heatWaiters = pool.heatWaiters
      /\ t.acquisitions = RemoveFirst(pool.acquisitions, c)
      /\ t.creating = pool.creating /\ t.createFailures = pool.createFailures
      /\ t.creationExhausted = pool.creationExhausted /\ t.retryTimer = pool.retryTimer
  BY <1>1, <1>3 DEF Sound, State, CallStates
<1> HIDE DEF t
<1>6. Records(pool) = Records(t) /\ Size(pool) = Size(t)
  BY <1>5, RecordsSame
<1>7. Sound(t)
  BY <1>1, <1>4, <1>5, <1>6 DEF Sound, IdleQueueSound, Bounded, BatchSound, Drained
<1>8. QED
  BY <1>1, <1>5, <1>6, <1>7, PumpSound DEF PoolInv, Settled

LEMMA AbortHeatSound ==
    ASSUME PoolInv, NEW c \in Callers, AbortHeat(c)
    PROVE  PoolInv'
<1> DEFINE t == [pool EXCEPT !.heatWaiters = pool.heatWaiters \ {c}, !.call[c] = "out"]
<1>1. Sound(pool) /\ Settled(pool) /\ pool' = t
  BY DEF PoolInv, AbortHeat
<1>2. /\ t \in State /\ t.lifecycle = pool.lifecycle /\ t.idle = pool.idle
      /\ t.phase = pool.phase /\ t.acquisitions = pool.acquisitions
      /\ t.heatWaiters = pool.heatWaiters \ {c}
      /\ t.creating = pool.creating /\ t.createFailures = pool.createFailures
      /\ t.creationExhausted = pool.creationExhausted /\ t.retryTimer = pool.retryTimer
  BY <1>1 DEF Sound, State, CallStates
<1> HIDE DEF t
<1>3. Records(pool) = Records(t) /\ Size(pool) = Size(t)
  BY <1>2, RecordsSame
<1>4. Sound(t)
  BY <1>1, <1>2, <1>3 DEF Sound, IdleQueueSound, Bounded, BatchSound, Drained
<1>5. Settled(t)
  BY <1>1, <1>2, <1>3 DEF Settled, Progress
<1>6. QED
  BY <1>1, <1>4, <1>5 DEF PoolInv

LEMMA ReleaseSound ==
    ASSUME PoolInv, NEW c \in Callers, Release(c)
    PROVE  PoolInv'
<1>1. Sound(pool) /\ Settled(pool) /\ pool \in State
  BY DEF PoolInv, Sound
<1>2. CASE pool.lease[c] = None
  <2> DEFINE t == [pool EXCEPT !.call[c] = "out"]
  <2>1. pool' = t
    BY <1>2 DEF Release
  <2>2. /\ t \in State /\ t.lifecycle = pool.lifecycle /\ t.idle = pool.idle
        /\ t.phase = pool.phase /\ t.acquisitions = pool.acquisitions
        /\ t.heatWaiters = pool.heatWaiters
        /\ t.creating = pool.creating /\ t.createFailures = pool.createFailures
        /\ t.creationExhausted = pool.creationExhausted /\ t.retryTimer = pool.retryTimer
    BY <1>1 DEF State, CallStates
  <2> HIDE DEF t
  <2>3. Records(pool) = Records(t) /\ Size(pool) = Size(t)
    BY <2>2, RecordsSame
  <2>4. Sound(t) /\ Settled(t)
    BY <1>1, <2>2, <2>3
    DEF Sound, IdleQueueSound, Bounded, BatchSound, Drained, Settled, Progress
  <2>5. QED
    BY <2>1, <2>4 DEF PoolInv
<1>3. CASE pool.lease[c] # None
  <2> DEFINE s == [pool EXCEPT !.call[c] = "releasing"]
             r == pool.lease[c]
             t == StartDisposal(s, r)
  <2>1. pool' = Pump(t)
    BY <1>3 DEF Release
  <2>2. r \in Sandboxes
    BY <1>1, <1>3 DEF State
  <2>3. /\ s \in State /\ s.lifecycle = pool.lifecycle /\ s.idle = pool.idle
        /\ s.phase = pool.phase /\ s.acquisitions = pool.acquisitions
        /\ s.heatWaiters = pool.heatWaiters
        /\ s.creating = pool.creating /\ s.createFailures = pool.createFailures
        /\ s.creationExhausted = pool.creationExhausted /\ s.retryTimer = pool.retryTimer
    BY <1>1 DEF State, CallStates
  <2> HIDE DEF s, r
  <2>4. Records(pool) = Records(s) /\ Size(pool) = Size(s)
    BY <2>3, RecordsSame
  <2>5. Sound(s)
    BY <1>1, <2>3, <2>4 DEF Sound, IdleQueueSound, Bounded, BatchSound, Drained
  <2>6. Sound(t) /\ t.lifecycle = s.lifecycle /\ t.creating = s.creating
        /\ Records(t) = Records(s)
    BY <2>2, <2>5, StartDisposalSound
  <2>7. t.lifecycle = "disposed" => t.creating = 0 /\ Records(t) = {}
    BY <1>1, <2>3, <2>4, <2>6 DEF Settled
  <2> HIDE DEF t
  <2>8. QED
    BY <2>1, <2>6, <2>7, PumpSound DEF PoolInv
<1>4. QED
  BY <1>2, <1>3

LEMMA DisposeSound ==
    ASSUME PoolInv, Dispose
    PROVE  PoolInv'
<1> DEFINE a == [pool EXCEPT !.lifecycle = "disposing", !.retryTimer = FALSE]
           s == RejectWaiters(a)
           t == StartAllDisposals(s)
<1>1. Sound(pool) /\ pool \in State /\ pool' = FinishDisposeIfPossible(t)
  BY DEF PoolInv, Sound, Dispose
<1>2. /\ a \in State /\ a.lifecycle = "disposing" /\ a.phase = pool.phase
      /\ a.creating = pool.creating /\ a.createFailures = pool.createFailures
      /\ a.creationExhausted = pool.creationExhausted /\ a.retryTimer = FALSE
  BY <1>1 DEF State
<1> HIDE DEF a
<1>3. /\ s \in State /\ s.lifecycle = "disposing" /\ s.phase = pool.phase
      /\ s.creating = pool.creating /\ s.createFailures = pool.createFailures
      /\ s.creationExhausted = pool.creationExhausted /\ s.retryTimer = FALSE
      /\ s.acquisitions = <<>> /\ s.heatWaiters = {}
  BY <1>2, RejectWaitersFields
<1> HIDE DEF s
<1>4. /\ t \in State /\ t.lifecycle = "disposing"
      /\ t.creating = pool.creating /\ t.createFailures = pool.createFailures
      /\ t.creationExhausted = pool.creationExhausted /\ t.retryTimer = FALSE
      /\ t.acquisitions = <<>> /\ t.heatWaiters = {} /\ t.idle = <<>>
      /\ t.phase = [r \in Sandboxes |-> IF pool.phase[r] \in {"idle", "leased"}
                                      THEN "disposing" ELSE pool.phase[r]]
  <2>1. <<>> \in Seq(Sandboxes)
    OBVIOUS
  <2> DEFINE phase == [r \in Sandboxes |-> IF s.phase[r] \in {"idle", "leased"}
                                          THEN "disposing" ELSE s.phase[r]]
  <2>2. phase \in [Sandboxes -> Phases]
    BY <1>3 DEF State, Phases
  <2>3. t = [s EXCEPT !.phase = phase, !.idle = <<>>]
    BY DEF StartAllDisposals
  <2>4. phase = [r \in Sandboxes |-> IF pool.phase[r] \in {"idle", "leased"}
                                    THEN "disposing" ELSE pool.phase[r]]
    BY <1>3
  <2> HIDE DEF phase, t
  <2>5. QED
    BY <1>3, <2>1, <2>2, <2>3, <2>4 DEF State
<1> HIDE DEF t
<1>5. \A r \in Sandboxes : pool.phase[r] = "absent" <=> t.phase[r] = "absent"
  BY <1>4
<1>6. Records(pool) = Records(t) /\ Size(pool) = Size(t)
  BY <1>5, RecordsSame
<1>7. Sound(t)
  BY <1>1, <1>4, <1>6 DEF Sound, IdleQueueSound, Bounded, BatchSound, Drained
<1>8. QED
  BY <1>1, <1>4, <1>7, FinishDisposeSound DEF PoolInv

-----------------------------------------------------------------------------
LEMMA CreateSucceedsSound ==
    ASSUME PoolInv, NEW r \in Sandboxes, CreateSucceeds(r)
    PROVE  PoolInv'
<1> DEFINE s == [pool EXCEPT !.creating = pool.creating - 1,
                             !.createFailures = 0,
                             !.creationExhausted = FALSE]
<1>1. /\ Sound(pool) /\ Settled(pool) /\ pool \in State
      /\ pool.creating > 0 /\ pool.phase[r] = "absent" /\ pool.creating \in Nat
  BY DEF PoolInv, Sound, State, CreateSucceeds
<1>2. /\ s \in State /\ s.lifecycle = pool.lifecycle /\ s.idle = pool.idle
      /\ s.phase = pool.phase /\ s.acquisitions = pool.acquisitions
      /\ s.heatWaiters = pool.heatWaiters
      /\ s.creating = pool.creating - 1 /\ s.createFailures = 0
      /\ s.creationExhausted = FALSE /\ s.retryTimer = pool.retryTimer
  <2>1. pool.creating - 1 \in Nat
    BY <1>1
  <2>2. QED
    BY <1>1, <2>1 DEF State
<1>3. \A t : t.phase = [pool.phase EXCEPT ![r] = "idle"] \/
             t.phase = [pool.phase EXCEPT ![r] = "disposing"] =>
        /\ IsFiniteSet(Records(t))
        /\ Size(t) = Size(pool) + 1
  <2> SUFFICES ASSUME NEW t,
                      t.phase = [pool.phase EXCEPT ![r] = "idle"] \/
                      t.phase = [pool.phase EXCEPT ![r] = "disposing"]
               PROVE  IsFiniteSet(Records(t)) /\ Size(t) = Size(pool) + 1
    OBVIOUS
  <2>1. Records(t) = Records(pool) \cup {r} /\ r \notin Records(pool)
    BY <1>1 DEF Records, State
  <2>2. QED
    BY <1>1, <2>1, FS_AddElement DEF Sound, Bounded, Size
<1>4. pool.lifecycle # "disposed"
  BY <1>1 DEF Settled
<1>5. /\ Size(pool) \in Nat /\ Size(pool) + pool.creating <= MaxSandboxes
      /\ pool.createFailures \in Nat
      /\ pool.createFailures + pool.creating <= MaxCreateAttempts
  BY <1>1, FS_CardinalityType DEF Sound, Bounded, Size, State
<1>6. CASE pool.lifecycle = "active"
  <2> DEFINE t == [s EXCEPT !.phase[r] = "idle", !.idle = Append(s.idle, r)]
  <2>1. pool' = Pump(t)
    BY <1>6 DEF CreateSucceeds
  <2> HIDE DEF s
  <2>2. pool.idle \in Seq(Sandboxes)
    BY <1>1 DEF State
  <2>3. /\ Append(pool.idle, r) \in Seq(Sandboxes)
        /\ Len(Append(pool.idle, r)) = Len(pool.idle) + 1
        /\ \A i \in 1..Len(pool.idle) : Append(pool.idle, r)[i] = pool.idle[i]
        /\ Append(pool.idle, r)[Len(pool.idle) + 1] = r
    BY <2>2, AppendProperties
  <2>4. /\ t \in State /\ t.lifecycle = "active" /\ t.idle = Append(pool.idle, r)
        /\ t.phase = [pool.phase EXCEPT ![r] = "idle"]
        /\ t.acquisitions = pool.acquisitions /\ t.heatWaiters = pool.heatWaiters
        /\ t.creating = pool.creating - 1 /\ t.createFailures = 0
        /\ t.creationExhausted = FALSE /\ t.retryTimer = pool.retryTimer
    BY <1>2, <1>6, <2>3 DEF State, Phases
  <2> HIDE DEF t
  <2>5. IdleQueueSound(t)
    <3>1. \A i \in 1..Len(pool.idle) :
             /\ pool.idle[i] \in Sandboxes /\ pool.phase[pool.idle[i]] = "idle"
             /\ pool.idle[i] # r
      BY <1>1, <2>2 DEF Sound, IdleQueueSound
    <3>2. \A i \in 1..Len(t.idle) :
             \/ i \in 1..Len(pool.idle) /\ t.idle[i] = pool.idle[i]
             \/ i = Len(pool.idle) + 1 /\ t.idle[i] = r
      BY <2>2, <2>3, <2>4
    <3>3. \A i \in 1..Len(t.idle) : t.phase[t.idle[i]] = "idle"
      BY <1>1, <2>4, <3>1, <3>2 DEF State
    <3>4. \A i, j \in 1..Len(t.idle) : t.idle[i] = t.idle[j] => i = j
      BY <1>1, <3>1, <3>2 DEF Sound, IdleQueueSound
    <3>5. QED
      BY <3>3, <3>4 DEF IdleQueueSound
  <2>6. Bounded(t)
    BY <1>1, <1>3, <1>5, <2>4, PoolOptions DEF Bounded
  <2>7. Sound(t)
    BY <1>1, <2>4, <2>5, <2>6, PoolOptions DEF Sound, BatchSound, Drained
  <2>8. QED
    BY <2>1, <2>4, <2>7, PumpSound DEF PoolInv
<1>7. CASE pool.lifecycle # "active"
  <2> DEFINE t == [s EXCEPT !.phase[r] = "disposing"]
  <2>1. pool' = Pump(t)
    BY <1>7 DEF CreateSucceeds
  <2> HIDE DEF s
  <2>2. /\ t \in State /\ t.lifecycle = pool.lifecycle /\ t.idle = pool.idle
        /\ t.phase = [pool.phase EXCEPT ![r] = "disposing"]
        /\ t.acquisitions = pool.acquisitions /\ t.heatWaiters = pool.heatWaiters
        /\ t.creating = pool.creating - 1 /\ t.createFailures = 0
        /\ t.creationExhausted = FALSE /\ t.retryTimer = pool.retryTimer
    BY <1>2 DEF State, Phases
  <2> HIDE DEF t
  <2>3. Bounded(t)
    BY <1>1, <1>3, <1>5, <2>2, PoolOptions DEF Bounded
  <2>4. pool.idle = <<>> /\ t.idle = <<>>
    BY <1>1, <1>7, <2>2 DEF Sound, Drained
  <2>5. IdleQueueSound(t)
    BY <2>4 DEF IdleQueueSound
  <2>6. Drained(t)
    BY <1>1, <1>7, <2>2 DEF Sound, Drained, State
  <2>7. Sound(t)
    BY <1>7, <2>2, <2>3, <2>5, <2>6, PoolOptions DEF Sound, BatchSound
  <2>8. QED
    BY <1>4, <2>1, <2>2, <2>7, PumpSound DEF PoolInv
<1>8. QED
  BY <1>6, <1>7

LEMMA CreateFailsSound ==
    ASSUME PoolInv, CreateFails
    PROVE  PoolInv'
<1> DEFINE s == [pool EXCEPT !.creating = pool.creating - 1,
                             !.createFailures = pool.createFailures + 1]
<1>1. /\ Sound(pool) /\ Settled(pool) /\ pool \in State
      /\ pool.creating > 0 /\ pool.creating \in Nat /\ pool.createFailures \in Nat
      /\ Size(pool) \in Nat /\ Size(pool) + pool.creating <= MaxSandboxes
      /\ pool.createFailures + pool.creating <= MaxCreateAttempts
      /\ MaxCreateAttempts \in Nat /\ MaxSandboxes \in Nat
  BY PoolOptions, FS_CardinalityType DEF PoolInv, Sound, Bounded, Size, State, CreateFails
<1>2. ~pool.creationExhausted
  BY <1>1 DEF Sound, BatchSound
<1>3. /\ s \in State /\ s.lifecycle = pool.lifecycle /\ s.idle = pool.idle
      /\ s.phase = pool.phase /\ s.acquisitions = pool.acquisitions
      /\ s.heatWaiters = pool.heatWaiters
      /\ s.creating = pool.creating - 1 /\ s.createFailures = pool.createFailures + 1
      /\ s.creationExhausted = pool.creationExhausted /\ s.retryTimer = pool.retryTimer
  <2>1. pool.creating - 1 \in Nat /\ pool.createFailures + 1 \in Nat
    BY <1>1
  <2>2. QED
    BY <1>1, <2>1 DEF State
<1>4. pool' = IF s.lifecycle = "active" /\ s.createFailures >= MaxCreateAttempts
              THEN Pump(ExhaustCreationAttempts(s)) ELSE Pump(ScheduleCreationRetry(s))
  BY DEF CreateFails
<1> HIDE DEF s
<1>5. pool.lifecycle # "disposed"
  BY <1>1 DEF Settled
<1>6. CASE s.lifecycle = "active" /\ s.createFailures >= MaxCreateAttempts
  <2> DEFINE a == [s EXCEPT !.creationExhausted = TRUE, !.retryTimer = FALSE]
             t == RejectWaiters(a)
  <2>1. pool' = Pump(t)
    BY <1>4, <1>6 DEF ExhaustCreationAttempts
  <2>2. /\ a \in State /\ a.lifecycle = s.lifecycle /\ a.idle = s.idle
        /\ a.phase = s.phase /\ a.creating = s.creating
        /\ a.createFailures = s.createFailures
        /\ a.creationExhausted = TRUE /\ a.retryTimer = FALSE
    BY <1>3 DEF State
  <2> HIDE DEF a
  <2>3. /\ t \in State /\ t.lifecycle = "active" /\ t.idle = pool.idle
        /\ t.phase = pool.phase /\ t.creating = pool.creating - 1
        /\ t.createFailures = pool.createFailures + 1
        /\ t.creationExhausted = TRUE /\ t.retryTimer = FALSE
        /\ t.acquisitions = <<>> /\ t.heatWaiters = {}
    BY <1>3, <1>6, <2>2, RejectWaitersFields
  <2> HIDE DEF t
  <2>4. Records(pool) = Records(t) /\ Size(pool) = Size(t)
    BY <2>3, RecordsSame
  <2>5. Bounded(t)
    BY <1>1, <2>3, <2>4 DEF Sound, Bounded
  <2>6. BatchSound(t)
    BY <1>1, <1>3, <1>6, <2>3 DEF BatchSound
  <2>7. Sound(t)
    BY <1>1, <2>3, <2>5, <2>6 DEF Sound, IdleQueueSound, Drained
  <2>8. QED
    BY <2>1, <2>3, <2>7, PumpSound DEF PoolInv
<1>7. CASE ~(s.lifecycle = "active" /\ s.createFailures >= MaxCreateAttempts)
  <2> DEFINE t == ScheduleCreationRetry(s)
  <2>1. pool' = Pump(t)
    BY <1>4, <1>7
  <2>2. /\ t \in State /\ t.lifecycle = pool.lifecycle /\ t.idle = pool.idle
        /\ t.phase = pool.phase /\ t.creating = pool.creating - 1
        /\ t.createFailures = pool.createFailures + 1
        /\ t.creationExhausted = pool.creationExhausted
        /\ t.retryTimer = IF pool.lifecycle = "active" THEN TRUE ELSE pool.retryTimer
        /\ t.acquisitions = pool.acquisitions /\ t.heatWaiters = pool.heatWaiters
    BY <1>3 DEF ScheduleCreationRetry, State
  <2> HIDE DEF t
  <2>3. Records(pool) = Records(t) /\ Size(pool) = Size(t)
    BY <2>2, RecordsSame
  <2>4. Bounded(t)
    BY <1>1, <2>2, <2>3 DEF Sound, Bounded
  <2>5. BatchSound(t)
    <3>1. t.lifecycle = "active" => t.createFailures # MaxCreateAttempts
      BY <1>1, <1>3, <1>7, <2>2
    <3>2. QED
      BY <1>2, <2>2, <3>1 DEF BatchSound
  <2>6. Sound(t)
    BY <1>1, <2>2, <2>4, <2>5 DEF Sound, IdleQueueSound, Drained
  <2>7. QED
    BY <1>5, <2>1, <2>2, <2>6, PumpSound DEF PoolInv
<1>8. QED
  BY <1>6, <1>7

LEMMA RetryTimerFiresSound ==
    ASSUME PoolInv, RetryTimerFires
    PROVE  PoolInv'
<1> DEFINE t == [pool EXCEPT !.retryTimer = FALSE]
<1>1. /\ Sound(pool) /\ Settled(pool) /\ pool \in State /\ pool' = Pump(t)
  BY DEF PoolInv, Sound, RetryTimerFires
<1>2. /\ t \in State /\ t.lifecycle = pool.lifecycle /\ t.idle = pool.idle
      /\ t.phase = pool.phase /\ t.creating = pool.creating
      /\ t.createFailures = pool.createFailures
      /\ t.creationExhausted = pool.creationExhausted /\ t.retryTimer = FALSE
      /\ t.acquisitions = pool.acquisitions /\ t.heatWaiters = pool.heatWaiters
  BY <1>1 DEF State
<1> HIDE DEF t
<1>3. Records(pool) = Records(t) /\ Size(pool) = Size(t)
  BY <1>2, RecordsSame
<1>4. Sound(t)
  BY <1>1, <1>2, <1>3 DEF Sound, IdleQueueSound, Bounded, BatchSound, Drained
<1>5. QED
  BY <1>1, <1>2, <1>3, <1>4, PumpSound DEF PoolInv, Settled

LEMMA DisposeSucceedsSound ==
    ASSUME PoolInv, NEW r \in Sandboxes, DisposeSucceeds(r)
    PROVE  PoolInv'
<1> DEFINE call == [c \in Callers |->
                      IF pool.lease[c] = r /\ pool.call[c] = "releasing"
                      THEN "out" ELSE pool.call[c]]
           lease == [c \in Callers |->
                       IF pool.lease[c] = r THEN None ELSE pool.lease[c]]
           t == [pool EXCEPT !.phase[r] = "absent", !.call = call, !.lease = lease]
<1>1. /\ Sound(pool) /\ Settled(pool) /\ pool \in State /\ pool' = Pump(t)
      /\ pool.phase[r] = "disposing"
  BY DEF PoolInv, Sound, DisposeSucceeds
<1>2. call \in [Callers -> CallStates] /\ lease \in [Callers -> Sandboxes \cup {None}]
  BY <1>1 DEF State, CallStates
<1> HIDE DEF call, lease
<1>3. /\ t \in State /\ t.lifecycle = pool.lifecycle /\ t.idle = pool.idle
      /\ t.phase = [pool.phase EXCEPT ![r] = "absent"] /\ t.creating = pool.creating
      /\ t.createFailures = pool.createFailures
      /\ t.creationExhausted = pool.creationExhausted
      /\ t.retryTimer = pool.retryTimer
      /\ t.acquisitions = pool.acquisitions /\ t.heatWaiters = pool.heatWaiters
  BY <1>1, <1>2 DEF State, Phases
<1> HIDE DEF t
<1>4. Records(t) = Records(pool) \ {r} /\ r \in Records(pool)
  BY <1>1, <1>3 DEF Records, State
<1>5. /\ IsFiniteSet(Records(t)) /\ Size(t) = Size(pool) - 1
      /\ Size(pool) \in Nat /\ pool.creating \in Nat
  BY <1>1, <1>4, FS_RemoveElement, FS_CardinalityType DEF Sound, Bounded, Size, State
<1>6. Bounded(t)
  BY <1>1, <1>3, <1>5, PoolOptions DEF Sound, Bounded
<1>7. IdleQueueSound(t)
  <2>1. \A i \in 1..Len(pool.idle) : pool.idle[i] \in Sandboxes /\ pool.idle[i] # r
    BY <1>1 DEF Sound, IdleQueueSound, State
  <2>2. QED
    BY <1>1, <1>3, <2>1 DEF Sound, IdleQueueSound, State
<1>8. Drained(t)
  BY <1>1, <1>3 DEF Sound, Drained, State
<1>9. Sound(t)
  BY <1>1, <1>3, <1>6, <1>7, <1>8 DEF Sound, BatchSound
<1>10. pool.lifecycle # "disposed"
  BY <1>1, <1>4 DEF Settled
<1>11. QED
  BY <1>1, <1>3, <1>9, <1>10, PumpSound DEF PoolInv

\* A failed disposal and its retry only alternate between two phases of a
\* record that keeps its place.
LEMMA DisposalRetrySound ==
    ASSUME PoolInv, NEW r \in Sandboxes, DisposeFails(r) \/ DisposeRetries(r)
    PROVE  PoolInv'
<1>1. /\ Sound(pool) /\ Settled(pool) /\ pool \in State
      /\ pool.phase[r] \in {"disposing", "retrying"}
  BY DEF PoolInv, Sound, DisposeFails, DisposeRetries
<1>2. PICK p \in {"disposing", "retrying"} : pool' = [pool EXCEPT !.phase[r] = p]
  BY DEF DisposeFails, DisposeRetries
<1>3. /\ pool' \in State /\ pool'.lifecycle = pool.lifecycle /\ pool'.idle = pool.idle
      /\ pool'.phase = [pool.phase EXCEPT ![r] = p] /\ pool'.creating = pool.creating
      /\ pool'.createFailures = pool.createFailures
      /\ pool'.creationExhausted = pool.creationExhausted
      /\ pool'.retryTimer = pool.retryTimer
      /\ pool'.acquisitions = pool.acquisitions /\ pool'.heatWaiters = pool.heatWaiters
  BY <1>1, <1>2 DEF State, Phases
<1>4. Records(pool) = Records(pool') /\ Size(pool) = Size(pool')
  <2>1. \A q \in Sandboxes : pool.phase[q] = "absent" <=> pool'.phase[q] = "absent"
    BY <1>1, <1>3 DEF State
  <2>2. QED
    BY <2>1, RecordsSame
<1>5. IdleQueueSound(pool')
  <2>1. \A i \in 1..Len(pool.idle) : pool.idle[i] \in Sandboxes /\ pool.idle[i] # r
    BY <1>1 DEF Sound, IdleQueueSound, State
  <2>2. QED
    BY <1>1, <1>3, <2>1 DEF Sound, IdleQueueSound, State
<1>6. Drained(pool')
  BY <1>1, <1>3 DEF Sound, Drained, State
<1>7. Sound(pool')
  BY <1>1, <1>3, <1>4, <1>5, <1>6 DEF Sound, Bounded, BatchSound
<1>8. Settled(pool')
  BY <1>1, <1>3, <1>4 DEF Settled, Progress
<1>9. QED
  BY <1>7, <1>8 DEF PoolInv

-----------------------------------------------------------------------------
(* the theorems *)

\* PoolInv holds initially and is preserved by every step of the pool.
THEOREM PoolInvariant == Spec => []PoolInv
<1>1. Init => PoolInv
  BY InitSound
<1>2. PoolInv /\ [Next]_vars => PoolInv'
  <2> SUFFICES ASSUME PoolInv, [Next]_vars PROVE PoolInv'
    OBVIOUS
  <2>1. ASSUME NEW c \in Callers, Acquire(c) PROVE PoolInv'
    BY <2>1, AcquireSound
  <2>2. ASSUME NEW c \in Callers, AbortAcquire(c) PROVE PoolInv'
    BY <2>2, AbortAcquireSound
  <2>3. ASSUME NEW c \in Callers, WaitUntilHeated(c) PROVE PoolInv'
    BY <2>3, WaitUntilHeatedSound
  <2>4. ASSUME NEW c \in Callers, AbortHeat(c) PROVE PoolInv'
    BY <2>4, AbortHeatSound
  <2>5. ASSUME NEW c \in Callers, Release(c) PROVE PoolInv'
    BY <2>5, ReleaseSound
  <2>6. CASE Dispose
    BY <2>6, DisposeSound
  <2>7. ASSUME NEW r \in Sandboxes, CreateSucceeds(r) PROVE PoolInv'
    BY <2>7, CreateSucceedsSound
  <2>8. CASE CreateFails
    BY <2>8, CreateFailsSound
  <2>9. CASE RetryTimerFires
    BY <2>9, RetryTimerFiresSound
  <2>10. ASSUME NEW r \in Sandboxes, DisposeSucceeds(r) PROVE PoolInv'
    BY <2>10, DisposeSucceedsSound
  <2>11. ASSUME NEW r \in Sandboxes, DisposeFails(r) \/ DisposeRetries(r) PROVE PoolInv'
    BY <2>11, DisposalRetrySound
  <2>12. CASE UNCHANGED vars
    BY <2>12 DEF vars, PoolInv
  <2>13. QED
    BY <2>1, <2>2, <2>3, <2>4, <2>5, <2>6, <2>7, <2>8, <2>9, <2>10, <2>11, <2>12 DEF Next
<1>3. QED
  BY <1>1, <1>2, PTL DEF Spec

\* The state always has the shape that the type State declares.
THEOREM TypeCorrect == Spec => []TypeOK
<1>1. PoolInv => TypeOK
  BY DEF PoolInv, Sound, TypeOK
<1>2. QED
  BY <1>1, PoolInvariant, PTL

\* For every option the pool stays within maxSandboxes, although a pump
\* leaves the creations under way out of its deficit.
THEOREM CapacityIsRespected == Spec => []CapacityRespected
<1>1. PoolInv => CapacityRespected
  BY DEF PoolInv, Sound, Bounded, CapacityRespected
<1>2. QED
  BY <1>1, PoolInvariant, PTL

\* A batch makes at most maxCreateAttempts factory calls, and once it has
\* failed nobody is left waiting on it.
THEOREM AttemptsAreBounded == Spec => []AttemptsBounded
<1>1. PoolInv => AttemptsBounded
  BY DEF PoolInv, Sound, Bounded, BatchSound, AttemptsBounded
<1>2. QED
  BY <1>1, PoolInvariant, PTL

\* No acquisition and no heat waiter is ever left without a factory call, a
\* timer or an occupied place that will serve it.
THEOREM NoWaiterIsStranded == Spec => []NoWaiterStranded
<1>1. PoolInv => NoWaiterStranded
  BY DEF PoolInv, Settled, Progress, NoWaiterStranded
<1>2. QED
  BY <1>1, PoolInvariant, PTL

\* A pool that is being disposed of holds nothing usable, and is disposed of
\* exactly when nothing is left.
THEOREM DisposalIsClean == Spec => []DisposalDrains
<1>1. PoolInv => DisposalDrains
  BY DEF PoolInv, Sound, Settled, Drained, DisposalDrains
<1>2. QED
  BY <1>1, PoolInvariant, PTL

-----------------------------------------------------------------------------
(***************************************************************************)
(* Sandboxes and callers of the pool are tied to each other one to one,    *)
(* and acquisitions are served in order, for every number of callers and   *)
(* every option.                                                           *)
(*                                                                         *)
(* LeasesExclusive is not inductive: that a grant gives a sandbox to a     *)
(* caller that has none follows from the queue of acquisitions, which      *)
(* lists exactly the callers that are acquiring, each of them once.  The   *)
(* same invariant orders any two of them, which ServedInOrder needs.       *)
(***************************************************************************)

\* The idle queue lists exactly the warm sandboxes, each of them once.
IdleOnce(s) ==
    /\ \A i \in 1..Len(s.idle) : s.phase[s.idle[i]] = "idle"
    /\ \A i, j \in 1..Len(s.idle) : s.idle[i] = s.idle[j] => i = j
    /\ \A r \in Sandboxes : s.phase[r] = "idle" => \E i \in 1..Len(s.idle) : s.idle[i] = r

\* The waiters are exactly the callers whose promises are pending.
QueuedOnce(s) ==
    /\ \A i \in 1..Len(s.acquisitions) : s.call[s.acquisitions[i]] = "acquiring"
    /\ \A i, j \in 1..Len(s.acquisitions) : s.acquisitions[i] = s.acquisitions[j] => i = j
    /\ \A c \in Callers : s.call[c] = "acquiring" =>
         \E i \in 1..Len(s.acquisitions) : s.acquisitions[i] = c
    /\ \A c \in Callers : c \in s.heatWaiters <=> s.call[c] = "heating"

\* A leased sandbox has a holder, and a caller has what nobody else has.
HeldOnce(s) ==
    /\ \A r \in Sandboxes : s.phase[r] = "leased" =>
         \E c \in Callers : s.lease[c] = r /\ s.call[c] = "holding"
    /\ \A c, d \in Callers : s.lease[c] # None /\ s.lease[c] = s.lease[d] => c = d
    /\ \A c \in Callers : s.lease[c] # None =>
         /\ s.phase[s.lease[c]] \in {"leased", "disposing", "retrying"}
         /\ s.call[c] \in {"holding", "releasing"}
    /\ \A c \in Callers : s.call[c] = "releasing" =>
         /\ s.lease[c] # None
         /\ s.phase[s.lease[c]] \in {"disposing", "retrying"}

\* The fields that tie sandboxes to callers; the others play no part.
Fields == {"lifecycle", "idle", "phase", "acquisitions", "heatWaiters", "call", "lease"}

Typed(s) ==
    /\ Fields \subseteq DOMAIN s
    /\ s.idle \in Seq(Sandboxes)
    /\ s.phase \in [Sandboxes -> Phases]
    /\ s.acquisitions \in Seq(Callers)
    /\ s.call \in [Callers -> CallStates]
    /\ s.lease \in [Callers -> Sandboxes \cup {None}]

Tied(s) == Typed(s) /\ IdleOnce(s) /\ QueuedOnce(s) /\ HeldOnce(s)

LeaseInv == Tied(pool)

\* From p to s nobody is granted a sandbox, and nobody gets before a waiter.
Follows(p, s) ==
    \A c \in Callers : p.call[c] = "acquiring" /\ s.call[c] = "acquiring" =>
        \A d \in Callers :
            /\ s.call[d] = "holding" => p.call[d] = "holding"
            /\ Before(s, d, c) => Before(p, d, c)

\* Whoever is granted a sandbox from s to t was before those who still wait,
\* and these wait in the order of s.
Serves(s, t) ==
    \A c, d \in Callers : c # d /\ t.call[c] = "acquiring" =>
        /\ s.call[c] = "acquiring"
        /\ s.call[d] # "holding" /\ t.call[d] = "holding" => Before(s, d, c)
        /\ t.call[d] = "acquiring" => Before(s, d, c) \/ Before(t, c, d)

\* Every step first brings the pool to a state t without granting anything, and then pumps.
Prepares(t) ==
    /\ Tied(t)
    /\ Follows(pool, t)
    /\ pool' \in {t, Pump(t), FinishDisposeIfPossible(t)}

-----------------------------------------------------------------------------
(* the parts of pump *)

\* What the state of the batch and of the pool is does not matter.
LEMMA TiedSame ==
    ASSUME NEW s, NEW t, Tied(s), Fields \subseteq DOMAIN t,
           t.idle = s.idle, t.phase = s.phase, t.acquisitions = s.acquisitions,
           t.heatWaiters = s.heatWaiters, t.call = s.call, t.lease = s.lease
    PROVE  Tied(t)
  BY DEF Tied, Typed, IdleOnce, QueuedOnce, HeldOnce

\* From s to t the first k idle sandboxes went to the first k acquisitions.
Grants(s, t, k) ==
    /\ k <= Len(s.idle) /\ k <= Len(s.acquisitions)
    /\ Typed(t) /\ t.heatWaiters = s.heatWaiters
    /\ Len(t.idle) = Len(s.idle) - k
    /\ \A i \in 1..(Len(s.idle) - k) : t.idle[i] = s.idle[k + i]
    /\ Len(t.acquisitions) = Len(s.acquisitions) - k
    /\ \A i \in 1..(Len(s.acquisitions) - k) : t.acquisitions[i] = s.acquisitions[k + i]
    /\ \A i \in 1..k :
         /\ i \in 1..Len(s.idle) /\ i \in 1..Len(s.acquisitions)
         /\ s.idle[i] \in Sandboxes /\ s.phase[s.idle[i]] = "idle"
         /\ s.acquisitions[i] \in Callers /\ s.call[s.acquisitions[i]] = "acquiring"
         /\ t.phase[s.idle[i]] = "leased"
         /\ t.call[s.acquisitions[i]] = "holding"
         /\ t.lease[s.acquisitions[i]] = s.idle[i]
    /\ \A r \in Sandboxes : (\A i \in 1..k : r # s.idle[i]) => t.phase[r] = s.phase[r]
    /\ \A c \in Callers : (\A i \in 1..k : c # s.acquisitions[i]) =>
         t.call[c] = s.call[c] /\ t.lease[c] = s.lease[c]

\* The loop of pump grants as many sandboxes as it can.
LEMMA GrantIdleFields ==
    ASSUME NEW s, Tied(s), NEW t, t = GrantIdle(s)
    PROVE  \E k \in Nat : Grants(s, t, k)
<1> DEFINE k == Min({Len(s.idle), Len(s.acquisitions)})
           Rank(c) == CHOOSE i \in 1..k : s.acquisitions[i] = c
           Served == {s.acquisitions[i] : i \in 1..k}
           Granted == {s.idle[i] : i \in 1..k}
           phase == [r \in Sandboxes |-> IF r \in Granted THEN "leased" ELSE s.phase[r]]
           call == [c \in Callers |-> IF c \in Served THEN "holding" ELSE s.call[c]]
           lease == [c \in Callers |-> IF c \in Served THEN s.idle[Rank(c)] ELSE s.lease[c]]
<1>1. Typed(s)
  BY DEF Tied
<1>2. /\ s.idle \in Seq(Sandboxes) /\ Len(s.idle) \in Nat
      /\ s.acquisitions \in Seq(Callers) /\ Len(s.acquisitions) \in Nat
      /\ \A i \in 1..Len(s.idle) : s.idle[i] \in Sandboxes
      /\ \A i \in 1..Len(s.acquisitions) : s.acquisitions[i] \in Callers
      /\ s.call \in [Callers -> CallStates] /\ s.phase \in [Sandboxes -> Phases]
      /\ s.lease \in [Callers -> Sandboxes \cup {None}]
  BY <1>1 DEF Typed
<1>3. k \in Nat /\ k <= Len(s.idle) /\ k <= Len(s.acquisitions)
  <2>1. Len(s.idle) \in Int /\ Len(s.acquisitions) \in Int
    BY <1>2
  <2>2. /\ k \in {Len(s.idle), Len(s.acquisitions)}
        /\ k <= Len(s.idle) /\ k <= Len(s.acquisitions)
    BY <2>1, MinOfTwo
  <2> HIDE DEF k
  <2>3. QED
    BY <2>2, <1>2
<1>4. t = [s EXCEPT !.idle = SubSeq(s.idle, k + 1, Len(s.idle)),
                    !.acquisitions = SubSeq(s.acquisitions, k + 1, Len(s.acquisitions)),
                    !.phase = phase, !.call = call, !.lease = lease]
  BY DEF GrantIdle
<1> HIDE DEF k
<1>5. \A i \in 1..k :
         /\ i \in 1..Len(s.idle) /\ i \in 1..Len(s.acquisitions)
         /\ s.idle[i] \in Sandboxes /\ s.phase[s.idle[i]] = "idle"
         /\ s.acquisitions[i] \in Callers /\ s.call[s.acquisitions[i]] = "acquiring"
         /\ Rank(s.acquisitions[i]) = i
  <2> SUFFICES ASSUME NEW i \in 1..k
               PROVE  /\ i \in 1..Len(s.idle) /\ i \in 1..Len(s.acquisitions)
                      /\ s.idle[i] \in Sandboxes /\ s.phase[s.idle[i]] = "idle"
                      /\ s.acquisitions[i] \in Callers
                      /\ s.call[s.acquisitions[i]] = "acquiring"
                      /\ Rank(s.acquisitions[i]) = i
    OBVIOUS
  <2>1. i \in 1..Len(s.idle) /\ i \in 1..Len(s.acquisitions)
    BY <1>2, <1>3
  <2>2. /\ s.idle[i] \in Sandboxes /\ s.phase[s.idle[i]] = "idle"
        /\ s.acquisitions[i] \in Callers /\ s.call[s.acquisitions[i]] = "acquiring"
    BY <1>2, <2>1 DEF Tied, IdleOnce, QueuedOnce
  <2>3. \A j \in 1..k : j \in 1..Len(s.acquisitions)
    BY <1>2, <1>3
  <2>4. \A j \in 1..k : s.acquisitions[j] = s.acquisitions[i] => j = i
    BY <2>1, <2>3 DEF Tied, QueuedOnce
  <2>5. Rank(s.acquisitions[i]) = i
    BY <2>4
  <2>6. QED
    BY <2>1, <2>2, <2>5
<1>6. /\ \A r : r \in Granted <=> \E i \in 1..k : r = s.idle[i]
      /\ \A c : c \in Served <=> \E i \in 1..k : c = s.acquisitions[i]
  OBVIOUS
<1>7. /\ phase \in [Sandboxes -> Phases]
      /\ call \in [Callers -> CallStates]
      /\ lease \in [Callers -> Sandboxes \cup {None}]
  <2>1. \A c \in Served : s.idle[Rank(c)] \in Sandboxes
    BY <1>5, <1>6
  <2> HIDE DEF Rank, Served, Granted
  <2>2. QED
    BY <2>1, <1>2 DEF Phases, CallStates
<1>8. /\ \A i \in 1..k : /\ phase[s.idle[i]] = "leased"
                         /\ call[s.acquisitions[i]] = "holding"
                         /\ lease[s.acquisitions[i]] = s.idle[i]
      /\ \A r \in Sandboxes : (\A i \in 1..k : r # s.idle[i]) => phase[r] = s.phase[r]
      /\ \A c \in Callers : (\A i \in 1..k : c # s.acquisitions[i]) =>
            call[c] = s.call[c] /\ lease[c] = s.lease[c]
  <2>1. ASSUME NEW i \in 1..k
        PROVE  /\ phase[s.idle[i]] = "leased"
               /\ call[s.acquisitions[i]] = "holding"
               /\ lease[s.acquisitions[i]] = s.idle[i]
    <3>1. /\ s.idle[i] \in Sandboxes /\ s.idle[i] \in Granted
          /\ s.acquisitions[i] \in Callers /\ s.acquisitions[i] \in Served
          /\ Rank(s.acquisitions[i]) = i
      BY <1>5, <1>6
    <3> HIDE DEF Rank, Served, Granted
    <3>2. QED
      BY <3>1
  <2>2. ASSUME NEW r \in Sandboxes, \A i \in 1..k : r # s.idle[i]
        PROVE  phase[r] = s.phase[r]
    BY <2>2, <1>6
  <2>3. ASSUME NEW c \in Callers, \A i \in 1..k : c # s.acquisitions[i]
        PROVE  call[c] = s.call[c] /\ lease[c] = s.lease[c]
    <3>1. c \notin Served
      BY <2>3, <1>6
    <3> HIDE DEF Served, Rank
    <3>2. QED
      BY <3>1
  <2>4. QED
    BY <2>1, <2>2, <2>3
<1>9. /\ SubSeq(s.idle, k + 1, Len(s.idle)) \in Seq(Sandboxes)
      /\ Len(SubSeq(s.idle, k + 1, Len(s.idle))) = Len(s.idle) - k
      /\ \A i \in 1..(Len(s.idle) - k) :
            SubSeq(s.idle, k + 1, Len(s.idle))[i] = s.idle[k + i]
  <2>1. \A i \in (k + 1)..Len(s.idle) : s.idle[i] \in Sandboxes
    BY <1>2, <1>3
  <2> DEFINE u == SubSeq(s.idle, k + 1, Len(s.idle))
  <2>2. /\ u \in Seq(Sandboxes)
        /\ Len(u) = IF k + 1 <= Len(s.idle) THEN Len(s.idle) - (k + 1) + 1 ELSE 0
        /\ \A i \in 1..(Len(s.idle) - (k + 1) + 1) : u[i] = s.idle[(k + 1) + i - 1]
    BY <2>1, <1>2, <1>3, SubSeqProperties
  <2> HIDE DEF u
  <2>3. /\ u \in Seq(Sandboxes) /\ Len(u) = Len(s.idle) - k
        /\ \A i \in 1..(Len(s.idle) - k) : u[i] = s.idle[k + i]
    BY <2>2, <1>2, <1>3
  <2>4. QED
    BY <2>3 DEF u
<1>10. /\ SubSeq(s.acquisitions, k + 1, Len(s.acquisitions)) \in Seq(Callers)
       /\ Len(SubSeq(s.acquisitions, k + 1, Len(s.acquisitions))) = Len(s.acquisitions) - k
       /\ \A i \in 1..(Len(s.acquisitions) - k) :
            SubSeq(s.acquisitions, k + 1, Len(s.acquisitions))[i] = s.acquisitions[k + i]
  <2>1. \A i \in (k + 1)..Len(s.acquisitions) : s.acquisitions[i] \in Callers
    BY <1>2, <1>3
  <2> DEFINE u == SubSeq(s.acquisitions, k + 1, Len(s.acquisitions))
  <2>2. /\ u \in Seq(Callers)
        /\ Len(u) = IF k + 1 <= Len(s.acquisitions)
                    THEN Len(s.acquisitions) - (k + 1) + 1 ELSE 0
        /\ \A i \in 1..(Len(s.acquisitions) - (k + 1) + 1) :
              u[i] = s.acquisitions[(k + 1) + i - 1]
    BY <2>1, <1>2, <1>3, SubSeqProperties
  <2> HIDE DEF u
  <2>3. /\ u \in Seq(Callers) /\ Len(u) = Len(s.acquisitions) - k
        /\ \A i \in 1..(Len(s.acquisitions) - k) : u[i] = s.acquisitions[k + i]
    BY <2>2, <1>2, <1>3
  <2>4. QED
    BY <2>3 DEF u
<1> HIDE DEF Rank, Served, Granted, phase, call, lease
<1>11. /\ Typed(t) /\ t.heatWaiters = s.heatWaiters
       /\ t.idle = SubSeq(s.idle, k + 1, Len(s.idle))
       /\ t.acquisitions = SubSeq(s.acquisitions, k + 1, Len(s.acquisitions))
       /\ t.phase = phase /\ t.call = call /\ t.lease = lease
  BY <1>1, <1>4, <1>7, <1>9, <1>10 DEF Typed, Fields
<1>12. /\ Len(t.idle) = Len(s.idle) - k
       /\ \A i \in 1..(Len(s.idle) - k) : t.idle[i] = s.idle[k + i]
       /\ Len(t.acquisitions) = Len(s.acquisitions) - k
       /\ \A i \in 1..(Len(s.acquisitions) - k) : t.acquisitions[i] = s.acquisitions[k + i]
  BY <1>9, <1>10, <1>11
<1>13. Grants(s, t, k)
  BY <1>3, <1>5, <1>8, <1>11, <1>12 DEF Grants
<1>14. QED
  BY <1>3, <1>13

\* What is granted was free, and whoever gets it had nothing.
LEMMA GrantIdleTies ==
    ASSUME NEW s, Tied(s), NEW t, t = GrantIdle(s)
    PROVE  Tied(t)
<1>1. PICK k \in Nat : Grants(s, t, k)
  BY GrantIdleFields
<1>2. /\ Len(s.idle) \in Nat /\ Len(s.acquisitions) \in Nat
      /\ \A i \in 1..Len(s.idle) : s.idle[i] \in Sandboxes
      /\ \A i \in 1..Len(s.acquisitions) : s.acquisitions[i] \in Callers
      /\ s.lease \in [Callers -> Sandboxes \cup {None}]
  BY DEF Tied, Typed
<1>3. /\ k <= Len(s.idle) /\ k <= Len(s.acquisitions)
      /\ Len(t.idle) = Len(s.idle) - k
      /\ \A i \in 1..(Len(s.idle) - k) : t.idle[i] = s.idle[k + i]
      /\ Len(t.acquisitions) = Len(s.acquisitions) - k
      /\ \A i \in 1..(Len(s.acquisitions) - k) : t.acquisitions[i] = s.acquisitions[k + i]
  BY <1>1 DEF Grants
<1>4. \A i \in 1..k :
         /\ i \in 1..Len(s.idle) /\ i \in 1..Len(s.acquisitions)
         /\ s.idle[i] \in Sandboxes /\ s.phase[s.idle[i]] = "idle"
         /\ s.acquisitions[i] \in Callers /\ s.call[s.acquisitions[i]] = "acquiring"
         /\ t.phase[s.idle[i]] = "leased"
         /\ t.call[s.acquisitions[i]] = "holding"
         /\ t.lease[s.acquisitions[i]] = s.idle[i]
  BY <1>1 DEF Grants
<1>5. /\ Typed(t) /\ t.heatWaiters = s.heatWaiters
      /\ \A r \in Sandboxes : (\A i \in 1..k : r # s.idle[i]) => t.phase[r] = s.phase[r]
      /\ \A c \in Callers : (\A i \in 1..k : c # s.acquisitions[i]) =>
            t.call[c] = s.call[c] /\ t.lease[c] = s.lease[c]
  BY <1>1 DEF Grants
<1>6. IdleOnce(t)
  <2>1. \A i \in 1..Len(t.idle) : k + i \in 1..Len(s.idle) /\ t.idle[i] = s.idle[k + i]
    BY <1>2, <1>3
  <2>2. ASSUME NEW i \in 1..Len(t.idle) PROVE t.phase[t.idle[i]] = "idle"
    <3>1. \A j \in 1..k : j # k + i
      BY <1>3, <1>2
    <3>2. \A j \in 1..k : s.idle[k + i] # s.idle[j]
      BY <2>1, <3>1, <1>4 DEF Tied, IdleOnce
    <3>3. s.idle[k + i] \in Sandboxes /\ s.phase[s.idle[k + i]] = "idle"
      BY <2>1, <1>2 DEF Tied, IdleOnce
    <3>4. t.phase[s.idle[k + i]] = s.phase[s.idle[k + i]]
      BY <3>2, <3>3, <1>4, <1>5
    <3>5. QED
      BY <2>1, <3>3, <3>4, <1>5
  <2>3. ASSUME NEW i \in 1..Len(t.idle), NEW j \in 1..Len(t.idle), t.idle[i] = t.idle[j]
        PROVE  i = j
    <3>1. /\ k + i \in 1..Len(s.idle) /\ k + j \in 1..Len(s.idle)
          /\ s.idle[k + i] = s.idle[k + j]
      BY <2>1, <2>3
    <3>2. k + i = k + j
      BY <3>1 DEF Tied, IdleOnce
    <3>3. QED
      BY <3>2, <1>2, <1>3
  <2>4. ASSUME NEW r \in Sandboxes, t.phase[r] = "idle"
        PROVE  \E i \in 1..Len(t.idle) : t.idle[i] = r
    <3>1. \A i \in 1..k : r # s.idle[i]
      BY <2>4, <1>4, <1>5
    <3>2. s.phase[r] = "idle"
      BY <2>4, <3>1, <1>4, <1>5
    <3>3. PICK j \in 1..Len(s.idle) : s.idle[j] = r
      BY <3>2 DEF Tied, IdleOnce
    <3>4. j \notin 1..k
      BY <3>1, <3>3
    <3>5. j - k \in 1..(Len(s.idle) - k) /\ k + (j - k) = j
      BY <3>4, <1>2, <1>3
    <3>6. t.idle[j - k] = r
      BY <3>3, <3>5, <1>3
    <3>7. QED
      BY <3>5, <3>6, <1>3
  <2>5. QED
    BY <2>2, <2>3, <2>4 DEF IdleOnce
<1>7. QueuedOnce(t)
  <2>1. \A i \in 1..Len(t.acquisitions) :
           k + i \in 1..Len(s.acquisitions) /\ t.acquisitions[i] = s.acquisitions[k + i]
    BY <1>2, <1>3
  <2>2. ASSUME NEW i \in 1..Len(t.acquisitions)
        PROVE  t.call[t.acquisitions[i]] = "acquiring"
    <3>1. \A j \in 1..k : j # k + i
      BY <1>3, <1>2
    <3>2. \A j \in 1..k : s.acquisitions[k + i] # s.acquisitions[j]
      BY <2>1, <3>1, <1>4 DEF Tied, QueuedOnce
    <3>3. /\ s.acquisitions[k + i] \in Callers
          /\ s.call[s.acquisitions[k + i]] = "acquiring"
      BY <2>1, <1>2 DEF Tied, QueuedOnce
    <3>4. t.call[s.acquisitions[k + i]] = s.call[s.acquisitions[k + i]]
      BY <3>2, <3>3, <1>4, <1>5
    <3>5. QED
      BY <2>1, <3>3, <3>4, <1>5
  <2>3. ASSUME NEW i \in 1..Len(t.acquisitions), NEW j \in 1..Len(t.acquisitions),
               t.acquisitions[i] = t.acquisitions[j]
        PROVE  i = j
    <3>1. /\ k + i \in 1..Len(s.acquisitions) /\ k + j \in 1..Len(s.acquisitions)
          /\ s.acquisitions[k + i] = s.acquisitions[k + j]
      BY <2>1, <2>3
    <3>2. k + i = k + j
      BY <3>1 DEF Tied, QueuedOnce
    <3>3. QED
      BY <3>2, <1>2, <1>3
  <2>4. ASSUME NEW c \in Callers, t.call[c] = "acquiring"
        PROVE  \E i \in 1..Len(t.acquisitions) : t.acquisitions[i] = c
    <3>1. \A i \in 1..k : c # s.acquisitions[i]
      BY <2>4, <1>4, <1>5
    <3>2. s.call[c] = "acquiring"
      BY <2>4, <3>1, <1>4, <1>5
    <3>3. PICK j \in 1..Len(s.acquisitions) : s.acquisitions[j] = c
      BY <3>2 DEF Tied, QueuedOnce
    <3>4. j \notin 1..k
      BY <3>1, <3>3
    <3>5. j - k \in 1..(Len(s.acquisitions) - k) /\ k + (j - k) = j
      BY <3>4, <1>2, <1>3
    <3>6. t.acquisitions[j - k] = c
      BY <3>3, <3>5, <1>3
    <3>7. QED
      BY <3>5, <3>6, <1>3
  <2>5. ASSUME NEW c \in Callers
        PROVE  c \in t.heatWaiters <=> t.call[c] = "heating"
    <3>1. c \in s.heatWaiters <=> s.call[c] = "heating"
      BY DEF Tied, QueuedOnce
    <3>2. CASE \E i \in 1..k : c = s.acquisitions[i]
      <4>1. PICK i \in 1..k : c = s.acquisitions[i]
        BY <3>2
      <4>2. s.call[c] = "acquiring" /\ t.call[c] = "holding"
        BY <4>1, <1>4, <1>5
      <4>3. QED
        BY <3>1, <4>2, <1>5
    <3>3. CASE \A i \in 1..k : c # s.acquisitions[i]
      BY <3>1, <3>3, <1>4, <1>5
    <3>4. QED
      BY <3>2, <3>3
  <2>6. QED
    BY <2>2, <2>3, <2>4, <2>5 DEF QueuedOnce
<1>8. HeldOnce(t)
  <2>1. ASSUME NEW i \in 1..k
        PROVE  /\ t.lease[s.acquisitions[i]] = s.idle[i]
               /\ t.call[s.acquisitions[i]] = "holding"
               /\ t.phase[s.idle[i]] = "leased"
               /\ s.lease[s.acquisitions[i]] = None
    <3>1. s.acquisitions[i] \in Callers /\ s.call[s.acquisitions[i]] = "acquiring"
      BY <1>4
    <3>2. s.lease[s.acquisitions[i]] = None
      BY <3>1 DEF Tied, HeldOnce
    <3>3. QED
      BY <3>2, <1>4, <1>5
  <2>2. ASSUME NEW c \in Callers, \A i \in 1..k : c # s.acquisitions[i]
        PROVE  /\ t.call[c] = s.call[c] /\ t.lease[c] = s.lease[c]
               /\ s.lease[c] # None =>
                    /\ s.lease[c] \in Sandboxes
                    /\ \A i \in 1..k : s.lease[c] # s.idle[i]
                    /\ t.phase[s.lease[c]] = s.phase[s.lease[c]]
    <3>1. t.call[c] = s.call[c] /\ t.lease[c] = s.lease[c]
      BY <2>2, <1>4, <1>5
    <3>2. ASSUME s.lease[c] # None
          PROVE  s.lease[c] \in Sandboxes /\ \A i \in 1..k : s.lease[c] # s.idle[i]
      <4>1. s.phase[s.lease[c]] # "idle"
        BY <3>2 DEF Tied, HeldOnce
      <4>2. QED
        BY <4>1, <3>2, <1>2, <1>4
    <3>3. QED
      BY <3>1, <3>2, <1>4, <1>5
  <2>3. ASSUME NEW r \in Sandboxes, t.phase[r] = "leased"
        PROVE  \E c \in Callers : t.lease[c] = r /\ t.call[c] = "holding"
    <3>1. CASE \E i \in 1..k : r = s.idle[i]
      BY <3>1, <2>1, <1>4
    <3>2. CASE \A i \in 1..k : r # s.idle[i]
      <4>1. s.phase[r] = "leased"
        BY <2>3, <3>2, <1>4, <1>5
      <4>2. PICK c \in Callers : s.lease[c] = r /\ s.call[c] = "holding"
        BY <4>1 DEF Tied, HeldOnce
      <4>3. \A i \in 1..k : c # s.acquisitions[i]
        BY <4>2, <1>4
      <4>4. QED
        BY <4>2, <4>3, <2>2
    <3>3. QED
      BY <3>1, <3>2
  <2>4. ASSUME NEW c \in Callers, NEW d \in Callers, t.lease[c] # None, t.lease[c] = t.lease[d]
        PROVE  c = d
    <3>1. CASE \E i \in 1..k : c = s.acquisitions[i]
      <4>1. PICK i \in 1..k : c = s.acquisitions[i]
        BY <3>1
      <4>2. CASE \E j \in 1..k : d = s.acquisitions[j]
        <5>1. PICK j \in 1..k : d = s.acquisitions[j]
          BY <4>2
        <5>2. s.idle[i] = s.idle[j]
          BY <4>1, <5>1, <2>1, <2>4
        <5>3. i = j
          BY <5>2, <1>4 DEF Tied, IdleOnce
        <5>4. QED
          BY <4>1, <5>1, <5>3
      <4>3. CASE \A j \in 1..k : d # s.acquisitions[j]
        BY <4>1, <4>3, <2>1, <2>2, <2>4
      <4>4. QED
        BY <4>2, <4>3
    <3>2. CASE \A i \in 1..k : c # s.acquisitions[i]
      <4>1. CASE \E j \in 1..k : d = s.acquisitions[j]
        BY <3>2, <4>1, <2>1, <2>2, <2>4
      <4>2. CASE \A j \in 1..k : d # s.acquisitions[j]
        BY <3>2, <4>2, <2>2, <2>4 DEF Tied, HeldOnce
      <4>3. QED
        BY <4>1, <4>2
    <3>3. QED
      BY <3>1, <3>2
  <2>5. ASSUME NEW c \in Callers
        PROVE  /\ t.lease[c] # None =>
                    /\ t.phase[t.lease[c]] \in {"leased", "disposing", "retrying"}
                    /\ t.call[c] \in {"holding", "releasing"}
               /\ t.call[c] = "releasing" =>
                    /\ t.lease[c] # None
                    /\ t.phase[t.lease[c]] \in {"disposing", "retrying"}
    <3>1. CASE \E i \in 1..k : c = s.acquisitions[i]
      BY <3>1, <2>1
    <3>2. CASE \A i \in 1..k : c # s.acquisitions[i]
      BY <3>2, <2>2 DEF Tied, HeldOnce
    <3>3. QED
      BY <3>1, <3>2
  <2>6. QED
    BY <2>3, <2>4, <2>5 DEF HeldOnce
<1>9. QED
  BY <1>5, <1>6, <1>7, <1>8 DEF Tied


\* The acquisitions that are granted are the first ones.
LEMMA GrantIdleServes ==
    ASSUME NEW s, Tied(s), NEW t, t = GrantIdle(s)
    PROVE  Serves(s, t)
<1>1. PICK k \in Nat : Grants(s, t, k)
  BY GrantIdleFields
<1>2. Len(s.acquisitions) \in Nat
  BY DEF Tied, Typed
<1>3. ASSUME NEW c \in Callers, t.call[c] = "acquiring"
      PROVE  /\ s.call[c] = "acquiring"
             /\ \E m \in 1..Len(s.acquisitions) : m > k /\ s.acquisitions[m] = c
  <2>1. \A i \in 1..k : c # s.acquisitions[i]
    BY <1>1, <1>3 DEF Grants
  <2>2. s.call[c] = "acquiring"
    BY <1>1, <1>3, <2>1 DEF Grants
  <2>3. PICK m \in 1..Len(s.acquisitions) : s.acquisitions[m] = c
    BY <2>2 DEF Tied, QueuedOnce
  <2>4. m > k
    BY <2>1, <2>3, <1>2
  <2>5. QED
    BY <2>2, <2>3, <2>4
<1> SUFFICES ASSUME NEW c \in Callers, NEW d \in Callers, c # d, t.call[c] = "acquiring"
             PROVE  /\ s.call[c] = "acquiring"
                    /\ s.call[d] # "holding" /\ t.call[d] = "holding" => Before(s, d, c)
                    /\ t.call[d] = "acquiring" => Before(s, d, c) \/ Before(t, c, d)
  BY DEF Serves
<1>4. PICK m \in 1..Len(s.acquisitions) : m > k /\ s.acquisitions[m] = c
  BY <1>3
<1>5. ASSUME s.call[d] # "holding", t.call[d] = "holding"
      PROVE  Before(s, d, c)
  <2>1. PICK i \in 1..k : d = s.acquisitions[i]
    BY <1>1, <1>5 DEF Grants
  <2>2. i \in 1..Len(s.acquisitions) /\ i < m
    BY <1>1, <1>2, <1>4 DEF Grants
  <2>3. QED
    BY <1>4, <2>1, <2>2 DEF Before
<1>6. ASSUME t.call[d] = "acquiring"
      PROVE  Before(s, d, c) \/ Before(t, c, d)
  <2>1. PICK n \in 1..Len(s.acquisitions) : n > k /\ s.acquisitions[n] = d
    BY <1>3, <1>6
  <2>2. n < m \/ m < n
    BY <1>2, <1>4, <2>1
  <2>3. CASE n < m
    BY <1>4, <2>1, <2>3 DEF Before
  <2>4. CASE m < n
    <3>1. /\ m - k \in 1..(Len(s.acquisitions) - k) /\ n - k \in 1..(Len(s.acquisitions) - k)
          /\ k + (m - k) = m /\ k + (n - k) = n /\ m - k < n - k
      BY <1>2, <1>4, <2>1, <2>4
    <3>2. /\ Len(t.acquisitions) = Len(s.acquisitions) - k
          /\ t.acquisitions[m - k] = c /\ t.acquisitions[n - k] = d
      BY <1>1, <1>4, <2>1, <3>1, SMTT(30) DEF Grants
    <3>3. QED
      BY <3>1, <3>2 DEF Before
  <2>5. QED
    BY <2>2, <2>3, <2>4
<1>7. QED
  BY <1>3, <1>5, <1>6

\* Resolved heat waiters are no longer waiting.
LEMMA ResolveHeatWaitersTies ==
    ASSUME NEW s, Tied(s)
    PROVE  LET t == ResolveHeatWaiters(s)
           IN  /\ Tied(t) /\ t.acquisitions = s.acquisitions
               /\ \A c \in Callers : t.call[c] \in {"acquiring", "holding"} => t.call[c] = s.call[c]
<1> DEFINE t == ResolveHeatWaiters(s)
           call == [c \in Callers |-> IF c \in s.heatWaiters THEN "out" ELSE s.call[c]]
<1>1. Typed(s)
  BY DEF Tied
<1>2. CASE IsHeated(s)
  <2>1. t = [s EXCEPT !.heatWaiters = {}, !.call = call]
    BY <1>2 DEF ResolveHeatWaiters
  <2>2. /\ call \in [Callers -> CallStates]
        /\ \A c \in Callers : call[c] = IF s.call[c] = "heating" THEN "out" ELSE s.call[c]
    BY <1>1 DEF Tied, QueuedOnce, Typed, CallStates
  <2> HIDE DEF t, call
  <2>3. /\ Typed(t) /\ t.idle = s.idle /\ t.phase = s.phase
        /\ t.acquisitions = s.acquisitions /\ t.heatWaiters = {}
        /\ t.call = call /\ t.lease = s.lease
    BY <1>1, <2>1, <2>2 DEF Typed, Fields
  <2>4. IdleOnce(t)
    BY <2>3 DEF Tied, IdleOnce
  <2>5. QueuedOnce(t)
    <3>1. \A i \in 1..Len(s.acquisitions) : s.acquisitions[i] \in Callers
      BY <1>1 DEF Typed
    <3>2. QED
      BY <2>2, <2>3, <3>1 DEF Tied, QueuedOnce
  <2>6. HeldOnce(t)
    BY <2>2, <2>3 DEF Tied, HeldOnce
  <2>7. QED
    BY <2>2, <2>3, <2>4, <2>5, <2>6 DEF Tied, t
<1>3. CASE ~IsHeated(s)
  BY <1>3 DEF ResolveHeatWaiters
<1>4. QED
  BY <1>2, <1>3

\* A creation that starts changes neither callers nor sandboxes.
LEMMA StartRequiredCreationsTies ==
    ASSUME NEW t, Tied(t)
    PROVE  LET u == StartRequiredCreations(t)
           IN  Tied(u) /\ u.acquisitions = t.acquisitions /\ u.call = t.call
<1>1. CASE t.retryTimer \/ t.creationExhausted
  BY <1>1 DEF StartRequiredCreations
<1>2. CASE ~(t.retryTimer \/ t.creationExhausted)
  <2> DEFINE n == RequiredCreations(t)
             u == [t EXCEPT !.creating = t.creating + n]
  <2>1. StartRequiredCreations(t) = u
    BY <1>2 DEF StartRequiredCreations
  <2> HIDE DEF n
  <2>2. /\ Fields \subseteq DOMAIN u /\ u.idle = t.idle /\ u.phase = t.phase
        /\ u.acquisitions = t.acquisitions /\ u.heatWaiters = t.heatWaiters
        /\ u.call = t.call /\ u.lease = t.lease
    BY DEF Tied, Typed, Fields
  <2> HIDE DEF u
  <2>3. QED
    BY <2>1, <2>2, TiedSame
<1>3. QED
  BY <1>1, <1>2

\* The end of a disposal changes neither callers nor sandboxes.
LEMMA FinishDisposeTies ==
    ASSUME NEW s, Tied(s)
    PROVE  LET t == FinishDisposeIfPossible(s)
           IN  Tied(t) /\ t.acquisitions = s.acquisitions /\ t.call = s.call
<1> DEFINE u == [s EXCEPT !.lifecycle = "disposed"]
<1>1. /\ Fields \subseteq DOMAIN u /\ u.idle = s.idle /\ u.phase = s.phase
      /\ u.acquisitions = s.acquisitions /\ u.heatWaiters = s.heatWaiters
      /\ u.call = s.call /\ u.lease = s.lease
  BY DEF Tied, Typed, Fields
<1> HIDE DEF u
<1>2. Tied(u)
  BY <1>1, TiedSame
<1>3. QED
  BY <1>1, <1>2 DEF FinishDisposeIfPossible, u

\* Who waits when nothing is granted waits in the same order.
LEMMA ServesSame ==
    ASSUME NEW s, Tied(s), NEW t, t.acquisitions = s.acquisitions, t.call = s.call
    PROVE  Serves(s, t)
<1> SUFFICES ASSUME NEW c \in Callers, NEW d \in Callers, c # d,
                    s.call[c] = "acquiring", s.call[d] = "acquiring"
             PROVE  Before(s, d, c) \/ Before(t, c, d)
  BY DEF Serves
<1>1. PICK i, j \in 1..Len(s.acquisitions) : s.acquisitions[i] = c /\ s.acquisitions[j] = d
  BY DEF Tied, QueuedOnce
<1>2. i < j \/ j < i
  BY <1>1
<1>3. QED
  BY <1>1, <1>2 DEF Before

\* A pump ties what it grants and serves the oldest acquisitions.
LEMMA PumpTies ==
    ASSUME NEW s, Tied(s), NEW t, t \in {s, Pump(s), FinishDisposeIfPossible(s)}
    PROVE  Tied(t) /\ Serves(s, t)
<1>1. CASE t = s
  BY <1>1, ServesSame
<1>2. CASE t = FinishDisposeIfPossible(s)
  BY <1>2, FinishDisposeTies, ServesSame
<1>3. CASE t = StartRequiredCreations(ResolveHeatWaiters(GrantIdle(s)))
  <2> DEFINE g == GrantIdle(s)
             h == ResolveHeatWaiters(g)
  <2>1. Tied(g) /\ Serves(s, g)
    BY GrantIdleTies, GrantIdleServes
  <2> HIDE DEF g
  <2>2. /\ Tied(h) /\ h.acquisitions = g.acquisitions
        /\ \A c \in Callers : h.call[c] \in {"acquiring", "holding"} => h.call[c] = g.call[c]
    BY <2>1, ResolveHeatWaitersTies
  <2> HIDE DEF h
  <2>3. Tied(t) /\ t.acquisitions = h.acquisitions /\ t.call = h.call
    BY <1>3, <2>2, StartRequiredCreationsTies DEF g, h
  <2>4. Serves(s, t)
    BY <2>1, <2>2, <2>3 DEF Serves, Before
  <2>5. QED
    BY <2>3, <2>4
<1>4. QED
  BY <1>1, <1>2, <1>3 DEF Pump

-----------------------------------------------------------------------------
(* the other helpers *)

\* The queue is as it was, and nobody holds what it did not hold.
LEMMA FollowsSame ==
    ASSUME NEW t, t.acquisitions = pool.acquisitions,
           \A d \in Callers : t.call[d] = "holding" => pool.call[d] = "holding"
    PROVE  Follows(pool, t)
  BY DEF Follows, Before

\* A fresh batch does not change who waits and who holds.
LEMMA ResumeTies ==
    ASSUME NEW s, Tied(s)
    PROVE  LET t == ResumeCreationAttempts(s)
           IN  /\ Tied(t) /\ t.call = s.call /\ t.acquisitions = s.acquisitions
<1> DEFINE t == ResumeCreationAttempts(s)
           u == [s EXCEPT !.creationExhausted = FALSE, !.createFailures = 0]
<1>1. /\ Fields \subseteq DOMAIN u /\ u.idle = s.idle /\ u.phase = s.phase
      /\ u.acquisitions = s.acquisitions /\ u.heatWaiters = s.heatWaiters
      /\ u.call = s.call /\ u.lease = s.lease
  BY DEF Tied, Typed, Fields
<1>2. t = s \/ t = u
  BY DEF ResumeCreationAttempts
<1> HIDE DEF t, u
<1>3. Tied(u)
  BY <1>1, TiedSame
<1>4. QED
  BY <1>1, <1>2, <1>3 DEF t

\* Rejected waiters are exactly those who waited.
LEMMA RejectWaitersTies ==
    ASSUME NEW s, Tied(s)
    PROVE  LET t == RejectWaiters(s)
           IN  Tied(t) /\ \A c \in Callers : t.call[c] # "acquiring"
<1> DEFINE t == RejectWaiters(s)
           call == [c \in Callers |->
                      IF c \in ToSet(s.acquisitions) \cup s.heatWaiters
                      THEN "out" ELSE s.call[c]]
<1>1. Typed(s)
  BY DEF Tied
<1>2. t = [s EXCEPT !.acquisitions = <<>>, !.heatWaiters = {}, !.call = call]
  BY DEF RejectWaiters
<1>3. /\ call \in [Callers -> CallStates]
      /\ \A c \in Callers : call[c] = IF s.call[c] \in {"acquiring", "heating"}
                                      THEN "out" ELSE s.call[c]
  <2>1. \A c \in Callers : c \in ToSet(s.acquisitions) <=> s.call[c] = "acquiring"
    BY DEF Tied, QueuedOnce, ToSet
  <2>2. \A c \in Callers : c \in s.heatWaiters <=> s.call[c] = "heating"
    BY DEF Tied, QueuedOnce
  <2>3. QED
    BY <1>1, <2>1, <2>2 DEF Typed, CallStates
<1> HIDE DEF t, call
<1>4. /\ Typed(t) /\ t.idle = s.idle /\ t.phase = s.phase
      /\ t.acquisitions = <<>> /\ t.heatWaiters = {}
      /\ t.call = call /\ t.lease = s.lease
  BY <1>1, <1>2, <1>3 DEF Typed, Fields
<1>5. IdleOnce(t)
  BY <1>4 DEF Tied, IdleOnce
<1>6. QueuedOnce(t)
  <2>1. Len(t.acquisitions) = 0
    BY <1>4
  <2>2. QED
    BY <1>3, <1>4, <2>1 DEF QueuedOnce
<1>7. HeldOnce(t)
  BY <1>3, <1>4 DEF Tied, HeldOnce
<1>8. QED
  BY <1>3, <1>4, <1>5, <1>6, <1>7 DEF Tied, t

-----------------------------------------------------------------------------
(* the calls of the application *)

\* createSandpool pumps a pool that nobody uses yet.
LEMMA InitTies == Init => LeaseInv
<1> SUFFICES ASSUME Init PROVE LeaseInv
  OBVIOUS
<1> DEFINE s == [lifecycle |-> "active", idle |-> <<>>,
                 phase |-> [r \in Sandboxes |-> "absent"],
                 acquisitions |-> <<>>, heatWaiters |-> {},
                 creating |-> 0, createFailures |-> 0,
                 creationExhausted |-> FALSE, retryTimer |-> FALSE,
                 call |-> [c \in Callers |-> "out"],
                 lease |-> [c \in Callers |-> None]]
<1>1. Typed(s)
  BY DEF Typed, Fields, Phases, CallStates
<1>2. IdleOnce(s) /\ QueuedOnce(s) /\ HeldOnce(s)
  BY DEF IdleOnce, QueuedOnce, HeldOnce
<1>3. pool = Pump(s)
  BY DEF Init
<1> HIDE DEF s
<1>4. QED
  BY <1>1, <1>2, <1>3, PumpTies DEF LeaseInv, Tied

\* A caller that waits for nothing joins the queue.
LEMMA AcquireTies ==
    ASSUME LeaseInv, NEW c \in Callers, Acquire(c)
    PROVE  \E t : Prepares(t)
<1> DEFINE s == ResumeCreationAttempts(pool)
           t == [s EXCEPT !.acquisitions = Append(s.acquisitions, c),
                          !.call[c] = "acquiring"]
<1>1. /\ Tied(s) /\ s.call[c] = "out"
      /\ s.call = pool.call /\ s.acquisitions = pool.acquisitions
  BY ResumeTies DEF LeaseInv, Acquire
<1>2. pool' = Pump(t)
  BY DEF Acquire
<1> HIDE DEF s
<1>3. Typed(s)
  BY <1>1 DEF Tied
<1>4. /\ Append(s.acquisitions, c) \in Seq(Callers)
      /\ Len(Append(s.acquisitions, c)) = Len(s.acquisitions) + 1
      /\ Append(s.acquisitions, c)[Len(s.acquisitions) + 1] = c
      /\ \A i \in 1..Len(s.acquisitions) : Append(s.acquisitions, c)[i] = s.acquisitions[i]
      /\ Len(s.acquisitions) \in Nat
      /\ \A i \in 1..Len(s.acquisitions) : s.acquisitions[i] \in Callers
  BY <1>3, AppendProperties DEF Typed
<1> DEFINE q == Append(s.acquisitions, c)
<1>5. t = [s EXCEPT !.acquisitions = q, !.call = [s.call EXCEPT ![c] = "acquiring"]]
  BY <1>3 DEF Typed, Fields
<1> HIDE DEF t, q
<1>6. /\ Typed(t) /\ t.idle = s.idle /\ t.phase = s.phase
      /\ t.acquisitions = q /\ t.heatWaiters = s.heatWaiters
      /\ t.call = [s.call EXCEPT ![c] = "acquiring"] /\ t.lease = s.lease
  BY <1>3, <1>4, <1>5 DEF Typed, Fields, CallStates, q
<1>7. /\ Len(q) = Len(s.acquisitions) + 1 /\ q[Len(s.acquisitions) + 1] = c
      /\ \A i \in 1..Len(s.acquisitions) : q[i] = s.acquisitions[i]
      /\ \A i \in 1..Len(s.acquisitions) : s.acquisitions[i] # c
  BY <1>1, <1>4 DEF Tied, QueuedOnce, q
<1>8. /\ t.call[c] = "acquiring"
      /\ \A d \in Callers : d # c => t.call[d] = s.call[d]
  BY <1>3, <1>6 DEF Typed
<1>9. IdleOnce(t)
  BY <1>1, <1>6 DEF Tied, IdleOnce
<1>10. QueuedOnce(t)
  <2>1. \A i \in 1..Len(q) : i \in 1..Len(s.acquisitions) \/ i = Len(s.acquisitions) + 1
    BY <1>4, <1>7
  <2>2. \A i \in 1..Len(q) : t.call[q[i]] = "acquiring"
    BY <1>1, <1>4, <1>7, <1>8, <2>1 DEF Tied, QueuedOnce
  <2>3. \A i, j \in 1..Len(q) : q[i] = q[j] => i = j
    BY <1>1, <1>7, <2>1 DEF Tied, QueuedOnce
  <2>4. ASSUME NEW d \in Callers, t.call[d] = "acquiring"
        PROVE  \E i \in 1..Len(q) : q[i] = d
    <3>1. CASE d = c
      BY <3>1, <1>4, <1>7
    <3>2. CASE d # c
      <4>1. PICK i \in 1..Len(s.acquisitions) : s.acquisitions[i] = d
        BY <2>4, <3>2, <1>1, <1>8 DEF Tied, QueuedOnce
      <4>2. i \in 1..Len(q) /\ q[i] = d
        BY <4>1, <1>4, <1>7
      <4>3. QED
        BY <4>2
    <3>3. QED
      BY <3>1, <3>2
  <2>5. \A d \in Callers : d \in t.heatWaiters <=> t.call[d] = "heating"
    BY <1>1, <1>6, <1>8 DEF Tied, QueuedOnce
  <2>6. QED
    BY <2>2, <2>3, <2>4, <2>5, <1>6 DEF QueuedOnce
<1>11. HeldOnce(t)
  BY <1>1, <1>6, <1>8 DEF Tied, HeldOnce
<1>12. Follows(pool, t)
  <2> SUFFICES ASSUME NEW e \in Callers, NEW d \in Callers, pool.call[e] = "acquiring"
               PROVE  /\ t.call[d] = "holding" => pool.call[d] = "holding"
                      /\ Before(t, d, e) => Before(pool, d, e)
    BY DEF Follows
  <2>1. t.call[d] = "holding" => pool.call[d] = "holding"
    BY <1>1, <1>8
  <2>2. ASSUME Before(t, d, e) PROVE Before(pool, d, e)
    <3>1. PICK i, j \in 1..Len(q) : i < j /\ q[i] = d /\ q[j] = e
      BY <2>2, <1>6 DEF Before
    <3>2. e # c
      BY <1>1
    <3>3. /\ i \in 1..Len(pool.acquisitions) /\ j \in 1..Len(pool.acquisitions)
          /\ pool.acquisitions[i] = d /\ pool.acquisitions[j] = e
      BY <1>1, <1>4, <1>7, <3>1, <3>2
    <3>4. QED
      BY <3>1, <3>3 DEF Before
  <2>3. QED
    BY <2>1, <2>2
<1>13. Prepares(t)
  BY <1>2, <1>6, <1>9, <1>10, <1>11, <1>12 DEF Prepares, Tied
<1>14. QED
  BY <1>13

\* A heat waiter leaves queue and leases alone.
LEMMA WaitUntilHeatedTies ==
    ASSUME LeaseInv, NEW c \in Callers, WaitUntilHeated(c)
    PROVE  \E t : Prepares(t)
<1> DEFINE s == ResumeCreationAttempts(pool)
           t == [s EXCEPT !.heatWaiters = s.heatWaiters \cup {c}, !.call[c] = "heating"]
<1>1. /\ Tied(s) /\ Typed(s) /\ s.call[c] = "out"
      /\ s.call = pool.call /\ s.acquisitions = pool.acquisitions
  BY ResumeTies DEF LeaseInv, WaitUntilHeated, Tied
<1>2. pool' = Pump(t)
  BY DEF WaitUntilHeated
<1> HIDE DEF s
<1>3. /\ Typed(t) /\ t.idle = s.idle /\ t.phase = s.phase
      /\ t.acquisitions = s.acquisitions /\ t.heatWaiters = s.heatWaiters \cup {c}
      /\ t.call = [s.call EXCEPT ![c] = "heating"] /\ t.lease = s.lease
  BY <1>1 DEF Typed, Fields, CallStates
<1> HIDE DEF t
<1>4. /\ t.call[c] = "heating"
      /\ \A d \in Callers : d # c => t.call[d] = s.call[d]
  BY <1>1, <1>3 DEF Typed
<1>5. IdleOnce(t)
  BY <1>1, <1>3 DEF Tied, IdleOnce
<1>6. QueuedOnce(t)
  <2>1. \A i \in 1..Len(s.acquisitions) : s.acquisitions[i] \in Callers
    BY <1>1 DEF Typed
  <2>2. QED
    BY <1>1, <1>3, <1>4, <2>1 DEF Tied, QueuedOnce
<1>7. HeldOnce(t)
  BY <1>1, <1>3, <1>4 DEF Tied, HeldOnce
<1>8. Follows(pool, t)
  <2>1. \A d \in Callers : t.call[d] = "holding" => pool.call[d] = "holding"
    BY <1>1, <1>4
  <2>2. t.acquisitions = pool.acquisitions
    BY <1>1, <1>3
  <2>3. QED
    BY <2>1, <2>2, FollowsSame
<1>9. Prepares(t)
  BY <1>2, <1>3, <1>5, <1>6, <1>7, <1>8 DEF Prepares, Tied
<1>10. QED
  BY <1>9

\* An aborted acquisition leaves the queue, and the others keep their order.
LEMMA AbortAcquireTies ==
    ASSUME LeaseInv, NEW c \in Callers, AbortAcquire(c)
    PROVE  \E t : Prepares(t)
<1> DEFINE q == RemoveFirst(pool.acquisitions, c)
           t == [pool EXCEPT !.acquisitions = q, !.call[c] = "out"]
<1>1. Tied(pool) /\ Typed(pool) /\ pool.call[c] = "acquiring" /\ pool' = Pump(t)
  BY DEF LeaseInv, Tied, AbortAcquire
<1>2. pool.acquisitions \in Seq(Callers)
  BY <1>1 DEF Typed
<1>3. \A i, j \in 1..Len(pool.acquisitions) :
         pool.acquisitions[i] = pool.acquisitions[j] => i = j
  BY <1>1 DEF Tied, QueuedOnce
<1>4. /\ q \in Seq(Callers)
      /\ \A i \in 1..Len(q) : \E j \in 1..Len(pool.acquisitions) : q[i] = pool.acquisitions[j]
      /\ \A i, j \in 1..Len(q) : q[i] = q[j] => i = j
      /\ \A i \in 1..Len(q) : q[i] # c
      /\ \A j \in 1..Len(pool.acquisitions) : pool.acquisitions[j] # c =>
            \E i \in 1..Len(q) : q[i] = pool.acquisitions[j]
  BY <1>2, <1>3, RemoveFirstProperties
<1>4a. KeepsOrder(q, pool.acquisitions)
  BY <1>2, RemoveFirstOrder
<1> HIDE DEF q
<1>5. /\ Typed(t) /\ t.idle = pool.idle /\ t.phase = pool.phase
      /\ t.acquisitions = q /\ t.heatWaiters = pool.heatWaiters
      /\ t.call = [pool.call EXCEPT ![c] = "out"] /\ t.lease = pool.lease
  BY <1>1, <1>4 DEF Typed, Fields, CallStates
<1> HIDE DEF t
<1>6. /\ t.call[c] = "out"
      /\ \A d \in Callers : d # c => t.call[d] = pool.call[d]
  BY <1>1, <1>5 DEF Typed
<1>7. IdleOnce(t)
  BY <1>1, <1>5 DEF Tied, IdleOnce
<1>8. QueuedOnce(t)
  <2>1. ASSUME NEW i \in 1..Len(q) PROVE t.call[q[i]] = "acquiring"
    <3>1. PICK j \in 1..Len(pool.acquisitions) : q[i] = pool.acquisitions[j]
      BY <1>4
    <3>2. /\ pool.acquisitions[j] \in Callers
          /\ pool.call[pool.acquisitions[j]] = "acquiring"
      BY <1>1, <1>2 DEF Tied, QueuedOnce
    <3>3. QED
      BY <1>4, <1>6, <3>1, <3>2
  <2>2. ASSUME NEW d \in Callers, t.call[d] = "acquiring"
        PROVE  \E i \in 1..Len(q) : q[i] = d
    <3>1. d # c /\ pool.call[d] = "acquiring"
      BY <2>2, <1>6
    <3>2. PICK j \in 1..Len(pool.acquisitions) : pool.acquisitions[j] = d
      BY <3>1, <1>1 DEF Tied, QueuedOnce
    <3>3. QED
      BY <3>1, <3>2, <1>4
  <2>3. \A d \in Callers : d \in t.heatWaiters <=> t.call[d] = "heating"
    BY <1>1, <1>5, <1>6 DEF Tied, QueuedOnce
  <2>4. QED
    BY <2>1, <2>2, <2>3, <1>4, <1>5 DEF QueuedOnce
<1>9. HeldOnce(t)
  BY <1>1, <1>5, <1>6 DEF Tied, HeldOnce
<1>10. Follows(pool, t)
  <2>1. \A d, e \in Callers : Before(t, d, e) => Before(pool, d, e)
    BY <1>4a, <1>5, SMTT(30) DEF Before, KeepsOrder
  <2>2. QED
    BY <1>6, <2>1 DEF Follows
<1>11. Prepares(t)
  BY <1>1, <1>5, <1>7, <1>8, <1>9, <1>10 DEF Prepares, Tied
<1>12. QED
  BY <1>11

\* An aborted heat wait changes nothing else.
LEMMA AbortHeatTies ==
    ASSUME LeaseInv, NEW c \in Callers, AbortHeat(c)
    PROVE  \E t : Prepares(t)
<1> DEFINE t == pool'
<1>1. Tied(pool) /\ Typed(pool) /\ pool.call[c] = "heating"
  BY DEF LeaseInv, Tied, AbortHeat
<1>2. t = [pool EXCEPT !.heatWaiters = pool.heatWaiters \ {c}, !.call[c] = "out"]
  BY DEF AbortHeat
<1> HIDE DEF t
<1>3. /\ Typed(t) /\ t.idle = pool.idle /\ t.phase = pool.phase
      /\ t.acquisitions = pool.acquisitions /\ t.heatWaiters = pool.heatWaiters \ {c}
      /\ t.call = [pool.call EXCEPT ![c] = "out"] /\ t.lease = pool.lease
  BY <1>1, <1>2 DEF Typed, Fields, CallStates
<1>4. /\ t.call[c] = "out"
      /\ \A d \in Callers : d # c => t.call[d] = pool.call[d]
  BY <1>1, <1>3 DEF Typed
<1>5. IdleOnce(t)
  BY <1>1, <1>3 DEF Tied, IdleOnce
<1>6. QueuedOnce(t)
  <2>1. \A i \in 1..Len(pool.acquisitions) : pool.acquisitions[i] \in Callers
    BY <1>1 DEF Typed
  <2>2. QED
    BY <1>1, <1>3, <1>4, <2>1 DEF Tied, QueuedOnce
<1>7. HeldOnce(t)
  BY <1>1, <1>3, <1>4 DEF Tied, HeldOnce
<1>8. Follows(pool, t)
  BY <1>3, <1>4, FollowsSame
<1>9. Prepares(t)
  BY <1>3, <1>5, <1>6, <1>7, <1>8 DEF Prepares, Tied, t
<1>10. QED
  BY <1>9

\* A lease whose sandbox is gone resolves at once; otherwise the disposal of the sandbox
\* starts, or is shared, and the lease lasts until it is over.
LEMMA ReleaseTies ==
    ASSUME LeaseInv, NEW c \in Callers, Release(c)
    PROVE  \E t : Prepares(t)
<1>1. Tied(pool) /\ Typed(pool) /\ pool.call[c] = "holding"
  BY DEF LeaseInv, Tied, Release
<1>2. \A i \in 1..Len(pool.acquisitions) : pool.acquisitions[i] \in Callers
  BY <1>1 DEF Typed
<1>3. CASE pool.lease[c] = None
  <2> DEFINE t == [pool EXCEPT !.call[c] = "out"]
  <2>1. pool' = t
    BY <1>3 DEF Release
  <2>2. /\ Typed(t) /\ t.idle = pool.idle /\ t.phase = pool.phase
        /\ t.acquisitions = pool.acquisitions /\ t.heatWaiters = pool.heatWaiters
        /\ t.call = [pool.call EXCEPT ![c] = "out"] /\ t.lease = pool.lease
    BY <1>1 DEF Typed, Fields, CallStates
  <2> HIDE DEF t
  <2>3. /\ t.call[c] = "out"
        /\ \A d \in Callers : d # c => t.call[d] = pool.call[d]
    BY <1>1, <2>2 DEF Typed
  <2>4. IdleOnce(t)
    BY <1>1, <2>2 DEF Tied, IdleOnce
  <2>5. QueuedOnce(t)
    BY <1>1, <1>2, <2>2, <2>3 DEF Tied, QueuedOnce
  <2>6. HeldOnce(t)
    <3>1. ASSUME NEW r \in Sandboxes, t.phase[r] = "leased"
          PROVE  \E d \in Callers : t.lease[d] = r /\ t.call[d] = "holding"
      <4>1. PICK d \in Callers : pool.lease[d] = r /\ pool.call[d] = "holding"
        BY <3>1, <1>1, <2>2 DEF Tied, HeldOnce
      <4>2. d # c
        BY <4>1, <1>3, NoneIsNoSandbox
      <4>3. QED
        BY <4>1, <4>2, <2>2, <2>3
    <3>2. QED
      BY <1>1, <1>3, <2>2, <2>3, <3>1 DEF Tied, HeldOnce
  <2>7. Follows(pool, t)
    BY <2>2, <2>3, FollowsSame
  <2>8. Prepares(t)
    BY <2>1, <2>2, <2>4, <2>5, <2>6, <2>7 DEF Prepares, Tied
  <2>9. QED
    BY <2>8
<1>4. CASE pool.lease[c] # None
  <2> DEFINE s == [pool EXCEPT !.call[c] = "releasing"]
             r == pool.lease[c]
             t == StartDisposal(s, r)
             rest == RemoveFirst(s.idle, r)
             u == [s EXCEPT !.phase[r] = "disposing", !.idle = rest]
  <2>1. pool' = Pump(t)
    BY <1>4 DEF Release
  <2>2. r \in Sandboxes /\ pool.phase[r] \in {"leased", "disposing", "retrying"}
    BY <1>1, <1>4 DEF Typed, Tied, HeldOnce
  <2>3. /\ Typed(s) /\ s.idle = pool.idle /\ s.phase = pool.phase
        /\ s.acquisitions = pool.acquisitions /\ s.heatWaiters = pool.heatWaiters
        /\ s.call = [pool.call EXCEPT ![c] = "releasing"] /\ s.lease = pool.lease
    BY <1>1 DEF Typed, Fields, CallStates
  <2>4. t = IF s.phase[r] \in {"idle", "leased"} THEN u ELSE s
    BY DEF StartDisposal
  <2> HIDE DEF s, t
  <2>5. /\ rest \in Seq(Sandboxes)
        /\ \A i \in 1..Len(rest) : \E j \in 1..Len(s.idle) : rest[i] = s.idle[j]
        /\ \A i, j \in 1..Len(rest) : rest[i] = rest[j] => i = j
        /\ \A i \in 1..Len(rest) : rest[i] # r
        /\ \A j \in 1..Len(s.idle) : s.idle[j] # r =>
              \E i \in 1..Len(rest) : rest[i] = s.idle[j]
    <3>1. s.idle \in Seq(Sandboxes)
      BY <2>3 DEF Typed
    <3>2. \A i, j \in 1..Len(s.idle) : s.idle[i] = s.idle[j] => i = j
      BY <1>1, <2>3 DEF Tied, IdleOnce
    <3> HIDE DEF r
    <3>3. QED
      BY <3>1, <3>2, RemoveFirstProperties
  <2> HIDE DEF rest
  <2>6. /\ Typed(u) /\ u.idle = rest /\ u.phase = [pool.phase EXCEPT ![r] = "disposing"]
        /\ u.acquisitions = s.acquisitions /\ u.heatWaiters = s.heatWaiters
        /\ u.call = s.call /\ u.lease = s.lease
    BY <2>3, <2>5 DEF Typed, Fields, Phases
  <2> HIDE DEF u
  <2>7. \A d \in Callers : d # c => pool.lease[d] # r
    BY <1>1, <1>4 DEF Tied, HeldOnce
  <2>8. /\ s.call[c] = "releasing"
        /\ \A d \in Callers : d # c => s.call[d] = pool.call[d]
    BY <1>1, <2>3 DEF Typed
  <2> HIDE DEF r
  <2>8a. r = pool.lease[c]
    BY DEF r
  <2>9. QueuedOnce(s) /\ QueuedOnce(u)
    BY <1>1, <1>2, <2>3, <2>6, <2>8 DEF Tied, QueuedOnce
  <2>9a. Follows(pool, s) /\ Follows(pool, u)
    <3>1. \A d \in Callers : s.call[d] = "holding" => pool.call[d] = "holding"
      BY <2>8
    <3>2. \A d \in Callers : u.call[d] = "holding" => pool.call[d] = "holding"
      BY <2>6, <3>1
    <3>3. u.acquisitions = pool.acquisitions /\ s.acquisitions = pool.acquisitions
      BY <2>3, <2>6
    <3>4. QED
      BY <3>1, <3>2, <3>3, FollowsSame
  <2>10. CASE pool.phase[r] = "leased"
    <3>1. t = u
      BY <2>3, <2>4, <2>10
    <3>2. /\ u.phase[r] = "disposing"
          /\ \A q \in Sandboxes : q # r => u.phase[q] = pool.phase[q]
      BY <1>1, <2>2, <2>6 DEF Typed
    <3>3. IdleOnce(u)
      <4>1. ASSUME NEW i \in 1..Len(rest) PROVE u.phase[rest[i]] = "idle"
        <5>1. PICK j \in 1..Len(pool.idle) : rest[i] = pool.idle[j]
          BY <2>3, <2>5
        <5>2. pool.idle[j] \in Sandboxes /\ pool.phase[pool.idle[j]] = "idle"
          BY <1>1 DEF Tied, Typed, IdleOnce
        <5>3. QED
          BY <2>5, <3>2, <5>1, <5>2
      <4>2. ASSUME NEW q \in Sandboxes, u.phase[q] = "idle"
            PROVE  \E i \in 1..Len(rest) : rest[i] = q
        <5>1. q # r /\ pool.phase[q] = "idle"
          BY <3>2, <4>2
        <5>2. PICK j \in 1..Len(pool.idle) : pool.idle[j] = q
          BY <1>1, <5>1 DEF Tied, IdleOnce
        <5>3. QED
          BY <2>3, <2>5, <5>1, <5>2
      <4>3. QED
        BY <2>5, <2>6, <4>1, <4>2 DEF IdleOnce
    <3>4. HeldOnce(u)
      <4>1. ASSUME NEW q \in Sandboxes, u.phase[q] = "leased"
            PROVE  \E d \in Callers : u.lease[d] = q /\ u.call[d] = "holding"
        <5>1. q # r /\ pool.phase[q] = "leased"
          BY <3>2, <4>1
        <5>2. PICK d \in Callers : pool.lease[d] = q /\ pool.call[d] = "holding"
          BY <1>1, <5>1 DEF Tied, HeldOnce
        <5>3. d # c
          BY <5>1, <5>2, <2>8a
        <5>4. QED
          BY <5>2, <5>3, <2>3, <2>6, <2>8
      <4>2. ASSUME NEW d \in Callers
            PROVE  /\ u.lease[d] # None =>
                        /\ u.phase[u.lease[d]] \in {"leased", "disposing", "retrying"}
                        /\ u.call[d] \in {"holding", "releasing"}
                   /\ u.call[d] = "releasing" =>
                        /\ u.lease[d] # None
                        /\ u.phase[u.lease[d]] \in {"disposing", "retrying"}
        <5>1. CASE d = c
          BY <5>1, <1>4, <2>3, <2>6, <2>8, <2>8a, <3>2
        <5>2. CASE d # c
          <6>1. u.lease[d] = pool.lease[d] /\ u.call[d] = pool.call[d]
            BY <5>2, <2>3, <2>6, <2>8
          <6>2. pool.lease[d] # None =>
                  pool.lease[d] \in Sandboxes /\ u.phase[pool.lease[d]] = pool.phase[pool.lease[d]]
            BY <5>2, <1>1, <2>7, <3>2 DEF Typed
          <6>3. QED
            BY <6>1, <6>2, <1>1 DEF Tied, HeldOnce
        <5>3. QED
          BY <5>1, <5>2
      <4>3. \A d, e \in Callers : u.lease[d] # None /\ u.lease[d] = u.lease[e] => d = e
        BY <1>1, <2>3, <2>6 DEF Tied, HeldOnce
      <4>4. QED
        BY <4>1, <4>2, <4>3 DEF HeldOnce
    <3>5. Prepares(u)
      BY <2>1, <2>6, <2>9, <2>9a, <3>1, <3>3, <3>4 DEF Prepares, Tied
    <3>6. QED
      BY <3>5
  <2>11. CASE pool.phase[r] \in {"disposing", "retrying"}
    <3>1. t = s
      BY <2>3, <2>4, <2>11
    <3>2. IdleOnce(s)
      BY <1>1, <2>3 DEF Tied, IdleOnce
    <3>3. HeldOnce(s)
      <4>1. ASSUME NEW q \in Sandboxes, s.phase[q] = "leased"
            PROVE  \E d \in Callers : s.lease[d] = q /\ s.call[d] = "holding"
        <5>1. PICK d \in Callers : pool.lease[d] = q /\ pool.call[d] = "holding"
          BY <1>1, <2>3, <4>1 DEF Tied, HeldOnce
        <5>2. d # c
          BY <5>1, <4>1, <2>3, <2>8a, <2>11
        <5>3. QED
          BY <5>1, <5>2, <2>3, <2>8
      <4>2. QED
        BY <1>1, <1>4, <2>3, <2>8, <2>8a, <2>11, <4>1 DEF Tied, HeldOnce
    <3>4. Prepares(s)
      BY <2>1, <2>3, <2>9, <2>9a, <3>1, <3>2, <3>3 DEF Prepares, Tied
    <3>5. QED
      BY <3>4
  <2>12. QED
    BY <2>2, <2>10, <2>11
<1>5. QED
  BY <1>3, <1>4

\* Leases outlive the disposal of the pool: their sandboxes are on the way out.
LEMMA DisposeTies ==
    ASSUME LeaseInv, Dispose
    PROVE  \E t : Prepares(t)
<1> DEFINE a == [pool EXCEPT !.lifecycle = "disposing", !.retryTimer = FALSE]
           s == RejectWaiters(a)
           phase == [r \in Sandboxes |-> IF s.phase[r] \in {"idle", "leased"}
                                         THEN "disposing" ELSE s.phase[r]]
           t == StartAllDisposals(s)
<1>1. Tied(pool) /\ pool' = FinishDisposeIfPossible(t)
  BY DEF LeaseInv, Dispose
<1>2. Tied(a)
  <2>1. /\ Fields \subseteq DOMAIN a /\ a.idle = pool.idle /\ a.phase = pool.phase
        /\ a.acquisitions = pool.acquisitions /\ a.heatWaiters = pool.heatWaiters
        /\ a.call = pool.call /\ a.lease = pool.lease
    BY <1>1 DEF Tied, Typed, Fields
  <2> HIDE DEF a
  <2>2. QED
    BY <1>1, <2>1, TiedSame
<1> HIDE DEF a
<1>3. Tied(s) /\ Typed(s) /\ \A c \in Callers : s.call[c] # "acquiring"
  BY <1>2, RejectWaitersTies DEF Tied
<1> HIDE DEF s
<1>4. /\ phase \in [Sandboxes -> Phases]
      /\ \A r \in Sandboxes : phase[r] = IF s.phase[r] \in {"idle", "leased"}
                                         THEN "disposing" ELSE s.phase[r]
  BY <1>3 DEF Typed, Phases
<1>5. t = [s EXCEPT !.phase = phase, !.idle = <<>>]
  BY DEF StartAllDisposals
<1> HIDE DEF t, phase
<1>6. /\ Typed(t) /\ t.idle = <<>> /\ t.phase = phase
      /\ t.acquisitions = s.acquisitions /\ t.heatWaiters = s.heatWaiters
      /\ t.call = s.call /\ t.lease = s.lease
  BY <1>3, <1>4, <1>5 DEF Typed, Fields
<1>7. IdleOnce(t)
  <2>1. Len(t.idle) = 0
    BY <1>6
  <2>2. \A r \in Sandboxes : t.phase[r] # "idle"
    BY <1>4, <1>6
  <2>3. QED
    BY <2>1, <2>2 DEF IdleOnce
<1>8. QueuedOnce(t)
  BY <1>3, <1>6 DEF Tied, QueuedOnce
<1>9. HeldOnce(t)
  <2>1. \A c \in Callers : s.lease[c] # None => s.lease[c] \in Sandboxes
    BY <1>3 DEF Typed
  <2>2. QED
    BY <1>3, <1>4, <1>6, <2>1 DEF Tied, HeldOnce
<1>10. Tied(t)
  BY <1>6, <1>7, <1>8, <1>9 DEF Tied
<1>11. Follows(pool, t)
  BY <1>3, <1>6 DEF Follows
<1>12. Prepares(t)
  BY <1>1, <1>10, <1>11 DEF Prepares
<1>13. QED
  BY <1>12

-----------------------------------------------------------------------------
(* continuations of awaited calls, and timers *)

\* A new sandbox joins the idle queue, or leaves at once when the pool is on its way out.
LEMMA CreateSucceedsTies ==
    ASSUME LeaseInv, NEW r \in Sandboxes, CreateSucceeds(r)
    PROVE  \E t : Prepares(t)
<1> DEFINE s == [pool EXCEPT !.creating = pool.creating - 1,
                             !.createFailures = 0,
                             !.creationExhausted = FALSE]
           q == Append(s.idle, r)
           t == [s EXCEPT !.phase[r] = "idle", !.idle = q]
           u == [s EXCEPT !.phase[r] = "disposing"]
<1>1. /\ Tied(pool) /\ Typed(pool) /\ pool.phase[r] = "absent"
      /\ pool' = Pump(t) \/ pool' = Pump(u)
  BY DEF LeaseInv, Tied, CreateSucceeds
<1>2. /\ Fields \subseteq DOMAIN s /\ s.idle = pool.idle /\ s.phase = pool.phase
      /\ s.acquisitions = pool.acquisitions /\ s.heatWaiters = pool.heatWaiters
      /\ s.call = pool.call /\ s.lease = pool.lease
  BY <1>1 DEF Typed, Fields
<1> HIDE DEF s
<1>3. Tied(s) /\ Typed(s) /\ s.phase[r] = "absent"
  BY <1>1, <1>2, TiedSame DEF Tied
<1>4. \A c \in Callers : s.lease[c] # r
  BY <1>3, NoneIsNoSandbox DEF Tied, HeldOnce
<1>5. /\ q \in Seq(Sandboxes) /\ Len(q) = Len(s.idle) + 1 /\ q[Len(s.idle) + 1] = r
      /\ \A i \in 1..Len(s.idle) : q[i] = s.idle[i]
      /\ Len(s.idle) \in Nat
  BY <1>3, AppendProperties DEF Typed
<1>6. \A i \in 1..Len(s.idle) : s.idle[i] \in Sandboxes /\ s.idle[i] # r
  BY <1>3 DEF Typed, Tied, IdleOnce
<1> HIDE DEF q
<1>7. Tied(t)
  <2>1. /\ Typed(t) /\ t.idle = q /\ t.phase = [s.phase EXCEPT ![r] = "idle"]
        /\ t.acquisitions = s.acquisitions /\ t.heatWaiters = s.heatWaiters
        /\ t.call = s.call /\ t.lease = s.lease
    BY <1>3, <1>5 DEF Typed, Fields, Phases
  <2> HIDE DEF t
  <2>2. /\ t.phase[r] = "idle"
        /\ \A x \in Sandboxes : x # r => t.phase[x] = s.phase[x]
    BY <1>3, <2>1 DEF Typed
  <2>3. IdleOnce(t)
    <3>1. \A i \in 1..Len(q) : i \in 1..Len(s.idle) \/ i = Len(s.idle) + 1
      BY <1>5
    <3>2. \A i \in 1..Len(q) : t.phase[q[i]] = "idle"
      BY <1>3, <1>5, <1>6, <2>2, <3>1 DEF Tied, IdleOnce
    <3>3. \A i, j \in 1..Len(q) : q[i] = q[j] => i = j
      BY <1>3, <1>5, <1>6, <3>1 DEF Tied, IdleOnce
    <3>4. ASSUME NEW x \in Sandboxes, t.phase[x] = "idle"
          PROVE  \E i \in 1..Len(q) : q[i] = x
      <4>1. CASE x = r
        BY <4>1, <1>5
      <4>2. CASE x # r
        <5>1. PICK i \in 1..Len(s.idle) : s.idle[i] = x
          BY <3>4, <4>2, <1>3, <2>2 DEF Tied, IdleOnce
        <5>2. i \in 1..Len(q) /\ q[i] = x
          BY <5>1, <1>5
        <5>3. QED
          BY <5>2
      <4>3. QED
        BY <4>1, <4>2
    <3>5. QED
      BY <2>1, <3>2, <3>3, <3>4 DEF IdleOnce
  <2>4. QueuedOnce(t)
    BY <1>3, <2>1 DEF Tied, QueuedOnce
  <2>5. HeldOnce(t)
    <3>1. \A c \in Callers : s.lease[c] # None => s.lease[c] \in Sandboxes
      BY <1>3 DEF Typed
    <3>2. QED
      BY <1>3, <1>4, <2>1, <2>2, <3>1 DEF Tied, HeldOnce
  <2>6. QED
    BY <2>1, <2>3, <2>4, <2>5 DEF Tied
<1>8. Tied(u)
  <2>1. /\ Typed(u) /\ u.idle = s.idle /\ u.phase = [s.phase EXCEPT ![r] = "disposing"]
        /\ u.acquisitions = s.acquisitions /\ u.heatWaiters = s.heatWaiters
        /\ u.call = s.call /\ u.lease = s.lease
    BY <1>3 DEF Typed, Fields, Phases
  <2> HIDE DEF u
  <2>2. /\ u.phase[r] = "disposing"
        /\ \A x \in Sandboxes : x # r => u.phase[x] = s.phase[x]
    BY <1>3, <2>1 DEF Typed
  <2>3. IdleOnce(u)
    BY <1>3, <1>6, <2>1, <2>2 DEF Tied, IdleOnce
  <2>4. QueuedOnce(u)
    BY <1>3, <2>1 DEF Tied, QueuedOnce
  <2>5. HeldOnce(u)
    <3>1. \A c \in Callers : s.lease[c] # None => s.lease[c] \in Sandboxes
      BY <1>3 DEF Typed
    <3>2. QED
      BY <1>3, <1>4, <2>1, <2>2, <3>1 DEF Tied, HeldOnce
  <2>6. QED
    BY <2>1, <2>3, <2>4, <2>5 DEF Tied
<1>9. Follows(pool, t) /\ Follows(pool, u)
  <2>1. /\ t.acquisitions = s.acquisitions /\ t.call = s.call
        /\ u.acquisitions = s.acquisitions /\ u.call = s.call
    BY <1>3 DEF Typed, Fields
  <2> HIDE DEF t, u
  <2>2. QED
    BY <1>2, <2>1, FollowsSame
<1> HIDE DEF t, u
<1>10. Prepares(t) \/ Prepares(u)
  BY <1>1, <1>7, <1>8, <1>9 DEF Prepares
<1>11. QED
  BY <1>10

\* A failed creation plans another one, or rejects everybody who waits.
LEMMA CreateFailsTies ==
    ASSUME LeaseInv, CreateFails
    PROVE  \E t : Prepares(t)
<1> DEFINE s == [pool EXCEPT !.creating = pool.creating - 1,
                             !.createFailures = pool.createFailures + 1]
           a == [s EXCEPT !.creationExhausted = TRUE, !.retryTimer = FALSE]
           b == [s EXCEPT !.retryTimer = TRUE]
<1>1. /\ Tied(pool)
      /\ \/ pool' = Pump(ExhaustCreationAttempts(s))
         \/ pool' = Pump(ScheduleCreationRetry(s))
  BY DEF LeaseInv, CreateFails
<1>2. /\ Fields \subseteq DOMAIN s /\ s.idle = pool.idle /\ s.phase = pool.phase
      /\ s.acquisitions = pool.acquisitions /\ s.heatWaiters = pool.heatWaiters
      /\ s.call = pool.call /\ s.lease = pool.lease
  BY <1>1 DEF Tied, Typed, Fields
<1> HIDE DEF s
<1>3. Tied(s)
  BY <1>1, <1>2, TiedSame
<1>4. /\ Fields \subseteq DOMAIN a /\ a.idle = s.idle /\ a.phase = s.phase
      /\ a.acquisitions = s.acquisitions /\ a.heatWaiters = s.heatWaiters
      /\ a.call = s.call /\ a.lease = s.lease
  BY <1>3 DEF Tied, Typed, Fields
<1>5. /\ Fields \subseteq DOMAIN b /\ b.idle = s.idle /\ b.phase = s.phase
      /\ b.acquisitions = s.acquisitions /\ b.heatWaiters = s.heatWaiters
      /\ b.call = s.call /\ b.lease = s.lease
  BY <1>3 DEF Tied, Typed, Fields
<1>6. ExhaustCreationAttempts(s) = RejectWaiters(a)
  BY DEF ExhaustCreationAttempts
<1>7. ScheduleCreationRetry(s) = b \/ ScheduleCreationRetry(s) = s
  BY DEF ScheduleCreationRetry
<1> HIDE DEF a, b
<1>8. Tied(a) /\ Tied(b)
  BY <1>3, <1>4, <1>5, TiedSame
<1>9. /\ Tied(RejectWaiters(a))
      /\ \A c \in Callers : RejectWaiters(a).call[c] # "acquiring"
  BY <1>8, RejectWaitersTies
<1>10. Follows(pool, s) /\ Follows(pool, b)
  BY <1>2, <1>5, FollowsSame
<1>11. Follows(pool, RejectWaiters(a))
  BY <1>9 DEF Follows
<1>12. Prepares(s) \/ Prepares(b) \/ Prepares(RejectWaiters(a))
  BY <1>1, <1>3, <1>6, <1>7, <1>8, <1>9, <1>10, <1>11 DEF Prepares
<1>13. QED
  BY <1>12

\* The timer only starts another creation.
LEMMA RetryTimerFiresTies ==
    ASSUME LeaseInv, RetryTimerFires
    PROVE  \E t : Prepares(t)
<1> DEFINE s == [pool EXCEPT !.retryTimer = FALSE]
<1>1. Tied(pool) /\ pool' = Pump(s)
  BY DEF LeaseInv, RetryTimerFires
<1>2. /\ Fields \subseteq DOMAIN s /\ s.idle = pool.idle /\ s.phase = pool.phase
      /\ s.acquisitions = pool.acquisitions /\ s.heatWaiters = pool.heatWaiters
      /\ s.call = pool.call /\ s.lease = pool.lease
  BY <1>1 DEF Tied, Typed, Fields
<1> HIDE DEF s
<1>3. Tied(s) /\ Follows(pool, s)
  BY <1>1, <1>2, TiedSame, FollowsSame
<1>4. Prepares(s)
  BY <1>1, <1>3 DEF Prepares
<1>5. QED
  BY <1>4

\* With its sandbox a lease ends, and whoever waits for the release goes on.
LEMMA DisposeSucceedsTies ==
    ASSUME LeaseInv, NEW r \in Sandboxes, DisposeSucceeds(r)
    PROVE  \E t : Prepares(t)
<1> DEFINE call == [c \in Callers |->
                      IF pool.lease[c] = r /\ pool.call[c] = "releasing"
                      THEN "out" ELSE pool.call[c]]
           lease == [c \in Callers |-> IF pool.lease[c] = r THEN None ELSE pool.lease[c]]
           t == [pool EXCEPT !.phase[r] = "absent", !.call = call, !.lease = lease]
<1>1. Tied(pool) /\ Typed(pool) /\ pool.phase[r] = "disposing" /\ pool' = Pump(t)
  BY DEF LeaseInv, Tied, DisposeSucceeds
<1>2. /\ call \in [Callers -> CallStates] /\ lease \in [Callers -> Sandboxes \cup {None}]
      /\ \A c \in Callers :
            /\ call[c] = IF pool.lease[c] = r /\ pool.call[c] = "releasing"
                         THEN "out" ELSE pool.call[c]
            /\ lease[c] = IF pool.lease[c] = r THEN None ELSE pool.lease[c]
  BY <1>1 DEF Typed, CallStates
<1> HIDE DEF call, lease
<1>3. /\ Typed(t) /\ t.idle = pool.idle /\ t.phase = [pool.phase EXCEPT ![r] = "absent"]
      /\ t.acquisitions = pool.acquisitions /\ t.heatWaiters = pool.heatWaiters
      /\ t.call = call /\ t.lease = lease
  BY <1>1, <1>2 DEF Typed, Fields, Phases
<1> HIDE DEF t
<1>4. /\ t.phase[r] = "absent"
      /\ \A x \in Sandboxes : x # r => t.phase[x] = pool.phase[x]
  BY <1>1, <1>3 DEF Typed
<1>5. IdleOnce(t)
  <2>1. \A i \in 1..Len(pool.idle) : pool.idle[i] \in Sandboxes /\ pool.idle[i] # r
    BY <1>1 DEF Typed, Tied, IdleOnce
  <2>2. QED
    BY <1>1, <1>3, <1>4, <2>1 DEF Tied, IdleOnce
<1>6. QueuedOnce(t)
  <2>1. \A i \in 1..Len(pool.acquisitions) : pool.acquisitions[i] \in Callers
    BY <1>1 DEF Typed
  <2>2. QED
    BY <1>1, <1>2, <1>3, <2>1 DEF Tied, QueuedOnce
<1>7. HeldOnce(t)
  <2>1. \A c \in Callers : pool.lease[c] # None => pool.lease[c] \in Sandboxes
    BY <1>1 DEF Typed
  <2>2. ASSUME NEW x \in Sandboxes, t.phase[x] = "leased"
        PROVE  \E c \in Callers : t.lease[c] = x /\ t.call[c] = "holding"
    <3>1. x # r /\ pool.phase[x] = "leased"
      BY <1>4, <2>2
    <3>2. PICK c \in Callers : pool.lease[c] = x /\ pool.call[c] = "holding"
      BY <1>1, <3>1 DEF Tied, HeldOnce
    <3>3. QED
      BY <1>2, <1>3, <3>1, <3>2
  <2>3. QED
    BY <1>1, <1>2, <1>3, <1>4, <2>1, <2>2 DEF Tied, HeldOnce
<1>8. Follows(pool, t)
  BY <1>2, <1>3, FollowsSame
<1>9. Prepares(t)
  BY <1>1, <1>3, <1>5, <1>6, <1>7, <1>8 DEF Prepares, Tied
<1>10. QED
  BY <1>9

\* A disposal that is tried again stays one.
LEMMA DisposalRetryTies ==
    ASSUME LeaseInv, NEW r \in Sandboxes, DisposeFails(r) \/ DisposeRetries(r)
    PROVE  \E t : Prepares(t)
<1> DEFINE t == pool'
<1>1. Tied(pool) /\ Typed(pool) /\ pool.phase[r] \in {"disposing", "retrying"}
  BY DEF LeaseInv, Tied, DisposeFails, DisposeRetries
<1>2. PICK p \in {"disposing", "retrying"} : t = [pool EXCEPT !.phase[r] = p]
  BY DEF DisposeFails, DisposeRetries
<1> HIDE DEF t
<1>3. /\ Typed(t) /\ t.idle = pool.idle /\ t.phase = [pool.phase EXCEPT ![r] = p]
      /\ t.acquisitions = pool.acquisitions /\ t.heatWaiters = pool.heatWaiters
      /\ t.call = pool.call /\ t.lease = pool.lease
  BY <1>1, <1>2 DEF Typed, Fields, Phases
<1>4. /\ t.phase[r] = p
      /\ \A x \in Sandboxes : x # r => t.phase[x] = pool.phase[x]
  BY <1>1, <1>3 DEF Typed
<1>5. IdleOnce(t)
  <2>1. \A i \in 1..Len(pool.idle) : pool.idle[i] \in Sandboxes /\ pool.idle[i] # r
    BY <1>1 DEF Typed, Tied, IdleOnce
  <2>2. QED
    BY <1>1, <1>3, <1>4, <2>1 DEF Tied, IdleOnce
<1>6. QueuedOnce(t)
  BY <1>1, <1>3 DEF Tied, QueuedOnce
<1>7. HeldOnce(t)
  <2>1. \A c \in Callers : pool.lease[c] # None => pool.lease[c] \in Sandboxes
    BY <1>1 DEF Typed
  <2>2. QED
    BY <1>1, <1>3, <1>4, <2>1 DEF Tied, HeldOnce
<1>8. Follows(pool, t)
  BY <1>3, FollowsSame
<1>9. Prepares(t)
  BY <1>3, <1>5, <1>6, <1>7, <1>8 DEF Prepares, Tied, t
<1>10. QED
  BY <1>9

-----------------------------------------------------------------------------
(* the theorems *)

\* Every action prepares a state for its pump.
LEMMA StepPrepares ==
    ASSUME LeaseInv, Next
    PROVE  \E t : Prepares(t)
<1>1. ASSUME NEW c \in Callers, Acquire(c) PROVE \E t : Prepares(t)
  BY <1>1, AcquireTies
<1>2. ASSUME NEW c \in Callers, AbortAcquire(c) PROVE \E t : Prepares(t)
  BY <1>2, AbortAcquireTies
<1>3. ASSUME NEW c \in Callers, WaitUntilHeated(c) PROVE \E t : Prepares(t)
  BY <1>3, WaitUntilHeatedTies
<1>4. ASSUME NEW c \in Callers, AbortHeat(c) PROVE \E t : Prepares(t)
  BY <1>4, AbortHeatTies
<1>5. ASSUME NEW c \in Callers, Release(c) PROVE \E t : Prepares(t)
  BY <1>5, ReleaseTies
<1>6. CASE Dispose
  BY <1>6, DisposeTies
<1>7. ASSUME NEW r \in Sandboxes, CreateSucceeds(r) PROVE \E t : Prepares(t)
  BY <1>7, CreateSucceedsTies
<1>8. CASE CreateFails
  BY <1>8, CreateFailsTies
<1>9. CASE RetryTimerFires
  BY <1>9, RetryTimerFiresTies
<1>10. ASSUME NEW r \in Sandboxes, DisposeSucceeds(r) PROVE \E t : Prepares(t)
  BY <1>10, DisposeSucceedsTies
<1>11. ASSUME NEW r \in Sandboxes, DisposeFails(r) \/ DisposeRetries(r)
       PROVE  \E t : Prepares(t)
  BY <1>11, DisposalRetryTies
<1>12. QED
  BY <1>1, <1>2, <1>3, <1>4, <1>5, <1>6, <1>7, <1>8, <1>9, <1>10, <1>11 DEF Next

\* Sandboxes, leases and waiters are tied one to one in every state of the pool, whatever
\* its pumps, aborts, releases and failing disposals interleave to (sandpool.ts).
THEOREM LeaseInvariant == Spec => []LeaseInv
<1>1. Init => LeaseInv
  BY InitTies
<1>2. LeaseInv /\ [Next]_vars => LeaseInv'
  <2> SUFFICES ASSUME LeaseInv, [Next]_vars PROVE LeaseInv'
    OBVIOUS
  <2>1. CASE Next
    <3>1. PICK t : Prepares(t)
      BY <2>1, StepPrepares
    <3>2. QED
      BY <3>1, PumpTies DEF Prepares, LeaseInv
  <2>2. CASE UNCHANGED vars
    BY <2>2 DEF vars, LeaseInv
  <2>3. QED
    BY <2>1, <2>2
<1>3. QED
  BY <1>1, <1>2, PTL DEF Spec

\* No sandbox is handed to two callers or kept warm while somebody has it, and no release
\* waits for a disposal that nobody started (pump, release, startDisposal).
THEOREM LeasesAreExclusive == Spec => []LeasesExclusive
<1>1. LeaseInv => LeasesExclusive
  <2> SUFFICES ASSUME Tied(pool) PROVE LeasesExclusive
    BY DEF LeaseInv
  <2>1. ToSet(pool.idle) = {r \in Sandboxes : pool.phase[r] = "idle"}
    <3>1. \A i \in 1..Len(pool.idle) : pool.idle[i] \in Sandboxes
      BY DEF Tied, Typed
    <3>2. \A r : r \in ToSet(pool.idle) <=> \E i \in 1..Len(pool.idle) : pool.idle[i] = r
      <4>1. DOMAIN pool.idle = 1..Len(pool.idle)
        BY DEF Tied, Typed
      <4>2. QED
        BY <4>1 DEF ToSet
    <3>3. QED
      BY <3>1, <3>2 DEF Tied, IdleOnce
  <2>2. QED
    BY <2>1 DEF Tied, IdleOnce, HeldOnce, LeasesExclusive
<1>2. QED
  BY <1>1, LeaseInvariant, PTL

\* Nobody overtakes: a grant leaves nobody waiting who called before, and who waits keeps
\* its place, whatever aborts and releases come in between (acquire, rejectOnAbort, pump).
THEOREM AcquisitionsAreServedInOrder == Spec => ServedInOrder
<1> DEFINE Ordered ==
        \A c, d \in Callers :
            c # d /\ pool.call[c] = "acquiring" /\ pool'.call[c] = "acquiring" =>
               /\ pool.call[d] # "holding" /\ pool'.call[d] = "holding" => Before(pool, d, c)
               /\ pool'.call[d] = "acquiring" => Before(pool, d, c) \/ Before(pool', c, d)
<1>1. LeaseInv /\ [Next]_vars => [Ordered]_vars
  <2> SUFFICES ASSUME LeaseInv, Next PROVE Ordered
    OBVIOUS
  <2>1. PICK t : Prepares(t)
    BY StepPrepares
  <2>2. Follows(pool, t) /\ Serves(t, pool')
    BY <2>1, PumpTies DEF Prepares
  <2>3. QED
    BY <2>2 DEF Follows, Serves
<1>2. QED
  BY <1>1, LeaseInvariant, PTL DEF Spec, ServedInOrder
=============================================================================
