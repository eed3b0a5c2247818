------------------------------ MODULE Sandpool ------------------------------
(***************************************************************************)
(* The process-local sandbox pool of packages/sandpool.  The pool keeps    *)
(* MinIdle sandboxes warm, serves acquisitions in order, destroys every    *)
(* released sandbox and retries a failing factory in bounded batches.      *)
(*                                                                         *)
(* JavaScript runs one callback at a time, so every action is one          *)
(* synchronous stretch of the code: a public call, an abort listener, the  *)
(* continuation of an awaited create or dispose, or a timer.  Almost all   *)
(* of them end in pump, which is therefore part of each action.            *)
(*                                                                         *)
(* A sandbox is a slot that is "absent" until a factory call fills it and  *)
(* again once its disposal succeeded, so that the model stays finite       *)
(* although the pool creates sandboxes forever.  A caller is a thread of   *)
(* the application that has at most one call outstanding.                  *)
(***************************************************************************)
EXTENDS Integers, Sequences, FiniteSets, SequencesExt

CONSTANTS
    Sandboxes,          \* slots for session records
    Callers,            \* application code that calls acquire or waitUntilHeated
    None,               \* no sandbox
    MinIdle,            \* options.minIdle
    MaxSandboxes,       \* options.maxSandboxes
    MaxCreateAttempts   \* options.maxCreateAttempts

\* validateOptions rejects every other combination.
ASSUME PoolOptions ==
    /\ MinIdle \in Nat
    /\ MaxSandboxes \in Nat \ {0}
    /\ MinIdle <= MaxSandboxes
    /\ MaxCreateAttempts \in Nat \ {0}

ASSUME NoneIsNoSandbox == None \notin Sandboxes

\* The State object of the pool, together with the promises its callers hold.
VARIABLE pool

vars == <<pool>>

\* SessionRecord.phase; "retrying" is a disposing record whose last dispose
\* call failed and that waits for its backoff timer.
Phases == {"absent", "idle", "leased", "disposing", "retrying"}

\* What a caller waits for or holds: "acquiring" and "heating" are pending
\* promises of acquire and waitUntilHeated, "holding" is an unreleased lease
\* and "releasing" the pending promise of release.
CallStates == {"out", "acquiring", "heating", "holding", "releasing"}

State == [lifecycle         : {"active", "disposing", "disposed"},
          idle              : Seq(Sandboxes),
          phase             : [Sandboxes -> Phases],
          acquisitions      : Seq(Callers),
          heatWaiters       : SUBSET Callers,
          creating          : Nat,
          createFailures    : Nat,
          creationExhausted : BOOLEAN,
          retryTimer        : BOOLEAN,
          call              : [Callers -> CallStates],
          lease             : [Callers -> Sandboxes \cup {None}]]

Records(s) == {r \in Sandboxes : s.phase[r] # "absent"}

Size(s) == Cardinality(Records(s))

IsHeated(s) == s.lifecycle = "active" /\ Len(s.idle) >= MinIdle

-----------------------------------------------------------------------------
(* pump and the functions it calls, as functions from State to State *)

\* Bug: the loop looks at the head of the idle queue and does not shift it.
GrantIdle_KeepsIdle(s) ==
    IF s.idle # <<>> /\ s.acquisitions # <<>>
    THEN [s EXCEPT !.phase[Head(s.idle)] = "leased",
                   !.acquisitions = Tail(s.acquisitions),
                   !.call[Head(s.acquisitions)] = "holding",
                   !.lease[Head(s.acquisitions)] = Head(s.idle)]
    ELSE s

\* The loop of pump: the oldest idle sandbox goes to the oldest acquisition.
GrantIdle(s) ==
    LET k == Min({Len(s.idle), Len(s.acquisitions)})
        Rank(c) == CHOOSE i \in 1..k : s.acquisitions[i] = c
        Served == {s.acquisitions[i] : i \in 1..k}
        Granted == {s.idle[i] : i \in 1..k}
    IN  [s EXCEPT
            !.idle = SubSeq(s.idle, k + 1, Len(s.idle)),
            !.acquisitions = SubSeq(s.acquisitions, k + 1, Len(s.acquisitions)),
            !.phase = [r \in Sandboxes |->
                          IF r \in Granted THEN "leased" ELSE s.phase[r]],
            !.call = [c \in Callers |->
                          IF c \in Served THEN "holding" ELSE s.call[c]],
            !.lease = [c \in Callers |->
                          IF c \in Served THEN s.idle[Rank(c)] ELSE s.lease[c]]]

ResolveHeatWaiters(s) ==
    IF IsHeated(s)
    THEN [s EXCEPT !.heatWaiters = {},
                   !.call = [c \in Callers |->
                                IF c \in s.heatWaiters THEN "out" ELSE s.call[c]]]
    ELSE s

\* Bugs: the result is not clamped at zero; the creations under way are left
\* out of the capacity.
RequiredCreations_Unclamped(s) ==
    Min({MaxSandboxes - (Size(s) + s.creating),
         Len(s.acquisitions) + MinIdle - Len(s.idle),
         MaxCreateAttempts - s.createFailures - s.creating})

RequiredCreations_OverCapacity(s) ==
    Max({0, Min({MaxSandboxes - Size(s),
                 Len(s.acquisitions) + MinIdle - Len(s.idle),
                 MaxCreateAttempts - s.createFailures - s.creating})})

\* The deficit leaves out the creations already under way, so repeated pumps
\* start more sandboxes than the demand needs, up to capacity.
RequiredCreations(s) ==
    LET capacity == MaxSandboxes - (Size(s) + s.creating)
        deficit == Len(s.acquisitions) + MinIdle - Len(s.idle)
        remainingAttempts == MaxCreateAttempts - s.createFailures - s.creating
    IN  Max({0, Min({capacity, deficit, remainingAttempts})})

StartRequiredCreations(s) ==
    IF s.retryTimer \/ s.creationExhausted
    THEN s
    ELSE [s EXCEPT !.creating = s.creating + RequiredCreations(s)]

FinishDisposeIfPossible(s) ==
    IF s.lifecycle = "disposing" /\ s.creating = 0 /\ Records(s) = {}
    THEN [s EXCEPT !.lifecycle = "disposed"]
    ELSE s

\* Bug: pump returns at once when the pool is not active.
Pump_NeverFinishes(s) ==
    IF s.lifecycle = "active"
    THEN StartRequiredCreations(ResolveHeatWaiters(GrantIdle(s)))
    ELSE s

Pump(s) ==
    IF s.lifecycle = "active"
    THEN StartRequiredCreations(ResolveHeatWaiters(GrantIdle(s)))
    ELSE FinishDisposeIfPossible(s)

-----------------------------------------------------------------------------
(* the other helpers *)

\* rejectWaiters and rejectCreationWaiters: every pending call is settled.
RejectWaiters(s) ==
    [s EXCEPT !.acquisitions = <<>>,
              !.heatWaiters = {},
              !.call = [c \in Callers |->
                           IF c \in ToSet(s.acquisitions) \cup s.heatWaiters
                           THEN "out" ELSE s.call[c]]]

\* Bug: a fresh batch starts with the failures of the last one.
ResumeCreationAttempts_KeepsFailures(s) ==
    [s EXCEPT !.creationExhausted = FALSE]

ResumeCreationAttempts(s) ==
    IF s.creationExhausted
    THEN [s EXCEPT !.creationExhausted = FALSE, !.createFailures = 0]
    ELSE s

ExhaustCreationAttempts(s) ==
    RejectWaiters([s EXCEPT !.creationExhausted = TRUE, !.retryTimer = FALSE])

ScheduleCreationRetry(s) ==
    IF s.lifecycle = "active" THEN [s EXCEPT !.retryTimer = TRUE] ELSE s

\* startDisposal without the pump it ends in; a second call changes nothing.
StartDisposal(s, r) ==
    IF s.phase[r] \in {"idle", "leased"}
    THEN [s EXCEPT !.phase[r] = "disposing", !.idle = RemoveFirst(s.idle, r)]
    ELSE s

\* startDisposal for every record.
StartAllDisposals(s) ==
    [s EXCEPT !.phase = [r \in Sandboxes |->
                            IF s.phase[r] \in {"idle", "leased"}
                            THEN "disposing" ELSE s.phase[r]],
              !.idle = <<>>]

-----------------------------------------------------------------------------
(* the calls of the application *)

\* createSandpool
Init ==
    pool = Pump([lifecycle         |-> "active",
                 idle              |-> <<>>,
                 phase             |-> [r \in Sandboxes |-> "absent"],
                 acquisitions      |-> <<>>,
                 heatWaiters       |-> {},
                 creating          |-> 0,
                 createFailures    |-> 0,
                 creationExhausted |-> FALSE,
                 retryTimer        |-> FALSE,
                 call              |-> [c \in Callers |-> "out"],
                 lease             |-> [c \in Callers |-> None]])

\* Bug: the newest waiter is put at the head of the queue.
Acquire_AtHead(c) ==
    /\ pool.lifecycle = "active"
    /\ pool.call[c] = "out"
    /\ LET s == ResumeCreationAttempts(pool)
       IN  pool' = Pump([s EXCEPT !.acquisitions = <<c>> \o s.acquisitions,
                                  !.call[c] = "acquiring"])

\* acquire throws, and changes nothing, unless the pool is active.
Acquire(c) ==
    /\ pool.lifecycle = "active"
    /\ pool.call[c] = "out"
    /\ LET s == ResumeCreationAttempts(pool)
       IN  pool' = Pump([s EXCEPT !.acquisitions = Append(s.acquisitions, c),
                                  !.call[c] = "acquiring"])

\* The abort listener of an acquisition, removed once the call is settled.
AbortAcquire(c) ==
    /\ pool.call[c] = "acquiring"
    /\ pool' = Pump([pool EXCEPT
                        !.acquisitions = RemoveFirst(pool.acquisitions, c),
                        !.call[c] = "out"])

\* A call on a heated pool resolves at once and changes nothing.
WaitUntilHeated(c) ==
    /\ pool.lifecycle = "active"
    /\ pool.call[c] = "out"
    /\ ~IsHeated(pool)
    /\ LET s == ResumeCreationAttempts(pool)
       IN  pool' = Pump([s EXCEPT !.heatWaiters = s.heatWaiters \cup {c},
                                  !.call[c] = "heating"])

\* The abort listener of a heat waiter does not pump.
AbortHeat(c) ==
    /\ pool.call[c] = "heating"
    /\ pool' = [pool EXCEPT !.heatWaiters = pool.heatWaiters \ {c},
                            !.call[c] = "out"]

\* release of a lease.  A lease whose sandbox the pool has disposed of in the
\* meantime resolves at once, one whose disposal runs shares that promise.
Release(c) ==
    /\ pool.call[c] = "holding"
    /\ pool' = IF pool.lease[c] = None
               THEN [pool EXCEPT !.call[c] = "out"]
               ELSE Pump(StartDisposal([pool EXCEPT !.call[c] = "releasing"],
                                       pool.lease[c]))

\* A later call of dispose returns the promise of the first.
Dispose ==
    /\ pool.lifecycle = "active"
    /\ LET s == RejectWaiters([pool EXCEPT !.lifecycle = "disposing",
                                           !.retryTimer = FALSE])
       IN  pool' = FinishDisposeIfPossible(StartAllDisposals(s))

-----------------------------------------------------------------------------
(* continuations of awaited calls, and timers *)

\* Bug: a session that arrives during the disposal is kept as an idle one.
CreateSucceeds_AnyLifecycle(r) ==
    /\ pool.creating > 0
    /\ pool.phase[r] = "absent"
    /\ pool' = Pump([pool EXCEPT !.creating = pool.creating - 1,
                                 !.createFailures = 0,
                                 !.creationExhausted = FALSE,
                                 !.phase[r] = "idle",
                                 !.idle = Append(pool.idle, r)])

\* createOne after the factory resolved with the session in slot r.
CreateSucceeds(r) ==
    /\ pool.creating > 0
    /\ pool.phase[r] = "absent"
    /\ LET s == [pool EXCEPT !.creating = pool.creating - 1,
                             !.createFailures = 0,
                             !.creationExhausted = FALSE]
       IN  pool' = IF pool.lifecycle = "active"
                   THEN Pump([s EXCEPT !.phase[r] = "idle",
                                       !.idle = Append(s.idle, r)])
                   ELSE Pump([s EXCEPT !.phase[r] = "disposing"])

\* createOne after the factory rejected.
CreateFails ==
    /\ pool.creating > 0
    /\ LET s == [pool EXCEPT !.creating = pool.creating - 1,
                             !.createFailures = pool.createFailures + 1]
       IN  pool' = IF s.lifecycle = "active" /\ s.createFailures >= MaxCreateAttempts
                   THEN Pump(ExhaustCreationAttempts(s))
                   ELSE Pump(ScheduleCreationRetry(s))

\* Bug: the timer is forgotten but nothing is tried again.
RetryTimerFires_NoPump ==
    /\ pool.retryTimer
    /\ pool' = [pool EXCEPT !.retryTimer = FALSE]

RetryTimerFires ==
    /\ pool.retryTimer
    /\ pool' = Pump([pool EXCEPT !.retryTimer = FALSE])

\* disposeWithRetry after session.dispose resolved: the record is forgotten,
\* and the callers that wait for its release go on.
DisposeSucceeds(r) ==
    /\ pool.phase[r] = "disposing"
    /\ pool' = Pump([pool EXCEPT
                 !.phase[r] = "absent",
                 !.call = [c \in Callers |->
                             IF pool.lease[c] = r /\ pool.call[c] = "releasing"
                             THEN "out" ELSE pool.call[c]],
                 !.lease = [c \in Callers |->
                             IF pool.lease[c] = r THEN None ELSE pool.lease[c]]])

DisposeFails(r) ==
    /\ pool.phase[r] = "disposing"
    /\ pool' = [pool EXCEPT !.phase[r] = "retrying"]

DisposeRetries(r) ==
    /\ pool.phase[r] = "retrying"
    /\ pool' = [pool EXCEPT !.phase[r] = "disposing"]

-----------------------------------------------------------------------------
Next ==
    \/ \E c \in Callers : Acquire(c)
    \/ \E c \in Callers : AbortAcquire(c)
    \/ \E c \in Callers : WaitUntilHeated(c)
    \/ \E c \in Callers : AbortHeat(c)
    \/ \E c \in Callers : Release(c)
    \/ Dispose
    \/ \E r \in Sandboxes : CreateSucceeds(r)
    \/ CreateFails
    \/ RetryTimerFires
    \/ \E r \in Sandboxes : DisposeSucceeds(r)
    \/ \E r \in Sandboxes : DisposeFails(r)
    \/ \E r \in Sandboxes : DisposeRetries(r)

Spec == Init /\ [][Next]_vars

\* A factory call settles, the timers fire, an application that holds a lease
\* releases it (every holder does so in a finally block) and a disposal that
\* is retried for ever succeeds at last.  Nobody is obliged to call acquire,
\* to abort a call or to dispose of the pool.
Fairness ==
    /\ WF_vars((\E r \in Sandboxes : CreateSucceeds(r)) \/ CreateFails)
    /\ WF_vars(RetryTimerFires)
    /\ \A c \in Callers : WF_vars(Release(c))
    /\ \A r \in Sandboxes : SF_vars(DisposeSucceeds(r)) /\ WF_vars(DisposeRetries(r))

FairSpec == Spec /\ Fairness

-----------------------------------------------------------------------------
(* the properties *)

\* Every component of the state has the type the code declares for it.
TypeOK == pool \in State

\* The pool never owns more than maxSandboxes sandboxes, those under creation
\* and those whose disposal is being retried included, although each pump
\* computes its deficit without regard to the creations under way.
CapacityRespected == Size(pool) + pool.creating <= MaxSandboxes

\* One batch makes at most maxCreateAttempts factory calls, however its
\* failures, successes and resumptions interleave; an exhausted pool has
\* nothing under way and nobody waiting on it.
AttemptsBounded ==
    /\ pool.createFailures + pool.creating <= MaxCreateAttempts
    /\ pool.creationExhausted =>
         /\ pool.createFailures = MaxCreateAttempts
         /\ ~pool.retryTimer
         /\ pool.acquisitions = <<>>
         /\ pool.heatWaiters = {}

\* The idle queue lists each warm sandbox once; a leased sandbox has one
\* caller that holds it; nobody holds a sandbox that is warm, and a caller
\* whose release is pending waits for a disposal that is under way.
LeasesExclusive ==
    /\ ToSet(pool.idle) = {r \in Sandboxes : pool.phase[r] = "idle"}
    /\ \A i, j \in 1..Len(pool.idle) : pool.idle[i] = pool.idle[j] => i = j
    /\ \A r \in Sandboxes : pool.phase[r] = "leased" =>
         \E c \in Callers : pool.lease[c] = r /\ pool.call[c] = "holding"
    /\ \A c, d \in Callers : pool.lease[c] # None /\ pool.lease[c] = pool.lease[d] => c = d
    /\ \A c \in Callers : pool.lease[c] # None =>
         /\ pool.phase[pool.lease[c]] \in {"leased", "disposing", "retrying"}
         /\ pool.call[c] \in {"holding", "releasing"}
    /\ \A c \in Callers : pool.call[c] = "releasing" =>
         /\ pool.lease[c] # None
         /\ pool.phase[pool.lease[c]] \in {"disposing", "retrying"}

\* No waiter is stranded.  While somebody waits, the pool has a factory call
\* under way or a timer that starts one, or every place is taken by a sandbox
\* that is leased or on its way out; an idle sandbox never sits beside a
\* waiting acquisition, and a heated pool has no heat waiter.
NoWaiterStranded ==
    LET progress == \/ pool.creating > 0
                    \/ pool.retryTimer
                    \/ Size(pool) = MaxSandboxes
    IN  /\ pool.acquisitions # <<>> => pool.idle = <<>> /\ progress
        /\ pool.heatWaiters # {} => Len(pool.idle) < MinIdle /\ progress

\* Once dispose was called nobody waits, nothing is warm or usable, no retry
\* is planned, and "disposed" is reached only when nothing is left.
DisposalDrains ==
    /\ pool.lifecycle # "active" =>
         /\ pool.acquisitions = <<>> /\ pool.heatWaiters = {} /\ pool.idle = <<>>
         /\ ~pool.retryTimer
         /\ \A r \in Sandboxes : pool.phase[r] \notin {"idle", "leased"}
    /\ (pool.lifecycle = "disposed") <=>
          (pool.lifecycle # "active" /\ pool.creating = 0 /\ Records(pool) = {})

Before(s, c, d) ==
    \E i, j \in 1..Len(s.acquisitions) :
        i < j /\ s.acquisitions[i] = c /\ s.acquisitions[j] = d

\* Acquisitions are served in the order of the calls: whoever is granted a
\* sandbox leaves nobody waiting who called before it, and a call that finds
\* others waiting does not overtake them.
ServedInOrder ==
    [][\A c, d \in Callers :
         c # d /\ pool.call[c] = "acquiring" /\ pool'.call[c] = "acquiring" =>
            /\ pool.call[d] # "holding" /\ pool'.call[d] = "holding" => Before(pool, d, c)
            /\ pool'.call[d] = "acquiring" => Before(pool, d, c) \/ Before(pool', c, d)]_vars

\* Every acquisition is settled, granted, rejected or aborted, and every
\* release resolves.
CallsSettle ==
    \A c \in Callers :
        /\ pool.call[c] = "acquiring" ~> pool.call[c] # "acquiring"
        /\ pool.call[c] = "releasing" ~> pool.call[c] # "releasing"

\* The promise of dispose resolves.
DisposeCompletes == pool.lifecycle = "disposing" ~> pool.lifecycle = "disposed"
=============================================================================
