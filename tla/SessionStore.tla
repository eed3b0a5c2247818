---------------------------- MODULE SessionStore ----------------------------
(***************************************************************************)
(* The in-memory store of packages/session: getOrCreate shares one         *)
(* creation among concurrent callers of an id, delete and clear forget an  *)
(* id while its creation may still run.                                    *)
(*                                                                         *)
(* A creation is known by the call that began it, and so is the value it   *)
(* makes; that call is the source's token.  get, load and list only read.  *)
(***************************************************************************)
EXTENDS Naturals

CONSTANTS
    Ids,
    Creators,   \* calls of getOrCreate
    None,
    MaxLives \* bound on the deletions of an id

VARIABLES
    values,   \* the completed value of each id
    inFlight, \* the creation in flight of each id
    call,     \* the id and the creation whose value a call returns, and the life of the
              \* id it was made in
    creation, \* how far the creation a call began has come
    life      \* how often each id was deleted

storeVars == <<values, inFlight, call, creation, life>>

StoreInit ==
    /\ values = [i \in Ids |-> None]
    /\ inFlight = [i \in Ids |-> None]
    /\ call = [c \in Creators |-> None]
    /\ creation = [c \in Creators |-> "none"]
    /\ life = [i \in Ids |-> 0]

Returns(c, i, k) == call' = [call EXCEPT ![c] = [id |-> i, from |-> k, life |-> life[i]]]

\* getOrCreate: the value, the creation in flight, or a new creation, which runs in a later
\* microtask.
GetOrCreate(c, i) ==
    /\ call[c] = None
    /\ \/ /\ values[i] # None
          /\ Returns(c, i, values[i])
          /\ UNCHANGED <<inFlight, creation>>
       \/ /\ values[i] = None /\ inFlight[i] # None
          /\ Returns(c, i, inFlight[i])
          /\ UNCHANGED <<inFlight, creation>>
       \/ /\ values[i] = None /\ inFlight[i] = None
          /\ Returns(c, i, c)
          /\ inFlight' = [inFlight EXCEPT ![i] = c]
          /\ creation' = [creation EXCEPT ![c] = "running"]
    /\ UNCHANGED <<values, life>>

\* Bug: whatever settles is taken for the creation in flight.
IsCurrent_Bug(k) == TRUE

\* The token comparison when a creation settles.
IsCurrent(k) == inFlight[call[k].id] = k

Resolve(k) ==
    /\ creation[k] = "running"
    /\ creation' = [creation EXCEPT ![k] = "made"]
    /\ IF IsCurrent(k)
       THEN /\ values' = [values EXCEPT ![call[k].id] = k]
            /\ inFlight' = [inFlight EXCEPT ![call[k].id] = None]
       ELSE UNCHANGED <<values, inFlight>>
    /\ UNCHANGED <<call, life>>

Reject(k) ==
    /\ creation[k] = "running"
    /\ creation' = [creation EXCEPT ![k] = "failed"]
    /\ inFlight' = IF IsCurrent(k) THEN [inFlight EXCEPT ![call[k].id] = None] ELSE inFlight
    /\ UNCHANGED <<values, call, life>>

\* delete of one id, clear of all of them.
Forget(ids) ==
    /\ \A i \in ids : life[i] < MaxLives
    /\ values' = [i \in Ids |-> IF i \in ids THEN None ELSE values[i]]
    /\ inFlight' = [i \in Ids |-> IF i \in ids THEN None ELSE inFlight[i]]
    /\ life' = [i \in Ids |-> IF i \in ids THEN life[i] + 1 ELSE life[i]]
    /\ UNCHANGED <<call, creation>>

Delete(i) == Forget({i})
Clear == Forget(Ids)

StoreNext ==
    \/ \E c \in Creators, i \in Ids : GetOrCreate(c, i)
    \/ \E k \in Creators : Resolve(k) \/ Reject(k)
    \/ \E i \in Ids : Delete(i)
    \/ Clear

StoreSpec == StoreInit /\ [][StoreNext]_storeVars

-----------------------------------------------------------------------------
(* Properties *)

StoreTypeOK ==
    /\ values \in [Ids -> Creators \union {None}]
    /\ inFlight \in [Ids -> Creators \union {None}]
    /\ call \in [Creators -> {None} \union [id : Ids, from : Creators, life : Nat]]
    /\ creation \in [Creators -> {"none", "running", "made", "failed"}]
    /\ life \in [Ids -> Nat]

Alive(k) == creation[k] \in {"running", "made"}

\* Between two deletions of an id its callers share one creation: a second one begins only
\* after the first failed, however late creations of earlier lives settle.  README: "Concurrent
\* getOrCreate calls for the same missing ID share one in-flight factory promise."
CreationsAreShared ==
    \A k, m \in Creators :
        /\ Alive(k) /\ Alive(m)
        /\ call[k].id = call[m].id /\ call[k].life = call[m].life
        => k = m

\* What is stored was created in the current life of its id, and a caller gets the value of
\* a creation of the life it called in: nothing comes back after a deletion.
ValuesBelongToTheirLife ==
    /\ \A i \in Ids : values[i] # None =>
          /\ creation[values[i]] = "made"
          /\ call[values[i]].id = i /\ call[values[i]].life = life[i]
    /\ \A c \in Creators : call[c] # None =>
          /\ call[call[c].from].id = call[c].id
          /\ call[call[c].from].life = call[c].life

\* The two together, for a run that checks one formula.
LivesAreSeparate == CreationsAreShared /\ ValuesBelongToTheirLife
=============================================================================
