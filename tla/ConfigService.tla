---------------------------- MODULE ConfigService ----------------------------
(***************************************************************************)
(* The configuration of agents/doric: the row in the database, the active  *)
(* generation that is built from it and served to new sessions, and        *)
(* concurrent replacements, which a chain of promises serializes.          *)
(*                                                                         *)
(* A configuration is known by the request that brings it.  A transaction  *)
(* commits or rolls back as a whole; its reply can be lost.  The process   *)
(* can die at any step and loads the row when it starts again.             *)
(***************************************************************************)
EXTENDS Naturals

CONSTANTS
    Requests,  \* PUT /config requests whose body is valid
    Default,   \* the configuration of the migration
    Nobody,    \* no request
    MaxCrashes

VARIABLES
    row,     \* the singleton configuration and its revision
    active,  \* the active generation: whose providers it has, and its snapshot
    tail,    \* the last replacement that was called
    request, \* stage of each replacement and the one it waits for
    drifted, \* the reply of the last commit was lost, and nothing was activated since
    crashes

configVars == <<row, active, tail, request, drifted, crashes>>

Generation(snapshot) == [providers |-> snapshot.config, snapshot |-> snapshot]

ConfigInit ==
    /\ row = [config |-> Default, revision |-> 0]
    /\ active = Generation(row)
    /\ tail = Nobody
    /\ request = [r \in Requests |-> [stage |-> "idle", previous |-> Nobody, snapshot |-> Nobody]]
    /\ drifted = FALSE
    /\ crashes = 0

InStage(r, stage) == request[r].stage = stage
ToStage(r, stage) == request' = [request EXCEPT ![r].stage = stage]

\* replace: joins the chain of exclusive.
Replace(r) ==
    /\ InStage(r, "idle")
    /\ request' = [request EXCEPT ![r].stage = "queued", ![r].previous = tail]
    /\ tail' = r
    /\ UNCHANGED <<row, active, drifted, crashes>>

\* Bug: exclusive does not wait for the operation before.
MayStart_Bug(r) == TRUE

\* The operation before has ended, well or not: its finally releases the next.
MayStart(r) ==
    request[r].previous # Nobody => request[request[r].previous].stage \in {"replaced", "failed"}

Start(r) ==
    /\ InStage(r, "queued") /\ MayStart(r)
    /\ ToStage(r, "building")
    /\ UNCHANGED <<row, active, tail, drifted, crashes>>

\* createGeneration of the candidate.
Build(r) ==
    /\ InStage(r, "building")
    /\ ToStage(r, "built") \/ ToStage(r, "failed")
    /\ UNCHANGED <<row, active, tail, drifted, crashes>>

\* store.replace: the transaction deletes and writes the rows and counts the revision.
Commit(r) ==
    /\ InStage(r, "built")
    /\ row' = [config |-> r, revision |-> row.revision + 1]
    /\ request' = [request EXCEPT ![r].stage = "committed", ![r].snapshot = row']
    /\ UNCHANGED <<active, tail, drifted, crashes>>

Rollback(r) ==
    /\ InStage(r, "built")
    /\ ToStage(r, "failed")
    /\ UNCHANGED <<row, active, tail, drifted, crashes>>

\* The candidate serves, with the snapshot the transaction returned.
Activate(r) ==
    /\ InStage(r, "committed")
    /\ active' = [providers |-> r, snapshot |-> request[r].snapshot]
    /\ ToStage(r, "replaced")
    /\ drifted' = FALSE
    /\ UNCHANGED <<row, tail, crashes>>

\* The transaction committed but its reply was lost: the request fails with 503.
ReplyLost(r) ==
    /\ InStage(r, "committed")
    /\ ToStage(r, "failed")
    /\ drifted' = TRUE
    /\ UNCHANGED <<row, active, tail, crashes>>

\* The process dies with its requests and starts again: createConfigService loads the row.
Restart ==
    /\ crashes < MaxCrashes
    /\ crashes' = crashes + 1
    /\ active' = Generation(row)
    /\ tail' = Nobody
    /\ request' = [r \in Requests |->
          IF InStage(r, "idle") THEN request[r]
          ELSE [stage |-> IF InStage(r, "replaced") THEN "replaced" ELSE "failed", previous |-> Nobody,
                snapshot |-> Nobody]]
    /\ drifted' = FALSE
    /\ UNCHANGED row

ConfigNext ==
    \/ \E r \in Requests :
          \/ Replace(r) \/ Start(r) \/ Build(r) \/ Commit(r) \/ Rollback(r)
          \/ Activate(r) \/ ReplyLost(r)
    \/ Restart

ConfigSpec == ConfigInit /\ [][ConfigNext]_configVars

-----------------------------------------------------------------------------
(* Properties *)

\* The active generation runs the providers of the snapshot it shows; it is never newer
\* than the row, and it is the row unless a committed replacement is about to be activated
\* or its reply was lost: replacements that overlap, fail or wait never leave an older
\* generation serving (createConfigService, exclusive).
NewestConfigurationServes ==
    /\ active.providers = active.snapshot.config
    /\ active.snapshot.revision <= row.revision
    /\ (\A r \in Requests : ~InStage(r, "committed")) /\ ~drifted => active.snapshot = row
=============================================================================
