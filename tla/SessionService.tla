--------------------------- MODULE SessionService ---------------------------
(***************************************************************************)
(* One Direct session of agents/doric: the lifecycle loop that owns its    *)
(* sandbox lease and runs its prompts, the HTTP requests that act on it,   *)
(* its row and events in PostgreSQL, and the process that hosts all this.  *)
(*                                                                         *)
(* Every database statement is a step of its own, and so is the            *)
(* continuation of an await when it acts on what the statement returned,   *)
(* because requests and the lifecycle interleave there.  What JavaScript   *)
(* runs between two awaits is one step.  A statement and a continuation    *)
(* that does nothing with its result but issue the next one are one step.  *)
(*                                                                         *)
(* Event bodies, timestamps and error texts are abstracted; an event keeps *)
(* its prompt and its type, a message history the prompts it comes from.   *)
(* Sessions do not share any of this state, so one session is enough; the  *)
(* pool they compete for is module Sandpool.                               *)
(***************************************************************************)
EXTENDS Naturals, Sequences, FiniteSets, SequencesExt

CONSTANTS
    Prompts,        \* prompt requests clients may send
    Terminations,   \* terminate requests clients may send
    Lifecycle,      \* the lifecycle, as a writer of events
    None,
    MaxCrashes,     \* bound on the crashes of the process
    MaxFaults       \* bound on the failing statements of the lifecycle

ASSUME Writers == Lifecycle \notin Prompts /\ None \notin Prompts

VARIABLES
    db,          \* the session row and its events
    tail,        \* eventTails: who waits for or holds the event lock, in order
    request,     \* where each HTTP request is
    runtime,     \* the entry of runtimes
    sandbox,     \* the entry of live, and the lease itself
    lc,          \* the lifecycle: where it is and its local variables
    published,   \* the state in the last session:updated message
    process      \* the process and the bounds on its failures

vars == <<db, tail, request, runtime, sandbox, lc, published, process>>

-----------------------------------------------------------------------------

terminal == {"failed", "cancelled"}
accepting == {"queued", "ready", "running"}
Missing == {"absent", "deleted"}

Outcomes == {"agent.finished", "agent.failed", "agent.cancelled"}
Event(p, type) == [prompt |-> p, type |-> type]

InitialLocals == [pc |-> "none", job |-> None, messages |-> <<>>,
                  seen |-> "absent", next |-> "agent.started",
                  doomed |-> <<>>, failure |-> FALSE, failed |-> FALSE,
                  escaped |-> FALSE]

Init ==
    /\ db = [state |-> "absent", messages |-> <<>>, events |-> <<>>]
    /\ tail = <<>>
    /\ request = [prompt |-> [p \in Prompts |-> "new"],
                  terminate |-> [t \in Terminations |-> "new"],
                  seen |-> [t \in Terminations |-> "absent"],
                  delete |-> "new"]
    /\ runtime = [present |-> FALSE, aborted |-> FALSE, jobs |-> <<>>]
    /\ sandbox = [live |-> "none", lease |-> "none"]
    /\ lc = InitialLocals
    /\ published = "absent"
    /\ process = [status |-> "up", crashes |-> 0, faults |-> 0]

-----------------------------------------------------------------------------
(* Helpers *)

Up == process.status = "up"
Running == process.status \in {"up", "closing"}

At(location) == lc.pc = location /\ Running
Goto(location) == lc' = [lc EXCEPT !.pc = location]

\* The promise nextJob sleeps on resolves on an abort and on wake.
Woken(l) == [l EXCEPT !.pc = IF @ = "asleep" THEN "next" ELSE @]

\* serialized: the operation at the head of the tail runs, the others wait.
\* A writer that is in the tail does not start another operation.
Holds(writer) == tail # <<>> /\ Head(tail) = writer

\* A reply to each request that is under way must precede service.dispose:
\* close awaits server.close, which waits for the open requests.
NoRequestInFlight ==
    /\ \A p \in Prompts : request.prompt[p] \in {"new", "done"}
    /\ \A t \in Terminations : request.terminate[t] \in {"new", "done"}
    /\ request.delete \in {"new", "done"}
    /\ lc.pc # "create"

-----------------------------------------------------------------------------
(* POST /sessions *)

\* The INSERT of store.create.
Create ==
    /\ Up /\ lc.pc = "none" /\ db.state = "absent"
    /\ db' = [db EXCEPT !.state = "queued"]
    /\ Goto("create")
    /\ UNCHANGED <<tail, request, runtime, sandbox, published, process>>

\* The continuation of create: the runtime exists and its lifecycle starts.
Created ==
    /\ At("create")
    /\ runtime' = [runtime EXCEPT !.present = TRUE]
    /\ sandbox' = [sandbox EXCEPT !.live = "pending"]
    /\ Goto("acquire")
    /\ UNCHANGED <<db, tail, request, published, process>>

-----------------------------------------------------------------------------
(* POST /sessions/:id/prompt *)

\* Without a runtime the row only decides between "missing" and "inactive".
RefusePrompt(p) ==
    /\ Up /\ request.prompt[p] = "new" /\ ~runtime.present
    /\ db.state # "absent"
    /\ request' = [request EXCEPT !.prompt[p] = "done"]
    /\ UNCHANGED <<db, tail, runtime, sandbox, lc, published, process>>

\* acceptPrompt queues behind the session's other event writers.
Prompt(p) ==
    /\ Up /\ request.prompt[p] = "new" /\ runtime.present
    /\ request' = [request EXCEPT !.prompt[p] = "waiting"]
    /\ tail' = Append(tail, p)
    /\ UNCHANGED <<db, runtime, sandbox, lc, published, process>>

\* The transaction reads the row; a refusal ends it and frees the lock.
AcceptRead(p) ==
    /\ Up /\ Holds(p) /\ request.prompt[p] = "waiting"
    /\ \/ /\ db.state \in accepting
          /\ request' = [request EXCEPT !.prompt[p] = "approved"]
          /\ UNCHANGED tail
       \/ /\ db.state \notin accepting
          /\ request' = [request EXCEPT !.prompt[p] = "done"]
          /\ tail' = Tail(tail)
    /\ UNCHANGED <<db, runtime, sandbox, lc, published, process>>

\* Bug: the lock is free as soon as the transaction commits.
AcceptCommit_Unlocks(p) ==
    /\ Up /\ Holds(p) /\ request.prompt[p] = "approved"
    /\ db' = [db EXCEPT !.events = Append(@, Event(p, "prompt.accepted"))]
    /\ request' = [request EXCEPT !.prompt[p] = "committed"]
    /\ tail' = Tail(tail)
    /\ UNCHANGED <<runtime, sandbox, lc, published, process>>

\* The transaction writes prompt.accepted and commits.  It does not look at
\* the state again; on a row deleted meanwhile it fails.
AcceptCommit(p) ==
    /\ Up /\ Holds(p) /\ request.prompt[p] = "approved"
    /\ \/ /\ db.state \notin Missing
          /\ db' = [db EXCEPT !.events = Append(@, Event(p, "prompt.accepted"))]
          /\ request' = [request EXCEPT !.prompt[p] = "committed"]
          /\ UNCHANGED tail
       \/ /\ db.state \in Missing
          /\ request' = [request EXCEPT !.prompt[p] = "done"]
          /\ tail' = Tail(tail)
          /\ UNCHANGED db
    /\ UNCHANGED <<runtime, sandbox, lc, published, process>>

\* Bug: the new job does not wake the loop.
AcceptReply_NoWake(p) ==
    /\ Up /\ request.prompt[p] = "committed"
    /\ request' = [request EXCEPT !.prompt[p] = "done"]
    /\ tail' = RemoveFirst(tail, p)
    /\ runtime' = [runtime EXCEPT !.jobs = Append(@, p)]
    /\ UNCHANGED <<db, sandbox, lc, published, process>>

\* The continuation of prompt: the lock is free, the job is queued and the
\* loop woken.  The runtime was looked up before the transaction; if its
\* lifecycle ended meanwhile, nobody will look at the job.
AcceptReply(p) ==
    /\ Up /\ request.prompt[p] = "committed"
    /\ request' = [request EXCEPT !.prompt[p] = "done"]
    /\ tail' = RemoveFirst(tail, p)
    /\ runtime' = [runtime EXCEPT !.jobs = IF runtime.present THEN Append(@, p) ELSE @]
    /\ lc' = Woken(lc)
    /\ UNCHANGED <<db, sandbox, published, process>>

-----------------------------------------------------------------------------
(* POST /sessions/:id/terminate and DELETE /sessions/:id *)

\* requestCancellation reads the row.
TerminateRead(t) ==
    /\ Up /\ request.terminate[t] = "new" /\ db.state # "absent"
    /\ request' = [request EXCEPT
          !.seen[t] = db.state,
          !.terminate[t] = CASE db.state = "deleted" -> "done"
                             [] db.state \in terminal \cup {"cancelling"} -> "replying"
                             [] OTHER -> "writing"]
    /\ UNCHANGED <<db, tail, runtime, sandbox, lc, published, process>>

\* It writes whatever the state is by now; on a deleted row the request fails.
TerminateWrite(t) ==
    /\ Up /\ request.terminate[t] = "writing"
    /\ \/ /\ db.state # "deleted"
          /\ db' = [db EXCEPT !.state = "cancelling"]
          /\ request' = [request EXCEPT !.seen[t] = "cancelling",
                                        !.terminate[t] = "replying"]
       \/ /\ db.state = "deleted"
          /\ request' = [request EXCEPT !.terminate[t] = "done"]
          /\ UNCHANGED db
    /\ UNCHANGED <<tail, runtime, sandbox, lc, published, process>>

\* Bug: the abort does not end the sleep of the loop.
TerminateReply_NoWake(t) ==
    /\ Up /\ request.terminate[t] = "replying"
    /\ request' = [request EXCEPT !.terminate[t] = "done"]
    /\ runtime' = [runtime EXCEPT !.aborted = @ \/ runtime.present]
    /\ published' = request.seen[t]
    /\ UNCHANGED <<db, tail, sandbox, lc, process>>

\* The continuation of terminate: abort, if there is a runtime, and publish.
TerminateReply(t) ==
    /\ Up /\ request.terminate[t] = "replying"
    /\ request' = [request EXCEPT !.terminate[t] = "done"]
    /\ runtime' = [runtime EXCEPT !.aborted = @ \/ runtime.present]
    /\ lc' = IF runtime.present THEN Woken(lc) ELSE lc
    /\ published' = request.seen[t]
    /\ UNCHANGED <<db, tail, sandbox, process>>

DeleteRead ==
    /\ Up /\ request.delete = "new" /\ db.state \in terminal
    /\ request' = [request EXCEPT !.delete = "writing"]
    /\ UNCHANGED <<db, tail, runtime, sandbox, lc, published, process>>

\* The foreign key of the events cascades.
DeleteWrite ==
    /\ Up /\ request.delete = "writing"
    /\ request' = [request EXCEPT !.delete = "done"]
    /\ db' = [state |-> "deleted", messages |-> <<>>, events |-> <<>>]
    /\ UNCHANGED <<tail, runtime, sandbox, lc, published, process>>

-----------------------------------------------------------------------------
(* runLifecycle *)

\* The catch block up to its first append: splice(0) takes the queued jobs.
Catch(l, failed) ==
    /\ lc' = [l EXCEPT !.pc = "cancelJobs", !.failed = failed, !.doomed = runtime.jobs,
                       !.job = None, !.failure = FALSE, !.escaped = FALSE]
    /\ runtime' = [runtime EXCEPT !.jobs = <<>>]

\* The finally block up to the await of release.
Finally(l) ==
    IF sandbox.lease = "none"
    THEN /\ lc' = [l EXCEPT !.pc = "readFinish"]
         /\ UNCHANGED sandbox
    ELSE /\ lc' = [l EXCEPT !.pc = "release"]
         /\ sandbox' = [live |-> "unavailable", lease |-> "releasing"]

\* markReady and markRunning: an update of a row in a given state, then a read
\* of the row.  It exists: nobody deletes it before finish made it terminal.
Mark(from, old, new, to) ==
    /\ At(from)
    /\ db' = [db EXCEPT !.state = IF @ = old THEN new ELSE @]
    /\ Goto(to)
    /\ UNCHANGED <<tail, request, runtime, sandbox, published, process>>

ReadRow(from, to) ==
    /\ At(from)
    /\ lc' = [lc EXCEPT !.pc = to, !.seen = db.state]
    /\ UNCHANGED <<db, tail, request, runtime, sandbox, published, process>>

\* The lifecycle's promise settles: start's finally drops the maps' entries.
\* The controller and its jobs are garbage from here on.
End ==
    /\ lc' = [InitialLocals EXCEPT !.pc = "ended"]
    /\ runtime' = [present |-> FALSE, aborted |-> runtime.aborted, jobs |-> <<>>]
    /\ sandbox' = [sandbox EXCEPT !.live = "none"]

\* The pool grants the lease; an aborted acquisition is no longer queued.
Grant ==
    /\ At("acquire") /\ ~runtime.aborted
    /\ sandbox' = [sandbox EXCEPT !.lease = "held"]
    /\ Goto("granted")
    /\ UNCHANGED <<db, tail, request, runtime, published, process>>

Acquired ==
    /\ At("granted")
    /\ sandbox' = [sandbox EXCEPT !.live = "ready"]
    /\ IF runtime.aborted
       THEN Catch(lc, FALSE)
       ELSE Goto("markReady") /\ UNCHANGED runtime
    /\ UNCHANGED <<db, tail, request, published, process>>

\* acquire rejects: aborted, or the pool's creation attempts are exhausted.
AcquireRejects ==
    /\ At("acquire")
    /\ Catch(lc, ~runtime.aborted)
    /\ UNCHANGED <<db, tail, request, sandbox, published, process>>

MarkReady == Mark("markReady", "queued", "ready", "readReady")
ReadReady == ReadRow("readReady", "publishReady")

PublishReady ==
    /\ At("publishReady")
    /\ published' = lc.seen
    /\ Goto("next")
    /\ UNCHANGED <<db, tail, request, runtime, sandbox, process>>

\* The loop ends without cancelJobs: the jobs still queued are left as they are.
StopLoop ==
    /\ At("next") /\ runtime.aborted
    /\ Finally(lc)
    /\ UNCHANGED <<db, tail, request, runtime, published, process>>

TakeJob ==
    /\ At("next") /\ ~runtime.aborted /\ runtime.jobs # <<>>
    /\ lc' = [lc EXCEPT !.pc = "markRunning", !.job = Head(runtime.jobs)]
    /\ runtime' = [runtime EXCEPT !.jobs = Tail(@)]
    /\ UNCHANGED <<db, tail, request, sandbox, published, process>>

Sleep ==
    /\ At("next") /\ ~runtime.aborted /\ runtime.jobs = <<>>
    /\ Goto("asleep")
    /\ UNCHANGED <<db, tail, request, runtime, sandbox, published, process>>

-----------------------------------------------------------------------------
(* runJob and runDirectPrompt *)

MarkRunning == Mark("markRunning", "ready", "running", "readRunning")
ReadRunning == ReadRow("readRunning", "checkRunning")

StartPrompt ==
    /\ At("checkRunning") /\ lc.seen = "running"
    /\ published' = "running"
    /\ Goto("load")
    /\ UNCHANGED <<db, tail, request, runtime, sandbox, process>>

\* runJob returns and says nothing about the job it was given.
DropJob ==
    /\ At("checkRunning") /\ lc.seen # "running"
    /\ lc' = [lc EXCEPT !.pc = "next", !.job = None]
    /\ UNCHANGED <<db, tail, request, runtime, sandbox, published, process>>

\* The agent starts from the persisted history and adds the prompt to it.
LoadHistory ==
    /\ At("load")
    /\ lc' = [lc EXCEPT !.pc = "execute", !.next = "agent.started",
                        !.messages = Append(db.messages, lc.job)]
    /\ UNCHANGED <<db, tail, request, runtime, sandbox, published, process>>

\* The stream yields an event; the events between the first and the last are
\* left out.
AgentYields ==
    /\ At("execute") /\ lc.next # "agent.failed"
    /\ tail' = Append(tail, Lifecycle)
    /\ Goto("appendAgent")
    /\ UNCHANGED <<db, request, runtime, sandbox, published, process>>

AppendAgent ==
    /\ At("appendAgent") /\ Holds(Lifecycle)
    /\ db' = [db EXCEPT !.events = Append(@, Event(lc.job, lc.next))]
    /\ tail' = Tail(tail)
    /\ lc' = IF lc.next = "agent.started"
             THEN [lc EXCEPT !.pc = "execute", !.next = "agent.finished"]
             ELSE [lc EXCEPT !.pc = "save"]
    /\ UNCHANGED <<request, runtime, sandbox, published, process>>

\* The stream throws: a failing provider or tool, or the abort signal.
AgentThrows ==
    /\ At("execute")
    /\ lc' = [lc EXCEPT !.pc = "save", !.failure = TRUE]
    /\ UNCHANGED <<db, tail, request, runtime, sandbox, published, process>>

\* finishPrompt runs twice for a prompt: runDirectPrompt calls it with the
\* agent's messages, then runJob with the messages it just read.
FinishPromptUpdate(from, to) ==
    /\ At(from)
    /\ db' = IF db.state = "running"
             THEN [db EXCEPT !.state = "ready", !.messages = lc.messages]
             ELSE db
    /\ Goto(to)
    /\ UNCHANGED <<tail, request, runtime, sandbox, published, process>>

\* The row is read, and its messages are written when it is not running.
SavedMessages == IF db.state = "running" THEN db.messages ELSE lc.messages

Save == FinishPromptUpdate("save", "saved")

Saved ==
    /\ At("saved")
    /\ db' = [db EXCEPT !.messages = SavedMessages]
    /\ IF lc.failure
       THEN /\ tail' = Append(tail, Lifecycle)
            /\ lc' = [lc EXCEPT !.pc = "appendOutcome",
                                !.next = IF runtime.aborted THEN "agent.cancelled"
                                                            ELSE "agent.failed"]
       ELSE Goto("find") /\ UNCHANGED tail
    /\ UNCHANGED <<request, runtime, sandbox, published, process>>

\* appendSynthetic in the catch block of runJob.
AppendOutcome ==
    /\ At("appendOutcome") /\ Holds(Lifecycle)
    /\ db' = [db EXCEPT !.events = Append(@, Event(lc.job, lc.next))]
    /\ tail' = Tail(tail)
    /\ Goto("find")
    /\ UNCHANGED <<request, runtime, sandbox, published, process>>

\* Bug: runJob writes back the record it read before the prompt ran.
FindRecord_BeforeExecution ==
    /\ At("find")
    /\ lc' = [lc EXCEPT !.pc = "resave",
                        !.messages = SelectSeq(db.messages, LAMBDA p : p # lc.job)]
    /\ UNCHANGED <<db, tail, request, runtime, sandbox, published, process>>

FindRecord ==
    /\ At("find")
    /\ lc' = [lc EXCEPT !.pc = "resave", !.messages = db.messages]
    /\ UNCHANGED <<db, tail, request, runtime, sandbox, published, process>>

Resave == FinishPromptUpdate("resave", "resaved")

Resaved ==
    /\ At("resaved")
    /\ db' = [db EXCEPT !.messages = SavedMessages]
    /\ lc' = [lc EXCEPT !.pc = "publishPrompt", !.seen = db.state, !.messages = <<>>]
    /\ UNCHANGED <<tail, request, runtime, sandbox, published, process>>

\* An exception out of the outcome's append is on its way when finally ends.
PublishPrompt ==
    /\ At("publishPrompt")
    /\ published' = lc.seen
    /\ IF lc.escaped \/ (runtime.aborted /\ lc.failure)
       THEN Catch(lc, ~runtime.aborted)
       ELSE /\ lc' = [lc EXCEPT !.pc = "next", !.job = None, !.failure = FALSE]
            /\ UNCHANGED runtime
    /\ UNCHANGED <<db, tail, request, sandbox, process>>

-----------------------------------------------------------------------------
(* cancelJobs, the release and finish *)

CancelJob ==
    /\ At("cancelJobs") /\ lc.doomed # <<>>
    /\ tail' = Append(tail, Lifecycle)
    /\ Goto("appendCancel")
    /\ UNCHANGED <<db, request, runtime, sandbox, published, process>>

AppendCancel ==
    /\ At("appendCancel") /\ Holds(Lifecycle)
    /\ db' = [db EXCEPT !.events = Append(@, Event(Head(lc.doomed),
                 IF lc.failed THEN "agent.failed" ELSE "agent.cancelled"))]
    /\ tail' = Tail(tail)
    /\ lc' = [lc EXCEPT !.pc = "cancelJobs", !.doomed = Tail(@)]
    /\ UNCHANGED <<request, runtime, sandbox, published, process>>

JobsCancelled ==
    /\ At("cancelJobs") /\ lc.doomed = <<>>
    /\ Finally(lc)
    /\ UNCHANGED <<db, tail, request, runtime, published, process>>

\* The pool retries a failing disposal for ever, so release never rejects.
\* When cancelJobs threw, the exception goes on and finish is not reached.
Released ==
    /\ At("release")
    /\ IF lc.escaped
       THEN /\ lc' = [InitialLocals EXCEPT !.pc = "ended"]
            /\ runtime' = [runtime EXCEPT !.present = FALSE, !.jobs = <<>>]
            /\ sandbox' = [live |-> "none", lease |-> "none"]
       ELSE /\ Goto("readFinish")
            /\ sandbox' = [sandbox EXCEPT !.lease = "none"]
            /\ UNCHANGED runtime
    /\ UNCHANGED <<db, tail, request, published, process>>

ReadFinish ==
    /\ At("readFinish")
    /\ lc' = [lc EXCEPT !.pc = IF db.state \in terminal THEN "publishFinish" ELSE "writeFinish",
                        !.seen = db.state]
    /\ UNCHANGED <<db, tail, request, runtime, sandbox, published, process>>

\* A session that was cancelling when it was read ends cancelled.
WriteFinish ==
    /\ At("writeFinish")
    /\ LET state == IF lc.seen # "cancelling" /\ lc.failed THEN "failed" ELSE "cancelled"
       IN  /\ db' = [db EXCEPT !.state = state]
           /\ lc' = [lc EXCEPT !.pc = "publishFinish", !.seen = state]
    /\ UNCHANGED <<tail, request, runtime, sandbox, published, process>>

PublishFinish ==
    /\ At("publishFinish")
    /\ published' = lc.seen
    /\ End
    /\ UNCHANGED <<db, tail, request, process>>

-----------------------------------------------------------------------------
(* A statement of the lifecycle fails *)

Fault(location) ==
    /\ At(location) /\ process.faults < MaxFaults
    /\ process' = [process EXCEPT !.faults = @ + 1]

\* An operation that fails frees the event lock (finally of serialized).
Unlocked == RemoveFirst(tail, Lifecycle)

\* markReady, markRunning, and what runJob's finally awaits, throw into the
\* catch block of runLifecycle.
StoreFailsInLoop ==
    /\ \E location \in {"markReady", "readReady", "markRunning", "readRunning",
                        "find", "resave", "resaved"} : Fault(location)
    /\ Catch(lc, ~runtime.aborted)
    /\ UNCHANGED <<db, tail, request, sandbox, published>>

\* store.find and appendEvent throw out of runDirectPrompt: before its try
\* block straight to runJob's catch, inside it through finishPrompt.
StoreFailsInPrompt ==
    /\ \/ /\ Fault("load") \/ Fault("save") \/ Fault("saved")
          /\ tail' = Append(tail, Lifecycle)
          /\ lc' = [lc EXCEPT !.pc = "appendOutcome", !.failure = TRUE,
                              !.next = IF runtime.aborted THEN "agent.cancelled"
                                                          ELSE "agent.failed"]
       \/ /\ Fault("appendAgent") /\ Holds(Lifecycle)
          /\ tail' = Unlocked
          /\ lc' = [lc EXCEPT !.pc = "save", !.failure = TRUE]
    /\ UNCHANGED <<db, request, runtime, sandbox, published>>

\* Out of runJob's catch block the exception escapes, after its finally.
StoreFailsInOutcome ==
    /\ Fault("appendOutcome") /\ Holds(Lifecycle)
    /\ tail' = Unlocked
    /\ lc' = [lc EXCEPT !.pc = "find", !.escaped = TRUE]
    /\ UNCHANGED <<db, request, runtime, sandbox, published>>

\* Bug: an exception in the catch block skips the release.
StoreFailsInCancel_NoFinally ==
    /\ Fault("appendCancel") /\ Holds(Lifecycle)
    /\ tail' = Unlocked
    /\ End
    /\ UNCHANGED <<db, request, published>>

\* Out of cancelJobs the exception passes finally and ends the lifecycle.
StoreFailsInCancel ==
    /\ Fault("appendCancel") /\ Holds(Lifecycle)
    /\ tail' = Unlocked
    /\ IF sandbox.lease = "none"
       THEN End
       ELSE Finally([lc EXCEPT !.escaped = TRUE]) /\ UNCHANGED runtime
    /\ UNCHANGED <<db, request, published>>

StoreFailsInFinish ==
    /\ Fault("readFinish") \/ Fault("writeFinish")
    /\ End
    /\ UNCHANGED <<db, tail, request, published>>

-----------------------------------------------------------------------------
(* The process: close, a crash, and the start of the next one *)

\* close: no request is open any more and none will come; dispose aborts.
Dispose ==
    /\ Up /\ NoRequestInFlight
    /\ process' = [process EXCEPT !.status = "closing"]
    /\ runtime' = [runtime EXCEPT !.aborted = @ \/ runtime.present]
    /\ lc' = Woken(lc)
    /\ UNCHANGED <<db, tail, request, sandbox, published>>

\* dispose has awaited every lifecycle.
Exit ==
    /\ process.status = "closing" /\ lc.pc \in {"none", "ended"}
    /\ process' = [process EXCEPT !.status = "down"]
    /\ runtime' = [present |-> FALSE, aborted |-> FALSE, jobs |-> <<>>]
    /\ UNCHANGED <<db, tail, request, sandbox, lc, published>>

\* What only the process knew is gone; the clients' requests fail.
Crash ==
    /\ Running /\ process.crashes < MaxCrashes
    /\ process' = [process EXCEPT !.status = "down", !.crashes = @ + 1]
    /\ tail' = <<>>
    /\ request' = [request EXCEPT
          !.prompt = [p \in Prompts |-> IF @[p] = "new" THEN "new" ELSE "done"],
          !.terminate = [t \in Terminations |-> IF @[t] = "new" THEN "new" ELSE "done"],
          !.delete = IF @ = "new" THEN "new" ELSE "done"]
    /\ runtime' = [present |-> FALSE, aborted |-> FALSE, jobs |-> <<>>]
    /\ sandbox' = [live |-> "none", lease |-> "none"]
    /\ lc' = [InitialLocals EXCEPT !.pc = IF lc.pc = "none" THEN "none" ELSE "ended"]
    /\ UNCHANGED <<db, published>>

\* Bug: only the sessions a prompt was running in are reconciled.
Restart_ReconcilesRunning ==
    /\ process.status = "down"
    /\ process' = [process EXCEPT !.status = "up"]
    /\ db' = [db EXCEPT !.state = IF @ = "running" THEN "failed" ELSE @]
    /\ UNCHANGED <<tail, request, runtime, sandbox, lc, published>>

\* main: reconcile fails every session that is not terminal, then listens.
\* Clients that connect again receive a snapshot of the row.
Restart ==
    /\ process.status = "down"
    /\ process' = [process EXCEPT !.status = "up"]
    /\ db' = [db EXCEPT !.state = IF @ \in terminal \cup Missing THEN @ ELSE "failed"]
    /\ published' = db'.state
    /\ UNCHANGED <<tail, request, runtime, sandbox, lc>>

-----------------------------------------------------------------------------

Requests ==
    \/ \E p \in Prompts : RefusePrompt(p) \/ Prompt(p) \/ AcceptRead(p)
                             \/ AcceptCommit(p) \/ AcceptReply(p)
    \/ \E t \in Terminations : TerminateRead(t) \/ TerminateWrite(t) \/ TerminateReply(t)
    \/ DeleteRead \/ DeleteWrite

\* Steps of the lifecycle that the code takes by itself.
LifecycleSteps ==
    \/ Created \/ Acquired \/ (runtime.aborted /\ AcquireRejects)
    \/ MarkReady \/ ReadReady \/ PublishReady \/ StopLoop \/ TakeJob \/ Sleep
    \/ MarkRunning \/ ReadRunning \/ StartPrompt \/ DropJob \/ LoadHistory
    \/ AgentYields \/ AppendAgent \/ AgentThrows \/ Save \/ Saved \/ AppendOutcome
    \/ FindRecord \/ Resave \/ Resaved \/ PublishPrompt
    \/ CancelJob \/ AppendCancel \/ JobsCancelled \/ Released
    \/ ReadFinish \/ WriteFinish \/ PublishFinish

StoreFails ==
    \/ StoreFailsInLoop \/ StoreFailsInPrompt \/ StoreFailsInOutcome
    \/ StoreFailsInCancel \/ StoreFailsInFinish

Next ==
    \/ Create \/ Requests \/ Grant \/ AcquireRejects \/ LifecycleSteps \/ StoreFails
    \/ Dispose \/ Exit \/ Crash \/ Restart

Spec == Init /\ [][Next]_vars

\* Statements return, providers and tools answer or throw, and the pool
\* releases (CallsSettle of Sandpool).  Nothing makes clients send
\* requests, and a full pool may keep an acquisition waiting for ever.
FairSpec ==
    /\ Spec
    /\ WF_vars(LifecycleSteps)
    /\ \A p \in Prompts :
          /\ WF_vars(AcceptRead(p) \/ AcceptCommit(p) \/ AcceptReply(p))
    /\ \A t \in Terminations : WF_vars(TerminateWrite(t) \/ TerminateReply(t))
    /\ WF_vars(DeleteWrite)
    /\ WF_vars(Exit)

-----------------------------------------------------------------------------
(* Properties *)

EventOf(i) == db.events[i]
Positions(type) == {i \in DOMAIN db.events : EventOf(i).type = type}

\* Prompts run one at a time and in the order in which they were accepted:
\* an event of a later prompt never precedes one of an earlier prompt.
PromptsRunInOrder ==
    \A i, j \in Positions("prompt.accepted") :
        i < j => \A k, l \in DOMAIN db.events \ Positions("prompt.accepted") :
                    EventOf(k).prompt = EventOf(i).prompt
                      /\ EventOf(l).prompt = EventOf(j).prompt => k < l

\* Every event belongs to a prompt accepted before it, and nothing follows an
\* outcome: after agent.finished a failed save may still report a failure.
OutcomesAreFinal ==
    \A i \in DOMAIN db.events :
        /\ \E j \in Positions("prompt.accepted") : j <= i /\ EventOf(j).prompt = EventOf(i).prompt
        /\ EventOf(i).type \in Outcomes =>
              \A j \in DOMAIN db.events :
                 i < j /\ EventOf(j).prompt = EventOf(i).prompt =>
                    /\ EventOf(i).type = "agent.finished" /\ process.faults > 0
                    /\ EventOf(j).type \in {"agent.failed", "agent.cancelled"}

\* The lifecycle goes on to the next prompt only when the history holds what
\* the agent finished before, although each prompt writes it twice, from
\* records read at different times, unless the store failed.
FinishedPromptsAreKept ==
    lc.pc \in {"next", "asleep", "load", "execute"} /\ process.faults = 0 =>
        \A i \in Positions("agent.finished") :
            EventOf(i).prompt = lc.job \/ db.state = "deleted" \/ Contains(db.messages, EventOf(i).prompt)

\* The stored events and messages of a session tell one history.
HistoryIsConsistent == PromptsRunInOrder /\ OutcomesAreFinal /\ FinishedPromptsAreKept

\* SSH access and the execution of prompts stay within the lease.  A
\* lifecycle that is over holds no lease, whatever failed on the way, and
\* neither does a session that reads as terminal.
LeaseCoversUse ==
    /\ sandbox.live = "ready" \/ lc.pc \in {"load", "execute", "appendAgent"}
         => sandbox.lease = "held"
    /\ lc.pc = "ended" => sandbox.lease = "none"
    /\ db.state \in terminal => sandbox.lease = "none" \/ process.status = "down"

\* A session that reads as queued, ready or running is served by a lifecycle,
\* unless the store failed it; a restart leaves no such session behind.
ActiveSessionsAreServed ==
    Up /\ db.state \in accepting /\ process.faults = 0
        => runtime.present \/ lc.pc = "create"

\* A prompt accepted by a session that has its sandbox gets an outcome,
\* unless the session is terminated, the store fails it or the process crashes.
PromptsAreServed ==
    \A p \in Prompts :
        (\E i \in DOMAIN db.events : EventOf(i) = Event(p, "prompt.accepted"))
            /\ sandbox.live = "ready"
        ~> \/ \E i \in DOMAIN db.events : EventOf(i).prompt = p /\ EventOf(i).type \in Outcomes
           \/ runtime.aborted \/ db.state = "cancelling"
           \/ process.faults > 0 \/ process.crashes > 0

\* An aborted session gives its sandbox back, and so a shutdown that closed
\* the listener comes to its end.
AbortedSessionsEnd ==
    /\ runtime.present /\ runtime.aborted ~> ~runtime.present /\ sandbox.lease = "none"
    /\ process.status = "closing" ~> process.status = "down"

-----------------------------------------------------------------------------
(* What the documentation says and the code does not do *)

\* README: termination takes an active session through cancelling to
\* cancelled; an aborted lifecycle is what brings it there.
CancellationCompletes ==
    runtime.aborted /\ db.state = "cancelling"
        ~> db.state # "cancelling" \/ process.status # "up"

\* Test: termination cancels the active prompt and every queued prompt; so
\* what is queued behind a prompt when the session is aborted gets an outcome.
QueuedPromptsAreCancelled ==
    \A p \in Prompts :
        runtime.aborted /\ lc.job # None /\ Contains(runtime.jobs, p)
        ~> \/ \E i \in DOMAIN db.events : EventOf(i).prompt = p /\ EventOf(i).type \in Outcomes
           \/ db.state = "deleted"
=============================================================================
