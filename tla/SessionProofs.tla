--------------------------- MODULE SessionProofs ---------------------------
(***************************************************************************)
(* What holds of a session for every number of requests, crashes and       *)
(* failing statements.                                                     *)
(*                                                                         *)
(* Base says where the lifecycle can be while it has its lease, its entry  *)
(* in runtimes and the row, and so that its lease covers what it does.     *)
(* Order follows a prompt from the acceptance of its request through the   *)
(* queue to its events: acceptance orders the queue because a commit holds *)
(* the event lock until its prompt is queued, and work on a prompt comes   *)
(* before everything that is still queued.  Kept says which of the two     *)
(* copies of the history holds what the agent finished.                    *)
(***************************************************************************)
EXTENDS SessionService, CommunityLemmas, TLAPS

States == {"absent", "deleted", "queued", "ready", "running", "cancelling", "failed", "cancelled"}
Types == Outcomes \cup {"prompt.accepted", "agent.started"}
Events == [prompt : Prompts, type : Types]
Rows == [state : States, messages : Seq(Prompts), events : Seq(Events)]
RequestMaps == [prompt : [Prompts -> {"new", "waiting", "approved", "committed", "done"}],
                terminate : [Terminations -> {"new", "writing", "replying", "done"}],
                seen : [Terminations -> States],
                delete : {"new", "writing", "done"}]
Runtimes == [present : BOOLEAN, aborted : BOOLEAN, jobs : Seq(Prompts)]
Sandboxes == [live : {"none", "pending", "ready", "unavailable"},
              lease : {"none", "held", "releasing"}]
Processes == [status : {"up", "closing", "down"}, crashes : Nat, faults : Nat]

\* Where the lifecycle has a prompt in hand.
InPrompt == {"markRunning", "readRunning", "checkRunning", "load", "execute", "appendAgent", "save",
             "saved", "appendOutcome", "find", "resave", "resaved", "publishPrompt"}
\* Where it has its sandbox.
Leased == {"granted", "markReady", "readReady", "publishReady", "next", "asleep"} \cup InPrompt
Unleased == {"none", "create", "acquire", "readFinish", "writeFinish", "publishFinish", "ended"}
Cancelling == {"cancelJobs", "appendCancel"}
\* Where nothing of it is left to do but to say that it is over.
Over == {"publishFinish", "ended"}
Fields == {"pc", "job", "messages", "seen", "next", "doomed", "failure", "failed", "escaped"}

LocalsTyped ==
    /\ DOMAIN lc = Fields
    /\ lc.pc \in Leased \cup Unleased \cup Cancelling \cup {"release"}
    /\ lc.job \in IF lc.pc \in InPrompt THEN Prompts ELSE {None}
    /\ lc.messages \in Seq(Prompts)
    /\ lc.next \in Types
    /\ lc.pc \in {"execute", "appendAgent"} => lc.next \in {"agent.started", "agent.finished"}
    /\ lc.pc = "appendOutcome" => lc.next \in {"agent.cancelled", "agent.failed"}
    /\ lc.doomed \in Seq(Prompts)
    /\ lc.failure \in BOOLEAN /\ lc.failed \in BOOLEAN /\ lc.escaped \in BOOLEAN
    /\ lc.seen \in States

TypeOK ==
    /\ db \in Rows
    /\ tail \in Seq(Prompts \cup {Lifecycle})
    /\ request \in RequestMaps
    /\ runtime \in Runtimes
    /\ sandbox \in Sandboxes
    /\ process \in Processes
    /\ LocalsTyped

Control ==
    /\ runtime.present <=> lc.pc \notin {"none", "create", "ended"}
    /\ lc.pc = "none" => db.state = "absent"
    /\ \A t \in Terminations : request.terminate[t] = "writing" => lc.pc # "none"
    /\ process.status = "down" => lc.pc \in {"none", "ended"}
    /\ db.state \in terminal \cup {"deleted"} \/ request.delete # "new" => lc.pc \in Over
    /\ lc.pc = "publishFinish" => db.state \notin accepting
    /\ lc.pc = "ended" /\ process.status # "down" /\ process.faults = 0 => db.state \notin accepting
    /\ lc.escaped => process.faults > 0
    /\ lc.failure => lc.pc \in InPrompt \ {"markRunning", "readRunning", "checkRunning", "load",
                                           "execute", "appendAgent"}
    /\ lc.doomed # <<>> => lc.pc \in Cancelling \/ (lc.pc = "release" /\ lc.escaped)
    /\ lc.pc = "appendCancel" => lc.doomed # <<>>

Lease ==
    /\ lc.pc \in Leased => sandbox.lease = "held"
    /\ lc.pc \in Unleased => sandbox.lease = "none"
    /\ lc.pc \in Cancelling => sandbox.lease # "releasing"
    /\ lc.pc = "release" => sandbox.lease = "releasing"
    /\ sandbox.live = "ready" => sandbox.lease = "held"

Base == TypeOK /\ Control /\ Lease

-----------------------------------------------------------------------------
(* The control of the lifecycle and its lease *)

\* What taking the first and adding a last do to a queue.
LEMMA Queues ==
    ASSUME NEW S, NEW s \in Seq(S)
    PROVE  /\ s # <<>> => Head(s) \in S /\ Tail(s) \in Seq(S)
           /\ \A x \in S : Append(s, x) \in Seq(S)
BY SMT

\* serialized and its finally block leave a queue of writers.
LEMMA LockQueue ==
    ASSUME TypeOK
    PROVE  /\ tail # <<>> => Tail(tail) \in Seq(Prompts \cup {Lifecycle})
           /\ \A w \in Prompts \cup {Lifecycle} : Append(tail, w) \in Seq(Prompts \cup {Lifecycle})
           /\ \A w : RemoveFirst(tail, w) \in Seq(Prompts \cup {Lifecycle})
BY Queues, RemoveFirstProperties DEF TypeOK

\* An event of a prompt is stored.
LEMMA Stored ==
    ASSUME TypeOK, NEW p \in Prompts, NEW type \in Types,
           db' = [db EXCEPT !.events = Append(@, Event(p, type))]
    PROVE  /\ db' \in Rows /\ db'.state = db.state /\ db'.messages = db.messages
           /\ db'.events = Append(db.events, Event(p, type))
<1>1. Event(p, type) \in Events
    BY DEF Event, Events
<1>2. Append(db.events, Event(p, type)) \in Seq(Events)
    BY <1>1, Queues DEF TypeOK, Rows
<1> QED
    BY <1>2 DEF TypeOK, Rows

\* What a request may change leaves the lifecycle where it is, asleep or not.
LEMMA RequestsKeepBase ==
    ASSUME Base, db' \in Rows, db'.state = db.state,
           tail' \in Seq(Prompts \cup {Lifecycle}), request' \in RequestMaps,
           \A t \in Terminations : request'.terminate[t] = "writing" =>
              request.terminate[t] = "writing" \/ lc.pc # "none",
           request'.delete # "new" => request.delete # "new" \/ lc.pc \in Over,
           runtime' \in Runtimes, runtime'.present = runtime.present,
           sandbox' = sandbox, process' = process, lc' = lc \/ lc' = Woken(lc)
    PROVE  Base'
<1>1. CASE lc' = lc
    BY <1>1 DEF Base, TypeOK, LocalsTyped, Control, Lease
<1>2. CASE lc' = Woken(lc)
    <2>1. /\ DOMAIN lc' = Fields /\ lc'.job = lc.job
          /\ lc'.messages = lc.messages /\ lc'.next = lc.next /\ lc'.doomed = lc.doomed
          /\ lc'.failure = lc.failure /\ lc'.failed = lc.failed /\ lc'.escaped = lc.escaped
          /\ lc'.seen = lc.seen
          /\ lc'.pc = lc.pc \/ (lc.pc = "asleep" /\ lc'.pc = "next")
        <3>1. lc' = [lc EXCEPT !.pc = IF lc.pc = "asleep" THEN "next" ELSE lc.pc]
            BY <1>2 DEF Woken
        <3>2. "pc" \in DOMAIN lc /\ DOMAIN lc = Fields
            BY DEF Base, TypeOK, LocalsTyped, Fields
        <3>3. lc'.pc = IF lc.pc = "asleep" THEN "next" ELSE lc.pc
            BY <3>1, <3>2
        <3> QED
            BY <3>1, <3>2, <3>3 DEF Fields
    <2>2. TypeOK'
        BY <2>1 DEF Base, TypeOK, LocalsTyped, Leased, InPrompt
    <2>3. Control'
        BY <2>1 DEF Base, Control, InPrompt, Cancelling, Over
    <2>4. Lease'
        BY <2>1 DEF Base, Lease, Leased, InPrompt, Unleased, Cancelling
    <2> QED
        BY <2>2, <2>3, <2>4 DEF Base
<1> QED
    BY <1>1, <1>2

\* The stage of a prompt request.
LEMMA StageMoves ==
    ASSUME TypeOK, NEW p \in Prompts,
           NEW stage \in {"new", "waiting", "approved", "committed", "done"},
           request' = [request EXCEPT !.prompt[p] = stage]
    PROVE  /\ request' \in RequestMaps
           /\ request'.terminate = request.terminate /\ request'.delete = request.delete
           /\ request'.prompt = [request.prompt EXCEPT ![p] = stage]
BY DEF TypeOK, RequestMaps

\* The handlers of POST /sessions/:id/prompt.
LEMMA PromptsKeepBase ==
    ASSUME Base, NEW p \in Prompts,
           RefusePrompt(p) \/ Prompt(p) \/ AcceptRead(p) \/ AcceptCommit(p) \/ AcceptReply(p)
    PROVE  Base'
<1>0. TypeOK
    BY DEF Base
<1>a. PICK stage \in {"waiting", "approved", "committed", "done"} :
          request' = [request EXCEPT !.prompt[p] = stage]
    BY DEF RefusePrompt, Prompt, AcceptRead, AcceptCommit, AcceptReply
<1>b. /\ request' \in RequestMaps
      /\ request'.terminate = request.terminate /\ request'.delete = request.delete
    BY <1>0, <1>a, StageMoves
<1>c. tail' \in Seq(Prompts \cup {Lifecycle})
    BY <1>0, LockQueue DEF RefusePrompt, Prompt, AcceptRead, AcceptCommit, AcceptReply, Holds,
       TypeOK
<1>d. db' \in Rows /\ db'.state = db.state
    BY <1>0, Stored DEF RefusePrompt, Prompt, AcceptRead, AcceptCommit, AcceptReply, TypeOK, Types
<1>e. runtime' \in Runtimes /\ runtime'.present = runtime.present
    <2>1. CASE AcceptReply(p)
        <3>1. runtime' = [runtime EXCEPT !.jobs = IF runtime.present THEN Append(@, p) ELSE @]
            BY <2>1 DEF AcceptReply
        <3>2. Append(runtime.jobs, p) \in Seq(Prompts)
            BY <1>0, Queues DEF TypeOK, Runtimes
        <3> QED
            BY <1>0, <3>1, <3>2 DEF TypeOK, Runtimes
    <2>2. CASE ~AcceptReply(p)
        BY <1>0, <2>2 DEF RefusePrompt, Prompt, AcceptRead, AcceptCommit, TypeOK
    <2> QED
        BY <2>1, <2>2
<1>f. sandbox' = sandbox /\ process' = process /\ (lc' = lc \/ lc' = Woken(lc))
    BY DEF RefusePrompt, Prompt, AcceptRead, AcceptCommit, AcceptReply
<1> QED
    BY <1>b, <1>c, <1>d, <1>e, <1>f, RequestsKeepBase

\* A terminate request writes only what it has read of a session, which exists then.
LEMMA TerminationsKeepBase ==
    ASSUME Base, NEW t \in Terminations, TerminateRead(t) \/ TerminateWrite(t) \/ TerminateReply(t)
    PROVE  Base'
<1>0. TypeOK
    BY DEF Base
<1>1. CASE TerminateRead(t)
    <2> DEFINE stage == CASE db.state = "deleted" -> "done"
                          [] db.state \in terminal \cup {"cancelling"} -> "replying"
                          [] OTHER -> "writing"
    <2>1. request' = [request EXCEPT !.seen[t] = db.state, !.terminate[t] = stage]
        BY <1>1 DEF TerminateRead
    <2>2. stage \in {"writing", "replying", "done"} /\ db.state \in States
        BY <1>0 DEF TypeOK, Rows
    <2> HIDE DEF stage
    <2>3. /\ request' \in RequestMaps /\ request'.delete = request.delete
          /\ request'.terminate = [request.terminate EXCEPT ![t] = stage]
        BY <1>0, <2>1, <2>2 DEF TypeOK, RequestMaps
    <2>4. lc.pc # "none"
        BY <1>1 DEF TerminateRead, Base, Control
    <2>5. \A u \in Terminations : request'.terminate[u] = "writing" =>
              request.terminate[u] = "writing" \/ lc.pc # "none"
        BY <2>4
    <2>6. /\ db' = db /\ tail' = tail /\ runtime' = runtime /\ sandbox' = sandbox
          /\ lc' = lc /\ process' = process
        BY <1>1 DEF TerminateRead
    <2>7. db' \in Rows /\ tail' \in Seq(Prompts \cup {Lifecycle}) /\ runtime' \in Runtimes
        BY <1>0, <2>6 DEF TypeOK
    <2> QED
        BY <2>3, <2>5, <2>6, <2>7, RequestsKeepBase
<1>2. CASE TerminateReply(t)
    <2>1. /\ request' \in RequestMaps /\ request'.delete = request.delete
          /\ request'.terminate = [request.terminate EXCEPT ![t] = "done"]
        BY <1>0, <1>2 DEF TypeOK, RequestMaps, TerminateReply
    <2>2. \A u \in Terminations : request'.terminate[u] = "writing" =>
              request.terminate[u] = "writing"
        BY <1>0, <2>1 DEF TypeOK, RequestMaps
    <2>3. /\ db' = db /\ tail' = tail /\ sandbox' = sandbox /\ process' = process
          /\ lc' = lc \/ lc' = Woken(lc)
          /\ runtime' = [runtime EXCEPT !.aborted = @ \/ runtime.present]
        BY <1>2 DEF TerminateReply
    <2>4. runtime' \in Runtimes /\ runtime'.present = runtime.present
        BY <1>0, <2>3 DEF TypeOK, Runtimes
    <2>5. db' \in Rows /\ tail' \in Seq(Prompts \cup {Lifecycle}) /\ db'.state = db.state
        BY <1>0, <2>3 DEF TypeOK
    <2> QED
        BY <2>1, <2>2, <2>3, <2>4, <2>5, RequestsKeepBase
<1>3. CASE TerminateWrite(t)
    <2>1. request.terminate[t] = "writing" /\ lc.pc # "none"
        BY <1>3 DEF TerminateWrite, Base, Control
    <2>2. PICK stage \in {"replying", "done"} :
              /\ request'.terminate = [request.terminate EXCEPT ![t] = stage]
              /\ request' \in RequestMaps /\ request'.delete = request.delete
        <3>1. CASE db.state = "deleted"
            BY <1>0, <1>3, <3>1 DEF TerminateWrite, TypeOK, RequestMaps
        <3>2. CASE db.state # "deleted"
            <4>1. request' = [request EXCEPT !.seen[t] = "cancelling", !.terminate[t] = "replying"]
                BY <1>3, <3>2 DEF TerminateWrite
            <4> QED
                BY <1>0, <4>1 DEF TypeOK, RequestMaps, States
        <3> QED
            BY <3>1, <3>2
    <2>3. /\ tail' = tail /\ runtime' = runtime /\ sandbox' = sandbox /\ lc' = lc
          /\ process' = process
        BY <1>3 DEF TerminateWrite
    <2>4. /\ db' \in Rows
          /\ db'.state = db.state \/ db'.state = "cancelling"
        BY <1>0, <1>3 DEF TerminateWrite, TypeOK, Rows, States
    <2>5. TypeOK'
        BY <1>0, <2>2, <2>3, <2>4 DEF TypeOK, LocalsTyped
    <2>6. Control'
        BY <2>1, <2>2, <2>3, <2>4 DEF Base, Control, terminal, accepting
    <2>7. Lease'
        BY <2>3 DEF Base, Lease
    <2> QED
        BY <2>5, <2>6, <2>7 DEF Base
<1> QED
    BY <1>1, <1>2, <1>3

\* A session is only deleted when its lifecycle has nothing left to write.
LEMMA DeletionKeepsBase ==
    ASSUME Base, DeleteRead \/ DeleteWrite
    PROVE  Base'
<1>0. TypeOK
    BY DEF Base
<1>1. CASE DeleteRead
    <2>1. request' \in RequestMaps /\ request'.terminate = request.terminate
        BY <1>0, <1>1 DEF DeleteRead, TypeOK, RequestMaps
    <2>2. lc.pc \in Over
        BY <1>1 DEF DeleteRead, Base, Control
    <2> QED
        BY <1>0, <1>1, <2>1, <2>2, RequestsKeepBase DEF DeleteRead, TypeOK
<1>2. CASE DeleteWrite
    <2>1. lc.pc \in Over
        BY <1>2 DEF DeleteWrite, Base, Control
    <2>2. request' \in RequestMaps /\ request'.terminate = request.terminate
        BY <1>0, <1>2 DEF DeleteWrite, TypeOK, RequestMaps
    <2>3. /\ tail' = tail /\ runtime' = runtime /\ sandbox' = sandbox /\ lc' = lc
          /\ process' = process
          /\ db' = [state |-> "deleted", messages |-> <<>>, events |-> <<>>]
        BY <1>2 DEF DeleteWrite
    <2>4. db' \in Rows
        BY <2>3 DEF Rows, States
    <2>5. TypeOK'
        BY <1>0, <2>2, <2>3, <2>4 DEF TypeOK, LocalsTyped
    <2>6. Control'
        BY <2>1, <2>2, <2>3 DEF Base, Control, accepting, Over
    <2>7. Lease'
        BY <2>3 DEF Base, Lease
    <2> QED
        BY <2>5, <2>6, <2>7 DEF Base
<1> QED
    BY <1>1, <1>2

\* A statement that fails counts, and changes nothing else of the process.
Faulted ==
    /\ process' \in Processes /\ process'.status = process.status
    /\ process'.faults > 0

\* A fault is counted.
LEMMA FaultsCount ==
    ASSUME TypeOK, process' = [process EXCEPT !.faults = @ + 1]
    PROVE  Faulted
BY DEF TypeOK, Processes, Faulted

\* The catch block of runLifecycle, from the acquisition or the loop.
LEMMA CatchKeepsBase ==
    ASSUME Base, NEW failed \in BOOLEAN, Catch(lc, failed), lc.pc \in Leased \cup {"acquire"},
           db' = db, tail' = tail, request' = request, process' = process \/ Faulted,
           sandbox' \in Sandboxes, sandbox'.lease # "releasing",
           sandbox'.live = "ready" => sandbox'.lease = "held"
    PROVE  Base'
<1>0. TypeOK
    BY DEF Base
<1>1. /\ DOMAIN lc' = Fields /\ lc'.pc = "cancelJobs" /\ lc'.job = None /\ lc'.failure = FALSE
      /\ lc'.escaped = FALSE /\ lc'.failed = failed /\ lc'.doomed = runtime.jobs
      /\ lc'.messages = lc.messages /\ lc'.next = lc.next /\ lc'.seen = lc.seen
    BY <1>0 DEF Catch, TypeOK, LocalsTyped, Fields
<1>2. runtime' \in Runtimes /\ runtime'.present = runtime.present
    <2>1. runtime' = [runtime EXCEPT !.jobs = <<>>] /\ <<>> \in Seq(Prompts)
        BY DEF Catch
    <2> QED
        BY <1>0, <2>1 DEF TypeOK, Runtimes
<1>3. process' \in Processes /\ process'.status = process.status
    BY <1>0 DEF TypeOK, Faulted
<1>4. TypeOK'
    BY <1>0, <1>1, <1>2, <1>3 DEF TypeOK, LocalsTyped, Cancelling, InPrompt, Runtimes
<1>5. Control'
    BY <1>1, <1>2, <1>3 DEF Base, Control, Leased, InPrompt, Over, Cancelling
<1>6. Lease'
    BY <1>1 DEF Lease, Leased, Unleased, InPrompt, Cancelling
<1> QED
    BY <1>4, <1>5, <1>6 DEF Base

\* The finally block of runLifecycle, from the loop or the catch block.
LEMMA FinallyKeepsBase ==
    ASSUME Base, NEW l, Finally(l), lc.pc \in Cancelling \cup {"next"},
           DOMAIN l = Fields,
           l.job = lc.job, l.messages = lc.messages, l.next = lc.next, l.doomed = lc.doomed,
           l.failure = lc.failure, l.failed = lc.failed, l.seen = lc.seen,
           l.escaped \in BOOLEAN, l.escaped => process'.faults > 0,
           l.doomed # <<>> => l.escaped /\ sandbox.lease # "none",
           db' = db, tail' \in Seq(Prompts \cup {Lifecycle}), request' = request,
           runtime' = runtime, process' = process \/ Faulted
    PROVE  Base'
<1>0. TypeOK
    BY DEF Base
<1>1. /\ DOMAIN lc' = Fields
      /\ lc'.pc = IF sandbox.lease = "none" THEN "readFinish" ELSE "release"
      /\ lc'.job = lc.job
      /\ lc'.messages = lc.messages /\ lc'.next = lc.next /\ lc'.doomed = l.doomed
      /\ lc'.failure = lc.failure /\ lc'.failed = lc.failed /\ lc'.escaped = l.escaped
      /\ lc'.seen = lc.seen
    BY DEF Finally, Fields
<1>2. /\ sandbox' \in Sandboxes
      /\ sandbox.lease = "none" => sandbox' = sandbox
      /\ sandbox.lease # "none" => sandbox'.live # "ready" /\ sandbox'.lease = "releasing"
    BY <1>0 DEF Finally, TypeOK, Sandboxes
<1>3. process' \in Processes /\ process'.status = process.status
    BY <1>0 DEF TypeOK, Faulted
<1>4. TypeOK'
    BY <1>0, <1>1, <1>2, <1>3 DEF TypeOK, LocalsTyped, Unleased, Cancelling, InPrompt
<1>5. Control'
    BY <1>1, <1>2, <1>3 DEF Base, Control, Leased, InPrompt, Over, Cancelling
<1>6. Lease'
    BY <1>1, <1>2 DEF Base, Lease, Leased, Unleased, InPrompt, Cancelling
<1> QED
    BY <1>4, <1>5, <1>6 DEF Base

\* The lifecycle ends without a lease, at the end of finish or out of a failure.
LEMMA EndKeepsBase ==
    ASSUME Base, End, sandbox.lease = "none",
           lc.pc \in Cancelling \cup {"readFinish", "writeFinish", "publishFinish"},
           db' = db, tail' \in Seq(Prompts \cup {Lifecycle}), request' = request,
           process' = process \/ Faulted, Faulted \/ lc.pc = "publishFinish"
    PROVE  Base'
<1>0. TypeOK
    BY DEF Base
<1>1. /\ DOMAIN lc' = Fields /\ lc'.pc = "ended" /\ lc'.job = None /\ lc'.failure = FALSE
      /\ lc'.escaped = FALSE /\ lc'.failed = FALSE /\ lc'.doomed = <<>>
      /\ lc'.messages = <<>> /\ lc'.next = "agent.started" /\ lc'.seen = "absent"
    BY DEF End, InitialLocals, Fields
<1>2. runtime' \in Runtimes /\ runtime'.present = FALSE
    BY <1>0 DEF End, TypeOK, Runtimes
<1>3. process' \in Processes /\ process'.status = process.status
        /\ (process' = process \/ process'.faults > 0)
    BY <1>0 DEF TypeOK, Faulted
<1>4. sandbox' \in Sandboxes /\ sandbox'.live = "none" /\ sandbox'.lease = "none"
    BY <1>0 DEF End, TypeOK, Sandboxes
<1>5. TypeOK'
    <2>1. LocalsTyped'
        <3>1. lc'.messages \in Seq(Prompts) /\ lc'.doomed \in Seq(Prompts)
            BY <1>1
        <3> QED
            BY <1>1, <3>1 DEF LocalsTyped, Unleased, InPrompt, Types, States
    <2> QED
        BY <1>0, <1>2, <1>3, <1>4, <2>1 DEF TypeOK
<1>6. Control'
    BY <1>0, <1>1, <1>2, <1>3 DEF Base, Control, Over, Cancelling, Faulted, TypeOK
<1>7. Lease'
    BY <1>1, <1>4 DEF Lease, Leased, Unleased, InPrompt, Cancelling
<1> QED
    BY <1>5, <1>6, <1>7 DEF Base

\* The branches of the loop that end in the catch or the finally block.
LEMMA LoopLeaves ==
    ASSUME Base, Acquired \/ AcquireRejects \/ StopLoop \/ JobsCancelled
    PROVE  Base'
<1>0. TypeOK /\ runtime.aborted \in BOOLEAN
    BY DEF Base, TypeOK, Runtimes
<1>1. CASE Acquired
    <2>1. /\ lc.pc = "granted" /\ sandbox' \in Sandboxes
          /\ sandbox'.lease = "held"
        BY <1>0, <1>1 DEF Acquired, At, TypeOK, Sandboxes, Base, Lease, Leased
    <2>2. CASE runtime.aborted
        BY <1>1, <2>1, <2>2, CatchKeepsBase DEF Acquired, Leased
    <2>3. CASE ~runtime.aborted
        <3>1. /\ DOMAIN lc' = Fields /\ lc'.pc = "markReady" /\ lc'.job = lc.job
              /\ lc'.messages = lc.messages /\ lc'.next = lc.next /\ lc'.doomed = lc.doomed
              /\ lc'.failure = lc.failure /\ lc'.failed = lc.failed /\ lc'.escaped = lc.escaped
              /\ lc'.seen = lc.seen
              /\ db' = db /\ tail' = tail /\ request' = request /\ process' = process
              /\ runtime' = runtime
            BY <1>0, <1>1, <2>3 DEF Acquired, Goto, TypeOK, LocalsTyped, Fields
        <3>2. TypeOK'
            BY <1>0, <2>1, <3>1 DEF TypeOK, LocalsTyped, Leased, InPrompt
        <3>3. Control'
            BY <2>1, <3>1 DEF Base, Control, InPrompt, Cancelling, Over
        <3>4. Lease'
            BY <2>1, <3>1 DEF Lease, Leased, InPrompt, Unleased, Cancelling
        <3> QED
            BY <3>2, <3>3, <3>4 DEF Base
    <2> QED
        BY <2>2, <2>3
<1>2. CASE AcquireRejects
    <2>1. lc.pc = "acquire" /\ Catch(lc, ~runtime.aborted) /\ sandbox' = sandbox
        BY <1>2 DEF AcquireRejects, At
    <2>2. sandbox.lease = "none" /\ sandbox.live # "ready" /\ sandbox \in Sandboxes
        BY <1>0, <2>1 DEF Base, Lease, Unleased, TypeOK
    <2> QED
        BY <1>0, <1>2, <2>1, <2>2, CatchKeepsBase DEF AcquireRejects
<1>3. CASE StopLoop \/ JobsCancelled
    <2>1. /\ Finally(lc) /\ lc.pc \in Cancelling \cup {"next"} /\ lc.doomed = <<>>
          /\ db' = db /\ tail' = tail /\ request' = request /\ runtime' = runtime
          /\ process' = process
        BY <1>3 DEF StopLoop, JobsCancelled, At, Cancelling, Base, Control
    <2>2. /\ DOMAIN lc = Fields /\ lc.escaped \in BOOLEAN /\ tail \in Seq(Prompts \cup {Lifecycle})
          /\ lc.escaped => process.faults > 0
        BY <1>0 DEF TypeOK, LocalsTyped, Base, Control
    <2> QED
        BY <2>1, <2>2, FinallyKeepsBase
<1> QED
    BY <1>1, <1>2, <1>3

\* The branches of runJob and of cancelJobs.
LEMMA PromptBranches ==
    ASSUME Base, AppendAgent \/ Saved \/ AppendOutcome \/ PublishPrompt \/ AppendCancel
    PROVE  Base'
<1>0. TypeOK /\ runtime.aborted \in BOOLEAN /\ lc.escaped \in BOOLEAN /\ lc.failure \in BOOLEAN
    BY DEF Base, TypeOK, Runtimes, LocalsTyped
<1>1. CASE AppendAgent
    <2>1. /\ lc.pc = "appendAgent" /\ lc.job \in Prompts
          /\ lc.next \in {"agent.started", "agent.finished"} /\ tail # <<>>
        BY <1>0, <1>1 DEF AppendAgent, At, Holds, TypeOK, LocalsTyped, InPrompt
    <2>2. db' \in Rows /\ db'.state = db.state
        BY <1>0, <1>1, <2>1, Stored DEF AppendAgent, Types, Outcomes
    <2>3. /\ tail' \in Seq(Prompts \cup {Lifecycle})
          /\ request' = request /\ runtime' = runtime /\ sandbox' = sandbox /\ process' = process
        BY <1>0, <1>1, <2>1, LockQueue DEF AppendAgent
    <2>4. /\ DOMAIN lc' = Fields /\ lc'.job = lc.job
          /\ lc'.messages = lc.messages /\ lc'.doomed = lc.doomed
          /\ lc'.failure = lc.failure /\ lc'.failed = lc.failed /\ lc'.escaped = lc.escaped
          /\ lc'.seen = lc.seen
          /\ lc'.next \in {"agent.started", "agent.finished"}
          /\ lc'.pc \in {"execute", "save"}
        BY <1>0, <1>1, <2>1 DEF AppendAgent, TypeOK, LocalsTyped, Fields
    <2>5. TypeOK'
        BY <1>0, <2>1, <2>2, <2>3, <2>4 DEF TypeOK, LocalsTyped, Leased, InPrompt, Types, Outcomes
    <2>6. Control'
        BY <2>1, <2>2, <2>3, <2>4 DEF Base, Control, InPrompt, Cancelling, Over
    <2>7. Lease'
        BY <2>1, <2>3, <2>4 DEF Base, Lease, Leased, InPrompt, Unleased, Cancelling
    <2> QED
        BY <2>5, <2>6, <2>7 DEF Base
<1>2. CASE Saved
    <2>1. lc.pc = "saved"
        BY <1>2 DEF Saved, At
    <2>2. db' \in Rows /\ db'.state = db.state
        <3>1. SavedMessages \in Seq(Prompts)
            BY <1>0 DEF SavedMessages, TypeOK, Rows, LocalsTyped
        <3> QED
            BY <1>0, <1>2, <3>1 DEF Saved, TypeOK, Rows
    <2>3. /\ tail' \in Seq(Prompts \cup {Lifecycle})
          /\ request' = request /\ runtime' = runtime /\ sandbox' = sandbox /\ process' = process
        BY <1>0, <1>2, LockQueue DEF Saved, TypeOK
    <2>4. /\ DOMAIN lc' = Fields /\ lc'.job = lc.job
          /\ lc'.messages = lc.messages /\ lc'.doomed = lc.doomed
          /\ lc'.failure = lc.failure /\ lc'.failed = lc.failed /\ lc'.escaped = lc.escaped
          /\ lc'.seen = lc.seen /\ lc'.next \in Types
          /\ lc'.pc \in {"appendOutcome", "find"}
          /\ lc'.pc = "appendOutcome" => lc'.next \in {"agent.cancelled", "agent.failed"}
        <3>1. CASE lc.failure
            BY <1>0, <1>2, <3>1 DEF Saved, TypeOK, LocalsTyped, Fields, Types, Outcomes
        <3>2. CASE ~lc.failure
            BY <1>0, <1>2, <3>2 DEF Saved, Goto, TypeOK, LocalsTyped, Fields
        <3> QED
            BY <3>1, <3>2
    <2>5. TypeOK'
        BY <1>0, <2>1, <2>2, <2>3, <2>4 DEF TypeOK, LocalsTyped, Leased, InPrompt
    <2>6. Control'
        BY <2>1, <2>2, <2>3, <2>4 DEF Base, Control, InPrompt, Cancelling, Over
    <2>7. Lease'
        BY <2>1, <2>3, <2>4 DEF Base, Lease, Leased, InPrompt, Unleased, Cancelling
    <2> QED
        BY <2>5, <2>6, <2>7 DEF Base
<1>3. CASE AppendOutcome
    <2>1. /\ lc.pc = "appendOutcome" /\ lc.job \in Prompts
          /\ lc.next \in {"agent.cancelled", "agent.failed"} /\ tail # <<>>
        BY <1>0, <1>3 DEF AppendOutcome, At, Holds, TypeOK, LocalsTyped, InPrompt
    <2>2. db' \in Rows /\ db'.state = db.state
        BY <1>0, <1>3, <2>1, Stored DEF AppendOutcome, Types, Outcomes
    <2>3. /\ tail' \in Seq(Prompts \cup {Lifecycle})
          /\ request' = request /\ runtime' = runtime /\ sandbox' = sandbox /\ process' = process
        BY <1>0, <1>3, <2>1, LockQueue DEF AppendOutcome
    <2>4. /\ DOMAIN lc' = Fields /\ lc'.job = lc.job
          /\ lc'.messages = lc.messages /\ lc'.doomed = lc.doomed
          /\ lc'.failure = lc.failure /\ lc'.failed = lc.failed /\ lc'.escaped = lc.escaped
          /\ lc'.seen = lc.seen /\ lc'.next = lc.next /\ lc'.pc = "find"
        BY <1>0, <1>3, <2>1 DEF AppendOutcome, Goto, TypeOK, LocalsTyped, Fields
    <2>5. TypeOK'
        BY <1>0, <2>1, <2>2, <2>3, <2>4 DEF TypeOK, LocalsTyped, Leased, InPrompt
    <2>6. Control'
        BY <2>1, <2>2, <2>3, <2>4 DEF Base, Control, InPrompt, Cancelling, Over
    <2>7. Lease'
        BY <2>1, <2>3, <2>4 DEF Base, Lease, Leased, InPrompt, Unleased, Cancelling
    <2> QED
        BY <2>5, <2>6, <2>7 DEF Base
<1>4. CASE PublishPrompt
    <2>1. /\ lc.pc = "publishPrompt" /\ sandbox' = sandbox /\ sandbox \in Sandboxes
          /\ sandbox.lease = "held" /\ db' = db /\ tail' = tail /\ request' = request
          /\ process' = process
        BY <1>0, <1>4 DEF PublishPrompt, At, TypeOK, Base, Lease, Leased, InPrompt
    <2>2. CASE lc.escaped \/ (runtime.aborted /\ lc.failure)
        <3>1. Catch(lc, ~runtime.aborted)
            BY <1>4, <2>2 DEF PublishPrompt
        <3> QED
            BY <1>0, <2>1, <3>1, CatchKeepsBase DEF Leased, InPrompt
    <2>3. CASE ~(lc.escaped \/ (runtime.aborted /\ lc.failure))
        <3>1. /\ DOMAIN lc' = Fields /\ lc'.job = None
              /\ lc'.messages = lc.messages /\ lc'.doomed = lc.doomed
              /\ lc'.failure = FALSE /\ lc'.failed = lc.failed /\ lc'.escaped = lc.escaped
              /\ lc'.seen = lc.seen /\ lc'.next = lc.next /\ lc'.pc = "next"
              /\ runtime' = runtime
            BY <1>0, <1>4, <2>3 DEF PublishPrompt, TypeOK, LocalsTyped, Fields
        <3>2. TypeOK'
            BY <1>0, <2>1, <3>1 DEF TypeOK, LocalsTyped, Leased, InPrompt
        <3>3. Control'
            BY <2>1, <3>1 DEF Base, Control, InPrompt, Cancelling, Over
        <3>4. Lease'
            BY <2>1, <3>1 DEF Base, Lease, Leased, InPrompt, Unleased, Cancelling
        <3> QED
            BY <3>2, <3>3, <3>4 DEF Base
    <2> QED
        BY <2>2, <2>3
<1>5. CASE AppendCancel
    <2>1. lc.pc = "appendCancel" /\ tail # <<>> /\ lc.doomed # <<>>
        BY <1>5 DEF AppendCancel, At, Holds, Base, Control
    <2>2. PICK type \in {"agent.failed", "agent.cancelled"} :
              db' = [db EXCEPT !.events = Append(@, Event(Head(lc.doomed), type))]
        BY <1>5 DEF AppendCancel
    <2>3. Head(lc.doomed) \in Prompts /\ Tail(lc.doomed) \in Seq(Prompts)
        BY <1>0, <2>1, Queues DEF TypeOK, LocalsTyped
    <2>4. db' \in Rows /\ db'.state = db.state
        BY <1>0, <2>2, <2>3, Stored DEF Types, Outcomes
    <2>5. /\ tail' \in Seq(Prompts \cup {Lifecycle})
          /\ request' = request /\ runtime' = runtime /\ sandbox' = sandbox /\ process' = process
        BY <1>0, <1>5, <2>1, LockQueue DEF AppendCancel
    <2>6. /\ DOMAIN lc' = Fields /\ lc'.job = lc.job
          /\ lc'.messages = lc.messages /\ lc'.doomed = Tail(lc.doomed)
          /\ lc'.failure = lc.failure /\ lc'.failed = lc.failed /\ lc'.escaped = lc.escaped
          /\ lc'.seen = lc.seen /\ lc'.next = lc.next /\ lc'.pc = "cancelJobs"
        BY <1>0, <1>5 DEF AppendCancel, TypeOK, LocalsTyped, Fields
    <2>7. TypeOK'
        BY <1>0, <2>1, <2>3, <2>4, <2>5, <2>6 DEF TypeOK, LocalsTyped, Cancelling, InPrompt
    <2>8. Control'
        BY <2>1, <2>4, <2>5, <2>6 DEF Base, Control, InPrompt, Cancelling, Over
    <2>9. Lease'
        BY <2>1, <2>5, <2>6 DEF Base, Lease, Leased, InPrompt, Unleased, Cancelling
    <2> QED
        BY <2>7, <2>8, <2>9 DEF Base
<1> QED
    BY <1>1, <1>2, <1>3, <1>4, <1>5

\* The release, after which finish runs unless cancelJobs threw.
LEMMA ReleasedKeepsBase ==
    ASSUME Base, Released
    PROVE  Base'
<1>0. TypeOK
    BY DEF Base
<1>1. /\ lc.pc = "release" /\ db' = db /\ tail' = tail /\ request' = request /\ process' = process
      /\ lc.escaped \in BOOLEAN /\ lc.escaped => process.faults > 0
    BY <1>0 DEF Released, At, TypeOK, LocalsTyped, Base, Control
<1>2. CASE lc.escaped
    <2>1. /\ DOMAIN lc' = Fields /\ lc'.pc = "ended" /\ lc'.job = None /\ lc'.failure = FALSE
          /\ lc'.escaped = FALSE /\ lc'.failed = FALSE /\ lc'.doomed = <<>>
          /\ lc'.messages = <<>> /\ lc'.next = "agent.started" /\ lc'.seen = "absent"
        BY <1>2 DEF Released, InitialLocals, Fields
    <2>2. runtime' \in Runtimes /\ runtime'.present = FALSE
        <3>1. /\ runtime' = [runtime EXCEPT !.present = FALSE, !.jobs = <<>>]
              /\ <<>> \in Seq(Prompts)
            BY <1>2 DEF Released
        <3> QED
            BY <1>0, <3>1 DEF TypeOK, Runtimes
    <2>3. sandbox' = [live |-> "none", lease |-> "none"]
        BY <1>2 DEF Released
    <2>4. sandbox' \in Sandboxes
        BY <2>3 DEF Sandboxes
    <2>5. LocalsTyped'
        <3>1. lc'.messages \in Seq(Prompts) /\ lc'.doomed \in Seq(Prompts)
            BY <2>1
        <3> QED
            BY <2>1, <3>1 DEF LocalsTyped, Unleased, InPrompt, Types, States
    <2>6. TypeOK'
        BY <1>0, <1>1, <2>2, <2>4, <2>5 DEF TypeOK
    <2>7. Control'
        BY <1>0, <1>1, <1>2, <2>1, <2>2 DEF Base, Control, Over, Cancelling, TypeOK, Processes
    <2>8. Lease'
        BY <2>1, <2>3 DEF Lease, Leased, Unleased, InPrompt, Cancelling
    <2> QED
        BY <2>6, <2>7, <2>8 DEF Base
<1>3. CASE ~lc.escaped
    <2>1. /\ DOMAIN lc' = Fields /\ lc'.pc = "readFinish" /\ lc'.job = lc.job
               /\ lc'.failure = lc.failure
          /\ lc'.escaped = lc.escaped /\ lc'.failed = lc.failed /\ lc'.doomed = lc.doomed
          /\ lc'.messages = lc.messages /\ lc'.next = lc.next /\ lc'.seen = lc.seen
          /\ runtime' = runtime
        BY <1>0, <1>3 DEF Released, Goto, TypeOK, LocalsTyped, Fields
    <2>2. sandbox' \in Sandboxes /\ sandbox'.live = sandbox.live /\ sandbox'.lease = "none"
        BY <1>0, <1>3 DEF Released, TypeOK, Sandboxes
    <2>3. TypeOK'
        BY <1>0, <1>1, <2>1, <2>2 DEF TypeOK, LocalsTyped, Unleased, InPrompt
    <2>4. Control'
        BY <1>1, <1>3, <2>1, <2>2 DEF Base, Control, InPrompt, Cancelling, Over
    <2>5. Lease'
        BY <1>1, <2>1, <2>2 DEF Base, Lease, Leased, InPrompt, Unleased, Cancelling
    <2> QED
        BY <2>3, <2>4, <2>5 DEF Base
<1> QED
    BY <1>1, <1>2, <1>3

\* The statements that fail.
LEMMA FaultsKeepBase ==
    ASSUME Base, StoreFails
    PROVE  Base'
<1>0. /\ TypeOK /\ runtime.aborted \in BOOLEAN /\ tail \in Seq(Prompts \cup {Lifecycle})
      /\ sandbox \in Sandboxes
    BY DEF Base, TypeOK, Runtimes
<1>a. Faulted
    BY <1>0, FaultsCount DEF StoreFails, StoreFailsInLoop, StoreFailsInPrompt, StoreFailsInOutcome,
       StoreFailsInCancel, StoreFailsInFinish, Fault
<1>1. CASE StoreFailsInLoop
    <2>1. lc.pc \in Leased /\ Catch(lc, ~runtime.aborted)
        BY <1>1 DEF StoreFailsInLoop, Fault, At, Leased, InPrompt
    <2>2. sandbox.lease = "held"
        BY <2>1 DEF Base, Lease
    <2> QED
        BY <1>0, <1>1, <1>a, <2>1, <2>2, CatchKeepsBase DEF StoreFailsInLoop
<1>2. CASE StoreFailsInPrompt \/ StoreFailsInOutcome
    <2>1. /\ db' = db /\ request' = request /\ runtime' = runtime /\ sandbox' = sandbox
          /\ lc.pc \in {"load", "save", "saved", "appendAgent", "appendOutcome"}
        BY <1>2 DEF StoreFailsInPrompt, StoreFailsInOutcome, Fault, At
    <2>2. tail' \in Seq(Prompts \cup {Lifecycle})
        BY <1>0, <1>2, LockQueue DEF StoreFailsInPrompt, StoreFailsInOutcome, Unlocked
    <2>3. /\ DOMAIN lc' = Fields /\ lc'.job = lc.job
          /\ lc'.messages = lc.messages /\ lc'.doomed = lc.doomed
          /\ lc'.failure \in BOOLEAN /\ lc'.failed = lc.failed /\ lc'.escaped \in BOOLEAN
          /\ lc'.seen = lc.seen /\ lc'.next \in Types
          /\ lc'.pc \in {"appendOutcome", "save", "find"}
          /\ lc'.pc = "appendOutcome" => lc'.next \in {"agent.cancelled", "agent.failed"}
        <3>1. CASE StoreFailsInOutcome
            BY <1>0, <3>1 DEF StoreFailsInOutcome, TypeOK, LocalsTyped, Fields
        <3>2. CASE /\ Fault("load") \/ Fault("save") \/ Fault("saved")
                   /\ lc' = [lc EXCEPT !.pc = "appendOutcome", !.failure = TRUE,
                                       !.next = IF runtime.aborted THEN "agent.cancelled"
                                                                   ELSE "agent.failed"]
            BY <1>0, <3>2 DEF TypeOK, LocalsTyped, Fields, Types, Outcomes
        <3>3. CASE lc' = [lc EXCEPT !.pc = "save", !.failure = TRUE]
            BY <1>0, <3>3 DEF TypeOK, LocalsTyped, Fields
        <3> QED
            BY <1>2, <3>1, <3>2, <3>3 DEF StoreFailsInPrompt
    <2>4. process' \in Processes /\ process'.status = process.status /\ process'.faults > 0
        BY <1>a DEF Faulted
    <2>5. TypeOK'
        BY <1>0, <2>1, <2>2, <2>3, <2>4 DEF TypeOK, LocalsTyped, Leased, InPrompt
    <2>6. Control'
        BY <2>1, <2>3, <2>4 DEF Base, Control, InPrompt, Cancelling, Over
    <2>7. Lease'
        BY <2>1, <2>3, <2>4 DEF Base, Lease, Leased, InPrompt, Unleased, Cancelling
    <2> QED
        BY <2>5, <2>6, <2>7 DEF Base
<1>3. CASE StoreFailsInCancel
    <2>1. /\ lc.pc = "appendCancel" /\ db' = db /\ request' = request
          /\ tail' \in Seq(Prompts \cup {Lifecycle})
        BY <1>0, <1>3, LockQueue DEF StoreFailsInCancel, Fault, At, Unlocked
    <2>2. CASE sandbox.lease = "none"
        BY <1>3, <1>a, <2>1, <2>2, EndKeepsBase DEF StoreFailsInCancel, Cancelling
    <2>3. CASE sandbox.lease # "none"
        <3> DEFINE l == [lc EXCEPT !.escaped = TRUE]
        <3>1. /\ DOMAIN l = Fields
              /\ l.job = lc.job /\ l.messages = lc.messages /\ l.next = lc.next
              /\ l.doomed = lc.doomed /\ l.failure = lc.failure /\ l.failed = lc.failed
              /\ l.seen = lc.seen /\ l.escaped = TRUE
            BY <1>0 DEF TypeOK, LocalsTyped, Fields
        <3>2. Finally(l) /\ runtime' = runtime
            BY <1>3, <2>3 DEF StoreFailsInCancel
        <3> HIDE DEF l
        <3>3. process'.faults > 0
            BY <1>a DEF Faulted
        <3> QED
            BY <1>a, <2>1, <2>3, <3>1, <3>2, <3>3, FinallyKeepsBase DEF Cancelling
    <2> QED
        BY <2>2, <2>3
<1>4. CASE StoreFailsInFinish
    <2>1. lc.pc \in {"readFinish", "writeFinish"} /\ End
        BY <1>4 DEF StoreFailsInFinish, Fault, At
    <2>2. sandbox.lease = "none"
        BY <2>1 DEF Base, Lease, Unleased
    <2> QED
        BY <1>0, <1>4, <1>a, <2>1, <2>2, EndKeepsBase DEF StoreFailsInFinish
<1> QED
    BY <1>1, <1>2, <1>3, <1>4 DEF StoreFails

\* The end of a process, and the start of the next.
LEMMA ProcessKeepsBase ==
    ASSUME Base, Dispose \/ Exit \/ Crash \/ Restart
    PROVE  Base'
<1>0. TypeOK
    BY DEF Base
<1>1. CASE Dispose
    <2>1. /\ DOMAIN lc' = Fields /\ lc'.job = lc.job
          /\ lc'.messages = lc.messages /\ lc'.next = lc.next /\ lc'.doomed = lc.doomed
          /\ lc'.failure = lc.failure /\ lc'.failed = lc.failed /\ lc'.escaped = lc.escaped
          /\ lc'.seen = lc.seen
          /\ lc'.pc = lc.pc \/ (lc.pc = "asleep" /\ lc'.pc = "next")
        <3>1. lc' = [lc EXCEPT !.pc = IF lc.pc = "asleep" THEN "next" ELSE lc.pc]
            BY <1>1 DEF Dispose, Woken
        <3>2. "pc" \in DOMAIN lc /\ DOMAIN lc = Fields
            BY <1>0 DEF TypeOK, LocalsTyped, Fields
        <3>3. lc'.pc = IF lc.pc = "asleep" THEN "next" ELSE lc.pc
            BY <3>1, <3>2
        <3> QED
            BY <3>1, <3>2, <3>3 DEF Fields
    <2>2. /\ process' \in Processes /\ process'.status = "closing" /\ process.status = "up"
          /\ process'.faults = process.faults
        BY <1>0, <1>1 DEF Dispose, Up, TypeOK, Processes
    <2>3. runtime' \in Runtimes /\ runtime'.present = runtime.present
        <3>1. runtime' = [runtime EXCEPT !.aborted = @ \/ runtime.present]
            BY <1>1 DEF Dispose
        <3> QED
            BY <1>0, <3>1 DEF TypeOK, Runtimes
    <2>4. db' = db /\ tail' = tail /\ request' = request /\ sandbox' = sandbox
        BY <1>1 DEF Dispose
    <2>5. TypeOK'
        BY <1>0, <2>1, <2>2, <2>3, <2>4 DEF TypeOK, LocalsTyped, Leased, InPrompt
    <2>6. Control'
        BY <2>1, <2>2, <2>3, <2>4 DEF Base, Control, InPrompt, Cancelling, Over
    <2>7. Lease'
        BY <2>1, <2>4 DEF Base, Lease, Leased, InPrompt, Unleased, Cancelling
    <2> QED
        BY <2>5, <2>6, <2>7 DEF Base
<1>2. CASE Exit
    <2>1. process' \in Processes /\ process'.status = "down"
        BY <1>0, <1>2 DEF Exit, TypeOK, Processes
    <2>2. runtime' \in Runtimes /\ runtime'.present = FALSE
        <3>1. <<>> \in Seq(Prompts)
            OBVIOUS
        <3> QED
            BY <1>2, <3>1 DEF Exit, Runtimes
    <2>3. /\ db' = db /\ tail' = tail /\ request' = request /\ sandbox' = sandbox /\ lc' = lc
          /\ lc.pc \in {"none", "ended"} /\ process.status = "closing"
          /\ process'.faults = process.faults
        BY <1>0, <1>2 DEF Exit, TypeOK, Processes
    <2>4. TypeOK'
        BY <1>0, <2>1, <2>2, <2>3 DEF TypeOK, LocalsTyped
    <2>5. Control'
        BY <2>1, <2>2, <2>3 DEF Base, Control
    <2>6. Lease'
        BY <2>3 DEF Base, Lease
    <2> QED
        BY <2>4, <2>5, <2>6 DEF Base
<1>3. CASE Crash
    <2>1. /\ process' \in Processes /\ process'.status = "down"
          /\ process'.faults = process.faults
        <3>1. process' = [process EXCEPT !.status = "down", !.crashes = @ + 1]
            BY <1>3 DEF Crash
        <3>2. process.crashes + 1 \in Nat
            BY <1>0 DEF TypeOK, Processes
        <3> QED
            BY <1>0, <3>1, <3>2 DEF TypeOK, Processes
    <2>2. runtime' \in Runtimes /\ runtime'.present = FALSE
        <3>1. <<>> \in Seq(Prompts)
            OBVIOUS
        <3> QED
            BY <1>3, <3>1 DEF Crash, Runtimes
    <2>3. /\ request' \in RequestMaps
          /\ \A t \in Terminations : request'.terminate[t] # "writing"
          /\ request'.delete # "new" => request.delete # "new"
        BY <1>0, <1>3 DEF Crash, TypeOK, RequestMaps
    <2>4. db' = db /\ tail' = <<>> /\ tail' \in Seq(Prompts \cup {Lifecycle})
          /\ sandbox' = [live |-> "none", lease |-> "none"]
        BY <1>3 DEF Crash
    <2>5. sandbox' \in Sandboxes
        BY <2>4 DEF Sandboxes
    <2>6. /\ DOMAIN lc' = Fields /\ lc'.pc = (IF lc.pc = "none" THEN "none" ELSE "ended")
          /\ lc'.job = None /\ lc'.failure = FALSE
          /\ lc'.escaped = FALSE /\ lc'.failed = FALSE /\ lc'.doomed = <<>>
          /\ lc'.messages = <<>> /\ lc'.next = "agent.started" /\ lc'.seen = "absent"
        BY <1>3 DEF Crash, InitialLocals, Fields
    <2>7. LocalsTyped'
        <3>1. lc'.messages \in Seq(Prompts) /\ lc'.doomed \in Seq(Prompts)
            BY <2>6
        <3> QED
            BY <2>6, <3>1 DEF LocalsTyped, Unleased, InPrompt, Types, States
    <2>8. TypeOK'
        BY <1>0, <2>1, <2>2, <2>3, <2>4, <2>5, <2>7 DEF TypeOK
    <2>9. Control'
        BY <2>1, <2>2, <2>3, <2>4, <2>6 DEF Base, Control, Over, Cancelling
    <2>10. Lease'
        BY <2>4, <2>6 DEF Lease, Leased, Unleased, InPrompt, Cancelling
    <2> QED
        BY <2>8, <2>9, <2>10 DEF Base
<1>4. CASE Restart
    <2>1. /\ db' \in Rows
          /\ db'.state = IF db.state \in terminal \cup Missing THEN db.state ELSE "failed"
        <3>1. db' = [db EXCEPT !.state =
                        IF db.state \in terminal \cup Missing THEN db.state ELSE "failed"]
            BY <1>4 DEF Restart
        <3> QED
            BY <1>0, <3>1 DEF TypeOK, Rows, States
    <2>2. /\ process' \in Processes /\ process'.status = "up" /\ process.status = "down"
          /\ process'.faults = process.faults
        BY <1>0, <1>4 DEF Restart, TypeOK, Processes
    <2>3. /\ tail' = tail /\ request' = request /\ runtime' = runtime /\ sandbox' = sandbox
          /\ lc' = lc
        BY <1>4 DEF Restart
    <2>4. lc.pc \in {"none", "ended"}
        BY <2>2 DEF Base, Control
    <2>5. TypeOK'
        BY <1>0, <2>1, <2>2, <2>3 DEF TypeOK, LocalsTyped
    <2>6. Control'
        BY <2>1, <2>2, <2>3, <2>4 DEF Base, Control, Over, terminal, Missing, accepting
    <2>7. Lease'
        BY <2>3 DEF Base, Lease
    <2> QED
        BY <2>5, <2>6, <2>7 DEF Base
<1> QED
    BY <1>1, <1>2, <1>3, <1>4

\* A session that nobody created.
LEMMA InitBase == Init => Base
<1> SUFFICES ASSUME Init PROVE Base
    OBVIOUS
<1>1. /\ DOMAIN lc = Fields /\ lc.pc = "none" /\ lc.job = None /\ lc.failure = FALSE
      /\ lc.escaped = FALSE /\ lc.failed = FALSE /\ lc.doomed = <<>>
      /\ lc.messages = <<>> /\ lc.next = "agent.started" /\ lc.seen = "absent"
    BY DEF Init, InitialLocals, Fields
<1>2. \A S : <<>> \in Seq(S)
    OBVIOUS
<1>3. LocalsTyped
    BY <1>1, <1>2 DEF LocalsTyped, Unleased, InPrompt, Types, States
<1>4. TypeOK
    BY <1>2, <1>3 DEF Init, TypeOK, Rows, RequestMaps, Runtimes, Sandboxes, Processes, States
<1>5. Control
    BY <1>1 DEF Init, Control, terminal, Cancelling, InPrompt
<1>6. Lease
    BY <1>1 DEF Init, Lease, Leased, InPrompt, Cancelling
<1> QED
    BY <1>4, <1>5, <1>6 DEF Base

\* Statements and continuations that have one outcome.
LEMMA StatementsKeepBase ==
    ASSUME Base,
           Create \/ Created \/ Grant \/ ReadReady \/ PublishReady \/ TakeJob \/ Sleep
           \/ ReadRunning \/ StartPrompt \/ DropJob \/ LoadHistory \/ AgentYields \/ AgentThrows
           \/ Save \/ FindRecord \/ Resave \/ Resaved \/ CancelJob \/ ReadFinish \/ WriteFinish
           \/ PublishFinish \/ MarkReady \/ MarkRunning
    PROVE  Base'
<1> USE DEF Up, Running, At, Goto, terminal, accepting, Missing, Outcomes, Base, TypeOK, Rows,
            Runtimes, Sandboxes, Processes, LocalsTyped, Control, Lease, States, Types, InPrompt,
            Leased, Unleased, Cancelling, Over, Fields
<1>1. CASE Create
    BY <1>1 DEF Create
<1>2. CASE Created
    BY <1>2 DEF Created
<1>3. CASE Grant
    BY <1>3 DEF Grant
<1>4. CASE ReadReady
    BY <1>4 DEF ReadReady, ReadRow
<1>5. CASE PublishReady
    BY <1>5 DEF PublishReady
<1>6. CASE TakeJob
    BY <1>6, Queues, ZenonT(30) DEF TakeJob
<1>7. CASE Sleep
    BY <1>7 DEF Sleep
<1>8. CASE ReadRunning
    BY <1>8 DEF ReadRunning, ReadRow
<1>9. CASE StartPrompt
    BY <1>9 DEF StartPrompt
<1>10. CASE DropJob
    BY <1>10 DEF DropJob
<1>11. CASE LoadHistory
    BY <1>11, Queues DEF LoadHistory
<1>12. CASE AgentYields
    BY <1>12, Queues DEF AgentYields
<1>13. CASE AgentThrows
    BY <1>13 DEF AgentThrows
<1>14. CASE Save
    BY <1>14, ZenonT(30) DEF Save, FinishPromptUpdate
<1>15. CASE FindRecord
    BY <1>15 DEF FindRecord
<1>16. CASE Resave
    BY <1>16, ZenonT(30) DEF Resave, FinishPromptUpdate
<1>17. CASE Resaved
    BY <1>17 DEF Resaved, SavedMessages
<1>18. CASE CancelJob
    BY <1>18, Queues DEF CancelJob
<1>19. CASE ReadFinish
    BY <1>19 DEF ReadFinish
<1>20. CASE WriteFinish
    BY <1>20, SMTT(30) DEF WriteFinish
<1>21. CASE PublishFinish
    BY <1>21 DEF PublishFinish, End, InitialLocals
<1>22. CASE MarkReady
    <2>1. TypeOK'
        BY <1>22 DEF MarkReady, Mark
    <2>2. Control' /\ Lease'
        BY <1>22 DEF MarkReady, Mark
    <2> QED
        BY <2>1, <2>2
<1>23. CASE MarkRunning
    <2>1. TypeOK'
        BY <1>23 DEF MarkRunning, Mark
    <2>2. Control' /\ Lease'
        BY <1>23 DEF MarkRunning, Mark
    <2> QED
        BY <2>1, <2>2
<1> QED
    BY <1>1, <1>2, <1>3, <1>4, <1>5, <1>6, <1>7, <1>8, <1>9, <1>10, <1>11, <1>12, <1>13, <1>14,
       <1>15, <1>16, <1>17, <1>18, <1>19, <1>20, <1>21, <1>22, <1>23

\* Every step.
LEMMA BaseStep ==
    ASSUME Base, [Next]_vars
    PROVE  Base'
<1>1. CASE UNCHANGED vars
    BY <1>1 DEF vars, Base, TypeOK, LocalsTyped, Control, Lease
<1>2. CASE Next
    BY <1>2, PromptsKeepBase, TerminationsKeepBase, DeletionKeepsBase, LoopLeaves, PromptBranches,
       ReleasedKeepsBase, FaultsKeepBase, ProcessKeepsBase, StatementsKeepBase
       DEF Next, Requests, LifecycleSteps
<1> QED
    BY <1>1, <1>2

\* Where the lifecycle of runLifecycle can be agrees with its lease, with its
\* entry in runtimes and with the state of its row, at every step.
THEOREM SessionControl == Spec => []Base
BY InitBase, BaseStep, PTL DEF Spec

\* SSH access and the execution of prompts stay within the lease, and a lifecycle
\* that is over holds none, whatever failed in its catch and finally blocks.
THEOREM LeaseCoversEveryUse == Spec => []LeaseCoversUse
<1>1. Base => LeaseCoversUse
    BY DEF Base, TypeOK, Control, Lease, LeaseCoversUse, Leased, Unleased, InPrompt, Over
<1> QED
    BY <1>1, SessionControl, PTL

\* A session that reads as queued, ready or running has its lifecycle, unless a
\* statement of the store failed: reconcile leaves none of those of a dead process.
THEOREM ActiveSessionsHaveLifecycles == Spec => []ActiveSessionsAreServed
<1>1. Base => ActiveSessionsAreServed
    BY DEF Base, TypeOK, Control, Lease, ActiveSessionsAreServed, accepting, Up
<1> QED
    BY <1>1, SessionControl, PTL

-----------------------------------------------------------------------------
(* The order of events *)

\* p was accepted; before q; or somebody worked on it.
Heard(p) == \E i \in DOMAIN db.events : db.events[i] = Event(p, "prompt.accepted")
Before(p, q) == \E i, j \in DOMAIN db.events :
    i < j /\ db.events[i] = Event(p, "prompt.accepted")
      /\ db.events[j] = Event(q, "prompt.accepted")
Worked(p) == \E i \in DOMAIN db.events :
    db.events[i].prompt = p /\ db.events[i].type # "prompt.accepted"

Members(s) == {s[i] : i \in 1..Len(s)}
InOrder(s) == \A m, n \in 1..Len(s) : m < n => Before(s[m], s[n])

Doomed == Members(lc.doomed)
Jobs == Members(runtime.jobs)
Job == {lc.job} \ {None}
Committed == {p \in Prompts : request.prompt[p] = "committed"}

AcceptedOnce ==
    \A i, j \in Positions("prompt.accepted") : EventOf(i).prompt = EventOf(j).prompt => i = j

Unheard ==
    \A p \in Prompts : request.prompt[p] \in {"new", "waiting", "approved"} =>
        \A i \in DOMAIN db.events : EventOf(i).prompt # p

CommitsHoldLock == \A p \in Committed : Holds(p)

QueueInOrder ==
    /\ InOrder(lc.doomed) /\ InOrder(runtime.jobs)
    /\ \A p \in Doomed \cup Job : \A q \in Jobs : Before(p, q)
    /\ \A p \in Doomed \cup Job \cup Jobs : Heard(p) /\ \A q \in Committed : Before(p, q)
    /\ \A p \in Committed : Heard(p)

WorkInOrder ==
    \A p \in Prompts : Worked(p) =>
        /\ \A q \in Doomed \cup Jobs \cup Committed : Before(p, q)
        /\ \A q \in Job : p = q \/ Before(p, q)

BeforeOutcome == {"markRunning", "readRunning", "checkRunning", "load", "execute", "appendAgent"}

JobOutcomes ==
    \A i \in DOMAIN db.events : EventOf(i).prompt = lc.job /\ EventOf(i).type \in Outcomes =>
        /\ lc.pc \notin BeforeOutcome
        /\ lc.pc \in {"save", "saved"} => ~lc.failure /\ EventOf(i).type = "agent.finished"
        /\ lc.pc = "appendOutcome" => process.faults > 0 /\ EventOf(i).type = "agent.finished"

Order ==
    /\ AcceptedOnce /\ Unheard /\ CommitsHoldLock
    /\ lc.pc \notin Over => QueueInOrder /\ WorkInOrder
    /\ JobOutcomes
    /\ PromptsRunInOrder /\ OutcomesAreFinal

\* Events have a prompt and a type, and are told apart by them.
LEMMA EventFacts ==
    ASSUME Base
    PROVE  /\ DOMAIN db.events = 1..Len(db.events) /\ Len(db.events) \in Nat
           /\ \A i \in DOMAIN db.events :
                 /\ db.events[i].prompt \in Prompts /\ db.events[i].type \in Types
                 /\ \A p, type : db.events[i] = Event(p, type) <=>
                       db.events[i].prompt = p /\ db.events[i].type = type
<1>1. db.events \in Seq(Events)
    BY DEF Base, TypeOK, Rows
<1>2. ASSUME NEW i \in DOMAIN db.events
      PROVE  db.events[i] \in Events
    BY <1>1
<1>3. ASSUME NEW e \in Events, NEW p, NEW type
      PROVE  e = Event(p, type) <=> e.prompt = p /\ e.type = type
    BY DEF Events, Event
<1> QED
    BY <1>1, <1>2, <1>3 DEF Events

\* Acceptance is a strict order of the prompts.
LEMMA BeforeIsStrict ==
    ASSUME Base, AcceptedOnce, NEW p, NEW q, Before(p, q)
    PROVE  /\ p # q /\ ~Before(q, p)
           /\ \A i, j \in Positions("prompt.accepted") : EventOf(i).prompt = p
                /\ EventOf(j).prompt = q => i < j
<1>1. PICK i, j \in DOMAIN db.events :
          i < j /\ db.events[i] = Event(p, "prompt.accepted")
            /\ db.events[j] = Event(q, "prompt.accepted")
    BY DEF Before
<1>2. /\ i \in Positions("prompt.accepted") /\ j \in Positions("prompt.accepted")
      /\ EventOf(i).prompt = p /\ EventOf(j).prompt = q
    BY <1>1, EventFacts DEF Positions, EventOf
<1>3. i \in Nat /\ j \in Nat
    BY EventFacts
<1>4. p # q
    BY <1>1, <1>2, <1>3 DEF AcceptedOnce
<1>5. \A k, l \in Positions("prompt.accepted") : EventOf(k).prompt = p /\ EventOf(l).prompt = q =>
          k < l
    BY <1>1, <1>2 DEF AcceptedOnce
<1>6. ~Before(q, p)
    <2> SUFFICES ASSUME Before(q, p) PROVE FALSE
        OBVIOUS
    <2>1. PICK k, l \in DOMAIN db.events :
              k < l /\ db.events[k] = Event(q, "prompt.accepted")
                /\ db.events[l] = Event(p, "prompt.accepted")
        BY DEF Before
    <2>2. /\ k \in Positions("prompt.accepted") /\ l \in Positions("prompt.accepted")
          /\ EventOf(k).prompt = q /\ EventOf(l).prompt = p /\ k \in Nat /\ l \in Nat
        BY <2>1, EventFacts DEF Positions, EventOf
    <2> QED
        BY <1>5, <2>1, <2>2
<1> QED
    BY <1>4, <1>5, <1>6

\* Steps that store no event.
NoEvent ==
    /\ db'.events = db.events
    /\ process.faults > 0 => process'.faults > 0
    /\ lc'.pc \notin Over => lc.pc \notin Over
    /\ \A p \in Prompts :
          /\ request'.prompt[p] \in {"new", "waiting", "approved"} =>
                request.prompt[p] \in {"new", "waiting", "approved"}
          /\ p \in Committed' => p \in Committed /\ (Holds(p) => Holds(p)')

\* The order is that of the stored events alone.
LEMMA SameEvents ==
    ASSUME db'.events = db.events
    PROVE  /\ \A p : Heard(p)' <=> Heard(p)
           /\ \A p : Worked(p)' <=> Worked(p)
           /\ \A p, q : Before(p, q)' <=> Before(p, q)
           /\ \A type : Positions(type)' = Positions(type)
           /\ \A i : EventOf(i)' = EventOf(i)
BY DEF Heard, Worked, Before, Positions, EventOf, Event

\* They may move the prompts that wait forward, but not past each other.
LEMMA NoEventKeepsOrder ==
    ASSUME Base, Order, NoEvent, JobOutcomes',
           lc'.pc \notin Over =>
              /\ \A m, n \in 1..Len(lc'.doomed) : m < n => Before(lc'.doomed[m], lc'.doomed[n])
              /\ \A m, n \in 1..Len(runtime'.jobs) : m < n =>
                     Before(runtime'.jobs[m], runtime'.jobs[n])
              /\ \A p \in (Doomed \cup Job)' : \A q \in Jobs' : Before(p, q)
              /\ Job' \subseteq Job \cup Doomed \cup Jobs
              /\ (Doomed \cup Jobs)' \subseteq Doomed \cup Jobs \cup Committed
              /\ Committed' = {} \/ (Doomed \cup Jobs)' \subseteq Doomed \cup Jobs
    PROVE  Order'
<1>1. AcceptedOnce' /\ Unheard' /\ CommitsHoldLock'
    BY SameEvents DEF Order, NoEvent, AcceptedOnce, Unheard, CommitsHoldLock, Committed
<1>2. PromptsRunInOrder'
    BY SameEvents DEF Order, NoEvent, PromptsRunInOrder
<1>3. OutcomesAreFinal'
    BY SameEvents DEF Order, NoEvent, OutcomesAreFinal
<1>4. ASSUME lc'.pc \notin Over
      PROVE  QueueInOrder' /\ WorkInOrder'
    <2>1. QueueInOrder /\ WorkInOrder /\ db'.events = db.events
        BY <1>4 DEF Order, NoEvent
    <2>2. Committed' \subseteq Committed
        BY DEF NoEvent, Committed
    <2>3. /\ InOrder(lc.doomed)' /\ InOrder(runtime.jobs)'
          /\ \A p \in (Doomed \cup Job)' : \A q \in Jobs' : Before(p, q)'
        BY <1>4, <2>1, SameEvents DEF InOrder
    <2>4. \A p \in (Doomed \cup Job \cup Jobs)' : Heard(p)'
        BY <1>4, <2>1, SameEvents DEF QueueInOrder
    <2>5. \A p \in (Doomed \cup Job \cup Jobs)' : \A q \in Committed' : Before(p, q)'
        BY <1>4, <2>1, <2>2, SameEvents DEF QueueInOrder
    <2>6. \A p \in Committed' : Heard(p)'
        BY <2>1, <2>2, SameEvents DEF QueueInOrder
    <2>7. QueueInOrder'
        BY <2>3, <2>4, <2>5, <2>6 DEF QueueInOrder
    <2>8. ASSUME NEW p \in Prompts, Worked(p)'
          PROVE  /\ \A q \in (Doomed \cup Jobs \cup Committed)' : Before(p, q)'
                 /\ \A q \in Job' : p = q \/ Before(p, q)'
        <3>1. Worked(p)
            BY <2>1, <2>8, SameEvents
        <3> QED
            BY <1>4, <2>1, <2>2, <3>1, SameEvents DEF WorkInOrder
    <2> QED
        BY <2>7, <2>8 DEF WorkInOrder
<1> QED
    BY <1>1, <1>2, <1>3, <1>4 DEF Order

\* How far a prompt in hand may get without an event.
JobGoesOn ==
    \/ lc'.job = None
    \/ /\ lc'.job = lc.job
       /\ lc'.pc \in BeforeOutcome => lc.pc \in BeforeOutcome
       /\ lc'.pc \in {"save", "saved"} =>
             \/ lc.pc \in BeforeOutcome
             \/ lc.pc \in {"save", "saved"} /\ lc'.failure = lc.failure
       /\ lc'.pc = "appendOutcome" =>
             \/ lc.pc \in BeforeOutcome
             \/ lc.pc \in {"save", "saved"} /\ (lc.failure \/ process'.faults > 0)
             \/ lc.pc = "appendOutcome" /\ (process.faults > 0 => process'.faults > 0)

\* What is known of the outcome of the prompt in hand stays known.
LEMMA JobGoesOnKeepsOutcomes ==
    ASSUME Base, JobOutcomes, db'.events = db.events, JobGoesOn
    PROVE  JobOutcomes'
<1>1. CASE lc'.job = None
    <2>1. \A i \in DOMAIN db.events : EventOf(i).prompt # None
        BY EventFacts, Writers DEF EventOf
    <2> QED
        BY <1>1, <2>1, SameEvents DEF JobOutcomes
<1>2. CASE lc'.job # None
    BY <1>2, SameEvents DEF JobOutcomes, JobGoesOn
<1> QED
    BY <1>1, <1>2

\* The lifecycle's steps that store no event and leave the queues as they are.
Quiet ==
    /\ db'.events = db.events
    /\ process.faults > 0 => process'.faults > 0
    /\ request' = request
    /\ tail' = tail \/ (\E w : tail' = Append(tail, w)) \/ Holds(Lifecycle)
    /\ lc'.pc \notin Over => lc.pc \notin Over /\ lc'.doomed = lc.doomed
         /\ runtime'.jobs = runtime.jobs
    /\ JobGoesOn

\* While an operation of the lifecycle holds the event lock no commit does,
\* and a writer that queues up does not take the lock from its holder.
LEMMA CommitsKeepLock ==
    ASSUME Base, CommitsHoldLock, request' = request,
           tail' = tail \/ (\E w : tail' = Append(tail, w)) \/ Holds(Lifecycle)
    PROVE  \A p \in Prompts : p \in Committed' => p \in Committed /\ (Holds(p) => Holds(p)')
<1> SUFFICES ASSUME NEW p \in Prompts, p \in Committed'
             PROVE  p \in Committed /\ (Holds(p) => Holds(p)')
    OBVIOUS
<1>1. p \in Committed /\ Holds(p)
    BY DEF Committed, CommitsHoldLock
<1>2. CASE tail' = tail
    BY <1>1, <1>2 DEF Holds
<1>3. ASSUME NEW w, tail' = Append(tail, w)
      PROVE  Holds(p)'
    <2>1. tail \in Seq(Prompts \cup {Lifecycle}) /\ tail # <<>> /\ Head(tail) = p
        BY <1>1 DEF Base, TypeOK, Holds
    <2>2. tail' # <<>> /\ Head(tail') = Head(tail)
        BY <1>3, <2>1
    <2> QED
        BY <2>1, <2>2 DEF Holds
<1>4. CASE Holds(Lifecycle)
    BY <1>1, <1>4, Writers DEF Holds
<1> QED
    BY <1>1, <1>2, <1>3, <1>4

\* Nothing moves in the queues, or the lifecycle drops its prompt.
LEMMA SameQueueKeepsOrder ==
    ASSUME Base, Order, NoEvent, JobGoesOn,
           lc'.pc \notin Over => lc'.doomed = lc.doomed /\ runtime'.jobs = runtime.jobs
    PROVE  Order'
<1>1. JobOutcomes'
    BY JobGoesOnKeepsOutcomes DEF NoEvent, Order
<1>2. lc'.pc \notin Over =>
          /\ QueueInOrder /\ Doomed' = Doomed /\ Jobs' = Jobs /\ Job' \subseteq Job
          /\ lc'.doomed = lc.doomed /\ runtime'.jobs = runtime.jobs
    BY DEF NoEvent, JobGoesOn, Order, Doomed, Jobs, Job, Members
<1> QED
    BY <1>1, <1>2, NoEventKeepsOrder DEF QueueInOrder, InOrder

\* So such a step keeps the order.
LEMMA QuietKeepsOrder ==
    ASSUME Base, Order, Quiet
    PROVE  Order'
<1>1. \A p \in Prompts : p \in Committed' => p \in Committed /\ (Holds(p) => Holds(p)')
    BY CommitsKeepLock DEF Quiet, Order
<1>2. NoEvent
    BY <1>1 DEF Quiet, NoEvent
<1> QED
    BY <1>2, SameQueueKeepsOrder DEF Quiet

\* Statements that store no event, and continuations that do not touch the queues.
LEMMA QuietSteps ==
    ASSUME Base,
           Create \/ Created \/ Grant \/ MarkReady \/ ReadReady \/ PublishReady \/ StopLoop
           \/ Sleep \/ MarkRunning \/ ReadRunning \/ StartPrompt \/ DropJob \/ LoadHistory
           \/ AgentYields \/ AgentThrows \/ Save \/ Saved \/ FindRecord \/ Resave \/ Resaved
           \/ CancelJob \/ JobsCancelled \/ Released \/ ReadFinish \/ WriteFinish \/ PublishFinish
           \/ StoreFailsInPrompt \/ StoreFailsInOutcome \/ StoreFailsInCancel
           \/ StoreFailsInFinish
    PROVE  Quiet
<1>0. /\ DOMAIN lc = Fields /\ DOMAIN db = {"state", "messages", "events"}
      /\ DOMAIN runtime = {"present", "aborted", "jobs"}
      /\ process.faults \in Nat /\ DOMAIN process = {"status", "crashes", "faults"}
    BY DEF Base, TypeOK, LocalsTyped, Rows, Runtimes, Processes
<1>a. /\ lc.failure => lc.pc \notin BeforeOutcome
      /\ lc.pc \notin InPrompt => lc.job = None
    BY DEF Base, Control, BeforeOutcome, TypeOK, LocalsTyped, Leased, InPrompt
<1> USE <1>0, <1>a DEF Quiet, JobGoesOn, BeforeOutcome, Over, Fields, At, Goto, InPrompt
<1>1. CASE Create
    BY <1>1 DEF Create
<1>2. CASE Created
    BY <1>2 DEF Created
<1>3. CASE Grant
    BY <1>3 DEF Grant
<1>4. CASE MarkReady
    BY <1>4 DEF MarkReady, Mark
<1>5. CASE ReadReady
    BY <1>5 DEF ReadReady, ReadRow
<1>6. CASE PublishReady
    BY <1>6 DEF PublishReady
<1>7. CASE StopLoop
    BY <1>7 DEF StopLoop, Finally
<1>8. CASE Sleep
    BY <1>8 DEF Sleep
<1>9. CASE MarkRunning
    BY <1>9 DEF MarkRunning, Mark
<1>10. CASE ReadRunning
    BY <1>10 DEF ReadRunning, ReadRow
<1>11. CASE StartPrompt
    BY <1>11 DEF StartPrompt
<1>12. CASE DropJob
    BY <1>12 DEF DropJob
<1>13. CASE LoadHistory
    BY <1>13 DEF LoadHistory
<1>14. CASE AgentYields
    BY <1>14 DEF AgentYields
<1>15. CASE AgentThrows
    BY <1>15 DEF AgentThrows
<1>16. CASE Save
    BY <1>16 DEF Save, FinishPromptUpdate
<1>17. CASE Saved
    <2>1. CASE lc.failure
        <3>1. lc' = [lc EXCEPT !.pc = "appendOutcome",
                              !.next = IF runtime.aborted THEN "agent.cancelled"
                                                               ELSE "agent.failed"]
            BY <1>17, <2>1 DEF Saved
        <3>2. lc'.pc = "appendOutcome" /\ lc'.job = lc.job /\ lc'.doomed = lc.doomed
            BY <3>1
        <3> QED
            BY <1>17, <2>1, <3>2 DEF Saved
    <2>2. CASE ~lc.failure
        BY <1>17, <2>2 DEF Saved
    <2> QED
        BY <2>1, <2>2
<1>18. CASE FindRecord
    BY <1>18 DEF FindRecord
<1>19. CASE Resave
    BY <1>19 DEF Resave, FinishPromptUpdate
<1>20. CASE Resaved
    BY <1>20 DEF Resaved
<1>21. CASE CancelJob
    BY <1>21 DEF CancelJob
<1>22. CASE JobsCancelled
    BY <1>22 DEF JobsCancelled, Finally
<1>23. CASE Released
    BY <1>23 DEF Released, InitialLocals
<1>24. CASE ReadFinish
    BY <1>24 DEF ReadFinish
<1>25. CASE WriteFinish
    BY <1>25 DEF WriteFinish
<1>26. CASE PublishFinish
    BY <1>26 DEF PublishFinish, End, InitialLocals
<1>27. CASE StoreFailsInPrompt
    <2>1. CASE /\ Fault("load") \/ Fault("save") \/ Fault("saved")
               /\ tail' = Append(tail, Lifecycle)
               /\ lc' = [lc EXCEPT !.pc = "appendOutcome", !.failure = TRUE,
                                   !.next = IF runtime.aborted THEN "agent.cancelled"
                                                               ELSE "agent.failed"]
        <3>1. lc'.pc = "appendOutcome" /\ lc'.job = lc.job /\ lc'.doomed = lc.doomed
            BY <2>1
        <3>2. process'.faults = process.faults + 1 /\ lc.pc \in {"load", "save", "saved"}
            BY <2>1 DEF Fault
        <3> QED
            BY <1>27, <2>1, <3>1, <3>2 DEF StoreFailsInPrompt
    <2>2. CASE /\ Fault("appendAgent") /\ Holds(Lifecycle)
               /\ lc' = [lc EXCEPT !.pc = "save", !.failure = TRUE]
        BY <1>27, <2>2 DEF StoreFailsInPrompt, Fault
    <2> QED
        BY <1>27, <2>1, <2>2 DEF StoreFailsInPrompt
<1>28. CASE StoreFailsInOutcome
    BY <1>28 DEF StoreFailsInOutcome, Fault
<1>29. CASE StoreFailsInCancel
    <2>1. CASE sandbox.lease = "none"
        BY <1>29, <2>1 DEF StoreFailsInCancel, Fault, End, InitialLocals
    <2>2. CASE sandbox.lease # "none"
        <3>1. lc' = [[lc EXCEPT !.escaped = TRUE] EXCEPT !.pc = "release"] /\ runtime' = runtime
            BY <1>29, <2>2 DEF StoreFailsInCancel, Finally
        <3>2. lc'.pc = "release" /\ lc'.job = lc.job /\ lc'.doomed = lc.doomed
            BY <3>1
        <3> QED
            BY <1>29, <3>1, <3>2 DEF StoreFailsInCancel, Fault
    <2> QED
        BY <2>1, <2>2
<1>30. CASE StoreFailsInFinish
    BY <1>30 DEF StoreFailsInFinish, Fault, End, InitialLocals
<1> QED
    BY <1>1, <1>2, <1>3, <1>4, <1>5, <1>6, <1>7, <1>8, <1>9, <1>10, <1>11, <1>12, <1>13, <1>14,
       <1>15, <1>16, <1>17, <1>18, <1>19, <1>20, <1>21, <1>22, <1>23, <1>24, <1>25, <1>26, <1>27,
       <1>28, <1>29, <1>30

\* splice(0) moves the queue to the jobs to cancel, in order.
LEMMA CatchKeepsOrder ==
    ASSUME Base, Order, NEW failed, Catch(lc, failed),
           lc.pc \notin Over \cup Cancelling \cup {"release"},
           db' = db, request' = request, tail' = tail,
           process.faults > 0 => process'.faults > 0
    PROVE  Order'
<1>1. /\ lc'.pc = "cancelJobs" /\ lc'.job = None /\ lc'.doomed = runtime.jobs
      /\ runtime'.jobs = <<>>
    BY DEF Catch, Base, TypeOK, LocalsTyped, Fields, Runtimes
<1>2. NoEvent
    BY <1>1, CommitsKeepLock DEF NoEvent, Order
<1>3. JobOutcomes'
    BY <1>1, JobGoesOnKeepsOutcomes DEF JobGoesOn, Order
<1>4. QueueInOrder
    BY DEF Order
<1>5. lc.doomed = <<>> /\ Len(runtime'.jobs) = 0
    BY <1>1 DEF Base, Control
<1>6. Doomed' = Jobs /\ Jobs' = {} /\ Job' = {}
    BY <1>1, <1>5 DEF Doomed, Jobs, Job, Members
<1> QED
    BY <1>1, <1>2, <1>3, <1>4, <1>5, <1>6, NoEventKeepsOrder DEF QueueInOrder, InOrder

\* The first of the queue is the next prompt: nobody has worked on it.
LEMMA TakeJobKeepsOrder ==
    ASSUME Base, Order, TakeJob
    PROVE  Order'
<1> DEFINE jobs == runtime.jobs
<1>0. jobs \in Seq(Prompts) /\ jobs # <<>>
    BY DEF TakeJob, Base, TypeOK, Runtimes
<1>1. /\ lc'.pc = "markRunning" /\ lc'.job = Head(jobs) /\ lc'.doomed = lc.doomed /\ lc.pc = "next"
      /\ runtime'.jobs = Tail(jobs)
    BY DEF TakeJob, At, Base, TypeOK, LocalsTyped, Fields, Runtimes
<1>2. db' = db /\ process' = process /\ request' = request /\ tail' = tail
    BY DEF TakeJob
<1>3. NoEvent
    BY <1>1, <1>2, CommitsKeepLock DEF NoEvent, Order, Over
<1>4. QueueInOrder /\ WorkInOrder /\ AcceptedOnce
    BY <1>1 DEF Order, Over
<1>5. lc.doomed = <<>> /\ Job = {}
    BY <1>1 DEF Base, Control, Cancelling, TypeOK, LocalsTyped, InPrompt, Job
<1>6. /\ Head(jobs) = jobs[1] /\ Len(jobs) \in Nat /\ Len(jobs) > 0
           /\ Len(Tail(jobs)) = Len(jobs) - 1
      /\ \A i \in 1..(Len(jobs) - 1) : Tail(jobs)[i] = jobs[i + 1]
    BY <1>0
<1>7. /\ Doomed' = {} /\ Job' \subseteq {jobs[1]} /\ jobs[1] \in Jobs
      /\ \A q \in Jobs' : \E i \in 2..Len(jobs) : q = jobs[i]
    BY <1>1, <1>5, <1>6 DEF Doomed, Jobs, Job, Members
<1>8. /\ \A m, n \in 1..Len(runtime'.jobs) : m < n => Before(runtime'.jobs[m], runtime'.jobs[n])
      /\ \A q \in Jobs' : q \in Jobs /\ Before(jobs[1], q)
    BY <1>1, <1>4, <1>6, <1>7 DEF QueueInOrder, InOrder, Jobs, Members
<1>9. JobOutcomes'
    <2>1. ~Worked(jobs[1])
        BY <1>0, <1>4, <1>7, BeforeIsStrict DEF WorkInOrder
    <2> QED
        BY <1>1, <1>2, <1>6, <2>1 DEF Worked, JobOutcomes, EventOf, Outcomes
<1>10. /\ \A p \in (Doomed \cup Job)' : \A q \in Jobs' : Before(p, q)
       /\ Job' \subseteq Jobs /\ (Doomed \cup Jobs)' \subseteq Jobs
    BY <1>7, <1>8
<1> HIDE DEF jobs
<1> QED
    <2>1. Len(lc'.doomed) = 0
        BY <1>1, <1>5
    <2> QED
        BY <1>3, <1>5, <1>7, <1>8, <1>9, <1>10, <2>1, NoEventKeepsOrder

\* The catch block of runLifecycle, from wherever it is reached.
LEMMA LoopKeepsOrder ==
    ASSUME Base, Order, Acquired \/ AcquireRejects \/ PublishPrompt \/ StoreFailsInLoop
    PROVE  Order'
<1>1. CASE \E failed : Catch(lc, failed)
    <2>1. /\ lc.pc \notin Over \cup Cancelling \cup {"release"}
          /\ db' = db /\ request' = request /\ tail' = tail
        BY DEF Acquired, AcquireRejects, PublishPrompt, StoreFailsInLoop, At, Fault, Over,
           Cancelling
    <2>2. process.faults > 0 => process'.faults > 0
        BY FaultsCount DEF Acquired, AcquireRejects, PublishPrompt, StoreFailsInLoop, Fault,
           Faulted, Base
    <2> QED
        BY <1>1, <2>1, <2>2, CatchKeepsOrder
<1>2. CASE Acquired /\ ~runtime.aborted
    <2>1. Quiet
        BY <1>2 DEF Acquired, At, Goto, Quiet, JobGoesOn, Over, Base, TypeOK, LocalsTyped, Fields,
           InPrompt
    <2> QED
        BY <2>1, QuietKeepsOrder
<1>3. CASE PublishPrompt /\ ~(\E failed : Catch(lc, failed))
    <2>1. lc' = [lc EXCEPT !.pc = "next", !.job = None, !.failure = FALSE] /\ runtime' = runtime
        BY <1>3 DEF PublishPrompt
    <2>2. lc'.pc = "next" /\ lc'.job = None /\ lc'.doomed = lc.doomed /\ lc.pc = "publishPrompt"
        BY <1>3, <2>1 DEF PublishPrompt, At, Base, TypeOK, LocalsTyped, Fields
    <2>3. Quiet
        BY <1>3, <2>1, <2>2 DEF PublishPrompt, Quiet, JobGoesOn, Over
    <2> QED
        BY <2>3, QuietKeepsOrder
<1> QED
    BY <1>1, <1>2, <1>3 DEF Acquired, AcquireRejects, StoreFailsInLoop

\* The sleep of the loop is all a request may end at once.
LEMMA Waking ==
    ASSUME Base, lc' = lc \/ lc' = Woken(lc)
    PROVE  /\ lc'.job = lc.job /\ lc'.doomed = lc.doomed /\ lc'.failure = lc.failure
           /\ lc'.pc = lc.pc \/ (lc.pc = "asleep" /\ lc'.pc = "next")
           /\ process' = process => JobGoesOn
           /\ lc'.pc \notin Over => lc.pc \notin Over
<1>1. DOMAIN lc = Fields
    BY DEF Base, TypeOK, LocalsTyped
<1>2. /\ lc'.job = lc.job /\ lc'.doomed = lc.doomed /\ lc'.failure = lc.failure
      /\ lc'.pc = lc.pc \/ (lc.pc = "asleep" /\ lc'.pc = "next")
    BY <1>1 DEF Woken, Fields
<1>3. lc.failure => lc.pc \notin BeforeOutcome
    BY DEF Base, Control, BeforeOutcome
<1> QED
    BY <1>2, <1>3 DEF JobGoesOn, BeforeOutcome, Over

\* The requests that refuse, wait or cancel.
LEMMA RequestsKeepOrder ==
    ASSUME Base, Order, db'.events = db.events, process' = process,
           lc' = lc \/ lc' = Woken(lc), runtime'.jobs = runtime.jobs,
           \A p \in Prompts :
              /\ request'.prompt[p] \in {"new", "waiting", "approved"} =>
                    request.prompt[p] \in {"new", "waiting", "approved"}
              /\ p \in Committed' => p \in Committed /\ (Holds(p) => Holds(p)')
    PROVE  Order'
<1>1. NoEvent
    BY Waking DEF NoEvent
<1> QED
    BY <1>1, Waking, SameQueueKeepsOrder

\* A prompt that is committed is the only one, and it holds the lock.
LEMMA OneCommit ==
    ASSUME Base, Order, NEW w, Holds(w)
    PROVE  Committed \subseteq {w}
BY DEF Order, CommitsHoldLock, Holds

\* acceptPrompt, up to its transaction, and its refusals.
LEMMA PromptsKeepOrder ==
    ASSUME Base, Order, NEW p \in Prompts,
           \/ RefusePrompt(p) \/ Prompt(p) \/ AcceptRead(p)
           \/ AcceptCommit(p) /\ db.state \in Missing
    PROVE  Order'
<1>0. /\ request \in RequestMaps /\ db' = db /\ process' = process /\ lc' = lc /\ runtime' = runtime
    BY DEF Base, TypeOK, RefusePrompt, Prompt, AcceptRead, AcceptCommit
<1>1. \A q \in Prompts \ {p} : request'.prompt[q] = request.prompt[q]
    BY <1>0 DEF RefusePrompt, Prompt, AcceptRead, AcceptCommit, RequestMaps
<1>2. CASE RefusePrompt(p) \/ Prompt(p)
    <2>1. request.prompt[p] = "new" /\ request'.prompt[p] \in {"waiting", "done"}
        BY <1>0, <1>2 DEF RefusePrompt, Prompt, RequestMaps
    <2>2. tail' = tail \/ tail' = Append(tail, p)
        BY <1>2 DEF RefusePrompt, Prompt
    <2>3. \A q \in Prompts : Holds(q) => Holds(q)'
        <3>1. tail \in Seq(Prompts \cup {Lifecycle})
            BY DEF Base, TypeOK
        <3>2. tail # <<>> => tail' # <<>> /\ Head(tail') = Head(tail)
            BY <2>2, <3>1
        <3> QED
            BY <3>2 DEF Holds
    <2> QED
        BY <1>0, <1>1, <2>1, <2>3, RequestsKeepOrder DEF Committed
<1>3. CASE AcceptRead(p) \/ (AcceptCommit(p) /\ db.state \in Missing)
    <2>1. /\ Holds(p) /\ request.prompt[p] \in {"waiting", "approved"}
        BY <1>3 DEF AcceptRead, AcceptCommit
    <2>2. request'.prompt[p] \in {"approved", "done"}
        BY <1>0, <1>3 DEF AcceptRead, AcceptCommit, RequestMaps
    <2>3. Committed = {} /\ Committed' = {}
        BY <1>1, <2>1, <2>2, OneCommit DEF Committed
    <2> QED
        BY <1>0, <1>1, <2>1, <2>3, RequestsKeepOrder
<1> QED
    BY <1>2, <1>3

\* The continuation of an accepted prompt queues it behind those before it.
LEMMA AcceptReplyKeepsOrder ==
    ASSUME Base, Order, NEW p \in Prompts, AcceptReply(p)
    PROVE  Order'
<1> DEFINE jobs == runtime.jobs
<1>0. /\ request \in RequestMaps /\ db' = db /\ process' = process /\ lc' = Woken(lc)
      /\ jobs \in Seq(Prompts) /\ p \in Committed /\ Holds(p)
    BY DEF Base, TypeOK, AcceptReply, Runtimes, Committed, Order, CommitsHoldLock
<1>1. /\ \A q \in Prompts \ {p} : request'.prompt[q] = request.prompt[q]
      /\ request'.prompt[p] = "done"
    BY <1>0 DEF AcceptReply, RequestMaps
<1>2. Committed' = {}
    BY <1>0, <1>1, OneCommit DEF Committed
<1>3. NoEvent
    BY <1>0, <1>1, <1>2, Waking DEF NoEvent
<1>4. JobOutcomes'
    BY <1>0, Waking, JobGoesOnKeepsOutcomes DEF Order
<1>5. runtime'.jobs = jobs \/ runtime'.jobs = Append(jobs, p)
    BY DEF AcceptReply, Base, TypeOK, Runtimes
<1>6. /\ Doomed' = Doomed /\ Job' = Job /\ lc'.doomed = lc.doomed
    BY <1>0, Waking DEF Doomed, Job
<1>7. CASE runtime'.jobs = jobs
    <2>1. runtime'.jobs = runtime.jobs
        BY <1>7
    <2> QED
        BY <1>0, <1>3, <2>1, Waking, SameQueueKeepsOrder
<1>8. CASE runtime'.jobs = Append(jobs, p)
    <2>1. /\ Len(runtime'.jobs) = Len(jobs) + 1 /\ Len(jobs) \in Nat
          /\ \A i \in 1..Len(jobs) : runtime'.jobs[i] = jobs[i]
          /\ runtime'.jobs[Len(jobs) + 1] = p
        BY <1>0, <1>8
    <2>2. Jobs' \subseteq Jobs \cup {p}
        BY <2>1, SMTT(30) DEF Jobs, Members
    <2>3. ASSUME lc'.pc \notin Over
          PROVE  /\ \A m, n \in 1..Len(runtime'.jobs) :
                       m < n => Before(runtime'.jobs[m], runtime'.jobs[n])
                 /\ \A q \in (Doomed \cup Job)' : \A r \in Jobs' : Before(q, r)
        <3>1. QueueInOrder
            BY <2>3, <1>0, Waking DEF Order
        <3>2. \A m \in 1..Len(jobs) : Before(jobs[m], p)
            BY <1>0, <3>1 DEF QueueInOrder, Jobs, Members
        <3>3. \A m, n \in 1..Len(jobs) : m < n => Before(jobs[m], jobs[n])
            BY <3>1 DEF QueueInOrder, InOrder
        <3>4. \A m, n \in 1..Len(runtime'.jobs) : m < n =>
                  Before(runtime'.jobs[m], runtime'.jobs[n])
            BY <2>1, <3>2, <3>3, SMTT(30)
        <3>5. \A q \in (Doomed \cup Job)' : \A r \in Jobs' : Before(q, r)
            BY <1>0, <1>6, <2>2, <3>1 DEF QueueInOrder
        <3> QED
            BY <3>4, <3>5
    <2>4. lc'.pc \notin Over => \A m, n \in 1..Len(lc'.doomed) : m < n =>
              Before(lc'.doomed[m], lc'.doomed[n])
        BY <1>0, <1>6, Waking DEF Order, QueueInOrder, InOrder
    <2>5. Job' \subseteq Job /\ (Doomed \cup Jobs)' \subseteq Doomed \cup Jobs \cup Committed
        BY <1>0, <1>6, <2>2
    <2> QED
        BY <1>2, <1>3, <1>4, <2>3, <2>4, <2>5, NoEventKeepsOrder
<1> QED
    BY <1>5, <1>7, <1>8

\* requestCancellation, and the read of a deletion.
LEMMA CancellationsKeepOrder ==
    ASSUME Base, Order,
           \/ DeleteRead
           \/ \E t \in Terminations : TerminateRead(t) \/ TerminateWrite(t) \/ TerminateReply(t)
    PROVE  Order'
<1>1. CASE DeleteRead
    BY <1>1, RequestsKeepOrder DEF DeleteRead, Base, TypeOK, RequestMaps, Committed, Holds
<1>2. ASSUME NEW t \in Terminations, TerminateRead(t) \/ TerminateWrite(t) \/ TerminateReply(t)
      PROVE  Order'
    <2>1. /\ request'.prompt = request.prompt /\ tail' = tail /\ process' = process
        BY <1>2 DEF TerminateRead, TerminateWrite, TerminateReply, Base, TypeOK, RequestMaps
    <2>2. db'.events = db.events /\ runtime'.jobs = runtime.jobs
        BY <1>2 DEF TerminateRead, TerminateWrite, TerminateReply, Base, TypeOK, Rows, Runtimes
    <2>3. lc' = lc \/ lc' = Woken(lc)
        BY <1>2 DEF TerminateRead, TerminateWrite, TerminateReply
    <2> QED
        BY <2>1, <2>2, <2>3, RequestsKeepOrder DEF Committed, Holds
<1> QED
    BY <1>1, <1>2

\* Nothing is committed but what a client's request waits for, and only the
\* lifecycle of this process works on prompts.
LEMMA ProcessKeepsOrder ==
    ASSUME Base, Order, Dispose \/ Exit \/ Crash \/ Restart
    PROVE  Order'
<1>0. TypeOK
    BY DEF Base
<1>1. CASE Dispose
    <2>1. /\ db' = db /\ request' = request /\ tail' = tail /\ lc' = Woken(lc)
          /\ process'.faults = process.faults /\ runtime'.jobs = runtime.jobs
        BY <1>0, <1>1 DEF Dispose, TypeOK, Processes, Runtimes
    <2>2. JobGoesOn
        <3>1. lc.failure => lc.pc \notin BeforeOutcome
            BY DEF Base, Control, BeforeOutcome
        <3> QED
            BY <2>1, <3>1, Waking DEF JobGoesOn, BeforeOutcome
    <2>3. NoEvent
        BY <2>1, Waking DEF NoEvent, Committed, Holds
    <2> QED
        BY <2>1, <2>2, <2>3, Waking, SameQueueKeepsOrder
<1>2. CASE Crash
    <2>1. /\ db' = db /\ process'.faults = process.faults /\ runtime'.jobs = <<>>
          /\ lc'.pc = (IF lc.pc = "none" THEN "none" ELSE "ended") /\ lc'.job = None
          /\ lc'.doomed = <<>>
        BY <1>0, <1>2 DEF Crash, InitialLocals, TypeOK, Processes
    <2>2. lc'.pc \notin Over => lc.pc = "none" /\ lc.doomed = <<>>
        BY <2>1 DEF Over, Base, Control, Cancelling
    <2>3. \A p \in Prompts : request'.prompt[p] \in {"new", "done"}
            /\ (request'.prompt[p] = "new" => request.prompt[p] = "new")
        BY <1>0, <1>2 DEF Crash, TypeOK, RequestMaps
    <2>4. NoEvent
        BY <2>1, <2>2, <2>3 DEF NoEvent, Committed, Over
    <2>5. JobOutcomes'
        BY <2>1, JobGoesOnKeepsOutcomes DEF JobGoesOn, Order
    <2>6. Doomed' = {} /\ Jobs' = {} /\ Job' = {} /\ Len(lc'.doomed) = 0 /\ Len(runtime'.jobs) = 0
        BY <2>1 DEF Doomed, Jobs, Job, Members
    <2> QED
        BY <2>4, <2>5, <2>6, NoEventKeepsOrder
<1>3. CASE Exit
    <2>1. /\ db' = db /\ process'.faults = process.faults /\ tail' = tail /\ request' = request
          /\ lc' = lc /\ runtime'.jobs = <<>> /\ lc.pc \in {"none", "ended"}
        BY <1>0, <1>3 DEF Exit, TypeOK, Processes
    <2>2. lc.job = None /\ lc.doomed = <<>>
        BY <1>0, <2>1 DEF TypeOK, LocalsTyped, InPrompt, Base, Control, Cancelling
    <2>3. NoEvent
        BY <2>1 DEF NoEvent, Committed, Holds
    <2>4. JobOutcomes'
        BY <2>1, <2>2, JobGoesOnKeepsOutcomes DEF JobGoesOn, Order
    <2>5. Doomed' = {} /\ Jobs' = {} /\ Job' = {} /\ Len(lc'.doomed) = 0 /\ Len(runtime'.jobs) = 0
        BY <2>1, <2>2 DEF Doomed, Jobs, Job, Members
    <2> QED
        BY <2>3, <2>4, <2>5, NoEventKeepsOrder
<1>4. CASE Restart
    <2>1. /\ db'.events = db.events /\ process'.faults = process.faults /\ tail' = tail
          /\ request' = request /\ lc' = lc /\ runtime' = runtime /\ process.status = "down"
        BY <1>0, <1>4 DEF Restart, TypeOK, Rows, Processes
    <2>2. lc'.job = None
        BY <1>0, <2>1 DEF TypeOK, LocalsTyped, InPrompt, Base, Control
    <2>3. NoEvent
        BY <2>1 DEF NoEvent, Committed, Holds
    <2> QED
        BY <2>1, <2>2, <2>3, SameQueueKeepsOrder DEF JobGoesOn
<1> QED
    BY <1>1, <1>2, <1>3, <1>4

\* What one more event makes of the order of those before it.
LEMMA NewEvent ==
    ASSUME Base, NEW p \in Prompts, NEW type \in Types,
           db' = [db EXCEPT !.events = Append(@, Event(p, type))]
    PROVE  LET n == Len(db.events)
           IN  /\ n \in Nat /\ DOMAIN db.events = 1..n /\ DOMAIN db'.events = 1..(n + 1)
               /\ \A i \in 1..n : EventOf(i)' = EventOf(i)
               /\ \A i : i = n + 1 => EventOf(i)'.prompt = p /\ EventOf(i)'.type = type
               /\ \A q, r : Before(q, r) => Before(q, r)'
               /\ \A q : Heard(q) => Heard(q)'
               /\ \A q : Worked(q)' <=> Worked(q) \/ (q = p /\ type # "prompt.accepted")
               /\ type = "prompt.accepted" => Heard(p)' /\ \A q : Heard(q) => Before(q, p)'
<1> DEFINE n == Len(db.events)
<1>1. db.events \in Seq(Events) /\ Event(p, type) \in Events
    BY DEF Base, TypeOK, Rows, Event, Events
<1>2. db'.events = Append(db.events, Event(p, type))
    BY DEF Base, TypeOK, Rows
<1>3. /\ n \in Nat /\ DOMAIN db.events = 1..n /\ DOMAIN db'.events = 1..(n + 1)
      /\ \A i \in 1..n : db'.events[i] = db.events[i]
      /\ db'.events[n + 1] = Event(p, type)
    BY <1>1, <1>2
<1> HIDE DEF n
<1>4. /\ \A i \in 1..n : EventOf(i)' = EventOf(i)
      /\ \A i : i = n + 1 => EventOf(i)'.prompt = p /\ EventOf(i)'.type = type
    BY <1>3 DEF EventOf, Event
<1>5. \A q, r : Before(q, r) => Before(q, r)'
    BY <1>3 DEF Before, Event
<1>6. \A q : Heard(q) => Heard(q)'
    BY <1>3 DEF Heard, Event
<1>7. \A q : Worked(q)' <=> Worked(q) \/ (q = p /\ type # "prompt.accepted")
    BY <1>3 DEF Worked, Event
<1>8. type = "prompt.accepted" => Heard(p)' /\ \A q : Heard(q) => Before(q, p)'
    <2>1. ASSUME type = "prompt.accepted", NEW q, Heard(q)
          PROVE  Before(q, p)'
        <3>1. PICK i \in 1..n : db.events[i] = Event(q, "prompt.accepted")
            BY <1>3, <2>1 DEF Heard
        <3>2. i < n + 1 /\ n + 1 \in 1..(n + 1) /\ i \in 1..(n + 1)
            BY <1>3
        <3>3. /\ db'.events[i] = Event(q, "prompt.accepted")
              /\ db'.events[n + 1] = Event(p, "prompt.accepted")
            BY <1>3, <2>1, <3>1
        <3> QED
            BY <1>3, <3>2, <3>3 DEF Before, Event
    <2>2. type = "prompt.accepted" => Heard(p)'
        <3>1. n + 1 \in 1..(n + 1)
            BY <1>3
        <3> QED
            BY <1>3, <3>1 DEF Heard, Event
    <2> QED
        BY <2>1, <2>2
<1> QED
    BY <1>3, <1>4, <1>5, <1>6, <1>7, <1>8 DEF n

\* An event of a prompt that is in hand, or the next to be cancelled.
LEMMA WorkKeepsOrder ==
    ASSUME Base, Order, Holds(Lifecycle), lc.pc \notin Over,
           NEW w \in Doomed \cup Job, NEW type \in Types \ {"prompt.accepted"},
           db' = [db EXCEPT !.events = Append(@, Event(w, type))],
           request' = request, process' = process,
           runtime'.jobs = runtime.jobs, Doomed' \subseteq Doomed, Job' \subseteq Job,
           InOrder(lc'.doomed),
           \A q \in Doomed' \cup Jobs : Before(w, q),
           \A q \in Job' : q = w,
           \A i \in DOMAIN db.events : EventOf(i).prompt = w /\ EventOf(i).type \in Outcomes =>
              /\ EventOf(i).type = "agent.finished" /\ process.faults > 0
              /\ type \in {"agent.failed", "agent.cancelled"},
           JobOutcomes'
    PROVE  Order'
<1> DEFINE n == Len(db.events)
<1>0. w \in Prompts /\ type \in Types /\ type # "prompt.accepted" /\ QueueInOrder /\ WorkInOrder
    BY DEF Doomed, Job, Members, Base, TypeOK, LocalsTyped, Order
<1>1. /\ n \in Nat /\ DOMAIN db.events = 1..n /\ DOMAIN db'.events = 1..(n + 1)
      /\ \A i \in 1..n : EventOf(i)' = EventOf(i)
      /\ \A i : i = n + 1 => EventOf(i)'.prompt = w /\ EventOf(i)'.type = type
    BY <1>0, NewEvent
<1>2. \A q, r : Before(q, r) => Before(q, r)'
    BY <1>0, NewEvent
<1>3. \A q : Heard(q) => Heard(q)'
    BY <1>0, NewEvent
<1>4. \A q : Worked(q)' => Worked(q) \/ q = w
    BY <1>0, NewEvent
<1> HIDE DEF n
<1>5. Positions("prompt.accepted")' = Positions("prompt.accepted")
    BY <1>0, <1>1 DEF Positions
<1>6. \A i \in Positions("prompt.accepted") : i \in 1..n /\ EventOf(i)' = EventOf(i)
    BY <1>1 DEF Positions
<1>7. Committed' = {}
    BY Writers, OneCommit DEF Committed
<1>8. AcceptedOnce'
    BY <1>5, <1>6 DEF AcceptedOnce, Order
<1>9. Heard(w)
    BY <1>0 DEF QueueInOrder
<1>10. \E j \in Positions("prompt.accepted") : EventOf(j).prompt = w
    BY <1>9, EventFacts DEF Heard, Positions, EventOf
<1>11. Unheard'
    <2>1. request.prompt[w] \notin {"new", "waiting", "approved"}
        BY <1>0, <1>10 DEF Order, Unheard, Positions
    <2> QED
        BY <1>1, <2>1 DEF Unheard, Order
<1>12. CommitsHoldLock'
    BY <1>7 DEF CommitsHoldLock
<1>13. QueueInOrder'
    <2>1. InOrder(lc.doomed)' /\ InOrder(runtime.jobs)'
        BY <1>0, <1>2 DEF InOrder, QueueInOrder
    <2>2. /\ Jobs' = Jobs /\ (Doomed \cup Job)' \subseteq Doomed \cup Job
        BY DEF Jobs
    <2> QED
        BY <1>0, <1>2, <1>3, <1>7, <2>1, <2>2 DEF QueueInOrder
<1>14. WorkInOrder'
    <2> SUFFICES ASSUME NEW q \in Prompts, Worked(q)'
                 PROVE  /\ \A r \in (Doomed \cup Jobs \cup Committed)' : Before(q, r)'
                        /\ \A r \in Job' : q = r \/ Before(q, r)'
        BY DEF WorkInOrder
    <2>1. Jobs' = Jobs
        BY DEF Jobs
    <2>2. CASE q = w
        BY <1>2, <1>7, <2>1, <2>2
    <2>3. CASE Worked(q)
        BY <1>0, <1>2, <1>7, <2>1, <2>3 DEF WorkInOrder
    <2> QED
        BY <1>4, <2>2, <2>3
<1>15. PromptsRunInOrder'
    <2> SUFFICES ASSUME NEW i \in Positions("prompt.accepted"),
                        NEW j \in Positions("prompt.accepted"), i < j,
                        NEW k \in 1..(n + 1), NEW l \in 1..(n + 1),
                        k \notin Positions("prompt.accepted"),
                        l \notin Positions("prompt.accepted"),
                        EventOf(k)'.prompt = EventOf(i).prompt,
                        EventOf(l)'.prompt = EventOf(j).prompt
                 PROVE  k < l
        BY <1>1, <1>5, <1>6 DEF PromptsRunInOrder
    <2>0. i \in 1..n /\ j \in 1..n /\ EventOf(i).prompt # EventOf(j).prompt
        BY <1>1, <1>6 DEF Order, AcceptedOnce
    <2>1. CASE k \in 1..n /\ l \in 1..n
        BY <1>1, <2>1 DEF Order, PromptsRunInOrder
    <2>2. CASE k = n + 1
        <3>1. l \in 1..n /\ EventOf(i).prompt = w
            BY <1>1, <2>0, <2>2
        <3>2. l \in DOMAIN db.events /\ EventOf(l).prompt = EventOf(j).prompt
                /\ EventOf(l).type # "prompt.accepted"
            BY <1>1, <3>1 DEF Positions
        <3>3. Worked(EventOf(j).prompt) /\ EventOf(j).prompt \in Prompts
            BY <3>2, EventFacts DEF Worked, EventOf
        <3>4. Before(EventOf(j).prompt, w)
            BY <1>0, <2>0, <3>1, <3>3 DEF WorkInOrder
        <3>5. j < i
            BY <3>1, <3>4, BeforeIsStrict DEF Order
        <3> QED
            BY <1>1, <2>0, <3>5
    <2>3. CASE k \in 1..n /\ l = n + 1
        BY <1>1, <2>3
    <2> QED
        BY <1>1, <2>1, <2>2, <2>3
<1>16. OutcomesAreFinal'
    <2> SUFFICES ASSUME NEW i \in 1..(n + 1)
                 PROVE  /\ \E j \in Positions("prompt.accepted") : j <= i
                             /\ EventOf(j).prompt = EventOf(i)'.prompt
                        /\ EventOf(i)'.type \in Outcomes =>
                              \A j \in 1..(n + 1) :
                                 i < j /\ EventOf(j)'.prompt = EventOf(i)'.prompt =>
                                    /\ EventOf(i)'.type = "agent.finished" /\ process'.faults > 0
                                    /\ EventOf(j)'.type \in {"agent.failed", "agent.cancelled"}
        BY <1>1, <1>5, <1>6 DEF OutcomesAreFinal
    <2>1. CASE i = n + 1
        BY <1>1, <1>6, <1>10, <2>1
    <2>2. CASE i \in 1..n
        <3>1. \E j \in Positions("prompt.accepted") : j <= i
                /\ EventOf(j).prompt = EventOf(i)'.prompt
            BY <1>1, <2>2 DEF Order, OutcomesAreFinal
        <3>2. ASSUME EventOf(i)'.type \in Outcomes, NEW j \in 1..(n + 1), i < j,
                     EventOf(j)'.prompt = EventOf(i)'.prompt
              PROVE  /\ EventOf(i)'.type = "agent.finished" /\ process'.faults > 0
                     /\ EventOf(j)'.type \in {"agent.failed", "agent.cancelled"}
            <4>1. CASE j \in 1..n
                BY <1>1, <2>2, <3>2, <4>1 DEF Order, OutcomesAreFinal
            <4>2. CASE j = n + 1
                BY <1>1, <2>2, <3>2, <4>2
            <4> QED
                BY <1>1, <4>1, <4>2
        <3> QED
            BY <3>1, <3>2
    <2> QED
        BY <1>1, <2>1, <2>2
<1> QED
    BY <1>8, <1>11, <1>12, <1>13, <1>14, <1>15, <1>16 DEF Order

\* The event of an acceptance comes after those of all that were accepted.
LEMMA AcceptCommitKeepsOrder ==
    ASSUME Base, Order, NEW p \in Prompts, AcceptCommit(p), db.state \notin Missing
    PROVE  Order'
<1> DEFINE n == Len(db.events)
<1>0. /\ Holds(p) /\ request.prompt[p] = "approved" /\ request \in RequestMaps
      /\ tail' = tail /\ lc' = lc /\ runtime' = runtime /\ process' = process
      /\ db' = [db EXCEPT !.events = Append(@, Event(p, "prompt.accepted"))]
      /\ "prompt.accepted" \in Types
    BY DEF AcceptCommit, Base, TypeOK, Types
<1>1. /\ n \in Nat /\ DOMAIN db.events = 1..n /\ DOMAIN db'.events = 1..(n + 1)
      /\ \A i \in 1..n : EventOf(i)' = EventOf(i)
      /\ \A i : i = n + 1 => EventOf(i)'.prompt = p /\ EventOf(i)'.type = "prompt.accepted"
    BY <1>0, NewEvent
<1>2. /\ \A q, r : Before(q, r) => Before(q, r)'
      /\ \A q : Heard(q) => Heard(q)'
      /\ \A q : Worked(q)' <=> Worked(q)
      /\ Heard(p)' /\ \A q : Heard(q) => Before(q, p)'
    BY <1>0, NewEvent
<1> HIDE DEF n
<1>3. /\ request'.prompt[p] = "committed"
      /\ \A q \in Prompts \ {p} : request'.prompt[q] = request.prompt[q]
    <2>1. request' = [request EXCEPT !.prompt[p] = "committed"]
        BY <1>0 DEF AcceptCommit
    <2> QED
        BY <1>0, <2>1 DEF RequestMaps
<1>4. Committed' = {p}
    BY <1>0, <1>3, OneCommit DEF Committed
<1>5. \A i \in 1..n : EventOf(i).prompt # p
    BY <1>0, <1>1 DEF Order, Unheard
<1>6. /\ Positions("prompt.accepted")' = Positions("prompt.accepted") \cup {n + 1}
      /\ Positions("prompt.accepted") \subseteq 1..n
    BY <1>1 DEF Positions
<1>7. AcceptedOnce'
    BY <1>1, <1>5, <1>6 DEF AcceptedOnce, Order
<1>8. Unheard'
    BY <1>1, <1>3 DEF Unheard, Order
<1>9. CommitsHoldLock'
    BY <1>0, <1>4 DEF CommitsHoldLock, Holds
<1>10. \A q \in Prompts : Worked(q) => Heard(q)
    <2> SUFFICES ASSUME NEW q \in Prompts, Worked(q)
                 PROVE  Heard(q)
        OBVIOUS
    <2>1. PICK i \in DOMAIN db.events : EventOf(i).prompt = q
        BY DEF Worked, EventOf
    <2>2. PICK j \in Positions("prompt.accepted") : EventOf(j).prompt = q
        BY <2>1 DEF Order, OutcomesAreFinal
    <2> QED
        BY <2>2, EventFacts DEF Heard, Positions, EventOf
<1>11. ASSUME lc.pc \notin Over
       PROVE  QueueInOrder' /\ WorkInOrder'
    <2>1. QueueInOrder /\ WorkInOrder
        BY <1>11 DEF Order
    <2>2. Doomed' = Doomed /\ Jobs' = Jobs /\ Job' = Job
        BY <1>0 DEF Doomed, Jobs, Job
    <2>3. InOrder(lc.doomed)' /\ InOrder(runtime.jobs)'
        BY <1>0, <1>2, <2>1 DEF QueueInOrder, InOrder
    <2>4. QueueInOrder'
        BY <1>2, <1>4, <2>1, <2>2, <2>3 DEF QueueInOrder
    <2> QED
        BY <1>2, <1>4, <1>10, <2>1, <2>2, <2>4 DEF WorkInOrder
<1>12. JobOutcomes'
    BY <1>0, <1>1 DEF JobOutcomes, Order, Outcomes
<1>13. PromptsRunInOrder'
    <2> SUFFICES ASSUME NEW i \in 1..n, NEW j \in 1..(n + 1), i < j,
                        NEW k \in 1..n, NEW l \in 1..n,
                        i \in Positions("prompt.accepted"),
                        j \in Positions("prompt.accepted") \cup {n + 1},
                        k \notin Positions("prompt.accepted"),
                        l \notin Positions("prompt.accepted"),
                        EventOf(k).prompt = EventOf(i).prompt,
                        EventOf(l).prompt = EventOf(j)'.prompt
                 PROVE  k < l
        BY <1>1, <1>6 DEF PromptsRunInOrder
    <2>1. j \in 1..n
        BY <1>1, <1>5
    <2> QED
        BY <1>1, <2>1 DEF Order, PromptsRunInOrder
<1>14. OutcomesAreFinal'
    <2> SUFFICES ASSUME NEW i \in 1..(n + 1)
                 PROVE  /\ \E j \in Positions("prompt.accepted") \cup {n + 1} :
                              j <= i /\ EventOf(j)'.prompt = EventOf(i)'.prompt
                        /\ EventOf(i)'.type \in Outcomes =>
                              \A j \in 1..(n + 1) :
                                 i < j /\ EventOf(j)'.prompt = EventOf(i)'.prompt =>
                                    /\ EventOf(i)'.type = "agent.finished" /\ process'.faults > 0
                                    /\ EventOf(j)'.type \in {"agent.failed", "agent.cancelled"}
        BY <1>1, <1>6 DEF OutcomesAreFinal
    <2>1. CASE i = n + 1
        BY <1>1, <2>1 DEF Outcomes
    <2>2. CASE i \in 1..n
        <3>1. \E j \in Positions("prompt.accepted") : j <= i
                /\ EventOf(j)'.prompt = EventOf(i)'.prompt
            BY <1>1, <1>6, <2>2 DEF Order, OutcomesAreFinal
        <3>2. ASSUME EventOf(i)'.type \in Outcomes, NEW j \in 1..(n + 1), i < j,
                     EventOf(j)'.prompt = EventOf(i)'.prompt
              PROVE  /\ EventOf(i)'.type = "agent.finished" /\ process'.faults > 0
                     /\ EventOf(j)'.type \in {"agent.failed", "agent.cancelled"}
            <4>1. j \in 1..n
                BY <1>1, <1>5, <2>2, <3>2
            <4> QED
                BY <1>0, <1>1, <2>2, <3>2, <4>1 DEF Order, OutcomesAreFinal
        <3> QED
            BY <3>1, <3>2
    <2> QED
        BY <1>1, <2>1, <2>2
<1> QED
    BY <1>0, <1>7, <1>8, <1>9, <1>11, <1>12, <1>13, <1>14 DEF Order

\* The events of the prompt in hand.
LEMMA JobEventsKeepOrder ==
    ASSUME Base, Order, AppendAgent \/ AppendOutcome
    PROVE  Order'
<1>0. /\ lc.pc \in {"appendAgent", "appendOutcome"} /\ lc.job \in Prompts /\ lc.doomed = <<>>
      /\ DOMAIN lc = Fields /\ lc.next \in Types
      /\ lc.pc = "appendAgent" => lc.next \in {"agent.started", "agent.finished"} /\ ~lc.failure
      /\ lc.pc = "appendOutcome" => lc.next \in {"agent.cancelled", "agent.failed"}
    BY DEF AppendAgent, AppendOutcome, At, Base, TypeOK, LocalsTyped, Control, InPrompt, Cancelling
<1>1. /\ Holds(Lifecycle) /\ request' = request /\ process' = process /\ runtime' = runtime
      /\ db' = [db EXCEPT !.events = Append(@, Event(lc.job, lc.next))]
    BY DEF AppendAgent, AppendOutcome
<1>2. /\ lc'.job = lc.job /\ lc'.doomed = <<>> /\ lc'.failure = lc.failure
      /\ lc.pc = "appendAgent" => lc'.pc = IF lc.next = "agent.started" THEN "execute" ELSE "save"
      /\ lc.pc = "appendOutcome" => lc'.pc = "find"
    <2>1. CASE AppendOutcome
        BY <1>0, <2>1 DEF AppendOutcome, At, Goto, Fields
    <2>2. CASE AppendAgent /\ lc.next = "agent.started"
        BY <1>0, <2>2 DEF AppendAgent, At, Fields
    <2>3. CASE AppendAgent /\ lc.next # "agent.started"
        BY <1>0, <2>3 DEF AppendAgent, At, Fields
    <2> QED
        BY <2>1, <2>2, <2>3
<1>3. QueueInOrder /\ lc.pc \notin Over
    BY <1>0 DEF Order, Over
<1>4. Doomed' = {} /\ Job' = Job /\ Job = {lc.job} /\ Len(lc'.doomed) = 0
    BY <1>0, <1>2, Writers DEF Doomed, Job, Members
<1>5. \A i \in DOMAIN db.events : EventOf(i).prompt = lc.job /\ EventOf(i).type \in Outcomes =>
          /\ EventOf(i).type = "agent.finished" /\ process.faults > 0
          /\ lc.next \in {"agent.failed", "agent.cancelled"}
    BY <1>0 DEF Order, JobOutcomes, BeforeOutcome
<1>6. JobOutcomes'
    <2> DEFINE n == Len(db.events)
    <2>1. /\ n \in Nat /\ DOMAIN db.events = 1..n /\ DOMAIN db'.events = 1..(n + 1)
          /\ \A i \in 1..n : EventOf(i)' = EventOf(i)
          /\ \A i : i = n + 1 => EventOf(i)'.prompt = lc.job /\ EventOf(i)'.type = lc.next
        BY <1>0, <1>1, NewEvent
    <2> HIDE DEF n
    <2>2. CASE lc.pc = "appendOutcome"
        BY <1>2, <2>2 DEF JobOutcomes, BeforeOutcome
    <2>3. CASE lc.pc = "appendAgent"
        <3>1. \A i \in 1..n : ~(EventOf(i).prompt = lc.job /\ EventOf(i).type \in Outcomes)
            BY <2>1, <2>3 DEF Order, JobOutcomes, BeforeOutcome
        <3> QED
            BY <1>0, <1>1, <1>2, <2>1, <2>3, <3>1 DEF JobOutcomes, BeforeOutcome, Outcomes
    <2> QED
        BY <1>0, <2>2, <2>3
<1>7. lc.next \in Types \ {"prompt.accepted"}
    BY <1>0
<1>8. \A q \in Jobs : Before(lc.job, q)
    BY <1>3, <1>4 DEF QueueInOrder
<1>9. InOrder(lc'.doomed)
    BY <1>4 DEF InOrder
<1> QED
    BY <1>1, <1>3, <1>4, <1>5, <1>6, <1>7, <1>8, <1>9, WorkKeepsOrder

\* The event of the first of the jobs to cancel, on which nobody has worked.
LEMMA AppendCancelKeepsOrder ==
    ASSUME Base, Order, AppendCancel
    PROVE  Order'
<1> DEFINE doomed == lc.doomed
           type == IF lc.failed THEN "agent.failed" ELSE "agent.cancelled"
<1>0. /\ lc.pc = "appendCancel" /\ lc.job = None /\ doomed # <<>> /\ doomed \in Seq(Prompts)
      /\ DOMAIN lc = Fields
    BY DEF AppendCancel, At, Base, TypeOK, LocalsTyped, Control, InPrompt
<1>1. /\ Holds(Lifecycle) /\ request' = request /\ process' = process /\ runtime' = runtime
      /\ db' = [db EXCEPT !.events = Append(@, Event(Head(doomed), type))]
    BY DEF AppendCancel
<1>2. lc'.job = None /\ lc'.doomed = Tail(doomed)
    BY <1>0 DEF AppendCancel, Fields
<1>3. QueueInOrder /\ WorkInOrder /\ lc.pc \notin Over
    BY <1>0 DEF Order, Over
<1>4. /\ Head(doomed) = doomed[1] /\ Len(doomed) \in Nat /\ Len(doomed) > 0
      /\ Len(Tail(doomed)) = Len(doomed) - 1
      /\ \A i \in 1..(Len(doomed) - 1) : Tail(doomed)[i] = doomed[i + 1]
    BY <1>0
<1>5. /\ Head(doomed) \in Doomed /\ Doomed' \subseteq Doomed /\ Job = {} /\ Job' = {}
      /\ \A q \in Doomed' : \E i \in 2..Len(doomed) : q = doomed[i]
    BY <1>0, <1>2, <1>4 DEF Doomed, Job, Members
<1>6. InOrder(lc'.doomed) /\ \A q \in Doomed' : Before(Head(doomed), q)
    BY <1>2, <1>3, <1>4, <1>5, SMTT(30) DEF QueueInOrder, InOrder
<1>7. \A q \in Jobs : Before(Head(doomed), q)
    BY <1>3, <1>5 DEF QueueInOrder
<1>8. ~Worked(Head(doomed)) /\ Head(doomed) \in Prompts
    BY <1>0, <1>3, <1>5, BeforeIsStrict DEF WorkInOrder, Order
<1>9. \A i \in DOMAIN db.events :
          ~(EventOf(i).prompt = Head(doomed) /\ EventOf(i).type \in Outcomes)
    BY <1>8 DEF Worked, EventOf, Outcomes
<1>10. JobOutcomes'
    <2>1. ASSUME NEW i \in DOMAIN db'.events PROVE EventOf(i)'.prompt \in Prompts
        <3>1. "agent.failed" \in Types /\ "agent.cancelled" \in Types
            BY DEF Types, Outcomes
        <3>2. type \in Types
            BY <3>1
        <3> QED
            BY <1>1, <1>8, <2>1, <3>2, NewEvent, EventFacts DEF EventOf
    <2> QED
        BY <1>2, <2>1, Writers DEF JobOutcomes
<1>11. type \in Types \ {"prompt.accepted"}
    BY DEF Types, Outcomes
<1> HIDE DEF doomed, type
<1> QED
    BY <1>1, <1>3, <1>5, <1>6, <1>7, <1>9, <1>10, <1>11, WorkKeepsOrder

\* A deleted session has no events, and its lifecycle is over.
LEMMA DeleteWriteKeepsOrder ==
    ASSUME Base, Order, DeleteWrite
    PROVE  Order'
<1>1. /\ db'.events = <<>> /\ lc' = lc /\ tail' = tail /\ lc.pc \in Over
    BY DEF DeleteWrite, Base, Control
<1>2. request'.prompt = request.prompt
    BY DEF DeleteWrite, Base, TypeOK, RequestMaps
<1>3. DOMAIN db'.events = {}
    BY <1>1
<1>4. Positions("prompt.accepted")' = {}
    BY <1>3 DEF Positions
<1>5. CommitsHoldLock'
    BY <1>1, <1>2 DEF Order, CommitsHoldLock, Committed, Holds
<1> QED
    BY <1>1, <1>3, <1>4, <1>5 DEF Order, AcceptedOnce, Unheard, JobOutcomes, PromptsRunInOrder,
       OutcomesAreFinal

\* Every step.
LEMMA OrderStep ==
    ASSUME Base, Order, [Next]_vars
    PROVE  Order'
<1>1. CASE UNCHANGED vars
    <2>1. NoEvent /\ JobGoesOn /\ lc' = lc /\ runtime' = runtime
        <3>1. lc.failure => lc.pc \notin BeforeOutcome
            BY DEF Base, Control, BeforeOutcome
        <3> QED
            BY <1>1, <3>1 DEF vars, NoEvent, JobGoesOn, Committed, Holds, BeforeOutcome
    <2> QED
        BY <2>1, SameQueueKeepsOrder
<1>2. CASE Next
    BY <1>2, PromptsKeepOrder, AcceptCommitKeepsOrder, AcceptReplyKeepsOrder,
       CancellationsKeepOrder,
       DeleteWriteKeepsOrder, ProcessKeepsOrder, LoopKeepsOrder, TakeJobKeepsOrder,
       JobEventsKeepOrder,
       AppendCancelKeepsOrder, QuietSteps, QuietKeepsOrder
       DEF Next, Requests, LifecycleSteps, StoreFails
<1> QED
    BY <1>1, <1>2

\* A session without events.
LEMMA InitOrder == Init => Order
<1> SUFFICES ASSUME Init PROVE Order
    OBVIOUS
<1>1. /\ db.events = <<>> /\ lc.doomed = <<>> /\ runtime.jobs = <<>> /\ lc.job = None
      /\ Committed = {}
    BY DEF Init, InitialLocals, Committed
<1>2. DOMAIN db.events = {} /\ Positions("prompt.accepted") = {}
    BY <1>1 DEF Positions
<1>3. Doomed = {} /\ Jobs = {} /\ Job = {} /\ Len(lc.doomed) = 0 /\ Len(runtime.jobs) = 0
    BY <1>1 DEF Doomed, Jobs, Job, Members
<1>4. \A p : ~Worked(p)
    BY <1>2 DEF Worked
<1>5. QueueInOrder /\ WorkInOrder
    BY <1>1, <1>3, <1>4 DEF QueueInOrder, WorkInOrder, InOrder
<1> QED
    BY <1>1, <1>2, <1>5 DEF Order, AcceptedOnce, Unheard, CommitsHoldLock, JobOutcomes,
       PromptsRunInOrder, OutcomesAreFinal

\* Prompts run one at a time in the order in which acceptPrompt stored them, an
\* outcome is the last event of its prompt, and the queue of jobs agrees with both.
THEOREM SessionOrder == Spec => []Order
BY InitOrder, OrderStep, SessionControl, PTL DEF Spec

-----------------------------------------------------------------------------
(* The history of messages *)

Finished == {EventOf(i).prompt : i \in Positions("agent.finished")}

\* The row reads as running only while a prompt runs; the row's history holds what
\* was finished but between the last event of a prompt and its first write, and
\* meanwhile the lifecycle's own copy holds it.
Kept ==
    process.faults = 0 /\ lc.pc # "ended" =>
        /\ db.state = "running" =>
              \/ lc.pc \in {"readRunning", "load", "execute", "appendAgent", "save"}
              \/ lc.pc = "checkRunning" /\ lc.seen = "running"
        /\ lc.pc \notin {"save", "saved"} \cup Over => Finished \subseteq Members(db.messages)
        /\ lc.pc \in {"execute", "appendAgent", "save", "saved", "resave", "resaved"} =>
              Finished \subseteq Members(lc.messages)
        /\ lc.pc \in {"execute", "appendAgent"} => lc.job \in Members(lc.messages)

\* A step without an event.
LEMMA SameFinished ==
    ASSUME db'.events = db.events
    PROVE  Finished' = Finished
BY DEF Finished, Positions, EventOf

\* Only agent.finished adds to what the agent finished.
LEMMA FinishedGrows ==
    ASSUME Base, NEW p \in Prompts, NEW type \in Types,
           db' = [db EXCEPT !.events = Append(@, Event(p, type))]
    PROVE  /\ Finished' = IF type = "agent.finished" THEN Finished \cup {p} ELSE Finished
           /\ db'.messages = db.messages /\ db'.state = db.state
<1> DEFINE n == Len(db.events)
<1>1. /\ n \in Nat /\ DOMAIN db.events = 1..n /\ DOMAIN db'.events = 1..(n + 1)
      /\ \A i \in 1..n : EventOf(i)' = EventOf(i)
      /\ \A i : i = n + 1 => EventOf(i)'.prompt = p /\ EventOf(i)'.type = type
    BY NewEvent
<1> HIDE DEF n
<1>2. /\ Positions("agent.finished") \subseteq 1..n
      /\ Positions("agent.finished")' =
            IF type = "agent.finished" THEN Positions("agent.finished") \cup {n + 1}
                                       ELSE Positions("agent.finished")
    BY <1>1 DEF Positions
<1>3. Finished' = IF type = "agent.finished" THEN Finished \cup {p} ELSE Finished
    BY <1>1, <1>2 DEF Finished
<1> QED
    BY <1>3, Stored DEF Base

\* What the statements and continuations of the lifecycle do to the history.
LEMMA StatementsKeepHistory ==
    ASSUME Base, Kept,
           Create \/ Created \/ Grant \/ Acquired \/ AcquireRejects \/ MarkReady \/ ReadReady
           \/ PublishReady \/ StopLoop \/ TakeJob \/ Sleep \/ MarkRunning \/ ReadRunning
           \/ StartPrompt \/ DropJob \/ AgentYields \/ AgentThrows \/ Save \/ Saved \/ FindRecord
           \/ Resave \/ Resaved \/ PublishPrompt \/ CancelJob \/ JobsCancelled \/ Released
           \/ ReadFinish \/ WriteFinish \/ PublishFinish
    PROVE  Kept'
<1>0. /\ DOMAIN lc = Fields /\ db \in Rows /\ process \in Processes
      /\ lc.pc = "none" => db.state = "absent"
      /\ lc.seen \in States
    BY DEF Base, TypeOK, LocalsTyped, Control
<1>a. Finished' = Finished
    BY <1>0, SameFinished DEF Create, Created, Grant, Acquired, AcquireRejects, MarkReady,
       ReadReady, PublishReady,
       StopLoop, TakeJob, Sleep, MarkRunning, ReadRunning, StartPrompt, DropJob, AgentYields,
       AgentThrows, Save, Saved, FindRecord, Resave, Resaved, PublishPrompt, CancelJob,
       JobsCancelled, Released, ReadFinish, WriteFinish, PublishFinish, Mark, ReadRow,
       FinishPromptUpdate, SavedMessages, Rows
<1> USE <1>0, <1>a DEF Kept, Rows, Processes, Fields, At, Goto, Over, terminal
<1>1. CASE Create
    BY <1>1 DEF Create
<1>2. CASE Created
    BY <1>2 DEF Created
<1>3. CASE Grant
    BY <1>3 DEF Grant
<1>4. CASE Acquired
    BY <1>4, ZenonT(30) DEF Acquired, Catch, Goto
<1>5. CASE AcquireRejects
    BY <1>5 DEF AcquireRejects, Catch
<1>6. CASE MarkReady
    BY <1>6 DEF MarkReady, Mark
<1>7. CASE ReadReady
    BY <1>7 DEF ReadReady, ReadRow
<1>8. CASE PublishReady
    BY <1>8 DEF PublishReady
<1>9. CASE StopLoop
    BY <1>9 DEF StopLoop, Finally
<1>10. CASE TakeJob
    BY <1>10 DEF TakeJob
<1>11. CASE Sleep
    BY <1>11 DEF Sleep
<1>12. CASE MarkRunning
    BY <1>12 DEF MarkRunning, Mark
<1>13. CASE ReadRunning
    BY <1>13 DEF ReadRunning, ReadRow
<1>14. CASE StartPrompt
    BY <1>14 DEF StartPrompt
<1>15. CASE DropJob
    BY <1>15 DEF DropJob
<1>16. CASE AgentYields
    BY <1>16 DEF AgentYields
<1>17. CASE AgentThrows
    BY <1>17 DEF AgentThrows
<1>18. CASE Save
    BY <1>18 DEF Save, FinishPromptUpdate
<1>19. CASE Saved
    BY <1>19 DEF Saved, SavedMessages
<1>20. CASE FindRecord
    BY <1>20 DEF FindRecord
<1>21. CASE Resave
    BY <1>21 DEF Resave, FinishPromptUpdate
<1>22. CASE Resaved
    BY <1>22 DEF Resaved, SavedMessages
<1>23. CASE PublishPrompt
    BY <1>23, ZenonT(30) DEF PublishPrompt, Catch
<1>24. CASE CancelJob
    BY <1>24 DEF CancelJob
<1>25. CASE JobsCancelled
    BY <1>25 DEF JobsCancelled, Finally
<1>26. CASE Released
    BY <1>26 DEF Released, InitialLocals
<1>27. CASE ReadFinish
    BY <1>27 DEF ReadFinish
<1>28. CASE WriteFinish
    BY <1>28 DEF WriteFinish
<1>29. CASE PublishFinish
    BY <1>29 DEF PublishFinish, End, InitialLocals
<1> QED
    BY <1>1, <1>2, <1>3, <1>4, <1>5, <1>6, <1>7, <1>8, <1>9, <1>10, <1>11, <1>12, <1>13, <1>14,
       <1>15, <1>16, <1>17, <1>18, <1>19, <1>20, <1>21, <1>22, <1>23, <1>24, <1>25, <1>26, <1>27,
       <1>28, <1>29

\* The history in memory is the stored one and the prompt, and what the agent
\* finishes is the prompt.
LEMMA PromptKeepsHistory ==
    ASSUME Base, Kept, LoadHistory \/ AppendAgent \/ AppendOutcome \/ AppendCancel
    PROVE  Kept'
<1>0. /\ DOMAIN lc = Fields /\ lc.job \in Prompts \cup {None} /\ lc.next \in Types
      /\ lc.pc \in InPrompt => lc.job \in Prompts
      /\ lc.pc = "appendOutcome" => lc.next \in {"agent.cancelled", "agent.failed"}
      /\ db.messages \in Seq(Prompts) /\ process' = process
    BY DEF Base, TypeOK, LocalsTyped, Rows, LoadHistory, AppendAgent, AppendOutcome, AppendCancel
<1>1. CASE LoadHistory
    <2>1. Members(Append(db.messages, lc.job)) = Members(db.messages) \cup {lc.job}
        <3>1. lc.job \in Prompts
            BY <1>0, <1>1 DEF LoadHistory, At, InPrompt
        <3>2. /\ Len(Append(db.messages, lc.job)) = Len(db.messages) + 1 /\ Len(db.messages) \in Nat
              /\ \A i \in 1..Len(db.messages) : Append(db.messages, lc.job)[i] = db.messages[i]
              /\ Append(db.messages, lc.job)[Len(db.messages) + 1] = lc.job
            BY <1>0, <3>1
        <3> QED
            BY <3>2 DEF Members
    <2>2. /\ lc'.pc = "execute" /\ lc'.job = lc.job /\ lc'.messages = Append(db.messages, lc.job)
          /\ db' = db /\ lc.pc = "load" /\ Finished' = Finished
        BY <1>0, <1>1, SameFinished DEF LoadHistory, At, Fields
    <2> QED
        BY <1>0, <2>1, <2>2 DEF Kept, Over, Members
<1>2. CASE AppendAgent
    <2>1. /\ lc.pc = "appendAgent" /\ lc'.messages = lc.messages /\ lc'.job = lc.job
          /\ lc'.pc = IF lc.next = "agent.started" THEN "execute" ELSE "save"
        <3>1. CASE lc.next = "agent.started"
            BY <1>0, <1>2, <3>1 DEF AppendAgent, At, Fields
        <3>2. CASE lc.next # "agent.started"
            BY <1>0, <1>2, <3>2 DEF AppendAgent, At, Fields
        <3> QED
            BY <3>1, <3>2
    <2>2. /\ Finished' = IF lc.next = "agent.finished" THEN Finished \cup {lc.job} ELSE Finished
          /\ db'.messages = db.messages /\ db'.state = db.state
        BY <1>0, <1>2, <2>1, FinishedGrows DEF AppendAgent, InPrompt
    <2> QED
        BY <1>0, <2>1, <2>2 DEF Kept, Over, Members
<1>3. CASE AppendOutcome
    <2>1. /\ lc.pc = "appendOutcome" /\ lc'.pc = "find"
        BY <1>0, <1>3 DEF AppendOutcome, At, Goto, Fields
    <2>2. Finished' = Finished /\ db'.messages = db.messages /\ db'.state = db.state
        BY <1>0, <1>3, <2>1, FinishedGrows DEF AppendOutcome, InPrompt
    <2> QED
        BY <1>0, <2>1, <2>2 DEF Kept, Over, Members
<1>4. CASE AppendCancel
    <2>1. /\ lc.pc = "appendCancel" /\ lc'.pc = "cancelJobs"
        BY <1>0, <1>4 DEF AppendCancel, At, Fields
    <2>2. Head(lc.doomed) \in Prompts
        BY <2>1 DEF Base, TypeOK, LocalsTyped, Control
    <2>3. {"agent.failed", "agent.cancelled"} \subseteq Types \ {"agent.finished"}
        BY DEF Types, Outcomes
    <2>4. Finished' = Finished /\ db'.messages = db.messages /\ db'.state = db.state
        <3>1. CASE lc.failed
            BY <1>4, <2>2, <2>3, <3>1, FinishedGrows DEF AppendCancel
        <3>2. CASE ~lc.failed
            BY <1>4, <2>2, <2>3, <3>2, FinishedGrows DEF AppendCancel
        <3> QED
            BY <3>1, <3>2
    <2> QED
        BY <1>0, <2>1, <2>4 DEF Kept, Over, Members
<1> QED
    BY <1>1, <1>2, <1>3, <1>4

\* Requests do not touch the history, and no request makes a session run.
LEMMA RequestsKeepHistory ==
    ASSUME Base, Kept, Requests \/ Dispose
    PROVE  Kept'
<1>0. DOMAIN lc = Fields /\ db \in Rows /\ process \in Processes
    BY DEF Base, TypeOK, LocalsTyped
<1>1. CASE DeleteWrite
    BY <1>0, <1>1 DEF DeleteWrite, Kept, Base, Control, Over
<1>2. CASE ~DeleteWrite
    <2>1. lc' = lc \/ lc' = Woken(lc)
        BY <1>2 DEF Requests, Dispose, RefusePrompt, Prompt, AcceptRead, AcceptCommit, AcceptReply,
           TerminateRead, TerminateWrite, TerminateReply, DeleteRead
    <2>2. /\ lc'.job = lc.job /\ lc'.messages = lc.messages /\ lc'.seen = lc.seen
          /\ lc'.pc = lc.pc \/ (lc.pc = "asleep" /\ lc'.pc = "next")
        BY <1>0, <2>1 DEF Woken, Fields
    <2>3. /\ db'.messages = db.messages /\ Finished' = Finished
          /\ db'.state = "running" => db.state = "running"
        <3>1. CASE \E p \in Prompts : AcceptCommit(p)
            <4>1. PICK p \in Prompts : AcceptCommit(p)
                BY <3>1
            <4>2. CASE db.state \in Missing
                BY <4>1, <4>2, SameFinished DEF AcceptCommit
            <4>3. CASE db.state \notin Missing
                <5>1. "prompt.accepted" \in Types
                    BY DEF Types
                <5> QED
                    BY <4>1, <4>3, <5>1, FinishedGrows DEF AcceptCommit
            <4> QED
                BY <4>2, <4>3
        <3>2. CASE \E t \in Terminations : TerminateWrite(t)
            BY <1>0, <3>2, SameFinished DEF TerminateWrite, Rows
        <3>3. CASE db' = db
            BY <3>3, SameFinished
        <3> QED
            BY <1>2, <3>1, <3>2, <3>3 DEF Requests, Dispose, RefusePrompt, Prompt, AcceptRead,
               AcceptReply, TerminateRead, TerminateReply, DeleteRead
    <2>4. process'.faults = process.faults
        BY <1>0, <1>2 DEF Requests, Dispose, RefusePrompt, Prompt, AcceptRead, AcceptCommit,
           AcceptReply,
           TerminateRead, TerminateWrite, TerminateReply, DeleteRead, Processes
    <2> QED
        BY <2>2, <2>3, <2>4 DEF Kept, Over, Members
<1> QED
    BY <1>1, <1>2

\* Every step.
LEMMA KeptStep ==
    ASSUME Base, Kept, [Next]_vars
    PROVE  Kept'
<1>0. TypeOK
    BY DEF Base
<1>1. CASE UNCHANGED vars
    BY <1>1, SameFinished DEF vars, Kept, Members
<1>2. CASE StoreFails
    <2>1. process'.faults > 0
        BY <1>0, <1>2, FaultsCount DEF StoreFails, StoreFailsInLoop, StoreFailsInPrompt,
           StoreFailsInOutcome, StoreFailsInCancel, StoreFailsInFinish, Fault, Faulted
    <2> QED
        BY <2>1 DEF Kept
<1>3. CASE Exit
    BY <1>0, <1>3, SameFinished DEF Exit, Kept, Members, TypeOK, Processes
<1>4. CASE Crash
    <2>1. /\ db' = db /\ process'.faults = process.faults
          /\ lc'.pc = IF lc.pc = "none" THEN "none" ELSE "ended"
        BY <1>0, <1>4 DEF Crash, InitialLocals, TypeOK, Processes
    <2> QED
        BY <2>1, SameFinished DEF Kept, Members
<1>5. CASE Restart
    <2>1. db'.state # "running" \/ db'.state = db.state
        BY <1>0, <1>5 DEF Restart, TypeOK, Rows
    <2>2. lc' = lc /\ process'.faults = process.faults /\ Finished' = Finished
            /\ db'.messages = db.messages
        BY <1>0, <1>5, SameFinished DEF Restart, TypeOK, Rows, Processes
    <2> QED
        BY <2>1, <2>2 DEF Kept, Members
<1>6. CASE Next
    BY <1>2, <1>3, <1>4, <1>5, <1>6, StatementsKeepHistory, PromptKeepsHistory, RequestsKeepHistory
       DEF Next, LifecycleSteps
<1> QED
    BY <1>1, <1>6

\* Nothing is finished at first.
LEMMA InitKept == Init => Kept
BY DEF Init, InitialLocals, Kept, Finished, Positions, EventOf

\* The stored events and messages of a session tell one history: finishPrompt and
\* runJob, which write the messages from records read at different times, lose
\* nothing the agent finished unless the store failed.
THEOREM SessionHistory == Spec => []HistoryIsConsistent
<1>1. Spec => []Kept
    BY InitKept, KeptStep, SessionControl, PTL DEF Spec
<1>2. Base /\ Kept => FinishedPromptsAreKept
    BY DEF Base, TypeOK, Rows, Kept, Over, FinishedPromptsAreKept, Finished, Members, Contains
<1>3. Base /\ Order /\ Kept => HistoryIsConsistent
    BY <1>2 DEF Order, HistoryIsConsistent
<1> QED
    BY <1>1, <1>3, SessionControl, SessionOrder, PTL
=============================================================================
