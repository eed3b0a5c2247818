----------------------------- MODULE AgentLoop -----------------------------
(***************************************************************************)
(* The agent of packages/agent: complete and stream, which share one       *)
(* message storage and one tool-call ledger and refuse to run at the same  *)
(* time.  A run pushes the caller's input, then takes turns with the       *)
(* provider: it rejects invalid replies within a budget of repairs, runs   *)
(* the tools of valid ones in order, and ends with an answer.              *)
(*                                                                         *)
(* A reply is its number of tool calls and what validation says of them.   *)
(* An action is what happens between two awaits or yields.  The provider,  *)
(* the tools and the caller's callbacks may fail at each of them, and the  *)
(* consumer of a stream may leave it at each yield, which runs its finally *)
(* block.  maxTurns is always given, as by agents/doric.                   *)
(***************************************************************************)
EXTENDS Naturals, Sequences, FiniteSets, FiniteSetsExt

CONSTANTS
    Callers,     \* concurrent users of one agent
    MaxTurns,    \* bound on the option maxTurns, positive
    MaxRepairs,  \* bound on the option maxToolCallRepairs
    MaxCalls,    \* bound on the tool calls of a reply, positive
    MaxRuns      \* bound on the runs of the agent

ASSUME AgentBounds == MaxTurns \in Nat /\ MaxRepairs \in Nat /\ MaxCalls \in Nat \ {0}

VARIABLES
    acquired,  \* the flag running of acquire and release
    messages,  \* the message storage
    toolCalls, \* the ledger: the calls whose results were recorded
    invoked,   \* the calls whose handlers were started
    run,       \* the locals of each caller's run
    runs       \* how many runs began

agentVars == <<acquired, messages, toolCalls, invoked, run, runs>>

-----------------------------------------------------------------------------
(* Replies and messages *)

\* What validation finds in a reply: ordinary calls that are all valid or
\* not, plain text, or a call of the terminal tool of a structured run: one
\* that fits its schema; one that fits once composed with the baseline; one
\* whose issues are all repairable leaves; one that is not JSON or whose
\* issues are not; or a submission mixed with other calls.
Ordinary == {"valid", "invalid"}
Submitted == {"fits", "composes", "repairable", "broken"}

Replies(structured) ==
    [calls : {0}, verdict : {"text"}]
        \cup [calls : 1..MaxCalls, verdict : Ordinary]
        \cup IF structured
             THEN [calls : {1}, verdict : Submitted] \cup [calls : 2..MaxCalls, verdict : {"mixed"}]
             ELSE {}

User == [role |-> "user"]
Assistant(reply) == [role |-> "assistant", calls |-> reply.calls, verdict |-> reply.verdict]
Result(k) == [role |-> "tool", call |-> k, status |-> "completed"]
Incomplete(k) == [role |-> "tool", call |-> k, status |-> "incomplete"]

Answer == [calls |-> 0, verdict |-> "answer"]

\* storeAssistant followed by pushIncompleteToolResults
Rejection(reply) == <<Assistant(reply)>> \o [k \in 1..reply.calls |-> Incomplete(k)]

\* validatedCalls does not throw
ValidCalls(reply) == reply.verdict \in {"text", "valid"}

\* parseStructuredOutputTool
Submission(reply, baseline) ==
    CASE reply.verdict \in Ordinary -> "continue"
      [] reply.verdict = "fits" -> "finished"
      [] reply.verdict = "composes" /\ baseline -> "finished"
      [] OTHER -> "invalid"

-----------------------------------------------------------------------------
(* A run *)

NoRun == [pc |-> "idle", mode |-> "complete", structured |-> FALSE, maxTurns |-> 1,
          maxRepairs |-> 0, start |-> 1, turns |-> 0, invalid |-> 0, correction |-> FALSE,
          corrected |-> FALSE, baseline |-> FALSE, reply |-> Answer, shown |-> 0, next |-> 0]

\* The message storage may be created with the history of an earlier prompt.
AgentInit ==
    /\ acquired = FALSE
    /\ messages \in {<<>>, <<User, Assistant(Answer)>>}
    /\ toolCalls = <<>>
    /\ invoked = <<>>
    /\ run = [c \in Callers |-> NoRun]
    /\ runs = 0

AtPlace(c, pc) == run[c].pc = pc
MoveTo(c, pc) == run' = [run EXCEPT ![c].pc = pc]
Streams(c) == run[c].mode = "stream"

\* A run ends: its locals are gone and its finally block releases the agent.
End(c) ==
    /\ run' = [run EXCEPT ![c] = NoRun]
    /\ acquired' = FALSE

\* Bug: the agent is acquired inside the try block, so a refused run releases it.
Refuse_Releases(c) ==
    /\ AtPlace(c, "idle")
    /\ acquired
    /\ acquired' = FALSE
    /\ UNCHANGED <<messages, toolCalls, invoked, run, runs>>

\* acquire throws concurrent_run
Refuse(c) ==
    /\ AtPlace(c, "idle")
    /\ acquired
    /\ UNCHANGED agentVars

\* A run begins; a stream yields agent.started first.
Begin(c) ==
    /\ AtPlace(c, "idle")
    /\ ~acquired
    /\ runs < MaxRuns
    /\ runs' = runs + 1
    /\ acquired' = TRUE
    /\ messages' = Append(messages, User)
    /\ \E mode \in {"complete", "stream"}, structured \in BOOLEAN,
          maxTurns \in 1..MaxTurns, maxRepairs \in 0..MaxRepairs :
          run' = [run EXCEPT ![c] =
             [NoRun EXCEPT !.pc = IF mode = "stream" THEN "started" ELSE "turn",
                           !.mode = mode, !.structured = structured, !.maxTurns = maxTurns,
                           !.maxRepairs = maxRepairs, !.start = Len(messages) + 1]]
    /\ UNCHANGED <<toolCalls, invoked>>

\* The input is stored before outputTool and repairLimit look at the options.
BeginFails(c) ==
    /\ AtPlace(c, "idle")
    /\ ~acquired
    /\ runs < MaxRuns
    /\ runs' = runs + 1
    /\ messages' = Append(messages, User)
    /\ UNCHANGED <<acquired, toolCalls, invoked, run>>

StreamStarted(c) ==
    /\ AtPlace(c, "started")
    /\ MoveTo(c, "turn")
    /\ UNCHANGED <<acquired, messages, toolCalls, invoked, runs>>

\* beginTurn, buildRequest and the call of the provider
Request(c) ==
    /\ AtPlace(c, "turn")
    /\ run[c].turns < run[c].maxTurns
    /\ run' = [run EXCEPT ![c].pc = "asked", ![c].turns = @ + 1,
                          ![c].corrected = run[c].correction, ![c].correction = FALSE]
    /\ UNCHANGED <<acquired, messages, toolCalls, invoked, runs>>

\* beginTurn throws turn_limit_exceeded
TurnLimit(c) ==
    /\ AtPlace(c, "turn")
    /\ run[c].turns >= run[c].maxTurns
    /\ End(c)
    /\ UNCHANGED <<messages, toolCalls, invoked, runs>>

\* complete or the stream throws, or the stream ends without a finish; a
\* stream may also throw after its finish, before the reply is stored.
ProviderFails(c) ==
    /\ AtPlace(c, "asked") \/ AtPlace(c, "shown") \/ (AtPlace(c, "accepted") /\ Streams(c))
    /\ End(c)
    /\ UNCHANGED <<messages, toolCalls, invoked, runs>>

-----------------------------------------------------------------------------
(* Structured submissions *)

\* Bug: the budget admits one more repair.
BudgetLeft_OneMore(c) == run[c].invalid <= run[c].maxRepairs

\* Rejected submissions and rejected batches share one budget.
BudgetLeft(c) == run[c].invalid < run[c].maxRepairs

\* The rejected reply is kept for replay with an incomplete result for each
\* of its calls; onStructuredAttempt is told whether a repair follows.
RejectSubmission(c, reply) ==
    /\ AtPlace(c, "asked")
    /\ run[c].structured
    /\ Submission(reply, run[c].baseline) = "invalid"
    /\ messages' = messages \o Rejection(reply)
    /\ run' = [run EXCEPT ![c].pc = IF BudgetLeft(c) THEN "attempted" ELSE "exhausted",
                          ![c].reply = reply]
    /\ UNCHANGED <<acquired, toolCalls, invoked, runs>>

\* onStructuredAttempt returned, and the last error is thrown.
Exhausted(c) ==
    /\ AtPlace(c, "exhausted")
    /\ End(c)
    /\ UNCHANGED <<messages, toolCalls, invoked, runs>>

\* onStructuredAttempt returned, and a repair begins.
Attempted(c) ==
    /\ AtPlace(c, "attempted")
    /\ run' = [run EXCEPT ![c].pc = "repairing", ![c].invalid = @ + 1,
                          ![c].baseline = run[c].reply.verdict \in {"composes", "repairable"}]
    /\ UNCHANGED <<acquired, messages, toolCalls, invoked, runs>>

\* onToolCallRepair returned; a stream closed its provider stream.
Repaired(c) ==
    /\ AtPlace(c, "repairing")
    /\ run' = [run EXCEPT ![c].pc = "turn", ![c].correction = TRUE]
    /\ UNCHANGED <<acquired, messages, toolCalls, invoked, runs>>

AcceptSubmission(c, reply) ==
    /\ AtPlace(c, "asked")
    /\ run[c].structured
    /\ Submission(reply, run[c].baseline) = "finished"
    /\ run' = [run EXCEPT ![c].pc = "accepted", ![c].baseline = FALSE]
    /\ UNCHANGED <<acquired, messages, toolCalls, invoked, runs>>

\* onStructuredAttempt returned; the submission is stored as a plain answer.
StoreSubmission(c) ==
    /\ AtPlace(c, "accepted")
    /\ messages' = Append(messages, Assistant(Answer))
    /\ IF Streams(c)
       THEN /\ run' = [run EXCEPT ![c].pc = "buffered", ![c].reply = Answer]
            /\ UNCHANGED acquired
       ELSE End(c)
    /\ UNCHANGED <<toolCalls, invoked, runs>>

-----------------------------------------------------------------------------
(* Ordinary replies *)

\* Where a run goes with a valid reply: a structured stream has events to
\* yield first, and a stream that ends yields agent.finished.
Stored(c, reply) ==
    IF Streams(c) /\ run[c].structured THEN "buffered"
    ELSE IF reply.calls = 0 THEN "finished" ELSE "calling"

\* Bug: an ordinary reply leaves the baseline in place.
OrdinaryTurn_KeepsBaseline(r) == r

\* An ordinary reply ends a pending repair of a submission.
OrdinaryTurn(r) == [r EXCEPT !.baseline = FALSE]

\* The reply is stored, then all its calls are validated before any tool
\* runs.  A rejected batch counts against the same budget of repairs.
StoreReply(c, reply) ==
    /\ IF ValidCalls(reply)
       THEN /\ messages' = Append(messages, Assistant(reply))
            /\ IF reply.calls = 0 /\ ~Streams(c)
               THEN End(c)
               ELSE /\ run' = [run EXCEPT ![c] = [OrdinaryTurn(run[c]) EXCEPT
                                     !.pc = Stored(c, reply), !.reply = reply, !.next = 1]]
                    /\ UNCHANGED acquired
       ELSE /\ messages' = messages \o Rejection(reply)
            /\ IF BudgetLeft(c)
               THEN /\ run' = [run EXCEPT ![c] = [OrdinaryTurn(run[c]) EXCEPT
                                     !.pc = "repairing", !.invalid = @ + 1]]
                    /\ UNCHANGED acquired
               ELSE End(c)
    /\ UNCHANGED <<toolCalls, invoked, runs>>

\* An unstructured stream yields response.finished before it stores the
\* reply; a structured one has buffered it.
ShowReply(c, reply) ==
    /\ AtPlace(c, "asked")
    /\ Streams(c) /\ ~run[c].structured
    /\ reply.verdict \in Ordinary \cup {"text"}
    /\ run' = [run EXCEPT ![c].pc = "shown", ![c].reply = reply, ![c].shown = @ + 1]
    /\ UNCHANGED <<acquired, messages, toolCalls, invoked, runs>>

ShownReply(c) == AtPlace(c, "shown") /\ StoreReply(c, run[c].reply)

AnswerReply(c, reply) ==
    /\ AtPlace(c, "asked")
    /\ IF run[c].structured
       THEN Submission(reply, run[c].baseline) = "continue"
       ELSE ~Streams(c) /\ reply.verdict \in Ordinary \cup {"text"}
    /\ StoreReply(c, reply)

\* A structured stream yields the events it buffered, then runs the tools or yields
\* agent.finished.
Deliver(c) ==
    /\ AtPlace(c, "buffered")
    /\ run' = [run EXCEPT ![c].pc = IF run[c].reply.calls = 0 THEN "finished" ELSE "calling",
                          ![c].shown = @ + 1]
    /\ UNCHANGED <<acquired, messages, toolCalls, invoked, runs>>

\* The consumer took agent.finished, and the generator returns.
Finish(c) ==
    /\ AtPlace(c, "finished")
    /\ End(c)
    /\ UNCHANGED <<messages, toolCalls, invoked, runs>>

-----------------------------------------------------------------------------
(* Tools *)

Call(c) == [run |-> runs, message |-> Len(messages) - run[c].next + 1, call |-> run[c].next]

\* tool.started was taken, and the handler is called.
StartTool(c) ==
    /\ AtPlace(c, "calling")
    /\ invoked' = Append(invoked, Call(c))
    /\ MoveTo(c, "executing")
    /\ UNCHANGED <<acquired, messages, toolCalls, runs>>

\* The result is recorded in the ledger and in the messages.
ToolSucceeds(c) ==
    /\ AtPlace(c, "executing")
    /\ toolCalls' = Append(toolCalls, Call(c))
    /\ messages' = Append(messages, Result(run[c].next))
    /\ MoveTo(c, "observed")
    /\ UNCHANGED <<acquired, invoked, runs>>

\* Bug: a result is recorded before it is serialized.
ToolFails_Recorded(c) ==
    /\ AtPlace(c, "executing")
    /\ toolCalls' = Append(toolCalls, Call(c))
    /\ MoveTo(c, "failing")
    /\ UNCHANGED <<acquired, messages, invoked, runs>>

\* The handler, the serialization of its input or result, or the observation
\* ID fails: nothing is recorded.
ToolFails(c) ==
    /\ AtPlace(c, "executing")
    /\ MoveTo(c, "failing")
    /\ UNCHANGED <<acquired, messages, toolCalls, invoked, runs>>

\* tool.finished was taken.
Observed(c) ==
    /\ AtPlace(c, "observed")
    /\ IF run[c].next = run[c].reply.calls
       THEN MoveTo(c, "turn")
       ELSE run' = [run EXCEPT ![c].pc = "calling", ![c].next = @ + 1]
    /\ UNCHANGED <<acquired, messages, toolCalls, invoked, runs>>

\* onToolEvent throws on tool.finished inside the try block of the tool, so
\* the call that was recorded is reported as failed, too.
ObserverThrows(c) ==
    /\ AtPlace(c, "observed")
    /\ MoveTo(c, "failing")
    /\ UNCHANGED <<acquired, messages, toolCalls, invoked, runs>>

\* tool.failed was taken, and the error ends the run.
ToolFailed(c) ==
    /\ AtPlace(c, "failing")
    /\ End(c)
    /\ UNCHANGED <<messages, toolCalls, invoked, runs>>

-----------------------------------------------------------------------------
(* The caller *)

\* onStructuredAttempt, onToolCallRepair or onToolEvent throws.
CallbackThrows(c) ==
    /\ run[c].pc \in {"exhausted", "attempted", "repairing", "accepted", "calling", "failing"}
    /\ End(c)
    /\ UNCHANGED <<messages, toolCalls, invoked, runs>>

Yields == {"started", "shown", "buffered", "calling", "observed", "failing", "finished"}

\* The consumer of a stream leaves it at a yield.
Leave(c) ==
    /\ Streams(c)
    /\ run[c].pc \in Yields
    /\ End(c)
    /\ UNCHANGED <<messages, toolCalls, invoked, runs>>

-----------------------------------------------------------------------------

ReceiveReply(c) ==
    \E reply \in Replies(run[c].structured) :
        \/ RejectSubmission(c, reply)
        \/ AcceptSubmission(c, reply)
        \/ ShowReply(c, reply)
        \/ AnswerReply(c, reply)

\* What a run does when its provider, its tools and its consumer go on.
Proceed(c) ==
    \/ StreamStarted(c) \/ Request(c) \/ TurnLimit(c) \/ ReceiveReply(c)
    \/ Exhausted(c) \/ Attempted(c) \/ Repaired(c) \/ StoreSubmission(c)
    \/ ShownReply(c) \/ Deliver(c) \/ Finish(c)
    \/ StartTool(c) \/ ToolSucceeds(c) \/ Observed(c) \/ ToolFailed(c)

RunFails(c) ==
    ProviderFails(c) \/ ToolFails(c) \/ ObserverThrows(c) \/ CallbackThrows(c) \/ Leave(c)

AgentNext ==
    \E c \in Callers : Begin(c) \/ BeginFails(c) \/ Refuse(c) \/ Proceed(c) \/ RunFails(c)

AgentSpec == AgentInit /\ [][AgentNext]_agentVars

-----------------------------------------------------------------------------
(* Properties *)

\* Every call of an assistant message is followed by its result, in order,
\* and every result follows its call.
IsTool(h, i) == i \in DOMAIN h /\ h[i].role = "tool"
Answered(h) ==
    /\ \A i \in DOMAIN h : h[i].role = "assistant" =>
          \A k \in 1..h[i].calls : IsTool(h, i + k) /\ h[i + k].call = k
    /\ \A i \in DOMAIN h : h[i].role = "tool" =>
          \E j \in 1..(i - 1) : h[j].role = "assistant" /\ h[j].calls >= i - j

\* The ledger holds exactly the calls whose results the messages hold as
\* completed, each behind its reply and in this order, however tools,
\* callbacks and consumers fail.
Completed(h, i) == IsTool(h, i) /\ h[i].status = "completed"
Position(entry) == entry.message + entry.call
LedgerAgrees ==
    /\ \A i \in DOMAIN toolCalls :
          /\ messages[toolCalls[i].message].role = "assistant"
          /\ toolCalls[i].call <= messages[toolCalls[i].message].calls
          /\ Completed(messages, Position(toolCalls[i]))
          /\ messages[Position(toolCalls[i])].call = toolCalls[i].call
    /\ \A i, j \in DOMAIN toolCalls : i < j => Position(toolCalls[i]) < Position(toolCalls[j])
    /\ \A n \in DOMAIN messages : Completed(messages, n) =>
          \E i \in DOMAIN toolCalls : Position(toolCalls[i]) = n

\* A whole batch is validated before any handler runs: a handler runs at most
\* once for a call, in the order of the calls, and only for calls of a reply
\* that is entirely valid.
HandlersRunValidCalls ==
    /\ \A i \in DOMAIN invoked : messages[invoked[i].message].verdict = "valid"
    /\ \A i, j \in DOMAIN invoked : i < j =>
          \/ invoked[i].message < invoked[j].message
          \/ invoked[i].message = invoked[j].message /\ invoked[i].call < invoked[j].call

\* The last turn of a run was rejected: its calls have incomplete results, or
\* it is a text that should have been a submission.
EndsRejected(h) ==
    \/ h[Len(h)].role = "tool" /\ h[Len(h)].status = "incomplete"
    \/ h[Len(h)].role = "assistant"

\* The rejected submission that a baseline comes from.
EndsWithBaseline(h) ==
    /\ h[Len(h) - 1].role = "assistant"
    /\ h[Len(h) - 1].verdict \in {"composes", "repairable"}

\* What ran, what the ledger holds and what the messages say agree.
LedgerMatchesMessages == LedgerAgrees /\ HandlersRunValidCalls

\* A correction is sent in the request after a rejected reply and in no
\* other, and a submission is composed only with the one rejected in the turn
\* before: an ordinary tool turn in between has discarded it.
CorrectionsAreTransient ==
    \A c \in Callers : run[c].pc = "asked" =>
        /\ run[c].corrected <=> run[c].turns > 1 /\ EndsRejected(messages)
        /\ run[c].baseline => run[c].corrected /\ EndsWithBaseline(messages)

\* The rejected replies of run r in the messages h.
Rejected(structured, m) ==
    /\ m.role = "assistant"
    /\ \/ m.verdict \in {"invalid", "mixed"} \cup Submitted
       \/ m.verdict = "text" /\ structured
RejectedTurns(r, h) == Cardinality({i \in r.start..Len(h) : Rejected(r.structured, h[i])})

\* The consumer of a structured stream never sees an event of a rejected turn.
StructuredStreamsHideRejections ==
    \A c \in Callers : Streams(c) /\ run[c].structured =>
        run[c].shown + RejectedTurns(run[c], messages) <= run[c].turns

\* A rejected turn leaves nothing but its one correction: not in later
\* requests, not in the baseline, not with the consumer.
RepairsAreTransient == CorrectionsAreTransient /\ StructuredStreamsHideRejections

\* The unanswered calls of the last reply of run r in the messages h.
Replied(r, h) == {i \in r.start..Len(h) : h[i].role = "assistant"}
Pending(r, h) ==
    IF Replied(r, h) = {} THEN 0 ELSE h[Max(Replied(r, h))].calls - (Len(h) - Max(Replied(r, h)))

\* Whose turn it is in run r.
Turn(r, h) ==
    CASE r.pc \in {"asked", "shown", "accepted"} -> "provider"
      [] r.pc \notin {"asked", "shown", "accepted"} /\ Pending(r, h) > 0 -> "tools"
      [] OTHER -> "caller"

\* complete and stream implement the same conversation: turn limit, shared
\* budget of repairs, results before requests; and on every path a run, one
\* whose consumer left included, releases the agent that only it may hold.
Open == \E c \in Callers : run[c].pc # "idle"
Current == IF Open THEN run[CHOOSE c \in Callers : run[c].pc # "idle"] ELSE NoRun
Conv ==
    INSTANCE Conversation WITH
        phase <- IF Open THEN Turn(Current, messages) ELSE "closed",
        limits <- [turns |-> Current.maxTurns, repairs |-> Current.maxRepairs],
        turns <- Current.turns,
        rejected <- IF Open THEN RejectedTurns(Current, messages) ELSE 0,
        pending <- IF Open THEN Pending(Current, messages) ELSE 0,
        free <- ~acquired

ConversationKept == Conv!ConversationSpec

\* What agents/doric stores and sends as provider-ready history has a result
\* for every call.
HistoryIsProviderReady ==
    \A c \in Callers : run[c].pc = "asked" => Answered(messages)
=============================================================================
