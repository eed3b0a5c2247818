---------------------------- MODULE AgentProofs ----------------------------
(***************************************************************************)
(* The agent, its tools and the stream of its events.                      *)
(*                                                                         *)
(* AgentLoop keeps the ledger of an agent, its repairs and its             *)
(* conversation, for any number of callers, turns, repairs, calls and      *)
(* runs.  One caller at a time has a run.  RunOK says what its locals have *)
(* to do with the messages since its start, at each place of complete and  *)
(* stream; it speaks of a run r, messages h and started handlers v, so     *)
(* that a step only has to compare two such triples.                       *)
(*                                                                         *)
(* TerminalTool accounts for every line of a command, for every output and *)
(* all limits.  The merge of the streams keeps at each of its steps what   *)
(* the lines so far say of the diagnostics; a diagnostic is one line of    *)
(* one stream and the number of its like.                                  *)
(*                                                                         *)
(* EditTool leaves every edit in its place, for every file and every list  *)
(* of edits.  A text is woven of gaps and of what lies between them; a     *)
(* replacement behind a gap does not move what is before it.               *)
(*                                                                         *)
(* EventStream tells its subscribers the current row and implements the    *)
(* feed, for all sets of writers and clients and all bounds.  The feed     *)
(* follows from what a replay holds: the events read and the events        *)
(* buffered are two ranges of sequences, and while the session exists the  *)
(* buffer starts no later than right after the last event read, since the  *)
(* subscription was registered first.  A subscriber that is ready has been *)
(* sent everything that is published.                                      *)
(***************************************************************************)
EXTENDS AgentLoop, EditTool, TerminalTool, EventStream, CommunityLemmas, FiniteSetTheorems

-----------------------------------------------------------------------------
(* AgentLoop: the inductive invariant *)

Verdicts == {"text", "answer", "mixed"} \cup Ordinary \cup Submitted
ReplyRecords == [calls : 0..MaxCalls, verdict : Verdicts]
Messages ==
    {User} \cup {Assistant(reply) : reply \in ReplyRecords}
        \cup {Result(k) : k \in 1..MaxCalls} \cup {Incomplete(k) : k \in 1..MaxCalls}
Calls == [run : Nat, message : Nat, call : Nat]

Asked == {"asked", "shown", "accepted"}
Rejecting == {"attempted", "exhausted"}
BatchPlaces == {"calling", "executing", "observed"}
Places ==
    {"idle", "started", "turn", "repairing", "buffered", "failing", "finished"}
        \cup Asked \cup Rejecting \cup BatchPlaces

Flags(r) ==
    /\ r.structured \in BOOLEAN /\ r.correction \in BOOLEAN
    /\ r.corrected \in BOOLEAN /\ r.baseline \in BOOLEAN
RunTyped(r) ==
    /\ DOMAIN r = DOMAIN NoRun
    /\ Flags(r)
    /\ r.pc \in Places
    /\ r.mode \in {"complete", "stream"}
    /\ r.maxTurns \in 1..MaxTurns /\ r.maxRepairs \in 0..MaxRepairs
    /\ r.start \in Nat /\ r.turns \in Nat /\ r.invalid \in Nat /\ r.shown \in Nat /\ r.next \in Nat
    /\ r.reply \in ReplyRecords

TypeOK ==
    /\ acquired \in BOOLEAN
    /\ messages \in Seq(Messages)
    /\ toolCalls \in Seq(Calls)
    /\ invoked \in Seq(Calls)
    /\ run = [c \in Callers |-> run[c]]
    /\ \A c \in Callers : run[c] = NoRun \/ RunTyped(run[c])
    /\ runs \in Nat

\* The agent is held while somebody has a run, and only one at a time has one.
Engaged(c) == run[c].pc # "idle"
Exclusive ==
    /\ acquired <=> \E c \in Callers : Engaged(c)
    /\ \A c, d \in Callers : Engaged(c) /\ Engaged(d) => c = d
    /\ \A c \in Callers : ~Engaged(c) => run[c] = NoRun

\* What was rejected is counted: once its callback has returned, and never
\* beyond the budget.
Budget(r, h) ==
    /\ RejectedTurns(r, h) = IF r.pc \in Rejecting THEN r.invalid + 1 ELSE r.invalid
    /\ r.invalid <= r.maxRepairs
    /\ r.pc = "attempted" => r.invalid < r.maxRepairs

\* Every turn is rejected or shown, one that is under way neither yet.
Hidden(r, h) ==
    r.mode = "stream" /\ r.structured =>
        r.shown + RejectedTurns(r, h) <=
            IF r.pc \in {"asked", "accepted", "buffered"} THEN r.turns - 1 ELSE r.turns

\* Whether the next request carries a correction can be read off the messages.
Corrections(r, h) ==
    /\ r.pc \notin {"started", "turn"} => r.turns > 0
    /\ r.pc = "started" => r.turns = 0
    /\ r.correction => r.pc = "turn"
    /\ r.pc = "turn" => (r.correction <=> r.turns > 0 /\ EndsRejected(h))
    /\ r.pc = "asked" => (r.corrected <=> r.turns > 1 /\ EndsRejected(h))
    /\ r.pc \in Rejecting \cup {"repairing"} => EndsRejected(h)
    /\ r.pc = "observed" => ~EndsRejected(h)

\* A baseline is that of the last reply until the next is accepted.
Baselines(r, h) ==
    /\ r.pc = "attempted" /\ r.reply.verdict \in {"composes", "repairable"} => EndsWithBaseline(h)
    /\ r.baseline =>
          /\ r.pc \in {"repairing", "turn", "asked", "shown"} \cup Rejecting
          /\ r.pc \in {"repairing", "turn", "asked"} => EndsWithBaseline(h)
          /\ r.pc = "turn" => r.correction
          /\ r.pc = "asked" => r.corrected

\* The calls of the last reply that were answered, those whose handlers were
\* started, and where the reply is.
Answers(r) == IF r.pc = "observed" THEN r.next ELSE r.next - 1
Handled(r) == IF r.pc \in {"executing", "observed"} THEN r.next ELSE r.next - 1
InBatch(r) == r.pc \in BatchPlaces \/ (r.pc = "buffered" /\ r.reply.calls > 0)

BatchAt(r, h, v, p) ==
    /\ p \in r.start..Len(h)
    /\ h[p] = Assistant(r.reply)
    /\ r.reply.verdict = "valid"
    /\ \A i \in (p + 1)..Len(h) : h[i].role = "tool"
    /\ r.next \in 1..r.reply.calls
    /\ \A i \in 1..Len(v) : v[i].message < p \/ (v[i].message = p /\ v[i].call <= Handled(r))

Batches(r, h, v) ==
    /\ InBatch(r) => BatchAt(r, h, v, Len(h) - Answers(r))
    /\ r.pc = "shown" => ~r.structured /\ r.reply \in Replies(FALSE)
    /\ ~InBatch(r) /\ r.pc # "failing" => Pending(r, h) = 0

RunOK(r, h, v) ==
    /\ r.start \in 1..Len(h)
    /\ Budget(r, h)
    /\ Hidden(r, h)
    /\ Corrections(r, h)
    /\ Baselines(r, h)
    /\ Batches(r, h, v)

\* Entries of the ledger and started handlers point at messages that are there.
Points(s, h) == \A i \in 1..Len(s) : s[i].message \in 1..Len(h)

AgentInv ==
    /\ TypeOK
    /\ Exclusive
    /\ Points(toolCalls, messages) /\ LedgerAgrees
    /\ Points(invoked, messages) /\ HandlersRunValidCalls
    /\ \A c \in Callers : Engaged(c) => RunOK(run[c], messages, invoked)

-----------------------------------------------------------------------------
(* Messages *)

\* g is h with message m behind it, and results behind that.
Extends(h, g, m) ==
    /\ h \in Seq(Messages) /\ g \in Seq(Messages)
    /\ Len(g) > Len(h)
    /\ \A i \in 1..Len(h) : g[i] = h[i]
    /\ g[Len(h) + 1] = m
    /\ \A i \in (Len(h) + 2)..Len(g) : g[i].role = "tool" /\ g[i].status = "incomplete"

\* What the code pushes is a message.
LEMMA PushedMessages ==
    /\ User \in Messages
    /\ \A reply \in ReplyRecords : Assistant(reply) \in Messages
    /\ \A k \in 1..MaxCalls : Result(k) \in Messages /\ Incomplete(k) \in Messages
BY DEF Messages

\* push appends one message (Messages.push).
LEMMA AppendExtends ==
    ASSUME NEW h \in Seq(Messages), NEW m \in Messages
    PROVE  /\ Extends(h, Append(h, m), m)
           /\ Len(Append(h, m)) = Len(h) + 1
<1> HIDE DEF Messages
<1>1. QED
    BY DEF Extends

\* The place of a rejected call's result counts from the reply (pushIncompleteToolResults).
LEMMA SumsAssociate ==
    ASSUME NEW m \in Nat, NEW n \in Nat
    PROVE  m + (1 + n) = m + 1 + n
OBVIOUS

\* A rejection appends the reply and an incomplete result for each of its calls
\* (storeAssistant, pushIncompleteToolResults).
LEMMA RejectionExtends ==
    ASSUME NEW h \in Seq(Messages), NEW reply \in ReplyRecords
    PROVE  /\ Extends(h, h \o Rejection(reply), Assistant(reply))
           /\ Len(h \o Rejection(reply)) = Len(h) + 1 + reply.calls
           /\ \A k \in 1..reply.calls :
                 (h \o Rejection(reply))[Len(h) + 1 + k] = Incomplete(k)
<1> DEFINE results == [k \in 1..reply.calls |-> Incomplete(k)]
           pushed == <<Assistant(reply)>> \o results
           g == h \o pushed
<1>1. reply.calls \in Nat /\ reply.calls <= MaxCalls
  BY AgentBounds DEF ReplyRecords
<1>2. results \in Seq(Messages) /\ Len(results) = reply.calls
  <2>1. \A k \in 1..reply.calls : Incomplete(k) \in Messages
    BY <1>1, AgentBounds, PushedMessages
  <2> HIDE DEF Messages
  <2>2. QED
    BY <1>1, <2>1
<1>3. \A k \in 1..reply.calls : results[k] = Incomplete(k)
  OBVIOUS
<1>4. Assistant(reply) \in Messages
  BY PushedMessages
<1> HIDE DEF results, Messages
<1>5. /\ pushed \in Seq(Messages) /\ Len(pushed) = 1 + reply.calls
      /\ pushed[1] = Assistant(reply)
      /\ \A k \in 1..reply.calls : pushed[1 + k] = results[k]
  BY <1>1, <1>2, <1>4
<1> HIDE DEF pushed
<1>6. /\ g \in Seq(Messages) /\ Len(g) = Len(h) + 1 + reply.calls
      /\ \A i \in 1..Len(h) : g[i] = h[i]
      /\ g[Len(h) + 1] = Assistant(reply)
      /\ \A k \in 1..reply.calls : g[Len(h) + 1 + k] = Incomplete(k)
  <2>1. Len(h) \in Nat /\ Len(pushed) = 1 + reply.calls
    BY <1>5
  <2>2. g \in Seq(Messages) /\ Len(g) = Len(h) + Len(pushed)
    BY <1>5
  <2>3. \A i \in 1..Len(h) : g[i] = h[i]
    BY <1>5
  <2>4. \A j \in 1..Len(pushed) : g[Len(h) + j] = pushed[j]
    BY <1>5
  <2>5. g[Len(h) + 1] = Assistant(reply)
    BY <1>1, <1>5, <2>1, <2>4
  <2> HIDE DEF g
  <2>6. ASSUME NEW k \in 1..reply.calls
        PROVE  g[Len(h) + 1 + k] = Incomplete(k)
    <3>1. 1 + k \in 1..Len(pushed) /\ Len(h) + (1 + k) = Len(h) + 1 + k
      BY <1>1, <2>1
    <3>2. g[Len(h) + (1 + k)] = pushed[1 + k]
      BY <2>4, <3>1
    <3>3. QED
      BY <1>3, <1>5, <3>1, <3>2
  <2>7. Len(g) = Len(h) + 1 + reply.calls
    <3>1. Len(g) = Len(h) + (1 + reply.calls)
      BY <2>1, <2>2
    <3>2. Len(h) + (1 + reply.calls) = Len(h) + 1 + reply.calls
      BY <1>1, <2>1, SumsAssociate, Zenon
    <3>3. QED
      BY <3>1, <3>2, Zenon
  <2>8. QED
    BY <2>2, <2>3, <2>5, <2>6, <2>7
<1>7. \A k : Incomplete(k).role = "tool" /\ Incomplete(k).status = "incomplete"
  BY DEF Incomplete
<1>8. g = h \o Rejection(reply)
  BY DEF pushed, results, Rejection
<1> HIDE DEF g
<1>9. ASSUME NEW i \in (Len(h) + 2)..Len(g)
      PROVE  g[i].role = "tool" /\ g[i].status = "incomplete"
  <2>1. i - (Len(h) + 1) \in 1..reply.calls /\ i = Len(h) + 1 + (i - (Len(h) + 1))
    BY <1>1, <1>6
  <2>2. g[i] = Incomplete(i - (Len(h) + 1))
    BY <1>6, <2>1
  <2>3. QED
    BY <1>7, <2>2
<1>10. Extends(h, g, Assistant(reply))
  BY <1>1, <1>6, <1>9 DEF Extends
<1>11. QED
  BY <1>6, <1>8, <1>10

\* A message more is a rejected turn more, if it is the reply of one.
LEMMA RejectedTurnsExtended ==
    ASSUME NEW r, NEW h, NEW g, NEW m, Extends(h, g, m), r.start \in 1..Len(h)
    PROVE  /\ RejectedTurns(r, h) \in Nat
           /\ RejectedTurns(r, g) =
                 IF Rejected(r.structured, m) THEN RejectedTurns(r, h) + 1 ELSE RejectedTurns(r, h)
<1> DEFINE In(s) == {i \in r.start..Len(s) : Rejected(r.structured, s[i])}
           n == Len(h) + 1
<1> HIDE DEF Messages
<1>1. Len(h) \in Nat /\ Len(g) \in Nat /\ r.start \in Nat
  BY DEF Extends
<1>2. IsFiniteSet(In(h)) /\ n \notin In(h)
  <2>0. \A a, b \in Int : IsFiniteSet(a..b)
    BY FS_Interval
  <2>1. IsFiniteSet(r.start..Len(h))
    BY <1>1, <2>0
  <2>2. In(h) \subseteq r.start..Len(h)
    OBVIOUS
  <2>3. QED
    BY <1>1, <2>1, <2>2, FS_Subset
<1>3. \A i \in (Len(h) + 2)..Len(g) : ~Rejected(r.structured, g[i])
  BY DEF Extends, Rejected
<1>4. In(g) = IF Rejected(r.structured, m) THEN In(h) \cup {n} ELSE In(h)
  <2>1. \A i \in r.start..Len(g) :
           \/ i \in r.start..Len(h) /\ g[i] = h[i]
           \/ i = n /\ g[i] = m
           \/ i \in (Len(h) + 2)..Len(g)
    BY <1>1 DEF Extends
  <2>2. \A i \in r.start..Len(h) : i \in r.start..Len(g) /\ g[i] = h[i]
    BY <1>1 DEF Extends
  <2>3. n \in r.start..Len(g) /\ g[n] = m
    BY <1>1 DEF Extends
  <2>4. QED
    BY <1>3, <2>1, <2>2, <2>3
<1>5. Cardinality(In(h)) \in Nat
  BY <1>2, FS_CardinalityType
<1>6. Cardinality(In(h) \cup {n}) = Cardinality(In(h)) + 1
  BY <1>2, FS_AddElement
<1>7. RejectedTurns(r, h) = Cardinality(In(h)) /\ RejectedTurns(r, g) = Cardinality(In(g))
  BY DEF RejectedTurns
<1> HIDE DEF In
<1>8. QED
  BY <1>4, <1>5, <1>6, <1>7

\* What is pending counts from the last reply.
LEMMA PendingAt ==
    ASSUME NEW r, NEW h, r.start \in Nat, Len(h) \in Nat, NEW p \in r.start..Len(h),
           h[p].role = "assistant", \A i \in (p + 1)..Len(h) : h[i].role # "assistant"
    PROVE  Pending(r, h) = h[p].calls - (Len(h) - p)
<1> DEFINE R == Replied(r, h)
<1>1. p \in R /\ \A i \in R : i \in Nat /\ i <= p
  BY DEF Replied
<1> HIDE DEF R
<1>2. Max(R) = p
  <2>1. Max(R) \in R /\ \A y \in R : Max(R) >= y
    BY <1>1 DEF Max
  <2>2. Max(R) \in Nat /\ Max(R) <= p /\ Max(R) >= p /\ p \in Nat
    BY <1>1, <2>1
  <2>3. QED
    BY <2>2
<1>3. QED
  BY <1>1, <1>2 DEF Pending, R

\* A reply that is pushed is the last one.
LEMMA PendingExtended ==
    ASSUME NEW r, NEW h, NEW g, NEW reply, Extends(h, g, Assistant(reply)), r.start \in 1..Len(h)
    PROVE  Pending(r, g) = reply.calls - (Len(g) - (Len(h) + 1))
<1> HIDE DEF Messages
<1>1. Len(h) \in Nat /\ Len(g) \in Nat /\ r.start \in Nat /\ Len(h) + 1 \in r.start..Len(g)
  BY DEF Extends
<1>2. Assistant(reply).role = "assistant" /\ Assistant(reply).calls = reply.calls
  BY DEF Assistant
<1>3. \A i \in (Len(h) + 1 + 1)..Len(g) : g[i].role # "assistant"
  BY <1>1 DEF Extends
<1>4. g[Len(h) + 1] = Assistant(reply)
  BY DEF Extends
<1>5. QED
  BY <1>1, <1>2, <1>3, <1>4, PendingAt

\* Two views of a run with the same start and kind count alike.
LEMMA CountedAlike ==
    ASSUME NEW r, NEW s, NEW h, s.start = r.start, s.structured = r.structured
    PROVE  RejectedTurns(s, h) = RejectedTurns(r, h) /\ Pending(s, h) = Pending(r, h)
BY DEF RejectedTurns, Pending, Replied

\* Messages are only ever added.
Longer(h, g) ==
    /\ h \in Seq(Messages) /\ g \in Seq(Messages)
    /\ Len(h) <= Len(g)
    /\ \A i \in 1..Len(h) : g[i] = h[i]
NoneCompleted(h, g) == \A i \in (Len(h) + 1)..Len(g) : ~Completed(g, i)

LEMMA ExtendedIsLonger ==
    ASSUME NEW h, NEW g, NEW m, Extends(h, g, m)
    PROVE  /\ Longer(h, g)
           /\ ~(m.role = "tool" /\ m.status = "completed") => NoneCompleted(h, g)
<1> HIDE DEF Messages
<1>1. Longer(h, g)
  BY DEF Extends, Longer
<1>2. ASSUME ~(m.role = "tool" /\ m.status = "completed"), NEW i \in (Len(h) + 1)..Len(g)
      PROVE  ~Completed(g, i)
  <2>1. i = Len(h) + 1 \/ i \in (Len(h) + 2)..Len(g)
    BY DEF Extends
  <2>2. QED
    BY <1>2, <2>1 DEF Extends, Completed, IsTool
<1>3. QED
  BY <1>1, <1>2 DEF NoneCompleted

-----------------------------------------------------------------------------
(* Ledger and handlers *)

\* Messages that are no results leave the ledger right.
LEMMA LedgerStays ==
    ASSUME TypeOK, Points(toolCalls, messages), LedgerAgrees, toolCalls' = toolCalls,
           Longer(messages, messages'), NoneCompleted(messages, messages')
    PROVE  Points(toolCalls, messages)' /\ LedgerAgrees'
<1> DEFINE h == messages
           g == messages'
<1> HIDE DEF Messages
<1>1. Len(h) \in Nat /\ Len(g) \in Nat /\ Len(h) <= Len(g) /\ DOMAIN h = 1..Len(h) /\ DOMAIN g = 1..Len(g)
  BY DEF Longer
<1>2. \A i \in 1..Len(h) : g[i] = h[i]
  BY DEF Longer
<1>3. DOMAIN toolCalls = 1..Len(toolCalls)
  BY DEF TypeOK
<1>4. \A n \in 1..Len(h) : Completed(g, n) <=> Completed(h, n)
  BY <1>1, <1>2 DEF Completed, IsTool
<1>5. \A n : Completed(h, n) => n \in 1..Len(h)
  BY <1>1 DEF Completed, IsTool
<1>6. \A n \in DOMAIN g : Completed(g, n) => n \in 1..Len(h)
  <2>1. \A n \in DOMAIN g : n \in 1..Len(h) \/ n \in (Len(h) + 1)..Len(g)
    BY <1>1
  <2>2. QED
    BY <2>1 DEF NoneCompleted
<1> HIDE DEF h, g
<1>7. ASSUME NEW i \in DOMAIN toolCalls
      PROVE  /\ toolCalls[i].message \in 1..Len(g)
             /\ g[toolCalls[i].message].role = "assistant"
             /\ toolCalls[i].call <= g[toolCalls[i].message].calls
             /\ Completed(g, Position(toolCalls[i]))
             /\ g[Position(toolCalls[i])].call = toolCalls[i].call
  <2>1. toolCalls[i].message \in 1..Len(h)
    BY <1>3 DEF Points, h
  <2>2. Completed(h, Position(toolCalls[i])) /\ Position(toolCalls[i]) \in 1..Len(h)
    BY <1>5 DEF LedgerAgrees, h
  <2>3. QED
    BY <1>1, <1>2, <1>4, <2>1, <2>2 DEF LedgerAgrees, h
<1>8. \A n \in DOMAIN g : Completed(g, n) => \E i \in DOMAIN toolCalls : Position(toolCalls[i]) = n
  BY <1>1, <1>4, <1>6 DEF LedgerAgrees, h
<1>9. Points(toolCalls, messages)'
  BY <1>3, <1>7 DEF Points, g
<1>10. QED
  BY <1>7, <1>8, <1>9 DEF LedgerAgrees, g

LEMMA HandlersStay ==
    ASSUME TypeOK, Points(invoked, messages), HandlersRunValidCalls, invoked' = invoked,
           Longer(messages, messages')
    PROVE  Points(invoked, messages)' /\ HandlersRunValidCalls'
<1> HIDE DEF Messages
<1>1. Len(messages) \in Nat /\ Len(messages') \in Nat /\ Len(messages) <= Len(messages')
  BY DEF Longer
<1>2. DOMAIN invoked = 1..Len(invoked)
  BY DEF TypeOK
<1>3. \A i \in DOMAIN invoked :
         /\ invoked[i].message \in 1..Len(messages')
         /\ messages'[invoked[i].message] = messages[invoked[i].message]
  BY <1>1, <1>2 DEF Points, Longer
<1>4. QED
  BY <1>2, <1>3 DEF Points, HandlersRunValidCalls

-----------------------------------------------------------------------------
(* From one run to all *)

\* Only caller c moves.
RunMoves(c) == run' = [d \in Callers |-> IF d = c THEN run'[c] ELSE run[d]]

\* What every step does to storage, ledger and handlers.
Recorded ==
    /\ messages' \in Seq(Messages)
    /\ toolCalls' \in Seq(Calls)
    /\ invoked' \in Seq(Calls)
    /\ runs' \in Nat
    /\ Points(toolCalls, messages)' /\ LedgerAgrees'
    /\ Points(invoked, messages)' /\ HandlersRunValidCalls'

\* A step that starts or continues the one run.
LEMMA RunContinues ==
    ASSUME AgentInv, NEW c \in Callers, Engaged(c) \/ ~acquired, RunMoves(c), acquired' = TRUE,
           Recorded, RunTyped(run'[c]), run'[c].pc # "idle",
           RunOK(run'[c], messages', invoked')
    PROVE  AgentInv'
<1> HIDE DEF Messages, RunTyped, Calls
<1>1. \A d \in Callers : d # c => run[d] = NoRun /\ run'[d] = NoRun
  BY DEF AgentInv, Exclusive, RunMoves, Engaged
<1>2. NoRun.pc = "idle"
  BY DEF NoRun
<1>3. TypeOK'
  <2>1. run' = [d \in Callers |-> run'[d]]
    BY <1>1 DEF RunMoves
  <2>2. \A d \in Callers : run'[d] = NoRun \/ RunTyped(run'[d])
    BY <1>1
  <2>3. QED
    BY <2>1, <2>2 DEF TypeOK, Recorded
<1>4. Exclusive'
  BY <1>1, <1>2 DEF Exclusive, Engaged
<1>5. \A d \in Callers : Engaged(d)' => RunOK(run'[d], messages', invoked')
  BY <1>1, <1>2 DEF Engaged
<1>6. QED
  BY <1>3, <1>4, <1>5 DEF AgentInv, Recorded

\* A step that ends the one run, or leaves the agent without any.
LEMMA RunEnds ==
    ASSUME AgentInv, NEW c \in Callers, Engaged(c) \/ ~acquired, RunMoves(c), acquired' = FALSE,
           Recorded, run'[c] = NoRun
    PROVE  AgentInv'
<1> HIDE DEF Messages, RunTyped, Calls
<1>1. \A d \in Callers : run'[d] = NoRun
  BY DEF AgentInv, Exclusive, RunMoves, Engaged
<1>2. NoRun.pc = "idle"
  BY DEF NoRun
<1>3. TypeOK'
  <2>1. run' = [d \in Callers |-> run'[d]]
    BY <1>1 DEF RunMoves
  <2>2. QED
    BY <1>1, <2>1 DEF TypeOK, Recorded
<1>4. Exclusive'
  BY <1>1, <1>2 DEF Exclusive, Engaged
<1>5. \A d \in Callers : ~Engaged(d)'
  BY <1>1, <1>2 DEF Engaged
<1>6. QED
  BY <1>3, <1>4, <1>5 DEF AgentInv, Recorded

\* A step that touches neither messages, ledger nor handlers.
LEMMA NothingRecorded ==
    ASSUME AgentInv, UNCHANGED <<messages, toolCalls, invoked, runs>>
    PROVE  Recorded
BY DEF AgentInv, TypeOK, Recorded, Points, LedgerAgrees, HandlersRunValidCalls

\* A step that only pushes messages that are no results.
LEMMA MessagesRecorded ==
    ASSUME AgentInv, UNCHANGED <<toolCalls, invoked>>, runs' \in Nat,
           NEW m, Extends(messages, messages', m), ~(m.role = "tool" /\ m.status = "completed")
    PROVE  Recorded
<1> HIDE DEF Messages
<1>1. Longer(messages, messages') /\ NoneCompleted(messages, messages')
  BY ExtendedIsLonger
<1>2. Points(toolCalls, messages)' /\ LedgerAgrees'
  BY <1>1, LedgerStays DEF AgentInv
<1>3. Points(invoked, messages)' /\ HandlersRunValidCalls'
  BY <1>1, HandlersStay DEF AgentInv
<1>4. QED
  BY <1>2, <1>3 DEF Recorded, Extends, AgentInv, TypeOK

-----------------------------------------------------------------------------
(* One lemma per action *)

\* The options of a run do not change.
Keeps(r, s) ==
    /\ DOMAIN s = DOMAIN r
    /\ s.mode = r.mode /\ s.structured = r.structured
    /\ s.maxTurns = r.maxTurns /\ s.maxRepairs = r.maxRepairs /\ s.start = r.start

LEMMA ActiveRun ==
    ASSUME AgentInv, NEW c \in Callers, Engaged(c)
    PROVE  /\ RunTyped(run[c])
           /\ DOMAIN run[c] = DOMAIN NoRun
           /\ RunOK(run[c], messages, invoked)
           /\ acquired = TRUE
           /\ messages \in Seq(Messages)
           /\ run = [d \in Callers |-> run[d]]
<1> HIDE DEF Messages
<1>1. NoRun.pc = "idle"
  BY DEF NoRun
<1>2. QED
  BY <1>1 DEF AgentInv, TypeOK, Exclusive, Engaged, RunTyped

\* beginTurn, buildRequest and the call of the provider.
LEMMA RequestStep ==
    ASSUME AgentInv, NEW c \in Callers, Request(c)
    PROVE  AgentInv'
<1> DEFINE r == run[c]
           s == run'[c]
<1>1. Engaged(c) /\ r.pc = "turn"
  BY DEF Request, AtPlace, Engaged
<1>2. /\ RunTyped(r) /\ DOMAIN r = DOMAIN NoRun
      /\ RunOK(r, messages, invoked) /\ acquired = TRUE /\ messages \in Seq(Messages)
      /\ run = [d \in Callers |-> run[d]]
  BY <1>1, ActiveRun
<1>3. RunMoves(c)
  BY <1>2 DEF Request, RunMoves
<1>4. /\ Keeps(r, s)
      /\ s.pc = "asked" /\ s.turns = r.turns + 1
      /\ s.corrected = r.correction /\ s.correction = FALSE
      /\ s.invalid = r.invalid /\ s.baseline = r.baseline /\ s.reply = r.reply
      /\ s.shown = r.shown /\ s.next = r.next
  BY <1>2 DEF Request, Keeps, NoRun
<1>5. messages' = messages /\ invoked' = invoked /\ acquired' = TRUE /\ Recorded
  BY <1>2, NothingRecorded DEF Request
<1> HIDE DEF r, s
<1>6. RunTyped(s)
  <2>1. Flags(s)
    BY <1>2, <1>4, Zenon DEF RunTyped, Flags, Keeps
  <2>2. QED
    BY <1>2, <1>4, <2>1 DEF RunTyped, Keeps, Places, Asked
<1>7. RunOK(s, messages, invoked)
  <2>1. RejectedTurns(s, messages) = RejectedTurns(r, messages) /\ Pending(s, messages) = Pending(r, messages)
    BY <1>4, CountedAlike DEF Keeps
  <2>2. Budget(s, messages) /\ Hidden(s, messages)
    BY <1>1, <1>2, <1>4, <2>1 DEF Budget, Hidden, RunOK, Keeps, RunTyped, Rejecting
  <2>3. Corrections(s, messages)
    BY <1>1, <1>2, <1>4 DEF Corrections, RunOK, Keeps, RunTyped, Rejecting
  <2>4. Baselines(s, messages)
    BY <1>1, <1>2, <1>4 DEF Baselines, RunOK, Rejecting
  <2>5. Batches(s, messages, invoked)
    BY <1>1, <1>2, <1>4, <2>1 DEF Batches, RunOK, InBatch, BatchPlaces
  <2>6. QED
    BY <1>2, <1>4, <2>2, <2>3, <2>4, <2>5 DEF RunOK, Keeps
<1>8. QED
  BY <1>1, <1>3, <1>4, <1>5, <1>6, <1>7, RunContinues DEF r, s

\* The consumer took agent.started.
LEMMA StreamStartedStep ==
    ASSUME AgentInv, NEW c \in Callers, StreamStarted(c)
    PROVE  AgentInv'
<1> DEFINE r == run[c]
           s == run'[c]
<1>1. Engaged(c) /\ r.pc = "started"
  BY DEF StreamStarted, AtPlace, Engaged
<1>2. /\ RunTyped(r) /\ DOMAIN r = DOMAIN NoRun
      /\ RunOK(r, messages, invoked) /\ acquired = TRUE /\ messages \in Seq(Messages)
      /\ run = [d \in Callers |-> run[d]]
  BY <1>1, ActiveRun
<1>3. RunMoves(c)
  BY <1>2 DEF StreamStarted, MoveTo, RunMoves
<1>4. /\ Keeps(r, s)
      /\ s.pc = "turn"
      /\ s.turns = r.turns /\ s.invalid = r.invalid /\ s.correction = r.correction
      /\ s.corrected = r.corrected /\ s.baseline = r.baseline /\ s.reply = r.reply
      /\ s.shown = r.shown /\ s.next = r.next
  BY <1>1, <1>2 DEF StreamStarted, MoveTo, Keeps, NoRun
<1>5. messages' = messages /\ invoked' = invoked /\ acquired' = TRUE /\ Recorded
  BY <1>2, NothingRecorded DEF StreamStarted
<1> HIDE DEF r, s
<1>6. RunTyped(s)
  <2>1. Flags(s)
    BY <1>2, <1>4, Zenon DEF RunTyped, Flags, Keeps
  <2>2. QED
    BY <1>2, <1>4, <2>1 DEF RunTyped, Keeps, Places, Asked, BatchPlaces, Rejecting
<1>7. RunOK(s, messages, invoked)
  <2>1. /\ RejectedTurns(s, messages) = RejectedTurns(r, messages)
        /\ Pending(s, messages) = Pending(r, messages)
    BY <1>4, CountedAlike DEF Keeps
  <2>2. Budget(s, messages)
    BY <1>1, <1>2, <1>4, <2>1 DEF Budget, RunOK, Keeps, RunTyped, Rejecting
  <2>3. Hidden(s, messages)
    BY <1>1, <1>2, <1>4, <2>1 DEF Budget, Hidden, RunOK, Keeps, RunTyped, Rejecting
  <2>4. Corrections(s, messages)
    BY <1>1, <1>2, <1>4 DEF Corrections, RunOK, Keeps, RunTyped, Rejecting
  <2>5. Baselines(s, messages)
    BY <1>1, <1>2, <1>4 DEF Baselines, Corrections, RunOK, Rejecting
  <2>6. Batches(s, messages, invoked)
    BY <1>1, <1>2, <1>4, <2>1 DEF Batches, BatchAt, Answers, Handled, RunOK, InBatch, BatchPlaces, RunTyped, Keeps
  <2>7. QED
    BY <1>2, <1>4, <2>2, <2>3, <2>4, <2>5, <2>6 DEF RunOK, Keeps
<1>8. QED
  BY <1>1, <1>3, <1>4, <1>5, <1>6, <1>7, RunContinues DEF r, s

\* onStructuredAttempt returned, and a repair begins.
LEMMA AttemptedStep ==
    ASSUME AgentInv, NEW c \in Callers, Attempted(c)
    PROVE  AgentInv'
<1> DEFINE r == run[c]
           s == run'[c]
<1>1. Engaged(c) /\ r.pc = "attempted"
  BY DEF Attempted, AtPlace, Engaged
<1>2. /\ RunTyped(r) /\ DOMAIN r = DOMAIN NoRun
      /\ RunOK(r, messages, invoked) /\ acquired = TRUE /\ messages \in Seq(Messages)
      /\ run = [d \in Callers |-> run[d]]
  BY <1>1, ActiveRun
<1>3. RunMoves(c)
  BY <1>2 DEF Attempted, MoveTo, RunMoves
<1>4. /\ Keeps(r, s)
      /\ s.pc = "repairing"
      /\ s.turns = r.turns /\ s.invalid = r.invalid + 1 /\ s.correction = r.correction
      /\ s.corrected = r.corrected
      /\ s.baseline = (r.reply.verdict \in {"composes", "repairable"})
      /\ s.reply = r.reply /\ s.shown = r.shown /\ s.next = r.next
  BY <1>1, <1>2 DEF Attempted, MoveTo, Keeps, NoRun
<1>5. messages' = messages /\ invoked' = invoked /\ acquired' = TRUE /\ Recorded
  BY <1>2, NothingRecorded DEF Attempted
<1> HIDE DEF r, s
<1>6. RunTyped(s)
  <2>0. s.baseline \in BOOLEAN
    BY <1>4
  <2>1. Flags(s)
    BY <1>2, <1>4, <2>0, Zenon DEF RunTyped, Flags, Keeps
  <2>2. QED
    BY <1>2, <1>4, <2>1 DEF RunTyped, Keeps, Places, Asked, BatchPlaces, Rejecting
<1>7. RunOK(s, messages, invoked)
  <2>1. /\ RejectedTurns(s, messages) = RejectedTurns(r, messages)
        /\ Pending(s, messages) = Pending(r, messages)
    BY <1>4, CountedAlike DEF Keeps
  <2>2. Budget(s, messages)
    BY <1>1, <1>2, <1>4, <2>1 DEF Budget, RunOK, Keeps, RunTyped, Rejecting
  <2>3. Hidden(s, messages)
    BY <1>1, <1>2, <1>4, <2>1 DEF Budget, Hidden, RunOK, Keeps, RunTyped, Rejecting
  <2>4. Corrections(s, messages)
    BY <1>1, <1>2, <1>4 DEF Corrections, RunOK, Keeps, RunTyped, Rejecting
  <2>5. Baselines(s, messages)
    BY <1>1, <1>2, <1>4 DEF Baselines, Corrections, RunOK, Rejecting
  <2>6. Batches(s, messages, invoked)
    BY <1>1, <1>2, <1>4, <2>1 DEF Batches, BatchAt, Answers, Handled, RunOK, InBatch, BatchPlaces, RunTyped, Keeps
  <2>7. QED
    BY <1>2, <1>4, <2>2, <2>3, <2>4, <2>5, <2>6 DEF RunOK, Keeps
<1>8. QED
  BY <1>1, <1>3, <1>4, <1>5, <1>6, <1>7, RunContinues DEF r, s

\* onToolCallRepair returned; the correction goes with the next request.
LEMMA RepairedStep ==
    ASSUME AgentInv, NEW c \in Callers, Repaired(c)
    PROVE  AgentInv'
<1> DEFINE r == run[c]
           s == run'[c]
<1>1. Engaged(c) /\ r.pc = "repairing"
  BY DEF Repaired, AtPlace, Engaged
<1>2. /\ RunTyped(r) /\ DOMAIN r = DOMAIN NoRun
      /\ RunOK(r, messages, invoked) /\ acquired = TRUE /\ messages \in Seq(Messages)
      /\ run = [d \in Callers |-> run[d]]
  BY <1>1, ActiveRun
<1>3. RunMoves(c)
  BY <1>2 DEF Repaired, MoveTo, RunMoves
<1>4. /\ Keeps(r, s)
      /\ s.pc = "turn"
      /\ s.turns = r.turns /\ s.invalid = r.invalid /\ s.correction = TRUE
      /\ s.corrected = r.corrected /\ s.baseline = r.baseline /\ s.reply = r.reply
      /\ s.shown = r.shown /\ s.next = r.next
  BY <1>1, <1>2 DEF Repaired, MoveTo, Keeps, NoRun
<1>5. messages' = messages /\ invoked' = invoked /\ acquired' = TRUE /\ Recorded
  BY <1>2, NothingRecorded DEF Repaired
<1> HIDE DEF r, s
<1>6. RunTyped(s)
  <2>1. Flags(s)
    BY <1>2, <1>4, Zenon DEF RunTyped, Flags, Keeps
  <2>2. QED
    BY <1>2, <1>4, <2>1 DEF RunTyped, Keeps, Places, Asked, BatchPlaces, Rejecting
<1>7. RunOK(s, messages, invoked)
  <2>1. /\ RejectedTurns(s, messages) = RejectedTurns(r, messages)
        /\ Pending(s, messages) = Pending(r, messages)
    BY <1>4, CountedAlike DEF Keeps
  <2>2. Budget(s, messages)
    BY <1>1, <1>2, <1>4, <2>1 DEF Budget, RunOK, Keeps, RunTyped, Rejecting
  <2>3. Hidden(s, messages)
    BY <1>1, <1>2, <1>4, <2>1 DEF Budget, Hidden, RunOK, Keeps, RunTyped, Rejecting
  <2>4. Corrections(s, messages)
    BY <1>1, <1>2, <1>4 DEF Corrections, RunOK, Keeps, RunTyped, Rejecting
  <2>5. Baselines(s, messages)
    BY <1>1, <1>2, <1>4 DEF Baselines, Corrections, RunOK, Rejecting
  <2>6. Batches(s, messages, invoked)
    BY <1>1, <1>2, <1>4, <2>1 DEF Batches, BatchAt, Answers, Handled, RunOK, InBatch, BatchPlaces, RunTyped, Keeps
  <2>7. QED
    BY <1>2, <1>4, <2>2, <2>3, <2>4, <2>5, <2>6 DEF RunOK, Keeps
<1>8. QED
  BY <1>1, <1>3, <1>4, <1>5, <1>6, <1>7, RunContinues DEF r, s

\* A submission that fits ends the repairs.
LEMMA AcceptSubmissionStep ==
    ASSUME AgentInv, NEW c \in Callers, NEW reply, AcceptSubmission(c, reply)
    PROVE  AgentInv'
<1> DEFINE r == run[c]
           s == run'[c]
<1>1. Engaged(c) /\ r.pc = "asked"
  BY DEF AcceptSubmission, AtPlace, Engaged
<1>2. /\ RunTyped(r) /\ DOMAIN r = DOMAIN NoRun
      /\ RunOK(r, messages, invoked) /\ acquired = TRUE /\ messages \in Seq(Messages)
      /\ run = [d \in Callers |-> run[d]]
  BY <1>1, ActiveRun
<1>3. RunMoves(c)
  BY <1>2 DEF AcceptSubmission, MoveTo, RunMoves
<1>4. /\ Keeps(r, s)
      /\ s.pc = "accepted"
      /\ s.turns = r.turns /\ s.invalid = r.invalid /\ s.correction = r.correction
      /\ s.corrected = r.corrected /\ s.baseline = FALSE /\ s.reply = r.reply
      /\ s.shown = r.shown /\ s.next = r.next
  BY <1>1, <1>2 DEF AcceptSubmission, MoveTo, Keeps, NoRun
<1>5. messages' = messages /\ invoked' = invoked /\ acquired' = TRUE /\ Recorded
  BY <1>2, NothingRecorded DEF AcceptSubmission
<1> HIDE DEF r, s
<1>6. RunTyped(s)
  <2>1. Flags(s)
    BY <1>2, <1>4, Zenon DEF RunTyped, Flags, Keeps
  <2>2. QED
    BY <1>2, <1>4, <2>1 DEF RunTyped, Keeps, Places, Asked, BatchPlaces, Rejecting
<1>7. RunOK(s, messages, invoked)
  <2>1. /\ RejectedTurns(s, messages) = RejectedTurns(r, messages)
        /\ Pending(s, messages) = Pending(r, messages)
    BY <1>4, CountedAlike DEF Keeps
  <2>2. Budget(s, messages)
    BY <1>1, <1>2, <1>4, <2>1 DEF Budget, RunOK, Keeps, RunTyped, Rejecting
  <2>3. Hidden(s, messages)
    BY <1>1, <1>2, <1>4, <2>1 DEF Budget, Hidden, RunOK, Keeps, RunTyped, Rejecting
  <2>4. Corrections(s, messages)
    BY <1>1, <1>2, <1>4 DEF Corrections, RunOK, Keeps, RunTyped, Rejecting
  <2>5. Baselines(s, messages)
    BY <1>1, <1>2, <1>4 DEF Baselines, Corrections, RunOK, Rejecting
  <2>6. Batches(s, messages, invoked)
    BY <1>1, <1>2, <1>4, <2>1 DEF Batches, BatchAt, Answers, Handled, RunOK, InBatch, BatchPlaces, RunTyped, Keeps
  <2>7. QED
    BY <1>2, <1>4, <2>2, <2>3, <2>4, <2>5, <2>6 DEF RunOK, Keeps
<1>8. QED
  BY <1>1, <1>3, <1>4, <1>5, <1>6, <1>7, RunContinues DEF r, s

\* A structured stream yields what it buffered.
LEMMA DeliverStep ==
    ASSUME AgentInv, NEW c \in Callers, Deliver(c)
    PROVE  AgentInv'
<1> DEFINE r == run[c]
           s == run'[c]
<1>1. Engaged(c) /\ r.pc = "buffered"
  BY DEF Deliver, AtPlace, Engaged
<1>2. /\ RunTyped(r) /\ DOMAIN r = DOMAIN NoRun
      /\ RunOK(r, messages, invoked) /\ acquired = TRUE /\ messages \in Seq(Messages)
      /\ run = [d \in Callers |-> run[d]]
  BY <1>1, ActiveRun
<1>3. RunMoves(c)
  BY <1>2 DEF Deliver, MoveTo, RunMoves
<1>4. /\ Keeps(r, s)
      /\ s.pc = IF r.reply.calls = 0 THEN "finished" ELSE "calling"
      /\ s.turns = r.turns /\ s.invalid = r.invalid /\ s.correction = r.correction
      /\ s.corrected = r.corrected /\ s.baseline = r.baseline /\ s.reply = r.reply
      /\ s.shown = r.shown + 1 /\ s.next = r.next
  BY <1>1, <1>2 DEF Deliver, MoveTo, Keeps, NoRun
<1>5. messages' = messages /\ invoked' = invoked /\ acquired' = TRUE /\ Recorded
  BY <1>2, NothingRecorded DEF Deliver
<1>calls. r.reply.calls \in Nat
  BY <1>2, AgentBounds DEF RunTyped, ReplyRecords
<1> HIDE DEF r, s
<1>6. RunTyped(s)
  <2>1. Flags(s)
    BY <1>2, <1>4, Zenon DEF RunTyped, Flags, Keeps
  <2>2. QED
    BY <1>2, <1>4, <2>1, <1>calls DEF RunTyped, Keeps, Places, Asked, BatchPlaces, Rejecting
<1>7. RunOK(s, messages, invoked)
  <2>1. /\ RejectedTurns(s, messages) = RejectedTurns(r, messages)
        /\ Pending(s, messages) = Pending(r, messages)
    BY <1>4, CountedAlike DEF Keeps
  <2>2. Budget(s, messages)
    BY <1>1, <1>2, <1>4, <2>1, <1>calls DEF Budget, RunOK, Keeps, RunTyped, Rejecting
  <2>3. Hidden(s, messages)
    BY <1>1, <1>2, <1>4, <2>1, <1>calls DEF Budget, Hidden, RunOK, Keeps, RunTyped, Rejecting
  <2>4. Corrections(s, messages)
    BY <1>1, <1>2, <1>4, <1>calls DEF Corrections, RunOK, Keeps, RunTyped, Rejecting
  <2>5. Baselines(s, messages)
    BY <1>1, <1>2, <1>4, <1>calls DEF Baselines, Corrections, RunOK, Rejecting
  <2>6. Batches(s, messages, invoked)
    BY <1>1, <1>2, <1>4, <2>1, <1>calls DEF Batches, BatchAt, Answers, Handled, RunOK, InBatch, BatchPlaces, RunTyped, Keeps
  <2>7. QED
    BY <1>2, <1>4, <2>2, <2>3, <2>4, <2>5, <2>6 DEF RunOK, Keeps
<1>8. QED
  BY <1>1, <1>3, <1>4, <1>5, <1>6, <1>7, RunContinues DEF r, s

\* A handler fails, and nothing is recorded.
LEMMA ToolFailsStep ==
    ASSUME AgentInv, NEW c \in Callers, ToolFails(c)
    PROVE  AgentInv'
<1> DEFINE r == run[c]
           s == run'[c]
<1>1. Engaged(c) /\ r.pc = "executing"
  BY DEF ToolFails, AtPlace, Engaged
<1>2. /\ RunTyped(r) /\ DOMAIN r = DOMAIN NoRun
      /\ RunOK(r, messages, invoked) /\ acquired = TRUE /\ messages \in Seq(Messages)
      /\ run = [d \in Callers |-> run[d]]
  BY <1>1, ActiveRun
<1>3. RunMoves(c)
  BY <1>2 DEF ToolFails, MoveTo, RunMoves
<1>4. /\ Keeps(r, s)
      /\ s.pc = "failing"
      /\ s.turns = r.turns /\ s.invalid = r.invalid /\ s.correction = r.correction
      /\ s.corrected = r.corrected /\ s.baseline = r.baseline /\ s.reply = r.reply
      /\ s.shown = r.shown /\ s.next = r.next
  BY <1>1, <1>2 DEF ToolFails, MoveTo, Keeps, NoRun
<1>5. messages' = messages /\ invoked' = invoked /\ acquired' = TRUE /\ Recorded
  BY <1>2, NothingRecorded DEF ToolFails
<1> HIDE DEF r, s
<1>6. RunTyped(s)
  <2>1. Flags(s)
    BY <1>2, <1>4, Zenon DEF RunTyped, Flags, Keeps
  <2>2. QED
    BY <1>2, <1>4, <2>1 DEF RunTyped, Keeps, Places, Asked, BatchPlaces, Rejecting
<1>7. RunOK(s, messages, invoked)
  <2>1. /\ RejectedTurns(s, messages) = RejectedTurns(r, messages)
        /\ Pending(s, messages) = Pending(r, messages)
    BY <1>4, CountedAlike DEF Keeps
  <2>2. Budget(s, messages)
    BY <1>1, <1>2, <1>4, <2>1 DEF Budget, RunOK, Keeps, RunTyped, Rejecting
  <2>3. Hidden(s, messages)
    BY <1>1, <1>2, <1>4, <2>1 DEF Budget, Hidden, RunOK, Keeps, RunTyped, Rejecting
  <2>4. Corrections(s, messages)
    BY <1>1, <1>2, <1>4 DEF Corrections, RunOK, Keeps, RunTyped, Rejecting
  <2>5. Baselines(s, messages)
    BY <1>1, <1>2, <1>4 DEF Baselines, Corrections, RunOK, Rejecting
  <2>6. Batches(s, messages, invoked)
    BY <1>1, <1>2, <1>4, <2>1 DEF Batches, BatchAt, Answers, Handled, RunOK, InBatch, BatchPlaces, RunTyped, Keeps
  <2>7. QED
    BY <1>2, <1>4, <2>2, <2>3, <2>4, <2>5, <2>6 DEF RunOK, Keeps
<1>8. QED
  BY <1>1, <1>3, <1>4, <1>5, <1>6, <1>7, RunContinues DEF r, s

\* onToolEvent throws behind a recorded result.
LEMMA ObserverThrowsStep ==
    ASSUME AgentInv, NEW c \in Callers, ObserverThrows(c)
    PROVE  AgentInv'
<1> DEFINE r == run[c]
           s == run'[c]
<1>1. Engaged(c) /\ r.pc = "observed"
  BY DEF ObserverThrows, AtPlace, Engaged
<1>2. /\ RunTyped(r) /\ DOMAIN r = DOMAIN NoRun
      /\ RunOK(r, messages, invoked) /\ acquired = TRUE /\ messages \in Seq(Messages)
      /\ run = [d \in Callers |-> run[d]]
  BY <1>1, ActiveRun
<1>3. RunMoves(c)
  BY <1>2 DEF ObserverThrows, MoveTo, RunMoves
<1>4. /\ Keeps(r, s)
      /\ s.pc = "failing"
      /\ s.turns = r.turns /\ s.invalid = r.invalid /\ s.correction = r.correction
      /\ s.corrected = r.corrected /\ s.baseline = r.baseline /\ s.reply = r.reply
      /\ s.shown = r.shown /\ s.next = r.next
  BY <1>1, <1>2 DEF ObserverThrows, MoveTo, Keeps, NoRun
<1>5. messages' = messages /\ invoked' = invoked /\ acquired' = TRUE /\ Recorded
  BY <1>2, NothingRecorded DEF ObserverThrows
<1> HIDE DEF r, s
<1>6. RunTyped(s)
  <2>1. Flags(s)
    BY <1>2, <1>4, Zenon DEF RunTyped, Flags, Keeps
  <2>2. QED
    BY <1>2, <1>4, <2>1 DEF RunTyped, Keeps, Places, Asked, BatchPlaces, Rejecting
<1>7. RunOK(s, messages, invoked)
  <2>1. /\ RejectedTurns(s, messages) = RejectedTurns(r, messages)
        /\ Pending(s, messages) = Pending(r, messages)
    BY <1>4, CountedAlike DEF Keeps
  <2>2. Budget(s, messages)
    BY <1>1, <1>2, <1>4, <2>1 DEF Budget, RunOK, Keeps, RunTyped, Rejecting
  <2>3. Hidden(s, messages)
    BY <1>1, <1>2, <1>4, <2>1 DEF Budget, Hidden, RunOK, Keeps, RunTyped, Rejecting
  <2>4. Corrections(s, messages)
    BY <1>1, <1>2, <1>4 DEF Corrections, RunOK, Keeps, RunTyped, Rejecting
  <2>5. Baselines(s, messages)
    BY <1>1, <1>2, <1>4 DEF Baselines, Corrections, RunOK, Rejecting
  <2>6. Batches(s, messages, invoked)
    BY <1>1, <1>2, <1>4, <2>1 DEF Batches, BatchAt, Answers, Handled, RunOK, InBatch, BatchPlaces, RunTyped, Keeps
  <2>7. QED
    BY <1>2, <1>4, <2>2, <2>3, <2>4, <2>5, <2>6 DEF RunOK, Keeps
<1>8. QED
  BY <1>1, <1>3, <1>4, <1>5, <1>6, <1>7, RunContinues DEF r, s

-----------------------------------------------------------------------------
(* Tools *)

\* Where the calls under way belong (runTools).
LEMMA BatchFacts ==
    ASSUME NEW r, NEW h \in Seq(Messages), NEW v, RunTyped(r), RunOK(r, h, v), InBatch(r)
    PROVE  /\ BatchAt(r, h, v, Len(h) - Answers(r))
           /\ Len(h) - Answers(r) \in 1..Len(h)
           /\ r.reply.calls \in 1..MaxCalls /\ r.next \in 1..r.reply.calls
           /\ h[Len(h) - Answers(r)].role = "assistant"
           /\ h[Len(h) - Answers(r)].calls = r.reply.calls
           /\ h[Len(h) - Answers(r)].verdict = "valid"
           /\ Pending(r, h) = r.reply.calls - Answers(r)
<1> DEFINE p == Len(h) - Answers(r)
<1>1. BatchAt(r, h, v, p) /\ r.start \in 1..Len(h)
  BY DEF RunOK, Batches
<1>2. Len(h) \in Nat
  OBVIOUS
<1>3. r.reply.calls \in 0..MaxCalls
  BY DEF RunTyped, ReplyRecords
<1>4. r.next \in 1..r.reply.calls /\ r.reply.calls \in 1..MaxCalls
  BY <1>1, <1>3, AgentBounds DEF BatchAt
<1>5. Answers(r) \in Nat
  BY <1>3, <1>4, AgentBounds DEF Answers
<1> HIDE DEF p
<1>6. p \in r.start..Len(h) /\ p \in 1..Len(h) /\ Len(h) - p = Answers(r)
  BY <1>1, <1>2, <1>5 DEF BatchAt, p
<1>7. h[p].role = "assistant" /\ h[p].calls = r.reply.calls /\ h[p].verdict = "valid"
  BY <1>1 DEF BatchAt, Assistant
<1>8. \A i \in (p + 1)..Len(h) : h[i].role # "assistant"
  BY <1>1 DEF BatchAt
<1>9. Pending(r, h) = r.reply.calls - Answers(r)
  BY <1>1, <1>2, <1>6, <1>7, <1>8, PendingAt
<1>10. QED
  BY <1>1, <1>4, <1>6, <1>7, <1>9 DEF p

\* tool.started was taken: the handler of the next call of a valid reply runs.
LEMMA StartToolStep ==
    ASSUME AgentInv, NEW c \in Callers, StartTool(c)
    PROVE  AgentInv'
<1> DEFINE r == run[c]
           s == run'[c]
           h == messages
           v == invoked
           w == invoked'
           p == Len(h) - Answers(r)
<1>1. Engaged(c) /\ r.pc = "calling"
  BY DEF StartTool, AtPlace, Engaged
<1>2. /\ RunTyped(r) /\ DOMAIN r = DOMAIN NoRun
      /\ RunOK(r, h, v) /\ acquired = TRUE /\ h \in Seq(Messages)
      /\ run = [d \in Callers |-> run[d]]
  BY <1>1, ActiveRun
<1>3. RunMoves(c)
  BY <1>2 DEF StartTool, MoveTo, RunMoves
<1>4. /\ Keeps(r, s)
      /\ s.pc = "executing"
      /\ s.turns = r.turns /\ s.invalid = r.invalid /\ s.correction = r.correction
      /\ s.corrected = r.corrected /\ s.baseline = r.baseline /\ s.reply = r.reply
      /\ s.shown = r.shown /\ s.next = r.next
  BY <1>1, <1>2 DEF StartTool, MoveTo, Keeps, NoRun
<1>5. UNCHANGED <<messages, toolCalls, runs>> /\ acquired' = TRUE
  BY <1>2 DEF StartTool
<1>6. v \in Seq(Calls) /\ runs \in Nat /\ Points(v, h) /\ HandlersRunValidCalls
  BY DEF AgentInv, TypeOK
<1>7. w = Append(v, Call(c)) /\ Call(c) = [run |-> runs, message |-> Len(h) - r.next + 1, call |-> r.next]
  BY DEF StartTool, Call
<1> HIDE DEF r, s
<1>8. /\ BatchAt(r, h, v, p) /\ p \in 1..Len(h) /\ h[p].verdict = "valid"
      /\ r.next \in Nat /\ Answers(r) = r.next - 1 /\ Len(h) \in Nat
  BY <1>1, <1>2, BatchFacts, SMTT(30) DEF InBatch, BatchPlaces, Answers, RunTyped
<1> HIDE DEF p
<1>9. Call(c) \in Calls /\ Call(c).message = p /\ Call(c).call = r.next
  <2>1. Len(h) - r.next + 1 = p
    BY <1>8 DEF p
  <2>2. QED
    BY <1>6, <1>7, <1>8, <2>1 DEF Calls
<1>10. /\ w \in Seq(Calls) /\ Len(w) = Len(v) + 1 /\ Len(v) \in Nat
       /\ \A i \in 1..Len(v) : w[i] = v[i]
       /\ w[Len(w)].message = p /\ w[Len(w)].call = r.next
  BY <1>6, <1>7, <1>9
<1>11. \A i \in 1..Len(v) : v[i].message < p \/ (v[i].message = p /\ v[i].call <= r.next - 1)
  BY <1>1, <1>8 DEF BatchAt, Handled
<1>12. \A i \in 1..Len(v) : v[i].message \in Nat /\ v[i].call \in Nat
  <2>1. \A i \in 1..Len(v) : v[i] \in Calls
    BY <1>6
  <2>2. QED
    BY <2>1 DEF Calls
<1> HIDE DEF w, v
<1>13. \A i \in 1..Len(w) : i \in 1..Len(v) \/ i = Len(w)
  BY <1>10
<1>14. Points(w, h)
  BY <1>6, <1>8, <1>10, <1>13 DEF Points
<1>15. HandlersRunValidCalls'
  <2>1. DOMAIN w = 1..Len(w) /\ DOMAIN v = 1..Len(v)
    BY <1>6, <1>10
  <2>2. \A i \in 1..Len(w) : h[w[i].message].verdict = "valid"
    BY <1>6, <1>8, <1>10, <1>13, <2>1 DEF HandlersRunValidCalls, v
  <2>3. ASSUME NEW i \in 1..Len(w), NEW j \in 1..Len(w), i < j
        PROVE  w[i].message < w[j].message \/ (w[i].message = w[j].message /\ w[i].call < w[j].call)
    <3>1. CASE j \in 1..Len(v)
      <4>1. i \in 1..Len(v)
        BY <2>3, <3>1, <1>10
      <4>2. QED
        BY <1>6, <1>10, <2>1, <2>3, <3>1, <4>1 DEF HandlersRunValidCalls, v
    <3>2. CASE j = Len(w)
      <4>1. i \in 1..Len(v)
        BY <2>3, <3>2, <1>10
      <4>2. w[i] = v[i] /\ w[j].message = p /\ w[j].call = r.next
        BY <1>10, <3>2, <4>1
      <4>3. QED
        BY <1>8, <1>11, <1>12, <4>1, <4>2
    <3>3. QED
      BY <1>13, <3>1, <3>2
  <2>4. QED
    BY <1>5, <2>1, <2>2, <2>3 DEF HandlersRunValidCalls, w
<1>16. Recorded
  <2>1. messages' = h /\ invoked' = w
    BY <1>5 DEF w
  <2>2. Points(toolCalls, messages)' /\ LedgerAgrees'
    BY <1>5 DEF AgentInv, Points, LedgerAgrees
  <2>3. QED
    BY <1>2, <1>5, <1>10, <1>14, <1>15, <2>1, <2>2 DEF Recorded, AgentInv, TypeOK
<1>17. RunTyped(s)
  <2>1. Flags(s)
    BY <1>2, <1>4, Zenon DEF RunTyped, Flags, Keeps
  <2>2. QED
    BY <1>2, <1>4, <2>1 DEF RunTyped, Keeps, Places, BatchPlaces
<1>18. RunOK(s, h, w)
  <2>1. RejectedTurns(s, h) = RejectedTurns(r, h) /\ Pending(s, h) = Pending(r, h)
    BY <1>4, CountedAlike DEF Keeps
  <2>2. Budget(s, h) /\ Hidden(s, h) /\ Corrections(s, h) /\ Baselines(s, h)
    BY <1>1, <1>2, <1>4, <2>1
    DEF Budget, Hidden, Corrections, Baselines, RunOK, Keeps, RunTyped, Rejecting
  <2>3. Answers(s) = r.next - 1 /\ Handled(s) = r.next
    BY <1>4 DEF Answers, Handled
  <2>4. BatchAt(s, h, w, p)
    <3>1. ASSUME NEW i \in 1..Len(w)
          PROVE  w[i].message < p \/ (w[i].message = p /\ w[i].call <= r.next)
      <4>1. CASE i \in 1..Len(v)
        BY <1>8, <1>10, <1>11, <1>12, <4>1
      <4>2. CASE i = Len(w)
        BY <1>8, <1>10, <4>2
      <4>3. QED
        BY <1>13, <4>1, <4>2
    <3>2. QED
      BY <1>4, <1>8, <2>3, <3>1 DEF BatchAt, Keeps
  <2>5. Batches(s, h, w)
    BY <1>4, <1>8, <2>3, <2>4 DEF Batches, InBatch, BatchPlaces, p
  <2>6. QED
    BY <1>2, <1>4, <2>2, <2>5 DEF RunOK, Keeps
<1>19. QED
  BY <1>1, <1>3, <1>4, <1>5, <1>16, <1>17, <1>18, RunContinues DEF r, s, w

\* tool.finished was taken: the next call follows, or the next turn (runTools).
LEMMA ObservedStep ==
    ASSUME AgentInv, NEW c \in Callers, Observed(c)
    PROVE  AgentInv'
<1> DEFINE r == run[c]
           s == run'[c]
           h == messages
           v == invoked
<1>1. Engaged(c) /\ r.pc = "observed"
  BY DEF Observed, AtPlace, Engaged
<1>2. /\ RunTyped(r) /\ DOMAIN r = DOMAIN NoRun
      /\ RunOK(r, h, v) /\ acquired = TRUE /\ h \in Seq(Messages)
      /\ run = [d \in Callers |-> run[d]]
  BY <1>1, ActiveRun
<1>3. RunMoves(c)
  BY <1>2 DEF Observed, MoveTo, RunMoves
<1>4. /\ Keeps(r, s)
      /\ s.turns = r.turns /\ s.invalid = r.invalid /\ s.correction = r.correction
      /\ s.corrected = r.corrected /\ s.baseline = r.baseline /\ s.reply = r.reply
      /\ s.shown = r.shown
  BY <1>1, <1>2 DEF Observed, MoveTo, Keeps, NoRun
<1>5. \/ s.pc = "turn" /\ s.next = r.next /\ r.next = r.reply.calls
      \/ s.pc = "calling" /\ s.next = r.next + 1 /\ r.next # r.reply.calls
  <2>1. CASE r.next = r.reply.calls
    <3>1. MoveTo(c, "turn")
      BY <2>1 DEF Observed
    <3>2. QED
      BY <1>2, <2>1, <3>1 DEF MoveTo, NoRun
  <2>2. CASE r.next # r.reply.calls
    <3>1. run' = [run EXCEPT ![c].pc = "calling", ![c].next = @ + 1]
      BY <2>2 DEF Observed
    <3>2. QED
      BY <1>2, <2>2, <3>1 DEF NoRun
  <2>3. QED
    BY <2>1, <2>2
<1>6. messages' = h /\ invoked' = v /\ acquired' = TRUE /\ Recorded
  BY <1>2, NothingRecorded DEF Observed
<1> HIDE DEF r, s
<1>7. RunTyped(s)
  <2>1. Flags(s)
    BY <1>2, <1>4, Zenon DEF RunTyped, Flags, Keeps
  <2>2. QED
    BY <1>2, <1>4, <1>5, <2>1 DEF RunTyped, Keeps, Places, BatchPlaces
<1>8. /\ BatchAt(r, h, v, Len(h) - r.next) /\ Pending(r, h) = r.reply.calls - r.next
      /\ r.next \in Nat /\ r.reply.calls \in Nat
  BY <1>1, <1>2, AgentBounds, BatchFacts, SMTT(30) DEF InBatch, BatchPlaces, Answers, RunTyped
<1>9. RunOK(s, h, v)
  <2>1. RejectedTurns(s, h) = RejectedTurns(r, h) /\ Pending(s, h) = Pending(r, h)
    BY <1>4, CountedAlike DEF Keeps
  <2>2. Budget(s, h) /\ Hidden(s, h)
    BY <1>1, <1>2, <1>4, <1>5, <2>1 DEF Budget, Hidden, RunOK, Keeps, RunTyped, Rejecting
  <2>3. Corrections(s, h) /\ Baselines(s, h)
    BY <1>1, <1>2, <1>4, <1>5 DEF Corrections, Baselines, RunOK, Rejecting
  <2>4. Batches(s, h, v)
    <3>1. CASE s.pc = "turn"
      BY <1>5, <1>8, <2>1, <3>1 DEF Batches, InBatch, BatchPlaces
    <3>2. CASE s.pc = "calling"
      <4>1. Answers(s) = r.next /\ Handled(s) = r.next /\ Handled(r) = r.next
        BY <1>1, <1>5, <1>8, <3>2 DEF Answers, Handled
      <4>2. s.next \in 1..s.reply.calls
        BY <1>4, <1>5, <1>8, <3>2 DEF BatchAt
      <4>3. BatchAt(s, h, v, Len(h) - r.next)
        BY <1>4, <1>8, <4>1, <4>2 DEF BatchAt, Keeps
      <4>4. QED
        BY <3>2, <4>1, <4>3 DEF Batches, InBatch, BatchPlaces
    <3>3. QED
      BY <1>5, <3>1, <3>2
  <2>5. QED
    BY <1>2, <1>4, <2>2, <2>3, <2>4 DEF RunOK, Keeps
<1>10. QED
  BY <1>1, <1>3, <1>5, <1>6, <1>7, <1>9, RunContinues DEF r, s

-----------------------------------------------------------------------------
(* Replies *)

\* What a provider may answer.
LEMMA ReplyShape ==
    ASSUME NEW structured, NEW reply \in Replies(structured)
    PROVE  /\ reply \in ReplyRecords /\ reply.calls \in Nat
           /\ reply.verdict \in {"text", "mixed"} \cup Ordinary \cup Submitted
           /\ reply.verdict = "text" <=> reply.calls = 0
           /\ reply.verdict \in Submitted => reply.calls = 1
           /\ ~structured => reply.verdict \in {"text"} \cup Ordinary
BY AgentBounds DEF Replies, ReplyRecords, Verdicts, Ordinary, Submitted

\* g is h with a rejected reply of run r behind it: its calls are answered and
\* it counts once.
Rejects(r, h, g, reply) ==
    /\ Extends(h, g, Assistant(reply))
    /\ r.start \in 1..Len(g)
    /\ RejectedTurns(r, h) \in Nat /\ RejectedTurns(r, g) = RejectedTurns(r, h) + 1
    /\ Pending(r, g) = 0
    /\ EndsRejected(g)
    /\ reply.calls = 1 /\ reply.verdict \in {"composes", "repairable"} => EndsWithBaseline(g)

LEMMA RejectionCounts ==
    ASSUME NEW h \in Seq(Messages), NEW reply \in ReplyRecords, NEW g, g = h \o Rejection(reply),
           NEW r, r.start \in 1..Len(h), Rejected(r.structured, Assistant(reply))
    PROVE  Rejects(r, h, g, reply)
<1> HIDE DEF Messages
<1>1. /\ Extends(h, g, Assistant(reply)) /\ Len(g) = Len(h) + 1 + reply.calls
      /\ \A k \in 1..reply.calls : g[Len(h) + 1 + k] = Incomplete(k)
  BY RejectionExtends
<1>2. reply.calls \in Nat /\ Len(h) \in Nat /\ Len(g) \in Nat /\ g[Len(h) + 1] = Assistant(reply)
  BY <1>1, AgentBounds DEF ReplyRecords, Extends
<1>3. /\ Assistant(reply).role = "assistant" /\ Assistant(reply).verdict = reply.verdict
      /\ \A k : Incomplete(k).role = "tool" /\ Incomplete(k).status = "incomplete"
  BY DEF Assistant, Incomplete
<1>4. Pending(r, g) = 0
  <2>1. Pending(r, g) = reply.calls - (Len(g) - (Len(h) + 1))
    BY <1>1, PendingExtended
  <2>2. QED
    BY <1>1, <1>2, <2>1
<1>5. EndsRejected(g)
  <2>1. CASE reply.calls = 0
    <3>1. g[Len(g)] = Assistant(reply)
      BY <1>1, <1>2, <2>1
    <3>2. QED
      BY <1>3, <3>1 DEF EndsRejected
  <2>2. CASE reply.calls > 0
    <3>1. reply.calls \in 1..reply.calls /\ Len(g) = Len(h) + 1 + reply.calls
      BY <1>1, <1>2, <2>2
    <3>2. g[Len(g)] = Incomplete(reply.calls)
      BY ONLY <1>1, <3>1
    <3>3. QED
      BY <1>3, <3>2 DEF EndsRejected
  <2>3. QED
    BY <1>2, <2>1, <2>2
<1>6. reply.calls = 1 /\ reply.verdict \in {"composes", "repairable"} => EndsWithBaseline(g)
  <2>1. reply.calls = 1 => g[Len(g) - 1] = Assistant(reply)
    BY <1>1, <1>2
  <2>2. QED
    BY <1>3, <2>1 DEF EndsWithBaseline
<1>7. r.start \in 1..Len(g)
  BY <1>1, <1>2
<1>8. QED
  BY <1>1, <1>4, <1>5, <1>6, <1>7, RejectedTurnsExtended DEF Rejects

\* Messages that are pushed for a reply are recorded and no results.
LEMMA RepliesRecorded ==
    ASSUME AgentInv, UNCHANGED <<toolCalls, invoked, runs>>, NEW reply,
           Extends(messages, messages', Assistant(reply))
    PROVE  Recorded
<1>1. Assistant(reply).role # "tool"
  BY DEF Assistant
<1>2. QED
  BY <1>1, MessagesRecorded DEF AgentInv, TypeOK

\* A rejected submission (rejectedSubmission, storeAssistant).
LEMMA RejectSubmissionStep ==
    ASSUME AgentInv, NEW c \in Callers, NEW reply \in Replies(run[c].structured),
           RejectSubmission(c, reply)
    PROVE  AgentInv'
<1> DEFINE r == run[c]
           s == run'[c]
           h == messages
           g == messages'
<1>1. Engaged(c) /\ r.pc = "asked"
  BY DEF RejectSubmission, AtPlace, Engaged
<1>2. /\ RunTyped(r) /\ DOMAIN r = DOMAIN NoRun
      /\ RunOK(r, h, invoked) /\ acquired = TRUE /\ h \in Seq(Messages)
      /\ run = [d \in Callers |-> run[d]]
  BY <1>1, ActiveRun
<1>3. RunMoves(c)
  BY <1>2 DEF RejectSubmission, RunMoves
<1>4. /\ Keeps(r, s)
      /\ s.turns = r.turns /\ s.invalid = r.invalid /\ s.correction = r.correction
      /\ s.corrected = r.corrected /\ s.baseline = r.baseline /\ s.reply = reply
      /\ s.shown = r.shown /\ s.next = r.next
  BY <1>1, <1>2 DEF RejectSubmission, Keeps, NoRun
<1>5. s.pc = IF r.invalid < r.maxRepairs THEN "attempted" ELSE "exhausted"
  BY <1>1, <1>2 DEF RejectSubmission, BudgetLeft, NoRun
<1>6. /\ g = h \o Rejection(reply) /\ UNCHANGED <<toolCalls, invoked, runs>> /\ acquired' = TRUE
      /\ r.structured /\ Submission(reply, r.baseline) = "invalid"
  BY <1>2 DEF RejectSubmission
<1>7. /\ reply \in ReplyRecords /\ reply.verdict \in {"text", "mixed"} \cup Ordinary \cup Submitted
      /\ reply.verdict \in Submitted => reply.calls = 1
  BY ReplyShape
<1>8. reply.verdict \notin Ordinary
  BY <1>6 DEF Submission
<1> HIDE DEF r, s, g
<1>9. Rejected(r.structured, Assistant(reply))
  BY <1>6, <1>7, <1>8 DEF Rejected, Assistant, Ordinary
<1>10. /\ Extends(h, g, Assistant(reply)) /\ r.start \in 1..Len(g)
       /\ RejectedTurns(r, h) \in Nat /\ RejectedTurns(r, g) = RejectedTurns(r, h) + 1
       /\ Pending(r, g) = 0 /\ EndsRejected(g)
       /\ reply.verdict \in {"composes", "repairable"} => EndsWithBaseline(g)
  <2>1. r.start \in 1..Len(h) /\ h \in Seq(Messages)
    BY <1>2 DEF RunOK
  <2>2. reply.verdict \in {"composes", "repairable"} => reply.calls = 1
    BY <1>7 DEF Submitted
  <2>3. g = h \o Rejection(reply) /\ reply \in ReplyRecords
    BY <1>6, <1>7
  <2> HIDE DEF h
  <2>4. Rejects(r, h, g, reply)
    BY <1>9, <2>1, <2>3, RejectionCounts, Zenon
  <2>5. QED
    BY <2>2, <2>4 DEF Rejects
<1>11. Recorded
  BY <1>6, <1>10, RepliesRecorded DEF g
<1>12. RunTyped(s)
  <2>1. Flags(s)
    BY <1>2, <1>4, Zenon DEF RunTyped, Flags, Keeps
  <2>2. QED
    BY <1>2, <1>4, <1>5, <1>7, <2>1 DEF RunTyped, Keeps, Places, Rejecting
<1>13. RunOK(s, g, invoked)
  <2>1. RejectedTurns(s, g) = RejectedTurns(r, g) /\ Pending(s, g) = Pending(r, g)
    BY <1>4, CountedAlike DEF Keeps
  <2>2. Budget(s, g) /\ Hidden(s, g)
    BY <1>1, <1>2, <1>4, <1>5, <1>10, <2>1 DEF Budget, Hidden, RunOK, Keeps, RunTyped, Rejecting
  <2>3. Corrections(s, g)
    BY <1>1, <1>2, <1>4, <1>5, <1>10 DEF Corrections, RunOK, Rejecting
  <2>4. Baselines(s, g)
    BY <1>1, <1>2, <1>4, <1>5, <1>10 DEF Baselines, RunOK, Rejecting
  <2>5. Batches(s, g, invoked)
    BY <1>5, <1>10, <2>1 DEF Batches, InBatch, BatchPlaces
  <2>6. QED
    BY <1>4, <1>10, <2>2, <2>3, <2>4, <2>5 DEF RunOK, Keeps
<1>14. QED
  BY <1>1, <1>3, <1>5, <1>6, <1>11, <1>12, <1>13, RunContinues DEF r, s, g

\* An unstructured stream yields response.finished.
LEMMA ShowReplyStep ==
    ASSUME AgentInv, NEW c \in Callers, NEW reply \in Replies(run[c].structured), ShowReply(c, reply)
    PROVE  AgentInv'
<1> DEFINE r == run[c]
           s == run'[c]
<1>1. Engaged(c) /\ r.pc = "asked"
  BY DEF ShowReply, AtPlace, Engaged
<1>2. /\ RunTyped(r) /\ DOMAIN r = DOMAIN NoRun
      /\ RunOK(r, messages, invoked) /\ acquired = TRUE /\ messages \in Seq(Messages)
      /\ run = [d \in Callers |-> run[d]]
  BY <1>1, ActiveRun
<1>3. RunMoves(c)
  BY <1>2 DEF ShowReply, RunMoves
<1>4. /\ Keeps(r, s)
      /\ s.pc = "shown"
      /\ s.turns = r.turns /\ s.invalid = r.invalid /\ s.correction = r.correction
      /\ s.corrected = r.corrected /\ s.baseline = r.baseline /\ s.reply = reply
      /\ s.shown = r.shown + 1 /\ s.next = r.next
  BY <1>1, <1>2 DEF ShowReply, Keeps, NoRun
<1>5. messages' = messages /\ invoked' = invoked /\ acquired' = TRUE /\ Recorded
  BY <1>2, NothingRecorded DEF ShowReply
<1>6. reply \in ReplyRecords /\ reply \in Replies(FALSE) /\ ~r.structured
  <2>1. r.structured = FALSE
    BY <1>2 DEF ShowReply, RunTyped, Flags
  <2>2. QED
    BY <2>1, ReplyShape
<1> HIDE DEF r, s
<1>7. RunTyped(s)
  <2>1. Flags(s)
    BY <1>2, <1>4, Zenon DEF RunTyped, Flags, Keeps
  <2>2. QED
    BY <1>2, <1>4, <1>6, <2>1 DEF RunTyped, Keeps, Places, Asked
<1>8. RunOK(s, messages, invoked)
  <2>1. /\ RejectedTurns(s, messages) = RejectedTurns(r, messages)
        /\ Pending(s, messages) = Pending(r, messages)
    BY <1>4, CountedAlike DEF Keeps
  <2>2. Budget(s, messages) /\ Hidden(s, messages)
    BY <1>1, <1>2, <1>4, <1>6, <2>1 DEF Budget, Hidden, RunOK, Keeps, RunTyped, Rejecting
  <2>3. Corrections(s, messages) /\ Baselines(s, messages)
    BY <1>1, <1>2, <1>4 DEF Corrections, Baselines, RunOK, Rejecting
  <2>4. Batches(s, messages, invoked)
    BY <1>1, <1>2, <1>4, <1>6, <2>1 DEF Batches, RunOK, InBatch, BatchPlaces, Keeps
  <2>5. QED
    BY <1>2, <1>4, <2>2, <2>3, <2>4 DEF RunOK, Keeps
<1>9. QED
  BY <1>1, <1>3, <1>4, <1>5, <1>7, <1>8, RunContinues DEF r, s

-----------------------------------------------------------------------------
(* Replies that are stored *)

\* A run ends, and its finally block releases the agent.
LEMMA EndOfRun ==
    ASSUME AgentInv, NEW c \in Callers, Engaged(c), End(c), Recorded
    PROVE  AgentInv'
<1>1. run = [d \in Callers |-> run[d]]
  BY DEF AgentInv, TypeOK
<1>2. RunMoves(c) /\ run'[c] = NoRun /\ acquired' = FALSE
  BY <1>1 DEF End, RunMoves
<1>3. QED
  BY <1>2, RunEnds

\* g is h with an accepted reply of run r behind it.
Accepts(r, h, g, reply) ==
    /\ Extends(h, g, Assistant(reply))
    /\ Len(g) = Len(h) + 1
    /\ r.start \in 1..Len(g)
    /\ RejectedTurns(r, h) \in Nat /\ RejectedTurns(r, g) = RejectedTurns(r, h)
    /\ Pending(r, g) = reply.calls

LEMMA AcceptedIsPending ==
    ASSUME NEW h \in Seq(Messages), NEW reply \in ReplyRecords, NEW g,
           g = Append(h, Assistant(reply)), NEW r, r.start \in 1..Len(h),
           ~Rejected(r.structured, Assistant(reply))
    PROVE  Accepts(r, h, g, reply)
<1> HIDE DEF Messages
<1>1. Extends(h, g, Assistant(reply)) /\ Len(g) = Len(h) + 1
  BY PushedMessages, AppendExtends
<1>2. Len(h) \in Nat /\ reply.calls \in Nat
  BY AgentBounds DEF ReplyRecords
<1>3. Pending(r, g) = reply.calls - (Len(g) - (Len(h) + 1))
  BY <1>1, PendingExtended
<1>4. Pending(r, g) = reply.calls /\ r.start \in 1..Len(g)
  BY <1>1, <1>2, <1>3
<1>5. RejectedTurns(r, h) \in Nat /\ RejectedTurns(r, g) = RejectedTurns(r, h)
  BY <1>1, RejectedTurnsExtended
<1>6. QED
  BY <1>1, <1>4, <1>5 DEF Accepts

\* The submission is stored as a plain answer (finishedSubmission, storeAssistant).
LEMMA StoreSubmissionStep ==
    ASSUME AgentInv, NEW c \in Callers, StoreSubmission(c)
    PROVE  AgentInv'
<1> DEFINE r == run[c]
           s == run'[c]
           h == messages
           g == messages'
<1>1. Engaged(c) /\ r.pc = "accepted"
  BY DEF StoreSubmission, AtPlace, Engaged
<1>2. /\ RunTyped(r) /\ DOMAIN r = DOMAIN NoRun
      /\ RunOK(r, h, invoked) /\ acquired = TRUE /\ h \in Seq(Messages)
      /\ run = [d \in Callers |-> run[d]]
  BY <1>1, ActiveRun
<1>3. g = Append(h, Assistant(Answer)) /\ UNCHANGED <<toolCalls, invoked, runs>>
  BY DEF StoreSubmission
<1>4. Answer \in ReplyRecords /\ Answer.calls = 0 /\ Answer.verdict = "answer"
  BY AgentBounds DEF Answer, ReplyRecords, Verdicts
<1>5. ~Rejected(r.structured, Assistant(Answer))
  BY <1>4 DEF Rejected, Assistant, Submitted
<1>6. Accepts(r, h, g, Answer)
  <2>1. r.start \in 1..Len(h) /\ h \in Seq(Messages)
    BY <1>2 DEF RunOK
  <2> HIDE DEF r, h, g
  <2>2. QED
    BY <1>3, <1>4, <1>5, <2>1, AcceptedIsPending, Zenon
<1>7. Recorded
  BY <1>3, <1>6, RepliesRecorded DEF Accepts
<1>8. CASE ~Streams(c)
  <2>1. End(c)
    BY <1>8 DEF StoreSubmission
  <2>2. QED
    BY <1>1, <1>7, <2>1, EndOfRun
<1>9. CASE Streams(c)
  <2>1. /\ run' = [run EXCEPT ![c].pc = "buffered", ![c].reply = Answer]
        /\ acquired' = TRUE
    BY <1>2, <1>9 DEF StoreSubmission
  <2>2. RunMoves(c)
    BY <1>2, <2>1 DEF RunMoves
  <2>3. /\ Keeps(r, s)
        /\ s.pc = "buffered"
        /\ s.turns = r.turns /\ s.invalid = r.invalid /\ s.correction = r.correction
        /\ s.corrected = r.corrected /\ s.baseline = r.baseline /\ s.reply = Answer
        /\ s.shown = r.shown /\ s.next = r.next
    BY <1>2, <2>1 DEF Keeps, NoRun
  <2> HIDE DEF r, s, g
  <2>4. RunTyped(s)
    <3>1. Flags(s)
      BY <1>2, <2>3, Zenon DEF RunTyped, Flags, Keeps
    <3>2. QED
      BY <1>2, <1>4, <2>3, <3>1 DEF RunTyped, Keeps, Places
  <2>5. RunOK(s, g, invoked)
    <3>1. RejectedTurns(s, g) = RejectedTurns(r, g) /\ Pending(s, g) = Pending(r, g)
      BY <2>3, CountedAlike DEF Keeps
    <3>2. RejectedTurns(r, g) = RejectedTurns(r, h) /\ RejectedTurns(r, h) \in Nat
      BY <1>6 DEF Accepts
    <3>3. Budget(s, g) /\ Hidden(s, g)
      BY <1>1, <1>2, <2>3, <3>1, <3>2 DEF Budget, Hidden, RunOK, Keeps, RunTyped, Rejecting
    <3>4. Corrections(s, g) /\ Baselines(s, g)
      BY <1>1, <1>2, <2>3 DEF Corrections, Baselines, RunOK, Rejecting
    <3>5. Batches(s, g, invoked)
      BY <1>4, <1>6, <2>3, <3>1 DEF Batches, InBatch, BatchPlaces, Accepts
    <3>6. QED
      BY <1>6, <2>3, <3>3, <3>4, <3>5 DEF RunOK, Keeps, Accepts
  <2>6. s.pc # "idle" /\ acquired' = TRUE
    BY <2>1, <2>3
  <2>7. QED
    BY <1>1, <1>3, <1>7, <2>2, <2>4, <2>5, <2>6, RunContinues, Zenon DEF r, s, g
<1>10. QED
  BY <1>8, <1>9

\* An ordinary reply that does not end the run is stored.
LEMMA ValidReplyStep ==
    ASSUME AgentInv, NEW c \in Callers, run[c].pc \in {"asked", "shown"},
           NEW reply \in Replies(run[c].structured),
           run[c].structured => run[c].pc = "asked" /\ reply.verdict \in Ordinary,
           ValidCalls(reply), reply.calls > 0 \/ Streams(c), StoreReply(c, reply)
    PROVE  AgentInv'
<1> DEFINE r == run[c]
           s == run'[c]
           h == messages
           g == messages'
<1>1. Engaged(c) /\ r.pc \in {"asked", "shown"}
  BY DEF Engaged
<1>2. /\ RunTyped(r) /\ DOMAIN r = DOMAIN NoRun
      /\ RunOK(r, h, invoked) /\ acquired = TRUE /\ h \in Seq(Messages)
      /\ run = [d \in Callers |-> run[d]]
  BY <1>1, ActiveRun
<1>3. /\ reply \in ReplyRecords /\ reply.calls \in Nat
      /\ reply.verdict = "text" <=> reply.calls = 0
  BY ReplyShape
<1>4. /\ g = Append(h, Assistant(reply)) /\ UNCHANGED <<toolCalls, invoked, runs>>
      /\ acquired' = TRUE
      /\ run' = [run EXCEPT ![c] = [OrdinaryTurn(run[c]) EXCEPT
                    !.pc = Stored(c, reply), !.reply = reply, !.next = 1]]
  <2>1. ~(reply.calls = 0 /\ ~Streams(c))
    BY <1>3
  <2>2. QED
    BY <1>2, <2>1 DEF StoreReply
<1>5. reply.verdict \in {"text", "valid"} /\ (r.structured => reply.verdict # "text")
  BY DEF ValidCalls, Ordinary
<1>6. ~Rejected(r.structured, Assistant(reply))
  BY <1>5 DEF Rejected, Assistant, Submitted
<1>7. Accepts(r, h, g, reply)
  <2>1. r.start \in 1..Len(h) /\ h \in Seq(Messages)
    BY <1>2 DEF RunOK
  <2> HIDE DEF r, h, g
  <2>2. QED
    BY <1>3, <1>4, <1>6, <2>1, AcceptedIsPending, Zenon
<1>8. Recorded
  BY <1>4, <1>7, RepliesRecorded DEF Accepts
<1>9. RunMoves(c)
  BY <1>2, <1>4 DEF RunMoves
<1>10. /\ Keeps(r, s)
       /\ s.pc = Stored(c, reply)
       /\ s.turns = r.turns /\ s.invalid = r.invalid /\ s.correction = r.correction
       /\ s.corrected = r.corrected /\ s.baseline = FALSE /\ s.reply = reply
       /\ s.shown = r.shown /\ s.next = 1
  <2>1. s = [[r EXCEPT !.baseline = FALSE] EXCEPT
               !.pc = Stored(c, reply), !.reply = reply, !.next = 1]
    BY <1>2, <1>4 DEF OrdinaryTurn
  <2> HIDE DEF r, s
  <2>2. QED
    BY <1>2, <2>1 DEF Keeps, NoRun
<1>11. /\ s.pc \in {"buffered", "finished", "calling"}
       /\ s.pc = "buffered" <=> r.mode = "stream" /\ r.structured
       /\ s.pc = "finished" => reply.calls = 0
       /\ s.pc = "calling" => reply.calls > 0
  <2>1. Streams(c) <=> r.mode = "stream"
    BY DEF Streams
  <2>2. r.structured \in BOOLEAN /\ (reply.calls > 0 \/ r.mode = "stream")
    BY <1>2, <2>1 DEF RunTyped, Flags
  <2>3. /\ r.mode = "stream" /\ r.structured => s.pc = "buffered"
        /\ ~(r.mode = "stream" /\ r.structured) =>
              s.pc = IF reply.calls = 0 THEN "finished" ELSE "calling"
    BY <1>10, <2>1 DEF Stored
  <2> HIDE DEF r, s
  <2>4. CASE r.mode = "stream" /\ r.structured
    BY <2>3, <2>4
  <2>5. CASE ~(r.mode = "stream" /\ r.structured)
    BY <1>3, <2>3, <2>5
  <2>6. QED
    BY <2>4, <2>5
<1>12. Points(invoked, h) /\ invoked \in Seq(Calls)
  BY DEF AgentInv, TypeOK
<1> HIDE DEF r, s, g
<1>13. RunTyped(s)
  <2>1. Flags(s)
    BY <1>2, <1>10, Zenon DEF RunTyped, Flags, Keeps
  <2>2. QED
    BY <1>2, <1>3, <1>10, <1>11, <2>1 DEF RunTyped, Keeps, Places, BatchPlaces
<1>14. RunOK(s, g, invoked)
  <2>1. RejectedTurns(s, g) = RejectedTurns(r, g) /\ Pending(s, g) = Pending(r, g)
    BY <1>10, CountedAlike DEF Keeps
  <2>2. RejectedTurns(r, g) = RejectedTurns(r, h) /\ RejectedTurns(r, h) \in Nat
    BY <1>7 DEF Accepts
  <2>3. Budget(s, g)
    BY <1>1, <1>2, <1>10, <1>11, <2>1, <2>2 DEF Budget, RunOK, Keeps, RunTyped, Rejecting
  <2>4. Hidden(s, g)
    BY <1>1, <1>2, <1>10, <1>11, <2>1, <2>2 DEF Hidden, RunOK, Keeps, RunTyped, r
  <2>5. Corrections(s, g) /\ Baselines(s, g)
    BY <1>1, <1>2, <1>10, <1>11 DEF Corrections, Baselines, RunOK, Rejecting
  <2>6. Batches(s, g, invoked)
    <3>1. CASE reply.calls = 0
      <4>1. ~InBatch(s) /\ s.pc # "shown" /\ Pending(s, g) = 0
        BY <1>7, <1>10, <1>11, <2>1, <3>1 DEF InBatch, BatchPlaces, Accepts
      <4>2. QED
        BY <4>1 DEF Batches
    <3>2. CASE reply.calls > 0
      <4>1. InBatch(s) /\ Answers(s) = 0 /\ Handled(s) = 0
        BY <1>10, <1>11, <3>2 DEF InBatch, BatchPlaces, Answers, Handled
      <4>2. Len(h) \in Nat /\ Len(g) = Len(h) + 1 /\ g[Len(g)] = Assistant(reply) /\ Len(g) - 0 = Len(g)
        BY <1>7 DEF Accepts, Extends
      <4>3. \A i \in 1..Len(invoked) : invoked[i].message < Len(g)
        BY <1>12, <4>2 DEF Points
      <4>4. reply.verdict = "valid"
        BY <1>3, <1>5, <3>2
      <4>5. s.start \in 1..Len(g) /\ s.start \in Nat
        BY <1>7, <1>10 DEF Keeps, Accepts
      <4>6. BatchAt(s, g, invoked, Len(g))
        BY <1>3, <1>10, <3>2, <4>1, <4>2, <4>3, <4>4, <4>5 DEF BatchAt
      <4>7. QED
        BY <1>11, <4>1, <4>2, <4>6 DEF Batches
    <3>3. QED
      BY <1>3, <3>1, <3>2
  <2>7. QED
    BY <1>7, <1>10, <2>3, <2>4, <2>5, <2>6 DEF RunOK, Keeps, Accepts
<1>15. s.pc # "idle"
  BY <1>11
<1>16. QED
  BY <1>1, <1>4, <1>8, <1>9, <1>13, <1>14, <1>15, RunContinues DEF r, s, g

\* A batch that validation rejects counts against the budget (validatedCalls).
LEMMA InvalidReplyStep ==
    ASSUME AgentInv, NEW c \in Callers, run[c].pc \in {"asked", "shown"},
           NEW reply \in Replies(run[c].structured),
           run[c].structured => run[c].pc = "asked",
           reply.verdict = "invalid", StoreReply(c, reply)
    PROVE  AgentInv'
<1> DEFINE r == run[c]
           s == run'[c]
           h == messages
           g == messages'
<1>1. Engaged(c) /\ r.pc \in {"asked", "shown"}
  BY DEF Engaged
<1>2. /\ RunTyped(r) /\ DOMAIN r = DOMAIN NoRun
      /\ RunOK(r, h, invoked) /\ acquired = TRUE /\ h \in Seq(Messages)
      /\ run = [d \in Callers |-> run[d]]
  BY <1>1, ActiveRun
<1>3. reply \in ReplyRecords /\ ~ValidCalls(reply)
  BY ReplyShape DEF ValidCalls
<1>4. g = h \o Rejection(reply) /\ UNCHANGED <<toolCalls, invoked, runs>>
  BY <1>3 DEF StoreReply
<1>5. Rejected(r.structured, Assistant(reply))
  BY DEF Rejected, Assistant
<1>6. Rejects(r, h, g, reply)
  <2>1. r.start \in 1..Len(h) /\ h \in Seq(Messages)
    BY <1>2 DEF RunOK
  <2>2. g = h \o Rejection(reply) /\ reply \in ReplyRecords
    BY <1>3, <1>4
  <2> HIDE DEF r, h, g
  <2>3. QED
    BY <1>5, <2>1, <2>2, RejectionCounts, Zenon
<1>7. Recorded
  BY <1>4, <1>6, RepliesRecorded DEF Rejects
<1>8. CASE ~BudgetLeft(c)
  <2>1. End(c)
    BY <1>3, <1>8 DEF StoreReply
  <2>2. QED
    BY <1>1, <1>7, <2>1, EndOfRun
<1>9. CASE BudgetLeft(c)
  <2>1. /\ run' = [run EXCEPT ![c] = [OrdinaryTurn(run[c]) EXCEPT !.pc = "repairing", !.invalid = @ + 1]]
        /\ acquired' = TRUE
    BY <1>2, <1>3, <1>9 DEF StoreReply
  <2>2. RunMoves(c)
    BY <1>2, <2>1 DEF RunMoves
  <2>3. /\ Keeps(r, s)
        /\ s.pc = "repairing"
        /\ s.turns = r.turns /\ s.invalid = r.invalid + 1 /\ s.correction = r.correction
        /\ s.corrected = r.corrected /\ s.baseline = FALSE /\ s.reply = r.reply
        /\ s.shown = r.shown /\ s.next = r.next
    <3>1. s = [OrdinaryTurn(r) EXCEPT !.pc = "repairing", !.invalid = @ + 1]
      BY <1>2, <2>1
    <3>2. s = [[r EXCEPT !.baseline = FALSE] EXCEPT !.pc = "repairing", !.invalid = r.invalid + 1]
      BY <1>2, <3>1 DEF OrdinaryTurn, NoRun
    <3> HIDE DEF r, s
    <3>3. QED
      BY <1>2, <3>2 DEF Keeps, NoRun
  <2>4. r.invalid < r.maxRepairs
    BY <1>9 DEF BudgetLeft
  <2> HIDE DEF r, s, g
  <2>5. RunTyped(s)
    <3>1. Flags(s)
      BY <1>2, <2>3, Zenon DEF RunTyped, Flags, Keeps
    <3>2. QED
      BY <1>2, <2>3, <3>1 DEF RunTyped, Keeps, Places
  <2>6. RunOK(s, g, invoked)
    <3>1. RejectedTurns(s, g) = RejectedTurns(r, g) /\ Pending(s, g) = Pending(r, g)
      BY <2>3, CountedAlike DEF Keeps
    <3>2. RejectedTurns(r, g) = RejectedTurns(r, h) + 1 /\ RejectedTurns(r, h) \in Nat
      BY <1>6 DEF Rejects
    <3>3. Budget(s, g)
      BY <1>1, <1>2, <2>3, <2>4, <3>1, <3>2 DEF Budget, RunOK, Keeps, RunTyped, Rejecting
    <3>4. Hidden(s, g)
      BY <1>1, <1>2, <2>3, <3>1, <3>2 DEF Hidden, RunOK, Keeps, RunTyped, r
    <3>5. Corrections(s, g) /\ Baselines(s, g)
      BY <1>1, <1>2, <1>6, <2>3 DEF Corrections, Baselines, RunOK, Rejecting, Rejects
    <3>6. Batches(s, g, invoked)
      BY <1>6, <2>3, <3>1 DEF Batches, InBatch, BatchPlaces, Rejects
    <3>7. QED
      BY <1>6, <2>3, <3>3, <3>4, <3>5, <3>6 DEF RunOK, Keeps, Rejects
  <2>7. s.pc # "idle" /\ acquired' = TRUE
    BY <2>1, <2>3
  <2>8. QED
    BY <1>1, <1>4, <1>7, <2>2, <2>5, <2>6, <2>7, RunContinues, Zenon DEF r, s, g
<1>10. QED
  BY <1>8, <1>9

\* Any ordinary reply.
LEMMA StoreReplyStep ==
    ASSUME AgentInv, NEW c \in Callers, run[c].pc \in {"asked", "shown"},
           NEW reply \in Replies(run[c].structured),
           reply.verdict \in {"text"} \cup Ordinary,
           run[c].structured => run[c].pc = "asked" /\ reply.verdict \in Ordinary,
           StoreReply(c, reply)
    PROVE  AgentInv'
<1>1. Engaged(c)
  BY DEF Engaged
<1>2. reply \in ReplyRecords /\ reply.calls \in Nat
  BY ReplyShape
<1>3. CASE ValidCalls(reply) /\ (reply.calls > 0 \/ Streams(c))
  BY <1>3, ValidReplyStep
<1>4. CASE ValidCalls(reply) /\ reply.calls = 0 /\ ~Streams(c)
  <2>1. End(c) /\ messages' = Append(messages, Assistant(reply)) /\ UNCHANGED <<toolCalls, invoked, runs>>
    BY <1>4 DEF StoreReply
  <2>2. messages \in Seq(Messages) /\ Assistant(reply) \in Messages
    BY <1>2, PushedMessages DEF AgentInv, TypeOK
  <2>3. Extends(messages, messages', Assistant(reply))
    BY <2>1, <2>2, AppendExtends
  <2>4. QED
    BY <1>1, <2>1, <2>3, RepliesRecorded, EndOfRun
<1>5. CASE ~ValidCalls(reply)
  <2>1. reply.verdict = "invalid"
    BY <1>5 DEF ValidCalls, Ordinary
  <2>2. QED
    BY <2>1, InvalidReplyStep
<1>6. QED
  BY <1>2, <1>3, <1>4, <1>5

-----------------------------------------------------------------------------
(* A result is recorded *)

\* One more result behind all others, and its entry in the ledger
\* (recordToolResult).
LEMMA LedgerGrows ==
    ASSUME TypeOK, Points(toolCalls, messages), LedgerAgrees,
           NEW e \in Calls, e.message \in 1..Len(messages), e.call \in 1..MaxCalls,
           messages[e.message].role = "assistant", e.call <= messages[e.message].calls,
           Position(e) = Len(messages) + 1,
           toolCalls' = Append(toolCalls, e), messages' = Append(messages, Result(e.call))
    PROVE  Points(toolCalls, messages)' /\ LedgerAgrees'
<1> DEFINE h == messages
           g == messages'
           t == toolCalls
           u == toolCalls'
<1> HIDE DEF Messages
<1>1. h \in Seq(Messages) /\ t \in Seq(Calls) /\ Result(e.call) \in Messages
  BY PushedMessages DEF TypeOK
<1>2. /\ Len(h) \in Nat /\ Len(g) = Len(h) + 1 /\ DOMAIN h = 1..Len(h) /\ DOMAIN g = 1..Len(g)
      /\ \A i \in 1..Len(h) : g[i] = h[i]
      /\ g[Len(g)] = Result(e.call)
  BY <1>1
<1>3. /\ Len(t) \in Nat /\ Len(u) = Len(t) + 1 /\ DOMAIN t = 1..Len(t) /\ DOMAIN u = 1..Len(u)
      /\ \A i \in 1..Len(t) : u[i] = t[i]
      /\ u[Len(u)] = e
  BY <1>1
<1>4. /\ \A i \in 1..Len(t) : t[i].message \in 1..Len(h)
      /\ LedgerAgrees
  BY DEF Points
<1>5. /\ Result(e.call).role = "tool" /\ Result(e.call).status = "completed"
      /\ Result(e.call).call = e.call
  BY DEF Result
<1>6. \A n \in 1..Len(h) : Completed(g, n) <=> Completed(h, n)
  BY <1>2 DEF Completed, IsTool
<1>7. \A n : Completed(h, n) => n \in 1..Len(h)
  BY <1>2 DEF Completed, IsTool
<1>8. Completed(g, Len(g)) /\ Position(e) = Len(g) /\ g[e.message] = h[e.message]
  BY <1>2, <1>5 DEF Completed, IsTool
<1>9. \A i \in 1..Len(t) :
         /\ h[t[i].message].role = "assistant" /\ t[i].call <= h[t[i].message].calls
         /\ Completed(h, Position(t[i])) /\ h[Position(t[i])].call = t[i].call
         /\ Position(t[i]) \in 1..Len(h)
  BY <1>3, <1>4, <1>7 DEF LedgerAgrees
<1>10. \A i, j \in 1..Len(t) : i < j => Position(t[i]) < Position(t[j])
  BY <1>3, <1>4 DEF LedgerAgrees
<1>11. \A n \in 1..Len(h) : Completed(h, n) => \E i \in 1..Len(t) : Position(t[i]) = n
  BY <1>2, <1>3, <1>4 DEF LedgerAgrees
<1>12. e.message \in 1..Len(h) /\ h[e.message].role = "assistant" /\ e.call <= h[e.message].calls
  OBVIOUS
<1> HIDE DEF h, g, t, u
<1>13. \A i \in 1..Len(u) : i \in 1..Len(t) \/ (i = Len(u) /\ u[i] = e)
  BY <1>3
<1>14. ASSUME NEW i \in 1..Len(u)
       PROVE  /\ u[i].message \in 1..Len(g)
              /\ g[u[i].message].role = "assistant" /\ u[i].call <= g[u[i].message].calls
              /\ Completed(g, Position(u[i])) /\ g[Position(u[i])].call = u[i].call
  <2>1. CASE i \in 1..Len(t)
    BY <1>2, <1>3, <1>4, <1>6, <1>9, <2>1
  <2>2. CASE i = Len(u) /\ u[i] = e
    BY <1>2, <1>5, <1>8, <1>12, <2>2
  <2>3. QED
    BY <1>13, <2>1, <2>2
<1>15. ASSUME NEW i \in 1..Len(u), NEW j \in 1..Len(u), i < j
       PROVE  Position(u[i]) < Position(u[j])
  <2>1. i \in 1..Len(t)
    BY <1>3, <1>15
  <2>2. CASE j \in 1..Len(t)
    BY <1>3, <1>10, <1>15, <2>1, <2>2
  <2>3. CASE j = Len(u) /\ u[j] = e
    <3>1. Position(u[i]) \in 1..Len(h)
      BY <1>3, <1>9, <2>1
    <3>2. Position(u[j]) = Len(h) + 1
      BY <1>2, <1>8, <2>3
    <3>3. QED
      BY <1>2, <3>1, <3>2
  <2>4. QED
    BY <1>13, <2>2, <2>3
<1>16. ASSUME NEW n \in 1..Len(g), Completed(g, n)
       PROVE  \E i \in 1..Len(u) : Position(u[i]) = n
  <2>1. CASE n \in 1..Len(h)
    <3>1. PICK i \in 1..Len(t) : Position(t[i]) = n
      BY <1>6, <1>11, <1>16, <2>1
    <3>2. i \in 1..Len(u) /\ u[i] = t[i]
      BY <1>3
    <3>3. QED
      BY <3>1, <3>2
  <2>2. CASE n = Len(g)
    <3>1. Len(u) \in 1..Len(u) /\ Position(u[Len(u)]) = n
      BY <1>3, <1>8, <2>2
    <3>2. QED
      BY <3>1
  <2>3. QED
    BY <1>2, <2>1, <2>2
<1>17. Points(toolCalls, messages)'
  BY <1>14 DEF Points, g, u
<1>18. DOMAIN u = 1..Len(u) /\ DOMAIN g = 1..Len(g)
  BY <1>2, <1>3
<1>19. LedgerAgrees'
  BY <1>14, <1>15, <1>16, <1>18 DEF LedgerAgrees, g, u
<1>20. QED
  BY <1>17, <1>19

\* The handler returned: its result is recorded in ledger and messages (runTools).
LEMMA ToolSucceedsStep ==
    ASSUME AgentInv, NEW c \in Callers, ToolSucceeds(c)
    PROVE  AgentInv'
<1> DEFINE r == run[c]
           s == run'[c]
           h == messages
           g == messages'
           v == invoked
           p == Len(h) - Answers(r)
<1> HIDE DEF Messages
<1>1. Engaged(c) /\ r.pc = "executing"
  BY DEF ToolSucceeds, AtPlace, Engaged
<1>2. /\ RunTyped(r) /\ DOMAIN r = DOMAIN NoRun
      /\ RunOK(r, h, v) /\ acquired = TRUE /\ h \in Seq(Messages)
      /\ run = [d \in Callers |-> run[d]]
  BY <1>1, ActiveRun
<1>3. RunMoves(c)
  BY <1>2 DEF ToolSucceeds, MoveTo, RunMoves
<1>4. /\ Keeps(r, s)
      /\ s.pc = "observed"
      /\ s.turns = r.turns /\ s.invalid = r.invalid /\ s.correction = r.correction
      /\ s.corrected = r.corrected /\ s.baseline = r.baseline /\ s.reply = r.reply
      /\ s.shown = r.shown /\ s.next = r.next
  BY <1>1, <1>2 DEF ToolSucceeds, MoveTo, Keeps, NoRun
<1>5. /\ UNCHANGED <<invoked, runs>> /\ acquired' = TRUE
      /\ g = Append(h, Result(r.next)) /\ toolCalls' = Append(toolCalls, Call(c))
  BY <1>2 DEF ToolSucceeds
<1>6. Call(c) = [run |-> runs, message |-> Len(h) - r.next + 1, call |-> r.next] /\ runs \in Nat
  BY DEF Call, AgentInv, TypeOK
<1> HIDE DEF r, s, g
<1>7. /\ BatchAt(r, h, v, p) /\ p \in 1..Len(h) /\ h[p].role = "assistant"
      /\ h[p].calls = r.reply.calls /\ r.next \in 1..r.reply.calls
      /\ r.next \in 1..MaxCalls /\ r.next \in Nat /\ Answers(r) = r.next - 1 /\ Len(h) \in Nat
  <2>1. InBatch(r) /\ Answers(r) = r.next - 1
    BY <1>1 DEF InBatch, BatchPlaces, Answers
  <2>2. /\ BatchAt(r, h, v, p) /\ p \in 1..Len(h) /\ h[p].role = "assistant"
        /\ h[p].calls = r.reply.calls /\ r.next \in 1..r.reply.calls
        /\ r.reply.calls \in 1..MaxCalls
    BY <1>2, <2>1, BatchFacts
  <2> HIDE DEF p
  <2>3. r.next \in 1..MaxCalls /\ r.next \in Nat /\ Len(h) \in Nat
    BY <1>2, <2>2, AgentBounds DEF RunTyped
  <2>4. QED
    BY <2>1, <2>2, <2>3
<1> HIDE DEF p
<1>8. p = Len(h) - r.next + 1 /\ p + r.next = Len(h) + 1 /\ p \in Nat
  BY <1>7 DEF p
<1>9. /\ Call(c) \in Calls /\ Call(c).message = p /\ Call(c).call = r.next
      /\ Position(Call(c)) = Len(h) + 1
  BY <1>6, <1>7, <1>8 DEF Calls, Position
<1>10. Result(r.next) \in Messages /\ Result(r.next).role = "tool" /\ Result(r.next).status = "completed"
  BY <1>7, PushedMessages DEF Result
<1>11. Extends(h, g, Result(r.next)) /\ Len(g) = Len(h) + 1
  BY <1>2, <1>5, <1>10, AppendExtends
<1>12. Recorded
  <2>1. TypeOK /\ Points(toolCalls, h) /\ LedgerAgrees /\ Points(v, h) /\ HandlersRunValidCalls
    BY DEF AgentInv
  <2>2. Call(c).call <= h[Call(c).message].calls
    BY <1>7, <1>9
  <2>3. Points(toolCalls, messages)' /\ LedgerAgrees'
    BY <1>5, <1>7, <1>9, <2>1, <2>2, LedgerGrows DEF g
  <2>4. Points(invoked, messages)' /\ HandlersRunValidCalls'
    BY <1>5, <1>11, <2>1, ExtendedIsLonger, HandlersStay DEF g
  <2>5. toolCalls' \in Seq(Calls)
    BY <1>5, <1>9, <2>1 DEF TypeOK
  <2>6. QED
    BY <1>5, <1>11, <2>1, <2>3, <2>4, <2>5 DEF Recorded, Extends, TypeOK, g
<1>13. RunTyped(s)
  <2>1. Flags(s)
    BY <1>2, <1>4, Zenon DEF RunTyped, Flags, Keeps
  <2>2. QED
    BY <1>2, <1>4, <2>1 DEF RunTyped, Keeps, Places, BatchPlaces
<1>14. RunOK(s, g, v)
  <2>1. RejectedTurns(s, g) = RejectedTurns(r, g)
    BY <1>4, CountedAlike DEF Keeps
  <2>2. r.start \in 1..Len(h) /\ ~Rejected(r.structured, Result(r.next))
    BY <1>2, <1>10 DEF RunOK, Rejected
  <2>3. RejectedTurns(r, g) = RejectedTurns(r, h) /\ RejectedTurns(r, h) \in Nat
    BY <1>11, <2>2, RejectedTurnsExtended
  <2>4. Budget(s, g) /\ Hidden(s, g)
    BY <1>1, <1>2, <1>4, <2>1, <2>3 DEF Budget, Hidden, RunOK, Keeps, RunTyped, Rejecting
  <2>5. g[Len(g)] = Result(r.next)
    BY <1>11 DEF Extends
  <2>6. ~EndsRejected(g)
    BY <1>10, <2>5 DEF EndsRejected
  <2>7. Corrections(s, g) /\ Baselines(s, g)
    BY <1>1, <1>2, <1>4, <2>6 DEF Corrections, Baselines, RunOK, Rejecting
  <2>8. Answers(s) = r.next /\ Handled(s) = r.next /\ Handled(r) = r.next
    BY <1>1, <1>4 DEF Answers, Handled
  <2>9. BatchAt(s, g, v, p)
    <3>1. p \in s.start..Len(g) /\ g[p] = h[p]
      BY <1>4, <1>7, <1>11 DEF BatchAt, Keeps, Extends
    <3>2. \A i \in (p + 1)..Len(g) : g[i].role = "tool"
      <4>1. \A i \in (p + 1)..Len(g) : (i \in (p + 1)..Len(h) /\ g[i] = h[i]) \/ i = Len(g)
        BY <1>8, <1>7, <1>11 DEF Extends
      <4>2. QED
        BY <1>7, <1>10, <2>5, <4>1 DEF BatchAt
    <3>3. QED
      BY <1>4, <1>7, <2>8, <3>1, <3>2 DEF BatchAt
  <2>10. Len(g) - Answers(s) = p
    BY <1>8, <1>11, <2>8, <1>7
  <2>11. Batches(s, g, v)
    BY <1>4, <2>9, <2>10 DEF Batches, InBatch, BatchPlaces
  <2>12. r.start \in 1..Len(g)
    BY <2>2, <1>7, <1>11
  <2>13. QED
    BY <1>4, <2>4, <2>7, <2>11, <2>12 DEF RunOK, Keeps
<1>15. s.pc # "idle" /\ invoked' = v
  BY <1>4, <1>5
<1>16. QED
  BY <1>1, <1>3, <1>5, <1>12, <1>13, <1>14, <1>15, RunContinues DEF r, s, g

-----------------------------------------------------------------------------
(* A run begins *)

\* The input is pushed before the first turn (pushInput).
LEMMA InputRecorded ==
    ASSUME AgentInv, UNCHANGED <<toolCalls, invoked>>, runs' = runs + 1,
           messages' = Append(messages, User)
    PROVE  /\ Recorded
           /\ Extends(messages, messages', User) /\ Len(messages') = Len(messages) + 1
<1> HIDE DEF Messages
<1>1. messages \in Seq(Messages) /\ User \in Messages /\ runs \in Nat /\ runs' \in Nat
  BY PushedMessages DEF AgentInv, TypeOK
<1>2. Extends(messages, messages', User) /\ Len(messages') = Len(messages) + 1
  BY <1>1, AppendExtends
<1>3. User.role # "tool"
  BY DEF User
<1>4. QED
  BY <1>1, <1>2, <1>3, MessagesRecorded

\* A run that has nothing but its input was neither rejected nor answered.
LEMMA OnlyInput ==
    ASSUME NEW r, NEW h, r.start = Len(h), Len(h) \in Nat, h[Len(h)] = User
    PROVE  RejectedTurns(r, h) = 0 /\ Pending(r, h) = 0
<1>1. \A i \in r.start..Len(h) : h[i].role = "user"
  BY DEF User
<1>2. {i \in r.start..Len(h) : Rejected(r.structured, h[i])} = {}
  BY <1>1 DEF Rejected
<1>3. Replied(r, h) = {}
  BY <1>1 DEF Replied
<1>4. QED
  BY <1>2, <1>3, FS_EmptySet DEF RejectedTurns, Pending

\* acquire, pushInput, and the options of the run.
LEMMA BeginStep ==
    ASSUME AgentInv, NEW c \in Callers, Begin(c)
    PROVE  AgentInv'
<1> DEFINE s == run'[c]
           h == messages
           g == messages'
<1> HIDE DEF Messages
<1>1. ~acquired /\ run = [d \in Callers |-> run[d]] /\ h \in Seq(Messages)
  BY DEF Begin, AgentInv, TypeOK
<1>2. PICK mode \in {"complete", "stream"}, structured \in BOOLEAN,
           maxTurns \in 1..MaxTurns, maxRepairs \in 0..MaxRepairs :
         run' = [run EXCEPT ![c] =
             [NoRun EXCEPT !.pc = IF mode = "stream" THEN "started" ELSE "turn",
                           !.mode = mode, !.structured = structured, !.maxTurns = maxTurns,
                           !.maxRepairs = maxRepairs, !.start = Len(messages) + 1]]
  BY DEF Begin
<1>3. RunMoves(c)
  BY <1>1, <1>2 DEF RunMoves
<1>4. s = [NoRun EXCEPT !.pc = IF mode = "stream" THEN "started" ELSE "turn",
                        !.mode = mode, !.structured = structured, !.maxTurns = maxTurns,
                        !.maxRepairs = maxRepairs, !.start = Len(h) + 1]
  BY <1>1, <1>2
<1>5. Recorded /\ Extends(h, g, User) /\ Len(g) = Len(h) + 1 /\ acquired' = TRUE /\ invoked' = invoked
  BY InputRecorded DEF Begin
<1> HIDE DEF s, g
<1>6. /\ DOMAIN s = DOMAIN NoRun
      /\ s.pc \in {"started", "turn"} /\ s.mode = mode /\ s.structured = structured
      /\ s.maxTurns = maxTurns /\ s.maxRepairs = maxRepairs /\ s.start = Len(h) + 1
      /\ s.turns = 0 /\ s.invalid = 0 /\ s.correction = FALSE /\ s.corrected = FALSE
      /\ s.baseline = FALSE /\ s.reply = Answer /\ s.shown = 0 /\ s.next = 0
  BY <1>4 DEF NoRun
<1>7. Len(h) \in Nat /\ g[Len(g)] = User
  BY <1>1, <1>5 DEF Extends
<1>8. RunTyped(s)
  <2>1. Flags(s)
    BY <1>6, Zenon DEF Flags
  <2>2. Answer \in ReplyRecords
    BY AgentBounds DEF Answer, ReplyRecords, Verdicts
  <2>3. QED
    BY <1>6, <1>7, <2>1, <2>2 DEF RunTyped, Places
<1>9. RunOK(s, g, invoked)
  <2>1. RejectedTurns(s, g) = 0 /\ Pending(s, g) = 0
    BY <1>5, <1>6, <1>7, OnlyInput
  <2>2. Budget(s, g) /\ Hidden(s, g)
    BY <1>6, <2>1 DEF Budget, Hidden, Rejecting
  <2>3. Corrections(s, g) /\ Baselines(s, g)
    BY <1>6 DEF Corrections, Baselines, Rejecting
  <2>4. Batches(s, g, invoked)
    BY <1>6, <2>1 DEF Batches, InBatch, BatchPlaces
  <2>5. QED
    BY <1>5, <1>6, <1>7, <2>2, <2>3, <2>4 DEF RunOK
<1>10. s.pc # "idle"
  BY <1>6
<1>11. QED
  BY <1>1, <1>3, <1>5, <1>8, <1>9, <1>10, RunContinues DEF s, g

\* The options of a run are refused after its input was stored.
LEMMA BeginFailsStep ==
    ASSUME AgentInv, NEW c \in Callers, BeginFails(c)
    PROVE  AgentInv'
<1>1. /\ ~acquired /\ acquired' = acquired /\ run' = run /\ acquired \in BOOLEAN
      /\ run = [d \in Callers |-> run[d]]
  BY DEF BeginFails, AgentInv, TypeOK
<1>2. Recorded
  BY InputRecorded DEF BeginFails
<1>3. run'[c] = NoRun
  BY <1>1 DEF BeginFails, AgentInv, Exclusive
<1>4. RunMoves(c)
  BY <1>1 DEF RunMoves
<1>5. QED
  BY <1>1, <1>2, <1>3, <1>4, RunEnds

-----------------------------------------------------------------------------
(* The invariant *)

\* What a provider may answer, in any way the run takes it.
LEMMA ReceiveReplyStep ==
    ASSUME AgentInv, NEW c \in Callers, ReceiveReply(c)
    PROVE  AgentInv'
<1>1. PICK reply \in Replies(run[c].structured) :
         \/ RejectSubmission(c, reply) \/ AcceptSubmission(c, reply)
         \/ ShowReply(c, reply) \/ AnswerReply(c, reply)
  BY DEF ReceiveReply
<1>2. CASE RejectSubmission(c, reply)
  BY <1>2, RejectSubmissionStep
<1>3. CASE AcceptSubmission(c, reply)
  BY <1>3, AcceptSubmissionStep
<1>4. CASE ShowReply(c, reply)
  BY <1>4, ShowReplyStep
<1>5. CASE AnswerReply(c, reply)
  <2>1. run[c].pc = "asked" /\ StoreReply(c, reply)
    BY <1>5 DEF AnswerReply, AtPlace
  <2>2. CASE run[c].structured
    <3>1. Submission(reply, run[c].baseline) = "continue"
      BY <1>5, <2>2 DEF AnswerReply
    <3>2. reply.verdict \in Ordinary
      BY <3>1 DEF Submission
    <3>3. QED
      BY <2>1, <3>2, StoreReplyStep
  <2>3. CASE ~run[c].structured
    <3>1. reply.verdict \in {"text"} \cup Ordinary
      BY <1>5, <2>3 DEF AnswerReply
    <3>2. QED
      BY <2>1, <2>3, <3>1, StoreReplyStep
  <2>4. QED
    BY <2>2, <2>3
<1>6. QED
  BY <1>1, <1>2, <1>3, <1>4, <1>5

\* A reply that was shown is stored.
LEMMA ShownReplyStep ==
    ASSUME AgentInv, NEW c \in Callers, ShownReply(c)
    PROVE  AgentInv'
<1>1. Engaged(c) /\ run[c].pc = "shown" /\ StoreReply(c, run[c].reply)
  BY DEF ShownReply, AtPlace, Engaged
<1>2. RunTyped(run[c]) /\ RunOK(run[c], messages, invoked)
  BY <1>1, ActiveRun
<1>3. ~run[c].structured /\ run[c].reply \in Replies(FALSE)
  BY <1>1, <1>2 DEF RunOK, Batches
<1>4. run[c].structured = FALSE
  BY <1>2, <1>3 DEF RunTyped, Flags
<1>5. run[c].reply.verdict \in {"text"} \cup Ordinary
  BY <1>3, ReplyShape
<1>6. QED
  BY <1>1, <1>3, <1>4, <1>5, StoreReplyStep

\* A run that ends, however it does, leaves nothing behind but what it recorded.
Ends(c) ==
    TurnLimit(c) \/ ProviderFails(c) \/ Exhausted(c) \/ Finish(c) \/ ToolFailed(c)
        \/ CallbackThrows(c) \/ Leave(c)

\* Every throw and every return passes the finally block, which releases the agent.
LEMMA EndsStep ==
    ASSUME AgentInv, NEW c \in Callers, Ends(c)
    PROVE  Engaged(c) /\ End(c) /\ UNCHANGED <<messages, toolCalls, invoked, runs>> /\ AgentInv'
<1>1. End(c) /\ UNCHANGED <<messages, toolCalls, invoked, runs>>
  BY DEF Ends, TurnLimit, ProviderFails, Exhausted, Finish, ToolFailed, CallbackThrows, Leave
<1>2. run[c].pc # "idle"
  BY DEF Ends, TurnLimit, ProviderFails, Exhausted, Finish, ToolFailed, CallbackThrows, Leave,
         Yields, AtPlace
<1>3. Engaged(c)
  BY <1>2 DEF Engaged
<1>4. QED
  BY <1>1, <1>3, NothingRecorded, EndOfRun

LEMMA AgentInitInv == AgentInit => AgentInv
<1> SUFFICES ASSUME AgentInit PROVE AgentInv
  OBVIOUS
<1>1. messages \in Seq(Messages)
  <2>1. Answer \in ReplyRecords
    BY AgentBounds DEF Answer, ReplyRecords, Verdicts
  <2>2. User \in Messages /\ Assistant(Answer) \in Messages
    BY <2>1, PushedMessages
  <2> HIDE DEF Messages
  <2>3. <<>> \in Seq(Messages) /\ <<User, Assistant(Answer)>> \in Seq(Messages)
    BY <2>2
  <2>4. QED
    BY <2>3 DEF AgentInit
<1>2. TypeOK
  <2>1. toolCalls \in Seq(Calls) /\ invoked \in Seq(Calls) /\ runs \in Nat /\ acquired \in BOOLEAN
    <3>1. toolCalls = <<>> /\ invoked = <<>> /\ runs = 0 /\ acquired = FALSE
      BY DEF AgentInit
    <3>2. acquired \in BOOLEAN
      BY <3>1, Zenon
    <3>3. toolCalls \in Seq(Calls) /\ invoked \in Seq(Calls) /\ runs \in Nat
      BY <3>1
    <3>4. QED
      BY <3>2, <3>3
  <2>2. run = [c \in Callers |-> run[c]] /\ \A c \in Callers : run[c] = NoRun
    BY DEF AgentInit
  <2>3. QED
    BY <1>1, <2>1, <2>2 DEF TypeOK
<1>3. /\ \A c \in Callers : ~Engaged(c) /\ run[c] = NoRun
      /\ Exclusive
  BY DEF AgentInit, Exclusive, Engaged, NoRun
<1>4. Points(toolCalls, messages) /\ Points(invoked, messages) /\ HandlersRunValidCalls
  BY DEF AgentInit, Points, HandlersRunValidCalls
<1>5. \A n \in DOMAIN messages : messages[n].role # "tool"
  BY DEF AgentInit, User, Assistant
<1>6. LedgerAgrees
  BY <1>5 DEF AgentInit, LedgerAgrees, Completed, IsTool
<1>7. QED
  BY <1>2, <1>3, <1>4, <1>6 DEF AgentInv

LEMMA AgentNextInv == AgentInv /\ [AgentNext]_agentVars => AgentInv'
<1> SUFFICES ASSUME AgentInv, [AgentNext]_agentVars PROVE AgentInv'
  OBVIOUS
<1>1. CASE UNCHANGED agentVars
  BY <1>1 DEF agentVars, AgentInv, TypeOK, Exclusive, Engaged, Points, LedgerAgrees,
              HandlersRunValidCalls
<1>2. ASSUME NEW c \in Callers, Begin(c) \/ BeginFails(c) \/ Refuse(c)
      PROVE  AgentInv'
  <2>1. CASE Refuse(c)
    BY <1>1, <2>1 DEF Refuse
  <2>2. QED
    BY <1>2, <2>1, BeginStep, BeginFailsStep
<1>3. ASSUME NEW c \in Callers, Proceed(c)
      PROVE  AgentInv'
  <2>1. CASE TurnLimit(c) \/ Exhausted(c) \/ Finish(c) \/ ToolFailed(c)
    BY <2>1, EndsStep DEF Ends
  <2>2. CASE StreamStarted(c) \/ Request(c) \/ ReceiveReply(c)
    BY <2>2, StreamStartedStep, RequestStep, ReceiveReplyStep
  <2>3. CASE Attempted(c) \/ Repaired(c) \/ StoreSubmission(c) \/ ShownReply(c) \/ Deliver(c)
    BY <2>3, AttemptedStep, RepairedStep, StoreSubmissionStep, ShownReplyStep, DeliverStep
  <2>4. CASE StartTool(c) \/ ToolSucceeds(c) \/ Observed(c)
    BY <2>4, StartToolStep, ToolSucceedsStep, ObservedStep
  <2>5. QED
    BY <1>3, <2>1, <2>2, <2>3, <2>4 DEF Proceed
<1>4. ASSUME NEW c \in Callers, RunFails(c)
      PROVE  AgentInv'
  <2>1. CASE ProviderFails(c) \/ CallbackThrows(c) \/ Leave(c)
    BY <2>1, EndsStep DEF Ends
  <2>2. CASE ToolFails(c) \/ ObserverThrows(c)
    BY <2>2, ToolFailsStep, ObserverThrowsStep
  <2>3. QED
    BY <1>4, <2>1, <2>2 DEF RunFails
<1>5. QED
  BY <1>1, <1>2, <1>3, <1>4 DEF AgentNext

\* The invariant holds in every state of an agent, whatever its provider,
\* its tools, its callbacks and its consumers do.
THEOREM AgentInvariant == AgentSpec => []AgentInv
<1>1. AgentInit => AgentInv
  BY AgentInitInv
<1>2. AgentInv /\ [AgentNext]_agentVars => AgentInv'
  BY AgentNextInv
<1>3. QED
  BY <1>1, <1>2, PTL DEF AgentSpec

\* The ledger and the messages agree, and only handlers of valid batches ran
\* (recordToolResult, runTools, validatedCalls).
THEOREM LedgerMatches == AgentSpec => []LedgerMatchesMessages
<1>1. AgentInv => LedgerMatchesMessages
  BY DEF AgentInv, LedgerMatchesMessages
<1>2. QED
  BY <1>1, AgentInvariant, PTL

\* A correction and a baseline last for one request, and consumers never see
\* a rejected turn (beginTurn, structuredTurn, bufferedEvents).
THEOREM RepairsPass == AgentSpec => []RepairsAreTransient
<1>1. ASSUME AgentInv, NEW c \in Callers, run[c].pc = "asked"
      PROVE  /\ run[c].corrected <=> run[c].turns > 1 /\ EndsRejected(messages)
             /\ run[c].baseline => run[c].corrected /\ EndsWithBaseline(messages)
  <2>1. Engaged(c)
    BY <1>1 DEF Engaged
  <2>2. QED
    BY <1>1, <2>1 DEF AgentInv, RunOK, Corrections, Baselines
<1>2. ASSUME AgentInv, NEW c \in Callers, Streams(c), run[c].structured
      PROVE  run[c].shown + RejectedTurns(run[c], messages) <= run[c].turns
  <2>1. CASE Engaged(c)
    <3>1. RunOK(run[c], messages, invoked) /\ RunTyped(run[c])
      BY <1>2, <2>1, ActiveRun
    <3>2. /\ RejectedTurns(run[c], messages) \in Nat
          /\ run[c].turns \in Nat /\ run[c].shown \in Nat
      BY <3>1 DEF RunOK, Budget, RunTyped
    <3>3. QED
      BY <1>2, <3>1, <3>2 DEF RunOK, Hidden, Streams
  <2>2. CASE ~Engaged(c)
    BY <1>2, <2>2 DEF AgentInv, Exclusive, Streams, NoRun
  <2>3. QED
    BY <2>1, <2>2
<1>3. AgentInv => RepairsAreTransient
  BY <1>1, <1>2 DEF RepairsAreTransient, CorrectionsAreTransient, StructuredStreamsHideRejections
<1>4. QED
  BY <1>3, AgentInvariant, PTL

-----------------------------------------------------------------------------
(* The refinement *)

\* What RunOK says of the mapped variables: rejections are counted, and only a
\* batch under way has calls without results.
Count(r) == IF r.pc \in Rejecting THEN r.invalid + 1 ELSE r.invalid
Left(r) == IF InBatch(r) THEN r.reply.calls - Answers(r) ELSE 0

LEMMA ViewOfRun ==
    ASSUME NEW r, NEW h \in Seq(Messages), NEW v, RunTyped(r), RunOK(r, h, v)
    PROVE  /\ RejectedTurns(r, h) = Count(r) /\ Count(r) \in Nat
           /\ r.pc # "failing" => Pending(r, h) = Left(r)
           /\ Left(r) \in 0..MaxCalls
           /\ r.invalid <= r.maxRepairs /\ r.maxRepairs \in Nat /\ r.invalid \in Nat
<1> HIDE DEF Messages
<1>1. RejectedTurns(r, h) = Count(r)
  BY DEF RunOK, Budget, Count
<1>2. r.invalid <= r.maxRepairs /\ r.maxRepairs \in Nat /\ r.invalid \in Nat
  BY AgentBounds DEF RunOK, Budget, RunTyped
<1>3. Count(r) \in Nat
  BY <1>2 DEF Count
<1>4. CASE InBatch(r)
  <2>1. /\ Pending(r, h) = r.reply.calls - Answers(r)
        /\ r.reply.calls \in 1..MaxCalls /\ r.next \in 1..r.reply.calls
    BY <1>4, BatchFacts
  <2>2. Left(r) = r.reply.calls - Answers(r)
    BY <1>4 DEF Left
  <2>3. Answers(r) \in 0..r.reply.calls
    BY <2>1, AgentBounds DEF Answers
  <2>4. Left(r) \in 0..MaxCalls
    BY <2>1, <2>2, <2>3, AgentBounds
  <2>5. QED
    BY <1>1, <1>2, <1>3, <2>1, <2>2, <2>4
<1>5. CASE ~InBatch(r)
  BY <1>1, <1>2, <1>3, <1>5, AgentBounds DEF Left, RunOK, Batches
<1>6. QED
  BY <1>4, <1>5

LEMMA TurnOfRun ==
    ASSUME NEW r, NEW h
    PROVE  Turn(r, h) = IF r.pc \in Asked THEN "provider"
                        ELSE IF Pending(r, h) > 0 THEN "tools" ELSE "caller"
BY DEF Turn, Asked

\* The mapped variables while caller c has the run.
LEMMA OpenVariables ==
    ASSUME AgentInv, NEW c \in Callers, Engaged(c)
    PROVE  /\ (IF Open THEN Turn(Current, messages) ELSE "closed") = Turn(run[c], messages)
           /\ (IF Open THEN RejectedTurns(Current, messages) ELSE 0) = RejectedTurns(run[c], messages)
           /\ (IF Open THEN Pending(Current, messages) ELSE 0) = Pending(run[c], messages)
           /\ Current = run[c]
           /\ acquired
<1>1. Open /\ acquired
  BY DEF Open, Engaged, AgentInv, Exclusive
<1>2. (CHOOSE d \in Callers : run[d].pc # "idle") = c
  BY DEF AgentInv, Exclusive, Engaged
<1>3. Current = run[c]
  BY <1>1, <1>2 DEF Current
<1>4. QED
  BY <1>1, <1>3

LEMMA OpenVariablesNext ==
    ASSUME AgentInv', NEW c \in Callers, run'[c].pc # "idle"
    PROVE  /\ (IF Open THEN Turn(Current, messages) ELSE "closed")' = Turn(run'[c], messages')
           /\ (IF Open THEN RejectedTurns(Current, messages) ELSE 0)'
                 = RejectedTurns(run'[c], messages')
           /\ (IF Open THEN Pending(Current, messages) ELSE 0)' = Pending(run'[c], messages')
           /\ Current' = run'[c]
           /\ acquired'
<1>1. Open' /\ acquired'
  BY DEF Open, Engaged, AgentInv, Exclusive
<1>2. (CHOOSE d \in Callers : run'[d].pc # "idle") = c
  BY DEF AgentInv, Exclusive, Engaged
<1>3. Current' = run'[c]
  BY <1>1, <1>2 DEF Current
<1>4. QED
  BY <1>1, <1>3

\* The run of caller c goes on, in the terms of Conversation.
Goes(r, h, s, g) ==
    /\ s.maxTurns = r.maxTurns /\ s.maxRepairs = r.maxRepairs
    /\ \/ /\ Turn(s, g) = Turn(r, h) /\ s.turns = r.turns
          /\ RejectedTurns(s, g) = RejectedTurns(r, h) /\ Pending(s, g) = Pending(r, h)
       \/ /\ Turn(r, h) = "caller" /\ r.turns < r.maxTurns
          /\ s.turns = r.turns + 1 /\ Turn(s, g) = "provider"
          /\ RejectedTurns(s, g) = RejectedTurns(r, h) /\ Pending(s, g) = Pending(r, h)
       \/ /\ Turn(r, h) = "provider" /\ s.turns = r.turns
          /\ Pending(s, g) \in 0..MaxCalls
          /\ Turn(s, g) = IF Pending(s, g) = 0 THEN "caller" ELSE "tools"
          /\ RejectedTurns(s, g) = RejectedTurns(r, h)
       \/ /\ Turn(r, h) = "provider" /\ s.turns = r.turns
          /\ RejectedTurns(r, h) <= r.maxRepairs
          /\ RejectedTurns(s, g) = RejectedTurns(r, h) + 1
          /\ Turn(s, g) = "caller" /\ Pending(s, g) = Pending(r, h)
       \/ /\ Turn(r, h) = "tools" /\ s.turns = r.turns
          /\ Pending(s, g) = Pending(r, h) - 1
          /\ Turn(s, g) = IF Pending(s, g) = 0 THEN "caller" ELSE "tools"
          /\ RejectedTurns(s, g) = RejectedTurns(r, h)

LEMMA GoingOnImplements ==
    ASSUME AgentInv, AgentInv', NEW c \in Callers, Engaged(c), run'[c].pc # "idle",
           Goes(run[c], messages, run'[c], messages')
    PROVE  [Conv!ConversationNext]_(Conv!conversationVars)
<1> DEFINE phase == IF Open THEN Turn(Current, messages) ELSE "closed"
           rejected == IF Open THEN RejectedTurns(Current, messages) ELSE 0
           pending == IF Open THEN Pending(Current, messages) ELSE 0
           limits == [turns |-> Current.maxTurns, repairs |-> Current.maxRepairs]
           r == run[c]
           s == run'[c]
<1>1. /\ phase = Turn(r, messages) /\ rejected = RejectedTurns(r, messages)
      /\ pending = Pending(r, messages) /\ Current = r
  BY OpenVariables
<1>2. /\ phase' = Turn(s, messages') /\ rejected' = RejectedTurns(s, messages')
      /\ pending' = Pending(s, messages') /\ Current' = s
  BY OpenVariablesNext
<1>3. (~acquired)' = (~acquired)
  BY OpenVariables, OpenVariablesNext, Zenon
<1>4. /\ Goes(r, messages, s, messages')
      /\ s.maxTurns = r.maxTurns /\ s.maxRepairs = r.maxRepairs
  BY DEF Goes
<1>5. limits' = limits /\ limits.turns = r.maxTurns /\ limits.repairs = r.maxRepairs
  BY <1>1, <1>2, <1>4
<1>6. Current.turns = r.turns /\ Current'.turns = s.turns
  BY <1>1, <1>2
<1> HIDE DEF phase, rejected, pending, limits, r, s
<1>7. \/ phase' = phase /\ Current'.turns = Current.turns /\ rejected' = rejected /\ pending' = pending
      \/ /\ phase = "caller" /\ Current.turns < limits.turns
         /\ Current'.turns = Current.turns + 1 /\ phase' = "provider"
         /\ rejected' = rejected /\ pending' = pending
      \/ /\ phase = "provider" /\ Current'.turns = Current.turns
         /\ pending' \in 0..MaxCalls
         /\ phase' = IF pending' = 0 THEN "caller" ELSE "tools"
         /\ rejected' = rejected
      \/ /\ phase = "provider" /\ Current'.turns = Current.turns
         /\ rejected <= limits.repairs /\ rejected' = rejected + 1
         /\ phase' = "caller" /\ pending' = pending
      \/ /\ phase = "tools" /\ Current'.turns = Current.turns
         /\ pending' = pending - 1
         /\ phase' = IF pending' = 0 THEN "caller" ELSE "tools"
         /\ rejected' = rejected
  BY <1>1, <1>2, <1>4, <1>5, <1>6 DEF Goes
<1>8. CASE phase' = phase /\ Current'.turns = Current.turns /\ rejected' = rejected /\ pending' = pending
  BY <1>3, <1>5, <1>8 DEF Conv!conversationVars, phase, rejected, pending, limits
<1>9. CASE /\ phase = "caller" /\ Current.turns < limits.turns
           /\ Current'.turns = Current.turns + 1 /\ phase' = "provider"
           /\ rejected' = rejected /\ pending' = pending
  <2>1. Conv!Ask
    BY <1>3, <1>5, <1>9 DEF Conv!Ask, phase, rejected, pending, limits
  <2>2. QED
    BY <2>1 DEF Conv!ConversationNext
<1>10. CASE /\ phase = "provider" /\ Current'.turns = Current.turns
            /\ pending' \in 0..MaxCalls
            /\ phase' = IF pending' = 0 THEN "caller" ELSE "tools"
            /\ rejected' = rejected
  <2>1. Conv!Accept
    BY <1>3, <1>5, <1>10 DEF Conv!Accept, phase, rejected, pending, limits
  <2>2. QED
    BY <2>1 DEF Conv!ConversationNext
<1>11. CASE /\ phase = "provider" /\ Current'.turns = Current.turns
            /\ rejected <= limits.repairs /\ rejected' = rejected + 1
            /\ phase' = "caller" /\ pending' = pending
  <2>1. Conv!Reject
    BY <1>3, <1>5, <1>11 DEF Conv!Reject, phase, rejected, pending, limits
  <2>2. QED
    BY <2>1 DEF Conv!ConversationNext
<1>12. CASE /\ phase = "tools" /\ Current'.turns = Current.turns
            /\ pending' = pending - 1
            /\ phase' = IF pending' = 0 THEN "caller" ELSE "tools"
            /\ rejected' = rejected
  <2>1. Conv!Observe
    BY <1>3, <1>5, <1>12 DEF Conv!Observe, phase, rejected, pending, limits
  <2>2. QED
    BY <2>1 DEF Conv!ConversationNext
<1>13. QED
  BY <1>7, <1>8, <1>9, <1>10, <1>11, <1>12

\* While nobody has a run, the conversation is closed.
LEMMA ClosedVariables ==
    ASSUME AgentInv, ~acquired
    PROVE  ~Open /\ Current = NoRun
BY DEF Open, Engaged, AgentInv, Exclusive, Current

LEMMA ClosedVariablesNext ==
    ASSUME AgentInv', ~acquired'
    PROVE  ~Open' /\ Current' = NoRun
BY DEF Open, Engaged, AgentInv, Exclusive, Current

\* A run that ends closes the conversation (release).
LEMMA ClosingImplements ==
    ASSUME AgentInv', NEW c \in Callers, End(c)
    PROVE  [Conv!ConversationNext]_(Conv!conversationVars)
<1>1. acquired' = FALSE
  BY DEF End
<1>2. ~Open' /\ Current' = NoRun
  BY <1>1, ClosedVariablesNext
<1>3. (~acquired)' = TRUE
  BY <1>1, Zenon
<1>4. Conv!Close
  BY <1>2, <1>3 DEF Conv!Close, Conv!Closed, NoRun
<1>5. QED
  BY <1>4 DEF Conv!ConversationNext

\* acquire opens it.
LEMMA OpeningImplements ==
    ASSUME AgentInv, AgentInv', NEW c \in Callers, Begin(c)
    PROVE  [Conv!ConversationNext]_(Conv!conversationVars)
<1> DEFINE s == run'[c]
           h == messages
           g == messages'
<1> HIDE DEF Messages
<1>1. ~acquired /\ run = [d \in Callers |-> run[d]] /\ h \in Seq(Messages) /\ acquired' = TRUE
  BY DEF Begin, AgentInv, TypeOK
<1>2. PICK mode \in {"complete", "stream"}, structured \in BOOLEAN,
           maxTurns \in 1..MaxTurns, maxRepairs \in 0..MaxRepairs :
         run' = [run EXCEPT ![c] =
             [NoRun EXCEPT !.pc = IF mode = "stream" THEN "started" ELSE "turn",
                           !.mode = mode, !.structured = structured, !.maxTurns = maxTurns,
                           !.maxRepairs = maxRepairs, !.start = Len(messages) + 1]]
  BY DEF Begin
<1>3. s = [NoRun EXCEPT !.pc = IF mode = "stream" THEN "started" ELSE "turn",
                        !.mode = mode, !.structured = structured, !.maxTurns = maxTurns,
                        !.maxRepairs = maxRepairs, !.start = Len(h) + 1]
  BY <1>1, <1>2
<1>4. Extends(h, g, User) /\ Len(g) = Len(h) + 1
  BY InputRecorded DEF Begin
<1> HIDE DEF s, g
<1>5. /\ s.pc \in {"started", "turn"}
      /\ s.maxTurns = maxTurns /\ s.maxRepairs = maxRepairs /\ s.start = Len(h) + 1
      /\ s.turns = 0
  BY <1>3 DEF NoRun
<1>6. Len(h) \in Nat /\ g[Len(g)] = User
  BY <1>1, <1>4 DEF Extends
<1>7. RejectedTurns(s, g) = 0 /\ Pending(s, g) = 0
  BY <1>4, <1>5, <1>6, OnlyInput
<1>8. Turn(s, g) = "caller"
  BY <1>5, <1>7, TurnOfRun DEF Asked
<1>9. /\ (IF Open THEN Turn(Current, messages) ELSE "closed")' = "caller"
      /\ (IF Open THEN RejectedTurns(Current, messages) ELSE 0)' = 0
      /\ (IF Open THEN Pending(Current, messages) ELSE 0)' = 0
      /\ Current' = s
  BY <1>5, <1>7, <1>8, OpenVariablesNext DEF s, g
<1>10. ~Open /\ Current = NoRun
  BY <1>1, ClosedVariables
<1>11. (~acquired)' = FALSE /\ (~acquired) = TRUE
  BY <1>1, Zenon
<1>12. [turns |-> Current.maxTurns, repairs |-> Current.maxRepairs]'
          \in [turns : 1..MaxTurns, repairs : 0..MaxRepairs]
  BY <1>5, <1>9
<1>13. Current'.turns = 0 /\ Current.turns = 0
  BY <1>5, <1>9, <1>10 DEF NoRun
<1>14. Conv!Open
  BY <1>9, <1>10, <1>11, <1>12, <1>13 DEF Conv!Open
<1>15. QED
  BY <1>14 DEF Conv!ConversationNext

\* A step that stores no message and stays on the same side of the provider.
Stays(c) ==
    \/ StreamStarted(c) \/ Attempted(c) \/ Repaired(c) \/ Deliver(c)
    \/ StartTool(c) \/ Observed(c) \/ ToolFails(c) \/ ObserverThrows(c)
    \/ \E reply \in Replies(run[c].structured) : AcceptSubmission(c, reply) \/ ShowReply(c, reply)

LEMMA StaysStep ==
    ASSUME AgentInv, NEW c \in Callers, Stays(c)
    PROVE  /\ Engaged(c) /\ messages' = messages
           /\ Keeps(run[c], run'[c]) /\ run'[c].turns = run[c].turns
           /\ run'[c].pc # "idle"
           /\ run[c].pc \in Asked <=> run'[c].pc \in Asked
<1>1. Engaged(c) /\ messages' = messages
  BY DEF Stays, StreamStarted, Attempted, Repaired, Deliver, StartTool, Observed, ToolFails,
         ObserverThrows, AcceptSubmission, ShowReply, AtPlace, Engaged
<1>2. /\ DOMAIN run[c] = DOMAIN NoRun
      /\ run = [d \in Callers |-> run[d]]
  BY <1>1, ActiveRun
<1>3. CASE StreamStarted(c)
  BY <1>1, <1>2, <1>3 DEF StreamStarted, MoveTo, AtPlace, Keeps, NoRun, Asked
<1>4. CASE Attempted(c)
  BY <1>1, <1>2, <1>4 DEF Attempted, AtPlace, Keeps, NoRun, Asked
<1>5. CASE Repaired(c)
  BY <1>1, <1>2, <1>5 DEF Repaired, AtPlace, Keeps, NoRun, Asked
<1>6. CASE Deliver(c)
  BY <1>1, <1>2, <1>6 DEF Deliver, AtPlace, Keeps, NoRun, Asked
<1>7. CASE StartTool(c)
  BY <1>1, <1>2, <1>7 DEF StartTool, MoveTo, AtPlace, Keeps, NoRun, Asked
<1>8. CASE Observed(c)
  <2>1. CASE run[c].next = run[c].reply.calls
    <3>1. MoveTo(c, "turn")
      BY <1>8, <2>1 DEF Observed
    <3>2. QED
      BY <1>1, <1>2, <1>8, <3>1 DEF Observed, MoveTo, AtPlace, Keeps, NoRun, Asked
  <2>2. CASE run[c].next # run[c].reply.calls
    <3>1. run' = [run EXCEPT ![c].pc = "calling", ![c].next = @ + 1]
      BY <1>8, <2>2 DEF Observed
    <3>2. QED
      BY <1>1, <1>2, <1>8, <3>1 DEF Observed, AtPlace, Keeps, NoRun, Asked
  <2>3. QED
    BY <2>1, <2>2
<1>9. CASE ToolFails(c)
  BY <1>1, <1>2, <1>9 DEF ToolFails, MoveTo, AtPlace, Keeps, NoRun, Asked
<1>10. CASE ObserverThrows(c)
  BY <1>1, <1>2, <1>10 DEF ObserverThrows, MoveTo, AtPlace, Keeps, NoRun, Asked
<1>11. ASSUME NEW reply \in Replies(run[c].structured), AcceptSubmission(c, reply)
       PROVE  /\ Keeps(run[c], run'[c]) /\ run'[c].turns = run[c].turns
              /\ run'[c].pc # "idle"
              /\ run[c].pc \in Asked <=> run'[c].pc \in Asked
  BY <1>1, <1>2, <1>11 DEF AcceptSubmission, AtPlace, Keeps, NoRun, Asked
<1>12. ASSUME NEW reply \in Replies(run[c].structured), ShowReply(c, reply)
       PROVE  /\ Keeps(run[c], run'[c]) /\ run'[c].turns = run[c].turns
              /\ run'[c].pc # "idle"
              /\ run[c].pc \in Asked <=> run'[c].pc \in Asked
  BY <1>1, <1>2, <1>12 DEF ShowReply, AtPlace, Keeps, NoRun, Asked
<1>13. QED
  BY <1>1, <1>3, <1>4, <1>5, <1>6, <1>7, <1>8, <1>9, <1>10, <1>11, <1>12 DEF Stays

LEMMA StayingGoes ==
    ASSUME NEW r, NEW s, NEW h, Keeps(r, s), s.turns = r.turns, r.pc \in Asked <=> s.pc \in Asked
    PROVE  Goes(r, h, s, h)
<1>1. RejectedTurns(s, h) = RejectedTurns(r, h) /\ Pending(s, h) = Pending(r, h)
  BY CountedAlike DEF Keeps
<1>2. Turn(s, h) = Turn(r, h)
  BY <1>1, TurnOfRun
<1>3. QED
  BY <1>1, <1>2 DEF Goes, Keeps

\* Locals, messages and invariant of the run of caller c, before and after a step.
LEMMA RunNext ==
    ASSUME AgentInv', NEW c \in Callers, run'[c].pc # "idle"
    PROVE  /\ RunTyped(run'[c])
           /\ RunOK(run'[c], messages', invoked')
           /\ messages' \in Seq(Messages)
<1> HIDE DEF Messages
<1>1. NoRun.pc = "idle"
  BY DEF NoRun
<1>2. QED
  BY <1>1 DEF AgentInv, TypeOK, Engaged

\* A request is asked by the caller.
LEMMA RequestGoes ==
    ASSUME AgentInv, NEW c \in Callers, Request(c)
    PROVE  /\ Engaged(c) /\ run'[c].pc # "idle"
           /\ Goes(run[c], messages, run'[c], messages')
<1> DEFINE r == run[c]
           s == run'[c]
           h == messages
<1>1. Engaged(c) /\ r.pc = "turn" /\ r.turns < r.maxTurns /\ messages' = h
  BY DEF Request, AtPlace, Engaged
<1>2. /\ RunTyped(r) /\ DOMAIN r = DOMAIN NoRun /\ RunOK(r, h, invoked)
      /\ run = [d \in Callers |-> run[d]]
  BY <1>1, ActiveRun
<1>3. Keeps(r, s) /\ s.pc = "asked" /\ s.turns = r.turns + 1
  BY <1>2 DEF Request, Keeps, NoRun
<1> HIDE DEF r, s
<1>4. RejectedTurns(s, h) = RejectedTurns(r, h) /\ Pending(s, h) = Pending(r, h)
  BY <1>3, CountedAlike DEF Keeps
<1>5. Pending(r, h) = 0
  BY <1>1, <1>2 DEF RunOK, Batches, InBatch, BatchPlaces
<1>6. Turn(r, h) = "caller" /\ Turn(s, h) = "provider"
  BY <1>1, <1>3, <1>5, TurnOfRun DEF Asked
<1>7. Goes(r, h, s, h)
  BY <1>1, <1>3, <1>4, <1>6 DEF Goes, Keeps
<1>8. QED
  BY <1>1, <1>3, <1>7 DEF r, s

\* What the locals tell of the places where a reply is stored.
LEMMA ReplyGoes ==
    ASSUME NEW r, NEW s, NEW h \in Seq(Messages), NEW g \in Seq(Messages), NEW v, NEW w,
           RunTyped(r), RunOK(r, h, v), RunTyped(s), RunOK(s, g, w), Keeps(r, s),
           s.turns = r.turns, r.pc \in Asked, s.pc \notin Asked \cup {"failing"}
    PROVE  /\ s.invalid = r.invalid /\ s.pc \notin Rejecting => Goes(r, h, s, g)
           /\ Count(s) = r.invalid + 1 /\ ~InBatch(s) => Goes(r, h, s, g)
<1> HIDE DEF Messages
<1>1. /\ RejectedTurns(r, h) = Count(r) /\ Pending(r, h) = Left(r)
      /\ r.invalid <= r.maxRepairs /\ r.maxRepairs \in Nat /\ r.invalid \in Nat
  BY ViewOfRun DEF Asked
<1>2. RejectedTurns(s, g) = Count(s) /\ Pending(s, g) = Left(s) /\ Left(s) \in 0..MaxCalls
  BY ViewOfRun
<1>3. Count(r) = r.invalid /\ Left(r) = 0 /\ Turn(r, h) = "provider"
  BY TurnOfRun DEF Asked, Count, Left, Rejecting, InBatch, BatchPlaces
<1>4. Turn(s, g) = IF Left(s) = 0 THEN "caller" ELSE "tools"
  BY <1>2, TurnOfRun, AgentBounds
<1>5. s.invalid = r.invalid /\ s.pc \notin Rejecting => Goes(r, h, s, g)
  BY <1>1, <1>2, <1>3, <1>4 DEF Goes, Keeps, Count
<1>6. ~InBatch(s) => Left(s) = 0
  BY DEF Left
<1>7. Count(s) = r.invalid + 1 /\ ~InBatch(s) => Goes(r, h, s, g)
  BY <1>1, <1>2, <1>3, <1>4, <1>6 DEF Goes, Keeps
<1>8. QED
  BY <1>5, <1>7

\* The locals of a run that took a reply and goes on.
Took(c) ==
    /\ Engaged(c) /\ run[c].pc \in Asked
    /\ run'[c].pc \notin Asked \cup {"idle", "failing"}
    /\ Keeps(run[c], run'[c]) /\ run'[c].turns = run[c].turns
    /\ \/ run'[c].invalid = run[c].invalid /\ run'[c].pc \notin Rejecting
       \/ Count(run'[c]) = run[c].invalid + 1 /\ ~InBatch(run'[c])

LEMMA RejectSubmissionTook ==
    ASSUME AgentInv, NEW c \in Callers, NEW reply, RejectSubmission(c, reply)
    PROVE  Took(c)
<1> DEFINE r == run[c]
           s == run'[c]
<1>1. Engaged(c) /\ r.pc = "asked"
  BY DEF RejectSubmission, AtPlace, Engaged
<1>2. DOMAIN r = DOMAIN NoRun /\ run = [d \in Callers |-> run[d]]
  BY <1>1, ActiveRun
<1>3. Keeps(r, s) /\ s.turns = r.turns /\ s.invalid = r.invalid
  BY <1>2 DEF RejectSubmission, Keeps, NoRun
<1>4. s.pc \in Rejecting
  BY <1>2 DEF RejectSubmission, Rejecting, NoRun
<1> HIDE DEF r, s
<1>5. Count(s) = r.invalid + 1 /\ ~InBatch(s)
  BY <1>3, <1>4 DEF Count, InBatch, BatchPlaces, Rejecting
<1>6. QED
  BY <1>1, <1>3, <1>4, <1>5 DEF Took, Asked, Rejecting, r, s

LEMMA StoreSubmissionTook ==
    ASSUME AgentInv, NEW c \in Callers, StoreSubmission(c)
    PROVE  End(c) \/ Took(c)
<1> DEFINE r == run[c]
           s == run'[c]
<1>1. Engaged(c) /\ r.pc = "accepted"
  BY DEF StoreSubmission, AtPlace, Engaged
<1>2. DOMAIN r = DOMAIN NoRun /\ run = [d \in Callers |-> run[d]]
  BY <1>1, ActiveRun
<1>3. CASE Streams(c)
  <2>1. run' = [run EXCEPT ![c].pc = "buffered", ![c].reply = Answer]
    BY <1>3 DEF StoreSubmission
  <2>2. Keeps(r, s) /\ s.turns = r.turns /\ s.invalid = r.invalid /\ s.pc = "buffered"
    BY <1>2, <2>1 DEF Keeps, NoRun
  <2>3. QED
    BY <1>1, <2>2 DEF Took, Asked, Rejecting
<1>4. CASE ~Streams(c)
  BY <1>4 DEF StoreSubmission
<1>5. QED
  BY <1>3, <1>4

LEMMA StoreReplyTook ==
    ASSUME AgentInv, NEW c \in Callers, run[c].pc \in Asked, NEW reply, StoreReply(c, reply)
    PROVE  End(c) \/ Took(c)
<1> DEFINE r == run[c]
           s == run'[c]
<1>1. Engaged(c) /\ r.pc \in Asked
  BY DEF Engaged, Asked
<1>2. DOMAIN r = DOMAIN NoRun /\ run = [d \in Callers |-> run[d]]
  BY <1>1, ActiveRun
<1>3. CASE ValidCalls(reply) /\ ~(reply.calls = 0 /\ ~Streams(c))
  <2>1. run' = [run EXCEPT ![c] = [OrdinaryTurn(run[c]) EXCEPT
                    !.pc = Stored(c, reply), !.reply = reply, !.next = 1]]
    BY <1>3 DEF StoreReply
  <2>2. s = [[r EXCEPT !.baseline = FALSE] EXCEPT
               !.pc = Stored(c, reply), !.reply = reply, !.next = 1]
    BY <1>2, <2>1 DEF OrdinaryTurn
  <2>3. Stored(c, reply) \in {"buffered", "finished", "calling"}
    BY DEF Stored
  <2> HIDE DEF r, s
  <2>4. /\ Keeps(r, s) /\ s.turns = r.turns /\ s.invalid = r.invalid
        /\ s.pc \in {"buffered", "finished", "calling"}
    BY <1>2, <2>2, <2>3 DEF Keeps, NoRun
  <2>5. QED
    BY <1>1, <2>4 DEF Took, Asked, Rejecting, r, s
<1>4. CASE ~ValidCalls(reply) /\ BudgetLeft(c)
  <2>1. run' = [run EXCEPT ![c] = [OrdinaryTurn(run[c]) EXCEPT !.pc = "repairing", !.invalid = @ + 1]]
    BY <1>4 DEF StoreReply
  <2>2. s = [OrdinaryTurn(r) EXCEPT !.pc = "repairing", !.invalid = @ + 1]
    BY <1>2, <2>1
  <2>3. s = [[r EXCEPT !.baseline = FALSE] EXCEPT !.pc = "repairing", !.invalid = r.invalid + 1]
    BY <1>2, <2>2 DEF OrdinaryTurn, NoRun
  <2> HIDE DEF r, s
  <2>4. Keeps(r, s) /\ s.turns = r.turns /\ s.invalid = r.invalid + 1 /\ s.pc = "repairing"
    BY <1>2, <2>3 DEF Keeps, NoRun
  <2>5. Count(s) = r.invalid + 1 /\ ~InBatch(s)
    BY <2>4 DEF Count, InBatch, BatchPlaces, Rejecting
  <2>6. QED
    BY <1>1, <2>4, <2>5 DEF Took, Asked, r, s
<1>5. CASE ValidCalls(reply) /\ reply.calls = 0 /\ ~Streams(c)
  BY <1>5 DEF StoreReply
<1>6. CASE ~ValidCalls(reply) /\ ~BudgetLeft(c)
  BY <1>6 DEF StoreReply
<1>7. QED
  BY <1>3, <1>4, <1>5, <1>6

LEMMA TookImplements ==
    ASSUME AgentInv, AgentInv', NEW c \in Callers, Took(c)
    PROVE  [Conv!ConversationNext]_(Conv!conversationVars)
<1> DEFINE r == run[c]
           s == run'[c]
           h == messages
           g == messages'
<1> HIDE DEF Messages
<1>1. /\ Engaged(c) /\ s.pc # "idle" /\ r.pc \in Asked /\ s.pc \notin Asked \cup {"failing"}
      /\ Keeps(r, s) /\ s.turns = r.turns
      /\ \/ s.invalid = r.invalid /\ s.pc \notin Rejecting
         \/ Count(s) = r.invalid + 1 /\ ~InBatch(s)
  BY DEF Took
<1>2. RunTyped(r) /\ RunOK(r, h, invoked) /\ h \in Seq(Messages)
  BY <1>1, ActiveRun
<1>3. RunTyped(s) /\ RunOK(s, g, invoked') /\ g \in Seq(Messages)
  BY <1>1, RunNext
<1> HIDE DEF r, s, h, g
<1>4. Goes(r, h, s, g)
  BY <1>1, <1>2, <1>3, ReplyGoes
<1>5. QED
  BY <1>1, <1>4, GoingOnImplements DEF r, s, h, g

\* A result is one call less that is pending.
LEMMA ToolSucceedsImplements ==
    ASSUME AgentInv, AgentInv', NEW c \in Callers, ToolSucceeds(c)
    PROVE  [Conv!ConversationNext]_(Conv!conversationVars)
<1> DEFINE r == run[c]
           s == run'[c]
           h == messages
           g == messages'
<1> HIDE DEF Messages
<1>1. Engaged(c) /\ r.pc = "executing"
  BY DEF ToolSucceeds, AtPlace, Engaged
<1>2. /\ RunTyped(r) /\ DOMAIN r = DOMAIN NoRun /\ RunOK(r, h, invoked) /\ h \in Seq(Messages)
      /\ run = [d \in Callers |-> run[d]]
  BY <1>1, ActiveRun
<1>3. /\ Keeps(r, s) /\ s.pc = "observed" /\ s.turns = r.turns /\ s.invalid = r.invalid
      /\ s.reply = r.reply /\ s.next = r.next
  BY <1>1, <1>2 DEF ToolSucceeds, MoveTo, Keeps, NoRun
<1>4. RunTyped(s) /\ RunOK(s, g, invoked') /\ g \in Seq(Messages)
  BY <1>3, RunNext
<1> HIDE DEF r, s, h, g
<1>5. InBatch(r) /\ InBatch(s)
  BY <1>1, <1>3 DEF InBatch, BatchPlaces
<1>6. /\ Pending(r, h) = r.reply.calls - (r.next - 1)
      /\ r.reply.calls \in 1..MaxCalls /\ r.next \in 1..r.reply.calls
  BY <1>1, <1>2, <1>5, BatchFacts DEF Answers
<1>7. Pending(s, g) = r.reply.calls - r.next
  BY <1>3, <1>4, <1>5, BatchFacts DEF Answers
<1>8. Pending(r, h) > 0 /\ Pending(s, g) = Pending(r, h) - 1 /\ Pending(s, g) \in Nat
  BY <1>6, <1>7, AgentBounds
<1>9. Turn(r, h) = "tools" /\ Turn(s, g) = IF Pending(s, g) = 0 THEN "caller" ELSE "tools"
  <2>1. r.pc \notin Asked /\ s.pc \notin Asked
    BY <1>1, <1>3 DEF Asked
  <2>2. Turn(r, h) = IF Pending(r, h) > 0 THEN "tools" ELSE "caller"
    BY <2>1, TurnOfRun
  <2>3. Turn(s, g) = IF Pending(s, g) > 0 THEN "tools" ELSE "caller"
    BY <2>1, TurnOfRun
  <2>4. Turn(r, h) = "tools"
    BY <1>8, <2>2
  <2>5. Pending(s, g) > 0 <=> Pending(s, g) # 0
    <3>1. Pending(s, g) \in Nat
      BY <1>8
    <3>2. QED
      BY ONLY <3>1
  <2>6. QED
    BY <2>3, <2>4, <2>5
<1>10. RejectedTurns(s, g) = RejectedTurns(r, h)
  BY <1>1, <1>2, <1>3, <1>4, ViewOfRun DEF Count, Rejecting
<1>11. Goes(r, h, s, g)
  BY <1>3, <1>8, <1>9, <1>10 DEF Goes, Keeps
<1>12. QED
  BY <1>1, <1>3, <1>11, GoingOnImplements DEF r, s, h, g

\* Nothing happens for the conversation when a run is refused, or when one is
\* that had only stored its input.
LEMMA RefusedImplements ==
    ASSUME AgentInv, AgentInv', NEW c \in Callers, Refuse(c) \/ BeginFails(c)
    PROVE  [Conv!ConversationNext]_(Conv!conversationVars)
<1>1. CASE Refuse(c)
  BY <1>1 DEF Refuse, agentVars, Conv!conversationVars, Open, Current
<1>2. CASE BeginFails(c)
  <2>1. ~acquired /\ ~acquired' /\ acquired' = acquired
    BY <1>2 DEF BeginFails
  <2>2. ~Open /\ Current = NoRun /\ ~Open' /\ Current' = NoRun
    BY <2>1, ClosedVariables, ClosedVariablesNext
  <2>3. (~acquired)' = (~acquired)
    BY <2>1, Zenon
  <2>4. QED
    BY <2>2, <2>3 DEF Conv!conversationVars
<1>3. QED
  BY <1>1, <1>2

LEMMA AgentStepImplements ==
    ASSUME AgentInv, AgentInv', AgentNext
    PROVE  [Conv!ConversationNext]_(Conv!conversationVars)
<1>1. PICK c \in Callers : Begin(c) \/ BeginFails(c) \/ Refuse(c) \/ Proceed(c) \/ RunFails(c)
  BY DEF AgentNext
<1>2. CASE Begin(c) \/ BeginFails(c) \/ Refuse(c)
  BY <1>2, OpeningImplements, RefusedImplements
<1>3. CASE Ends(c)
  BY <1>3, EndsStep, ClosingImplements
<1>4. CASE Stays(c)
  <2>1. Goes(run[c], messages, run'[c], messages')
    BY <1>4, StaysStep, StayingGoes
  <2>2. QED
    BY <1>4, <2>1, StaysStep, GoingOnImplements
<1>5. CASE Request(c)
  BY <1>5, RequestGoes, GoingOnImplements
<1>6. CASE StoreSubmission(c)
  BY <1>6, StoreSubmissionTook, ClosingImplements, TookImplements
<1>7. CASE ShownReply(c)
  <2>1. run[c].pc \in Asked /\ StoreReply(c, run[c].reply)
    BY <1>7 DEF ShownReply, AtPlace, Asked
  <2>2. QED
    BY <2>1, StoreReplyTook, ClosingImplements, TookImplements
<1>8. CASE ToolSucceeds(c)
  BY <1>8, ToolSucceedsImplements
<1>9. CASE ReceiveReply(c)
  <2>1. PICK reply \in Replies(run[c].structured) :
           \/ RejectSubmission(c, reply) \/ AcceptSubmission(c, reply)
           \/ ShowReply(c, reply) \/ AnswerReply(c, reply)
    BY <1>9 DEF ReceiveReply
  <2>2. CASE RejectSubmission(c, reply)
    BY <2>2, RejectSubmissionTook, TookImplements
  <2>3. CASE AcceptSubmission(c, reply) \/ ShowReply(c, reply)
    BY <1>4, <2>3 DEF Stays
  <2>4. CASE AnswerReply(c, reply)
    <3>1. run[c].pc \in Asked /\ StoreReply(c, reply)
      BY <2>4 DEF AnswerReply, AtPlace, Asked
    <3>2. QED
      BY <3>1, StoreReplyTook, ClosingImplements, TookImplements
  <2>5. QED
    BY <2>1, <2>2, <2>3, <2>4
<1>10. CASE Proceed(c)
  BY <1>3, <1>4, <1>5, <1>6, <1>7, <1>8, <1>9, <1>10 DEF Proceed, Ends, Stays
<1>11. CASE RunFails(c)
  BY <1>3, <1>4, <1>11 DEF RunFails, Ends, Stays
<1>12. QED
  BY <1>1, <1>2, <1>10, <1>11

\* complete and stream implement one conversation: requests within the turn
\* limit and only when every call has its result, rejections within one budget,
\* one run at a time, and a free agent after each (agent.ts, run.ts).
THEOREM AgentImplementsConversation == AgentSpec => ConversationKept
<1>1. AgentInit => Conv!ConversationInit
  <2> SUFFICES ASSUME AgentInit PROVE Conv!ConversationInit
    OBVIOUS
  <2>1. AgentInv /\ ~acquired /\ acquired = FALSE
    BY AgentInitInv DEF AgentInit
  <2>2. ~Open /\ Current = NoRun
    BY <2>1, ClosedVariables
  <2>3. (~acquired) = TRUE
    BY <2>1, Zenon
  <2>4. QED
    BY <2>2, <2>3 DEF Conv!ConversationInit, Conv!Closed, NoRun
<1>2. AgentInv /\ AgentInv' /\ [AgentNext]_agentVars
         => [Conv!ConversationNext]_(Conv!conversationVars)
  <2> SUFFICES ASSUME AgentInv, AgentInv', [AgentNext]_agentVars
               PROVE  [Conv!ConversationNext]_(Conv!conversationVars)
    OBVIOUS
  <2>1. CASE UNCHANGED agentVars
    BY <2>1 DEF agentVars, Conv!conversationVars, Open, Current
  <2>2. QED
    BY <2>1, AgentStepImplements
<1>3. QED
  BY <1>1, <1>2, AgentInvariant, PTL DEF AgentSpec, ConversationKept, Conv!ConversationSpec

-----------------------------------------------------------------------------
(* Sorting *)

\* A relation that orders a set strictly.
Orders(R, S) ==
    /\ \A x \in S : <<x, x>> \notin R
    /\ \A x, y \in S : x = y \/ <<x, y>> \in R \/ <<y, x>> \in R
    /\ \A x, y, z \in S : <<x, y>> \in R /\ <<y, z>> \in R => <<x, z>> \in R

\* The members of a finite set in order, each in one place.
LEMMA SortedInOrder ==
    ASSUME NEW S, IsFiniteSet(S), NEW R, Orders(R, S)
    PROVE  /\ Cardinality(S) \in Nat /\ Sorted(S, R) \in [1..Cardinality(S) -> S]
           /\ \A x \in S : \E k \in 1..Cardinality(S) : Sorted(S, R)[k] = x
           /\ \A i, j \in 1..Cardinality(S) : i < j => <<Sorted(S, R)[i], Sorted(S, R)[j]>> \in R
<1> DEFINE n == Cardinality(S)
           Under(x) == {y \in S : <<y, x>> \in R}
           rank == [x \in S |-> Cardinality(Under(x)) + 1]
<1>1. n \in Nat
  BY FS_CardinalityType
<1>2. \A x \in S : IsFiniteSet(Under(x)) /\ Cardinality(Under(x)) \in Nat
  <2> TAKE x \in S
  <2>1. Under(x) \in SUBSET S
    OBVIOUS
  <2>2. IsFiniteSet(Under(x))
    BY <2>1, FS_Subset
  <2>3. QED
    BY <2>2, FS_CardinalityType
<1>3. \A x \in S : Cardinality(Under(x)) <= n - 1
  <2> TAKE x \in S
  <2>1. Under(x) \in SUBSET (S \ {x})
    BY DEF Orders
  <2>2. IsFiniteSet(S \ {x}) /\ Cardinality(S \ {x}) = n - 1
    BY FS_RemoveElement
  <2> HIDE DEF Under
  <2>3. Cardinality(Under(x)) <= Cardinality(S \ {x})
    BY <2>1, <2>2, FS_Subset
  <2>4. QED
    BY <2>2, <2>3
<1>4. ASSUME NEW x \in S, NEW y \in S, <<x, y>> \in R
      PROVE  Cardinality(Under(x)) < Cardinality(Under(y))
  <2>1. x \notin Under(x) /\ Under(x) \cup {x} \in SUBSET Under(y)
    BY <1>4 DEF Orders
  <2>2. /\ Cardinality(Under(x) \cup {x}) = Cardinality(Under(x)) + 1
        /\ Cardinality(Under(x) \cup {x}) <= Cardinality(Under(y))
    BY <1>2, <2>1, FS_AddElement, FS_Subset
  <2>3. QED
    BY <1>2, <2>2
<1> HIDE DEF Under
<1>5. rank \in [S -> 1..n]
  BY <1>1, <1>2, <1>3
<1>6. \A x, y \in S : rank[x] = rank[y] => x = y
  <2> SUFFICES ASSUME NEW x \in S, NEW y \in S, rank[x] = rank[y], x # y PROVE FALSE
    OBVIOUS
  <2>1. <<x, y>> \in R \/ <<y, x>> \in R
    BY DEF Orders
  <2>2. Cardinality(Under(x)) = Cardinality(Under(y))
    BY <1>2
  <2>3. QED
    BY <1>2, <1>4, <2>1, <2>2
<1>7. \A k \in 1..n : \E x \in S : rank[x] = k
  <2>1. rank \in Injection(S, 1..n)
    BY <1>5, <1>6 DEF Injection, IsInjective
  <2>2. IsFiniteSet(1..n) /\ Cardinality(1..n) = n
    BY <1>1, FS_Interval
  <2>3. rank \in Surjection(S, 1..n)
    BY <2>1, <2>2, FS_Injection
  <2>4. QED
    BY <2>3 DEF Surjection
<1>8. \A k \in 1..n : Sorted(S, R)[k] \in S /\ rank[Sorted(S, R)[k]] = k
  <2> TAKE k \in 1..n
  <2>1. PICK x \in S : rank[x] = k
    BY <1>7
  <2>2. Cardinality(Under(x)) = k - 1
    BY <1>2, <2>1
  <2>3. Sorted(S, R)[k] = CHOOSE y \in S : Cardinality(Under(y)) = k - 1
    BY DEF Sorted, Under
  <2>4. Sorted(S, R)[k] \in S /\ Cardinality(Under(Sorted(S, R)[k])) = k - 1
    BY <2>2, <2>3
  <2>5. QED
    BY <2>4
<1>9. Sorted(S, R) \in [1..n -> S]
  BY <1>8 DEF Sorted
<1>10. \A x \in S : \E k \in 1..n : Sorted(S, R)[k] = x
  BY <1>5, <1>6, <1>8
<1>11. ASSUME NEW i \in 1..n, NEW j \in 1..n, i < j
       PROVE  <<Sorted(S, R)[i], Sorted(S, R)[j]>> \in R
  <2> DEFINE x == Sorted(S, R)[i]
             y == Sorted(S, R)[j]
  <2>1. x \in S /\ y \in S /\ rank[x] = i /\ rank[y] = j
    BY <1>8
  <2>2. x # y
    BY <1>11, <2>1
  <2>3. <<x, y>> \in R \/ <<y, x>> \in R
    BY <2>1, <2>2 DEF Orders
  <2>4. Cardinality(Under(x)) < Cardinality(Under(y))
    BY <1>2, <1>11, <2>1
  <2>5. QED
    BY <1>2, <1>4, <2>1, <2>3, <2>4
<1>12. QED
  BY <1>1, <1>9, <1>10, <1>11

-----------------------------------------------------------------------------
(* TerminalTool *)

OverDiagnostics == INSTANCE FoldLemmas WITH Op <- ClassifyDiagnostic

\* The lines of a stream, which may be the one line of a failure.
AnyLine == Lines \cup {FailureLine}
OutputStreams == {"stdout", "stderr"}

Diagnostics ==
    [kind : Kinds, stream : OutputStreams, text : {line.text : line \in AnyLine}, line : Nat, count : Nat]

\* The first n lines that d stands for.
Alike(lines, d, n) == {j \in 1..n : lines[j].kind = d.kind /\ lines[j].text = d.text}

\* What a diagnostic knows after n lines.
AlikeCounts(d, stream, lines, n) ==
    /\ d.stream = stream
    /\ d.line \in Alike(lines, d, n) /\ \A j \in Alike(lines, d, n) : d.line <= j
    /\ d.count = Cardinality(Alike(lines, d, n))

\* The diagnostics of the first n lines of a stream.
Merged(diagnostics, stream, lines, n) ==
    /\ diagnostics \in Seq(Diagnostics)
    /\ \A k \in 1..Len(diagnostics) : AlikeCounts(diagnostics[k], stream, lines, n)
    /\ \A i \in 1..n :
          lines[i].kind # Plain => \E k \in 1..Len(diagnostics) : i \in Alike(lines, diagnostics[k], n)
    /\ \A k, m \in 1..Len(diagnostics) : Same(diagnostics[k], diagnostics[m]) => k = m

LEMMA LinesAre ==
    /\ \A line \in AnyLine : line.kind \in Kinds \cup {Plain}
    /\ Plain \notin Kinds
BY OutputsAssumption DEF AnyLine, FailureLine, Plain, Kinds

\* The next line joins those that d stands for, or not.
LEMMA AlikeGrows ==
    ASSUME NEW lines, NEW d, NEW n \in Nat
    PROVE  /\ IsFiniteSet(Alike(lines, d, n)) /\ Cardinality(Alike(lines, d, n)) \in Nat
           /\ lines[n + 1].kind = d.kind /\ lines[n + 1].text = d.text
              => /\ Alike(lines, d, n + 1) = Alike(lines, d, n) \cup {n + 1}
                 /\ Cardinality(Alike(lines, d, n + 1)) = Cardinality(Alike(lines, d, n)) + 1
           /\ ~(lines[n + 1].kind = d.kind /\ lines[n + 1].text = d.text)
              => Alike(lines, d, n + 1) = Alike(lines, d, n)
<1>1. Alike(lines, d, n) \in SUBSET (1..n) /\ IsFiniteSet(1..n)
  BY FS_Interval DEF Alike
<1>2. IsFiniteSet(Alike(lines, d, n)) /\ Cardinality(Alike(lines, d, n)) \in Nat
  BY <1>1, FS_Subset, FS_CardinalityType
<1>3. 1..(n + 1) = (1..n) \cup {n + 1}
  OBVIOUS
<1>4. ASSUME lines[n + 1].kind = d.kind, lines[n + 1].text = d.text
      PROVE  /\ Alike(lines, d, n + 1) = Alike(lines, d, n) \cup {n + 1}
             /\ Cardinality(Alike(lines, d, n + 1)) = Cardinality(Alike(lines, d, n)) + 1
  <2>1. Alike(lines, d, n + 1) = Alike(lines, d, n) \cup {n + 1}
    BY <1>3, <1>4 DEF Alike
  <2>2. n + 1 \notin Alike(lines, d, n)
    BY <1>1
  <2>3. QED
    BY <1>2, <2>1, <2>2, FS_AddElement
<1>5. ASSUME ~(lines[n + 1].kind = d.kind /\ lines[n + 1].text = d.text)
      PROVE  Alike(lines, d, n + 1) = Alike(lines, d, n)
  BY <1>3, <1>5 DEF Alike
<1>6. QED
  BY <1>2, <1>4, <1>5

\* One more line: it is plain, repeats a diagnostic or is a new one.
LEMMA MergedGrows ==
    ASSUME NEW stream \in OutputStreams, NEW lines \in Seq(AnyLine), NEW n \in Nat, n + 1 <= Len(lines),
           NEW ds, Merged(ds, stream, lines, n)
    PROVE  Merged(ClassifyDiagnostic(ds, DiagnosticOf(stream, lines, n + 1)), stream, lines, n + 1)
<1> DEFINE line == lines[n + 1]
           d == DiagnosticOf(stream, lines, n + 1)
           es == ClassifyDiagnostic(ds, d)
<1>1. /\ ds \in Seq(Diagnostics) /\ Len(ds) \in Nat /\ DOMAIN ds = 1..Len(ds)
      /\ \A k \in 1..Len(ds) : ds[k] \in Diagnostics /\ AlikeCounts(ds[k], stream, lines, n)
  BY DEF Merged
<1>2. line \in AnyLine /\ line.kind \in Kinds \cup {Plain}
  BY LinesAre
<1>3. /\ d.kind = line.kind /\ d.text = line.text /\ d.stream = stream /\ d.line = n + 1
      /\ d.count = 1 /\ (line.kind # Plain => d \in Diagnostics)
  BY <1>2 DEF DiagnosticOf, Diagnostics
<1>4. \A i \in 1..n : \A c : i \in Alike(lines, c, n) => i \in Alike(lines, c, n + 1)
  BY DEF Alike
<1> HIDE DEF d, line
<1>5. ASSUME line.kind = Plain PROVE Merged(ds, stream, lines, n + 1)
  <2>1. ASSUME NEW k \in 1..Len(ds) PROVE AlikeCounts(ds[k], stream, lines, n + 1)
    <3>1. ds[k].kind \in Kinds
      BY <1>1 DEF Diagnostics
    <3>2. ds[k].kind # Plain
      BY <3>1, LinesAre
    <3>3. Alike(lines, ds[k], n + 1) = Alike(lines, ds[k], n)
      BY <1>5, <3>2, AlikeGrows DEF line
    <3>4. QED
      BY <1>1, <3>3 DEF AlikeCounts
  <2>2. ASSUME NEW i \in 1..(n + 1), lines[i].kind # Plain
        PROVE  \E k \in 1..Len(ds) : i \in Alike(lines, ds[k], n + 1)
    <3>1. i \in 1..n
      BY <1>5, <2>2 DEF line
    <3>2. QED
      BY <1>4, <2>2, <3>1 DEF Merged
  <2>3. QED
    BY <1>1, <2>1, <2>2 DEF Merged
<1>6. ASSUME line.kind # Plain, NEW m \in 1..Len(ds), Same(ds[m], d)
      PROVE  Merged(es, stream, lines, n + 1)
  <2> DEFINE more == [ds[m] EXCEPT !.count = @ + 1]
  <2>1. \A k \in 1..Len(ds) : Same(ds[k], d) <=> k = m
    BY <1>6 DEF Merged, Same
  <2>2. es = [k \in 1..Len(ds) |-> IF k = m THEN more ELSE ds[k]]
    BY <1>1, <1>3, <1>6, <2>1 DEF ClassifyDiagnostic, MergeDiagnostic
  <2>3. /\ more \in Diagnostics /\ more.kind = ds[m].kind /\ more.stream = ds[m].stream
        /\ more.text = ds[m].text /\ more.line = ds[m].line /\ more.count = ds[m].count + 1
    <3>1. PICK T : T = {l.text : l \in AnyLine}
      OBVIOUS
    <3>2. ds[m] \in [kind : Kinds, stream : OutputStreams, text : T, line : Nat, count : Nat]
      BY <1>1, <3>1 DEF Diagnostics
    <3>3. more \in [kind : Kinds, stream : OutputStreams, text : T, line : Nat, count : Nat]
      BY <3>2
    <3>4. QED
      BY <3>1, <3>2, <3>3 DEF Diagnostics
  <2> HIDE DEF more, es
  <2>4. /\ es \in Seq(Diagnostics) /\ Len(es) = Len(ds)
        /\ \A k \in 1..Len(ds) : es[k] = IF k = m THEN more ELSE ds[k]
    <3>1. es \in [1..Len(ds) -> Diagnostics]
      BY <1>1, <2>2, <2>3
    <3>2. QED
      BY <1>1, <2>2, <3>1
  <2>5. \A k \in 1..Len(ds) : /\ es[k].kind = ds[k].kind /\ es[k].text = ds[k].text
                              /\ es[k].stream = ds[k].stream /\ es[k].line = ds[k].line
    BY <2>3, <2>4
  <2>6. \A k \in 1..Len(ds) : \A h \in {n, n + 1} : Alike(lines, es[k], h) = Alike(lines, ds[k], h)
    BY <2>5 DEF Alike
  <2>7. ASSUME NEW k \in 1..Len(ds) PROVE AlikeCounts(es[k], stream, lines, n + 1)
    <3>1. CASE k = m
      <4>1. lines[n + 1].kind = ds[m].kind /\ lines[n + 1].text = ds[m].text
        BY <1>3, <1>6 DEF Same, line
      <4>2. /\ Alike(lines, ds[m], n + 1) = Alike(lines, ds[m], n) \cup {n + 1}
            /\ Cardinality(Alike(lines, ds[m], n + 1)) = Cardinality(Alike(lines, ds[m], n)) + 1
        <5>1. PICK c : c = ds[m]
          OBVIOUS
        <5>2. lines[n + 1].kind = c.kind /\ lines[n + 1].text = c.text
          BY <4>1, <5>1
        <5>3. /\ Alike(lines, c, n + 1) = Alike(lines, c, n) \cup {n + 1}
              /\ Cardinality(Alike(lines, c, n + 1)) = Cardinality(Alike(lines, c, n)) + 1
          BY ONLY n \in Nat, <5>2, AlikeGrows
        <5>4. QED
          BY <5>1, <5>3
      <4>3. ds[m].line \in 1..n
        BY <1>1 DEF AlikeCounts, Alike
      <4>4. AlikeCounts(ds[m], stream, lines, n)
        BY <1>1
      <4>5. ds[m].line <= n + 1
        BY <4>3
      <4>6. /\ es[m].stream = stream /\ es[m].line \in Alike(lines, ds[m], n + 1)
            /\ \A j \in Alike(lines, ds[m], n + 1) : es[m].line <= j
        BY <2>5, <4>2, <4>4, <4>5 DEF AlikeCounts
      <4>7. es[m].count = Cardinality(Alike(lines, ds[m], n + 1))
        BY <2>3, <2>4, <4>2, <4>4 DEF AlikeCounts
      <4>8. QED
        BY <2>6, <3>1, <4>6, <4>7 DEF AlikeCounts
    <3>2. CASE k # m
      <4>1. es[k] = ds[k]
        BY <2>4, <3>2
      <4>2. ~(line.kind = ds[k].kind /\ line.text = ds[k].text)
        BY <1>1, <1>3, <2>1, <3>2 DEF Same, AlikeCounts
      <4>3. Alike(lines, ds[k], n + 1) = Alike(lines, ds[k], n)
        BY <4>2, AlikeGrows DEF line
      <4>4. QED
        BY <1>1, <4>1, <4>3 DEF AlikeCounts
    <3>3. QED
      BY <3>1, <3>2
  <2>8. ASSUME NEW i \in 1..(n + 1), lines[i].kind # Plain
        PROVE  \E k \in 1..Len(ds) : i \in Alike(lines, es[k], n + 1)
    <3>1. CASE i = n + 1
      <4>1. i \in Alike(lines, ds[m], n + 1)
        BY <1>3, <1>6, <3>1 DEF Alike, Same, line
      <4>2. QED
        BY <2>6, <4>1
    <3>2. CASE i \in 1..n
      <4>1. PICK k \in 1..Len(ds) : i \in Alike(lines, ds[k], n)
        BY <2>8, <3>2 DEF Merged
      <4>2. QED
        BY <1>4, <2>6, <3>2, <4>1
    <3>3. QED
      BY <2>8, <3>1, <3>2
  <2>9. \A k, j \in 1..Len(ds) : Same(es[k], es[j]) => k = j
    BY <2>5 DEF Merged, Same
  <2>10. QED
    BY <2>4, <2>7, <2>8, <2>9 DEF Merged
<1>7. ASSUME line.kind # Plain, \A m \in 1..Len(ds) : ~Same(ds[m], d)
      PROVE  Merged(es, stream, lines, n + 1)
  <2>1. es = Append(ds, d)
    BY <1>1, <1>3, <1>7 DEF ClassifyDiagnostic, MergeDiagnostic
  <2> HIDE DEF es
  <2>2. /\ es \in Seq(Diagnostics) /\ Len(es) = Len(ds) + 1 /\ es[Len(ds) + 1] = d
        /\ \A k \in 1..Len(ds) : es[k] = ds[k]
    BY <1>1, <1>3, <1>7, <2>1
  <2>3. \A k \in 1..(Len(ds) + 1) : k \in 1..Len(ds) \/ k = Len(ds) + 1
    BY <1>1
  <2>4. ASSUME NEW k \in 1..Len(ds) PROVE AlikeCounts(ds[k], stream, lines, n + 1)
    <3>1. ~(line.kind = ds[k].kind /\ line.text = ds[k].text)
      BY <1>1, <1>3, <1>7 DEF Same, AlikeCounts
    <3>2. Alike(lines, ds[k], n + 1) = Alike(lines, ds[k], n)
      BY <3>1, AlikeGrows DEF line
    <3>3. QED
      BY <1>1, <3>2 DEF AlikeCounts
  <2>5. Alike(lines, d, n) = {}
    <3> SUFFICES ASSUME NEW i \in Alike(lines, d, n) PROVE FALSE
      OBVIOUS
    <3>1. i \in 1..n /\ lines[i].kind = line.kind /\ lines[i].text = line.text
      BY <1>3 DEF Alike
    <3>2. PICK k \in 1..Len(ds) : i \in Alike(lines, ds[k], n)
      BY <1>7, <3>1 DEF Merged
    <3>3. Same(ds[k], d)
      BY <1>1, <1>3, <3>1, <3>2 DEF Alike, Same, AlikeCounts
    <3>4. QED
      BY <1>7, <3>3
  <2>6. AlikeCounts(d, stream, lines, n + 1)
    <3>1. lines[n + 1].kind = d.kind /\ lines[n + 1].text = d.text
      BY <1>3 DEF line
    <3>2. /\ Alike(lines, d, n + 1) = Alike(lines, d, n) \cup {n + 1}
          /\ Cardinality(Alike(lines, d, n + 1)) = Cardinality(Alike(lines, d, n)) + 1
      BY <3>1, AlikeGrows
    <3>3. Cardinality(Alike(lines, d, n)) = 0
      BY <2>5, FS_EmptySet
    <3>4. QED
      BY <1>3, <2>5, <3>2, <3>3 DEF AlikeCounts
  <2>7. ASSUME NEW i \in 1..(n + 1), lines[i].kind # Plain
        PROVE  \E k \in 1..Len(es) : i \in Alike(lines, es[k], n + 1)
    <3>1. CASE i = n + 1
      <4>1. i \in Alike(lines, d, n + 1)
        BY <1>3, <3>1 DEF Alike, line
      <4>2. Len(ds) + 1 \in 1..Len(es)
        BY <1>1, <2>2
      <4>3. QED
        BY <2>2, <4>1, <4>2
    <3>2. CASE i \in 1..n
      <4>1. PICK k \in 1..Len(ds) : i \in Alike(lines, ds[k], n)
        BY <2>7, <3>2 DEF Merged
      <4>2. k \in 1..Len(es) /\ es[k] = ds[k]
        BY <1>1, <2>2
      <4>3. QED
        BY <1>4, <3>2, <4>1, <4>2
    <3>3. QED
      BY <2>7, <3>1, <3>2
  <2>8. ASSUME NEW k \in 1..Len(es), NEW m \in 1..Len(es), Same(es[k], es[m])
        PROVE  k = m
    <3>1. CASE k \in 1..Len(ds) /\ m \in 1..Len(ds)
      BY <2>2, <2>8, <3>1 DEF Merged
    <3>2. CASE k = Len(ds) + 1 /\ m = Len(ds) + 1
      BY <3>2
    <3>3. CASE k \in 1..Len(ds) /\ m = Len(ds) + 1
      BY <1>7, <2>2, <2>8, <3>3
    <3>4. CASE k = Len(ds) + 1 /\ m \in 1..Len(ds)
      BY <1>7, <2>2, <2>8, <3>4 DEF Same
    <3>5. QED
      BY <2>2, <2>3, <3>1, <3>2, <3>3, <3>4
  <2>9. \A k \in 1..Len(es) : AlikeCounts(es[k], stream, lines, n + 1)
    BY <2>2, <2>3, <2>4, <2>6
  <2>10. QED
    BY <2>2, <2>7, <2>8, <2>9 DEF Merged
<1>8. line.kind = Plain => es = ds
  BY <1>3 DEF ClassifyDiagnostic
<1>9. QED
  BY <1>5, <1>6, <1>7, <1>8 DEF d

\* The diagnostics of a stream: one for every kind and text of a line, with the
\* first such line and their number.
LEMMA StreamMerged ==
    ASSUME NEW stream \in OutputStreams, NEW lines \in Seq(AnyLine)
    PROVE  Merged(StreamDiagnostics(stream, lines), stream, lines, Len(lines))
<1> DEFINE n == Len(lines)
           s == [i \in DOMAIN lines |-> DiagnosticOf(stream, lines, i)]
<1>1. n \in Nat /\ DOMAIN lines = 1..n /\ DOMAIN s = 1..n
  OBVIOUS
<1>2. PICK h : OverDiagnostics!Steps(h, <<>>, s, n)
  BY <1>1, OverDiagnostics!FoldGoes
<1>3. /\ h[0] = <<>> /\ h[n] = StreamDiagnostics(stream, lines)
      /\ \A i \in 1..n : h[i] = ClassifyDiagnostic(h[i - 1], DiagnosticOf(stream, lines, i))
  <2>1. /\ h[0] = <<>> /\ OverDiagnostics!Fold(<<>>, s) = h[n]
        /\ \A i \in 1..n : h[i] = ClassifyDiagnostic(h[i - 1], s[i])
    BY <1>2 DEF OverDiagnostics!Steps
  <2>2. \A i \in 1..n : s[i] = DiagnosticOf(stream, lines, i)
    BY <1>1
  <2>3. OverDiagnostics!Fold(<<>>, s) = StreamDiagnostics(stream, lines)
    BY Zenon DEF StreamDiagnostics, OverDiagnostics!Fold, OverDiagnostics!FoldLeft, FoldLeft,
         OverDiagnostics!MapThenFoldSet, MapThenFoldSet, OverDiagnostics!Max, Max
  <2>4. QED
    BY <2>1, <2>2, <2>3
<1> HIDE DEF n
<1> DEFINE I == {k \in 0..n : Merged(h[k], stream, lines, k)}
<1>4. 0 \in I
  <2>1. <<>> \in Seq(Diagnostics) /\ Len(<<>>) = 0
    OBVIOUS
  <2>2. Merged(<<>>, stream, lines, 0)
    BY <2>1 DEF Merged
  <2>3. QED
    BY <1>1, <1>3, <2>2
<1>5. ASSUME NEW k \in 0..(n - 1), k \in I PROVE k + 1 \in I
  <2>1. k \in Nat /\ k + 1 \in 1..n /\ (k + 1) - 1 = k /\ k + 1 <= Len(lines)
    BY <1>1 DEF n
  <2>2. h[k + 1] = ClassifyDiagnostic(h[k], DiagnosticOf(stream, lines, k + 1))
    BY <1>3, <2>1
  <2>3. Merged(h[k], stream, lines, k)
    BY <1>5
  <2>4. Merged(h[k + 1], stream, lines, k + 1)
    BY <2>1, <2>2, <2>3, MergedGrows
  <2>5. QED
    BY <1>1, <2>1, <2>4
<1> HIDE DEF I
<1>6. n \in I
  BY <1>1, <1>4, <1>5, Upwards
<1>7. QED
  BY <1>3, <1>6 DEF I, n

\* What the caller is told of the streams of an execution, in its order.
Told(worst, streams) ==
    /\ worst \in Seq(Diagnostics)
    /\ \A k \in 1..Len(worst) :
          LET lines == streams[worst[k].stream] IN AlikeCounts(worst[k], worst[k].stream, lines, Len(lines))
    /\ \A stream \in OutputStreams : \A i \in 1..Len(streams[stream]) :
          streams[stream][i].kind # Plain =>
              \E k \in 1..Len(worst) :
                  /\ worst[k].stream = stream
                  /\ i \in Alike(streams[stream], worst[k], Len(streams[stream]))
    /\ \A k, m \in 1..Len(worst) : k < m => Before(worst[k], worst[m])

\* A kind is a warning, an error of the second rank or one of the first.
LEMMA PriorityType ==
    ASSUME NEW d \in Diagnostics
    PROVE  /\ DiagnosticPriority(d.kind) \in Nat /\ d.line \in Nat
           /\ d.stream = "stdout" \/ d.stream = "stderr"
BY DEF DiagnosticPriority, Diagnostics, OutputStreams

\* Diagnostics of different lines are one before the other.
LEMMA BeforeOrders ==
    ASSUME NEW all, all \subseteq Diagnostics,
           \A d, e \in all : d.stream = e.stream /\ d.line = e.line => d = e
    PROVE  Orders({p \in all \X all : Before(p[1], p[2])}, all)
<1> DEFINE R == {p \in all \X all : Before(p[1], p[2])}
<1>1. \A d, e \in all : <<d, e>> \in R <=> Before(d, e)
  OBVIOUS
<1>2. \A d \in all : /\ DiagnosticPriority(d.kind) \in Nat /\ d.line \in Nat
                     /\ d.stream = "stdout" \/ d.stream = "stderr"
  BY PriorityType
<1>3. \A d \in all : ~Before(d, d)
  BY <1>2 DEF Before
<1>4. \A d, e \in all : d = e \/ Before(d, e) \/ Before(e, d)
  <2> TAKE d, e \in all
  <2>1. d.stream = e.stream /\ d.line = e.line => d = e
    OBVIOUS
  <2>2. QED
    BY <1>2, <2>1 DEF Before
<1>5. \A d, e, f \in all : Before(d, e) /\ Before(e, f) => Before(d, f)
  BY <1>2 DEF Before
<1> HIDE DEF R
<1>6. QED
  BY <1>1, <1>3, <1>4, <1>5 DEF Orders, R

\* Sorting the diagnostics of both streams keeps all of them.
LEMMA WorstAreTold ==
    ASSUME NEW streams, \A stream \in OutputStreams : streams[stream] \in Seq(AnyLine)
    PROVE  Told(WorstFirst(Found(streams["stdout"], streams["stderr"])), streams)
<1> DEFINE a == StreamDiagnostics("stdout", streams["stdout"])
           b == StreamDiagnostics("stderr", streams["stderr"])
           found == Found(streams["stdout"], streams["stderr"])
           all == {found[k] : k \in DOMAIN found}
           R == {p \in all \X all : Before(p[1], p[2])}
           n == Cardinality(all)
           worst == WorstFirst(found)
           Of(stream) == IF stream = "stdout" THEN a ELSE b
           Known(d) == AlikeCounts(d, d.stream, streams[d.stream], Len(streams[d.stream]))
<1>1. \A stream \in OutputStreams : Merged(Of(stream), stream, streams[stream], Len(streams[stream]))
  BY StreamMerged DEF OutputStreams
<1>2. a \in Seq(Diagnostics) /\ b \in Seq(Diagnostics)
  BY <1>1 DEF OutputStreams, Merged
<1>3. /\ found \in Seq(Diagnostics) /\ Len(a) \in Nat /\ Len(b) \in Nat
      /\ Len(found) = Len(a) + Len(b)
      /\ \A p \in 1..Len(a) : found[p] = a[p]
      /\ \A p \in 1..Len(b) : found[Len(a) + p] = b[p]
  BY <1>2, ConcatPlaces DEF Found
<1> HIDE DEF found
<1>4. all \subseteq Diagnostics /\ \A k \in 1..Len(found) : found[k] \in all
  <2>1. all \subseteq Diagnostics
    BY <1>3
  <2>2. DOMAIN found = 1..Len(found)
    BY <1>3
  <2>3. QED
    BY <2>1, <2>2
<1>5. \A stream \in OutputStreams : \A k \in 1..Len(Of(stream)) :
          Of(stream)[k] \in all /\ Known(Of(stream)[k])
  <2> TAKE stream \in OutputStreams
  <2> TAKE k \in 1..Len(Of(stream))
  <2>1. Of(stream)[k] \in all
    <3>1. CASE stream = "stdout"
      <4>1. Of(stream) = a /\ k \in 1..Len(a)
        BY <3>1
      <4>2. k \in 1..Len(found) /\ found[k] = a[k]
        BY <1>3, <4>1
      <4>3. QED
        BY <1>4, <4>1, <4>2
    <3>2. CASE stream = "stderr"
      <4>1. Of(stream) = b /\ k \in 1..Len(b)
        BY <3>2
      <4>2. Len(a) + k \in 1..Len(found) /\ found[Len(a) + k] = b[k]
        BY <1>3, <4>1
      <4>3. QED
        BY <1>4, <4>1, <4>2
    <3>3. QED
      BY <3>1, <3>2 DEF OutputStreams
  <2>2. Known(Of(stream)[k])
    BY <1>1 DEF Merged, AlikeCounts
  <2>3. QED
    BY <2>1, <2>2
<1>6. \A d \in all : Known(d)
  <2> SUFFICES ASSUME NEW k \in 1..Len(found) PROVE Known(found[k])
    BY <1>3
  <2>1. CASE k \in 1..Len(a)
    BY <1>3, <1>5, <2>1 DEF OutputStreams
  <2>2. CASE k - Len(a) \in 1..Len(b)
    <3>1. found[k] = b[k - Len(a)]
      BY <1>3, <2>2
    <3>2. QED
      BY <1>5, <2>2, <3>1 DEF OutputStreams
  <2>3. QED
    BY <1>3, <2>1, <2>2
<1>7. \A d, e \in all : d.stream = e.stream /\ d.line = e.line => d = e
  <2> SUFFICES ASSUME NEW d \in all, NEW e \in all, d.stream = e.stream, d.line = e.line PROVE d = e
    OBVIOUS
  <2> DEFINE lines == streams[d.stream]
  <2>1. AlikeCounts(d, d.stream, lines, Len(lines)) /\ AlikeCounts(e, d.stream, lines, Len(lines))
    BY <1>6
  <2>2. d.kind = e.kind /\ d.text = e.text
    BY <2>1 DEF AlikeCounts, Alike
  <2>3. Alike(lines, d, Len(lines)) = Alike(lines, e, Len(lines))
    BY <2>2 DEF Alike
  <2>4. d.count = e.count
    BY <2>1, <2>3 DEF AlikeCounts
  <2>5. QED
    BY <1>4, <2>2, <2>4 DEF Diagnostics
<1>8. Orders(R, all)
  BY <1>4, <1>7, BeforeOrders
<1>9. IsFiniteSet(all)
  <2>1. found \in Surjection(1..Len(found), all)
    BY <1>3 DEF Surjection
  <2>2. IsFiniteSet(1..Len(found))
    BY <1>3, FS_Interval
  <2>3. QED
    BY <2>1, <2>2, FS_Surjection
<1>10. worst = Sorted(all, R)
  BY DEF WorstFirst
<1> HIDE DEF all, R, worst
<1>11. /\ n \in Nat /\ worst \in [1..n -> all]
       /\ \A d \in all : \E k \in 1..n : worst[k] = d
       /\ \A k, m \in 1..n : k < m => <<worst[k], worst[m]>> \in R
  BY <1>8, <1>9, <1>10, SortedInOrder
<1> HIDE DEF n
<1>12. /\ worst \in Seq(Diagnostics) /\ Len(worst) = n
       /\ \A k \in 1..n : worst[k] \in all
  <2>1. worst \in [1..n -> Diagnostics]
    BY <1>4, <1>11
  <2>2. QED
    BY <1>11, <2>1
<1>13. \A k, m \in 1..n : k < m => Before(worst[k], worst[m])
  BY <1>11 DEF R
<1>14. ASSUME NEW stream \in OutputStreams, NEW i \in 1..Len(streams[stream]), streams[stream][i].kind # Plain
       PROVE  \E k \in 1..n : /\ worst[k].stream = stream
                              /\ i \in Alike(streams[stream], worst[k], Len(streams[stream]))
  <2>1. PICK m \in 1..Len(Of(stream)) : i \in Alike(streams[stream], Of(stream)[m], Len(streams[stream]))
    BY <1>1, <1>14 DEF Merged
  <2>2. Of(stream)[m].stream = stream /\ Of(stream)[m] \in all
    BY <1>1, <1>5 DEF Merged, AlikeCounts
  <2>3. PICK k \in 1..n : worst[k] = Of(stream)[m]
    BY <1>11, <2>2
  <2>4. QED
    BY <2>1, <2>2, <2>3
<1>15. Told(worst, streams)
  <2>1. \A k \in 1..Len(worst) : Known(worst[k])
    BY <1>6, <1>12
  <2>2. QED
    BY <1>12, <1>13, <1>14, <2>1 DEF Told
<1>16. QED
  BY <1>15 DEF worst, found

\* What is shown of a stream and what is counted make it up.
AddsUp(c, lines) ==
    LET n == Len(c.head) + c.omitted + Len(c.tail)
    IN /\ n = Len(lines)
       /\ c.head = SubSeq(lines, 1, Len(c.head))
       /\ c.tail = SubSeq(lines, n - Len(c.tail) + 1, n)

LEMMA CompactAddsUp ==
    ASSUME NEW lines \in Seq(AnyLine)
    PROVE  AddsUp(CompactStream(lines), lines)
<1> DEFINE n == Len(lines)
           t == TailStart(lines)
           h == Least(HeadLimit, n)
           c == CompactStream(lines)
<1>1. n \in Nat /\ HeadLimit \in Nat /\ TailLimit \in Nat
  BY OutputsAssumption
<1>2. \A a, b \in 0..n : Len(SubSeq(lines, a + 1, b)) = IF a <= b THEN b - a ELSE 0
  OBVIOUS
<1>3. CASE Bytes(lines) <= ShortLimit
  <2>1. c = [head |-> lines, tail |-> <<>>, omitted |-> 0, lines |-> n, truncated |-> FALSE]
    BY <1>3 DEF CompactStream
  <2>2. Len(<<>>) = 0 /\ SubSeq(lines, 1, n) = lines /\ SubSeq(lines, n + 1, n) = <<>>
    BY <1>1
  <2>3. QED
    BY <1>1, <2>1, <2>2 DEF AddsUp
<1>4. CASE ~(Bytes(lines) <= ShortLimit)
  <2>1. /\ c.head = SubSeq(lines, 1, h) /\ c.tail = SubSeq(lines, t + 1, n)
        /\ c.omitted = Len(SubSeq(lines, HeadLimit + 1, Least(t, n)))
    BY <1>4 DEF CompactStream
  <2>2. t \in Nat /\ HeadLimit <= t /\ h \in 0..n /\ Least(t, n) \in 0..n
    BY <1>1 DEF TailStart, Greatest, Least
  <2> HIDE DEF c, t, n
  <2>3. Len(SubSeq(lines, 1, h)) = h
    BY <1>1, <2>2 DEF n
  <2>4. CASE HeadLimit <= n /\ t <= n
    <3>1. h = HeadLimit /\ Least(t, n) = t
      BY <1>1, <2>2, <2>4 DEF Least
    <3>2. Len(SubSeq(lines, t + 1, n)) = n - t /\ Len(SubSeq(lines, HeadLimit + 1, t)) = t - HeadLimit
      BY <1>1, <2>2, <2>4 DEF n
    <3>3. Len(c.head) + c.omitted + Len(c.tail) = n /\ n - Len(c.tail) = t
      BY <1>1, <2>1, <2>2, <2>3, <3>1, <3>2
    <3>4. QED
      BY <2>1, <2>3, <3>1, <3>3 DEF AddsUp, n, c
  <2>5. CASE HeadLimit > n
    <3>1. h = n /\ Least(t, n) = n /\ t >= n
      BY <1>1, <2>2, <2>5 DEF Least
    <3>2. SubSeq(lines, t + 1, n) = <<>> /\ Len(SubSeq(lines, HeadLimit + 1, n)) = 0
          /\ SubSeq(lines, n + 1, n) = <<>>
      BY <1>1, <2>2, <2>5, <3>1 DEF n
    <3>3. Len(<<>>) = 0
      OBVIOUS
    <3>4. Len(c.head) = n /\ c.omitted = 0 /\ Len(c.tail) = 0
      BY <2>1, <2>3, <3>1, <3>2, <3>3
    <3>5. QED
      <4>1. n - 0 + 1 = n + 1 /\ n + 0 + 0 = n
        BY <1>1
      <4>2. QED
        BY <1>1, <2>1, <3>1, <3>2, <3>4, <4>1 DEF AddsUp, n, c
  <2>6. CASE HeadLimit <= n /\ t > n
    <3>1. t = HeadLimit \/ t = n - TailLimit \/ t = 0
      BY <1>1 DEF t, TailStart, Greatest, n
    <3>2. QED
      BY <1>1, <2>6, <3>1
  <2>7. QED
    BY <1>1, <2>2, <2>4, <2>5, <2>6
<1>5. QED
  BY <1>3, <1>4

\* The first of the worst, and after them what cargo said.
LEMMA DiagnosticsReturned ==
    ASSUME NEW stdout \in Seq(AnyLine), NEW worst, worst \in Seq(Diagnostics), NEW stderr,
           worst = WorstFirst(Found(stdout, stderr))
    PROVE  LET ds == ReduceDiagnostics(stdout, stderr)
               shown == Least(DiagnosticLimit, Len(worst))
           IN /\ Len(ds) \in Nat /\ DOMAIN ds = 1..Len(ds) /\ shown \in Nat /\ shown <= Len(ds)
              /\ \A k \in 1..shown : ds[k] = worst[k]
              /\ \A k \in 1..Len(ds) : k > shown => ds[k].kind = "cargo_test_failure"
<1> DEFINE shown == Least(DiagnosticLimit, Len(worst))
           failed == {i \in DOMAIN stdout : stdout[i].kind = "test_failure"}
           cargo == CargoFailures(stdout)
           first == SubSeq(worst, 1, shown)
           ds == ReduceDiagnostics(stdout, stderr)
<1>1. DiagnosticLimit \in Nat /\ Len(worst) \in Nat /\ Len(stdout) \in Nat
  BY OutputsAssumption
<1>2. shown \in 0..Len(worst)
  BY <1>1 DEF Least
<1>3. /\ first \in Seq(Diagnostics) /\ Len(first) = shown
      /\ \A k \in 1..shown : first[k] = worst[k]
  BY <1>1, <1>2
<1>4. failed \in SUBSET (1..Len(stdout)) /\ IsFiniteSet(1..Len(stdout))
  <2>1. DOMAIN stdout = 1..Len(stdout)
    OBVIOUS
  <2>2. IsFiniteSet(1..Len(stdout))
    BY <1>1, FS_Interval
  <2>3. QED
    BY <2>1, <2>2
<1>5. Cardinality(failed) \in Nat
  BY <1>4, FS_Subset, FS_CardinalityType
<1>6. PICK order : order = Sorted(failed, {p \in failed \X failed : p[1] < p[2]})
  OBVIOUS
<1>7. DOMAIN order = 1..Cardinality(failed)
  BY <1>6 DEF Sorted
<1>8. cargo = [k \in DOMAIN order |->
                  [DiagnosticOf("stdout", stdout, order[k]) EXCEPT !.kind = "cargo_test_failure"]]
  BY <1>6 DEF CargoFailures
<1> DEFINE C == {[DiagnosticOf("stdout", stdout, order[k]) EXCEPT !.kind = "cargo_test_failure"] :
                    k \in DOMAIN order}
<1>9. \A c \in C : c.kind = "cargo_test_failure"
  BY DEF DiagnosticOf
<1>10. cargo \in [1..Cardinality(failed) -> C]
  BY <1>7, <1>8
<1> HIDE DEF C, cargo, failed
<1>11. cargo \in Seq(C)
  BY <1>5, <1>10
<1> DEFINE more == IF command.cargo THEN cargo ELSE <<>>
<1>12. ds = first \o more
  BY DEF ReduceDiagnostics, ExtractDiagnostics, cargo
<1>13. more \in Seq(C)
  <2>1. <<>> \in Seq(C)
    OBVIOUS
  <2>2. QED
    BY <1>11, <2>1
<1> HIDE DEF ds, more, first, shown
<1>14. /\ ds \in Seq(Diagnostics \cup C) /\ Len(more) \in Nat /\ Len(ds) = shown + Len(more)
       /\ \A k \in 1..shown : ds[k] = first[k]
       /\ \A k \in 1..Len(more) : ds[shown + k] = more[k]
  <2>1. first \in Seq(Diagnostics \cup C) /\ more \in Seq(Diagnostics \cup C)
    BY <1>3, <1>13
  <2>2. QED
    BY <1>3, <1>12, <2>1, ConcatPlaces
<1>15. ASSUME NEW k \in 1..Len(ds), k > shown PROVE ds[k].kind = "cargo_test_failure"
  <2>1. k - shown \in 1..Len(more) /\ k = shown + (k - shown)
    BY <1>2, <1>14, <1>15
  <2>2. ds[k] = more[k - shown]
    BY <1>14, <2>1
  <2>3. QED
    BY <1>9, <1>13, <2>1, <2>2
<1>16. DOMAIN ds = 1..Len(ds) /\ Len(ds) \in Nat
  BY <1>14
<1>17. QED
  BY <1>2, <1>3, <1>14, <1>15, <1>16 DEF ds, shown

\* What was returned was made of what the command wrote.
TerminalInv ==
    /\ execution.stage = "ended" => \A stream \in OutputStreams : execution[stream] \in Seq(AnyLine)
    /\ output.stage = "returned" =>
          /\ execution.stage = "ended"
          /\ \A stream \in OutputStreams : output[stream] = CompactStream(execution[stream])
          /\ output.diagnostics = ReduceDiagnostics(execution.stdout, execution.stderr)

LEMMA TerminalStarts == TerminalInit => TerminalInv
BY DEF TerminalInit, TerminalInv

LEMMA TerminalSteps == TerminalInv /\ [TerminalNext]_terminalVars => TerminalInv'
<1> SUFFICES ASSUME TerminalInv, [TerminalNext]_terminalVars PROVE TerminalInv'
  OBVIOUS
<1>1. CASE RunCommand
  <2>1. /\ execution'.stage = "running" /\ execution.stage = "idle" /\ output' = output
    BY <1>1 DEF RunCommand
  <2>2. QED
    BY <2>1 DEF TerminalInv
<1>2. CASE CommandEnds
  <2>1. execution.stage = "running" /\ output' = output
    BY <1>2 DEF CommandEnds
  <2>2. \A o \in Outputs : o \in Seq(AnyLine)
    BY OutputsAssumption DEF AnyLine
  <2>3. <<>> \in Seq(AnyLine) /\ <<FailureLine>> \in Seq(AnyLine)
    BY DEF AnyLine
  <2>4. execution'["stdout"] \in Seq(AnyLine) /\ execution'["stderr"] \in Seq(AnyLine)
    <3>1. CASE \E stdout, stderr \in Outputs, code \in {"zero", "other", "none"} :
                  execution' = [stage |-> "ended", stdout |-> stdout, stderr |-> stderr, exit |-> code]
      BY <2>2, <3>1
    <3>2. CASE execution' = [stage |-> "ended", stdout |-> <<>>, stderr |-> <<FailureLine>>,
                             exit |-> "none"]
      BY <2>3, <3>2
    <3>3. QED
      BY <1>2, <3>1, <3>2 DEF CommandEnds
  <2>5. QED
    BY <2>1, <2>4 DEF TerminalInv, OutputStreams
<1>3. CASE Compact
  <2>1. /\ execution.stage = "ended" /\ execution' = execution /\ command' = command
        /\ output'["stdout"] = CompactStream(execution.stdout)
        /\ output'["stderr"] = CompactStream(execution.stderr)
        /\ output'.diagnostics = ReduceDiagnostics(execution.stdout, execution.stderr)
    BY <1>3 DEF Compact
  <2>2. ReduceDiagnostics(execution.stdout, execution.stderr)'
            = ReduceDiagnostics(execution.stdout, execution.stderr)
    BY <2>1 DEF ReduceDiagnostics
  <2>3. QED
    BY <2>1, <2>2 DEF TerminalInv, OutputStreams
<1>4. CASE UNCHANGED terminalVars
  <2>1. execution' = execution /\ command' = command /\ output' = output
    BY <1>4 DEF terminalVars
  <2>2. ReduceDiagnostics(execution.stdout, execution.stderr)'
            = ReduceDiagnostics(execution.stdout, execution.stderr)
    BY <2>1 DEF ReduceDiagnostics
  <2>3. QED
    BY <2>1, <2>2 DEF TerminalInv
<1>5. QED
  BY <1>1, <1>2, <1>3, <1>4 DEF TerminalNext

LEMMA TerminalTells == TerminalInv => OutputIsAccountedFor
<1> SUFFICES ASSUME TerminalInv PROVE OutputIsAccountedFor
  OBVIOUS
<1>1. CASE output.stage # "returned"
  BY <1>1 DEF OutputIsAccountedFor, StreamsAddUp, WorstDiagnosticsAreShown
<1>2. CASE output.stage = "returned"
  <2>1. /\ \A stream \in OutputStreams : execution[stream] \in Seq(AnyLine)
        /\ \A stream \in OutputStreams : output[stream] = CompactStream(execution[stream])
        /\ output.diagnostics = ReduceDiagnostics(execution.stdout, execution.stderr)
    BY <1>2 DEF TerminalInv
  <2>2. \A stream \in OutputStreams : AddsUp(output[stream], execution[stream])
    BY <2>1, CompactAddsUp
  <2>3. StreamsAddUp
    BY <2>2 DEF StreamsAddUp, AddsUp, OutputStreams
  <2> DEFINE ds == output.diagnostics
             worst == WorstFirst(Found(execution.stdout, execution.stderr))
             first == Least(DiagnosticLimit, Len(worst))
             shown == {ds[k] : k \in DOMAIN ds}
  <2>4. execution.stdout \in Seq(AnyLine) /\ execution.stderr \in Seq(AnyLine)
    BY <2>1 DEF OutputStreams
  <2>5. Told(worst, execution)
    BY <2>1, WorstAreTold
  <2>6. worst \in Seq(Diagnostics) /\ Len(worst) \in Nat /\ DiagnosticLimit \in Nat
    BY <2>5, OutputsAssumption DEF Told
  <2>7. /\ Len(ds) \in Nat /\ DOMAIN ds = 1..Len(ds) /\ first \in Nat /\ first <= Len(ds)
        /\ \A k \in 1..first : ds[k] = worst[k]
        /\ \A k \in 1..Len(ds) : k > first => ds[k].kind = "cargo_test_failure"
    BY <2>1, <2>4, <2>6, DiagnosticsReturned
  <2>8. first <= Len(worst) /\ first <= DiagnosticLimit
        /\ (first < Len(worst) => first = DiagnosticLimit)
    BY <2>6 DEF Least
  <2> HIDE DEF ds, worst, first
  <2>9. \A k \in 1..Len(ds) : ds[k] \in shown
    BY <2>7
  <2>10. \A d \in shown : \E k \in 1..Len(ds) : d = ds[k]
    BY <2>7
  <2> HIDE DEF shown
  <2>11. ASSUME NEW stream \in OutputStreams, NEW i \in DOMAIN execution[stream],
                execution[stream][i].kind # Plain
         PROVE  LET line == execution[stream][i]
                    alike == {j \in DOMAIN execution[stream] :
                                 execution[stream][j].kind = line.kind
                                 /\ execution[stream][j].text = line.text}
                    Listed == \E d \in shown :
                                 d.stream = stream /\ d.kind = line.kind /\ d.text = line.text
                IN /\ ~Listed =>
                          /\ Len(ds) >= DiagnosticLimit
                          /\ \A k \in 1..DiagnosticLimit :
                                DiagnosticPriority(ds[k].kind) <= DiagnosticPriority(line.kind)
                   /\ \A d \in shown :
                          d.stream = stream /\ d.kind = line.kind /\ d.text = line.text
                          => d.line = Min(alike) /\ d.count = Cardinality(alike)
    <3> DEFINE lines == execution[stream]
               line == lines[i]
               alike == {j \in DOMAIN lines : lines[j].kind = line.kind /\ lines[j].text = line.text}
    <3>1. /\ lines \in Seq(AnyLine) /\ Len(lines) \in Nat /\ DOMAIN lines = 1..Len(lines)
          /\ line \in AnyLine
      BY <2>1, <2>11
    <3>2. line.kind \in Kinds
      BY <2>11, <3>1, LinesAre
    <3>3. \A d : d.kind = line.kind /\ d.text = line.text => Alike(lines, d, Len(lines)) = alike
      BY <3>1 DEF Alike
    <3> HIDE DEF lines
    <3>4. PICK m \in 1..Len(worst) : worst[m].stream = stream /\ i \in Alike(lines, worst[m], Len(lines))
      BY <2>5, <2>11, <3>1 DEF Told, lines
    <3>5. worst[m].kind = line.kind /\ worst[m].text = line.text
      BY <3>4 DEF Alike
    <3>6. ASSUME ~ \E d \in shown : d.stream = stream /\ d.kind = line.kind /\ d.text = line.text
          PROVE  /\ Len(ds) >= DiagnosticLimit
                 /\ \A k \in 1..DiagnosticLimit :
                       DiagnosticPriority(ds[k].kind) <= DiagnosticPriority(line.kind)
      <4>1. ~(m <= first)
        <5>1. SUFFICES ASSUME m \in 1..first PROVE FALSE
          BY <2>7
        <5>2. ds[m] = worst[m] /\ m \in 1..Len(ds)
          BY <2>7, <5>1
        <5>3. QED
          BY <2>9, <3>4, <3>5, <3>6, <5>2
      <4>2. first = DiagnosticLimit
        BY <2>6, <2>7, <2>8, <4>1
      <4>3. ASSUME NEW k \in 1..DiagnosticLimit
            PROVE  DiagnosticPriority(ds[k].kind) <= DiagnosticPriority(line.kind)
        <5>1. ds[k] = worst[k] /\ k \in 1..Len(worst) /\ k < m
          BY <2>6, <2>7, <2>8, <4>1, <4>2
        <5>2. Before(worst[k], worst[m])
          BY <2>5, <5>1 DEF Told
        <5>3. worst[k] \in Diagnostics /\ worst[m] \in Diagnostics
          BY <2>6, <5>1
        <5>4. DiagnosticPriority(worst[k].kind) \in Nat /\ DiagnosticPriority(worst[m].kind) \in Nat
          BY <5>3, PriorityType
        <5>5. DiagnosticPriority(worst[k].kind) <= DiagnosticPriority(worst[m].kind)
          BY <5>2, <5>4 DEF Before
        <5>6. QED
          BY <3>5, <5>1, <5>5
      <4>4. QED
        BY <2>7, <4>2, <4>3
    <3>7. ASSUME NEW d \in shown, d.stream = stream, d.kind = line.kind, d.text = line.text
          PROVE  d.line = Min(alike) /\ d.count = Cardinality(alike)
      <4>1. PICK k \in 1..Len(ds) : d = ds[k]
        BY <2>10
      <4>2. "cargo_test_failure" \notin Kinds
        BY DEF Kinds
      <4>3. k \in 1..first
        BY <2>7, <3>2, <3>7, <4>1, <4>2
      <4>4. d = worst[k] /\ k \in 1..Len(worst)
        BY <2>6, <2>7, <2>8, <4>1, <4>3
      <4>5. AlikeCounts(d, stream, lines, Len(lines))
        BY <2>5, <3>7, <4>4 DEF Told, lines
      <4>6. /\ d.line \in alike /\ \A j \in alike : d.line <= j
            /\ d.count = Cardinality(alike)
        BY <3>3, <3>7, <4>5 DEF AlikeCounts
      <4>7. alike \subseteq Nat
        BY <3>1
      <4>8. \A x \in alike : (\A j \in alike : x <= j) => x = d.line
        BY <4>6, <4>7
      <4>9. Min(alike) = d.line
        BY <4>6, <4>8 DEF Min
      <4>10. QED
        BY <4>6, <4>9
    <3>8. QED
      BY <3>6, <3>7 DEF lines
  <2>12. WorstDiagnosticsAreShown
    BY <2>11 DEF WorstDiagnosticsAreShown, OutputStreams, shown, ds
  <2>13. QED
    BY <2>3, <2>12 DEF OutputIsAccountedFor
<1>3. QED
  BY <1>1, <1>2

\* What is not shown of a long output is counted, and no diagnostic gives way to a milder
\* one (terminal.ts compactStream, extractDiagnostics).
THEOREM OutputAccounted == TerminalSpec => []OutputIsAccountedFor
<1>1. TerminalInit => TerminalInv
  BY TerminalStarts
<1>2. TerminalInv /\ [TerminalNext]_terminalVars => TerminalInv'
  BY TerminalSteps
<1>3. TerminalInv => OutputIsAccountedFor
  BY TerminalTells
<1>4. QED
  BY <1>1, <1>2, <1>3, PTL DEF TerminalSpec

-----------------------------------------------------------------------------
(* EditTool *)

OverMatches == INSTANCE FoldLemmas WITH Op <- Replaced

\* A piece of a text.
LEMMA PieceIs ==
    ASSUME NEW S, NEW s \in Seq(S), NEW a \in 0..Len(s), NEW b \in a..Len(s)
    PROVE  /\ SubSeq(s, a + 1, b) \in Seq(S) /\ Len(SubSeq(s, a + 1, b)) = b - a
           /\ \A i \in 1..(b - a) : SubSeq(s, a + 1, b)[i] = s[a + i]
<1>1. Len(s) \in Nat /\ a \in Nat /\ b \in Nat /\ a <= b /\ b <= Len(s)
  OBVIOUS
<1>2. \A i \in (a + 1)..b : s[i] \in S
  BY <1>1
<1>3. SubSeq(s, a + 1, b) \in Seq(S) /\ Len(SubSeq(s, a + 1, b)) = b - a
  BY <1>1, <1>2
<1>4. \A i \in 1..(b - a) : SubSeq(s, a + 1, b)[i] = s[a + i]
  <2> TAKE i \in 1..(b - a)
  <2>1. SubSeq(s, a + 1, b)[i] = s[(a + 1) + i - 1] /\ (a + 1) + i - 1 = a + i
    BY <1>1
  <2>2. QED
    BY <2>1
<1>5. QED
  BY <1>3, <1>4

\* Two pieces of a text that meet.
LEMMA PiecesMeet ==
    ASSUME NEW S, NEW s \in Seq(S), NEW a \in 0..Len(s), NEW b \in a..Len(s), NEW c \in b..Len(s)
    PROVE  SubSeq(s, a + 1, b) \o SubSeq(s, b + 1, c) = SubSeq(s, a + 1, c)
<1> DEFINE x == SubSeq(s, a + 1, b)
           y == SubSeq(s, b + 1, c)
           z == SubSeq(s, a + 1, c)
<1>1. /\ Len(s) \in Nat /\ a \in Nat /\ b \in Nat /\ c \in Nat /\ a <= b /\ b <= c
      /\ b \in 0..Len(s) /\ c \in a..Len(s)
  OBVIOUS
<1>2. x \in Seq(S) /\ Len(x) = b - a /\ \A i \in 1..(b - a) : x[i] = s[a + i]
  BY PieceIs
<1>3. y \in Seq(S) /\ Len(y) = c - b /\ \A i \in 1..(c - b) : y[i] = s[b + i]
  BY <1>1, PieceIs
<1>4. z \in Seq(S) /\ Len(z) = c - a /\ \A i \in 1..(c - a) : z[i] = s[a + i]
  BY <1>1, PieceIs
<1> HIDE DEF x, y, z
<1> DEFINE w == x \o y
<1>5. /\ w \in Seq(S) /\ Len(w) = Len(x) + Len(y)
      /\ \A p \in 1..Len(x) : w[p] = x[p]
      /\ \A j \in 1..Len(y) : w[Len(x) + j] = y[j]
  <2>1. x \in Seq(S) /\ y \in Seq(S)
    BY <1>2, <1>3
  <2>2. QED
    BY <2>1, ConcatPlaces
<1> HIDE DEF w
<1>6. \A i \in 1..Len(w) : w[i] = z[i]
  <2> TAKE i \in 1..Len(w)
  <2>0. Len(w) = c - a /\ i \in 1..(c - a)
    BY <1>1, <1>2, <1>3, <1>5
  <2>1. CASE i <= b - a
    <3>1. i \in 1..(b - a) /\ i \in 1..Len(x)
      BY <1>1, <1>2, <2>0, <2>1
    <3>2. QED
      BY <1>2, <1>4, <1>5, <2>0, <3>1
  <2>2. CASE i > b - a
    <3>1. PICK j \in 1..(c - b) : i = (b - a) + j
      <4>1. i - (b - a) \in 1..(c - b) /\ i = (b - a) + (i - (b - a))
        BY <1>1, <2>0, <2>2
      <4>2. QED
        BY <4>1
    <3>2. a + i = b + j /\ i = Len(x) + j /\ j \in 1..Len(y)
      BY <1>1, <1>2, <1>3, <3>1
    <3>3. w[i] = y[j] /\ y[j] = s[b + j] /\ z[i] = s[a + i]
      BY <1>3, <1>4, <1>5, <2>0, <3>1, <3>2
    <3>4. QED
      BY <3>2, <3>3
  <2>3. QED
    BY <1>1, <2>0, <2>1, <2>2
<1>7. w = z
  <2>1. Len(w) = Len(z)
    BY <1>1, <1>2, <1>3, <1>4, <1>5
  <2>2. QED
    BY <1>4, <1>5, <1>6, <2>1, SameSequence
<1>8. QED
  BY <1>7 DEF w, x, y, z

\* The pieces of a text with another one behind it.
LEMMA PiecesOfBoth ==
    ASSUME NEW S, NEW s \in Seq(S), NEW t \in Seq(S), NEW a \in 0..Len(s)
    PROVE  /\ SubSeq(s \o t, 1, a) = SubSeq(s, 1, a)
           /\ SubSeq(s \o t, a + 1, Len(s \o t)) = SubSeq(s, a + 1, Len(s)) \o t
<1> DEFINE all == s \o t
           x == SubSeq(all, 1, a)
           y == SubSeq(all, a + 1, Len(all))
           u == SubSeq(s, 1, a)
           v == SubSeq(s, a + 1, Len(s))
<1>1. /\ all \in Seq(S) /\ Len(s) \in Nat /\ Len(t) \in Nat /\ Len(all) = Len(s) + Len(t)
      /\ \A p \in 1..Len(s) : all[p] = s[p]
      /\ \A j \in 1..Len(t) : all[Len(s) + j] = t[j]
  BY ConcatPlaces
<1>2. /\ a \in Nat /\ a <= Len(s) /\ a \in 0..Len(s) /\ Len(s) \in a..Len(s) /\ 0 \in 0..Len(s)
      /\ 0 \in 0..Len(all) /\ a \in 0..Len(all) /\ Len(all) \in a..Len(all)
  BY <1>1
<1>3. u \in Seq(S) /\ Len(u) = a /\ \A i \in 1..a : u[i] = s[i]
  <2>1. SubSeq(s, 0 + 1, a) \in Seq(S) /\ Len(SubSeq(s, 0 + 1, a)) = a - 0
        /\ \A i \in 1..(a - 0) : SubSeq(s, 0 + 1, a)[i] = s[0 + i]
    BY <1>2, PieceIs
  <2>2. QED
    BY <1>2, <2>1
<1>4. v \in Seq(S) /\ Len(v) = Len(s) - a /\ \A i \in 1..(Len(s) - a) : v[i] = s[a + i]
  BY <1>2, PieceIs
<1> HIDE DEF all, u, v
<1>5. x \in Seq(S) /\ Len(x) = a /\ \A i \in 1..a : x[i] = all[i]
  <2>1. SubSeq(all, 0 + 1, a) \in Seq(S) /\ Len(SubSeq(all, 0 + 1, a)) = a - 0
        /\ \A i \in 1..(a - 0) : SubSeq(all, 0 + 1, a)[i] = all[0 + i]
    BY <1>1, <1>2, PieceIs
  <2>2. QED
    BY <1>2, <2>1
<1>6. y \in Seq(S) /\ Len(y) = Len(all) - a /\ \A i \in 1..(Len(all) - a) : y[i] = all[a + i]
  BY <1>1, <1>2, PieceIs
<1> HIDE DEF x, y
<1>7. x = u
  <2>1. ASSUME NEW i \in 1..Len(x) PROVE x[i] = u[i]
    <3>1. i \in 1..a /\ i \in 1..Len(s)
      BY <1>1, <1>2, <1>5
    <3>2. x[i] = all[i] /\ all[i] = s[i] /\ u[i] = s[i]
      BY <1>1, <1>3, <1>5, <3>1
    <3>3. QED
      BY <3>2
  <2>2. QED
    BY <1>3, <1>5, <2>1, SameSequence
<1> DEFINE w == v \o t
<1>8. /\ w \in Seq(S) /\ Len(w) = Len(v) + Len(t)
      /\ \A p \in 1..Len(v) : w[p] = v[p]
      /\ \A j \in 1..Len(t) : w[Len(v) + j] = t[j]
  <2>1. v \in Seq(S)
    BY <1>4
  <2>2. QED
    BY <2>1, ConcatPlaces
<1> HIDE DEF w
<1>9. ASSUME NEW i \in 1..Len(y) PROVE y[i] = w[i]
  <2>0. i \in 1..((Len(s) - a) + Len(t)) /\ y[i] = all[a + i]
    BY <1>1, <1>2, <1>6
  <2>1. CASE i <= Len(s) - a
    <3>1. i \in 1..(Len(s) - a) /\ i \in 1..Len(v) /\ a + i \in 1..Len(s)
      BY <1>1, <1>2, <1>4, <2>0, <2>1
    <3>2. all[a + i] = s[a + i] /\ w[i] = v[i] /\ v[i] = s[a + i]
      BY <1>1, <1>4, <1>8, <3>1
    <3>3. QED
      BY <2>0, <3>2
  <2>2. CASE i > Len(s) - a
    <3>1. PICK j \in 1..Len(t) : i = (Len(s) - a) + j
      <4>1. i - (Len(s) - a) \in 1..Len(t) /\ i = (Len(s) - a) + (i - (Len(s) - a))
        BY <1>1, <1>2, <2>0, <2>2
      <4>2. QED
        BY <4>1
    <3>2. a + i = Len(s) + j /\ i = Len(v) + j
      BY <1>1, <1>2, <1>4, <3>1
    <3>3. all[Len(s) + j] = t[j] /\ w[Len(v) + j] = t[j]
      BY <1>1, <1>8
    <3>4. QED
      BY <2>0, <3>2, <3>3
  <2>3. QED
    BY <1>1, <1>2, <2>0, <2>1, <2>2
<1>10. y = w
  <2>1. Len(y) = Len(w)
    BY <1>1, <1>2, <1>4, <1>6, <1>8
  <2>2. QED
    BY <1>6, <1>8, <1>9, <2>1, SameSequence
<1>11. QED
  BY <1>7, <1>10 DEF w, x, y, u, v, all

\* A piece of the start of a text.
LEMMA SubSeqOfStart ==
    ASSUME NEW S, NEW s \in Seq(S), NEW c \in 0..Len(s), NEW u \in Seq(S), Len(u) = c,
           \A p \in 1..c : u[p] = s[p], NEW a \in 0..c, NEW b \in a..c
    PROVE  SubSeq(u, a + 1, b) = SubSeq(s, a + 1, b)
<1> DEFINE x == SubSeq(u, a + 1, b)
           y == SubSeq(s, a + 1, b)
<1>1. Len(s) \in Nat /\ a \in 0..Len(u) /\ b \in a..Len(u) /\ a \in 0..Len(s) /\ b \in a..Len(s)
  OBVIOUS
<1>2. x \in Seq(S) /\ Len(x) = b - a /\ \A i \in 1..(b - a) : x[i] = u[a + i]
  BY <1>1, PieceIs
<1>3. y \in Seq(S) /\ Len(y) = b - a /\ \A i \in 1..(b - a) : y[i] = s[a + i]
  BY <1>1, PieceIs
<1> HIDE DEF x, y
<1>4. ASSUME NEW i \in 1..Len(x) PROVE x[i] = y[i]
  <2>1. i \in 1..(b - a) /\ a + i \in 1..c
    BY <1>2
  <2>2. QED
    BY <1>2, <1>3, <2>1
<1>5. x = y
  BY <1>2, <1>3, <1>4, SameSequence
<1>6. QED
  BY <1>5 DEF x, y

\* The start of a text, and the two parts of a start.
LEMMA StartIs ==
    ASSUME NEW S, NEW s \in Seq(S), NEW c \in 0..Len(s)
    PROVE  /\ SubSeq(s, 1, c) \in Seq(S) /\ Len(SubSeq(s, 1, c)) = c
           /\ \A i \in 1..c : SubSeq(s, 1, c)[i] = s[i]
           /\ \A b \in 0..c : SubSeq(s, 1, b) \o SubSeq(s, b + 1, c) = SubSeq(s, 1, c)
<1>1. 0 \in 0..Len(s) /\ c \in 0..Len(s) /\ 0 + 1 = 1 /\ c - 0 = c /\ \A i \in 1..c : 0 + i = i
  OBVIOUS
<1>2. /\ SubSeq(s, 0 + 1, c) \in Seq(S) /\ Len(SubSeq(s, 0 + 1, c)) = c - 0
      /\ \A i \in 1..(c - 0) : SubSeq(s, 0 + 1, c)[i] = s[0 + i]
  BY <1>1, PieceIs
<1>3. ASSUME NEW b \in 0..c PROVE SubSeq(s, 0 + 1, b) \o SubSeq(s, b + 1, c) = SubSeq(s, 0 + 1, c)
  <2>1. 0 \in 0..Len(s) /\ b \in 0..Len(s) /\ c \in b..Len(s)
    BY <1>1
  <2>2. QED
    BY <2>1, PiecesMeet
<1>4. ASSUME NEW b \in 0..c PROVE SubSeq(s, 1, b) \o SubSeq(s, b + 1, c) = SubSeq(s, 1, c)
  BY <1>1, <1>3
<1>5. QED
  BY <1>1, <1>2, <1>4

\* Joining as an operator the provers do not look into.
Cat(s, t) == s \o t

LEMMA CatJoins ==
    /\ \A S : \A x, y, z \in Seq(S) : Cat(Cat(x, y), z) = Cat(x, Cat(y, z))
    /\ \A S : \A x, y \in Seq(S) : Cat(x, y) \in Seq(S)
BY ConcatAssociative, ConcatProperties DEF Cat

\* A function on the first numbers is a sequence.
LEMMA SequenceOf ==
    ASSUME NEW T, NEW k \in Nat, NEW w \in [1..k -> T]
    PROVE  w \in Seq(T) /\ Len(w) = k /\ DOMAIN w = 1..k
OBVIOUS

\* Where n pieces of a text start and end, from left to right; the text ends with the last gap.
Lies(base, n, starts, ends) ==
    /\ starts \in [1..(n + 1) -> 0..Len(base)] /\ ends \in [0..n -> 0..Len(base)]
    /\ ends[0] = 0 /\ starts[n + 1] = Len(base)
    /\ \A k \in 1..n : starts[k] <= ends[k]
    /\ \A k \in 0..n : ends[k] <= starts[k + 1]

GapsOf(base, n, starts, ends) == [k \in 1..(n + 1) |-> SubSeq(base, ends[k - 1] + 1, starts[k])]

\* f holds what is woven of the first k texts, without the first gap.
WovenBy(S, gaps, texts, n, f) ==
    /\ gaps \in [1..(n + 1) -> Seq(S)] /\ f \in [0..n -> Seq(S)] /\ f[0] = <<>>
    /\ \A k \in 1..n : f[k] = f[k - 1] \o (texts[k] \o gaps[k + 1])
    /\ Woven(gaps, texts) = gaps[1] \o f[n]

\* Weaving goes from left to right.
LEMMA WovenBuilds ==
    ASSUME NEW S, NEW base \in Seq(S), NEW n \in Nat, NEW starts, NEW ends, Lies(base, n, starts, ends),
           NEW gaps, gaps = GapsOf(base, n, starts, ends), NEW texts \in [1..n -> Seq(S)]
    PROVE  \E f : WovenBy(S, gaps, texts, n, f)
<1> DEFINE w == [k \in 1..n |-> texts[k] \o gaps[k + 1]]
<1>1. \A k \in 1..(n + 1) : gaps[k] \in Seq(S)
  <2> TAKE k \in 1..(n + 1)
  <2>1. k - 1 \in 0..n /\ (k - 1) + 1 = k
    OBVIOUS
  <2>2. ends[k - 1] \in 0..Len(base) /\ starts[k] \in 0..Len(base) /\ ends[k - 1] <= starts[k]
    BY <2>1 DEF Lies
  <2>3. starts[k] \in ends[k - 1]..Len(base)
    BY <2>2
  <2>4. SubSeq(base, ends[k - 1] + 1, starts[k]) \in Seq(S)
    BY <2>2, <2>3, PieceIs
  <2>5. QED
    BY <2>4 DEF GapsOf
<1>2. gaps \in [1..(n + 1) -> Seq(S)]
  BY <1>1 DEF GapsOf
<1>3. \A k \in 1..n : w[k] \in Seq(S) /\ w[k] = texts[k] \o gaps[k + 1]
  <2> TAKE k \in 1..n
  <2>1. texts[k] \in Seq(S) /\ gaps[k + 1] \in Seq(S)
    BY <1>2
  <2>2. QED
    BY <2>1
<1>4. w \in Seq(Seq(S)) /\ Len(w) = n
  <2>1. w \in [1..n -> Seq(S)]
    BY <1>3
  <2> HIDE DEF w
  <2>2. QED
    BY ONLY <2>1, n \in Nat, SequenceOf
<1>5. PICK f \in [0..Len(w) -> Seq(S)] :
             /\ f[0] = <<>>
             /\ \A i \in 1..Len(w) : f[i] = f[i - 1] \o w[i]
             /\ FlattenSeq(w) = f[Len(w)]
  BY <1>4, FlattenSeqBuilds
<1>6. Woven(gaps, texts) = gaps[1] \o FlattenSeq(w)
  <2>1. DOMAIN texts = 1..n
    OBVIOUS
  <2>2. QED
    BY <2>1 DEF Woven
<1> HIDE DEF w
<1>7. \A k \in 1..n : f[k] = f[k - 1] \o (texts[k] \o gaps[k + 1])
  BY <1>3, <1>4, <1>5
<1>8. f \in [0..n -> Seq(S)] /\ f[0] = <<>> /\ FlattenSeq(w) = f[n]
  BY <1>4, <1>5
<1>9. Woven(gaps, texts) = gaps[1] \o f[n]
  BY <1>6, <1>8
<1>10. WovenBy(S, gaps, texts, n, f)
  BY <1>2, <1>7, <1>8, <1>9 DEF WovenBy
<1>11. QED
  BY <1>10

\* The texts are the pieces of the base.
AreThePieces(base, n, starts, ends, texts) ==
    \A k \in 1..n : texts[k] = SubSeq(base, starts[k] + 1, ends[k])

\* A text is woven of its gaps and of what lies between them.
LEMMA WovenOfPieces ==
    ASSUME NEW S, NEW base \in Seq(S), NEW n \in Nat, NEW starts, NEW ends, Lies(base, n, starts, ends),
           NEW gaps, gaps = GapsOf(base, n, starts, ends), NEW texts \in [1..n -> Seq(S)],
           AreThePieces(base, n, starts, ends, texts)
    PROVE  Woven(gaps, texts) = base
<1>a. \A k \in 1..n : texts[k] = SubSeq(base, starts[k] + 1, ends[k])
  BY DEF AreThePieces
<1>0. PICK f : WovenBy(S, gaps, texts, n, f)
  BY WovenBuilds
<1>1. gaps \in [1..(n + 1) -> Seq(S)]
  BY <1>0 DEF WovenBy
<1>2. /\ f \in [0..n -> Seq(S)] /\ f[0] = <<>>
      /\ \A k \in 1..n : f[k] = f[k - 1] \o (texts[k] \o gaps[k + 1])
      /\ Woven(gaps, texts) = gaps[1] \o f[n]
  BY <1>0 DEF WovenBy
<1> DEFINE I == {k \in 0..n : gaps[1] \o f[k] = SubSeq(base, 1, starts[k + 1])}
<1>3. 0 \in I
  <2>1. gaps[1] = SubSeq(base, 1, starts[1]) /\ gaps[1] \in Seq(S)
    <3>1. 1 \in 1..(n + 1) /\ 1 - 1 = 0
      OBVIOUS
    <3>2. gaps[1] = SubSeq(base, ends[1 - 1] + 1, starts[1])
      BY <3>1 DEF GapsOf
    <3>3. ends[1 - 1] + 1 = 1
      BY <3>1 DEF Lies
    <3>4. gaps[1] \in Seq(S)
      BY <1>1, <3>1
    <3>5. QED
      BY <3>2, <3>3, <3>4
  <2>2. gaps[1] \o f[0] = gaps[1]
    BY <1>2, <2>1
  <2>3. QED
    BY <2>1, <2>2
<1>4. ASSUME NEW k \in 0..(n - 1), k \in I PROVE k + 1 \in I
  <2> DEFINE m == k + 1
             b == starts[m]
             c == ends[m]
             d == starts[m + 1]
  <2>1. m \in 1..n /\ m - 1 = k /\ m + 1 \in 1..(n + 1) /\ (m + 1) - 1 = m /\ m \in 0..n /\ m \in 1..(n + 1)
    OBVIOUS
  <2>2. b \in 0..Len(base) /\ c \in b..Len(base) /\ d \in c..Len(base)
    BY <2>1 DEF Lies
  <2>3. texts[m] = SubSeq(base, b + 1, c) /\ gaps[m + 1] = SubSeq(base, c + 1, d)
    BY <1>a, <2>1 DEF GapsOf
  <2>4. texts[m] \o gaps[m + 1] = SubSeq(base, b + 1, d)
    BY <2>2, <2>3, PiecesMeet
  <2>5. PICK g, x, t, u : g = gaps[1] /\ x = f[k] /\ t = texts[m] /\ u = gaps[m + 1]
    OBVIOUS
  <2>6. g \in Seq(S) /\ x \in Seq(S) /\ t \in Seq(S) /\ u \in Seq(S)
    <3>1. gaps[1] \in Seq(S) /\ gaps[m + 1] \in Seq(S)
      BY <1>1, <2>1
    <3>2. texts[m] \in Seq(S) /\ f[k] \in Seq(S)
      BY <1>2, <2>1
    <3>3. QED
      BY <2>5, <3>1, <3>2
  <2>7. f[m] = x \o (t \o u) /\ t \o u = SubSeq(base, b + 1, d)
    BY <1>2, <2>1, <2>4, <2>5
  <2>8. g \o x = SubSeq(base, 1, b)
    <3>1. gaps[1] \o f[k] = SubSeq(base, 1, starts[k + 1])
      BY <1>4
    <3>2. QED
      BY <2>5, <3>1
  <2> HIDE DEF m, b, c, d
  <2>9. gaps[1] \o f[m] = SubSeq(base, 1, d)
    <3>1. Cat(Cat(g, x), Cat(t, u)) = Cat(g, Cat(x, Cat(t, u)))
      BY ONLY <2>6, CatJoins
    <3>2. (g \o x) \o (t \o u) = g \o (x \o (t \o u))
      BY <3>1 DEF Cat
    <3>3. b \in 0..d /\ d \in 0..Len(base)
      BY <2>2
    <3>4. SubSeq(base, 1, b) \o SubSeq(base, b + 1, d) = SubSeq(base, 1, d)
      BY <3>3, StartIs
    <3>5. QED
      BY <2>5, <2>7, <2>8, <3>2, <3>4
  <2>10. QED
    BY <2>1, <2>9 DEF m, d
<1> HIDE DEF I
<1>5. n \in I
  <2>1. \A k \in 0..n : k \in I
    BY ONLY n \in Nat, <1>3, <1>4, Upwards
  <2>2. QED
    BY <2>1
<1>6. Woven(gaps, texts) = SubSeq(base, 1, Len(base))
  BY <1>2, <1>5 DEF I, Lies
<1>7. QED
  BY <1>6

\* The matches put the texts where the pieces are.
ArePlaced(n, starts, ends, texts, matched) ==
    /\ \E T : matched \in Seq(T) /\ Len(matched) = n
    /\ \A k \in 1..n : /\ matched[k].at = starts[k] /\ matched[k].at + matched[k].length = ends[k]
                       /\ matched[k].new = texts[k]

\* Replacing the pieces from the last to the first keeps the gaps.
LEMMA AppliedFromTheEnd ==
    ASSUME NEW S, NEW base \in Seq(S), NEW n \in Nat, NEW starts, NEW ends, Lies(base, n, starts, ends),
           NEW gaps, gaps = GapsOf(base, n, starts, ends), NEW texts \in [1..n -> Seq(S)],
           NEW matched, ArePlaced(n, starts, ends, texts, matched)
    PROVE  Apply(base, matched) = Woven(gaps, texts) /\ Woven(gaps, texts) \in Seq(S)
<1>a. PICK R : matched \in Seq(R) /\ Len(matched) = n
  BY DEF ArePlaced
<1>b. \A k \in 1..n : /\ matched[k].at = starts[k] /\ matched[k].at + matched[k].length = ends[k]
                     /\ matched[k].new = texts[k]
  BY DEF ArePlaced
<1>0. PICK f : WovenBy(S, gaps, texts, n, f)
  BY WovenBuilds
<1>1. gaps \in [1..(n + 1) -> Seq(S)]
  BY <1>0 DEF WovenBy
<1>2. /\ f \in [0..n -> Seq(S)] /\ f[0] = <<>>
      /\ \A k \in 1..n : f[k] = f[k - 1] \o (texts[k] \o gaps[k + 1])
      /\ Woven(gaps, texts) = gaps[1] \o f[n]
  BY <1>0 DEF WovenBy
<1> DEFINE s == Reverse(matched)
<1>3. DOMAIN s = 1..n /\ \A i \in 1..n : s[i] = matched[(n - i) + 1]
  BY <1>a DEF Reverse
<1>4. Apply(base, matched) = OverMatches!Fold(base, s)
  BY Zenon DEF Apply, OverMatches!Fold, OverMatches!FoldLeft, FoldLeft,
       OverMatches!MapThenFoldSet, MapThenFoldSet, OverMatches!Max, Max
<1> HIDE DEF s
<1>5. PICK h : OverMatches!Steps(h, base, s, n)
  BY <1>3, OverMatches!FoldGoes
<1>6. /\ h[0] = base /\ h[n] = Apply(base, matched)
      /\ \A i \in 1..n : h[i] = Replaced(h[i - 1], s[i])
  BY <1>4, <1>5 DEF OverMatches!Steps
<1> DEFINE Q == Seq(S)
           Done(i) == \E r \in Q : /\ h[i] = SubSeq(base, 1, starts[(n - i) + 1]) \o r
                                    /\ f[n] = f[n - i] \o r
           I == {i \in 0..n : Done(i)}
<1>7. 0 \in I
  <2>1. <<>> \in Q
    OBVIOUS
  <2>2. (n - 0) + 1 = n + 1 /\ n - 0 = n /\ n \in 0..n /\ 0 \in 0..n
    OBVIOUS
  <2>3. starts[n + 1] = Len(base) /\ f[n] \in Q
    BY <1>2, <2>2 DEF Lies
  <2>4. SubSeq(base, 1, Len(base)) = base /\ base \o <<>> = base
    OBVIOUS
  <2>5. f[n] \o <<>> = f[n]
    BY <2>3
  <2>6. h[0] = SubSeq(base, 1, starts[(n - 0) + 1]) \o <<>>
    BY <1>6, <2>2, <2>3, <2>4
  <2>7. f[n] = f[n - 0] \o <<>>
    BY <2>2, <2>5
  <2>8. Done(0)
    BY <2>1, <2>6, <2>7
  <2>9. QED
    BY <2>2, <2>8
<1>8. ASSUME NEW i \in 0..(n - 1), i \in I PROVE i + 1 \in I
  <2>1. PICK k \in 1..n : k = n - i
    <3>1. n - i \in 1..n
      OBVIOUS
    <3>2. QED
      BY <3>1
  <2>2. /\ i + 1 \in 1..n /\ (i + 1) - 1 = i /\ (n - (i + 1)) + 1 = k /\ (n - i) + 1 = k + 1
        /\ n - (i + 1) = k - 1 /\ k \in 1..(n + 1) /\ k + 1 \in 1..(n + 1) /\ (k + 1) - 1 = k
        /\ k \in 0..n /\ k - 1 \in 0..n
    BY <2>1
  <2> DEFINE a == starts[k]
             b == ends[k]
             c == starts[k + 1]
             u == SubSeq(base, 1, c)
  <2>3. a \in 0..Len(base) /\ b \in a..Len(base) /\ c \in b..Len(base) /\ Len(base) \in Nat
    BY <2>2 DEF Lies
  <2>4. PICK r \in Q : h[i] = u \o r /\ f[n] = f[k] \o r
    BY <1>8, <2>1, <2>2
  <2>5. h[i + 1] = Replaced(h[i], matched[k])
    BY <1>3, <1>6, <2>1, <2>2
  <2>6. /\ matched[k].at = a /\ matched[k].at + matched[k].length = b /\ matched[k].new = texts[k]
    BY <1>b
  <2>7. h[i + 1] = SubSeq(h[i], 1, a) \o texts[k] \o SubSeq(h[i], b + 1, Len(h[i]))
    BY <2>5, <2>6 DEF Replaced
  <2>8. texts[k] \in Q /\ gaps[k + 1] \in Q /\ gaps[k + 1] = SubSeq(base, b + 1, c)
    BY <1>1, <2>2 DEF GapsOf
  <2>9. f[k] = f[k - 1] \o (texts[k] \o gaps[k + 1]) /\ f[k - 1] \in Q
    BY <1>2, <2>2
  <2> HIDE DEF a, b, c
  <2>10. /\ u \in Seq(S) /\ Len(u) = c /\ a \in 0..Len(u) /\ b \in 0..Len(u) /\ b \in 0..c
         /\ \A p \in 1..c : u[p] = base[p]
    <3>1. 0 \in 0..Len(base) /\ c \in 0..Len(base)
      BY <2>3
    <3>2. /\ SubSeq(base, 0 + 1, c) \in Seq(S) /\ Len(SubSeq(base, 0 + 1, c)) = c - 0
          /\ \A p \in 1..(c - 0) : SubSeq(base, 0 + 1, c)[p] = base[0 + p]
      BY <3>1, PieceIs
    <3>3. QED
      BY <2>3, <3>2
  <2>11. SubSeq(u, 1, a) = SubSeq(base, 1, a) /\ SubSeq(u, b + 1, c) = SubSeq(base, b + 1, c)
    BY <2>3, <2>10, SubSeqOfStart
  <2> HIDE DEF u, Q
  <2>12. SubSeq(h[i], 1, a) = SubSeq(base, 1, a)
    <3>1. r \in Seq(S)
      BY DEF Q
    <3>2. SubSeq(u \o r, 1, a) = SubSeq(u, 1, a)
      BY <2>10, <3>1, PiecesOfBoth
    <3>3. QED
      BY <2>4, <2>11, <3>2
  <2>13. SubSeq(h[i], b + 1, Len(h[i])) = gaps[k + 1] \o r
    <3>1. r \in Seq(S)
      BY DEF Q
    <3>2. SubSeq(u \o r, b + 1, Len(u \o r)) = SubSeq(u, b + 1, Len(u)) \o r
      BY <2>10, <3>1, PiecesOfBoth
    <3>3. QED
      BY <2>4, <2>8, <2>10, <2>11, <3>2
  <2>14. PICK x, y, g, z : x = texts[k] /\ y = gaps[k + 1] /\ g = f[k - 1] /\ z = SubSeq(base, 1, a)
    OBVIOUS
  <2>15. x \in Seq(S) /\ y \in Seq(S) /\ g \in Seq(S) /\ z \in Seq(S) /\ r \in Seq(S)
    <3>1. SubSeq(base, 1, a) \in Seq(S)
      BY <2>3, StartIs
    <3>2. QED
      BY <2>8, <2>9, <2>14, <3>1 DEF Q
  <2>16. PICK q : q = x \o (y \o r)
    OBVIOUS
  <2>17. q \in Q /\ h[i + 1] = SubSeq(base, 1, a) \o q /\ f[n] = f[k - 1] \o q
    <3>1. /\ Cat(x, Cat(y, r)) \in Seq(S)
          /\ Cat(Cat(z, x), Cat(y, r)) = Cat(z, Cat(x, Cat(y, r)))
          /\ Cat(Cat(g, Cat(x, y)), r) = Cat(g, Cat(x, Cat(y, r)))
      BY ONLY <2>15, CatJoins
    <3>2. h[i + 1] = (z \o x) \o (y \o r) /\ f[n] = (g \o (x \o y)) \o r
      BY <2>4, <2>7, <2>9, <2>12, <2>13, <2>14
    <3>3. h[i + 1] = Cat(Cat(z, x), Cat(y, r)) /\ f[n] = Cat(Cat(g, Cat(x, y)), r) /\ q = Cat(x, Cat(y, r))
      BY <2>16, <3>2 DEF Cat
    <3>4. q \in Seq(S) /\ h[i + 1] = Cat(z, q) /\ f[n] = Cat(g, q)
      BY <3>1, <3>3
    <3>5. QED
      BY <2>14, <3>4 DEF Q, Cat
  <2>18. Done(i + 1)
    BY <2>2, <2>17 DEF a
  <2>19. QED
    <3>1. i + 1 \in 0..n
      BY <2>2
    <3>2. QED
      BY <2>18, <3>1
<1> HIDE DEF I
<1>9. n \in I
  <2>1. \A k \in 0..n : k \in I
    BY ONLY n \in Nat, <1>7, <1>8, Upwards
  <2>2. QED
    BY <2>1
<1>10. n - n = 0 /\ 0 + 1 = 1 /\ 1 \in 1..(n + 1) /\ 1 - 1 = 0 /\ 0 \in 0..n /\ n \in 0..n
  OBVIOUS
<1>11. PICK r \in Q : h[n] = SubSeq(base, 1, starts[1]) \o r /\ f[n] = f[0] \o r
  BY <1>9, <1>10 DEF I
<1>12. f[n] = r
  BY <1>2, <1>11
<1>13. gaps[1] = SubSeq(base, 1, starts[1])
  <2>1. gaps[1] = SubSeq(base, ends[1 - 1] + 1, starts[1])
    BY <1>10 DEF GapsOf
  <2>2. ends[1 - 1] + 1 = 1
    BY <1>10 DEF Lies
  <2>3. QED
    BY <2>1, <2>2
<1>14. gaps[1] \in Seq(S) /\ f[n] \in Seq(S)
  BY <1>1, <1>2, <1>10
<1>15. Apply(base, matched) = gaps[1] \o f[n]
  BY <1>6, <1>11, <1>12, <1>13
<1>16. gaps[1] \o f[n] \in Seq(S)
  BY <1>14, ConcatPlaces
<1>17. QED
  BY <1>2, <1>15, <1>16

-----------------------------------------------------------------------------
(* Texts of the edit tool *)

\* The least and the greatest of some numbers.
LEMMA LeastOfSome ==
    ASSUME NEW z, z \subseteq Nat, z # {}
    PROVE  Min(z) \in z /\ \A y \in z : Min(z) <= y
<1>1. \E x \in z : \A y \in z : x <= y
  BY LeastElement
<1>2. QED
  BY <1>1 DEF Min

LEMMA GreatestOfSome ==
    ASSUME NEW k \in Nat, NEW z, z \subseteq 0..k, z # {}
    PROVE  Max(z) \in z /\ \A y \in z : y <= Max(z)
<1> DEFINE I == {k - y : y \in z}
<1>1. \A y \in z : y \in Nat /\ k - y \in Nat /\ k - y \in I
  OBVIOUS
<1>2. I \subseteq Nat /\ I # {}
  BY <1>1
<1>3. PICK x \in I : \A y \in I : x <= y
  BY <1>2, LeastElement
<1>4. PICK m \in z : x = k - m
  BY <1>3
<1>5. \A y \in z : y <= m
  <2> TAKE y \in z
  <2>1. x <= k - y
    BY <1>1, <1>3
  <2>2. QED
    BY <1>1, <1>4, <2>1
<1>6. \E m1 \in z : \A y \in z : m1 >= y
  BY <1>1, <1>4, <1>5
<1>7. PICK g : g = Max(z)
  OBVIOUS
<1>8. g \in z /\ \A y \in z : g >= y
  BY <1>6, <1>7 DEF Max
<1>9. \A y \in z : y <= g
  BY <1>1, <1>8
<1>10. QED
  BY <1>7, <1>8, <1>9

\* Characters of a text whose line ends are normalized.
Flat == Characters \ {"crlf", "cr"}

LEMMA NormalizedIsFlat ==
    ASSUME NEW text \in Seq(Characters)
    PROVE  NormalizeToLf(text) \in Seq(Flat)
<1>1. "lf" \in Flat
  BY TextsAssumption DEF LineEnds, Flat
<1>2. \A i \in 1..Len(text) : (IF text[i] \in LineEnds THEN "lf" ELSE text[i]) \in Flat
  <2> TAKE i \in 1..Len(text)
  <2>1. text[i] \in Characters
    OBVIOUS
  <2>2. text[i] \notin LineEnds => text[i] \in Flat
    BY <2>1 DEF LineEnds, Flat
  <2>3. QED
    BY <1>1, <2>2
<1>3. DOMAIN text = 1..Len(text) /\ Len(text) \in Nat
  OBVIOUS
<1>4. NormalizeToLf(text) \in [1..Len(text) -> Flat]
  BY <1>2, <1>3 DEF NormalizeToLf
<1>5. QED
  BY <1>3, <1>4

\* The lines of a text are pieces of it.
LEMMA LinesOfText ==
    ASSUME NEW S, NEW text \in Seq(S)
    PROVE  SplitLines(text) \in Seq(Seq(S))
<1> DEFINE n == Len(text)
           ends == {i \in DOMAIN text : text[i] = "lf"}
           starts == {0} \cup (ends \ {n})
           before == {p \in starts \X starts : p[1] < p[2]}
           order == Sorted(starts, before)
           EndOf(s) == Min({i - 1 : i \in {e \in ends : e > s}} \cup {n})
<1>1. n \in Nat /\ DOMAIN text = 1..n /\ ends \subseteq 1..n /\ starts \subseteq 0..n
  OBVIOUS
<1> HIDE DEF starts
<1>2. IsFiniteSet(starts)
  <2>1. IsFiniteSet(0..n)
    BY <1>1, FS_Interval
  <2>2. QED
    BY <1>1, <2>1, FS_Subset
<1>3. Orders(before, starts)
  <2>1. \A x, y \in starts : <<x, y>> \in before <=> x < y
    OBVIOUS
  <2>2. \A x \in starts : x \in Nat
    BY <1>1
  <2> HIDE DEF before
  <2>3. QED
    BY <2>1, <2>2 DEF Orders
<1>4. Cardinality(starts) \in Nat /\ order \in [1..Cardinality(starts) -> starts]
  BY <1>2, <1>3, SortedInOrder
<1>5. \A s \in starts : SubSeq(text, s + 1, EndOf(s)) \in Seq(S)
  <2> TAKE s \in starts
  <2> DEFINE z == {i - 1 : i \in {e \in ends : e > s}} \cup {n}
  <2>1. s \in 0..n
    BY <1>1
  <2>2. \A e \in ends : e > s => e - 1 \in s..n
    BY <1>1, <2>1
  <2>3. n \in s..n /\ s..n \subseteq Nat
    BY <1>1, <2>1
  <2>4. z \subseteq s..n /\ z \subseteq Nat /\ z # {}
    BY <2>2, <2>3
  <2> HIDE DEF z
  <2>5. Min(z) \in s..n
    BY <2>4, LeastOfSome
  <2>6. SubSeq(text, s + 1, Min(z)) \in Seq(S)
    BY <2>1, <2>5, PieceIs
  <2>7. QED
    BY <2>6 DEF z
<1>6. SplitLines(text) = IF text = <<>> THEN <<>>
                         ELSE [k \in DOMAIN order |-> SubSeq(text, order[k] + 1, EndOf(order[k]))]
  BY DEF SplitLines, starts
<1> HIDE DEF order, EndOf
<1>7. [k \in DOMAIN order |-> SubSeq(text, order[k] + 1, EndOf(order[k]))]
          \in [1..Cardinality(starts) -> Seq(S)]
  BY <1>4, <1>5
<1>8. [k \in DOMAIN order |-> SubSeq(text, order[k] + 1, EndOf(order[k]))] \in Seq(Seq(S))
  BY ONLY <1>4, <1>7, SequenceOf
<1>9. <<>> \in Seq(Seq(S))
  OBVIOUS
<1>10. QED
  BY <1>6, <1>8, <1>9

\* What normalizing takes away leaves the characters of a text.
LEMMA TrimmedIsFlat ==
    ASSUME NEW line \in Seq(Flat)
    PROVE  TrimEnd(line) \in Seq(Flat)
<1> DEFINE z == {0} \cup {i \in DOMAIN line : line[i] # Blank}
<1>1. Len(line) \in Nat /\ z \subseteq 0..Len(line) /\ z # {}
  OBVIOUS
<1>2. Max(z) \in 0..Len(line)
  BY <1>1, GreatestOfSome
<1>3. SubSeq(line, 1, Max(z)) \in Seq(Flat)
  BY <1>2, StartIs
<1>4. QED
  BY <1>3 DEF TrimEnd

LEMMA JoinedIsFlat ==
    ASSUME NEW lines \in Seq(Seq(Flat))
    PROVE  Join(lines) \in Seq(Flat)
<1> DEFINE w == [k \in DOMAIN lines |-> IF k = 1 THEN lines[k] ELSE <<"lf">> \o lines[k]]
<1>1. "lf" \in Flat
  BY TextsAssumption DEF LineEnds, Flat
<1>2. <<"lf">> \in Seq(Flat)
  BY <1>1
<1>3. DOMAIN lines = 1..Len(lines) /\ Len(lines) \in Nat
  OBVIOUS
<1>4. \A k \in 1..Len(lines) : lines[k] \in Seq(Flat)
  OBVIOUS
<1>5. \A k \in 1..Len(lines) : <<"lf">> \o lines[k] \in Seq(Flat)
  BY <1>2, <1>4, ConcatPlaces
<1>6. w \in [1..Len(lines) -> Seq(Flat)]
  BY <1>3, <1>4, <1>5
<1>7. w \in Seq(Seq(Flat))
  BY <1>3, <1>6
<1>8. QED
  BY <1>7, FlattenSeqPlaces DEF Join

LEMMA FuzzyIsFlat ==
    ASSUME NEW text \in Seq(Flat)
    PROVE  NormalizeForFuzzy(text) \in Seq(Flat)
<1> DEFINE lines == SplitLines(text)
           trimmed == [k \in DOMAIN lines |-> TrimEnd(lines[k])]
<1>1. lines \in Seq(Seq(Flat))
  BY LinesOfText
<1> HIDE DEF lines
<1>2. DOMAIN lines = 1..Len(lines) /\ Len(lines) \in Nat /\ \A k \in 1..Len(lines) : lines[k] \in Seq(Flat)
  BY <1>1
<1>3. \A k \in 1..Len(lines) : TrimEnd(lines[k]) \in Seq(Flat)
  BY <1>2, TrimmedIsFlat
<1>4. trimmed \in [1..Len(lines) -> Seq(Flat)]
  BY <1>2, <1>3
<1>5. trimmed \in Seq(Seq(Flat))
  BY <1>2, <1>4
<1>6. Join(trimmed) \in Seq(Flat)
  BY <1>5, JoinedIsFlat
<1>7. QED
  BY <1>6 DEF NormalizeForFuzzy, lines

\* The line ends a file gets back are the ones that normalizing takes away.
LEMMA RestoredLineEnds ==
    ASSUME NEW new \in Seq(Flat), NEW bom \in Seq(Flat), NEW ending
    PROVE  NormalizeToLf(bom \o RestoreLineEndings(new, ending)) = bom \o new
<1> DEFINE back == RestoreLineEndings(new, ending)
           all == bom \o back
           n == NormalizeToLf(all)
           w == bom \o new
<1>1. \A c \in Flat : /\ c \in Characters /\ c # "crlf" /\ c # "cr"
                      /\ (IF c \in LineEnds THEN "lf" ELSE c) = c
                      /\ (IF (IF c = "lf" THEN "crlf" ELSE c) \in LineEnds THEN "lf"
                          ELSE (IF c = "lf" THEN "crlf" ELSE c)) = c
  BY DEF Flat, LineEnds
<1>2. "crlf" \in Characters /\ Flat \subseteq Characters
  BY TextsAssumption DEF LineEnds, Flat
<1>3. Len(new) \in Nat /\ DOMAIN new = 1..Len(new) /\ \A i \in 1..Len(new) : new[i] \in Flat
  OBVIOUS
<1>4. /\ back \in Seq(Characters) /\ Len(back) = Len(new)
      /\ \A i \in 1..Len(new) : (IF back[i] \in LineEnds THEN "lf" ELSE back[i]) = new[i]
  <2>1. CASE ending = "crlf"
    <3>1. back = [i \in 1..Len(new) |-> IF new[i] = "lf" THEN "crlf" ELSE new[i]]
      BY <1>3, <2>1 DEF RestoreLineEndings
    <3>2. \A i \in 1..Len(new) : back[i] = IF new[i] = "lf" THEN "crlf" ELSE new[i]
      BY <3>1
    <3>3. \A i \in 1..Len(new) : back[i] \in Characters
      BY <1>1, <1>2, <1>3, <3>2
    <3>4. back \in [1..Len(new) -> Characters]
      BY <3>1, <3>3
    <3>5. back \in Seq(Characters) /\ Len(back) = Len(new)
      BY <1>3, <3>4
    <3> HIDE DEF back
    <3>6. QED
      BY <1>1, <1>3, <3>2, <3>5
  <2>2. CASE ending # "crlf"
    <3>1. back = new
      BY <2>2 DEF RestoreLineEndings
    <3>2. new \in Seq(Characters)
      BY <1>2
    <3> HIDE DEF back
    <3>3. QED
      BY <1>1, <1>3, <3>1, <3>2
  <2>3. QED
    BY <2>1, <2>2
<1> HIDE DEF back
<1>5. bom \in Seq(Characters)
  BY <1>2
<1>6. /\ all \in Seq(Characters) /\ Len(all) = Len(bom) + Len(back)
      /\ \A p \in 1..Len(bom) : all[p] = bom[p]
      /\ \A j \in 1..Len(back) : all[Len(bom) + j] = back[j]
  BY <1>4, <1>5, ConcatPlaces
<1>7. /\ w \in Seq(Flat) /\ Len(bom) \in Nat /\ Len(w) = Len(bom) + Len(new)
      /\ \A p \in 1..Len(bom) : w[p] = bom[p]
      /\ \A j \in 1..Len(new) : w[Len(bom) + j] = new[j]
  BY ConcatPlaces
<1> HIDE DEF all, w
<1>8. n \in Seq(Flat)
  BY <1>6, NormalizedIsFlat
<1>9. DOMAIN all = 1..Len(all) /\ Len(all) = Len(w) /\ Len(all) \in Nat
  BY <1>4, <1>6, <1>7
<1>10. n = [i \in 1..Len(w) |-> IF all[i] \in LineEnds THEN "lf" ELSE all[i]]
  BY <1>9 DEF NormalizeToLf
<1> HIDE DEF n
<1>11. Len(n) = Len(w) /\ \A i \in 1..Len(w) : n[i] = IF all[i] \in LineEnds THEN "lf" ELSE all[i]
  <2>1. DOMAIN n = 1..Len(w)
    BY <1>10
  <2>2. DOMAIN n = 1..Len(n) /\ Len(n) \in Nat /\ Len(w) \in Nat
    BY <1>7, <1>8
  <2>3. QED
    BY <1>10, <2>1, <2>2
<1>12. ASSUME NEW i \in 1..Len(w) PROVE n[i] = w[i]
  <2>1. CASE i <= Len(bom)
    <3>1. i \in 1..Len(bom)
      BY <1>7, <2>1
    <3>2. all[i] = bom[i] /\ w[i] = bom[i] /\ bom[i] \in Flat
      BY <1>6, <1>7, <3>1
    <3>3. QED
      BY <1>1, <1>11, <3>2
  <2>2. CASE i > Len(bom)
    <3>1. PICK j \in 1..Len(new) : i = Len(bom) + j
      <4>1. i - Len(bom) \in 1..Len(new) /\ i = Len(bom) + (i - Len(bom))
        BY <1>3, <1>7, <2>2
      <4>2. QED
        BY <4>1
    <3>2. all[i] = back[j] /\ w[i] = new[j]
      BY <1>4, <1>6, <1>7, <3>1
    <3>3. QED
      BY <1>4, <1>11, <3>2
  <2>3. QED
    BY <1>7, <2>1, <2>2
<1>13. n = w
  BY <1>7, <1>8, <1>11, <1>12, SameSequence
<1>14. QED
  BY <1>13 DEF n, w, all, back

\* How many lines two texts have in common from the start.
LEMMA CommonPrefixIs ==
    ASSUME NEW S, NEW x \in Seq(S), NEW y \in Seq(S), NEW p, p = CommonPrefix(x, y)
    PROVE  /\ p \in 0..Len(x) /\ p \in 0..Len(y)
           /\ \A k \in 1..p : x[k] = y[k]
           /\ p + 1 \in (1..Len(x)) \cap (1..Len(y)) => x[p + 1] # y[p + 1]
<1> DEFINE least == Min({Len(x), Len(y)})
           z == {n \in 0..least : SubSeq(x, 1, n) = SubSeq(y, 1, n)}
<1>1. Len(x) \in Nat /\ Len(y) \in Nat
  OBVIOUS
<1>2. least \in Nat /\ least <= Len(x) /\ least <= Len(y) /\ (least = Len(x) \/ least = Len(y))
  <2>1. PICK a, b : a = Len(x) /\ b = Len(y)
    OBVIOUS
  <2>2. a \in Int /\ b \in Int
    BY <1>1, <2>1
  <2>3. Min({a, b}) \in {a, b} /\ Min({a, b}) <= a /\ Min({a, b}) <= b
    BY ONLY <2>2, MinOfTwo
  <2>4. least = Min({a, b})
    BY <2>1
  <2> HIDE DEF least
  <2>5. QED
    BY <1>1, <2>1, <2>3, <2>4
<1> HIDE DEF least
<1>3. 0 \in z /\ z \subseteq 0..least
  <2>1. SubSeq(x, 1, 0) = <<>> /\ SubSeq(y, 1, 0) = <<>>
    OBVIOUS
  <2>2. QED
    BY <1>2, <2>1
<1>4. p \in z /\ \A n \in z : n <= p
  <2>1. Max(z) \in z /\ \A n \in z : n <= Max(z)
    BY <1>2, <1>3, GreatestOfSome
  <2>2. p = Max(z)
    BY DEF CommonPrefix, least
  <2>3. QED
    BY <2>1, <2>2
<1>5. p \in 0..Len(x) /\ p \in 0..Len(y) /\ SubSeq(x, 1, p) = SubSeq(y, 1, p)
  BY <1>1, <1>2, <1>4
<1>6. ASSUME NEW k \in 1..p PROVE x[k] = y[k]
  <2>1. SubSeq(x, 1, p)[k] = x[k] /\ SubSeq(y, 1, p)[k] = y[k]
    BY <1>5, StartIs
  <2>2. QED
    BY <1>5, <2>1
<1>7. ASSUME p + 1 \in (1..Len(x)) \cap (1..Len(y)), x[p + 1] = y[p + 1] PROVE FALSE
  <2>0. p + 1 \in 0..Len(x) /\ p + 1 \in 0..Len(y) /\ p \in Nat
    BY <1>5, <1>7
  <2>1. /\ SubSeq(x, 1, p + 1) \in Seq(S) /\ Len(SubSeq(x, 1, p + 1)) = p + 1
        /\ \A i \in 1..(p + 1) : SubSeq(x, 1, p + 1)[i] = x[i]
    BY <2>0, StartIs
  <2>2. /\ SubSeq(y, 1, p + 1) \in Seq(S) /\ Len(SubSeq(y, 1, p + 1)) = p + 1
        /\ \A i \in 1..(p + 1) : SubSeq(y, 1, p + 1)[i] = y[i]
    BY <2>0, StartIs
  <2>3. \A i \in 1..(p + 1) : x[i] = y[i]
    BY <1>6, <1>7, <2>0
  <2>4. PICK u, v : u = SubSeq(x, 1, p + 1) /\ v = SubSeq(y, 1, p + 1)
    OBVIOUS
  <2>5. u \in Seq(S) /\ v \in Seq(S) /\ Len(u) = Len(v) /\ \A i \in 1..Len(u) : u[i] = v[i]
    BY <2>1, <2>2, <2>3, <2>4
  <2>6. u = v
    BY <2>5, SameSequence
  <2>7. p + 1 \in z
    BY <1>1, <1>2, <1>7, <2>0, <2>4, <2>6
  <2>8. QED
    BY <1>4, <2>0, <2>7
<1>8. QED
  BY <1>5, <1>6, <1>7

\* The reported line is the first that differs.
LEMMA FirstLineDiffers ==
    ASSUME NEW S, NEW old \in Seq(S), NEW new \in Seq(S), NEW line, line = FirstChangedLine(old, new),
           NEW before, before = SplitLines(old), NEW after, after = SplitLines(new), line > 0
    PROVE  /\ \A k \in 1..(line - 1) : before[k] = after[k]
           /\ line \in DOMAIN before \cap DOMAIN after => before[line] # after[line]
<1>1. before \in Seq(Seq(S)) /\ after \in Seq(Seq(S))
  BY LinesOfText
<1>2. PICK p : p = CommonPrefix(before, after)
  OBVIOUS
<1>3. /\ p \in 0..Len(before) /\ p \in 0..Len(after) /\ \A k \in 1..p : before[k] = after[k]
      /\ p + 1 \in (1..Len(before)) \cap (1..Len(after)) => before[p + 1] # after[p + 1]
  <2>1. PICK T : T = Seq(S)
    OBVIOUS
  <2>2. before \in Seq(T) /\ after \in Seq(T)
    BY <1>1, <2>1
  <2>3. QED
    BY ONLY <1>2, <2>2, CommonPrefixIs
<1>4. line = IF p < Len(before) \/ p < Len(after) THEN p + 1 ELSE 0
  BY <1>2 DEF FirstChangedLine
<1>5. line = p + 1
  BY <1>4
<1>6. DOMAIN before = 1..Len(before) /\ DOMAIN after = 1..Len(after) /\ p \in Nat /\ (p + 1) - 1 = p
  BY <1>1, <1>3
<1>7. QED
  BY <1>3, <1>5, <1>6

\* Where an old text is found; the end of the text stands for nowhere.
FoundIn(text, needle, at) ==
    /\ at \in 0..Len(text)
    /\ at # Len(text) => /\ at + Len(needle) \in at..Len(text)
                         /\ SubSeq(text, at + 1, at + Len(needle)) = needle

LEMMA FoundAt ==
    ASSUME NEW S, NEW text \in Seq(S), NEW needle \in Seq(S)
    PROVE  FoundIn(text, needle, IndexOf(text, needle, 0))
<1> DEFINE at == IndexOf(text, needle, 0)
           some == {i \in 0..Len(text) : OccursAt(text, needle, i)}
           z == some \cup {Len(text)}
<1>1. Len(text) \in Nat /\ Len(needle) \in Nat
  OBVIOUS
<1>2. z \subseteq 0..Len(text) /\ z \subseteq Nat /\ z # {}
  BY <1>1
<1>3. at = Min(z)
  BY DEF IndexOf
<1> HIDE DEF at
<1>4. at \in z
  <2> HIDE DEF z
  <2>1. QED
    BY <1>2, <1>3, LeastOfSome
<1>5. at \in 0..Len(text)
  BY <1>2, <1>4
<1>6. ASSUME at # Len(text)
      PROVE  /\ at + Len(needle) <= Len(text)
             /\ SubSeq(text, at + 1, at + Len(needle)) = needle
  <2>1. OccursAt(text, needle, at)
    BY <1>4, <1>6
  <2>2. QED
    BY <2>1 DEF OccursAt
<1>7. FoundIn(text, needle, at)
  BY <1>1, <1>5, <1>6 DEF FoundIn
<1>8. QED
  BY <1>7 DEF at

\* The texts of an edit.
LEMMA EntryTexts ==
    ASSUME NEW S, NEW entries \in Seq([old : Seq(S), new : Seq(S)]), NEW k \in DOMAIN entries
    PROVE  entries[k].old \in Seq(S) /\ entries[k].new \in Seq(S)
<1>1. PICK T : T = [old : Seq(S), new : Seq(S)]
  OBVIOUS
<1>2. entries \in Seq(T)
  BY <1>1
<1>3. k \in 1..Len(entries)
  BY <1>2
<1>4. entries[k] \in T
  BY <1>2, <1>3, ElementOfSeq
<1>5. QED
  BY <1>1, <1>4

\* Positions that follow each other, of pieces that do not overlap, make the gaps.
LEMMA PiecesLie ==
    ASSUME NEW base, Len(base) \in Nat, NEW n \in Nat,
           NEW at \in [1..n -> 0..Len(base)], NEW upto \in [1..n -> 0..Len(base)],
           \A k \in 1..n : at[k] <= upto[k], \A k \in 1..(n - 1) : upto[k] <= at[k + 1],
           NEW starts, starts = [k \in 1..(n + 1) |-> IF k > n THEN Len(base) ELSE at[k]],
           NEW ends, ends = [k \in 0..n |-> IF k = 0 THEN 0 ELSE upto[k]]
    PROVE  Lies(base, n, starts, ends)
<1>1. /\ \A k \in 1..(n + 1) : starts[k] = IF k > n THEN Len(base) ELSE at[k]
      /\ \A k \in 0..n : ends[k] = IF k = 0 THEN 0 ELSE upto[k]
  OBVIOUS
<1>2. /\ \A k \in 1..(n + 1) : k <= n => k \in 1..n
      /\ \A k \in 0..n : k # 0 => k \in 1..n
  OBVIOUS
<1>3. \A k \in 1..n : at[k] \in 0..Len(base) /\ upto[k] \in 0..Len(base)
  OBVIOUS
<1>4. starts \in [1..(n + 1) -> 0..Len(base)]
  <2>1. \A k \in 1..(n + 1) : (IF k > n THEN Len(base) ELSE at[k]) \in 0..Len(base)
    BY <1>2, <1>3
  <2>2. QED
    BY <2>1
<1>5. ends \in [0..n -> 0..Len(base)]
  <2>1. \A k \in 0..n : (IF k = 0 THEN 0 ELSE upto[k]) \in 0..Len(base)
    BY <1>2, <1>3
  <2>2. QED
    BY <2>1
<1>6. ends[0] = 0 /\ starts[n + 1] = Len(base)
  BY <1>1
<1>7. \A k \in 1..n : starts[k] = at[k] /\ ends[k] = upto[k]
  BY <1>1
<1>8. ASSUME NEW k \in 0..n PROVE ends[k] <= starts[k + 1]
  <2>1. CASE k = 0
    <3>1. starts[k + 1] \in 0..Len(base)
      BY <1>4, <2>1
    <3>2. QED
      BY <1>6, <2>1, <3>1
  <2>2. CASE k = n
    <3>1. ends[k] \in 0..Len(base)
      BY <1>5, <2>2
    <3>2. QED
      BY <1>6, <2>2, <3>1
  <2>3. CASE k # 0 /\ k # n
    <3>1. k \in 1..n /\ k + 1 \in 1..n /\ k \in 1..(n - 1)
      BY <2>3
    <3>2. QED
      BY <1>7, <3>1
  <2>4. QED
    BY <2>1, <2>2, <2>3
<1>9. \A k \in 1..n : starts[k] <= ends[k]
  BY <1>7
<1>10. QED
  BY <1>4, <1>5, <1>6, <1>8, <1>9 DEF Lies

\* The edits in the order of their positions.
LEMMA EditsInOrder ==
    ASSUME NEW S, NEW base \in Seq(S), NEW entries \in Seq([old : Seq(S), new : Seq(S)]),
           NEW n, n = Cardinality(DOMAIN entries)
    PROVE  n \in Nat /\ ByPosition(base, entries) \in [1..n -> DOMAIN entries]
<1> DEFINE At(k) == IndexOf(base, entries[k].old, 0)
           D == DOMAIN entries
           before == {p \in D \X D : At(p[1]) < At(p[2]) \/ (At(p[1]) = At(p[2]) /\ p[1] < p[2])}
<1>1. ByPosition(base, entries) = Sorted(D, before)
  BY DEF ByPosition
<1>2. D = 1..Len(entries) /\ Len(entries) \in Nat
  OBVIOUS
<1>3. IsFiniteSet(D)
  BY <1>2, FS_Interval
<1>4. ASSUME NEW k \in D PROVE At(k) \in Nat /\ k \in Nat
  <2>1. entries[k].old \in Seq(S)
    BY EntryTexts
  <2>2. FoundIn(base, entries[k].old, IndexOf(base, entries[k].old, 0))
    BY ONLY <2>1, base \in Seq(S), FoundAt
  <2>3. At(k) \in 0..Len(base)
    BY <2>2 DEF FoundIn
  <2>4. QED
    BY <1>2, <2>3
<1>5. \A x, y \in D : <<x, y>> \in before <=> At(x) < At(y) \/ (At(x) = At(y) /\ x < y)
  OBVIOUS
<1> HIDE DEF At, D, before
<1>6. Orders(before, D)
  <2>1. \A x \in D : At(x) \in Nat /\ x \in Nat
    BY <1>4
  <2>2. \A x \in D : <<x, x>> \notin before
    BY ONLY <1>5, <2>1
  <2>3. \A x, y \in D : x = y \/ <<x, y>> \in before \/ <<y, x>> \in before
    <3> TAKE x, y \in D
    <3>1. PICK a, b : a = At(x) /\ b = At(y)
      OBVIOUS
    <3>2. x \in Nat /\ y \in Nat /\ a \in Nat /\ b \in Nat
      BY <2>1, <3>1
    <3>3. x = y \/ (a < b \/ (a = b /\ x < y)) \/ (b < a \/ (b = a /\ y < x))
      BY ONLY <3>2
    <3>4. (<<x, y>> \in before <=> a < b \/ (a = b /\ x < y)) /\ (<<y, x>> \in before <=> b < a \/ (b = a /\ y < x))
      BY <1>5, <3>1
    <3>5. QED
      BY ONLY <3>3, <3>4
  <2>4. \A x, y, z \in D : <<x, y>> \in before /\ <<y, z>> \in before => <<x, z>> \in before
    <3> TAKE x, y, z \in D
    <3>1. PICK a, b, c : a = At(x) /\ b = At(y) /\ c = At(z)
      OBVIOUS
    <3>2. x \in Nat /\ y \in Nat /\ z \in Nat /\ a \in Nat /\ b \in Nat /\ c \in Nat
      BY <2>1, <3>1
    <3>3. (a < b \/ (a = b /\ x < y)) /\ (b < c \/ (b = c /\ y < z)) => (a < c \/ (a = c /\ x < z))
      BY ONLY <3>2
    <3>4. /\ <<x, y>> \in before <=> a < b \/ (a = b /\ x < y)
          /\ <<y, z>> \in before <=> b < c \/ (b = c /\ y < z)
          /\ <<x, z>> \in before <=> a < c \/ (a = c /\ x < z)
      BY <1>5, <3>1
    <3>5. QED
      BY ONLY <3>3, <3>4
  <2>5. QED
    BY <2>2, <2>3, <2>4 DEF Orders
<1>7. QED
  BY <1>1, <1>3, <1>6, SortedInOrder DEF D

\* Where the edits start and end, by their positions.
LocatedAt(base, entries, n, order, at, upto) ==
    /\ n = Cardinality(DOMAIN entries) /\ n \in Nat
    /\ order = ByPosition(base, entries) /\ order \in [1..n -> DOMAIN entries]
    /\ at = [k \in 1..n |-> IndexOf(base, entries[order[k]].old, 0)]
    /\ upto = [k \in 1..n |-> IndexOf(base, entries[order[k]].old, 0) + Len(entries[order[k]].old)]
    /\ at \in [1..n -> 0..Len(base)] /\ upto \in [1..n -> 0..Len(base)]
    /\ \A k \in 1..n : at[k] <= upto[k]
    /\ \A k \in 1..(n - 1) : upto[k] <= at[k + 1]
    /\ \A k \in 1..n : entries[order[k]].old = SubSeq(base, at[k] + 1, upto[k])

\* A call that found its edits knows where each of them is, and none lies on another.
LEMMA LocatedLie ==
    ASSUME NEW S, NEW base \in Seq(S),
           NEW entries \in Seq([old : Seq(S), new : Seq(S)]), Locate(entries, base).error = "none"
    PROVE  \E n, order, at, upto : LocatedAt(base, entries, n, order, at, upto)
<1>a. PICK n, order : n = Cardinality(DOMAIN entries) /\ order = ByPosition(base, entries)
  OBVIOUS
<1>b. PICK at, upto :
          /\ at = [k \in 1..n |-> IndexOf(base, entries[order[k]].old, 0)]
          /\ upto = [k \in 1..n |-> IndexOf(base, entries[order[k]].old, 0) + Len(entries[order[k]].old)]
  OBVIOUS
<1> DEFINE At(k) == IndexOf(base, entries[k].old, 0)
           D == DOMAIN entries
           matched == Locate(entries, base).matched
           missing == {k \in D : At(k) = Len(base)}
           duplicate == {k \in D \ missing : CountOccurrences(base, entries[k].old) > 1}
           overlap == \E k \in 2..Len(matched) :
                          matched[k - 1].at + matched[k - 1].length > matched[k].at
<1>1. Len(base) \in Nat
  OBVIOUS
<1>2. n \in Nat /\ order \in [1..n -> D]
  BY <1>a, EditsInOrder
<1>3. Locate(entries, base).error =
          CASE missing \cup duplicate # {} ->
                   IF Min(missing \cup duplicate) \in missing THEN "missing" ELSE "duplicate"
            [] missing \cup duplicate = {} /\ overlap -> "overlap"
            [] OTHER -> "none"
  BY DEF Locate
<1>4. matched = [j \in 1..n |-> [at |-> At(order[j]), length |-> Len(entries[order[j]].old),
                                 new |-> entries[order[j]].new]]
  BY <1>a, <1>2 DEF Locate
<1>5. missing = {} /\ ~overlap
  <2>1. missing \cup duplicate = {} /\ ~overlap
    <3> HIDE DEF missing, duplicate, overlap
    <3>1. QED
      BY <1>3
  <2>2. QED
    BY <2>1
<1>6. ASSUME NEW k \in D
      PROVE  /\ At(k) \in 0..Len(base) /\ Len(entries[k].old) \in Nat
             /\ At(k) + Len(entries[k].old) \in At(k)..Len(base)
             /\ SubSeq(base, At(k) + 1, At(k) + Len(entries[k].old)) = entries[k].old
  <2>1. entries[k].old \in Seq(S)
    BY EntryTexts
  <2>2. FoundIn(base, entries[k].old, IndexOf(base, entries[k].old, 0))
    BY ONLY <2>1, base \in Seq(S), FoundAt
  <2>3. At(k) # Len(base)
    BY <1>5
  <2>4. Len(entries[k].old) \in Nat
    BY ONLY <2>1
  <2>5. QED
    BY <2>2, <2>3, <2>4 DEF FoundIn
<1>7. ASSUME NEW k \in 1..n
      PROVE  /\ at[k] = At(order[k]) /\ upto[k] = At(order[k]) + Len(entries[order[k]].old)
             /\ at[k] \in 0..Len(base) /\ upto[k] \in at[k]..Len(base)
             /\ SubSeq(base, at[k] + 1, upto[k]) = entries[order[k]].old
  <2>1. order[k] \in D
    BY <1>2
  <2>2. at[k] = At(order[k]) /\ upto[k] = At(order[k]) + Len(entries[order[k]].old)
    BY <1>b
  <2> HIDE DEF At
  <2>3. QED
    BY ONLY <1>6, <2>1, <2>2
<1>8. ASSUME NEW k \in 1..(n - 1) PROVE upto[k] <= at[k + 1]
  <2>1. k \in 1..n /\ k + 1 \in 1..n /\ k + 1 \in 2..n /\ (k + 1) - 1 = k
    BY <1>2
  <2>2. Len(matched) = n
    <3> HIDE DEF matched
    <3>1. QED
      BY <1>2, <1>4
  <2>3. /\ matched[k].at + matched[k].length = upto[k]
        /\ matched[k + 1].at = at[k + 1]
    <3> HIDE DEF matched
    <3>1. /\ matched[k].at = At(order[k]) /\ matched[k].length = Len(entries[order[k]].old)
          /\ matched[k + 1].at = At(order[k + 1])
      BY <1>4, <2>1
    <3>2. QED
      BY <1>7, <2>1, <3>1
  <2>4. ~ (matched[k].at + matched[k].length > matched[k + 1].at)
    <3>1. k + 1 \in 2..Len(matched)
      BY <2>1, <2>2
    <3> HIDE DEF matched
    <3>2. ~ (matched[(k + 1) - 1].at + matched[(k + 1) - 1].length > matched[k + 1].at)
      BY <1>5, <3>1
    <3>3. QED
      BY <2>1, <3>2
  <2>5. PICK a, b : a = upto[k] /\ b = at[k + 1]
    OBVIOUS
  <2>6. a \in Nat /\ b \in Nat
    <3>1. upto[k] \in at[k]..Len(base) /\ at[k] \in 0..Len(base) /\ at[k + 1] \in 0..Len(base)
      BY <1>7, <2>1
    <3>2. QED
      BY ONLY <1>1, <2>5, <3>1
  <2>7. ~(a > b)
    BY <2>3, <2>4, <2>5
  <2>8. QED
    BY ONLY <2>5, <2>6, <2>7
<1>9. at \in [1..n -> 0..Len(base)]
  <2>2. at = [k \in 1..n |-> at[k]]
    BY <1>b
  <2>3. \A k \in 1..n : at[k] \in 0..Len(base)
    BY <1>7
  <2>4. QED
    BY ONLY <2>2, <2>3
<1>10. upto \in [1..n -> 0..Len(base)]
  <2>1. \A k \in 1..n : upto[k] \in 0..Len(base)
    <3> TAKE k \in 1..n
    <3>1. at[k] \in 0..Len(base) /\ upto[k] \in at[k]..Len(base)
      BY <1>7
    <3>2. QED
      BY ONLY <1>1, <3>1
  <2>2. upto = [k \in 1..n |-> upto[k]]
    BY <1>b
  <2>3. QED
    BY <2>1, <2>2
<1>11. \A k \in 1..n : at[k] <= upto[k]
  <2> TAKE k \in 1..n
  <2>1. at[k] \in 0..Len(base) /\ upto[k] \in at[k]..Len(base)
    BY <1>7
  <2>2. QED
    BY ONLY <1>1, <2>1
<1>12. LocatedAt(base, entries, n, order, at, upto)
  BY <1>a, <1>b, <1>2, <1>7, <1>8, <1>9, <1>10, <1>11 DEF LocatedAt
<1>13. QED
  BY <1>12

\* The old texts and the new ones by position, and the gaps around them.
Olds(base, entries) ==
    LET order == ByPosition(base, entries) IN [k \in DOMAIN order |-> entries[order[k]].old]

News(base, entries) ==
    LET order == ByPosition(base, entries) IN [k \in DOMAIN order |-> entries[order[k]].new]

GapsAround(base, entries) ==
    LET olds == Olds(base, entries)
        UptoOf(k) == IF k = 0 THEN 0 ELSE IndexOf(base, olds[k], 0) + Len(olds[k])
        FromOf(k) == IF k > Len(olds) THEN Len(base) ELSE IndexOf(base, olds[k], 0)
    IN [k \in 1..Len(olds) + 1 |-> SubSeq(base, UptoOf(k - 1) + 1, FromOf(k))]

\* The text before is the gaps with the old texts, the text after the gaps with the new ones.
LEMMA EditsWoven ==
    ASSUME NEW S, NEW base \in Seq(S),
           NEW entries \in Seq([old : Seq(S), new : Seq(S)]), Locate(entries, base).error = "none"
    PROVE  /\ Woven(GapsAround(base, entries), Olds(base, entries)) = base
           /\ Apply(base, Locate(entries, base).matched)
                  = Woven(GapsAround(base, entries), News(base, entries))
           /\ Woven(GapsAround(base, entries), News(base, entries)) \in Seq(S)
<1>b. PICK order, olds, news :
          /\ order = ByPosition(base, entries)
          /\ olds = [k \in DOMAIN order |-> entries[order[k]].old]
          /\ news = [k \in DOMAIN order |-> entries[order[k]].new]
  OBVIOUS
<1>c. olds = Olds(base, entries) /\ news = News(base, entries)
  BY <1>b DEF Olds, News
<1> DEFINE UptoOf(k) == IF k = 0 THEN 0 ELSE IndexOf(base, olds[k], 0) + Len(olds[k])
           FromOf(k) == IF k > Len(olds) THEN Len(base) ELSE IndexOf(base, olds[k], 0)
<1>d. PICK gaps : gaps = [k \in 1..Len(olds) + 1 |-> SubSeq(base, UptoOf(k - 1) + 1, FromOf(k))]
  OBVIOUS
<1>e. gaps = GapsAround(base, entries)
  BY <1>c, <1>d DEF GapsAround
<1>0. PICK n, ord, at, upto : LocatedAt(base, entries, n, ord, at, upto)
  BY ONLY base \in Seq(S), entries \in Seq([old : Seq(S), new : Seq(S)]),
          Locate(entries, base).error = "none", LocatedLie
<1> DEFINE starts == [k \in 1..(n + 1) |-> IF k > n THEN Len(base) ELSE at[k]]
           ends == [k \in 0..n |-> IF k = 0 THEN 0 ELSE upto[k]]
           matched == Locate(entries, base).matched
<1>1. /\ n \in Nat /\ order \in [1..n -> DOMAIN entries]
      /\ at \in [1..n -> 0..Len(base)] /\ upto \in [1..n -> 0..Len(base)]
      /\ \A k \in 1..n : at[k] <= upto[k]
      /\ \A k \in 1..(n - 1) : upto[k] <= at[k + 1]
      /\ \A k \in 1..n : entries[order[k]].old = SubSeq(base, at[k] + 1, upto[k])
  BY <1>0, <1>b DEF LocatedAt
<1>a. /\ at = [k \in 1..n |-> IndexOf(base, entries[order[k]].old, 0)]
      /\ upto = [k \in 1..n |-> IndexOf(base, entries[order[k]].old, 0) + Len(entries[order[k]].old)]
  BY <1>0, <1>b DEF LocatedAt
<1>2. matched = [j \in 1..n |-> [at |-> IndexOf(base, entries[order[j]].old, 0),
                                 length |-> Len(entries[order[j]].old),
                                 new |-> entries[order[j]].new]]
  BY <1>1, <1>b DEF Locate
<1>3. \A k \in 1..n : entries[order[k]].old \in Seq(S) /\ entries[order[k]].new \in Seq(S)
  <2> TAKE k \in 1..n
  <2>1. PICK e \in DOMAIN entries : e = order[k]
    BY <1>1
  <2>2. entries[e].old \in Seq(S) /\ entries[e].new \in Seq(S)
    BY EntryTexts
  <2>3. QED
    BY <2>1, <2>2
<1>4. /\ olds = [k \in 1..n |-> entries[order[k]].old] /\ news = [k \in 1..n |-> entries[order[k]].new]
      /\ DOMAIN order = 1..n
  BY <1>1, <1>b
<1>5. olds \in [1..n -> Seq(S)] /\ news \in [1..n -> Seq(S)]
  BY <1>3, <1>4
<1>6. Len(olds) = n
  BY <1>1, <1>5, SequenceOf
<1>7. \A k \in 1..n : /\ at[k] = IndexOf(base, olds[k], 0)
                      /\ upto[k] = IndexOf(base, olds[k], 0) + Len(olds[k])
                      /\ news[k] = entries[order[k]].new /\ olds[k] = entries[order[k]].old
  BY <1>4, <1>a
<1>8. \A k \in 1..n : /\ matched[k].at = at[k] /\ matched[k].length = Len(olds[k]) /\ matched[k].new = news[k]
  <2> HIDE DEF matched
  <2>1. QED
    BY <1>2, <1>7
<1>9. \E T : matched \in Seq(T) /\ Len(matched) = n
  <2> DEFINE T == {matched[k] : k \in 1..n}
  <2>1. matched \in [1..n -> T]
    <3> HIDE DEF matched
    <3>1. DOMAIN matched = 1..n /\ matched = [k \in 1..n |-> matched[k]]
      BY <1>2
    <3>2. QED
      BY <3>1
  <2> HIDE DEF T, matched
  <2>2. matched \in Seq(T) /\ Len(matched) = n
    BY <1>1, <2>1, SequenceOf
  <2>3. QED
    BY <2>2
<1> HIDE DEF matched
<1>10. Lies(base, n, starts, ends)
  <2>1. Len(base) \in Nat
    OBVIOUS
  <2>2. QED
    BY ONLY <1>1, <2>1, PiecesLie
<1>11. /\ \A k \in 1..(n + 1) : FromOf(k) = starts[k]
       /\ \A k \in 1..(n + 1) : UptoOf(k - 1) = ends[k - 1]
  <2>1. ASSUME NEW k \in 1..(n + 1) PROVE FromOf(k) = starts[k]
    <3>1. CASE k > n
      BY <1>6, <3>1
    <3>2. CASE ~(k > n)
      <4>1. k \in 1..n
        BY <1>1, <3>2
      <4>2. QED
        BY <1>6, <1>7, <3>2, <4>1
    <3>3. QED
      BY <3>1, <3>2
  <2>2. ASSUME NEW k \in 1..(n + 1) PROVE UptoOf(k - 1) = ends[k - 1]
    <3>1. k - 1 \in 0..n
      BY <1>1
    <3>2. CASE k - 1 = 0
      BY <1>1, <3>1, <3>2
    <3>3. CASE k - 1 # 0
      <4>1. k - 1 \in 1..n
        BY <1>1, <3>1, <3>3
      <4>2. QED
        BY <1>7, <3>1, <3>3, <4>1
    <3>4. QED
      BY <3>2, <3>3
  <2>3. QED
    BY <2>1, <2>2
<1> HIDE DEF starts, ends
<1>12. gaps = GapsOf(base, n, starts, ends)
  <2>1. gaps = [k \in 1..(n + 1) |-> SubSeq(base, UptoOf(k - 1) + 1, FromOf(k))]
    BY <1>6, <1>d
  <2>2. \A k \in 1..(n + 1) : SubSeq(base, UptoOf(k - 1) + 1, FromOf(k)) = SubSeq(base, ends[k - 1] + 1, starts[k])
    BY <1>11
  <2>3. QED
    BY ONLY <2>1, <2>2 DEF GapsOf
<1>13. Woven(gaps, olds) = base
  <2>1. \A k \in 1..n : starts[k] = at[k] /\ ends[k] = upto[k]
    <3>1. QED
      BY <1>1 DEF starts, ends
  <2>2. \A k \in 1..n : olds[k] = SubSeq(base, starts[k] + 1, ends[k])
    BY <1>1, <1>7, <2>1
  <2>3. n \in Nat /\ AreThePieces(base, n, starts, ends, olds)
    BY <1>1, <2>2 DEF AreThePieces
  <2>4. QED
    BY ONLY base \in Seq(S), <1>5, <1>10, <1>12, <2>3, WovenOfPieces
<1>14. Apply(base, matched) = Woven(gaps, news) /\ Woven(gaps, news) \in Seq(S)
  <2>1. \A k \in 1..n : starts[k] = at[k] /\ ends[k] = upto[k]
    <3>1. QED
      BY <1>1 DEF starts, ends
  <2>2. \A k \in 1..n : /\ matched[k].at = starts[k] /\ matched[k].at + matched[k].length = ends[k]
                        /\ matched[k].new = news[k]
    <3> TAKE k \in 1..n
    <3>1. matched[k].at = at[k] /\ matched[k].length = Len(olds[k]) /\ matched[k].new = news[k]
      BY <1>8
    <3>2. at[k] = IndexOf(base, olds[k], 0) /\ upto[k] = IndexOf(base, olds[k], 0) + Len(olds[k])
      BY <1>7
    <3>3. starts[k] = at[k] /\ ends[k] = upto[k]
      BY <2>1
    <3>4. QED
      BY ONLY <3>1, <3>2, <3>3
  <2>3. n \in Nat /\ ArePlaced(n, starts, ends, news, matched)
    BY <1>1, <1>9, <2>2 DEF ArePlaced
  <2>4. base \in Seq(S) /\ news \in [1..n -> Seq(S)]
    BY <1>5
  <2>5. QED
    BY ONLY <1>10, <1>12, <2>3, <2>4, AppliedFromTheEnd, SMTT(30)
<1>15. QED
  BY <1>13, <1>14, <1>c, <1>e DEF matched

\* What EditsLandInPlace says of a call that made its edits.
Landed(text, bom, base, entries, new, line) ==
    LET order == ByPosition(base, entries)
        olds == [k \in DOMAIN order |-> entries[order[k]].old]
        news == [k \in DOMAIN order |-> entries[order[k]].new]
        UptoOf(k) == IF k = 0 THEN 0 ELSE IndexOf(base, olds[k], 0) + Len(olds[k])
        FromOf(k) == IF k > Len(olds) THEN Len(base) ELSE IndexOf(base, olds[k], 0)
        gaps == [k \in 1..Len(olds) + 1 |-> SubSeq(base, UptoOf(k - 1) + 1, FromOf(k))]
        before == SplitLines(base)
        after == SplitLines(new)
    IN /\ Woven(gaps, olds) = base
       /\ NormalizeToLf(text) = bom \o Woven(gaps, news)
       /\ line > 0 => /\ \A k \in 1..line - 1 : before[k] = after[k]
                      /\ line \in DOMAIN before \cap DOMAIN after => before[line] # after[line]

\* The parts of a call: the byte order mark, the content and the edits, without other line ends.
LEMMA PartsOfCall ==
    ASSUME NEW text \in Seq(Characters)
    PROVE  Bom(text) \in Seq(Flat) /\ SubSeq(text, Len(Bom(text)) + 1, Len(text)) \in Seq(Characters)
<1>1. Len(text) \in Nat
  OBVIOUS
<1>2. CASE text # <<>> /\ Head(text) = "bom"
  <2>1. Bom(text) = <<"bom">> /\ Len(Bom(text)) = 1
    BY <1>2 DEF Bom
  <2>2. Len(text) >= 1 /\ Head(text) \in Characters
    BY <1>2
  <2>3. "bom" \in Flat
    BY <1>2, <2>2 DEF Flat
  <2>4. Bom(text) \in Seq(Flat)
    BY <2>1, <2>3
  <2>5. 1 \in 0..Len(text) /\ Len(text) \in 1..Len(text)
    BY <1>1, <2>2
  <2>6. SubSeq(text, 1 + 1, Len(text)) \in Seq(Characters)
    BY <2>5, PieceIs
  <2>7. QED
    BY <2>1, <2>4, <2>6
<1>3. CASE ~(text # <<>> /\ Head(text) = "bom")
  <2>1. Bom(text) = <<>> /\ Len(Bom(text)) = 0
    BY <1>3 DEF Bom
  <2>2. SubSeq(text, 1, Len(text)) = text
    OBVIOUS
  <2>3. 0 + 1 = 1 /\ <<>> \in Seq(Flat)
    OBVIOUS
  <2>4. QED
    BY <2>1, <2>2, <2>3
<1>4. QED
  BY <1>2, <1>3

LEMMA EntriesAreFlat ==
    ASSUME NEW list \in EditLists, NEW entries, entries = [k \in DOMAIN list |-> NormalizeEntry(list[k])]
    PROVE  entries \in Seq([old : Seq(Flat), new : Seq(Flat)])
<1>1. list \in Seq([old : Seq(Characters), new : Seq(Characters)])
  BY TextsAssumption
<1>2. PICK S : S = Characters
  OBVIOUS
<1>3. list \in Seq([old : Seq(S), new : Seq(S)])
  BY <1>1, <1>2
<1>4. DOMAIN list = 1..Len(list) /\ Len(list) \in Nat
  BY <1>1
<1>5. ASSUME NEW k \in DOMAIN list
      PROVE  NormalizeEntry(list[k]) \in [old : Seq(Flat), new : Seq(Flat)]
  <2>1. list[k].old \in Seq(Characters) /\ list[k].new \in Seq(Characters)
    BY <1>2, <1>3, EntryTexts
  <2>2. NormalizeToLf(list[k].old) \in Seq(Flat) /\ NormalizeToLf(list[k].new) \in Seq(Flat)
    BY <2>1, NormalizedIsFlat
  <2>3. /\ NormalizeForFuzzy(NormalizeToLf(list[k].old)) \in Seq(Flat)
        /\ NormalizeForFuzzy(NormalizeToLf(list[k].new)) \in Seq(Flat)
    BY <2>2, FuzzyIsFlat
  <2>4. QED
    BY <2>3 DEF NormalizeEntry
<1>6. PICK T : T = [old : Seq(Flat), new : Seq(Flat)]
  OBVIOUS
<1>7. entries \in [1..Len(list) -> T]
  BY <1>4, <1>5, <1>6
<1>8. entries \in Seq(T)
  BY <1>4, <1>7, SequenceOf
<1>9. QED
  BY <1>6, <1>8

\* A call that makes its edits leaves them in place.
LEMMA EditsAreMade ==
    ASSUME NEW base \in Seq(Flat), NEW bom \in Seq(Flat), NEW ending,
           NEW entries \in Seq([old : Seq(Flat), new : Seq(Flat)]), Locate(entries, base).error = "none",
           NEW new, new = Apply(base, Locate(entries, base).matched)
    PROVE  Landed(bom \o RestoreLineEndings(new, ending), bom, base, entries, new,
                  FirstChangedLine(base, new))
<1> DEFINE olds == Olds(base, entries)
           news == News(base, entries)
           gaps == GapsAround(base, entries)
           line == FirstChangedLine(base, new)
           before == SplitLines(base)
           after == SplitLines(new)
           text == bom \o RestoreLineEndings(new, ending)
<1>1. /\ Woven(gaps, olds) = base
      /\ Apply(base, Locate(entries, base).matched) = Woven(gaps, news)
      /\ Woven(gaps, news) \in Seq(Flat)
  BY EditsWoven
<1>2. new = Woven(gaps, news) /\ new \in Seq(Flat)
  BY <1>1
<1> HIDE DEF gaps, olds, news
<1>3. NormalizeToLf(text) = bom \o Woven(gaps, news)
  BY <1>2, RestoredLineEnds
<1>4. ASSUME line > 0
      PROVE  /\ \A k \in 1..line - 1 : before[k] = after[k]
             /\ line \in DOMAIN before \cap DOMAIN after => before[line] # after[line]
  BY <1>2, <1>4, FirstLineDiffers
<1>5. Landed(text, bom, base, entries, new, line) =
        (/\ Woven(gaps, olds) = base
         /\ NormalizeToLf(text) = bom \o Woven(gaps, news)
         /\ line > 0 => /\ \A k \in 1..line - 1 : before[k] = after[k]
                        /\ line \in DOMAIN before \cap DOMAIN after => before[line] # after[line])
  BY DEF Landed, Olds, News, GapsAround, olds, news, gaps
<1> HIDE DEF text, line, before, after
<1>6. Landed(text, bom, base, entries, new, line)
  BY <1>1, <1>3, <1>4, <1>5
<1>7. QED
  BY <1>6 DEF text, line

\* A call starts on a file and a list of edits, and what it reports is so.
EditInv ==
    /\ ~result.done => /\ result = [error |-> "none", done |-> FALSE]
                       /\ target \in Seq(Characters) /\ edits \in EditLists
    /\ EditsLandInPlace

LEMMA EditStarts == EditInit => EditInv
BY TextsAssumption DEF EditInit, EditInv, EditsLandInPlace

LEMMA EditSteps == EditInv /\ [EditNext]_editVars => EditInv'
<1> SUFFICES ASSUME EditInv, [EditNext]_editVars PROVE EditInv'
  OBVIOUS
<1>1. CASE UNCHANGED editVars
  <2>1. target' = target /\ edits' = edits /\ result' = result
    BY <1>1 DEF editVars
  <2> DEFINE Claim == result.done /\ result.error = "none" =>
                         Landed(target, result.bom, result.base, result.entries, result.new,
                                result.firstLine)
  <2>2. EditsLandInPlace <=> Claim
    BY DEF EditsLandInPlace, Landed
  <2>3. EditsLandInPlace' <=> Claim'
    BY DEF EditsLandInPlace, Landed
  <2>4. Claim' <=> Claim
    BY <2>1
  <2> HIDE DEF Claim
  <2>5. QED
    BY <2>1, <2>2, <2>3, <2>4 DEF EditInv
<1>2. CASE Execute
  <2> DEFINE bom == Bom(target)
             content == SubSeq(target, Len(bom) + 1, Len(target))
             normalized == NormalizeToLf(content)
             entries == [k \in DOMAIN edits |-> NormalizeEntry(edits[k])]
             fuzzy == \E k \in DOMAIN entries : ~Includes(normalized, entries[k].old)
             base == IF fuzzy THEN NormalizeForFuzzy(normalized) ELSE normalized
             located == Locate(entries, base)
             new == Apply(base, located.matched)
  <2>1. /\ ~result.done /\ result = [error |-> "none", done |-> FALSE]
        /\ target \in Seq(Characters) /\ edits \in EditLists
    BY <1>2 DEF EditInv, Execute
  <2>2. \/ Refused("read failed")
        \/ CASE edits = <<>> -> Refused("no edits")
             [] edits # <<>> /\ Validate(entries) # "none" -> Refused(Validate(entries))
             [] edits # <<>> /\ Validate(entries) = "none" /\ located.error # "none" ->
                    Refused(located.error)
             [] OTHER ->
                    \/ new = base /\ Refused("no changes")
                    \/ new # base /\ Refused("write failed")
                    \/ /\ new # base
                       /\ target' = bom \o RestoreLineEndings(new, DetectLineEnding(content))
                       /\ result' = [error |-> "none", done |-> TRUE, bom |-> bom, base |-> base,
                                     new |-> new, entries |-> entries,
                                     firstLine |-> FirstChangedLine(base, new)]
    BY <1>2 DEF Execute
  <2>3. bom \in Seq(Flat) /\ content \in Seq(Characters)
    BY <2>1, PartsOfCall
  <2>4. normalized \in Seq(Flat)
    <3> HIDE DEF content
    <3>1. QED
      BY <2>3, NormalizedIsFlat
  <2>5. base \in Seq(Flat)
    <3> HIDE DEF normalized, entries, fuzzy
    <3>1. QED
      BY <2>4, FuzzyIsFlat
  <2>6. entries \in Seq([old : Seq(Flat), new : Seq(Flat)])
    BY <2>1, EntriesAreFlat
  <2> HIDE DEF bom, content, base, entries
  <2>7. CASE \E error : error # "none" /\ Refused(error)
    <3>1. PICK error : error # "none" /\ Refused(error)
      BY <2>7
    <3>2. result' = [error |-> error, done |-> TRUE]
      BY <2>1, <3>1 DEF Refused
    <3>3. result'.done /\ result'.error # "none"
      BY <3>1, <3>2
    <3>4. QED
      BY <3>3 DEF EditInv, EditsLandInPlace
  <2>8. CASE /\ located.error = "none"
             /\ target' = bom \o RestoreLineEndings(new, DetectLineEnding(content))
             /\ result' = [error |-> "none", done |-> TRUE, bom |-> bom, base |-> base,
                           new |-> new, entries |-> entries,
                           firstLine |-> FirstChangedLine(base, new)]
    <3>1. Landed(bom \o RestoreLineEndings(new, DetectLineEnding(content)), bom, base, entries, new,
                 FirstChangedLine(base, new))
      BY <2>3, <2>5, <2>6, <2>8, EditsAreMade
    <3> HIDE DEF new
    <3>2. /\ result'.done /\ result'.bom = bom /\ result'.base = base /\ result'.new = new
          /\ result'.entries = entries /\ result'.firstLine = FirstChangedLine(base, new)
      BY <2>8
    <3>3. Landed(target', result'.bom, result'.base, result'.entries, result'.new, result'.firstLine)
      BY <2>8, <3>1, <3>2
    <3>4. EditsLandInPlace'
      BY <3>3 DEF Landed, EditsLandInPlace
    <3>5. QED
      BY <3>2, <3>4 DEF EditInv
  <2>9. (\E error : error # "none" /\ Refused(error))
        \/ /\ located.error = "none"
           /\ target' = bom \o RestoreLineEndings(new, DetectLineEnding(content))
           /\ result' = [error |-> "none", done |-> TRUE, bom |-> bom, base |-> base,
                         new |-> new, entries |-> entries,
                         firstLine |-> FirstChangedLine(base, new)]
    <3> HIDE DEF located, new
    <3>1. QED
      BY <2>2
  <2>10. QED
    BY <2>7, <2>8, <2>9
<1>3. QED
  BY <1>1, <1>2 DEF EditNext

\* Every edit that is reported as made is in the file, nothing between the edits moved, and the
\* reported line is the first that differs, for every file and every list of edits (execute,
\* locate, apply and firstChangedLine of the edit tool).
THEOREM EditsLand == EditSpec => []EditsLandInPlace
<1>1. EditInv => EditsLandInPlace
  BY DEF EditInv
<1>2. QED
  BY EditStarts, EditSteps, <1>1, PTL DEF EditSpec

-----------------------------------------------------------------------------
(* EventStream: ranges of sequences *)

\* The sequences beyond a up to b, in order.
Span(a, b) == [i \in 1..(IF a < b THEN b - a ELSE 0) |-> a + i]

\* The last sequence of a range, or the default if there is none.
Last1(a, b, default) == IF a < b THEN b ELSE default

LEMMA AscendingRange ==
    ASSUME NEW a \in Nat, NEW b \in Nat
    PROVE  Ascending((a + 1)..b) = Span(a, b)
<1> DEFINE S == (a + 1)..b
           size == IF a < b THEN b - a ELSE 0
           at(i) == CHOOSE n \in S : Cardinality({k \in S : k < n}) = i - 1
<1>1. Cardinality(S) = size
  <2>1. Cardinality((a + 1)..b) = IF a + 1 > b THEN 0 ELSE b - (a + 1) + 1
    BY FS_Interval
  <2>2. QED
    BY <2>1
<1>2. \A n \in S : Cardinality({k \in S : k < n}) = n - (a + 1)
  <2> SUFFICES ASSUME NEW n \in S
               PROVE  Cardinality({k \in S : k < n}) = n - (a + 1)
    OBVIOUS
  <2>1. {k \in S : k < n} = (a + 1)..(n - 1)
    OBVIOUS
  <2>2. Cardinality((a + 1)..(n - 1)) =
          IF a + 1 > n - 1 THEN 0 ELSE (n - 1) - (a + 1) + 1
    BY FS_Interval
  <2>3. (IF a + 1 > n - 1 THEN 0 ELSE (n - 1) - (a + 1) + 1) = n - (a + 1)
    OBVIOUS
  <2> HIDE DEF S
  <2>4. QED
    BY <2>1, <2>2, <2>3
<1>3. ASSUME NEW i \in 1..size
      PROVE  at(i) = a + i
  <2>1. a + i \in S /\ (a + i) - (a + 1) = i - 1
    OBVIOUS
  <2>2. \A n \in S : Cardinality({k \in S : k < n}) = i - 1 <=> n = a + i
    BY <1>2
  <2> HIDE DEF S
  <2>3. QED
    BY <2>1, <2>2
<1>4. Ascending(S) = [i \in 1..Cardinality(S) |-> at(i)]
  BY DEF Ascending
<1> HIDE DEF S, at
<1>5. Ascending(S) = [i \in 1..size |-> a + i]
  BY <1>1, <1>3, <1>4
<1>6. QED
  BY <1>5 DEF S, Span

LEMMA HighestRange ==
    ASSUME NEW a \in Nat, NEW b \in Nat, NEW d \in Nat
    PROVE  Highest((a + 1)..b, d) = Last1(a, b, d)
<1>1. CASE a < b
  <2>1. (a + 1)..b # {} /\ \A n \in (a + 1)..b : (\A k \in (a + 1)..b : k <= n) <=> n = b
    BY <1>1
  <2>2. QED
    BY <1>1, <2>1 DEF Highest, Last1
<1>2. CASE ~(a < b)
  <2>1. (a + 1)..b = {}
    BY <1>2
  <2>2. QED
    BY <1>2, <2>1 DEF Highest, Last1
<1>3. QED
  BY <1>1, <1>2

\* A replay ends that read the events from the cursor up to k and buffered
\* those beyond a up to p.  It sends what it read, then what lies beyond that.
ReplayEnds(from, a, k, p, log, last, flushed, batch) ==
    /\ from \in Nat /\ a \in Nat /\ k \in Nat /\ p \in Nat /\ log \in Nat
    /\ k <= log /\ p <= log
    /\ last = Last1(from, k, from)
    /\ flushed = Fresh((a + 1)..p, last)
    /\ batch = Ascending((from + 1)..k) \o Ascending(flushed)

\* The batch goes on from the cursor, and without a gap if the ranges meet.
Continues(from, a, k, p, log, batch, end) ==
    /\ end \in Nat
    /\ batch \in Seq(1..log) /\ Len(batch) <= log
    /\ \A i \in 1..Len(batch) : batch[i] > from
    /\ \A i \in 1..(Len(batch) - 1) : batch[i] < batch[i + 1]
    /\ end = IF batch = <<>> THEN from ELSE batch[Len(batch)]
    /\ a <= k => /\ p <= end
                 /\ \A i \in 1..Len(batch) : batch[i] = from + i

LEMMA ReplayedBatch ==
    ASSUME NEW from, NEW a, NEW k, NEW p, NEW log, NEW last, NEW flushed, NEW batch,
           ReplayEnds(from, a, k, p, log, last, flushed, batch)
    PROVE  Continues(from, a, k, p, log, batch, Highest(flushed, last))
<1> DEFINE m == IF a < last THEN last ELSE a
           first == Span(from, k)
           second == Span(m, p)
           h == Last1(m, p, last)
           x == IF from < k THEN k - from ELSE 0
           y == IF m < p THEN p - m ELSE 0
<1>0. /\ from \in Nat /\ a \in Nat /\ k \in Nat /\ p \in Nat /\ log \in Nat
      /\ k <= log /\ p <= log
      /\ last = Last1(from, k, from)
      /\ flushed = Fresh((a + 1)..p, last)
      /\ batch = Ascending((from + 1)..k) \o Ascending(flushed)
  BY DEF ReplayEnds
<1>nat. from \in Nat /\ a \in Nat /\ k \in Nat /\ p \in Nat
  BY <1>0
<1>1. /\ last \in Nat /\ from <= last
      /\ (from < k => last = k) /\ (~(from < k) => last = from)
  BY <1>0 DEF Last1
<1>2. m \in Nat /\ a <= m /\ last <= m /\ (m = a \/ m = last)
  BY <1>0, <1>1
<1>3. flushed = (m + 1)..p
  BY <1>0, <1>1, <1>2 DEF Fresh
<1>4. Ascending((from + 1)..k) = first
  BY <1>0, AscendingRange
<1> HIDE DEF m
<1>5. Ascending(flushed) = second /\ Highest(flushed, last) = h
  BY <1>0, <1>1, <1>2, <1>3, AscendingRange, HighestRange
<1>6. /\ first \in Seq(1..log) /\ Len(first) = x
      /\ \A i \in 1..x : first[i] = from + i
  BY <1>0, <1>1 DEF Span
<1>7. /\ second \in Seq(1..log) /\ Len(second) = y
      /\ \A i \in 1..y : second[i] = m + i
  BY <1>0, <1>2 DEF Span
<1> HIDE DEF first, second
<1>8. /\ x \in Nat /\ y \in Nat /\ from + x = last
      /\ (y = 0 => p <= m) /\ (y > 0 => m + y = p) /\ (y > 0 <=> m < p)
      /\ (a <= k => m = last) /\ x + y <= log
  BY <1>0, <1>1, <1>2
<1> HIDE DEF x, y
<1>9. /\ batch \in Seq(1..log) /\ Len(batch) = x + y
      /\ \A i \in 1..(x + y) : batch[i] = IF i <= x THEN first[i] ELSE second[i - x]
  <2>1. batch = first \o second
    BY <1>0, <1>4, <1>5
  <2>2. QED
    BY ONLY <2>1, <1>6, <1>7, ConcatProperties
<1>10. \A i \in 1..(x + y) : batch[i] = IF i <= x THEN from + i ELSE m + (i - x)
  <2> SUFFICES ASSUME NEW i \in 1..(x + y)
               PROVE  batch[i] = IF i <= x THEN from + i ELSE m + (i - x)
    OBVIOUS
  <2>1. CASE i <= x
    BY ONLY <2>1, <1>6, <1>8, <1>9, i \in 1..(x + y)
  <2>2. CASE ~(i <= x)
    BY ONLY <2>2, <1>7, <1>8, <1>9, i \in 1..(x + y)
  <2>3. QED
    BY ONLY <2>1, <2>2
<1>11. \A i \in 1..(x + y) : batch[i] > from
  BY ONLY <1>1, <1>2, <1>8, <1>10, <1>nat
<1>12. \A i \in 1..(x + y - 1) : batch[i] < batch[i + 1]
  BY ONLY <1>1, <1>2, <1>8, <1>10, <1>nat
<1>13. h \in Nat /\ (a <= k => p <= h) /\ h = IF y > 0 THEN p ELSE last
  <2>1. CASE m < p
    BY ONLY <2>1, <1>1, <1>2, <1>8, <1>nat DEF Last1, h
  <2>2. CASE ~(m < p)
    BY ONLY <2>2, <1>1, <1>2, <1>8, <1>nat DEF Last1, h
  <2>3. QED
    BY ONLY <2>1, <2>2
<1>14. h = IF batch = <<>> THEN from ELSE batch[x + y]
  <2>1. CASE x + y = 0
    BY ONLY <2>1, <1>1, <1>2, <1>8, <1>9, <1>13, <1>nat
  <2>2. CASE x + y > 0
    <3>1. batch # <<>> /\ x + y \in 1..(x + y)
      BY ONLY <2>2, <1>8, <1>9
    <3>2. QED
      BY ONLY <3>1, <1>1, <1>2, <1>8, <1>10, <1>13, <1>nat
  <2>3. QED
    BY ONLY <2>1, <2>2, <1>8
<1>15. a <= k => \A i \in 1..(x + y) : batch[i] = from + i
  BY ONLY <1>1, <1>2, <1>8, <1>10, <1>nat
<1>16. QED
  <2> HIDE DEF h
  <2>1. Len(batch) = x + y
    BY ONLY <1>9
  <2>2. \A i \in 1..Len(batch) : batch[i] > from
    BY ONLY <2>1, <1>11
  <2>3. a <= k => \A i \in 1..Len(batch) : batch[i] = from + i
    BY ONLY <2>1, <1>15
  <2>4. \A i \in 1..(Len(batch) - 1) : batch[i] < batch[i + 1]
    BY ONLY <2>1, <1>8, <1>12
  <2>5. /\ h = IF batch = <<>> THEN from ELSE batch[Len(batch)]
        /\ h \in Nat /\ (a <= k => p <= h)
    BY ONLY <2>1, <1>13, <1>14
  <2>6. QED
    BY ONLY <1>5, <1>8, <1>9, <2>2, <2>3, <2>4, <2>5 DEF Continues

-----------------------------------------------------------------------------
(* The inductive invariant *)

Counts == Nat \cup {None}

SubscriptionType ==
    [status: {"off", "replaying", "ready"}, lastSequence: Nat, buffered: SUBSET Nat,
     update: Counts, deleted: BOOLEAN, record: Counts, events: SUBSET Nat,
     queried: BOOLEAN]

ClientType ==
    [from: Nat, sent: Seq(Nat), version: Counts, gone: BOOLEAN, connections: Nat]

\* The log: one append at a time holds the lock, and what it computed or
\* committed is about the current end of the log.
LogInv ==
    /\ row \in [exists: BOOLEAN, lastSequence: Nat, version: Nat]
    /\ stored = IF row.exists THEN 1..row.lastSequence ELSE {}
    /\ tail \in Seq(Writers)
    /\ writer \in [Writers -> [pc: {"idle", "waiting", "writing", "committed"}, sequence: Nat]]
    /\ \A w \in Writers :
          /\ writer[w].pc \in {"writing", "committed"} => Holds(w)
          /\ writer[w].pc = "writing" => writer[w].sequence = row.lastSequence + 1
          /\ writer[w].pc = "committed" =>
                writer[w].sequence = row.lastSequence /\ row.lastSequence > 0

\* How many events were published: all, but one that was just committed.
Published ==
    IF \E w \in Writers : writer[w].pc = "committed"
    THEN row.lastSequence - 1 ELSE row.lastSequence

\* The last sequence that a connection knows of.
At(f) == IF f.sent = <<>> THEN f.from ELSE f.sent[Len(f.sent)]

\* A subscriber that is ready was sent all that is published.
Live(s, f, exists, p) ==
    s.status = "ready" =>
        /\ s.lastSequence = At(f)
        /\ ~f.gone
        /\ exists => p <= At(f)

\* What a replay holds: the events it read end at k, and those published
\* since the subscription begin beyond a.
Ranges(s, f, exists, p, a, k) ==
    /\ s.buffered = (a + 1)..p
    /\ s.events = (f.from + 1)..k
    /\ exists /\ s.queried => a <= k

Replaying(s, f, exists, p, log) ==
    s.status = "replaying" =>
        /\ f.sent = <<>> /\ ~f.gone
        /\ s.deleted => ~exists
        /\ \E a \in 0..p, k \in 0..log : Ranges(s, f, exists, p, a, k)

\* Nobody knows an older row than was published last: not the client that is
\* ready, nor the replay that will tell its client.
Informed(s, f, version) ==
    /\ s.status = "ready" => f.version >= version
    /\ s.status = "replaying" =>
          /\ s.update # None => s.update >= version
          /\ s.update = None /\ s.record # None => s.record >= version

\* What waits to be published, or was published last, was the row at some time.
NewsInv ==
    /\ updater \in [Updaters -> Counts]
    /\ \A u \in Updaters : updater[u] <= row.version
    /\ announced \in 0..row.version
    /\ deleting \in BOOLEAN
    /\ deleting => ~row.exists

Attached(s, f, r, p) ==
    /\ s \in SubscriptionType
    /\ f \in ClientType
    /\ Live(s, f, r.exists, p)
    /\ Replaying(s, f, r.exists, p, r.lastSequence)

ClientsInv ==
    /\ subscription = [c \in Clients |-> subscription[c]]
    /\ client = [c \in Clients |-> client[c]]
    /\ \A c \in Clients : Attached(subscription[c], client[c], row, Published)

UpdatesInv == \A c \in Clients : Informed(subscription[c], client[c], announced)

StreamInv == LogInv /\ NewsInv /\ ClientsInv /\ UpdatesInv

LEMMA StreamInit == Init => StreamInv
<1> SUFFICES ASSUME Init
             PROVE  StreamInv
  OBVIOUS
<1>1. LogInv
  BY DEF Init, LogInv, Holds
<1>2. Published = 0
  BY DEF Init, Published
<1>3. ClientsInv
  <2>1. /\ subscription = [c \in Clients |-> subscription[c]]
        /\ client = [c \in Clients |-> client[c]]
    BY Zenon DEF Init
  <2>2. \A c \in Clients : /\ subscription[c] \in SubscriptionType
                           /\ subscription[c].status = "off"
                           /\ client[c] \in ClientType
    BY DEF Init, SubscriptionType, ClientType, Counts
  <2>3. QED
    BY <2>1, <2>2 DEF ClientsInv, Attached, Live, Replaying
<1>4. UpdatesInv
  BY DEF Init, UpdatesInv, Informed
<1>5. NewsInv
  <2>1. updater = [u \in Updaters |-> None] /\ None \in Counts
    BY DEF Init, Counts
  <2>2. row.version = 0 /\ announced = 0 /\ deleting = FALSE
    BY DEF Init
  <2>3. \A u \in Updaters : updater[u] <= row.version
    BY <2>1, <2>2 DEF None
  <2>4. updater \in [Updaters -> Counts]
    BY <2>1
  <2>5. announced \in 0..row.version
    BY <2>2
  <2>6. deleting \in BOOLEAN /\ (deleting => ~row.exists)
    BY <2>2, Zenon
  <2>7. QED
    BY <2>3, <2>4, <2>5, <2>6, Zenon DEF NewsInv
<1>6. QED
  BY <1>1, <1>3, <1>4, <1>5 DEF StreamInv

-----------------------------------------------------------------------------
(* The log *)

\* Only the holder leaves: it computes or commits, or the row is gone.
LEMMA UnlockStep ==
    ASSUME LogInv, NEW w \in Writers, Holds(w), Unlock(w)
    PROVE  /\ tail' \in Seq(Writers)
           /\ \A v \in Writers : writer'[v] =
                 IF v = w THEN [pc |-> "idle", sequence |-> 0] ELSE writer[v]
           /\ writer' \in [Writers -> [pc: {"idle", "waiting", "writing", "committed"},
                                       sequence: Nat]]
           /\ \A v \in Writers : writer'[v].pc \notin {"writing", "committed"}
<1>1. tail' \in Seq(Writers)
  BY RemoveFirstProperties DEF Unlock, LogInv
<1>2. /\ \A v \in Writers : writer'[v] =
             IF v = w THEN [pc |-> "idle", sequence |-> 0] ELSE writer[v]
      /\ writer' \in [Writers -> [pc: {"idle", "waiting", "writing", "committed"},
                                  sequence: Nat]]
  BY DEF Unlock, LogInv
<1>3. \A v \in Writers : v # w => writer[v].pc \notin {"writing", "committed"}
  BY DEF LogInv, Holds
<1>4. QED
  BY <1>1, <1>2, <1>3

LEMMA LogStep ==
    ASSUME LogInv, [Next]_vars
    PROVE  LogInv'
<1> USE DEF LogInv
<1>1. ASSUME NEW w \in Writers, Append1(w)
      PROVE  LogInv'
  <2>1. tail' \in Seq(Writers) /\ (tail # <<>> => tail' # <<>> /\ Head(tail') = Head(tail))
    BY <1>1 DEF Append1
  <2>2. QED
    BY <1>1, <2>1 DEF Append1, Holds
<1>2. ASSUME NEW w \in Writers, ReadSequence(w)
      PROVE  LogInv'
  <2>1. CASE row.exists
    <3>1. UNCHANGED <<row, stored, tail>> /\ Holds(w)
      BY <1>2, <2>1 DEF ReadSequence
    <3>2. writer' = [writer EXCEPT ![w] = [pc |-> "writing", sequence |-> row.lastSequence + 1]]
      BY <1>2, <2>1 DEF ReadSequence
    <3>3. \A v \in Writers : v # w => writer'[v] = writer[v]
      BY <3>2
    <3>4. writer'[w] = [pc |-> "writing", sequence |-> row.lastSequence + 1]
      BY <3>2
    <3>5. writer' \in [Writers -> [pc: {"idle", "waiting", "writing", "committed"}, sequence: Nat]]
      BY <3>2
    <3>6. QED
      BY <3>1, <3>3, <3>4, <3>5 DEF Holds
  <2>2. CASE ~row.exists
    <3>1. Holds(w) /\ Unlock(w)
      BY <1>2, <2>2 DEF ReadSequence
    <3>2. QED
      BY <1>2, <3>1, UnlockStep DEF ReadSequence, Holds
  <2>3. QED
    BY <2>1, <2>2
<1>3. ASSUME NEW w \in Writers, Commit(w)
      PROVE  LogInv'
  <2>1. Holds(w) /\ writer[w].sequence = row.lastSequence + 1
    BY <1>3 DEF Commit
  <2>2. CASE row.exists /\ writer[w].sequence \notin stored
    <3>1. /\ row'.exists /\ row'.lastSequence = row.lastSequence + 1
          /\ row'.version = row.version
          /\ row' \in [exists: BOOLEAN, lastSequence: Nat, version: Nat]
      BY <1>3, <2>1, <2>2 DEF Commit
    <3>2. stored' = 1..row'.lastSequence
      <4>1. \A n \in Nat : 1..n \cup {n + 1} = 1..(n + 1)
        OBVIOUS
      <4>2. stored' = 1..row.lastSequence \cup {row.lastSequence + 1}
        BY <1>3, <2>1, <2>2 DEF Commit
      <4>3. QED
        BY ONLY <3>1, <4>1, <4>2, LogInv
    <3>3. \A v \in Writers : v # w => writer[v].pc \notin {"writing", "committed"}
      BY <2>1 DEF Holds
    <3>4. /\ \A v \in Writers : v # w => writer'[v] = writer[v]
          /\ writer'[w].pc = "committed" /\ writer'[w].sequence = writer[w].sequence
          /\ writer' \in [Writers -> [pc: {"idle", "waiting", "writing", "committed"},
                                      sequence: Nat]]
      <4>1. writer' = [writer EXCEPT ![w].pc = "committed"]
        BY <1>3, <2>2 DEF Commit
      <4>2. writer[w] \in [pc: {"idle", "waiting", "writing", "committed"}, sequence: Nat]
        OBVIOUS
      <4>3. QED
        BY ONLY <4>1, <4>2, LogInv, w \in Writers DEF LogInv
    <3>5. \A v \in Writers :
             /\ writer'[v].pc \in {"writing", "committed"} => Holds(v)'
             /\ writer'[v].pc = "writing" => writer'[v].sequence = row'.lastSequence + 1
             /\ writer'[v].pc = "committed" =>
                   writer'[v].sequence = row'.lastSequence /\ row'.lastSequence > 0
      <4>1. Holds(w)' /\ row'.lastSequence > 0 /\ writer'[w].sequence = row'.lastSequence
        BY <1>3, <2>1, <2>2, <3>1, <3>4 DEF Commit, Holds
      <4>2. QED
        BY ONLY <3>3, <3>4, <4>1
    <3>6. tail' = tail
      BY <1>3, <2>2 DEF Commit
    <3>7. QED
      BY ONLY LogInv, <2>2, <3>1, <3>2, <3>4, <3>5, <3>6 DEF LogInv
  <2>3. CASE ~(row.exists /\ writer[w].sequence \notin stored)
    <3>1. Unlock(w)
      BY <1>3, <2>3 DEF Commit
    <3>2. QED
      BY <1>3, <2>1, <2>3, <3>1, UnlockStep DEF Commit, Holds
  <2>4. QED
    BY <2>2, <2>3
<1>4. ASSUME NEW w \in Writers, Abort(w) \/ Publish(w)
      PROVE  LogInv'
  <2>1. Holds(w) /\ Unlock(w) /\ UNCHANGED <<row, stored>>
    BY <1>4 DEF Abort, Publish
  <2>2. QED
    BY <2>1, UnlockStep DEF Holds
<1>5. ASSUME UNCHANGED <<row, stored, tail, writer>>
      PROVE  LogInv'
  BY <1>5 DEF Holds
<1>6. ASSUME NEW u \in Updaters, WriteRow(u)
      PROVE  LogInv'
  BY <1>6 DEF WriteRow, Holds
<1>7. CASE Delete
  BY <1>7 DEF Delete, Holds
<1>8. QED
  <2>1. ASSUME NEW c \in Clients, Connect(c) \/ Replay(c) \/ Disconnect(c)
        PROVE  UNCHANGED <<row, stored, tail, writer>>
    BY <2>1 DEF Connect, Replay, ReadRecord, ReadEvents, Snapshot, Disconnect
  <2>2. ASSUME NEW u \in Updaters, ReadRow(u) \/ Discard(u) \/ PublishUpdate(u)
        PROVE  UNCHANGED <<row, stored, tail, writer>>
    BY <2>2 DEF ReadRow, Discard, PublishUpdate
  <2>3. ASSUME PublishDeletion
        PROVE  UNCHANGED <<row, stored, tail, writer>>
    BY <2>3 DEF PublishDeletion
  <2>4. QED
    BY <1>1, <1>2, <1>3, <1>4, <1>5, <1>6, <1>7, <2>1, <2>2, <2>3
       DEF Next, AppendSteps, vars

\* A step that publishes no update and changes no version of the row.
LEMMA NewsFrame ==
    ASSUME NewsInv, UNCHANGED updates, row'.version = row.version, row'.exists => row.exists
    PROVE  NewsInv'
  BY DEF NewsInv, updates

\* The row a statement returns is the current one, or older when it is published.
LEMMA UpdaterNews ==
    ASSUME LogInv, NewsInv, NEW u \in Updaters,
           WriteRow(u) \/ ReadRow(u) \/ Discard(u) \/ PublishUpdate(u)
    PROVE  NewsInv'
<1>1. /\ row.version \in Nat /\ updater \in [Updaters -> Counts]
      /\ \A v \in Updaters : updater[v] <= row.version
      /\ announced \in 0..row.version /\ deleting \in BOOLEAN /\ (deleting => ~row.exists)
  BY DEF LogInv, NewsInv
<1>2. CASE WriteRow(u)
  <2>1. /\ row'.version = row.version + 1 /\ row'.exists = row.exists
        /\ announced' = announced /\ deleting' = deleting
    BY <1>2 DEF WriteRow, LogInv
  <2>2. updater' = updater \/ updater' = [updater EXCEPT ![u] = row.version + 1]
    BY <1>2 DEF WriteRow
  <2>3. /\ updater' \in [Updaters -> Counts]
        /\ \A v \in Updaters : updater'[v] = updater[v] \/ updater'[v] = row.version + 1
    BY <1>1, <2>2 DEF Counts
  <2>4. \A v \in Updaters : updater'[v] <= row'.version
    BY <1>1, <2>1, <2>3 DEF Counts, None
  <2>5. QED
    BY <1>1, <2>1, <2>3, <2>4 DEF NewsInv
<1>3. ASSUME NEW version \in Counts, version <= row.version,
             updater' = [updater EXCEPT ![u] = version],
             announced' \in 0..row.version, UNCHANGED <<row, deleting>>
      PROVE  NewsInv'
  <2>1. /\ updater' \in [Updaters -> Counts]
        /\ \A v \in Updaters : updater'[v] = updater[v] \/ updater'[v] = version
    BY <1>1, <1>3
  <2>2. \A v \in Updaters : updater'[v] <= row.version
    BY <1>1, <1>3, <2>1
  <2>3. row' = row /\ deleting' = deleting
    BY <1>3
  <2>4. QED
    BY <1>1, <1>3, <2>1, <2>2, <2>3 DEF NewsInv
<1>4. CASE ReadRow(u)
  <2>1. updater' = [updater EXCEPT ![u] = row.version] /\ UNCHANGED <<row, announced, deleting>>
    BY <1>4 DEF ReadRow
  <2>2. row.version \in Counts /\ row.version <= row.version
    BY <1>1 DEF Counts
  <2>3. QED
    BY <1>1, <1>3, <2>1, <2>2
<1>5. CASE Discard(u)
  <2>1. updater' = [updater EXCEPT ![u] = None] /\ UNCHANGED <<row, announced, deleting>>
    BY <1>5 DEF Discard
  <2>2. None \in Counts /\ None <= row.version
    BY <1>1 DEF Counts, None
  <2>3. QED
    BY <1>1, <1>3, <2>1, <2>2
<1>6. CASE PublishUpdate(u)
  <2>1. updater[u] \in 0..row.version
    BY <1>1, <1>6 DEF PublishUpdate, Counts
  <2>2. /\ updater' = [updater EXCEPT ![u] = None]
        /\ announced' = updater[u] /\ UNCHANGED <<row, deleting>>
    BY <1>6 DEF PublishUpdate
  <2>3. None \in Counts /\ None <= row.version
    BY <1>1 DEF Counts, None
  <2>4. QED
    BY <1>1, <1>3, <2>1, <2>2, <2>3
<1>7. QED
  BY <1>2, <1>4, <1>5, <1>6

LEMMA NewsStep ==
    ASSUME LogInv, NewsInv, [Next]_vars
    PROVE  NewsInv'
<1>1. ASSUME NEW w \in Writers, Append1(w) \/ AppendSteps(w) \/ Abort(w)
      PROVE  NewsInv'
  <2>1. UNCHANGED updates
    BY <1>1 DEF Append1, AppendSteps, ReadSequence, Commit, Publish, Abort
  <2>2. row'.version = row.version /\ row'.exists = row.exists
    BY <1>1 DEF Append1, AppendSteps, ReadSequence, Commit, Publish, Abort, LogInv
  <2>3. QED
    BY <2>1, <2>2, NewsFrame
<1>2. ASSUME NEW c \in Clients, Connect(c) \/ Replay(c) \/ Disconnect(c)
      PROVE  NewsInv'
  BY <1>2, NewsFrame DEF Connect, Replay, ReadRecord, ReadEvents, Snapshot, Disconnect
<1>3. CASE Delete
  BY <1>3 DEF Delete, LogInv, NewsInv
<1>4. CASE PublishDeletion
  BY <1>4 DEF PublishDeletion, NewsInv
<1>5. CASE UNCHANGED vars
  BY <1>5, NewsFrame DEF vars
<1>6. QED
  BY <1>1, <1>2, <1>3, <1>4, <1>5, UpdaterNews DEF Next

-----------------------------------------------------------------------------
(* What is published *)

LEMMA PublishedBounds ==
    ASSUME LogInv
    PROVE  /\ Published \in Nat /\ row.lastSequence \in Nat
           /\ Published <= row.lastSequence
  BY DEF LogInv, Published

LEMMA AppendQuiet ==
    ASSUME LogInv, NEW w \in Writers,
           Append1(w) \/ ReadSequence(w) \/ Commit(w) \/ Abort(w)
    PROVE  /\ UNCHANGED <<subscription, client, updates>>
           /\ row'.exists = row.exists /\ row'.version = row.version
           /\ row'.lastSequence \in {row.lastSequence, row.lastSequence + 1}
           /\ Published' = Published
<1> DEFINE Done(v) == writer[v].pc = "committed"
<1>1. CASE Append1(w)
  <2>1. row' = row /\ \A v \in Writers : Done(v)' <=> Done(v)
    BY <1>1 DEF Append1, LogInv
  <2>2. QED
    BY <1>1, <2>1 DEF Append1, Published
<1>2. ASSUME row' = row, UNCHANGED <<subscription, client, updates>>,
             Holds(w), ~Done(w), Unlock(w)
      PROVE  Published' = Published
  <2>1. \A v \in Writers : ~Done(v) /\ ~Done(v)'
    BY <1>2, UnlockStep DEF LogInv, Holds
  <2>2. QED
    BY <1>2, <2>1 DEF Published
<1>3. CASE ReadSequence(w)
  <2>1. row' = row /\ UNCHANGED <<subscription, client, updates>> /\ Holds(w) /\ ~Done(w)
    BY <1>3 DEF ReadSequence
  <2>2. CASE Unlock(w)
    BY <1>2, <2>1, <2>2
  <2>3. CASE ~Unlock(w)
    <3>1. \A v \in Writers : Done(v)' <=> Done(v)
      BY <1>3, <2>3 DEF ReadSequence, LogInv
    <3>2. QED
      BY <2>1, <3>1 DEF Published
  <2>4. QED
    BY <2>1, <2>2, <2>3
<1>4. CASE Abort(w)
  <2>1. /\ row' = row /\ UNCHANGED <<subscription, client, updates>>
        /\ Holds(w) /\ ~Done(w) /\ Unlock(w)
    BY <1>4 DEF Abort, LogInv
  <2>2. QED
    BY <1>2, <2>1
<1>5. CASE Commit(w)
  <2>1. /\ UNCHANGED <<subscription, client, updates>> /\ Holds(w) /\ ~Done(w)
        /\ writer[w].sequence = row.lastSequence + 1
    BY <1>5 DEF Commit, LogInv
  <2>2. CASE row.exists /\ writer[w].sequence \notin stored
    <3>1. /\ row'.exists = row.exists /\ row'.lastSequence = row.lastSequence + 1
          /\ row'.version = row.version
      BY <1>5, <2>1, <2>2 DEF Commit, LogInv
    <3>2. Done(w)'
      BY <1>5, <2>2 DEF Commit, LogInv
    <3>3. \A v \in Writers : ~Done(v)
      BY <2>1 DEF LogInv, Holds
    <3>4. Published = row.lastSequence /\ Published' = row'.lastSequence - 1
      BY <3>2, <3>3 DEF Published
    <3>5. QED
      BY <2>1, <3>1, <3>4 DEF LogInv
  <2>3. CASE ~(row.exists /\ writer[w].sequence \notin stored)
    <3>1. row' = row /\ Unlock(w)
      BY <1>5, <2>3 DEF Commit
    <3>2. QED
      BY <1>2, <2>1, <3>1
  <2>4. QED
    BY <2>2, <2>3
<1>6. QED
  BY <1>1, <1>3, <1>4, <1>5

\* Other steps leave the appends, and with them what is published, alone.
LEMMA OtherQuiet ==
    ASSUME UNCHANGED writer, row'.lastSequence = row.lastSequence
    PROVE  Published' = Published
  BY DEF Published

\* The reply to a commit publishes the last of the stored sequences.
LEMMA PublishNext ==
    ASSUME LogInv, NEW w \in Writers, Publish(w)
    PROVE  /\ writer[w].sequence = row.lastSequence
           /\ Published = row.lastSequence - 1 /\ Published' = row.lastSequence
           /\ row.lastSequence \in Nat \ {0}
           /\ PublishEvent(row.lastSequence)
           /\ UNCHANGED <<row, stored, updates>>
<1>1. Holds(w) /\ Unlock(w)
  BY DEF Publish, LogInv
<1>2. \A v \in Writers : writer'[v].pc # "committed"
  BY <1>1, UnlockStep
<1>3. QED
  BY <1>1, <1>2 DEF Publish, LogInv, Published

-----------------------------------------------------------------------------
(* The clients *)

\* An append that is not published, an update and a deletion concern no client.
LEMMA ClientsFrame ==
    ASSUME ClientsInv, LogInv, UNCHANGED <<subscription, client>>, Published' = Published,
           row'.lastSequence \in Nat, row'.lastSequence >= row.lastSequence,
           row'.exists => row.exists
    PROVE  ClientsInv'
<1> SUFFICES ASSUME NEW c \in Clients
             PROVE  Attached(subscription[c], client[c], row', Published)
  BY DEF ClientsInv
<1> DEFINE s == subscription[c]
           f == client[c]
           p == Published
<1>1. Attached(s, f, row, p) /\ row.lastSequence \in Nat
  BY DEF ClientsInv, LogInv
<1>2. Live(s, f, row'.exists, p)
  BY <1>1 DEF Attached, Live
<1>3. Replaying(s, f, row'.exists, p, row'.lastSequence)
  <2> SUFFICES ASSUME s.status = "replaying"
               PROVE  /\ f.sent = <<>> /\ ~f.gone
                      /\ s.deleted => ~row'.exists
                      /\ \E a \in 0..p, k \in 0..row'.lastSequence :
                            Ranges(s, f, row'.exists, p, a, k)
    BY DEF Replaying
  <2>1. PICK a \in 0..p, k \in 0..row.lastSequence : Ranges(s, f, row.exists, p, a, k)
    BY <1>1 DEF Attached, Replaying
  <2>2. Ranges(s, f, row'.exists, p, a, k)
    BY <2>1 DEF Ranges
  <2>3. k \in 0..row'.lastSequence
    BY <1>1
  <2>4. QED
    BY <1>1, <2>2, <2>3 DEF Attached, Replaying
<1>4. QED
  BY <1>1, <1>2, <1>3 DEF Attached

\* One client's step: the others and the log stay as they are.
LEMMA OneClient ==
    ASSUME StreamInv, NEW c \in Clients,
           UNCHANGED <<row, writer, updates>>,
           subscription' = [subscription EXCEPT ![c] = subscription'[c]],
           client' = [client EXCEPT ![c] = client'[c]],
           Attached(subscription'[c], client'[c], row, Published),
           Informed(subscription'[c], client'[c], announced)
    PROVE  ClientsInv' /\ UpdatesInv'
<1>1. /\ subscription' = [d \in Clients |-> subscription'[d]]
      /\ client' = [d \in Clients |-> client'[d]]
      /\ \A d \in Clients : d # c => subscription'[d] = subscription[d] /\ client'[d] = client[d]
  BY Zenon DEF StreamInv, ClientsInv
<1>2. Published' = Published
  BY OtherQuiet
<1>3. \A d \in Clients : Attached(subscription'[d], client'[d], row, Published)
  BY <1>1 DEF StreamInv, ClientsInv
<1>4. \A d \in Clients : Informed(subscription'[d], client'[d], announced')
  BY <1>1 DEF StreamInv, UpdatesInv, updates
<1>5. QED
  BY <1>1, <1>2, <1>3, <1>4 DEF ClientsInv, UpdatesInv

LEMMA ConnectStep ==
    ASSUME StreamInv, NEW c \in Clients, Connect(c)
    PROVE  ClientsInv' /\ UpdatesInv'
<1> DEFINE s == subscription'[c]
           f == client'[c]
           p == Published
<1>1. Published \in Nat /\ row.lastSequence \in Nat
  BY PublishedBounds DEF StreamInv
<1>2. PICK from \in 0..MaxEvents :
         /\ client' = [client EXCEPT ![c] =
               [from |-> from, sent |-> <<>>, version |-> None, gone |-> FALSE,
                connections |-> @.connections + 1]]
         /\ subscription' = [subscription EXCEPT ![c] =
               [status |-> "replaying", lastSequence |-> from, buffered |-> {},
                update |-> None, deleted |-> FALSE, record |-> None, events |-> {},
                queried |-> FALSE]]
  BY DEF Connect
<1>3. from \in Nat /\ client[c].connections \in Nat
  BY EventsAreCounted DEF StreamInv, ClientsInv, Attached, ClientType
<1>4. /\ s = [status |-> "replaying", lastSequence |-> from, buffered |-> {},
              update |-> None, deleted |-> FALSE, record |-> None, events |-> {},
              queried |-> FALSE]
      /\ f = [from |-> from, sent |-> <<>>, version |-> None, gone |-> FALSE,
              connections |-> client[c].connections + 1]
      /\ subscription' = [subscription EXCEPT ![c] = s]
      /\ client' = [client EXCEPT ![c] = f]
  BY <1>2, Zenon DEF StreamInv, ClientsInv
<1> HIDE DEF s, f
<1>5. s \in SubscriptionType /\ f \in ClientType
  BY <1>3, <1>4 DEF SubscriptionType, ClientType, Counts
<1>6. Live(s, f, row.exists, p)
  BY <1>4 DEF Live
<1>7. Replaying(s, f, row.exists, p, row.lastSequence)
  <2>1. Ranges(s, f, row.exists, p, p, 0)
    BY <1>1, <1>3, <1>4 DEF Ranges
  <2>2. p \in 0..p /\ 0 \in 0..row.lastSequence
    BY <1>1
  <2>3. QED
    BY <1>4, <2>1, <2>2 DEF Replaying
<1>8. Informed(s, f, announced)
  BY <1>4 DEF Informed, None
<1>9. UNCHANGED <<row, writer, updates>>
  BY DEF Connect
<1>10. Attached(s, f, row, p)
  BY <1>5, <1>6, <1>7 DEF Attached
<1>11. QED
  BY <1>4, <1>8, <1>9, <1>10, OneClient DEF s, f

LEMMA ReadRecordStep ==
    ASSUME StreamInv, NEW c \in Clients, ReadRecord(c)
    PROVE  ClientsInv' /\ UpdatesInv'
<1> DEFINE s == subscription[c]
           t == subscription'[c]
           f == client[c]
           p == Published
<1>1. /\ t = [s EXCEPT !.record = row.version] /\ client'[c] = f
      /\ subscription' = [subscription EXCEPT ![c] = t]
      /\ client' = [client EXCEPT ![c] = f]
  BY Zenon DEF StreamInv, ClientsInv, ReadRecord
<1>2. Attached(s, f, row, p) /\ row.version \in Nat /\ announced <= row.version
  BY DEF StreamInv, LogInv, NewsInv, ClientsInv
<1>3. Informed(s, f, announced)
  BY DEF StreamInv, UpdatesInv
<1> HIDE DEF t
<1>4. /\ t \in SubscriptionType
      /\ t.status = s.status /\ t.buffered = s.buffered /\ t.events = s.events
      /\ t.queried = s.queried /\ t.deleted = s.deleted /\ t.update = s.update
      /\ t.record = row.version
  BY <1>1, <1>2 DEF Attached, SubscriptionType, Counts
<1>5. s.status = "replaying" /\ UNCHANGED <<row, writer, updates>>
  BY DEF ReadRecord
<1>6. Attached(t, f, row, p)
  BY <1>2, <1>4, <1>5 DEF Attached, Live, Replaying, Ranges
<1>7. Informed(t, f, announced)
  BY <1>2, <1>3, <1>4, <1>5 DEF Informed
<1>8. QED
  BY <1>1, <1>5, <1>6, <1>7, OneClient DEF t

\* The query finds at least what was published when the client subscribed.
LEMMA ReadEventsStep ==
    ASSUME StreamInv, NEW c \in Clients, ReadEvents(c)
    PROVE  ClientsInv' /\ UpdatesInv'
<1> DEFINE s == subscription[c]
           t == subscription'[c]
           f == client[c]
           p == Published
           found == {n \in stored : n > f.from}
           k == IF row.exists THEN row.lastSequence ELSE 0
<1>1. /\ t = [s EXCEPT !.queried = TRUE, !.events = found] /\ client'[c] = f
      /\ subscription' = [subscription EXCEPT ![c] = t]
      /\ client' = [client EXCEPT ![c] = f]
  BY Zenon DEF StreamInv, ClientsInv, ReadEvents
<1>2. /\ Attached(s, f, row, p) /\ p \in Nat /\ row.lastSequence \in Nat
      /\ p <= row.lastSequence /\ f.from \in Nat
  BY PublishedBounds DEF StreamInv, LogInv, ClientsInv, Attached, ClientType
<1>3. Informed(s, f, announced)
  BY DEF StreamInv, UpdatesInv
<1>4. k \in 0..row.lastSequence /\ found = (f.from + 1)..k /\ found \subseteq Nat
  BY <1>2 DEF StreamInv, LogInv
<1> HIDE DEF t, found
<1>5. /\ t \in SubscriptionType
      /\ t.status = s.status /\ t.buffered = s.buffered /\ t.events = found
      /\ t.queried /\ t.deleted = s.deleted /\ t.update = s.update
      /\ t.record = s.record
  BY <1>1, <1>2, <1>4 DEF Attached, SubscriptionType
<1>6. s.status = "replaying" /\ UNCHANGED <<row, writer, updates>>
  BY DEF ReadEvents
<1>7. Replaying(t, f, row.exists, p, row.lastSequence)
  <2>1. PICK a \in 0..p, j \in 0..row.lastSequence : Ranges(s, f, row.exists, p, a, j)
    BY <1>2, <1>6 DEF Attached, Replaying
  <2>2. Ranges(t, f, row.exists, p, a, k)
    BY <1>2, <1>4, <1>5, <2>1 DEF Ranges
  <2>3. f.sent = <<>> /\ ~f.gone /\ (t.deleted => ~row.exists)
    BY <1>2, <1>5, <1>6 DEF Attached, Replaying
  <2>4. QED
    BY <1>4, <2>2, <2>3 DEF Replaying
<1>8. Attached(t, f, row, p)
  BY <1>2, <1>5, <1>6, <1>7 DEF Attached, Live
<1>9. Informed(t, f, announced)
  BY <1>3, <1>5, <1>6 DEF Informed
<1>10. QED
  BY <1>1, <1>6, <1>8, <1>9, OneClient DEF t

LEMMA DisconnectStep ==
    ASSUME StreamInv, NEW c \in Clients, Disconnect(c)
    PROVE  ClientsInv' /\ UpdatesInv'
<1> DEFINE s == subscription[c]
           t == subscription'[c]
           f == client[c]
<1>1. /\ t = [s EXCEPT
                !.status = "off", !.buffered = {}, !.update = None, !.deleted = FALSE,
                !.record = None, !.events = {}, !.queried = FALSE]
      /\ client'[c] = f
      /\ subscription' = [subscription EXCEPT ![c] = t]
      /\ client' = [client EXCEPT ![c] = f]
  BY Zenon DEF StreamInv, ClientsInv, Disconnect
<1>2. Attached(s, f, row, Published)
  BY DEF StreamInv, ClientsInv
<1> HIDE DEF t
<1>3. t \in SubscriptionType /\ t.status = "off"
  BY <1>1, <1>2 DEF Attached, SubscriptionType, Counts
<1>4. UNCHANGED <<row, writer, updates>>
  BY DEF Disconnect
<1>5. Attached(t, f, row, Published) /\ Informed(t, f, announced)
  BY <1>2, <1>3 DEF Attached, Live, Replaying, Informed
<1>6. QED
  BY <1>1, <1>4, <1>5, OneClient DEF t

\* What the end of a replay sends, and what it leaves behind.
EndsReplay(c, batch, last, version) ==
    /\ client' = [client EXCEPT ![c] = [client[c] EXCEPT
          !.sent = batch, !.version = version, !.gone = subscription[c].deleted]]
    /\ subscription' = [subscription EXCEPT ![c] = [subscription[c] EXCEPT
          !.status = IF subscription[c].deleted THEN "off" ELSE "ready",
          !.lastSequence = last, !.buffered = {}, !.update = None,
          !.deleted = FALSE, !.record = None, !.events = {}, !.queried = FALSE]]
    /\ Len(batch) <= row.lastSequence
    /\ \A i \in 1..Len(batch) : batch[i] > client[c].from
    /\ \A i \in 1..(Len(batch) - 1) : batch[i] < batch[i + 1]
    /\ last = IF batch = <<>> THEN client[c].from ELSE batch[Len(batch)]
    /\ row.exists => /\ Published <= last
                     /\ \A i \in 1..Len(batch) : batch[i] = client[c].from + i
    /\ version >= announced

LEMMA SnapshotSends ==
    ASSUME StreamInv, NEW c \in Clients, Snapshot(c)
    PROVE  /\ subscription[c].status = "replaying"
           /\ client[c].sent = <<>> /\ ~client[c].gone
           /\ \E batch \in Seq(1..row.lastSequence), last \in Nat, version \in Counts :
                 EndsReplay(c, batch, last, version)
<1> DEFINE s == subscription[c]
           f == client[c]
           p == Published
           log == row.lastSequence
           last0 == Highest(s.events, f.from)
           flushed == Fresh(s.buffered, last0)
           batch == Ascending(s.events) \o Ascending(flushed)
           last == Highest(flushed, last0)
           version == IF s.update = None THEN s.record ELSE s.update
<1>1. /\ s.status = "replaying" /\ s.record # None /\ s.queried
      /\ client' = [client EXCEPT
            ![c].sent = @ \o Ascending(s.events) \o Ascending(flushed),
            ![c].version = version, ![c].gone = s.deleted]
      /\ subscription' = [subscription EXCEPT ![c] =
            [s EXCEPT !.status = IF s.deleted THEN "off" ELSE "ready",
                      !.lastSequence = last,
                      !.buffered = {}, !.update = None, !.deleted = FALSE,
                      !.record = None, !.events = {}, !.queried = FALSE]]
  BY Zenon DEF Snapshot
<1>2. /\ s \in SubscriptionType /\ f \in ClientType /\ p \in Nat /\ log \in Nat /\ p <= log
      /\ Replaying(s, f, row.exists, p, log)
  BY PublishedBounds DEF StreamInv, ClientsInv, Attached
<1>3. f.sent = <<>> /\ ~f.gone /\ f.from \in Nat
  BY <1>1, <1>2 DEF Replaying, ClientType
<1>4. PICK a \in 0..p, k \in 0..log : Ranges(s, f, row.exists, p, a, k)
  BY <1>1, <1>2 DEF Replaying
<1>5. /\ a \in Nat /\ k \in Nat /\ k <= log
      /\ s.events = (f.from + 1)..k /\ s.buffered = (a + 1)..p
      /\ row.exists => a <= k
  BY <1>1, <1>2, <1>4 DEF Ranges
<1>6. last0 = Last1(f.from, k, f.from)
  BY <1>3, <1>5, HighestRange
<1>7. Continues(f.from, a, k, p, log, batch, last)
  <2>1. ReplayEnds(f.from, a, k, p, log, last0, flushed, batch)
    BY <1>2, <1>3, <1>5, <1>6 DEF ReplayEnds
  <2>2. QED
    BY <2>1, ReplayedBatch
<1>8. version \in Counts /\ version >= announced
  <2>1. version \in Counts
    BY <1>2 DEF SubscriptionType
  <2>2. Informed(s, f, announced)
    BY DEF StreamInv, UpdatesInv
  <2>3. QED
    BY <1>1, <2>1, <2>2 DEF Informed
<1>9. client' = [client EXCEPT ![c] = [f EXCEPT
            !.sent = batch, !.version = version, !.gone = s.deleted]]
  <2>1. Ascending(s.events) \in Seq(Nat)
    <3>1. Span(f.from, k) \in Seq(Nat)
      BY <1>3, <1>5 DEF Span
    <3>2. QED
      BY <3>1, <1>3, <1>5, AscendingRange
  <2>2. f.sent \o Ascending(s.events) \o Ascending(flushed) = batch
    BY <2>1, <1>3, ConcatEmptySeq
  <2> HIDE DEF batch, flushed, version, s
  <2>3. QED
    BY <1>1, <2>2, Zenon DEF StreamInv, ClientsInv
<1> HIDE DEF batch, last, version
<1>10. EndsReplay(c, batch, last, version)
  BY <1>1, <1>5, <1>7, <1>8, <1>9 DEF EndsReplay, Continues
<1>11. QED
  BY <1>1, <1>3, <1>7, <1>8, <1>10 DEF Continues

LEMMA SnapshotStep ==
    ASSUME StreamInv, NEW c \in Clients, Snapshot(c)
    PROVE  ClientsInv' /\ UpdatesInv'
<1> DEFINE s == subscription[c]
           t == subscription'[c]
           f == client[c]
           g == client'[c]
<1>1. PICK batch \in Seq(1..row.lastSequence), last \in Nat, version \in Counts :
         EndsReplay(c, batch, last, version)
  BY SnapshotSends
<1>2. /\ t = [s EXCEPT
                !.status = IF s.deleted THEN "off" ELSE "ready",
                !.lastSequence = last, !.buffered = {}, !.update = None,
                !.deleted = FALSE, !.record = None, !.events = {}, !.queried = FALSE]
      /\ g = [f EXCEPT !.sent = batch, !.version = version, !.gone = s.deleted]
      /\ subscription' = [subscription EXCEPT ![c] = t]
      /\ client' = [client EXCEPT ![c] = g]
  BY <1>1, Zenon DEF StreamInv, ClientsInv, EndsReplay
<1>3. s \in SubscriptionType /\ f \in ClientType /\ row.lastSequence \in Nat
  BY DEF StreamInv, ClientsInv, Attached, LogInv
<1>11. /\ last = IF batch = <<>> THEN f.from ELSE batch[Len(batch)]
       /\ ~f.gone
       /\ row.exists => Published <= last
       /\ version >= announced
  BY <1>1, SnapshotSends DEF EndsReplay
<1> HIDE DEF s, t, f, g
<1>4. /\ t \in SubscriptionType /\ t.lastSequence = last
      /\ t.status = IF s.deleted THEN "off" ELSE "ready"
  BY <1>2, <1>3 DEF SubscriptionType, Counts
<1>5. /\ g \in ClientType /\ g.from = f.from /\ g.sent = batch /\ g.version = version
      /\ g.gone = s.deleted
  <2>1. batch \in Seq(Nat)
    BY <1>3
  <2>2. s.deleted \in BOOLEAN
    BY <1>3 DEF SubscriptionType
  <2>3. QED
    BY ONLY <1>2, <1>3, <2>1, <2>2, version \in Counts DEF ClientType
<1>6. Live(t, g, row.exists, Published)
  BY <1>4, <1>5, <1>11 DEF Live, At
<1>7. t.status # "replaying"
  BY <1>4
<1>8. Attached(t, g, row, Published) /\ Informed(t, g, announced)
  BY <1>4, <1>5, <1>6, <1>7, <1>11 DEF Attached, Replaying, Informed
<1>9. UNCHANGED <<row, writer, updates>>
  BY DEF Snapshot
<1>10. QED
  BY <1>2, <1>8, <1>9, OneClient DEF t, g

\* What the publication of an event does to a client: a replay buffers it, the
\* others are sent it if it is new to them.
LEMMA PublishOne ==
    ASSUME StreamInv, NEW n \in Nat, n > 0, PublishEvent(n), NEW c \in Clients
    PROVE  LET s == subscription[c]
               new == s.status = "ready" /\ n > s.lastSequence
           IN  /\ subscription'[c] = [s EXCEPT
                     !.buffered = IF s.status = "replaying" THEN @ \cup {n} ELSE @,
                     !.lastSequence = IF new THEN n ELSE @]
               /\ client'[c] = [client[c] EXCEPT !.sent = IF new THEN Append(@, n) ELSE @]
<1> DEFINE s == subscription[c]
           new == s.status = "ready" /\ n > s.lastSequence
           live == IF s.status = "ready" THEN Fresh({n}, s.lastSequence) ELSE {}
<1>1. /\ subscription'[c] = [s EXCEPT
            !.buffered = IF s.status = "replaying" THEN @ \cup {n} ELSE @,
            !.lastSequence = Highest(live, @)]
      /\ client'[c] = [client[c] EXCEPT !.sent = @ \o Ascending(live)]
  BY DEF PublishEvent
<1>2. s \in SubscriptionType /\ client[c] \in ClientType
  BY DEF StreamInv, ClientsInv, Attached
<1>3. s.lastSequence \in Nat /\ client[c].sent \in Seq(Nat)
  BY <1>2 DEF SubscriptionType, ClientType
<1>4. live = IF new THEN {n} ELSE {}
  BY <1>3 DEF Fresh
<1>5. Highest(live, s.lastSequence) = IF new THEN n ELSE s.lastSequence
  BY <1>4 DEF Highest
<1>6. client[c].sent \o Ascending(live) =
          IF new THEN Append(client[c].sent, n) ELSE client[c].sent
  <2>1. CASE new
    <3>1. n - 1 \in Nat /\ ((n - 1) + 1)..n = {n}
      OBVIOUS
    <3>2. Ascending({n}) = Span(n - 1, n)
      BY <3>1, AscendingRange
    <3>3. Span(n - 1, n) = <<n>>
      BY <3>1 DEF Span
    <3>4. client[c].sent \o <<n>> = Append(client[c].sent, n)
      BY <1>3
    <3>5. QED
      BY <2>1, <1>4, <3>2, <3>3, <3>4
  <2>2. CASE ~new
    <3>1. (0 + 1)..0 = {}
      OBVIOUS
    <3>2. Ascending({}) = Span(0, 0)
      BY <3>1, AscendingRange
    <3>3. Span(0, 0) = <<>>
      BY DEF Span
    <3>4. client[c].sent \o <<>> = client[c].sent
      BY <1>3
    <3>5. QED
      BY <2>2, <1>4, <3>2, <3>3, <3>4
  <2>3. QED
    BY <2>1, <2>2
<1> HIDE DEF live
<1>7. QED
  BY <1>1, <1>2, <1>5, <1>6 DEF SubscriptionType, ClientType

\* Nothing is published past a replay, or twice to a client.
LEMMA PublishStep ==
    ASSUME StreamInv, NEW w \in Writers, Publish(w)
    PROVE  ClientsInv' /\ UpdatesInv'
<1> DEFINE n == row.lastSequence
           s(c) == subscription[c]
           t(c) == subscription'[c]
           f(c) == client[c]
           g(c) == client'[c]
           new(c) == s(c).status = "ready" /\ n > s(c).lastSequence
<1>1. /\ Published = n - 1 /\ Published' = n /\ n \in Nat /\ n > 0
      /\ PublishEvent(n) /\ row' = row /\ announced' = announced
  BY PublishNext DEF StreamInv, updates
<1>2. /\ subscription' = [c \in Clients |-> t(c)] /\ client' = [c \in Clients |-> g(c)]
  BY <1>1, Zenon DEF PublishEvent
<1>3. ASSUME NEW c \in Clients
      PROVE  /\ Attached(t(c), g(c), row, n)
             /\ Informed(t(c), g(c), announced)
  <2>1. /\ t(c) = [s(c) EXCEPT
              !.buffered = IF s(c).status = "replaying" THEN @ \cup {n} ELSE @,
              !.lastSequence = IF new(c) THEN n ELSE @]
        /\ g(c) = [f(c) EXCEPT !.sent = IF new(c) THEN Append(@, n) ELSE @]
    BY <1>1, PublishOne
  <2>2. /\ Attached(s(c), f(c), row, n - 1)
        /\ Informed(s(c), f(c), announced)
    BY <1>1 DEF StreamInv, ClientsInv, UpdatesInv
  <2>3. s(c) \in SubscriptionType /\ f(c) \in ClientType
    BY <2>2 DEF Attached
  <2> DEFINE buffered == IF s(c).status = "replaying" THEN s(c).buffered \cup {n}
                         ELSE s(c).buffered
             last == IF new(c) THEN n ELSE s(c).lastSequence
             sent == IF new(c) THEN Append(f(c).sent, n) ELSE f(c).sent
  <2>4. buffered \in SUBSET Nat /\ last \in Nat /\ sent \in Seq(Nat)
    BY <1>1, <2>3 DEF SubscriptionType, ClientType
  <2>5. t(c) = [s(c) EXCEPT !.buffered = buffered, !.lastSequence = last]
    BY <2>1
  <2>6. g(c) = [f(c) EXCEPT !.sent = sent]
    BY <2>1
  <2> HIDE DEF s, t, f, g, buffered, last, sent
  <2>7. /\ t(c) \in SubscriptionType /\ t(c).status = s(c).status
        /\ t(c).buffered = buffered /\ t(c).lastSequence = last
        /\ t(c).update = s(c).update /\ t(c).deleted = s(c).deleted
        /\ t(c).record = s(c).record /\ t(c).events = s(c).events
        /\ t(c).queried = s(c).queried
    BY <2>3, <2>4, <2>5 DEF SubscriptionType
  <2>8. /\ g(c) \in ClientType /\ g(c).from = f(c).from /\ g(c).sent = sent
        /\ g(c).version = f(c).version /\ g(c).gone = f(c).gone
    BY <2>3, <2>4, <2>6 DEF ClientType
  <2>9. Live(t(c), g(c), row.exists, n)
    <3> SUFFICES ASSUME s(c).status = "ready"
                 PROVE  /\ last = At(g(c)) /\ ~f(c).gone
                        /\ row.exists => n <= At(g(c))
      BY <2>7, <2>8 DEF Live
    <3>1. /\ s(c).lastSequence = At(f(c)) /\ ~f(c).gone
          /\ row.exists => n - 1 <= At(f(c))
      BY <2>2 DEF Attached, Live
    <3>2. CASE new(c)
      <4>1. sent # <<>> /\ sent[Len(sent)] = n /\ last = n
        BY <3>2, <1>1, <2>3 DEF sent, last, ClientType
      <4>2. QED
        BY <3>1, <4>1, <1>1, <2>8 DEF At
    <3>3. CASE ~new(c)
      <4>1. sent = f(c).sent /\ last = s(c).lastSequence
        BY <3>3 DEF sent, last
      <4>2. n <= s(c).lastSequence
        BY <3>3, <1>1, <2>3 DEF SubscriptionType
      <4>3. QED
        BY <3>1, <4>1, <4>2, <2>8 DEF At
    <3>4. QED
      BY <3>2, <3>3
  <2>10. Replaying(t(c), g(c), row.exists, n, row.lastSequence)
    <3> SUFFICES ASSUME s(c).status = "replaying"
                 PROVE  Replaying(t(c), g(c), row.exists, n, n)
      BY <2>7 DEF Replaying
    <3>1. /\ f(c).sent = <<>> /\ ~f(c).gone
          /\ s(c).deleted => ~row.exists
      BY <2>2 DEF Attached, Replaying
    <3>2. PICK a \in 0..(n - 1), k \in 0..n : Ranges(s(c), f(c), row.exists, n - 1, a, k)
      BY <2>2 DEF Attached, Replaying
    <3>3. buffered = (a + 1)..n
      <4>1. buffered = ((a + 1)..(n - 1)) \cup {n}
        BY <3>2 DEF Ranges, buffered
      <4>2. ((a + 1)..(n - 1)) \cup {n} = (a + 1)..n
        BY <1>1
      <4>3. QED
        BY <4>1, <4>2
    <3>4. Ranges(t(c), g(c), row.exists, n, a, k) /\ a \in 0..n
      BY <1>1, <2>7, <2>8, <3>2, <3>3 DEF Ranges
    <3>5. g(c).sent = <<>>
      BY <2>8, <3>1 DEF sent
    <3>6. QED
      BY <2>7, <2>8, <3>1, <3>4, <3>5 DEF Replaying
  <2>11. QED
    BY <2>2, <2>7, <2>8, <2>9, <2>10 DEF Attached, Informed
<1>4. QED
  BY <1>1, <1>2, <1>3 DEF ClientsInv, UpdatesInv

LEMMA PublishUpdateStep ==
    ASSUME StreamInv, NEW u \in Updaters, PublishUpdate(u)
    PROVE  ClientsInv' /\ UpdatesInv'
<1> DEFINE s(c) == subscription[c]
           t(c) == subscription'[c]
           f(c) == client[c]
           g(c) == client'[c]
           v == updater[u]
<1>1. /\ subscription' = [c \in Clients |-> t(c)] /\ client' = [c \in Clients |-> g(c)]
  BY Zenon DEF PublishUpdate
<1>2. row' = row /\ Published' = Published /\ announced' = v /\ v \in Nat
  BY OtherQuiet DEF PublishUpdate, StreamInv, NewsInv, Counts
<1>3. ASSUME NEW c \in Clients
      PROVE  Attached(t(c), g(c), row, Published) /\ Informed(t(c), g(c), v)
  <2> DEFINE update == IF s(c).status = "replaying" THEN v ELSE s(c).update
             version == IF s(c).status = "ready" THEN v ELSE f(c).version
  <2>1. t(c) = [s(c) EXCEPT !.update = update] /\ g(c) = [f(c) EXCEPT !.version = version]
    BY DEF PublishUpdate
  <2>2. Attached(s(c), f(c), row, Published)
    BY DEF StreamInv, ClientsInv
  <2>3. s(c) \in SubscriptionType /\ f(c) \in ClientType
    BY <2>2 DEF Attached
  <2>4. update \in Counts /\ version \in Counts
    BY <1>2, <2>3 DEF SubscriptionType, ClientType, Counts
  <2> HIDE DEF s, t, f, g, v, update, version
  <2>5. /\ t(c) \in SubscriptionType /\ t(c).status = s(c).status
        /\ t(c).buffered = s(c).buffered /\ t(c).lastSequence = s(c).lastSequence
        /\ t(c).update = update /\ t(c).deleted = s(c).deleted
        /\ t(c).events = s(c).events /\ t(c).queried = s(c).queried
    BY <2>1, <2>3, <2>4 DEF SubscriptionType
  <2>6. /\ g(c) \in ClientType /\ g(c).from = f(c).from /\ g(c).sent = f(c).sent
        /\ g(c).version = version /\ g(c).gone = f(c).gone
    BY <2>1, <2>3, <2>4 DEF ClientType
  <2>7. Attached(t(c), g(c), row, Published)
    BY <2>2, <2>5, <2>6 DEF Attached, Live, Replaying, Ranges, At
  <2>8. Informed(t(c), g(c), v)
    BY <1>2, <2>5, <2>6 DEF Informed, update, version, None
  <2>9. QED
    BY <2>7, <2>8
<1>4. QED
  BY <1>1, <1>2, <1>3 DEF ClientsInv, UpdatesInv

\* Replays learn of the deletion when they end, the others now.
LEMMA PublishDeletionOne ==
    ASSUME StreamInv, PublishDeletion, NEW c \in Clients
    PROVE  LET s == subscription[c]
               ready == s.status = "ready"
           IN  /\ subscription'[c] = [s EXCEPT
                     !.deleted = @ \/ s.status = "replaying",
                     !.status = IF ready THEN "off" ELSE @]
               /\ client'[c] = [client[c] EXCEPT !.gone = @ \/ ready]
               /\ ~row.exists /\ row' = row /\ Published' = Published
<1>1. ~row.exists
  BY DEF PublishDeletion, StreamInv, NewsInv
<1>2. QED
  BY <1>1, OtherQuiet DEF PublishDeletion

LEMMA PublishDeletionStep ==
    ASSUME StreamInv, PublishDeletion
    PROVE  ClientsInv' /\ UpdatesInv'
<1> DEFINE s(c) == subscription[c]
           t(c) == subscription'[c]
           f(c) == client[c]
           g(c) == client'[c]
<1>1. /\ subscription' = [c \in Clients |-> t(c)] /\ client' = [c \in Clients |-> g(c)]
      /\ row' = row /\ Published' = Published /\ announced' = announced
  BY OtherQuiet, Zenon DEF PublishDeletion
<1>2. ASSUME NEW c \in Clients
      PROVE  Attached(t(c), g(c), row, Published) /\ Informed(t(c), g(c), announced)
  <2> DEFINE deleted == s(c).deleted \/ s(c).status = "replaying"
             status == IF s(c).status = "ready" THEN "off" ELSE s(c).status
             gone == f(c).gone \/ s(c).status = "ready"
  <2>1. /\ t(c) = [s(c) EXCEPT !.deleted = deleted, !.status = status]
        /\ g(c) = [f(c) EXCEPT !.gone = gone]
        /\ ~row.exists
    BY PublishDeletionOne
  <2>2. Attached(s(c), f(c), row, Published) /\ Informed(s(c), f(c), announced)
    BY DEF StreamInv, ClientsInv, UpdatesInv
  <2>3. s(c) \in SubscriptionType /\ f(c) \in ClientType
    BY <2>2 DEF Attached
  <2>4. /\ deleted \in BOOLEAN /\ gone \in BOOLEAN
        /\ status \in {"off", "replaying"} /\ (status = "replaying" => s(c).status = "replaying")
    BY <2>3 DEF SubscriptionType, ClientType
  <2> HIDE DEF s, t, f, g, deleted, status
  <2>5. /\ t(c) \in SubscriptionType /\ t(c).status = status
        /\ t(c).buffered = s(c).buffered /\ t(c).events = s(c).events
        /\ t(c).queried = s(c).queried /\ t(c).update = s(c).update
        /\ t(c).record = s(c).record
    BY <2>1, <2>3, <2>4 DEF SubscriptionType
  <2>6. /\ g(c) \in ClientType /\ g(c).from = f(c).from /\ g(c).sent = f(c).sent
        /\ g(c).version = f(c).version
        /\ s(c).status = "replaying" => g(c).gone = f(c).gone
    <3>1. s(c).status = "replaying" => gone = f(c).gone
      BY <2>3 DEF ClientType
    <3> HIDE DEF gone
    <3>2. QED
      BY <3>1, <2>1, <2>3, <2>4 DEF ClientType
  <2>7. QED
    BY <2>1, <2>2, <2>4, <2>5, <2>6 DEF Attached, Live, Replaying, Ranges, Informed
<1>3. QED
  BY <1>1, <1>2 DEF ClientsInv, UpdatesInv

LEMMA StreamStep == StreamInv /\ [Next]_vars => StreamInv'
<1> SUFFICES ASSUME StreamInv, [Next]_vars
             PROVE  StreamInv'
  OBVIOUS
<1>1. LogInv' /\ NewsInv'
  BY LogStep, NewsStep DEF StreamInv
<1>2. row.lastSequence \in Nat
  BY DEF StreamInv, LogInv
<1>3. ASSUME NEW w \in Writers, Append1(w) \/ ReadSequence(w) \/ Commit(w) \/ Abort(w)
      PROVE  ClientsInv' /\ UpdatesInv'
  <2>1. /\ UNCHANGED <<subscription, client, updates>>
        /\ row'.exists = row.exists /\ row'.version = row.version
        /\ row'.lastSequence \in {row.lastSequence, row.lastSequence + 1}
        /\ Published' = Published
    BY <1>3, AppendQuiet DEF StreamInv
  <2>2. ClientsInv'
    BY <1>2, <2>1, ClientsFrame DEF StreamInv
  <2>3. QED
    BY <2>1, <2>2 DEF StreamInv, UpdatesInv, updates
<1>4. ASSUME UNCHANGED <<subscription, client, writer, announced>>,
             row'.lastSequence = row.lastSequence, row'.exists => row.exists
      PROVE  ClientsInv' /\ UpdatesInv'
  BY <1>2, <1>4, OtherQuiet, ClientsFrame DEF StreamInv, UpdatesInv
<1>5. ASSUME NEW u \in Updaters, WriteRow(u) \/ ReadRow(u) \/ Discard(u)
      PROVE  ClientsInv' /\ UpdatesInv'
  <2>1. /\ UNCHANGED <<subscription, client, writer, announced>>
        /\ row'.lastSequence = row.lastSequence /\ (row'.exists => row.exists)
    BY <1>5 DEF WriteRow, ReadRow, Discard, StreamInv, LogInv
  <2>2. QED
    BY <1>4, <2>1
<1>6. ASSUME Next
      PROVE  ClientsInv' /\ UpdatesInv'
  <2>1. ASSUME NEW w \in Writers, Append1(w) \/ AppendSteps(w) \/ Abort(w)
        PROVE  ClientsInv' /\ UpdatesInv'
    BY <1>3, <2>1, PublishStep DEF AppendSteps
  <2>2. ASSUME NEW c \in Clients, Connect(c) \/ Replay(c) \/ Disconnect(c)
        PROVE  ClientsInv' /\ UpdatesInv'
    BY <2>2, ConnectStep, ReadRecordStep, ReadEventsStep, SnapshotStep, DisconnectStep
       DEF Replay
  <2>3. CASE Delete
    BY <1>4, <2>3 DEF Delete, StreamInv, LogInv
  <2>4. QED
    BY <1>5, <1>6, <2>1, <2>2, <2>3, PublishUpdateStep, PublishDeletionStep DEF Next
<1>7. ASSUME UNCHANGED vars
      PROVE  ClientsInv' /\ UpdatesInv'
  BY <1>4, <1>7 DEF vars, updates
<1>8. QED
  BY <1>1, <1>6, <1>7 DEF StreamInv

\* The inductive invariant holds in every state, whatever interleaving of
\* appends, transactions, publications and replays led to it.
THEOREM StreamInvariant == Spec => []StreamInv
  BY StreamInit, StreamStep, PTL DEF Spec

\* No client that has its snapshot knows an older row than was published last,
\* whichever operations publish at the same time and however old their rows are.
THEOREM SubscribersKnowTheRow == Spec => []UpdatesReachSubscribers
<1>1. StreamInv => UpdatesReachSubscribers
  BY DEF StreamInv, UpdatesInv, Informed, UpdatesReachSubscribers
<1>2. QED
  BY <1>1, StreamInvariant, PTL

-----------------------------------------------------------------------------
(* The feed *)

Fed == [c \in Clients |->
          [from |-> client[c].from, sent |-> client[c].sent, gone |-> client[c].gone]]

\* A step that sends nobody anything leaves the feed as it is.
LEMMA FeedQuiet ==
    ASSUME client' = client, row'.lastSequence = row.lastSequence, row'.exists = row.exists
    PROVE  UNCHANGED Feed!feedVars
  BY DEF Feed!feedVars

LEMMA AppendFeeds ==
    ASSUME StreamInv, NEW w \in Writers,
           Append1(w) \/ ReadSequence(w) \/ Commit(w) \/ Abort(w)
    PROVE  [Feed!FeedNext]_(Feed!feedVars)
<1>1. /\ UNCHANGED <<subscription, client, updates>>
      /\ row'.exists = row.exists /\ row'.version = row.version
      /\ row'.lastSequence \in {row.lastSequence, row.lastSequence + 1}
  BY AppendQuiet DEF StreamInv
<1>2. CASE row'.lastSequence = row.lastSequence
  BY <1>1, <1>2, FeedQuiet
<1>3. CASE row'.lastSequence # row.lastSequence
  <2>1. row.exists
    BY <1>3 DEF Append1, ReadSequence, Commit, Abort
  <2>2. Feed!Store
    BY <1>1, <1>3, <2>1 DEF Feed!Store
  <2>3. QED
    BY <2>2 DEF Feed!FeedNext
<1>4. QED
  BY <1>2, <1>3

\* A step that sends something to clients, to each what the feed allows.
LEMMA Delivers ==
    ASSUME row'.lastSequence = row.lastSequence, row'.exists = row.exists,
           \A c \in Clients : \/ Fed'[c] = Fed[c]
                              \/ Feed!Opens(Fed'[c])
                              \/ Feed!Sends(Fed[c], Fed'[c])
                              \/ Feed!Announces(Fed[c], Fed'[c])
    PROVE  Feed!FeedNext
<1>1. Fed' = [c \in Clients |-> Fed'[c]]
  BY DEF Fed
<1>2. Feed!Deliver
  BY <1>1 DEF Feed!Deliver, Fed
<1>3. QED
  BY <1>2 DEF Feed!FeedNext

LEMMA FedChanges ==
    ASSUME StreamInv, NEW c \in Clients, NEW g,
           client' = [client EXCEPT ![c] = g]
    PROVE  /\ Fed'[c] = [from |-> g.from, sent |-> g.sent, gone |-> g.gone]
           /\ \A d \in Clients : d # c => Fed'[d] = Fed[d]
  BY DEF Fed, StreamInv, ClientsInv

LEMMA ConnectFeeds ==
    ASSUME StreamInv, NEW c \in Clients, Connect(c)
    PROVE  Feed!FeedNext
<1>1. PICK from \in 0..MaxEvents :
         client' = [client EXCEPT ![c] =
               [from |-> from, sent |-> <<>>, version |-> None, gone |-> FALSE,
                connections |-> @.connections + 1]]
  BY DEF Connect
<1> DEFINE g == [from |-> from, sent |-> <<>>, version |-> None, gone |-> FALSE,
                 connections |-> client[c].connections + 1]
<1>2. client' = [client EXCEPT ![c] = g]
  BY <1>1
<1>3. g.from = from /\ g.sent = <<>> /\ g.gone = FALSE
  OBVIOUS
<1> HIDE DEF g
<1>4. /\ Fed'[c] = [from |-> from, sent |-> <<>>, gone |-> FALSE]
      /\ \A d \in Clients : d # c => Fed'[d] = Fed[d]
  BY <1>2, <1>3, FedChanges
<1>5. Feed!Opens(Fed'[c])
  BY <1>4 DEF Feed!Opens
<1>6. UNCHANGED row
  BY DEF Connect
<1>7. QED
  BY <1>4, <1>5, <1>6, Delivers

\* A replay that saw the deletion announces it with the last events it sends.
LEMMA SnapshotFeeds ==
    ASSUME StreamInv, NEW c \in Clients, Snapshot(c)
    PROVE  Feed!FeedNext
<1> DEFINE f == client[c]
           deleted == subscription[c].deleted
           log == row.lastSequence
<1>1. PICK batch \in Seq(1..log), last \in Nat, version \in Counts :
         EndsReplay(c, batch, last, version)
  BY SnapshotSends
<1>2. /\ f \in ClientType /\ log \in Nat /\ f.sent = <<>> /\ ~f.gone
      /\ deleted \in BOOLEAN /\ (deleted => ~row.exists)
  BY SnapshotSends
     DEF StreamInv, ClientsInv, Attached, Replaying, LogInv, SubscriptionType
<1> DEFINE g == [f EXCEPT !.sent = batch, !.version = version, !.gone = deleted]
<1>3. g.from = f.from /\ g.sent = batch /\ g.gone = deleted
  BY <1>2 DEF ClientType
<1>4. /\ client' = [client EXCEPT ![c] = g] /\ Len(batch) <= log
      /\ \A i \in 1..Len(batch) : batch[i] > f.from
      /\ \A i \in 1..(Len(batch) - 1) : batch[i] < batch[i + 1]
      /\ row.exists => \A i \in 1..Len(batch) : batch[i] = f.from + i
  BY <1>1 DEF EndsReplay
<1> DEFINE x == [from |-> f.from, sent |-> <<>>, gone |-> FALSE]
           y == [from |-> f.from, sent |-> batch, gone |-> deleted]
<1>5. /\ Fed[c] = x /\ Fed'[c] = y
      /\ \A d \in Clients : d # c => Fed'[d] = Fed[d]
  <2> HIDE DEF g
  <2>1. Fed[c] = [from |-> f.from, sent |-> f.sent, gone |-> f.gone]
    BY DEF Fed
  <2>2. f.gone = FALSE
    BY <1>2 DEF ClientType
  <2>3. QED
    <3>1. /\ Fed'[c] = [from |-> g.from, sent |-> g.sent, gone |-> g.gone]
          /\ \A d \in Clients : d # c => Fed'[d] = Fed[d]
      BY <1>4, FedChanges
    <3>2. Fed[c] = x
      BY <1>2, <2>1, <2>2, Zenon
    <3>3. QED
      BY <1>3, <3>1, <3>2, Zenon
<1> DEFINE n == Len(batch)
<1>6. n \in Nat /\ n <= log /\ batch \in [1..n -> 1..log]
  BY <1>4, LenProperties, Zenon
<1>7. <<>> \o batch = batch
  BY ConcatEmptySeq, Zenon
<1>8. /\ Feed!Position(x) = f.from /\ f.from \in Nat
  BY <1>2 DEF Feed!Position, ClientType
<1> HIDE DEF g
<1>9. x.sent = <<>> /\ x.gone = FALSE
  OBVIOUS
<1>10. /\ x.from = f.from /\ x.sent \o batch = batch
       /\ deleted => y = [from |-> f.from, sent |-> batch, gone |-> TRUE]
       /\ ~deleted => y = [from |-> f.from, sent |-> batch, gone |-> FALSE]
  BY <1>2, <1>7
<1> HIDE DEF n, x, y
<1>11. \/ y = x
       \/ Feed!Sends(x, y)
       \/ Feed!Announces(x, y)
  <2>1. CASE deleted
    <3>1. n > 0 => ~x.gone /\ batch[1] > Feed!Position(x)
      BY <1>4, <1>6, <1>8, <1>9 DEF n
    <3>2. \A i \in 1..(n - 1) : batch[i] < batch[i + 1]
      BY <1>4 DEF n
    <3>3. y = [from |-> x.from, sent |-> x.sent \o batch, gone |-> TRUE]
      BY <1>10, <2>1
    <3>4. n \in 0..log /\ ~row.exists
      BY <1>2, <1>6, <2>1
    <3>5. QED
      BY <1>6, <3>1, <3>2, <3>3, <3>4 DEF Feed!Announces
  <2>2. CASE ~deleted /\ n = 0
    <3>1. batch = <<>>
      BY <2>2 DEF n
    <3>2. QED
      BY <1>10, <2>2, <3>1 DEF x, y
  <2>3. CASE ~deleted /\ n > 0
    <3>1. ~x.gone /\ batch[1] > Feed!Position(x)
      BY <1>4, <1>6, <1>8, <1>9, <2>3 DEF n
    <3>2. /\ \A i \in 1..(n - 1) : batch[i] < batch[i + 1]
          /\ row.exists => \A i \in 1..n : batch[i] = Feed!Position(x) + i
      BY <1>4, <1>8 DEF n
    <3>3. n \in 1..log
      BY <1>2, <1>6, <2>3
    <3>4. QED
      BY <1>6, <1>10, <2>3, <3>1, <3>2, <3>3 DEF Feed!Sends
  <2>4. QED
    BY <1>6, <2>1, <2>2, <2>3
<1>12. UNCHANGED row
  BY DEF Snapshot
<1>13. QED
  BY <1>5, <1>11, <1>12, Delivers

\* A published event is the next one, unless the session is already deleted.
LEMMA PublishFeeds ==
    ASSUME StreamInv, NEW w \in Writers, Publish(w)
    PROVE  Feed!FeedNext
<1> DEFINE n == row.lastSequence
<1>1. /\ Published = n - 1 /\ n \in Nat /\ n > 0
      /\ PublishEvent(n) /\ row' = row
  BY PublishNext DEF StreamInv
<1>2. ASSUME NEW c \in Clients
      PROVE  Fed'[c] = Fed[c] \/ Feed!Sends(Fed[c], Fed'[c])
  <2> DEFINE s == subscription[c]
             f == client[c]
             new == s.status = "ready" /\ n > s.lastSequence
             sent == IF new THEN Append(f.sent, n) ELSE f.sent
  <2>1. client'[c] = [f EXCEPT !.sent = sent]
    BY <1>1, PublishOne
  <2>2. /\ s \in SubscriptionType /\ f \in ClientType
        /\ Live(s, f, row.exists, n - 1)
    BY <1>1 DEF StreamInv, ClientsInv, Attached
  <2>3. s.lastSequence \in Nat /\ f.sent \in Seq(Nat) /\ f.from \in Nat /\ f.gone \in BOOLEAN
    BY <2>2 DEF SubscriptionType, ClientType
  <2> DEFINE x == [from |-> f.from, sent |-> f.sent, gone |-> f.gone]
             y == [from |-> f.from, sent |-> sent, gone |-> f.gone]
  <2>4. Fed[c] = x /\ Fed'[c] = y
    <3> HIDE DEF sent
    <3>1. [f EXCEPT !.sent = sent].from = f.from /\ [f EXCEPT !.sent = sent].sent = sent
          /\ [f EXCEPT !.sent = sent].gone = f.gone
      BY <2>2 DEF ClientType
    <3>2. QED
      BY <2>1, <3>1, Zenon DEF Fed
  <2>5. CASE ~new
    BY <2>4, <2>5
  <2>6. CASE new
    <3>1. /\ s.lastSequence = At(f) /\ f.gone = FALSE
          /\ row.exists => n - 1 <= At(f)
      BY <2>2, <2>3, <2>6 DEF Live
    <3>2. Feed!Position(x) = At(f) /\ x.gone = FALSE /\ x.from = f.from /\ x.sent = f.sent
      BY <3>1 DEF Feed!Position, At
    <3>3. At(f) \in Nat /\ n > At(f) /\ (row.exists => n = At(f) + 1)
      BY <1>1, <2>3, <2>6, <3>1
    <3> DEFINE batch == [i \in 1..1 |-> n]
    <3>4. f.sent \o batch = Append(f.sent, n)
      BY <2>3
    <3>5. y = [from |-> x.from, sent |-> x.sent \o batch, gone |-> FALSE]
      <4>1. sent = x.sent \o batch
        BY <2>6, <3>2, <3>4
      <4> HIDE DEF sent, x, batch
      <4>2. QED
        BY <3>1, <3>2, <4>1
    <3>6. /\ 1 \in 1..n /\ batch \in [1..1 -> 1..n] /\ batch[1] = n
          /\ \A i \in 1..1 : batch[i] = n /\ i = 1
          /\ \A i \in 1..(1 - 1) : batch[i] < batch[i + 1]
      BY <1>1
    <3> HIDE DEF x, y, batch
    <3>7. Feed!Sends(x, y)
      <4>1. row.exists => \A i \in 1..1 : batch[i] = Feed!Position(x) + i
        BY <3>2, <3>3, <3>6
      <4>2. batch[1] > Feed!Position(x) /\ ~x.gone
        BY <3>2, <3>3, <3>6
      <4>3. QED
        BY <3>5, <3>6, <4>1, <4>2 DEF Feed!Sends
    <3>8. QED
      BY <2>4, <3>7
  <2>7. QED
    BY <2>5, <2>6
<1>3. QED
  BY <1>1, <1>2, Delivers

LEMMA PublishDeletionFeeds ==
    ASSUME StreamInv, PublishDeletion
    PROVE  Feed!FeedNext
<1>1. ASSUME NEW c \in Clients
      PROVE  Fed'[c] = Fed[c] \/ Feed!Announces(Fed[c], Fed'[c])
  <2> DEFINE f == client[c]
             ready == subscription[c].status = "ready"
             gone == f.gone \/ ready
  <2>1. client'[c] = [f EXCEPT !.gone = gone] /\ ~row.exists
    BY PublishDeletionOne
  <2>2. /\ f \in ClientType /\ row.lastSequence \in Nat
        /\ f.sent \in Seq(Nat) /\ f.gone \in BOOLEAN
    BY DEF StreamInv, ClientsInv, Attached, LogInv, ClientType
  <2> DEFINE x == [from |-> f.from, sent |-> f.sent, gone |-> f.gone]
             y == [from |-> f.from, sent |-> f.sent, gone |-> gone]
  <2>3. Fed[c] = x /\ Fed'[c] = y
    <3> HIDE DEF gone
    <3>1. [f EXCEPT !.gone = gone].from = f.from /\ [f EXCEPT !.gone = gone].sent = f.sent
          /\ [f EXCEPT !.gone = gone].gone = gone
      BY <2>2 DEF ClientType
    <3>2. QED
      BY <2>1, <3>1, Zenon DEF Fed
  <2>4. CASE ~ready
    <3>1. gone = f.gone
      BY <2>2, <2>4
    <3>2. QED
      BY <2>3, <3>1
  <2>5. CASE ready
    <3> DEFINE batch == [i \in 1..0 |-> 0]
    <3>1. gone = TRUE /\ f.sent \o batch = f.sent
      BY <2>2, <2>5, ConcatEmptySeq
    <3>2. y = [from |-> x.from, sent |-> x.sent \o batch, gone |-> TRUE]
      <4>1. x.from = f.from /\ x.sent = f.sent
        OBVIOUS
      <4> HIDE DEF x, batch
      <4>2. QED
        BY <3>1, <4>1, Zenon
    <3>3. /\ 0 \in 0..row.lastSequence /\ batch \in [1..0 -> 1..row.lastSequence]
          /\ \A i \in 1..(0 - 1) : batch[i] < batch[i + 1]
      BY <2>2
    <3> HIDE DEF x, y, batch
    <3>4. Feed!Announces(x, y)
      <4>1. 0 > 0 => ~x.gone /\ batch[1] > Feed!Position(x)
        OBVIOUS
      <4>2. QED
        BY ONLY <2>1, <3>2, <3>3, <4>1 DEF Feed!Announces
    <3>5. QED
      BY <2>3, <3>4
  <2>6. QED
    BY <2>4, <2>5
<1>2. row' = row
  BY DEF PublishDeletion
<1>3. QED
  BY <1>1, <1>2, Delivers

\* Every step of the stream is a step of the feed or concerns it not at all.
LEMMA StreamFeeds == StreamInv /\ [Next]_vars => [Feed!FeedNext]_(Feed!feedVars)
<1> SUFFICES ASSUME StreamInv, [Next]_vars
             PROVE  [Feed!FeedNext]_(Feed!feedVars)
  OBVIOUS
<1>1. ASSUME NEW w \in Writers, Append1(w) \/ AppendSteps(w) \/ Abort(w)
      PROVE  [Feed!FeedNext]_(Feed!feedVars)
  BY <1>1, AppendFeeds, PublishFeeds DEF AppendSteps
<1>2. ASSUME NEW c \in Clients, Connect(c) \/ Replay(c) \/ Disconnect(c)
      PROVE  [Feed!FeedNext]_(Feed!feedVars)
  <2>1. CASE ReadRecord(c) \/ ReadEvents(c) \/ Disconnect(c)
    BY <2>1, FeedQuiet DEF ReadRecord, ReadEvents, Disconnect
  <2>2. QED
    BY <1>2, <2>1, ConnectFeeds, SnapshotFeeds DEF Replay
<1>3. ASSUME NEW u \in Updaters, WriteRow(u) \/ ReadRow(u) \/ Discard(u)
      PROVE  [Feed!FeedNext]_(Feed!feedVars)
  <2>1. client' = client /\ row'.lastSequence = row.lastSequence /\ row'.exists = row.exists
    BY <1>3 DEF WriteRow, ReadRow, Discard, StreamInv, LogInv
  <2>2. QED
    BY <2>1, FeedQuiet
<1>4. ASSUME NEW u \in Updaters, PublishUpdate(u)
      PROVE  [Feed!FeedNext]_(Feed!feedVars)
  <2>1. row' = row /\ Fed' = Fed
    <3>1. row' = row
      BY <1>4 DEF PublishUpdate
    <3>2. ASSUME NEW c \in Clients
          PROVE  /\ client'[c].from = client[c].from /\ client'[c].sent = client[c].sent
                 /\ client'[c].gone = client[c].gone
      BY <1>4 DEF PublishUpdate, StreamInv, ClientsInv, Attached, ClientType
    <3>3. QED
      BY <3>1, <3>2, Zenon DEF Fed
  <2>2. QED
    BY <2>1 DEF Feed!feedVars, Fed
<1>5. ASSUME Delete
      PROVE  [Feed!FeedNext]_(Feed!feedVars)
  <2>1. /\ row.exists /\ row'.exists = FALSE /\ row'.lastSequence = row.lastSequence
        /\ client' = client
    BY <1>5 DEF Delete, StreamInv, LogInv
  <2>2. Feed!Delete
    BY <2>1 DEF Feed!Delete
  <2>3. QED
    BY <2>2 DEF Feed!FeedNext
<1>6. ASSUME UNCHANGED vars
      PROVE  [Feed!FeedNext]_(Feed!feedVars)
  BY <1>6, FeedQuiet DEF vars
<1>7. QED
  BY <1>1, <1>2, <1>3, <1>4, <1>5, <1>6, PublishDeletionFeeds DEF Next

\* Whatever replay and live delivery interleave with, each client is sent every
\* event beyond its cursor once, in order and without a gap; and the log the
\* events come from is contiguous whoever appends to it at the same time.
THEOREM StreamImplementsFeed == Spec => FeedImplemented
<1>1. Init => Feed!FeedInit
  <2> SUFFICES ASSUME Init
               PROVE  Feed!FeedInit
    OBVIOUS
  <2>1. Fed = [c \in Clients |-> [from |-> 0, sent |-> <<>>, gone |-> FALSE]]
    BY DEF Init, Fed
  <2>2. QED
    BY <2>1 DEF Init, Feed!FeedInit, Fed
<1>2. StreamInv => SequencesContiguous
  BY DEF StreamInv, LogInv, SequencesContiguous
<1>3. QED
  BY <1>1, <1>2, StreamFeeds, StreamInvariant, PTL DEF Spec, FeedImplemented, Feed!FeedSpec

=============================================================================
