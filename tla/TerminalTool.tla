---------------------------- MODULE TerminalTool ----------------------------
(***************************************************************************)
(* The terminal tool of bundles/core: a command in the sandbox, whose      *)
(* output is compacted to its first and last lines and to the lines that   *)
(* look like diagnostics.                                                  *)
(*                                                                         *)
(* A line is the kind of diagnostic it is classified as, a text that tells *)
(* lines of a kind apart, and its size in bytes.                           *)
(***************************************************************************)
EXTENDS Naturals, Sequences, FiniteSets, SequencesExt, FiniteSetsExt, Sorting

CONSTANTS
    Commands,        \* [timeout, cargo]: the requested timeout, whether cargo verifies
    Lines,           \* [kind, text, size]
    Outputs,         \* what a stream of a command may hold: sequences of lines
    DefaultTimeout, MaxTimeout, \* DEFAULT_TIMEOUT_MS, MAX_TIMEOUT_MS
    ShortLimit,      \* SHORT_OUTPUT_BYTE_LIMIT
    HeadLimit, TailLimit, DiagnosticLimit,
    Unset

VARIABLES command, execution, output

terminalVars == <<command, execution, output>>

Plain == "plain"  \* the kind of a line that is no diagnostic

\* What a line is classified as.
Kinds ==
    {"rust_error", "test_failure", "cargo_error", "panic", "exception", "typescript_error",
     "eslint_error", "error", "warning"}

ASSUME OutputsAssumption ==
    /\ \A line \in Lines : line.kind \in Kinds \cup {Plain}
    /\ Outputs \subseteq Seq(Lines)
    /\ ShortLimit \in Nat /\ HeadLimit \in Nat /\ TailLimit \in Nat /\ DiagnosticLimit \in Nat

TerminalInit ==
    /\ command \in Commands
    /\ execution = [stage |-> "idle"]
    /\ output = [stage |-> "none"]

-----------------------------------------------------------------------------
(* The command *)

Least(a, b) == IF a < b THEN a ELSE b
Greatest(a, b) == IF a < b THEN b ELSE a

\* The timeout the sandbox is given.
RunCommand ==
    /\ execution.stage = "idle"
    /\ execution' = [stage |-> "running",
                     timeout |-> Least(IF command.timeout = Unset THEN DefaultTimeout ELSE command.timeout,
                                       MaxTimeout)]
    /\ UNCHANGED <<command, output>>

FailureLine == [kind |-> Plain, text |-> "failed", size |-> 1]

\* The sandbox answers, or throws: then the message is all of stderr and the code is -1,
\* as it is for a command that was killed.
CommandEnds ==
    /\ execution.stage = "running"
    /\ \/ \E stdout, stderr \in Outputs, code \in {"zero", "other", "none"} :
             execution' = [stage |-> "ended", stdout |-> stdout, stderr |-> stderr, exit |-> code]
       \/ execution' = [stage |-> "ended", stdout |-> <<>>,
                        stderr |-> <<FailureLine>>, exit |-> "none"]
    /\ UNCHANGED <<command, output>>

-----------------------------------------------------------------------------
(* The compact streams *)

Bytes(lines) == FoldLeft(LAMBDA n, line : n + line.size, 0, lines)

\* Bug: the tail may reach into the head.
TailStart_Bug(lines) == IF Len(lines) > TailLimit THEN Len(lines) - TailLimit ELSE 0

\* How many lines come before the tail.
TailStart(lines) ==
    Greatest(IF Len(lines) > TailLimit THEN Len(lines) - TailLimit ELSE 0, HeadLimit)

CompactStream(lines) ==
    IF Bytes(lines) <= ShortLimit
    THEN [head |-> lines, tail |-> <<>>, omitted |-> 0, lines |-> Len(lines), truncated |-> FALSE]
    ELSE [head |-> SubSeq(lines, 1, Least(HeadLimit, Len(lines))),
          tail |-> SubSeq(lines, TailStart(lines) + 1, Len(lines)),
          omitted |-> Len(SubSeq(lines, HeadLimit + 1, Least(TailStart(lines), Len(lines)))),
          lines |-> Len(lines), truncated |-> TRUE]

-----------------------------------------------------------------------------
(* The diagnostics *)

DiagnosticPriority(kind) ==
    CASE kind = "warning"                   -> 2
      [] kind \in {"error", "eslint_error"} -> 1
      [] OTHER                              -> 0

Same(d, e) == d.kind = e.kind /\ d.stream = e.stream /\ d.text = e.text

\* A repetition only counts.
MergeDiagnostic(diagnostics, d) ==
    IF \E k \in DOMAIN diagnostics : Same(diagnostics[k], d)
    THEN [k \in DOMAIN diagnostics |->
             IF Same(diagnostics[k], d) THEN [diagnostics[k] EXCEPT !.count = @ + 1] ELSE diagnostics[k]]
    ELSE Append(diagnostics, d)

\* A plain line is no diagnostic.
ClassifyDiagnostic(diagnostics, d) ==
    IF d.kind = Plain THEN diagnostics ELSE MergeDiagnostic(diagnostics, d)

DiagnosticOf(stream, lines, i) ==
    [kind |-> lines[i].kind, stream |-> stream, text |-> lines[i].text, line |-> i, count |-> 1]

StreamDiagnostics(stream, lines) ==
    FoldLeft(ClassifyDiagnostic, <<>>, [i \in DOMAIN lines |-> DiagnosticOf(stream, lines, i)])

\* stderr sorts before stdout.
Before(d, e) ==
    \/ DiagnosticPriority(d.kind) < DiagnosticPriority(e.kind)
    \/ /\ DiagnosticPriority(d.kind) = DiagnosticPriority(e.kind)
       /\ \/ d.stream = "stderr" /\ e.stream = "stdout"
          \/ d.stream = e.stream /\ d.line < e.line

Found(stdout, stderr) ==
    StreamDiagnostics("stdout", stdout) \o StreamDiagnostics("stderr", stderr)

\* The worst first; no two diagnostics have a stream and a line in common.
WorstFirst(diagnostics) ==
    LET all == {diagnostics[k] : k \in DOMAIN diagnostics}
    IN Sorted(all, {p \in all \X all : Before(p[1], p[2])})

ExtractDiagnostics(stdout, stderr) ==
    LET worst == WorstFirst(Found(stdout, stderr))
    IN SubSeq(worst, 1, Least(DiagnosticLimit, Len(worst)))

\* The failed tests of cargo follow, past the limit.
CargoFailures(stdout) ==
    LET failed == {i \in DOMAIN stdout : stdout[i].kind = "test_failure"}
        order == Sorted(failed, {p \in failed \X failed : p[1] < p[2]})
    IN [k \in DOMAIN order |->
           [DiagnosticOf("stdout", stdout, order[k]) EXCEPT !.kind = "cargo_test_failure"]]

ReduceDiagnostics(stdout, stderr) ==
    ExtractDiagnostics(stdout, stderr) \o (IF command.cargo THEN CargoFailures(stdout) ELSE <<>>)

\* compact, with the trace file that was written, or could not be.
Compact ==
    /\ execution.stage = "ended" /\ output.stage = "none"
    /\ \E trace \in {"none", "written", "failed"} :
          output' = [stage |-> "returned",
                     success |-> execution.exit = "zero",
                     stdout |-> CompactStream(execution.stdout),
                     stderr |-> CompactStream(execution.stderr),
                     diagnostics |-> ReduceDiagnostics(execution.stdout, execution.stderr),
                     trace |-> trace]
    /\ UNCHANGED <<command, execution>>

TerminalNext == RunCommand \/ CommandEnds \/ Compact

TerminalSpec == TerminalInit /\ [][TerminalNext]_terminalVars

-----------------------------------------------------------------------------
(* Properties *)

\* Head, omitted lines and tail make up the stream, each line in one of them, however the
\* number of lines lies to the two limits (compactStream).
StreamsAddUp ==
    output.stage = "returned" =>
        \A stream \in {"stdout", "stderr"} :
            LET c == output[stream]
                n == Len(c.head) + c.omitted + Len(c.tail)
            IN /\ n = Len(execution[stream])
               /\ c.head = SubSeq(execution[stream], 1, Len(c.head))
               /\ c.tail = SubSeq(execution[stream], n - Len(c.tail) + 1, n)

\* No diagnostic is left out for a milder one: what the limit cuts is no worse than what it
\* keeps, and of equal lines the first is shown with their number (extractDiagnostics,
\* mergeDiagnostic).
WorstDiagnosticsAreShown ==
    output.stage = "returned" =>
        LET shown == {output.diagnostics[k] : k \in DOMAIN output.diagnostics}
            Listed(stream, line) ==
                \E d \in shown : d.stream = stream /\ d.kind = line.kind /\ d.text = line.text
        IN \A stream \in {"stdout", "stderr"} : \A i \in DOMAIN execution[stream] :
               LET line == execution[stream][i]
                   alike == {j \in DOMAIN execution[stream] :
                                execution[stream][j].kind = line.kind
                                /\ execution[stream][j].text = line.text}
               IN /\ line.kind # Plain /\ ~Listed(stream, line) =>
                         /\ Len(output.diagnostics) >= DiagnosticLimit
                         /\ \A k \in 1..DiagnosticLimit :
                               DiagnosticPriority(output.diagnostics[k].kind)
                                   <= DiagnosticPriority(line.kind)
                  /\ line.kind # Plain =>
                         \A d \in shown :
                             d.stream = stream /\ d.kind = line.kind /\ d.text = line.text
                             => d.line = Min(alike) /\ d.count = Cardinality(alike)

\* What is not shown of a long output is counted and no diagnostic gives way to a milder
\* one, so that the caller can trust the short form (compactStream,
\* extractDiagnostics).
OutputIsAccountedFor == StreamsAddUp /\ WorstDiagnosticsAreShown
=============================================================================
