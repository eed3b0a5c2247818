--------------------------- MODULE OkfGeneration ---------------------------
(***************************************************************************)
(* generate of packages/okf: a bundle of concepts, one for each source     *)
(* file, written in concurrent batches of work and reused by the next      *)
(* generation as long as its recipe is the same.                           *)
(*                                                                         *)
(* A generation rejects with the first failure, but the work on the other  *)
(* files of its batch goes on behind it: it asks the provider and writes   *)
(* concepts while the next generation may be under way.  Sources change    *)
(* meanwhile, and the process may die.                                     *)
(*                                                                         *)
(* A path is a stem and the number of .md behind it.  A concept is known   *)
(* by the recipe in its frontmatter; a file whose frontmatter was not      *)
(* written in full is HalfWritten.                                         *)
(***************************************************************************)
EXTENDS Naturals, Sequences, FiniteSets, SequencesExt

CONSTANTS
    Runs,        \* calls of generate
    Order,       \* the paths of the sources, sorted
    Contents,    \* what a source may contain
    Binary,      \* the contents that isBinary leaves out
    Models,      \* the models a run may be configured with
    Gone, HalfWritten,   \* no such file, a file without frontmatter
    MaxEdits, MaxMishaps \* bounds on the edits, and on the failures and crashes

VARIABLES
    sources,    \* the content of each source
    bundle,     \* the files of the output directory
    generation, \* stage, configuration and locals of each run
    worker,     \* how far a run has come with each source
    spent       \* edits and mishaps so far

okfVars == <<sources, bundle, generation, worker, spent>>

SourceFiles == ToSet(Order)

ASSUME SourcesArePaths ==
    \A f \in SourceFiles : f.md \in Nat /\ f = [stem |-> f.stem, md |-> f.md]

Index == [stem |-> "index", md |-> 1]

\* Bug: the names that OKF reserves are not looked at.
OutputPath_Bug(source) == [source EXCEPT !.md = @ + 1]

\* index and log, and what looks like their concepts, move out of the way.
OutputPath(source) ==
    [source EXCEPT !.md = @ + IF source.stem \in {"index", "log"} THEN 2 ELSE 1]

Paths ==
    {Index} \cup {OutputPath(f) : f \in SourceFiles}
            \cup {[f EXCEPT !.md = @ + 1] : f \in SourceFiles}

Idle == [stage |-> "idle", model |-> Gone, batchSize |-> 0, listed |-> <<>>, offset |-> 0,
         read |-> <<>>, results |-> <<>>, entries |-> <<>>, aborted |-> FALSE, alone |-> FALSE]

OkfInit ==
    /\ sources \in [SourceFiles -> Contents]
    /\ bundle = [p \in Paths |-> Gone]
    /\ generation = [g \in Runs |-> Idle]
    /\ worker = [g \in Runs |-> [f \in SourceFiles |-> "none"]]
    /\ spent = [edits |-> 0, mishaps |-> 0]

Working(g, f) == worker[g][f] \notin {"none", "done"}
Active(g) == generation[g].stage \in {"walking", "indexing", "writing"}
Busy(g) == Active(g) \/ \E f \in SourceFiles : Working(g, f)

Set(g, f, stage) == worker' = [worker EXCEPT ![g][f] = stage]

\* A map with one more entry.
Entered(map, f, value) ==
    [h \in DOMAIN map \cup {f} |-> IF h = f THEN value ELSE map[h]]

Mishap == spent.mishaps < MaxMishaps /\ spent' = [spent EXCEPT !.mishaps = @ + 1]

\* recipeHash: what comes from the source, the prompts and the versions is one content here,
\* the provider with its settings one model.
Recipe(g, f) == [path |-> f, content |-> generation[g].read[f], model |-> generation[g].model]

-----------------------------------------------------------------------------
(* generate and walk *)

Listed == SelectSeq(Order, LAMBDA f : sources[f] # Gone)

\* The paths are valid, the prompts are loaded, the sources discovered.  Callers wait for
\* one generation before they start another, but cannot see what goes on behind a rejected
\* one; whether that is so is noted for the properties.
Generate(g) ==
    /\ generation[g].stage = "idle" /\ ~\E other \in Runs : Active(other)
    /\ \E model \in Models, size \in 1..Len(Order) :
          generation' = [h \in Runs |->
                    IF h = g
                    THEN [Idle EXCEPT !.stage = "walking", !.model = model, !.batchSize = size,
                             !.listed = Listed,
                             !.alone = \A other \in Runs \ {g} : ~Busy(other)]
                    ELSE [generation[h] EXCEPT !.alone = FALSE]]
    /\ UNCHANGED <<sources, bundle, worker, spent>>

Batch(g) ==
    LET r == generation[g]
    IN  ToSet(SubSeq(r.listed, r.offset + 1, Min({Len(r.listed), r.offset + r.batchSize})))

\* The first failure rejects the generation, which forgets its results; later ones are
\* not heard of.
RejectGeneration(g) ==
    LET r == generation[g]
    IN  generation' = [generation EXCEPT ![g] =
                         [Idle EXCEPT !.stage = "rejected", !.model = r.model, !.read = r.read,
                                      !.aborted = r.aborted]]

\* Promise.all: the batch before is through, and the signal allows another one.
NextBatch(g) ==
    /\ generation[g].stage = "walking" /\ ~\E f \in SourceFiles : Working(g, f)
    /\ generation[g].offset < Len(generation[g].listed)
    /\ IF generation[g].aborted
       THEN RejectGeneration(g) /\ UNCHANGED worker
       ELSE /\ generation' = [generation EXCEPT ![g].offset = @ + generation[g].batchSize]
            /\ worker' = [worker EXCEPT ![g] =
                           [f \in SourceFiles |-> IF f \in Batch(g) THEN "read" ELSE worker[g][f]]]
    /\ UNCHANGED <<sources, bundle, spent>>

WalkEnds(g) ==
    /\ generation[g].stage = "walking" /\ ~\E f \in SourceFiles : Working(g, f)
    /\ generation[g].offset >= Len(generation[g].listed)
    /\ generation' = [generation EXCEPT ![g].stage = "indexing"]
    /\ UNCHANGED <<sources, bundle, worker, spent>>

\* The file is read; one that is gone or binary is passed over.
ReadSource(g, f) ==
    /\ worker[g][f] = "read"
    /\ IF sources[f] \in Binary \cup {Gone}
       THEN Set(g, f, "done") /\ UNCHANGED generation
       ELSE /\ Set(g, f, "lookup")
            /\ generation' = [generation EXCEPT ![g].read = Entered(@, f, sources[f])]
    /\ UNCHANGED <<sources, bundle, spent>>

-----------------------------------------------------------------------------
(* work *)

\* hasRecipeHash of the concept that is there.
Cached(path, recipe) == bundle[path] = recipe

Succeed(g, f, outcome) ==
    /\ Set(g, f, "done")
    /\ generation' = IF generation[g].stage = "walking"
              THEN [generation EXCEPT ![g].results = Entered(@, f, outcome)] ELSE generation

LookUp(g, f) ==
    /\ worker[g][f] = "lookup"
    /\ IF Cached(OutputPath(f), Recipe(g, f))
       THEN Succeed(g, f, "cached")
       ELSE Set(g, f, "asking") /\ UNCHANGED generation
    /\ UNCHANGED <<sources, bundle, spent>>

\* summarize, describe and selectTags have returned: three completions in a row, between
\* which nothing changes that anybody else could see.
Completions(g, f) ==
    /\ worker[g][f] = "asking" /\ ~generation[g].aborted
    /\ Set(g, f, "write")
    /\ UNCHANGED <<sources, bundle, generation, spent>>

\* writeFile truncates, then writes.
BeginWrite(g, f) ==
    /\ worker[g][f] = "write"
    /\ bundle' = [bundle EXCEPT ![OutputPath(f)] = HalfWritten]
    /\ Set(g, f, "writing")
    /\ UNCHANGED <<sources, generation, spent>>

EndWrite(g, f) ==
    /\ worker[g][f] = "writing"
    /\ bundle' = [bundle EXCEPT ![OutputPath(f)] = Recipe(g, f)]
    /\ Succeed(g, f, "generated")
    /\ UNCHANGED <<sources, spent>>

\* Reading, parsing, a completion, the observer or a write fails; a write may have got
\* as far as the frontmatter.
WorkFails(g, f) ==
    /\ Working(g, f)
    /\ Mishap
    /\ Set(g, f, "done")
    /\ RejectGeneration(g)
    /\ \/ UNCHANGED bundle
       \/ /\ worker[g][f] = "writing"
          /\ bundle' = [bundle EXCEPT ![OutputPath(f)] = Recipe(g, f)]
    /\ UNCHANGED sources

\* completeText looks at the signal before and after the provider answers.
WorkAborts(g, f) ==
    /\ generation[g].aborted /\ worker[g][f] = "asking"
    /\ Set(g, f, "done")
    /\ RejectGeneration(g)
    /\ UNCHANGED <<sources, bundle, spent>>

-----------------------------------------------------------------------------
(* the index *)

\* The description of every represented source comes from its concept, which has to
\* have one.
ReadEntries(g) ==
    /\ generation[g].stage = "indexing" /\ generation[g].entries = <<>>
    /\ LET entries == [f \in DOMAIN generation[g].read |-> bundle[OutputPath(f)]]
       IN  generation' = IF \E f \in DOMAIN entries : entries[f] \in {Gone, HalfWritten}
                  THEN [generation EXCEPT ![g] = [Idle EXCEPT !.stage = "rejected"]]
                  ELSE [generation EXCEPT ![g].stage = "writing", ![g].entries = entries]
    /\ UNCHANGED <<sources, bundle, worker, spent>>

WriteIndex(g) ==
    /\ generation[g].stage = "writing"
    /\ bundle' = [bundle EXCEPT ![Index] = [entries |-> generation[g].entries]]
    /\ generation' = [generation EXCEPT ![g].stage = "resolved", ![g].entries = <<>>]
    /\ UNCHANGED <<sources, worker, spent>>

IndexFails(g) ==
    /\ generation[g].stage \in {"indexing", "writing"}
    /\ Mishap
    /\ generation' = [generation EXCEPT ![g] = [Idle EXCEPT !.stage = "rejected"]]
    /\ UNCHANGED <<sources, bundle, worker>>

-----------------------------------------------------------------------------
(* the environment *)

AbortGeneration(g) ==
    /\ generation[g].stage = "walking" \/ \E f \in SourceFiles : Working(g, f)
    /\ ~generation[g].aborted
    /\ generation' = [generation EXCEPT ![g].aborted = TRUE]
    /\ UNCHANGED <<sources, bundle, worker, spent>>

EditSource(f) ==
    /\ spent.edits < MaxEdits
    /\ spent' = [spent EXCEPT !.edits = @ + 1]
    /\ \E content \in (Contents \cup {Gone}) \ {sources[f]} :
          sources' = [sources EXCEPT ![f] = content]
    /\ UNCHANGED <<bundle, generation, worker>>

Crash ==
    /\ \E g \in Runs : Busy(g)
    /\ Mishap
    /\ generation' = [g \in Runs |-> IF generation[g].stage = "idle" THEN generation[g]
                                     ELSE [Idle EXCEPT !.stage = "lost"]]
    /\ worker' = [g \in Runs |-> [f \in SourceFiles |-> "none"]]
    /\ UNCHANGED <<sources, bundle>>

Work(g, f) ==
    \/ ReadSource(g, f) \/ LookUp(g, f) \/ Completions(g, f) \/ BeginWrite(g, f) \/ EndWrite(g, f)
    \/ WorkFails(g, f) \/ WorkAborts(g, f)

OkfNext ==
    \/ \E g \in Runs : \/ Generate(g) \/ NextBatch(g) \/ WalkEnds(g)
                       \/ ReadEntries(g) \/ WriteIndex(g) \/ IndexFails(g) \/ AbortGeneration(g)
                       \/ \E f \in SourceFiles : Work(g, f)
    \/ \E f \in SourceFiles : EditSource(f)
    \/ Crash

OkfSpec == OkfInit /\ [][OkfNext]_okfVars

-----------------------------------------------------------------------------
(* Properties *)

\* A generation that nobody else's work overlapped leaves a bundle in which every source
\* it read has a concept of its own, made by its recipe from what it read, and the index
\* lists these and nothing else; whatever failed, was aborted, went on behind a rejected
\* generation or was torn by a crash before it (generate, walk, outputPath, cached).
BundleMatchesSources ==
    \A g \in Runs : generation[g].stage = "resolved" /\ generation[g].alone =>
        LET made == [f \in DOMAIN generation[g].read |-> Recipe(g, f)]
        IN  /\ \A f \in DOMAIN made : bundle[OutputPath(f)] = made[f]
            /\ bundle[Index] = [entries |-> made]
            /\ DOMAIN generation[g].results = DOMAIN made
=============================================================================
