----------------------------- MODULE LlmScenes -----------------------------
\* The requests, catalogs and replies of the small instance of LlmRequests.
EXTENDS LlmBodies

\* The history of a session that called tools in parallel and on its own, with
\* and without a replay: what was put out, over the Responses API, or else what
\* was reasoned.
TheHistory(provider) ==
    LET Replay(output) ==
          IF provider \in OverResponses THEN <<ReasoningItem>> \o output ELSE <<ReasoningItem>>
    IN
    << Message("user", "u1"), Message("system", "s"),
       [Message("assistant", "") EXCEPT !.calls = <<"c1", "c2">>,
            !.replay = Replay(<<CallItem("c1"), CallItem("c2")>>)],
       [Message("tool", "r1") EXCEPT !.result = "c1"],
       [Message("tool", "r2") EXCEPT !.result = "c2"],
       [Message("assistant", "t") EXCEPT !.calls = <<"c3">>],
       [Message("tool", "r3") EXCEPT !.result = "c3"],
       [Message("assistant", "t") EXCEPT !.replay = Replay(<<TextItem("assistant", "t")>>)],
       Message("user", "u2") >>

Chat(provider, model) ==
    [op |-> "complete", provider |-> provider, model |-> model, messages |-> TheHistory(provider),
     tools |-> FALSE, schema |-> "unset", prompted |-> FALSE, choice |-> "unset",
     parallel |-> "unset", effort |-> "unset", tuning |-> {}]
Structured(provider, model) == [Chat(provider, model) EXCEPT !.schema = "object"]
Tooled(provider, model) == [Chat(provider, model) EXCEPT !.tools = TRUE]

\* Every combination of what a caller may ask of a model.
Wishes(provider, models) ==
    { [Chat(provider, m) EXCEPT !.tools = t, !.schema = s, !.choice = ch, !.parallel = p, !.effort = e] :
        m \in models, t \in BOOLEAN, s \in {"unset", "object"},
        ch \in {"unset", "auto", "none", "required"}, p \in {"unset", "no"}, e \in {"unset", "high"} }

Embedding(provider, input, size) ==
    [op |-> "embedding", provider |-> provider, model |-> "m", input |-> input, size |-> size]
Rerank(provider, documents) ==
    [op |-> "rerank", provider |-> provider, model |-> "m", input |-> "q", documents |-> documents,
     size |-> 1]

Others ==
    { [Chat("openai", "claude") EXCEPT !.messages = <<>>], Chat("openai", ""),
      [Structured("openai", "claude") EXCEPT !.schema = "text"],
      [Structured("native", "claude") EXCEPT !.prompted = TRUE, !.schema = "text"],
      [Structured("native", "claude") EXCEPT !.prompted = TRUE],
      [Structured("compatible", "claude") EXCEPT !.prompted = TRUE],
      [Structured("compatible", "claude") EXCEPT !.tools = TRUE],
      [Tooled("codex", "claude") EXCEPT !.op = "stream", !.messages = <<Message("user", "u")>>],
      [Structured("unified", "gemma") EXCEPT !.op = "stream"] }
    \cup { [Chat(p, "claude") EXCEPT !.tuning = Tuning] : p \in Providers }
    \cup { [Tooled("unified", "claude") EXCEPT !.tuning = t, !.choice = ch] :
             t \in SUBSET Tuning, ch \in {"unset", "required"} }
    \cup { Embedding(p, i, n) : p \in {"openai", "native"}, i \in {"", "text"}, n \in {0, 1} }
    \cup { Rerank(p, n) : p \in {"unified", "codex", "compatible"}, n \in {0, 1} }
    \cup { [op |-> o, provider |-> "codex", model |-> m] :
             o \in {"models", "validateModel"}, m \in {"m", "x"} }

\* Two callers of the unified provider at the same time.
Meeting == { Tooled("unified", "claude"), Tooled("unified", "local"), Structured("unified", "gemma") }

Two == {"a", "b"}
Alone(r) == [c \in Two |-> IF c = "a" THEN r ELSE <<>>]
TheScenes ==
    { Alone(r) : r \in Others \cup Wishes("unified", {"claude", "gemma", "local"})
                       \cup Wishes("proxy", {"claude"}) \cup Wishes("openai", {"claude"})
                       \cup Wishes("openrouter", {"claude"}) }
    \cup [Two -> Meeting]

Offered == { {}, {"tools"}, {"tools", "tool_choice"}, {"structured_outputs", "tool_choice"},
             {"tools", "parallel_tool_calls", "response_format"},
             {"tools", "tool_choice", "parallel_tool_calls", "structured_outputs", "response_format"} }
TheCatalogs == { [m \in {"claude", "gemma", "local"} |-> o] : o \in Offered } \cup { [x \in {} |-> {}] }

Reply(text, usage) ==
    [text |-> text, refused |-> FALSE, called |-> FALSE, replay |-> <<>>, usage |-> usage]
ChatReplies ==
    { Reply("object", <<1>>), Reply("object", <<>>), Reply("prose", <<1>>),
      [Reply("", <<1>>) EXCEPT !.refused = TRUE],
      [Reply("", <<>>) EXCEPT !.called = TRUE, !.replay = <<ReasoningItem>>] }
TheReplies ==
    [complete |-> ChatReplies, stream |-> ChatReplies,
     embedding |-> { [values |-> v] : v \in {<<>>, <<"number">>, <<"number", "junk">>} },
     rerank |-> { [values |-> v] : v \in {<<>>, <<"ranked">>, <<"junk">>} },
     models |-> { [values |-> <<>>] }, validateModel |-> { [values |-> <<"m">>] }]
=============================================================================
