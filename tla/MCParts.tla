------------------------------ MODULE MCParts ------------------------------
(***************************************************************************)
(* The parts of the host that stand alone, for TLC: they share no state    *)
(* with each other, so a behaviour exercises one of them, chosen at the    *)
(* start, and has nothing of the others.                                   *)
(***************************************************************************)
EXTENDS ConfigService, SessionStore, Docker, AgentLoop, OAuth, CodexAuth, OkfGeneration,
        EditTool, TerminalTool, TLC

VARIABLE focus

-----------------------------------------------------------------------------
TheCharacters == {"a", "b", "blank", "bom"} \cup LineEnds

\* Short files with blanks at the ends of lines, either kind of line end, a byte order mark.
TheTargets ==
    UNION {[1..n -> {"a", "b", "blank", "lf"}] : n \in 0..3} \cup [1..4 -> {"a", "b", "lf"}]
        \cup UNION {[1..n -> {"a", "b", "crlf"}] : n \in 0..3}
        \cup {<<"bom">> \o t : t \in [1..2 -> {"a", "b", "crlf"}]}

\* Up to two edits: empty, equal, repeated, over a line end, with a blank at the end.
TheEdits ==
    [old : {<<>>, <<"a">>, <<"b">>, <<"a", "b">>, <<"b", "blank">>, <<"a", "lf", "b">>},
     new : {<<>>, <<"a">>, <<"b", "lf">>, <<"a", "b", "a">>}]
TheEditLists ==
    {<<>>} \cup {<<d>> : d \in TheEdits}
        \cup (TheEdits \X {d \in TheEdits : d.new \in {<<>>, <<"b", "lf">>}})

\* Streams around the limits of two lines: any two of a few lines, or more of a kind.
FewLines ==
    [kind : {"error"}, text : {"x", "y"}, size : {1}]
        \cup [kind : {"plain", "warning"}, text : {"x"}, size : {1}]
        \cup [kind : {"test_failure"}, text : {"x"}, size : {2}]
TheLines == FewLines \cup [kind : {"warning"}, text : {"y"}, size : {1}]
TheOutputs ==
    UNION {[1..n -> FewLines] : n \in 0..2}
        \cup {[i \in 1..n |-> [kind |-> k, text |-> t, size |-> 1]] :
                 n \in 3..6, k \in {"error", "warning"}, t \in {"x", "y"}}
\* index and index.md: names that OKF reserves or that look like it.
TheSources == <<[stem |-> "index", md |-> 0], [stem |-> "index", md |-> 1]>>

TheCommands == [timeout : {Unset, 0, MaxTimeout + 1}, cargo : BOOLEAN]

Parts == {"agent", "docker", "login", "codex", "config", "store", "edit", "terminal", "bundle"}

\* A part that is not exercised has no state, or only that in which its properties say
\* nothing: the agent is free, no sandbox is asked for, no request was made.
Absent(part) ==
    CASE part = "agent" -> AgentInit /\ messages = <<>>
      [] part = "docker" ->
             /\ policy = None /\ address = None /\ faults = None
             /\ containers = {} /\ filter = <<>> /\ directories = {} /\ running = {}
             /\ vm = [v \in Vms |-> Fresh]
      [] part = "login" ->
             /\ server = NewServer /\ client = [c \in Clients |-> NewClient]
             /\ opened = {} /\ store = Nil /\ endpoint = Nil /\ lost = FALSE
      [] part = "codex" ->
             /\ environment = None /\ origin = Missing /\ file = Missing
             /\ resolution = [r \in Resolvers |-> NewResolution]
             /\ issuer = None /\ unwritten = FALSE
      [] part = "config" -> ConfigInit
      [] part = "store" -> StoreInit
      [] part = "edit" ->
             /\ target = <<>> /\ edits = <<>> /\ result = [error |-> "none", done |-> FALSE]
      [] part = "terminal" ->
             /\ command = None /\ execution = None /\ output = [stage |-> "none"]
      [] part = "bundle" ->
             /\ sources = None /\ bundle = None /\ worker = None /\ spent = None
             /\ generation = [g \in Runs |-> Idle]

InitOf(part) ==
    CASE part = "agent"    -> AgentInit
      [] part = "docker"   -> DockerInit
      [] part = "login"    -> LoginInit
      [] part = "codex"    -> CodexInit
      [] part = "config"   -> ConfigInit
      [] part = "store"    -> StoreInit
      [] part = "edit"     -> EditInit
      [] part = "terminal" -> TerminalInit
      [] part = "bundle"   -> OkfInit /\ \A f \in SourceFiles : sources[f] = "x"

PartsInit ==
    /\ focus \in Parts
    /\ \A part \in Parts : IF part = focus THEN InitOf(part) ELSE Absent(part)

PartsNext ==
    \/ /\ focus = "agent"
       /\ AgentNext
       /\ UNCHANGED <<focus, dockerVars, loginVars, codexVars, configVars, storeVars, editVars,
                      terminalVars, okfVars>>
    \/ /\ focus = "docker"
       /\ DockerNext
       /\ UNCHANGED <<focus, agentVars, loginVars, codexVars, configVars, storeVars, editVars,
                      terminalVars, okfVars>>
    \/ /\ focus = "login"
       /\ LoginNext
       /\ UNCHANGED <<focus, agentVars, dockerVars, codexVars, configVars, storeVars, editVars,
                      terminalVars, okfVars>>
    \/ /\ focus = "codex"
       /\ CodexNext
       /\ UNCHANGED <<focus, agentVars, dockerVars, loginVars, configVars, storeVars, editVars,
                      terminalVars, okfVars>>
    \/ /\ focus = "config"
       /\ ConfigNext
       /\ UNCHANGED <<focus, agentVars, dockerVars, loginVars, codexVars, storeVars, editVars,
                      terminalVars, okfVars>>
    \/ /\ focus = "store"
       /\ StoreNext
       /\ UNCHANGED <<focus, agentVars, dockerVars, loginVars, codexVars, configVars, editVars,
                      terminalVars, okfVars>>
    \/ /\ focus = "edit"
       /\ EditNext
       /\ UNCHANGED <<focus, agentVars, dockerVars, loginVars, codexVars, configVars,
                      storeVars, terminalVars, okfVars>>
    \/ /\ focus = "terminal"
       /\ TerminalNext
       /\ UNCHANGED <<focus, agentVars, dockerVars, loginVars, codexVars, configVars,
                      storeVars, editVars, okfVars>>
    \/ /\ focus = "bundle"
       /\ OkfNext
       /\ UNCHANGED <<focus, agentVars, dockerVars, loginVars, codexVars, configVars,
                      storeVars, editVars, terminalVars>>

partsVars == <<focus, agentVars, dockerVars, loginVars, codexVars, configVars, storeVars, editVars,
          terminalVars, okfVars>>

PartsSpec == PartsInit /\ [][PartsNext]_partsVars

\* Calls of one kind are alike; the largest part needs it.
Symmetry == Permutations(Logins) \cup Permutations(Users)
=============================================================================
