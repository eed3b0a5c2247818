------------------------------- MODULE MCLlm -------------------------------
(***************************************************************************)
(* The two halves of packages/llms for TLC: streams that are read together *)
(* (LlmStream) and calls that share a catalog (LlmRequests).  They share   *)
(* no state; a behaviour exercises one of them.                            *)
(***************************************************************************)
EXTENDS MCLlmStream, LlmRequests

VARIABLE focus

Small == INSTANCE LlmScenes

TheLabs == [claude |-> "anthropic", gemma |-> "gemma", local |-> "unknown"]
TheRequestScenes == Small!TheScenes
TheCatalogs == Small!TheCatalogs
TheReplies == Small!TheReplies

\* The half that is not exercised stays as it begins.
NobodyCalls ==
    /\ scene = [c \in Callers |-> <<>>] /\ call = [c \in Callers |-> NoCall]
    /\ cached = NoCatalog /\ fresh = FALSE /\ pending = NoLoad

NobodyReads ==
    /\ script = (CHOOSE s \in Scenes : TRUE) /\ run = [s \in Streams |-> Idle]
    /\ decoder = NoByte /\ tangled = {}

BothInit ==
    \/ focus = "streams" /\ Init /\ NobodyCalls
    \/ focus = "requests" /\ RequestsInit /\ NobodyReads

BothNext ==
    \/ focus = "streams" /\ Next /\ UNCHANGED <<focus, requestVars>>
    \/ focus = "requests" /\ RequestsNext /\ UNCHANGED <<focus, vars>>

BothSpec == BothInit /\ [][BothNext]_<<focus, vars, requestVars>>
=============================================================================
