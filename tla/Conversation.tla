---------------------------- MODULE Conversation ----------------------------
(***************************************************************************)
(* What a run of packages/agent promises, whether it is completed or       *)
(* streamed: caller and provider take turns; the caller asks within its    *)
(* turn limit, and only when every call of the last reply has its result;  *)
(* replies are rejected within one budget, whatever was wrong with them;   *)
(* one run is open at a time, it may be given up at any point, and the     *)
(* agent is free again as soon as it is over.                              *)
(* AgentLoop implements this.                                              *)
(***************************************************************************)
EXTENDS Naturals

CONSTANTS MaxTurns, MaxRepairs, MaxCalls

VARIABLES
    phase,    \* whose turn it is: nobody's, the caller's, the provider's, the tools'
    limits,   \* the limits of the run: [turns, repairs]
    turns,    \* the requests of the run
    rejected, \* the rejected replies of the run
    pending,  \* the calls of the last reply that have no result yet
    free      \* whether the next run may open

conversationVars == <<phase, limits, turns, rejected, pending, free>>

Closed == [turns |-> 1, repairs |-> 0]

ConversationInit ==
    /\ phase = "closed"
    /\ limits = Closed
    /\ turns = 0
    /\ rejected = 0
    /\ pending = 0
    /\ free = TRUE

Open ==
    /\ phase = "closed"
    /\ free
    /\ free' = FALSE
    /\ phase' = "caller"
    /\ limits' \in [turns : 1..MaxTurns, repairs : 0..MaxRepairs]
    /\ UNCHANGED <<turns, rejected, pending>>

Ask ==
    /\ phase = "caller"
    /\ turns < limits.turns
    /\ turns' = turns + 1
    /\ phase' = "provider"
    /\ UNCHANGED <<limits, rejected, pending, free>>

\* A reply that is accepted asks for tools or is the answer.
Accept ==
    /\ phase = "provider"
    /\ \E calls \in 0..MaxCalls :
          /\ pending' = calls
          /\ phase' = IF calls = 0 THEN "caller" ELSE "tools"
    /\ UNCHANGED <<limits, turns, rejected, free>>

\* All calls of a rejected reply are answered with it.
Reject ==
    /\ phase = "provider"
    /\ rejected <= limits.repairs
    /\ rejected' = rejected + 1
    /\ phase' = "caller"
    /\ UNCHANGED <<limits, turns, pending, free>>

Observe ==
    /\ phase = "tools"
    /\ pending' = pending - 1
    /\ phase' = IF pending' = 0 THEN "caller" ELSE "tools"
    /\ UNCHANGED <<limits, turns, rejected, free>>

Close ==
    /\ phase' = "closed"
    /\ limits' = Closed
    /\ turns' = 0
    /\ rejected' = 0
    /\ pending' = 0
    /\ free' = TRUE

ConversationNext == Open \/ Ask \/ Accept \/ Reject \/ Observe \/ Close

ConversationSpec == ConversationInit /\ [][ConversationNext]_conversationVars
=============================================================================
