--------------------------- MODULE SandboxProvider ---------------------------
(***************************************************************************)
(* What packages/sandbox asks of a provider, and what the pool above it    *)
(* takes for granted: a call of provision ends with one running sandbox or *)
(* leaves nothing behind, and a disposal that resolves leaves nothing      *)
(* either.  The one excuse is a sandbox for which a reply was lost or a    *)
(* cleanup failed before it was rejected.  Docker and Firecracker          *)
(* implement this.                                                         *)
(***************************************************************************)

CONSTANT Vms

VARIABLES
    phase,   \* where each sandbox is
    holding, \* the sandboxes that hold something outside of the process
    excused  \* those whose provisioning may leave something behind

providerVars == <<phase, holding, excused>>

ProviderInit ==
    /\ phase = [v \in Vms |-> "none"]
    /\ holding = {}
    /\ excused = {}

Move(v, from, to) == phase[v] = from /\ phase' = [phase EXCEPT ![v] = to]

Begin(v) == Move(v, "none", "provisioning") /\ UNCHANGED <<holding, excused>>

Take(v) ==
    /\ phase[v] = "provisioning"
    /\ holding' = holding \cup {v}
    /\ UNCHANGED <<phase, excused>>

\* Cleanup of what failed, disposal, or the reconciliation of a lost sandbox
\* gave the last thing back.
GiveBack(v) ==
    /\ phase[v] # "none"
    /\ holding' = holding \ {v}
    /\ UNCHANGED <<phase, excused>>

\* A cleanup fails, for now or for good.
Excuse(v) ==
    /\ excused' = excused \cup {v}
    /\ UNCHANGED <<phase, holding>>

Resolve(v) ==
    /\ v \in holding
    /\ Move(v, "provisioning", "running")
    /\ UNCHANGED <<holding, excused>>

\* The last cleanup, or a reply that is lost, may be what ends the call.
Reject(v) ==
    /\ Move(v, "provisioning", "rejected")
    /\ excused' \in {excused, excused \cup {v}}
    /\ holding' \in {holding, holding \ {v}, holding \cup {v}}
    /\ v \in holding' => v \in excused'

\* The last thing is given back when the disposal resolves at the latest.
Disposed(v) ==
    /\ Move(v, "running", "disposed")
    /\ holding' = holding \ {v}
    /\ UNCHANGED excused

\* The process dies with whatever it was doing.
Crash ==
    /\ phase' = [v \in Vms |-> IF phase[v] = "none" THEN "none" ELSE "lost"]
    /\ UNCHANGED <<holding, excused>>

\* A sweep gives back what a lost sandbox held, and may fail to.
Sweep(v) ==
    /\ phase[v] = "lost"
    /\ holding' \in {holding, holding \ {v}}
    /\ excused' \in {excused, excused \cup {v}}
    /\ UNCHANGED phase

ProviderNext ==
    \/ Crash
    \/ \E v \in Vms :
          \/ Begin(v) \/ Take(v) \/ GiveBack(v) \/ Excuse(v)
          \/ Resolve(v) \/ Reject(v) \/ Disposed(v) \/ Sweep(v)

ProviderSpec == ProviderInit /\ [][ProviderNext]_providerVars
=============================================================================
