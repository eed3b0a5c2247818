------------------------------- MODULE Docker -------------------------------
(***************************************************************************)
(* The Docker provider of packages/docker under the registry of            *)
(* agents/doric and the session of packages/sandbox: sandboxes that are    *)
(* provisioned and disposed of concurrently, what each holds in the daemon *)
(* and on the host, and requests and commands that fail before or after    *)
(* they took effect.                                                       *)
(*                                                                         *)
(* Every request to the daemon and every command that changes the host is  *)
(* a step.  What only happens inside a container or its key directory      *)
(* (keys, injected files, the SSH service, exec and archives) is part of   *)
(* the step that ends it, where its failures show up.  Doric sets no       *)
(* timeouts, so a request ends with the daemon's answer or with an error   *)
(* of the connection, which leaves open whether it took effect.            *)
(***************************************************************************)
EXTENDS Naturals, Sequences, FiniteSets, SequencesExt

CONSTANTS
    Vms,        \* sandboxes, and the ids of their containers
    Addresses,  \* addresses of the daemon's bridge
    NoIp,       \* no address
    MaxFaults   \* bound on failing requests and commands and on dying containers

VARIABLES
    policy,      \* options of the call and the platform, the same for all sandboxes
    containers,  \* the containers the daemon knows
    address,     \* the address of each running container
    filter,      \* the address that the nft table of a sandbox filters, if it has one
    directories, \* the sandboxes with a key directory
    vm,          \* the locals of each sandbox
    running,     \* the map of the VM registry
    faults

dockerVars == <<policy, containers, address, filter, directories, vm, running, faults>>
hostVars == <<containers, address, filter, directories>>

-----------------------------------------------------------------------------
\* Bug: the container goes first.
CleanupOrder_ContainerFirst == <<"container", "rules", "directory">>

\* What dispose gives back, in its order: host.dispose has the first two.
CleanupOrder == <<"rules", "directory", "container">>

Fresh ==
    [pc |-> "idle", quota |-> TRUE, found |-> NoIp, table |-> FALSE, hostDisposed |-> FALSE,
     owner |-> "provision", hostFailed |-> FALSE, failed |-> FALSE, leaked |-> FALSE]

\* normalizeSandboxNetwork: SSH implies egress.  Only Linux has rules.
Policies ==
    {p \in [egress : BOOLEAN, ssh : BOOLEAN, nftables : BOOLEAN, quotas : BOOLEAN] :
        p.ssh => p.egress}

DockerInit ==
    /\ policy \in Policies
    /\ containers = {}
    /\ address = [v \in Vms |-> NoIp]
    /\ filter = <<>>
    /\ directories = {}
    /\ vm = [v \in Vms |-> Fresh]
    /\ running = {}
    /\ faults = 0

At(v, pc) == vm[v].pc = pc
Goto(v, pc) == vm' = [vm EXCEPT ![v].pc = pc]
Fault == faults < MaxFaults /\ faults' = faults + 1

\* The daemon removes the container by force; its address is free again.
Removed(v) ==
    /\ containers' = containers \ {v}
    /\ address' = [address EXCEPT ![v] = NoIp]

-----------------------------------------------------------------------------
(* provisionDocker *)

\* createSandbox calls provision through the registry.
Provision(v) ==
    /\ At(v, "idle")
    /\ Goto(v, "image")
    /\ UNCHANGED <<policy, hostVars, running, faults>>

\* The preflight passes, and the image is there or pulled.
EnsureImage(v) ==
    /\ At(v, "image")
    /\ Goto(v, "create")
    /\ UNCHANGED <<policy, hostVars, running, faults>>

\* One of them fails, before there is a container.
EnsureImageFails(v) ==
    /\ At(v, "image")
    /\ Fault
    /\ Goto(v, "rejected")
    /\ UNCHANGED <<policy, hostVars, running>>

CreateContainer(v) ==
    /\ At(v, "create")
    /\ vm[v].quota => policy.quotas
    /\ containers' = containers \cup {v}
    /\ Goto(v, "start")
    /\ UNCHANGED <<policy, address, filter, directories, running, faults>>

\* unsupportedDiskQuota: once more, without the quota.
RetryWithoutQuota(v) ==
    /\ At(v, "create")
    /\ vm[v].quota /\ ~policy.quotas
    /\ vm' = [vm EXCEPT ![v].quota = FALSE]
    /\ UNCHANGED <<policy, hostVars, running, faults>>

\* The daemon refuses, or its answer is lost: then there may be a container
\* whose id nobody knows.
CreateFails(v) ==
    /\ At(v, "create")
    /\ Fault
    /\ \E created \in IF vm[v].quota /\ ~policy.quotas THEN {FALSE} ELSE BOOLEAN :
          /\ containers' = IF created THEN containers \cup {v} ELSE containers
          /\ vm' = [vm EXCEPT ![v].pc = "rejected", ![v].leaked = created]
    /\ UNCHANGED <<policy, address, filter, directories, running>>

\* The daemon starts the container, on the bridge if it has a network.
Started(v) ==
    IF policy.egress
    THEN \E a \in Addresses :
            /\ \A w \in Vms : address[w] # a
            /\ address' = [address EXCEPT ![v] = a]
    ELSE UNCHANGED address

StartContainer(v) ==
    /\ At(v, "start")
    /\ Started(v)
    /\ IF policy.egress
       THEN Goto(v, "inspect") /\ UNCHANGED running
       ELSE Goto(v, "ready") /\ running' = running \cup {v}
    /\ UNCHANGED <<policy, containers, filter, directories, faults>>

StartFails(v) ==
    /\ At(v, "start")
    /\ Fault
    /\ Started(v) \/ UNCHANGED address
    /\ Goto(v, "container")
    /\ UNCHANGED <<policy, containers, filter, directories, running>>

\* A container that has ended is inspected without an address.
InspectContainer(v) ==
    /\ At(v, "inspect")
    /\ vm' = [vm EXCEPT ![v].pc = "mkdir", ![v].found = address[v]]
    /\ UNCHANGED <<policy, hostVars, running, faults>>

\* Bug: the inspection is outside of the try block.
InspectFails_Forgets(v) ==
    /\ At(v, "inspect")
    /\ Fault
    /\ Goto(v, "rejected")
    /\ UNCHANGED <<policy, hostVars, running>>

\* The daemon fails before there is anything on the host.
InspectFails(v) ==
    /\ At(v, "inspect")
    /\ Fault
    /\ Goto(v, "container")
    /\ UNCHANGED <<policy, hostVars, running>>

\* configureDockerHost makes the directory of the keys first.
MakeDirectory(v) ==
    /\ At(v, "mkdir")
    /\ directories' = IF policy.ssh THEN directories \cup {v} ELSE directories
    /\ Goto(v, "table")
    /\ UNCHANGED <<policy, containers, address, filter, running, faults>>

MakeDirectoryFails(v) ==
    /\ At(v, "mkdir") /\ policy.ssh
    /\ Fault
    /\ Goto(v, "container")
    /\ UNCHANGED <<policy, hostVars, running>>

\* configureDockerHost throws: there is no address to filter.
NoAddress(v) == vm[v].found = NoIp

\* The table is named before nft is run.
AddRules(v) ==
    /\ At(v, "table")
    /\ ~NoAddress(v)
    /\ IF policy.nftables
       THEN /\ filter' = [w \in DOMAIN filter \cup {v} |-> IF w = v THEN vm[v].found ELSE filter[w]]
            /\ vm' = [vm EXCEPT ![v].pc = "ssh", ![v].table = TRUE]
       ELSE Goto(v, "ssh") /\ UNCHANGED filter
    /\ UNCHANGED <<policy, containers, address, directories, running, faults>>

AddRulesFails(v) ==
    /\ At(v, "table")
    /\ IF NoAddress(v) THEN UNCHANGED faults ELSE policy.nftables /\ Fault
    /\ vm' = [vm EXCEPT ![v].pc = "rules", ![v].table = ~NoAddress(v)]
    /\ UNCHANGED <<policy, hostVars, running>>

\* The keys, the service and the wait for its port; the runtime is complete,
\* and the registry lists it.
ConfigureSsh(v) ==
    /\ At(v, "ssh")
    /\ policy.ssh => address[v] # NoIp
    /\ Goto(v, "ready")
    /\ running' = running \cup {v}
    /\ UNCHANGED <<policy, hostVars, faults>>

\* One of its commands fails, or the container has ended.
ConfigureSshFails(v) ==
    /\ At(v, "ssh") /\ policy.ssh
    /\ Fault \/ (address[v] = NoIp /\ UNCHANGED faults)
    /\ Goto(v, "rules")
    /\ UNCHANGED <<policy, hostVars, running>>

\* The container ends by itself, and the daemon frees its address.
ContainerExits(v) ==
    /\ address[v] # NoIp
    /\ Fault
    /\ address' = [address EXCEPT ![v] = NoIp]
    /\ UNCHANGED <<policy, containers, filter, directories, vm, running>>

-----------------------------------------------------------------------------
(* dispose, and the catch blocks of provisioning *)

\* SandboxSession.dispose, the first call and those that repeat a failed one.
\* A host that has been disposed of is not touched again.
Dispose(v) ==
    /\ At(v, "ready") \/ At(v, "retry")
    /\ vm' = [vm EXCEPT ![v].pc = IF policy.egress /\ ~vm[v].hostDisposed THEN Head(CleanupOrder)
                                  ELSE "container",
                        ![v].owner = "dispose", ![v].hostFailed = FALSE, ![v].failed = FALSE]
    /\ UNCHANGED <<policy, hostVars, running, faults>>

\* Where a cleanup goes after a step: the next one, or the end of the call.
After(v, step, failed) ==
    IF step # Last(CleanupOrder)
    THEN CleanupOrder[1 + CHOOSE i \in DOMAIN CleanupOrder : CleanupOrder[i] = step]
    ELSE IF vm[v].owner = "provision" THEN "rejected"
    ELSE IF failed THEN "retry" ELSE "disposed"

\* dispose collects the failures of its steps; provision ignores them, and
\* what is left then is left for good.
Steps(v, step, failed, left) ==
    vm' = [vm EXCEPT ![v].pc = After(v, step, failed \/ vm[v].failed),
                     ![v].failed = @ \/ failed,
                     ![v].leaked = @ \/ left,
                     ![v].hostFailed = @ \/ (failed /\ step # "container"),
                     ![v].hostDisposed = @ \/ (step = "directory" /\ ~failed /\ ~vm[v].hostFailed)]

\* A table that is deleted is forgotten, for nft could not delete it twice.
ForgetTable(v) == [vm EXCEPT ![v].table = FALSE]

\* nft can only delete a table that exists.
DeleteRules(v) ==
    /\ At(v, "rules")
    /\ vm[v].table => v \in DOMAIN filter
    /\ filter' = [w \in DOMAIN filter \ {v} |-> filter[w]]
    /\ vm' = [ForgetTable(v) EXCEPT ![v].pc = After(v, "rules", vm[v].failed)]
    /\ UNCHANGED <<policy, containers, address, directories, running, faults>>

DeleteRulesFails(v) ==
    /\ At(v, "rules")
    /\ vm[v].table
    /\ IF v \in DOMAIN filter THEN Fault ELSE UNCHANGED faults
    /\ Steps(v, "rules", TRUE, v \in DOMAIN filter)
    /\ UNCHANGED <<policy, hostVars, running>>

RemoveDirectory(v) ==
    /\ At(v, "directory")
    /\ directories' = directories \ {v}
    /\ Steps(v, "directory", FALSE, FALSE)
    /\ UNCHANGED <<policy, containers, address, filter, running, faults>>

RemoveDirectoryFails(v) ==
    /\ At(v, "directory") /\ v \in directories
    /\ Fault
    /\ Steps(v, "directory", TRUE, TRUE)
    /\ UNCHANGED <<policy, hostVars, running>>

\* tracked: the registry forgets a runtime once its disposal resolved.
Unregister(v, failed) == IF failed THEN running ELSE running \ {v}

\* 204, or 404 when it is gone already.
RemoveContainer(v) ==
    /\ At(v, "container")
    /\ Removed(v)
    /\ Steps(v, "container", FALSE, FALSE)
    /\ running' = Unregister(v, vm[v].failed)
    /\ UNCHANGED <<policy, filter, directories, faults>>

\* The daemon refuses, or its answer is lost.
RemoveContainerFails(v) ==
    /\ At(v, "container")
    /\ Fault
    /\ Removed(v) \/ UNCHANGED <<containers, address>>
    /\ Steps(v, "container", TRUE, v \in containers')
    /\ running' = Unregister(v, TRUE)
    /\ UNCHANGED <<policy, filter, directories>>

-----------------------------------------------------------------------------
Advance(v) ==
    \/ EnsureImage(v) \/ CreateContainer(v) \/ RetryWithoutQuota(v) \/ StartContainer(v) \/ InspectContainer(v)
    \/ MakeDirectory(v) \/ AddRules(v) \/ (NoAddress(v) /\ AddRulesFails(v))
    \/ ConfigureSsh(v) \/ (address[v] = NoIp /\ ConfigureSshFails(v))
    \/ DeleteRules(v) \/ (v \notin DOMAIN filter /\ DeleteRulesFails(v))
    \/ RemoveDirectory(v) \/ RemoveContainer(v)
    \/ (At(v, "retry") /\ Dispose(v))

Fails(v) ==
    \/ EnsureImageFails(v) \/ CreateFails(v) \/ StartFails(v) \/ InspectFails(v)
    \/ MakeDirectoryFails(v) \/ AddRulesFails(v) \/ ConfigureSshFails(v) \/ ContainerExits(v)
    \/ DeleteRulesFails(v) \/ RemoveDirectoryFails(v) \/ RemoveContainerFails(v)

DockerNext == \E v \in Vms : Provision(v) \/ Dispose(v) \/ Advance(v) \/ Fails(v)

DockerSpec == DockerInit /\ [][DockerNext]_dockerVars

-----------------------------------------------------------------------------
(* Properties *)

\* The rules of a sandbox never meet the traffic of another one, although the
\* daemon gives an address away as soon as its container is gone: the rules go
\* first, unless nft fails or the container has ended by itself.
\* And a disposal, the first or a repeated one, only deletes a table that is
\* there, for nft would fail for ever on any other.
RulesMeetTheirContainer ==
    /\ \A v \in Vms : At(v, "rules") /\ vm[v].owner = "dispose" /\ vm[v].table => v \in DOMAIN filter
    /\ \A v \in DOMAIN filter : \A w \in Vms \ {v} :
          address[w] = filter[v] => vm[v].leaked \/ (v \in containers /\ address[v] = NoIp)

\* What the provider promises about, in terms of this state.
Phase(v) ==
    IF v \in running THEN "running"
    ELSE IF vm[v].pc \in {"rejected", "disposed"} THEN vm[v].pc
    ELSE IF At(v, "idle") THEN "none" ELSE "provisioning"
Holding == containers \cup DOMAIN filter \cup directories
Excused == {v \in Vms : vm[v].leaked}

\* Provisioning leaves a registered sandbox or nothing, and a disposal that
\* resolves leaves nothing, unless a cleanup failed that nobody repeats.
Provider == INSTANCE SandboxProvider WITH
    phase <- [v \in Vms |-> Phase(v)], holding <- Holding, excused <- Excused

ProviderImplemented == Provider!ProviderSpec

=============================================================================
