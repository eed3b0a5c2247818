---------------------------- MODULE Firecracker ----------------------------
(***************************************************************************)
(* The Firecracker provider of packages/firecracker: sandboxes that are    *)
(* provisioned, used and disposed of concurrently by one process, what     *)
(* they hold on the host and in the image cache, and the reconciliation of *)
(* what a crashed process left there.                                      *)
(*                                                                         *)
(* The host is what survives a crash: per kind of resource, the sandboxes  *)
(* that hold one.  Every awaited command or file operation that another    *)
(* sandbox or a crash can tell apart is a step; commands that only touch   *)
(* the sandbox's own directory are merged into the next such step, where   *)
(* their failures show up.  A lock is taken in the step that first reads   *)
(* what it guards, and given back in the step that last changes it.  One   *)
(* image reference is pulled, whose digest may move; all images have the   *)
(* same size.  A sandbox id is used once.                                  *)
(***************************************************************************)
EXTENDS Naturals, Sequences, FiniteSets, SequencesExt

CONSTANTS
    Vms,          \* ids of sandboxes
    Keys,         \* digests the image reference may resolve to
    None,
    MaxNetworks,  \* bound on the number of networks in the pool
    CacheLimit,   \* how many images fit into cacheLimitBytes
    MaxFaults,    \* bound on the failing commands and the VMs that end by themselves
    MaxCrashes,   \* bound on the crashes of the process
    Exits         \* how a VM may end by itself: "code", "signal"

\* Keys are digests, and the other locks are not named like one.
ASSUME LocksAreApart ==
    /\ MaxNetworks \in Nat
    /\ {"network", "lru"} \cap (Keys \cup {None}) = {}

VARIABLES
    held,      \* what the sandboxes hold on the host
    cache,     \* the image cache, except for the use markers; each disk is listed once
    locks,     \* the lock directories: network, lru and one per image key
    vm,        \* the locals of each sandbox, and the contents of its files
    provider,  \* the promise reconciliation and what it has yet to sweep
    bounds     \* networks in the pool, faults and crashes

fcVars == <<held, cache, locks, vm, provider, bounds>>

-----------------------------------------------------------------------------
\* Bug: the directory goes before what is found through it.
CleanupOrder_DirectoryFirst ==
    <<"proxy", "process", "directory", "mount", "rules", "tap", "allocation", "jail", "marker">>

\* What dispose gives back, in its order.  network.dispose stands for the
\* rules, the TAP and the allocation.
CleanupOrder ==
    <<"proxy", "process", "mount", "rules", "tap", "allocation", "jail", "directory", "marker">>

Resources == ToSet(CleanupOrder)

Fresh ==
    [pc |-> "idle", key |-> None, index |-> None, cached |-> FALSE, victims |-> <<>>, total |-> 0,
     network |-> FALSE, child |-> "none", mounted |-> FALSE, connected |-> FALSE,
     owner |-> "provision", failed |-> FALSE, leaked |-> FALSE]

Init ==
    /\ held = [r \in Resources |-> {}]
    /\ cache = [disks |-> <<>>, metadata |-> {}, reference |-> None]
    /\ locks = {}
    /\ vm = [v \in Vms |-> Fresh]
    /\ provider = [reconciliation |-> "none", stale |-> {}]
    /\ \E n \in 1..MaxNetworks : bounds = [networks |-> n, faults |-> 0, crashes |-> 0]

At(v, pc) == vm[v].pc = pc
Goto(v, pc) == vm' = [vm EXCEPT ![v].pc = pc]
Hold(v, r) == held' = [held EXCEPT ![r] = @ \cup {v}]
Lock(name) == name \notin locks /\ locks' = locks \cup {name}
Fault == bounds.faults < MaxFaults /\ bounds' = [bounds EXCEPT !.faults = @ + 1]

-----------------------------------------------------------------------------
(* createFirecrackerClient: reconciliation before the first sandbox *)

\* provision after its preflight: the first call starts the reconciliation.
Provision(v) ==
    /\ At(v, "idle")
    /\ Goto(v, "awaiting")
    /\ provider' = IF provider.reconciliation = "none"
                     THEN [provider EXCEPT !.reconciliation = "clearing"] ELSE provider
    /\ UNCHANGED <<held, cache, locks, bounds>>

\* Bug: the locks of images outlive a crash.
ClearLocks_OnlyNetwork ==
    /\ provider.reconciliation = "clearing"
    /\ locks' = locks \ {"network"}
    /\ provider' = [reconciliation |-> "sweeping", stale |-> held["directory"]]
    /\ UNCHANGED <<held, cache, vm, bounds>>

ClearLocks ==
    /\ provider.reconciliation = "clearing"
    /\ locks' = {}
    /\ provider' = [reconciliation |-> "sweeping", stale |-> held["directory"]]
    /\ UNCHANGED <<held, cache, vm, bounds>>

\* Whatever belongs to a sandbox directory goes, the directory last.  umount,
\* nft and ip may fail, which is ignored; but the jail of a disk that is still
\* mounted cannot be removed, and then the reconciliation is rejected for good.
Sweep(v) ==
    /\ v \in provider.stale
    /\ \E stuck \in SUBSET {r \in {"mount", "rules", "tap"} : v \in held[r]} :
        LET busy == "mount" \in stuck
            kept == IF busy THEN stuck \cup {"jail", "directory"} ELSE stuck
        IN  /\ bounds.faults + Cardinality(stuck) <= MaxFaults
            /\ bounds' = [bounds EXCEPT !.faults = @ + Cardinality(stuck)]
            /\ held' = [r \in Resources |-> IF r \in kept THEN held[r] ELSE held[r] \ {v}]
            /\ vm' = [vm EXCEPT ![v].leaked = @ \/ stuck # {}]
            /\ provider' = IF busy THEN [reconciliation |-> "failed", stale |-> {}]
                           ELSE [provider EXCEPT !.stale = @ \ {v}]
    /\ UNCHANGED <<cache, locks>>

Reconciled ==
    /\ provider = [reconciliation |-> "sweeping", stale |-> {}]
    /\ provider' = [provider EXCEPT !.reconciliation = "done"]
    /\ UNCHANGED <<held, cache, locks, vm, bounds>>

Refused(v) ==
    /\ At(v, "awaiting") /\ provider.reconciliation = "failed"
    /\ Goto(v, "rejected")
    /\ UNCHANGED <<held, cache, locks, provider, bounds>>

\* provisionFirecracker begins: from here on a failure disposes of the rest.
MakeDirectory(v) ==
    /\ At(v, "awaiting") /\ provider.reconciliation = "done"
    /\ Hold(v, "directory")
    /\ Goto(v, "keys")
    /\ UNCHANGED <<cache, locks, provider, bounds>>

\* Management, user and host keys, all in the directory.
GenerateKeys(v) ==
    /\ At(v, "keys")
    /\ Goto(v, "image")
    /\ UNCHANGED <<held, cache, locks, provider, bounds>>

-----------------------------------------------------------------------------
(* prepareImage *)

Users(key) == {v \in held["marker"] : vm[v].key = key}
Present(key) == key \in ToSet(cache.disks) \cap cache.metadata

\* if-not-present, and the reference was resolved before.
UseReference(v) ==
    /\ At(v, "image") /\ cache.reference # None
    /\ vm' = [vm EXCEPT ![v].pc = "lru", ![v].key = cache.reference, ![v].cached = TRUE]
    /\ UNCHANGED <<held, cache, locks, provider, bounds>>

\* skopeo resolves the reference to the digest of the day.
Pull(v) ==
    /\ At(v, "image") \/ At(v, "pull")
    /\ \E key \in Keys : vm' = [vm EXCEPT ![v].pc = "key", ![v].key = key, ![v].cached = FALSE]
    /\ UNCHANGED <<held, cache, locks, provider, bounds>>

LockKey(v) ==
    /\ At(v, "key")
    /\ Lock(vm[v].key)
    /\ Goto(v, IF Present(vm[v].key) THEN "reference" ELSE "convert")
    /\ UNCHANGED <<held, cache, provider, bounds>>

\* convert unpacks into work files; the disk appears, then its metadata.
Convert(v) ==
    /\ At(v, "convert")
    /\ cache' = [cache EXCEPT !.disks = Append(RemoveFirst(@, vm[v].key), vm[v].key)]
    /\ Goto(v, "metadata")
    /\ UNCHANGED <<held, locks, provider, bounds>>

WriteMetadata(v) ==
    /\ At(v, "metadata")
    /\ cache' = [cache EXCEPT !.metadata = @ \cup {vm[v].key}]
    /\ Goto(v, "reference")
    /\ UNCHANGED <<held, locks, provider, bounds>>

WriteReference(v) ==
    /\ At(v, "reference")
    /\ cache' = [cache EXCEPT !.reference = vm[v].key]
    /\ Goto(v, "lru")
    /\ UNCHANGED <<held, locks, provider, bounds>>

\* The locks of an activation; a cached one does not hold that of its key.
Unlocked(v) == locks \ ({"lru"} \cup IF vm[v].cached THEN {} ELSE {vm[v].key})

\* The image was evicted meanwhile: pull it after all, or give up.
Missing(v) ==
    /\ At(v, "lru") /\ ~Present(vm[v].key) /\ "lru" \notin locks
    /\ locks' = Unlocked(v)
    /\ Goto(v, IF vm[v].cached THEN "pull" ELSE Head(CleanupOrder))
    /\ UNCHANGED <<held, cache, provider, bounds>>

\* The use marker, and the new mtime of the disk.
Mark(v) ==
    /\ At(v, "lru") /\ Present(vm[v].key)
    /\ Lock("lru")
    /\ Hold(v, "marker")
    /\ cache' = [cache EXCEPT !.disks = Append(RemoveFirst(@, vm[v].key), vm[v].key)]
    /\ Goto(v, "list")
    /\ UNCHANGED <<provider, bounds>>

\* evict: the disks, least recently used first, and their size.
ListDisks(v) ==
    /\ At(v, "list")
    /\ vm' = [vm EXCEPT ![v].pc = "evict", ![v].victims = cache.disks, ![v].total = Len(cache.disks)]
    /\ UNCHANGED <<held, cache, locks, provider, bounds>>

Evicting(v) == At(v, "evict") /\ vm[v].total > CacheLimit

SkipUsed(v) ==
    /\ Evicting(v) /\ vm[v].victims # <<>>
    /\ Users(Head(vm[v].victims)) # {}
    /\ vm' = [vm EXCEPT ![v].victims = Tail(@)]
    /\ UNCHANGED <<held, cache, locks, provider, bounds>>

\* Bug: use markers are not looked at.
EvictDisk_EvenUsed(v) ==
    /\ Evicting(v) /\ vm[v].victims # <<>>
    /\ cache' = [cache EXCEPT !.disks = RemoveFirst(@, Head(vm[v].victims))]
    /\ Goto(v, "evictMetadata")
    /\ UNCHANGED <<held, locks, provider, bounds>>

EvictDisk(v) ==
    /\ Evicting(v) /\ vm[v].victims # <<>>
    /\ Users(Head(vm[v].victims)) = {}
    /\ cache' = [cache EXCEPT !.disks = RemoveFirst(@, Head(vm[v].victims))]
    /\ Goto(v, "evictMetadata")
    /\ UNCHANGED <<held, locks, provider, bounds>>

EvictMetadata(v) ==
    /\ At(v, "evictMetadata")
    /\ cache' = [cache EXCEPT !.metadata = @ \ {Head(vm[v].victims)}]
    /\ vm' = [vm EXCEPT ![v].pc = "evict", ![v].victims = Tail(@), ![v].total = @ - 1]
    /\ UNCHANGED <<held, locks, provider, bounds>>

\* The marker is taken back before the locks are.
CacheFull(v) ==
    /\ Evicting(v) /\ vm[v].victims = <<>>
    /\ held' = [held EXCEPT !["marker"] = @ \ {v}]
    /\ locks' = Unlocked(v)
    /\ Goto(v, Head(CleanupOrder))
    /\ UNCHANGED <<cache, provider, bounds>>

Activated(v) ==
    /\ At(v, "evict") /\ vm[v].total <= CacheLimit
    /\ locks' = Unlocked(v)
    /\ vm' = [vm EXCEPT ![v].pc = "network", ![v].victims = <<>>, ![v].total = 0]
    /\ UNCHANGED <<held, cache, provider, bounds>>

\* A command or file operation of prepareImage fails, before it activates.
ImageFails(v) ==
    /\ vm[v].pc \in {"image", "pull", "convert", "metadata", "reference"}
    /\ Fault
    /\ locks' = IF vm[v].pc \in {"image", "pull"} THEN locks ELSE locks \ {vm[v].key}
    /\ Goto(v, Head(CleanupOrder))
    /\ UNCHANGED <<held, cache, provider>>

-----------------------------------------------------------------------------
(* createVmNetwork *)

FreeNetworks == (0..bounds.networks - 1) \ {vm[w].index : w \in held["allocation"]}

\* Bug: the lock is not waited for.
Allocate_Unguarded(v) ==
    /\ At(v, "network") /\ FreeNetworks # {}
    /\ locks' = locks \cup {"network"}
    /\ vm' = [vm EXCEPT ![v].pc = "record", ![v].index = CHOOSE i \in FreeNetworks : \A j \in FreeNetworks : i <= j]
    /\ UNCHANGED <<held, cache, provider, bounds>>

\* The allocation files of the others are read, then one is written.
Allocate(v) ==
    /\ At(v, "network") /\ FreeNetworks # {}
    /\ Lock("network")
    /\ vm' = [vm EXCEPT ![v].pc = "record", ![v].index = CHOOSE i \in FreeNetworks : \A j \in FreeNetworks : i <= j]
    /\ UNCHANGED <<held, cache, provider, bounds>>

Exhausted(v) ==
    /\ At(v, "network") /\ FreeNetworks = {} /\ "network" \notin locks
    /\ Goto(v, Head(CleanupOrder))
    /\ UNCHANGED <<held, cache, locks, provider, bounds>>

RecordNetwork(v) ==
    /\ At(v, "record")
    /\ Hold(v, "allocation")
    /\ locks' = locks \ {"network"}
    /\ Goto(v, "addTap")
    /\ UNCHANGED <<cache, provider, bounds>>

AddTap(v) ==
    /\ At(v, "addTap")
    /\ Hold(v, "tap")
    /\ Goto(v, "addRules")
    /\ UNCHANGED <<cache, locks, provider, bounds>>

\* The address, the link and the rules; from here on there is a VmNetwork.
AddRules(v) ==
    /\ At(v, "addRules")
    /\ Hold(v, "rules")
    /\ vm' = [vm EXCEPT ![v].pc = "disk", ![v].network = TRUE]
    /\ UNCHANGED <<cache, locks, provider, bounds>>

\* Bug: the allocation is only given back by a complete network.
NetworkFails_KeepsAllocation(v) ==
    /\ At(v, "addTap") \/ At(v, "addRules")
    /\ Fault
    /\ held' = [held EXCEPT !["tap"] = @ \ {v}]
    /\ vm' = [vm EXCEPT ![v].pc = Head(CleanupOrder)]
    /\ UNCHANGED <<cache, locks, provider>>

\* createVmNetwork gives back what it has; a TAP it cannot delete remains.
NetworkFails(v) ==
    /\ At(v, "addTap") \/ At(v, "addRules")
    /\ \E stuck \in SUBSET {r \in {"tap"} : v \in held[r]} :
        /\ bounds.faults + 1 + Cardinality(stuck) <= MaxFaults
        /\ bounds' = [bounds EXCEPT !.faults = @ + 1 + Cardinality(stuck)]
        /\ held' = [r \in Resources |-> IF r \in {"tap", "allocation"} \ stuck THEN held[r] \ {v} ELSE held[r]]
        /\ vm' = [vm EXCEPT ![v].pc = Head(CleanupOrder), ![v].leaked = stuck # {}]
    /\ UNCHANGED <<cache, locks, provider>>

-----------------------------------------------------------------------------
(* provisionFirecracker from the jailer on *)

\* The writable disk is made and seeded in the directory.
CreateDisk(v) ==
    /\ At(v, "disk")
    /\ Goto(v, "launch")
    /\ UNCHANGED <<held, cache, locks, provider, bounds>>

\* The jailer is spawned and makes its jail.
Launch(v) ==
    /\ At(v, "launch")
    /\ held' = [held EXCEPT !["process"] = @ \cup {v}, !["jail"] = @ \cup {v}]
    /\ vm' = [vm EXCEPT ![v].pc = "mountBase", ![v].child = "running"]
    /\ UNCHANGED <<cache, locks, provider, bounds>>

MountBase(v) ==
    /\ At(v, "mountBase")
    /\ Hold(v, "mount")
    /\ vm' = [vm EXCEPT ![v].pc = "boot", ![v].mounted = TRUE]
    /\ UNCHANGED <<cache, locks, provider, bounds>>

\* The remount fails; mountBase unmounts, and ignores that this fails too.
MountFails(v) ==
    /\ At(v, "mountBase")
    /\ \E stuck \in BOOLEAN :
        LET failures == IF stuck THEN 2 ELSE 1
        IN  /\ bounds.faults + failures <= MaxFaults
            /\ bounds' = [bounds EXCEPT !.faults = @ + failures]
            /\ held' = [held EXCEPT !["mount"] = IF stuck THEN @ \cup {v} ELSE @]
            /\ vm' = [vm EXCEPT ![v].pc = Head(CleanupOrder), ![v].leaked = stuck]
    /\ UNCHANGED <<cache, locks, provider>>

\* The VM is configured, recorded in state.json and started.
Configure(v) ==
    /\ At(v, "boot") /\ vm[v].child = "running"
    /\ Goto(v, "guest")
    /\ UNCHANGED <<held, cache, locks, provider, bounds>>

\* The guest answers and the proxy of its user listens.
Expose(v) ==
    /\ At(v, "guest") /\ vm[v].child = "running"
    /\ Hold(v, "proxy")
    /\ Goto(v, "ready")
    /\ UNCHANGED <<cache, locks, provider, bounds>>

\* One of these fails, or times out because the VM has ended.
BootFails(v) ==
    /\ vm[v].pc \in {"keys", "disk", "launch", "mountBase", "boot", "guest"}
    /\ Fault \/ (vm[v].child \in {"code", "signal"} /\ UNCHANGED bounds)
    /\ Goto(v, Head(CleanupOrder))
    /\ UNCHANGED <<held, cache, locks, provider>>

\* The jailer or the VM ends by itself.
VmExits(v) ==
    /\ vm[v].child = "running"
    /\ Fault
    /\ \E how \in Exits : vm' = [vm EXCEPT ![v].child = how]
    /\ held' = [held EXCEPT !["process"] = @ \ {v}]
    /\ UNCHANGED <<cache, locks, provider>>

-----------------------------------------------------------------------------
(* the runtime, and dispose *)

\* A user opens an SSH connection through the proxy, and closes it.
UserConnects(v) ==
    /\ At(v, "ready") /\ ~vm[v].connected
    /\ vm' = [vm EXCEPT ![v].connected = TRUE]
    /\ UNCHANGED <<held, cache, locks, provider, bounds>>

UserLeaves(v) ==
    /\ vm[v].connected
    /\ vm' = [vm EXCEPT ![v].connected = FALSE]
    /\ UNCHANGED <<held, cache, locks, provider, bounds>>

\* The first call, and those with which the pool repeats one that failed.
Dispose(v) ==
    /\ At(v, "ready")
    /\ vm' = [vm EXCEPT ![v].pc = Head(CleanupOrder), ![v].owner = "dispose"]
    /\ UNCHANGED <<held, cache, locks, provider, bounds>>

RetryDispose(v) ==
    /\ At(v, "retry")
    /\ vm' = [vm EXCEPT ![v].pc = Head(CleanupOrder), ![v].failed = FALSE]
    /\ UNCHANGED <<held, cache, locks, provider, bounds>>

\* Where dispose goes after a step, given whether a step failed.
After(v, r, failed) ==
    IF r # Last(CleanupOrder) THEN CleanupOrder[1 + CHOOSE i \in DOMAIN CleanupOrder : CleanupOrder[i] = r]
    ELSE IF vm[v].owner = "provision" THEN "rejected"
    ELSE IF failed THEN "retry" ELSE "disposed"

\* dispose attempts a step: its Resources record says that there is something.
Attempted(v, r) ==
    /\ v \in held[r]
    /\ r = "mount" => vm[v].mounted
    /\ r \in {"rules", "tap", "allocation"} => vm[v].network

\* server.close waits for the connections.  A child without an exitCode is
\* killed and its exit awaited, which a signal may have brought about before.
\* A directory with a mount in it cannot be removed.
Returns(v, r) ==
    /\ r = "proxy" => ~vm[v].connected
    /\ r = "process" => vm[v].child # "signal"
Busy(v, r) == r = "jail" /\ v \in held["mount"]

CleanUp(v) ==
    \E r \in Resources :
        /\ At(v, r) /\ Returns(v, r) /\ ~Busy(v, r)
        /\ held' = IF Attempted(v, r) THEN [held EXCEPT ![r] = @ \ {v}] ELSE held
        /\ vm' = [vm EXCEPT ![v].pc = After(v, r, vm[v].failed),
                            ![v].mounted = IF r = "mount" THEN FALSE ELSE @,
                            ![v].child = IF r = "process" /\ @ = "running" THEN "signal" ELSE @]
        /\ UNCHANGED <<cache, locks, provider, bounds>>

\* A step fails; dispose goes on and reports it in the end.
CleanUpFails(v) ==
    \E r \in Resources \ {"process"} :
        /\ At(v, r) /\ Returns(v, r) /\ Attempted(v, r)
        /\ IF Busy(v, r) THEN UNCHANGED bounds ELSE Fault
        /\ vm' = [vm EXCEPT ![v].pc = After(v, r, TRUE), ![v].failed = TRUE, ![v].leaked = TRUE]
        /\ UNCHANGED <<held, cache, locks, provider>>

\* The process dies.  Only what lives in it goes away.
Crash ==
    /\ bounds.crashes < MaxCrashes
    /\ bounds' = [bounds EXCEPT !.crashes = @ + 1]
    /\ held' = [held EXCEPT !["proxy"] = {}]
    /\ vm' = [v \in Vms |-> IF At(v, "idle") THEN vm[v]
                            ELSE [Fresh EXCEPT !.pc = "lost", !.key = vm[v].key, !.index = vm[v].index,
                                               !.leaked = vm[v].leaked]]
    /\ provider' = [reconciliation |-> "none", stale |-> {}]
    /\ UNCHANGED <<cache, locks>>

-----------------------------------------------------------------------------
Reconcile == ClearLocks \/ Reconciled \/ \E v \in Vms : Sweep(v)

Advance(v) ==
    \/ Refused(v) \/ MakeDirectory(v) \/ GenerateKeys(v)
    \/ UseReference(v) \/ Pull(v) \/ LockKey(v) \/ Convert(v) \/ WriteMetadata(v)
    \/ WriteReference(v) \/ Missing(v) \/ Mark(v) \/ ListDisks(v) \/ SkipUsed(v)
    \/ EvictDisk(v) \/ EvictMetadata(v) \/ CacheFull(v) \/ Activated(v)
    \/ Allocate(v) \/ Exhausted(v) \/ RecordNetwork(v)
    \/ AddTap(v) \/ AddRules(v) \/ CreateDisk(v) \/ Launch(v) \/ MountBase(v) \/ Configure(v) \/ Expose(v) \/ BootFails(v)
    \/ CleanUp(v) \/ CleanUpFails(v) \/ RetryDispose(v)

Environment(v) ==
    \/ Provision(v) \/ Dispose(v) \/ VmExits(v) \/ UserConnects(v) \/ UserLeaves(v)
    \/ ImageFails(v) \/ NetworkFails(v) \/ MountFails(v)

fcNext == Reconcile \/ Crash \/ \E v \in Vms : Advance(v) \/ Environment(v)

Spec == Init /\ [][fcNext]_fcVars

\* Every promise that settles runs its continuation, and timers fire.  Calls,
\* users, failures and crashes are not owed.
Fairness ==
    /\ WF_fcVars(Reconcile)
    /\ \A v \in Vms : WF_fcVars(Advance(v))

FairSpec == Spec /\ Fairness

-----------------------------------------------------------------------------
\* Two sandboxes that hold an allocation never hold the same network, although
\* each picks the first free one from files that the others write and remove.
NetworksDisjoint ==
    \A v, w \in held["allocation"] : vm[v].index = vm[w].index => v = w

\* An image with a use marker is never evicted while its sandbox lives: the
\* disk that a VM mounts, and the metadata it was activated with, stay.
UsedImagesStay ==
    \A v \in held["marker"] : ~At(v, "lost") => Present(vm[v].key)

\* What the provider promises about, in terms of this state.
Phase(v) ==
    IF vm[v].pc \in {"rejected", "disposed", "lost"} THEN vm[v].pc
    ELSE IF At(v, "idle") THEN "none"
    ELSE IF At(v, "ready") \/ vm[v].owner = "dispose" THEN "running" ELSE "provisioning"
Holding == UNION {held[r] : r \in Resources \ {"proxy"}}
Excused == {v \in Vms : vm[v].leaked}

\* Provisioning ends with a running sandbox or leaves nothing, and a disposal
\* that resolves leaves nothing, unless a cleanup failed that nobody repeats.
Provider == INSTANCE SandboxProvider WITH
    phase <- [v \in Vms |-> Phase(v)], holding <- Holding, excused <- Excused

ProviderImplemented == Provider!ProviderSpec

\* As long as no command of a cleanup failed, whatever a sandbox holds on the
\* host is reachable from its directory, which is where a later process looks
\* for it.  The use marker is not, because dispose removes it after the
\* directory: a crash in between leaves it for ever.
LeftoversAreReachable ==
    \A r \in Resources \ {"marker"} : \A v \in held[r] :
        v \in held["directory"] \/ vm[v].leaked

\* Every call of provision settles, whatever the others do, whatever fails and
\* whatever locks an earlier process left behind; except the one whose VM a
\* signal ended before it was ready: its cleanup waits for an exit event that
\* was emitted before terminate began to listen.
WaitsForLostExit(v) == At(v, "process") /\ vm[v].child = "signal"

ProvisionsSettle ==
    \A v \in Vms : At(v, "awaiting") ~>
        vm[v].pc \in {"ready", "rejected", "lost"} \/ WaitsForLostExit(v)

\* A disposal ends, successfully or not, unless a user keeps a connection open.
DisposalsReturn ==
    \A v \in Vms : vm[v].owner = "dispose" ~> vm[v].connected \/ vm[v].pc \in {"disposed", "retry", "lost"}
=============================================================================
