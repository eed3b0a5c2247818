------------------------- MODULE FirecrackerProofs -------------------------
(***************************************************************************)
(* The sandboxes of the Firecracker provider use disjoint networks, what   *)
(* they leave on the host can be found again, and no image they use is     *)
(* evicted, for any number of sandboxes, images, networks, faults and      *)
(* crashes.                                                                *)
(*                                                                         *)
(* Disjointness is not inductive: that the network a sandbox records is    *)
(* still free follows from the lock, which one sandbox at a time holds     *)
(* between the choice and the record; and that a lock left by a crash can  *)
(* be taken away follows from the reconciliation, which is over before a   *)
(* sandbox gets that far.                                                  *)
(*                                                                         *)
(* Whether a leftover can be found again depends on how far each sandbox   *)
(* had come: HostInv says what is held at each place of a provision, what  *)
(* the locals that dispose looks at know of it, and what each step of a    *)
(* cleanup has given back or leaked.  It makes the provider implement      *)
(* SandboxProvider.  That no used image is evicted rests on the lock under *)
(* which images are marked and evicted, which a crash leaves behind and a  *)
(* reconciliation clears when nobody evicts: ImagesInv.                    *)
(***************************************************************************)
EXTENDS Firecracker, CommunityLemmas

\* Sandboxes for which provisionFirecracker has nothing under way.
Waiting == {"idle", "awaiting", "rejected", "lost"}

\* Sandboxes that have not recorded a network.
Early ==
    {"idle", "awaiting", "keys", "image", "pull", "key", "convert", "metadata", "reference",
     "lru", "list", "evict", "evictMetadata", "network", "record"}

LocalsOK(x) ==
    /\ {"pc", "key", "index"} \subseteq DOMAIN x
    /\ x.key \in Keys \cup {None}

StateOK ==
    /\ DOMAIN vm = Vms
    /\ \A v \in Vms : LocalsOK(vm[v])
    /\ DOMAIN held = Resources
    /\ held["allocation"] \subseteq Vms
    /\ "reference" \in DOMAIN cache
    /\ cache.reference \in Keys \cup {None}
    /\ {"reconciliation", "stale"} \subseteq DOMAIN provider
    /\ "networks" \in DOMAIN bounds
    /\ bounds.networks \in Nat

\* Between the choice of a network and its record stands the lock.
LockGuardsChoice ==
    /\ \A v \in Vms : At(v, "record") => "network" \in locks
    /\ \A v, w \in Vms : At(v, "record") /\ At(w, "record") => v = w
    /\ \A v \in Vms, w \in held["allocation"] : At(v, "record") => vm[v].index # vm[w].index

\* A sandbox has no allocation before it records one.
EarlyHaveNone == \A v \in Vms : vm[v].pc \in Early => v \notin held["allocation"]

\* Nothing is provisioned before the reconciliation is over.
ReconciledFirst ==
    /\ \A v \in Vms : vm[v].pc \notin Waiting => provider.reconciliation = "done"
    /\ provider.stale # {} => provider.reconciliation = "sweeping"

NetInv == StateOK /\ LockGuardsChoice /\ EarlyHaveNone /\ ReconciledFirst /\ NetworksDisjoint

-----------------------------------------------------------------------------
\* The steps of dispose are resources, none of them a step of the provision before the record.
LEMMA ResourcesAreSteps ==
    /\ Resources = {"proxy", "process", "mount", "rules", "tap", "allocation", "jail",
                    "directory", "marker"}
    /\ Resources \cap (Early \cup Waiting) = {}
    /\ Head(CleanupOrder) = "proxy"
    /\ \A i \in DOMAIN CleanupOrder : CleanupOrder[i] \in Resources
    /\ DOMAIN CleanupOrder = 1..9
    /\ Last(CleanupOrder) = "marker"
<1>1. DOMAIN CleanupOrder = 1..9 /\ Len(CleanupOrder) = 9
    BY DEF CleanupOrder
<1>2. Resources = {"proxy", "process", "mount", "rules", "tap", "allocation", "jail",
                   "directory", "marker"}
    BY <1>1 DEF Resources, CleanupOrder, ToSet
<1>3. \A i \in DOMAIN CleanupOrder : CleanupOrder[i] \in Resources
    BY DEF Resources, ToSet
<1> QED
    BY <1>1, <1>2, <1>3 DEF Early, Waiting, CleanupOrder, Last

\* dispose goes on with one of its steps, or it is over.
LEMMA AfterLeadsOn ==
    ASSUME NEW v, NEW r \in Resources, NEW failed
    PROVE  After(v, r, failed) \notin Early \cup (Waiting \ {"rejected"})
<1>1. CASE r = Last(CleanupOrder)
    BY <1>1, ResourcesAreSteps DEF After, Early, Waiting
<1>2. CASE r # Last(CleanupOrder)
    <2> DEFINE i == CHOOSE i \in DOMAIN CleanupOrder : CleanupOrder[i] = r
    <2>1. \E k \in DOMAIN CleanupOrder : CleanupOrder[k] = r
        BY DEF Resources, ToSet
    <2>2. i \in 1..9 /\ CleanupOrder[i] = r
        BY <2>1, ResourcesAreSteps
    <2>3. i # 9
        BY <1>2, <2>2 DEF CleanupOrder, Last
    <2>4. 1 + i \in DOMAIN CleanupOrder
        BY <2>2, <2>3, ResourcesAreSteps
    <2>5. CleanupOrder[1 + i] \in Resources
        BY <2>4, ResourcesAreSteps
    <2>6. After(v, r, failed) = CleanupOrder[1 + i]
        BY <1>2 DEF After
    <2> QED
        BY <2>5, <2>6, ResourcesAreSteps
<1> QED
    BY <1>1, <1>2

\* A step of one sandbox that neither chooses nor records a network.
LEMMA QuietStep ==
    ASSUME NetInv, StateOK', NEW v \in Vms,
           \A w \in Vms : w # v => vm'[w] = vm[w],
           vm'[v].index = vm[v].index,
           vm'[v].pc = "record" => vm[v].pc = "record",
           vm'[v].pc \in Early => vm[v].pc \in Early,
           held'["allocation"] \subseteq held["allocation"],
           "network" \in locks => "network" \in locks',
           vm'[v].pc \in Waiting \/ provider.reconciliation = "done",
           provider' = provider \/ (provider.reconciliation = "none" /\ provider'.stale = {})
    PROVE  NetInv'
<1>1. LockGuardsChoice'
    BY DEF NetInv, LockGuardsChoice, StateOK, At
<1>2. EarlyHaveNone'
    BY DEF NetInv, EarlyHaveNone, StateOK
<1>3. ReconciledFirst'
    BY DEF NetInv, ReconciledFirst, StateOK
<1>4. NetworksDisjoint'
    BY DEF NetInv, NetworksDisjoint, StateOK
<1> QED
    BY <1>1, <1>2, <1>3, <1>4 DEF NetInv

\* The call of provision, its wait for the reconciliation, the directory and the keys.
LEMMA EntryKeepsNetInv ==
    ASSUME NetInv, NEW v \in Vms,
           \/ Provision(v)
           \/ Refused(v)
           \/ MakeDirectory(v)
           \/ GenerateKeys(v)
    PROVE  NetInv'
<1>1. CASE Provision(v)
    <2>1. /\ \A w \in Vms : w # v => vm'[w] = vm[w]
          /\ LocalsOK(vm'[v]) /\ DOMAIN vm' = Vms
          /\ vm'[v].index = vm[v].index
          /\ vm[v].pc = "idle" /\ vm'[v].pc = "awaiting"
        BY <1>1, ResourcesAreSteps DEF NetInv, StateOK, LocalsOK, At, Goto, Provision
    <2>2. /\ held'["allocation"] \subseteq held["allocation"] /\ DOMAIN held' = DOMAIN held
          /\ cache' = cache /\ locks' = locks
          /\ bounds'.networks = bounds.networks /\ DOMAIN bounds' = DOMAIN bounds
        BY <1>1, ResourcesAreSteps DEF NetInv, StateOK, Fault, Provision
    <2>3. \/ provider' = provider
          \/ /\ provider.reconciliation = "none" /\ provider'.stale = {}
             /\ {"reconciliation", "stale"} \subseteq DOMAIN provider'
        BY <1>1, <2>1 DEF NetInv, StateOK, ReconciledFirst, Provision
    <2>4. StateOK'
        BY <2>1, <2>2, <2>3 DEF NetInv, StateOK
    <2>5. vm'[v].pc \in Waiting \/ provider.reconciliation = "done"
        BY <2>1, ResourcesAreSteps DEF NetInv, ReconciledFirst, Waiting
    <2>6. /\ vm'[v].pc = "record" => vm[v].pc = "record"
          /\ vm'[v].pc \in Early => vm[v].pc \in Early
        BY <2>1 DEF Early
    <2> QED
        BY <2>1, <2>2, <2>3, <2>4, <2>5, <2>6, QuietStep
<1>2. CASE Refused(v)
    BY <1>2, QuietStep
    DEF NetInv, StateOK, LocalsOK, ReconciledFirst, Early, Waiting, At, Goto, Refused
<1>3. CASE MakeDirectory(v)
    BY <1>3, QuietStep, ResourcesAreSteps
    DEF NetInv, StateOK, LocalsOK, ReconciledFirst, Early, Waiting, At, Goto, Hold,
        MakeDirectory
<1>4. CASE GenerateKeys(v)
    BY <1>4, QuietStep
    DEF NetInv, StateOK, LocalsOK, ReconciledFirst, Early, Waiting, At, Goto, GenerateKeys
<1> QED
    BY <1>1, <1>2, <1>3, <1>4

\* prepareImage changes no allocation, and takes no lock but those of images.
LEMMA ImageKeepsNetInv ==
    ASSUME NetInv, NEW v \in Vms,
           \/ UseReference(v)
           \/ Pull(v)
           \/ LockKey(v)
           \/ Convert(v)
           \/ WriteMetadata(v)
           \/ WriteReference(v)
           \/ Missing(v)
           \/ Mark(v)
           \/ ListDisks(v)
           \/ SkipUsed(v)
           \/ EvictDisk(v)
           \/ EvictMetadata(v)
           \/ CacheFull(v)
           \/ Activated(v)
           \/ ImageFails(v)
    PROVE  NetInv'
<1>1. CASE UseReference(v)
    BY <1>1, QuietStep
    DEF NetInv, StateOK, LocalsOK, ReconciledFirst, Early, Waiting, At, UseReference
<1>2. CASE Pull(v)
    <2>0. PICK key \in Keys :
              vm' = [vm EXCEPT ![v].pc = "key", ![v].key = key, ![v].cached = FALSE]
        BY <1>2 DEF Pull
    <2>1. /\ \A w \in Vms : w # v => vm'[w] = vm[w]
          /\ LocalsOK(vm'[v]) /\ DOMAIN vm' = Vms
          /\ vm'[v].index = vm[v].index
          /\ vm[v].pc \in {"image", "pull"} /\ vm'[v].pc = "key"
        BY <2>0, <1>2, ResourcesAreSteps DEF NetInv, StateOK, LocalsOK, At, Goto, Pull
    <2>2. /\ held'["allocation"] \subseteq held["allocation"] /\ DOMAIN held' = DOMAIN held
          /\ cache' = cache /\ locks' = locks
          /\ bounds'.networks = bounds.networks /\ DOMAIN bounds' = DOMAIN bounds
        BY <2>0, <1>2, ResourcesAreSteps DEF NetInv, StateOK, Fault, Pull
    <2>3. provider' = provider
        BY <2>0, <1>2, <2>1 DEF NetInv, StateOK, Pull
    <2>4. StateOK'
        BY <2>1, <2>2, <2>3 DEF NetInv, StateOK
    <2>5. vm'[v].pc \in Waiting \/ provider.reconciliation = "done"
        BY <2>1, ResourcesAreSteps DEF NetInv, ReconciledFirst, Waiting
    <2>6. /\ vm'[v].pc = "record" => vm[v].pc = "record"
          /\ vm'[v].pc \in Early => vm[v].pc \in Early
        BY <2>1 DEF Early
    <2> QED
        BY <2>1, <2>2, <2>3, <2>4, <2>5, <2>6, QuietStep
<1>3. CASE LockKey(v)
    BY <1>3, QuietStep, LocksAreApart
    DEF NetInv, StateOK, LocalsOK, ReconciledFirst, Early, Waiting, At, Goto, Lock, LockKey
<1>4. CASE Convert(v)
    BY <1>4, QuietStep
    DEF NetInv, StateOK, LocalsOK, ReconciledFirst, Early, Waiting, At, Goto, Convert
<1>5. CASE WriteMetadata(v)
    BY <1>5, QuietStep
    DEF NetInv, StateOK, LocalsOK, ReconciledFirst, Early, Waiting, At, Goto, WriteMetadata
<1>6. CASE WriteReference(v)
    BY <1>6, QuietStep
    DEF NetInv, StateOK, LocalsOK, ReconciledFirst, Early, Waiting, At, Goto, WriteReference
<1>7. CASE Missing(v)
    BY <1>7, QuietStep, LocksAreApart, ResourcesAreSteps
    DEF NetInv, StateOK, LocalsOK, ReconciledFirst, Early, Waiting, At, Goto, Unlocked, Missing
<1>8. CASE Mark(v)
    BY <1>8, QuietStep, LocksAreApart, ResourcesAreSteps
    DEF NetInv, StateOK, LocalsOK, ReconciledFirst, Early, Waiting, At, Goto, Hold, Lock, Mark
<1>9. CASE ListDisks(v)
    BY <1>9, QuietStep
    DEF NetInv, StateOK, LocalsOK, ReconciledFirst, Early, Waiting, At, ListDisks
<1>10. CASE SkipUsed(v)
    BY <1>10, QuietStep
    DEF NetInv, StateOK, LocalsOK, ReconciledFirst, Early, Waiting, At, Evicting, SkipUsed
<1>11. CASE EvictDisk(v)
    BY <1>11, QuietStep
    DEF NetInv, StateOK, LocalsOK, ReconciledFirst, Early, Waiting, At, Goto, Evicting,
        EvictDisk
<1>12. CASE EvictMetadata(v)
    BY <1>12, QuietStep
    DEF NetInv, StateOK, LocalsOK, ReconciledFirst, Early, Waiting, At, EvictMetadata
<1>13. CASE CacheFull(v)
    BY <1>13, QuietStep, LocksAreApart, ResourcesAreSteps
    DEF NetInv, StateOK, LocalsOK, ReconciledFirst, Early, Waiting, At, Goto, Unlocked,
        Evicting, CacheFull
<1>14. CASE Activated(v)
    BY <1>14, QuietStep, LocksAreApart
    DEF NetInv, StateOK, LocalsOK, ReconciledFirst, Early, Waiting, At, Unlocked, Activated
<1>15. CASE ImageFails(v)
    BY <1>15, QuietStep, LocksAreApart, ResourcesAreSteps
    DEF NetInv, StateOK, LocalsOK, ReconciledFirst, Early, Waiting, Goto, Fault, ImageFails
<1> QED
    BY <1>1, <1>2, <1>3, <1>4, <1>5, <1>6, <1>7, <1>8, <1>9, <1>10, <1>11, <1>12, <1>13, <1>14,
       <1>15

\* From the network on a sandbox only loses its allocation.
LEMMA MachineKeepsNetInv ==
    ASSUME NetInv, NEW v \in Vms,
           \/ Exhausted(v)
           \/ AddTap(v)
           \/ AddRules(v)
           \/ NetworkFails(v)
           \/ CreateDisk(v)
           \/ Launch(v)
           \/ MountBase(v)
           \/ MountFails(v)
           \/ Configure(v)
           \/ Expose(v)
           \/ BootFails(v)
           \/ VmExits(v)
    PROVE  NetInv'
<1>1. CASE Exhausted(v)
    BY <1>1, QuietStep, ResourcesAreSteps
    DEF NetInv, StateOK, LocalsOK, ReconciledFirst, Early, Waiting, At, Goto, Exhausted
<1>2. CASE AddTap(v)
    BY <1>2, QuietStep, ResourcesAreSteps
    DEF NetInv, StateOK, LocalsOK, ReconciledFirst, Early, Waiting, At, Goto, Hold, AddTap
<1>3. CASE AddRules(v)
    BY <1>3, QuietStep, ResourcesAreSteps
    DEF NetInv, StateOK, LocalsOK, ReconciledFirst, Early, Waiting, At, Hold, AddRules
<1>4. CASE NetworkFails(v)
    <2>0. PICK stuck \in SUBSET {r \in {"tap"} : v \in held[r]} : NetworkFails(v)!2!(stuck)
        BY <1>4 DEF NetworkFails
    <2>1. /\ \A w \in Vms : w # v => vm'[w] = vm[w]
          /\ LocalsOK(vm'[v]) /\ DOMAIN vm' = Vms
          /\ vm'[v].index = vm[v].index
          /\ vm[v].pc \in {"addTap", "addRules"} /\ vm'[v].pc = "proxy"
        BY <2>0, <1>4, ResourcesAreSteps DEF NetInv, StateOK, LocalsOK, At, Goto, NetworkFails
    <2>2. /\ held'["allocation"] \subseteq held["allocation"] /\ DOMAIN held' = DOMAIN held
          /\ cache' = cache /\ locks' = locks
          /\ bounds'.networks = bounds.networks /\ DOMAIN bounds' = DOMAIN bounds
        BY <2>0, <1>4, ResourcesAreSteps DEF NetInv, StateOK, Fault, NetworkFails
    <2>3. provider' = provider
        BY <2>0, <1>4, <2>1 DEF NetInv, StateOK, NetworkFails
    <2>4. StateOK'
        BY <2>1, <2>2, <2>3 DEF NetInv, StateOK
    <2>5. vm'[v].pc \in Waiting \/ provider.reconciliation = "done"
        BY <2>1, ResourcesAreSteps DEF NetInv, ReconciledFirst, Waiting
    <2>6. /\ vm'[v].pc = "record" => vm[v].pc = "record"
          /\ vm'[v].pc \in Early => vm[v].pc \in Early
        BY <2>1 DEF Early
    <2> QED
        BY <2>1, <2>2, <2>3, <2>4, <2>5, <2>6, QuietStep
<1>5. CASE CreateDisk(v)
    BY <1>5, QuietStep
    DEF NetInv, StateOK, LocalsOK, ReconciledFirst, Early, Waiting, At, Goto, CreateDisk
<1>6. CASE Launch(v)
    BY <1>6, QuietStep, ResourcesAreSteps
    DEF NetInv, StateOK, LocalsOK, ReconciledFirst, Early, Waiting, At, Launch
<1>7. CASE MountBase(v)
    BY <1>7, QuietStep, ResourcesAreSteps
    DEF NetInv, StateOK, LocalsOK, ReconciledFirst, Early, Waiting, At, Hold, MountBase
<1>8. CASE MountFails(v)
    <2>0. PICK stuck \in BOOLEAN : MountFails(v)!2!(stuck)
        BY <1>8 DEF MountFails
    <2>1. /\ \A w \in Vms : w # v => vm'[w] = vm[w]
          /\ LocalsOK(vm'[v]) /\ DOMAIN vm' = Vms
          /\ vm'[v].index = vm[v].index
          /\ vm[v].pc = "mountBase" /\ vm'[v].pc = "proxy"
        BY <2>0, <1>8, ResourcesAreSteps DEF NetInv, StateOK, LocalsOK, At, Goto, MountFails
    <2>2. /\ held'["allocation"] \subseteq held["allocation"] /\ DOMAIN held' = DOMAIN held
          /\ cache' = cache /\ locks' = locks
          /\ bounds'.networks = bounds.networks /\ DOMAIN bounds' = DOMAIN bounds
        BY <2>0, <1>8, ResourcesAreSteps DEF NetInv, StateOK, Fault, MountFails
    <2>3. provider' = provider
        BY <2>0, <1>8, <2>1 DEF NetInv, StateOK, MountFails
    <2>4. StateOK'
        BY <2>1, <2>2, <2>3 DEF NetInv, StateOK
    <2>5. vm'[v].pc \in Waiting \/ provider.reconciliation = "done"
        BY <2>1, ResourcesAreSteps DEF NetInv, ReconciledFirst, Waiting
    <2>6. /\ vm'[v].pc = "record" => vm[v].pc = "record"
          /\ vm'[v].pc \in Early => vm[v].pc \in Early
        BY <2>1 DEF Early
    <2> QED
        BY <2>1, <2>2, <2>3, <2>4, <2>5, <2>6, QuietStep
<1>9. CASE Configure(v)
    BY <1>9, QuietStep
    DEF NetInv, StateOK, LocalsOK, ReconciledFirst, Early, Waiting, At, Goto, Configure
<1>10. CASE Expose(v)
    BY <1>10, QuietStep, ResourcesAreSteps
    DEF NetInv, StateOK, LocalsOK, ReconciledFirst, Early, Waiting, At, Goto, Hold, Expose
<1>11. CASE BootFails(v)
    BY <1>11, QuietStep, ResourcesAreSteps
    DEF NetInv, StateOK, LocalsOK, ReconciledFirst, Early, Waiting, Goto, Fault, BootFails
<1>12. CASE VmExits(v)
    <2>0. PICK how \in Exits : vm' = [vm EXCEPT ![v].child = how]
        BY <1>12 DEF VmExits
    <2>1. /\ \A w \in Vms : w # v => vm'[w] = vm[w]
          /\ LocalsOK(vm'[v]) /\ DOMAIN vm' = Vms
          /\ vm'[v].index = vm[v].index
          /\ vm'[v].pc = vm[v].pc
        BY <2>0, <1>12, ResourcesAreSteps DEF NetInv, StateOK, LocalsOK, At, Goto
    <2>2. /\ held'["allocation"] \subseteq held["allocation"] /\ DOMAIN held' = DOMAIN held
          /\ cache' = cache /\ locks' = locks
          /\ bounds'.networks = bounds.networks /\ DOMAIN bounds' = DOMAIN bounds
        BY <2>0, <1>12, ResourcesAreSteps DEF NetInv, StateOK, Fault, VmExits
    <2>3. provider' = provider
        BY <2>0, <1>12, <2>1 DEF NetInv, StateOK, VmExits
    <2>4. StateOK'
        BY <2>1, <2>2, <2>3 DEF NetInv, StateOK
    <2>5. vm'[v].pc \in Waiting \/ provider.reconciliation = "done"
        BY <2>1, ResourcesAreSteps DEF NetInv, ReconciledFirst, Waiting
    <2>6. /\ vm'[v].pc = "record" => vm[v].pc = "record"
          /\ vm'[v].pc \in Early => vm[v].pc \in Early
        BY <2>1 DEF Early
    <2> QED
        BY <2>1, <2>2, <2>3, <2>4, <2>5, <2>6, QuietStep
<1> QED
    BY <1>1, <1>2, <1>3, <1>4, <1>5, <1>6, <1>7, <1>8, <1>9, <1>10, <1>11, <1>12

\* The runtime and its disposal.
LEMMA DisposeKeepsNetInv ==
    ASSUME NetInv, NEW v \in Vms,
           \/ UserConnects(v)
           \/ UserLeaves(v)
           \/ Dispose(v)
           \/ RetryDispose(v)
           \/ CleanUp(v)
           \/ CleanUpFails(v)
    PROVE  NetInv'
<1>1. CASE UserConnects(v)
    BY <1>1, QuietStep
    DEF NetInv, StateOK, LocalsOK, ReconciledFirst, Early, Waiting, At, UserConnects
<1>2. CASE UserLeaves(v)
    <2>1. /\ \A w \in Vms : w # v => vm'[w] = vm[w]
          /\ LocalsOK(vm'[v]) /\ DOMAIN vm' = Vms
          /\ vm'[v].index = vm[v].index
          /\ vm'[v].pc = vm[v].pc
        BY <1>2, ResourcesAreSteps DEF NetInv, StateOK, LocalsOK, At, Goto, UserLeaves
    <2>2. /\ held'["allocation"] \subseteq held["allocation"] /\ DOMAIN held' = DOMAIN held
          /\ cache' = cache /\ locks' = locks
          /\ bounds'.networks = bounds.networks /\ DOMAIN bounds' = DOMAIN bounds
        BY <1>2, ResourcesAreSteps DEF NetInv, StateOK, Fault, UserLeaves
    <2>3. provider' = provider
        BY <1>2, <2>1 DEF NetInv, StateOK, UserLeaves
    <2>4. StateOK'
        BY <2>1, <2>2, <2>3 DEF NetInv, StateOK
    <2>5. vm'[v].pc \in Waiting \/ provider.reconciliation = "done"
        BY <2>1, ResourcesAreSteps DEF NetInv, ReconciledFirst, Waiting
    <2>6. /\ vm'[v].pc = "record" => vm[v].pc = "record"
          /\ vm'[v].pc \in Early => vm[v].pc \in Early
        BY <2>1 DEF Early
    <2> QED
        BY <2>1, <2>2, <2>3, <2>4, <2>5, <2>6, QuietStep
<1>3. CASE Dispose(v)
    BY <1>3, QuietStep, ResourcesAreSteps
    DEF NetInv, StateOK, LocalsOK, ReconciledFirst, Early, Waiting, At, Dispose
<1>4. CASE RetryDispose(v)
    BY <1>4, QuietStep, ResourcesAreSteps
    DEF NetInv, StateOK, LocalsOK, ReconciledFirst, Early, Waiting, At, RetryDispose
<1>5. CASE CleanUp(v)
    <2> PICK r \in Resources : CleanUp(v)!(r)
        BY <1>5 DEF CleanUp
    <2>1. /\ \A w \in Vms : w # v => vm'[w] = vm[w]
          /\ LocalsOK(vm'[v]) /\ DOMAIN vm' = Vms
          /\ vm'[v].index = vm[v].index
          /\ vm[v].pc = r /\ vm'[v].pc = After(v, r, vm[v].failed)
        BY DEF NetInv, StateOK, LocalsOK, At
    <2>2. StateOK' /\ held'["allocation"] \subseteq held["allocation"]
        BY <2>1, ResourcesAreSteps DEF NetInv, StateOK, LocalsOK, Fault
    <2>3. provider.reconciliation = "done"
        BY <2>1, ResourcesAreSteps DEF NetInv, ReconciledFirst
    <2>4. vm'[v].pc \notin Early
        BY <2>1, AfterLeadsOn
    <2> QED
        BY <2>1, <2>2, <2>3, <2>4, QuietStep DEF Early
<1>6. CASE CleanUpFails(v)
    <2> PICK r \in Resources \ {"process"} : CleanUpFails(v)!(r)
        BY <1>6 DEF CleanUpFails
    <2>1. /\ \A w \in Vms : w # v => vm'[w] = vm[w]
          /\ LocalsOK(vm'[v]) /\ DOMAIN vm' = Vms
          /\ vm'[v].index = vm[v].index
          /\ vm[v].pc = r /\ vm'[v].pc = After(v, r, TRUE)
        BY DEF NetInv, StateOK, LocalsOK, At
    <2>2. StateOK' /\ held'["allocation"] \subseteq held["allocation"]
        BY <2>1, ResourcesAreSteps DEF NetInv, StateOK, LocalsOK, Fault
    <2>3. provider.reconciliation = "done"
        BY <2>1, ResourcesAreSteps DEF NetInv, ReconciledFirst
    <2>4. vm'[v].pc \notin Early
        <3>1. After(v, r, TRUE) \notin Early
            BY AfterLeadsOn, Zenon
        <3> QED
            BY <2>1, <3>1
    <2> QED
        BY <2>1, <2>2, <2>3, <2>4, QuietStep DEF Early
<1> QED
    BY <1>1, <1>2, <1>3, <1>4, <1>5, <1>6

\* The first free network belongs to nobody, and the lock keeps others from choosing it.
LEMMA AllocateKeepsNetInv ==
    ASSUME NetInv, NEW v \in Vms, Allocate(v)
    PROVE  NetInv'
<1> DEFINE i == CHOOSE i \in FreeNetworks : \A j \in FreeNetworks : i <= j
<1>1. FreeNetworks \subseteq Nat /\ FreeNetworks # {}
    BY DEF Allocate, FreeNetworks, NetInv, StateOK
<1>2. i \in FreeNetworks
    BY <1>1, LeastElement
<1>3. \A w \in held["allocation"] : vm[w].index # i
    BY <1>2 DEF FreeNetworks
<1>4. /\ vm[v].pc = "network" /\ vm'[v].pc = "record" /\ vm'[v].index = i
      /\ \A w \in Vms : w # v => vm'[w] = vm[w]
      /\ DOMAIN vm' = Vms /\ LocalsOK(vm'[v])
    BY DEF Allocate, NetInv, StateOK, LocalsOK, At
<1>5. /\ "network" \notin locks /\ "network" \in locks'
      /\ held' = held /\ cache' = cache /\ provider' = provider /\ bounds' = bounds
    BY DEF Allocate, Lock
<1>6. StateOK'
    BY <1>4, <1>5 DEF NetInv, StateOK
<1>7. v \notin held["allocation"]
    BY <1>4 DEF NetInv, EarlyHaveNone, Early
<1>8. \A w \in Vms : vm[w].pc # "record"
    BY <1>5 DEF NetInv, LockGuardsChoice, At
<1>9. LockGuardsChoice'
    BY <1>3, <1>4, <1>5, <1>7, <1>8 DEF LockGuardsChoice, At, NetInv, StateOK
<1>10. EarlyHaveNone' /\ ReconciledFirst'
    BY <1>4, <1>5, <1>7 DEF NetInv, EarlyHaveNone, ReconciledFirst, Waiting
<1>11. NetworksDisjoint'
    BY <1>4, <1>5, <1>7 DEF NetInv, NetworksDisjoint, StateOK
<1> QED
    BY <1>6, <1>9, <1>10, <1>11 DEF NetInv

\* What was chosen is recorded before the lock is given back.
LEMMA RecordNetworkKeepsNetInv ==
    ASSUME NetInv, NEW v \in Vms, RecordNetwork(v)
    PROVE  NetInv'
<1>1. /\ vm[v].pc = "record" /\ vm'[v].pc = "addTap" /\ vm'[v].index = vm[v].index
      /\ \A w \in Vms : w # v => vm'[w] = vm[w]
      /\ DOMAIN vm' = Vms /\ LocalsOK(vm'[v])
    BY DEF RecordNetwork, NetInv, StateOK, LocalsOK, At, Goto
<1>2. /\ held'["allocation"] = held["allocation"] \cup {v} /\ DOMAIN held' = DOMAIN held
      /\ cache' = cache /\ provider' = provider /\ bounds' = bounds
    BY ResourcesAreSteps DEF RecordNetwork, Hold, NetInv, StateOK
<1>3. StateOK'
    BY <1>1, <1>2 DEF NetInv, StateOK
<1>4. \A w \in Vms : w # v => vm[w].pc # "record"
    BY <1>1 DEF NetInv, LockGuardsChoice, At
<1>5. \A w \in held["allocation"] : vm[w].index # vm[v].index
    BY <1>1 DEF NetInv, LockGuardsChoice, At
<1>6. LockGuardsChoice'
    BY <1>1, <1>4 DEF LockGuardsChoice, At
<1>7. EarlyHaveNone' /\ ReconciledFirst'
    BY <1>1, <1>2 DEF NetInv, EarlyHaveNone, ReconciledFirst, Early, Waiting
<1>8. NetworksDisjoint'
    BY <1>1, <1>2, <1>5 DEF NetInv, NetworksDisjoint, StateOK
<1> QED
    BY <1>3, <1>6, <1>7, <1>8 DEF NetInv

\* While a reconciliation runs no sandbox has come as far as a network: the locks that it
\* clears are those of processes that are gone.
LEMMA ReconcileKeepsNetInv ==
    ASSUME NetInv, ClearLocks \/ Reconciled \/ \E v \in Vms : Sweep(v)
    PROVE  NetInv'
<1>1. provider.reconciliation # "done"
    BY DEF ClearLocks, Reconciled, Sweep, NetInv, ReconciledFirst, StateOK
<1>2. \A v \in Vms : vm[v].pc \in Waiting
    BY <1>1 DEF NetInv, ReconciledFirst
<1>3. /\ \A v \in Vms : vm'[v].pc = vm[v].pc /\ vm'[v].index = vm[v].index /\ LocalsOK(vm'[v])
      /\ DOMAIN vm' = Vms
    BY DEF ClearLocks, Reconciled, Sweep, NetInv, StateOK, LocalsOK
<1>4. held'["allocation"] \subseteq held["allocation"] /\ DOMAIN held' = Resources
    <2>1. ASSUME NEW v \in Vms, Sweep(v)
          PROVE  held'["allocation"] \subseteq held["allocation"] /\ DOMAIN held' = Resources
        BY <2>1, ResourcesAreSteps DEF Sweep, NetInv, StateOK
    <2>2. CASE UNCHANGED held
        BY <2>2 DEF NetInv, StateOK
    <2> QED
        BY <2>1, <2>2 DEF ClearLocks, Reconciled
<1>5. cache' = cache /\ bounds'.networks = bounds.networks /\ DOMAIN bounds' = DOMAIN bounds
    BY DEF ClearLocks, Reconciled, Sweep, NetInv, StateOK
<1>6. /\ {"reconciliation", "stale"} \subseteq DOMAIN provider'
      /\ provider'.stale # {} => provider'.reconciliation = "sweeping"
    BY DEF ClearLocks, Reconciled, Sweep, NetInv, StateOK, ReconciledFirst
<1>7. StateOK'
    BY <1>3, <1>4, <1>5, <1>6 DEF NetInv, StateOK
<1>8. LockGuardsChoice' /\ ReconciledFirst'
    BY <1>2, <1>3, <1>6 DEF LockGuardsChoice, ReconciledFirst, Waiting, At
<1>9. EarlyHaveNone' /\ NetworksDisjoint'
    BY <1>3, <1>4 DEF NetInv, StateOK, EarlyHaveNone, NetworksDisjoint
<1> QED
    BY <1>7, <1>8, <1>9 DEF NetInv

\* A crash leaves locks and allocations, and nobody who would record a network.
LEMMA CrashKeepsNetInv ==
    ASSUME NetInv, Crash
    PROVE  NetInv'
<1>1. \A v \in Vms : /\ vm'[v].pc \in {"idle", "lost"}
                     /\ vm'[v].pc = "idle" => vm[v].pc = "idle"
                     /\ vm'[v].index = vm[v].index
                     /\ LocalsOK(vm'[v])
    BY DEF Crash, NetInv, StateOK, LocalsOK, Fresh, At
<1>2. DOMAIN vm' = Vms /\ held'["allocation"] = held["allocation"] /\ DOMAIN held' = DOMAIN held
    BY ResourcesAreSteps DEF Crash, NetInv, StateOK
<1>3. StateOK'
    BY <1>1, <1>2 DEF Crash, NetInv, StateOK
<1>4. LockGuardsChoice' /\ ReconciledFirst'
    BY <1>1 DEF Crash, LockGuardsChoice, ReconciledFirst, Waiting, At
<1>5. EarlyHaveNone' /\ NetworksDisjoint'
    BY <1>1, <1>2 DEF NetInv, StateOK, EarlyHaveNone, NetworksDisjoint, Early
<1> QED
    BY <1>3, <1>4, <1>5 DEF NetInv

-----------------------------------------------------------------------------
\* The host is empty at first.
LEMMA InitEstablishesNetInv == Init => NetInv
<1> SUFFICES ASSUME Init
             PROVE  NetInv
    OBVIOUS
<1>1. StateOK
    BY ResourcesAreSteps, LocksAreApart DEF Init, StateOK, LocalsOK, Fresh
<1>2. held["allocation"] = {} /\ \A v \in Vms : vm[v].pc = "idle"
    BY ResourcesAreSteps DEF Init, Fresh
<1> QED
    BY <1>1, <1>2 DEF Init, NetInv, LockGuardsChoice, EarlyHaveNone, ReconciledFirst, Waiting,
                      NetworksDisjoint, At

\* Every step of the provider keeps the invariant.
LEMMA NextKeepsNetInv == NetInv /\ [fcNext]_fcVars => NetInv'
<1> SUFFICES ASSUME NetInv, [fcNext]_fcVars
             PROVE  NetInv'
    OBVIOUS
<1>1. CASE Reconcile
    BY <1>1, ReconcileKeepsNetInv DEF Reconcile
<1>2. CASE Crash
    BY <1>2, CrashKeepsNetInv
<1>3. ASSUME NEW v \in Vms, Advance(v)
      PROVE  NetInv'
    BY <1>3, EntryKeepsNetInv, ImageKeepsNetInv, MachineKeepsNetInv,
       DisposeKeepsNetInv,
       AllocateKeepsNetInv, RecordNetworkKeepsNetInv DEF Advance
<1>4. ASSUME NEW v \in Vms, Environment(v)
      PROVE  NetInv'
    BY <1>4, EntryKeepsNetInv, ImageKeepsNetInv, MachineKeepsNetInv,
       DisposeKeepsNetInv
       DEF Environment
<1>5. CASE UNCHANGED fcVars
    BY <1>5 DEF fcVars, NetInv, StateOK, LockGuardsChoice, EarlyHaveNone, ReconciledFirst,
                NetworksDisjoint, At
<1> QED
    BY <1>1, <1>2, <1>3, <1>4, <1>5 DEF fcNext

\* The inductive invariant of the networks of the provider.
THEOREM NetworkInvariant == Spec => []NetInv
<1>1. Init => NetInv
    BY InitEstablishesNetInv
<1>2. NetInv /\ [fcNext]_fcVars => NetInv'
    BY NextKeepsNetInv
<1> QED
    BY <1>1, <1>2, PTL DEF Spec

\* No two sandboxes use one network, however provisions, disposals, failures, crashes and
\* reconciliations interleave (createVmNetwork, allocate, withLock, reconcile).
THEOREM NetworksAreDisjoint == Spec => []NetworksDisjoint
<1>1. NetInv => NetworksDisjoint
    BY DEF NetInv
<1> QED
    BY <1>1, NetworkInvariant, PTL


-----------------------------------------------------------------------------
(* What a sandbox holds on the host *)

\* The places of provisionFirecracker from the directory on.
Provisioning ==
    {"keys", "image", "pull", "key", "convert", "metadata", "reference", "lru", "list", "evict",
     "evictMetadata", "network", "record", "addTap", "addRules", "disk", "launch", "mountBase",
     "boot", "guest"}

\* Where a cleanup leads in the end, and what it has been through at each of its places.
Over == {"retry", "rejected", "disposed"}
CleanedAt(pc) ==
    {r \in Resources :
        \/ pc \in Over
        \/ \E i, j \in DOMAIN CleanupOrder :
              i < j /\ CleanupOrder[i] = r /\ CleanupOrder[j] = pc}

HoldsNothing(v) == \A r \in Resources : v \notin held[r]

LocalsTyped(x) ==
    /\ DOMAIN x = DOMAIN Fresh
    /\ x.pc \in Provisioning \cup {"idle", "awaiting", "ready", "lost"} \cup Resources \cup Over
    /\ x.owner \in {"provision", "dispose"}
    /\ {x.network, x.mounted, x.failed, x.leaked} \subseteq BOOLEAN

\* Who runs the cleanup, and that nothing has failed before one begins.
Owned(v) ==
    /\ vm[v].pc \in Provisioning \cup {"idle", "awaiting", "ready", "rejected"} =>
          vm[v].owner = "provision"
    /\ vm[v].pc \in {"retry", "disposed"} => vm[v].owner = "dispose"
    /\ vm[v].pc \in Provisioning \cup {"idle", "awaiting", "ready"} => ~vm[v].leaked

\* What dispose looks at knows what is held, or a cleanup of provisioning failed.
Recorded(v) ==
    LET forgotten == vm[v].leaked /\ vm[v].owner = "provision"
    IN  ~At(v, "lost") =>
            /\ v \in held["mount"] => vm[v].mounted \/ forgotten
            /\ v \in held["rules"] => vm[v].network \/ forgotten
            /\ v \in held["tap"] \cup held["allocation"] =>
                  vm[v].network \/ forgotten \/ vm[v].pc \in {"addTap", "addRules"}

\* A sandbox is under way with its directory; what a cleanup has left is known.
Remembered(v) ==
    /\ vm[v].pc \in {"idle", "awaiting"} => HoldsNothing(v)
    /\ vm[v].pc \in Provisioning \cup {"ready"} => v \in held["directory"]
    /\ \A r \in CleanedAt(vm[v].pc) : v \in held[r] =>
          vm[v].leaked /\ (vm[v].owner = "dispose" => vm[v].failed)
    /\ At(v, "disposed") => ~vm[v].failed
    /\ At(v, "rejected") /\ provider.reconciliation # "done" => HoldsNothing(v)
    /\ v \in provider.stale => At(v, "lost")

HostOK(v) == LocalsTyped(vm[v]) /\ Owned(v) /\ Recorded(v) /\ Remembered(v)
HostInv ==
    /\ \A r \in Resources : held[r] \subseteq Vms
    /\ LeftoversAreReachable
    /\ \A v \in Vms : HostOK(v)

-----------------------------------------------------------------------------
\* What a cleanup has been through, step by step.
LEMMA CleanedSoFar ==
    /\ \A pc : pc \notin Resources \cup Over => CleanedAt(pc) = {}
    /\ CleanedAt("proxy") = {}
    /\ CleanedAt("directory") = Resources \ {"directory", "marker"}
    /\ CleanedAt("marker") = Resources \ {"marker"}
    /\ \A pc \in Over : CleanedAt(pc) = Resources
    /\ Resources \cap (Provisioning \cup Over \cup {"idle", "awaiting", "ready", "lost"}) = {}
<1> USE ResourcesAreSteps
<1>1. \A pc : pc \notin Resources \cup Over => CleanedAt(pc) = {}
    BY DEF CleanedAt
<1>2. \A i, j \in 1..9 : CleanupOrder[i] = CleanupOrder[j] => i = j
    BY DEF CleanupOrder
<1>3. CleanedAt("proxy") = {}
    BY <1>2 DEF CleanedAt, CleanupOrder, Over
<1>4. CleanedAt("directory") = Resources \ {"directory", "marker"}
    BY DEF CleanedAt, CleanupOrder, Over
<1>5. CleanedAt("marker") = Resources \ {"marker"}
    BY DEF CleanedAt, CleanupOrder, Over
<1>6. \A pc \in Over : CleanedAt(pc) = Resources
    BY DEF CleanedAt
<1>7. Resources \cap (Provisioning \cup Over \cup {"idle", "awaiting", "ready", "lost"}) = {}
    BY DEF Provisioning, Over
<1> QED
    BY <1>1, <1>3, <1>4, <1>5, <1>6, <1>7

\* Each step of a cleanup leads to the next one, and the last one ends the call.
LEMMA CleanupAdvances ==
    ASSUME NEW v, NEW r \in Resources, NEW failed
    PROVE  /\ r # "marker" => After(v, r, failed) \in Resources \ {"proxy"}
           /\ r = "marker" => After(v, r, failed) = IF vm[v].owner = "provision" THEN "rejected"
                                                    ELSE IF failed THEN "retry" ELSE "disposed"
           /\ CleanedAt(After(v, r, failed)) \subseteq CleanedAt(r) \cup {r}
<1> DEFINE i == CHOOSE i \in DOMAIN CleanupOrder : CleanupOrder[i] = r
<1>1. i \in 1..9 /\ CleanupOrder[i] = r
    BY ResourcesAreSteps DEF Resources, ToSet
<1>2. \A j, k \in 1..9 : CleanupOrder[j] = CleanupOrder[k] => j = k
    BY DEF CleanupOrder
<1>3. CASE r = "marker"
    BY <1>3, ResourcesAreSteps, CleanedSoFar DEF After, Over
<1>4. CASE r # "marker"
    <2>1. i # 9 /\ After(v, r, failed) = CleanupOrder[1 + i]
        BY <1>1, <1>4, ResourcesAreSteps DEF After, CleanupOrder
    <2> HIDE DEF i
    <2>2. 1 + i \in 2..9 /\ CleanupOrder[1 + i] \in Resources
        BY <1>1, <2>1, ResourcesAreSteps
    <2>3. CleanupOrder[1 + i] # "proxy"
        BY <1>2, <2>2 DEF CleanupOrder
    <2>4. After(v, r, failed) \notin Over
        BY <2>1, <2>2, CleanedSoFar
    <2>5. CleanedAt(After(v, r, failed)) \subseteq CleanedAt(r) \cup {r}
        <3> SUFFICES ASSUME NEW q \in CleanedAt(After(v, r, failed)), q # r
                     PROVE  q \in CleanedAt(r)
            OBVIOUS
        <3>1. PICK j, k \in 1..9 :
                  j < k /\ CleanupOrder[j] = q /\ CleanupOrder[k] = CleanupOrder[1 + i]
            BY <2>1, <2>4, ResourcesAreSteps DEF CleanedAt
        <3>2. k = 1 + i /\ j # i
            BY <3>1, <1>1, <1>2, <2>2
        <3>3. j < i
            BY <3>1, <3>2, <1>1
        <3> QED
            BY <3>1, <3>3, <1>1, ResourcesAreSteps DEF CleanedAt
    <2> QED
        BY <1>4, <2>1, <2>2, <2>3, <2>5
<1> QED
    BY <1>3, <1>4

\* A step of v leaves the other sandboxes, and what they hold, alone.
OnlyMoves(v) ==
    /\ \A w \in Vms \ {v} : vm'[w] = vm[w] /\ \A r \in Resources : w \in held'[r] <=> w \in held[r]
    /\ \/ provider' = provider
       \/ provider.reconciliation # "done" /\ provider'.stale \subseteq provider.stale

\* What one sandbox may do, in the terms of SandboxProvider: it stutters, or
\* begins, takes, gives back, is excused, resolves, rejects, is disposed of or swept.
Holds(v) == \E r \in Resources \ {"proxy"} : v \in held[r]
SandboxStep(v) ==
    \/ Phase(v)' = Phase(v) /\ Holds(v)' = Holds(v) /\ vm'[v].leaked = vm[v].leaked
    \/ /\ Phase(v) = "none" /\ Phase(v)' = "provisioning"
       /\ Holds(v)' = Holds(v) /\ vm'[v].leaked = vm[v].leaked
    \/ /\ Phase(v) = "provisioning" /\ Phase(v)' = Phase(v)
       /\ Holds(v)' /\ vm'[v].leaked = vm[v].leaked
    \/ /\ Phase(v) # "none" /\ Phase(v)' = Phase(v)
       /\ ~Holds(v)' /\ vm'[v].leaked = vm[v].leaked
    \/ Phase(v)' = Phase(v) /\ Holds(v)' = Holds(v) /\ vm'[v].leaked
    \/ /\ Phase(v) = "provisioning" /\ Phase(v)' = "running"
       /\ Holds(v) /\ Holds(v)' /\ vm'[v].leaked = vm[v].leaked
    \/ /\ Phase(v) = "provisioning" /\ Phase(v)' = "rejected"
       /\ vm[v].leaked \/ Holds(v)' => vm'[v].leaked
    \/ /\ Phase(v) = "running" /\ Phase(v)' = "disposed"
       /\ ~Holds(v)' /\ vm'[v].leaked = vm[v].leaked
    \/ /\ Phase(v) = "lost" /\ Phase(v)' = "lost"
       /\ Holds(v)' => Holds(v)
       /\ vm[v].leaked => vm'[v].leaked

\* What a step of v keeps and promises.
Steps(v) == HostInv' /\ OnlyMoves(v) /\ SandboxStep(v)

LEMMA OneSandboxMoves ==
    ASSUME HostInv, NEW v \in Vms, OnlyMoves(v), HostOK(v)',
           \A r \in Resources : held'[r] \subseteq Vms,
           \A r \in Resources \ {"marker"} :
               v \in held'[r] => v \in held'["directory"] \/ vm'[v].leaked
    PROVE  HostInv'
<1>1. ASSUME NEW w \in Vms \ {v} PROVE HostOK(w)'
    <2>1. /\ LocalsTyped(vm[w]) /\ Owned(w) /\ Recorded(w) /\ Remembered(w)
          /\ vm'[w] = vm[w]
          /\ \A r \in Resources : w \in held'[r] <=> w \in held[r]
        BY DEF HostInv, HostOK, OnlyMoves
    <2>2. LocalsTyped(vm[w])' /\ Owned(w)'
        BY <2>1 DEF LocalsTyped, Owned
    <2>3. Recorded(w)'
        BY <2>1, ResourcesAreSteps DEF Recorded, At
    <2>4. Remembered(w)'
        <3>1. HoldsNothing(w)' <=> HoldsNothing(w)
            BY <2>1 DEF HoldsNothing
        <3>2. "directory" \in Resources /\ CleanedAt(vm[w].pc) \subseteq Resources
            BY ResourcesAreSteps DEF CleanedAt
        <3>3. CleanedAt(vm[w].pc)' = CleanedAt(vm[w].pc)
            BY <2>1 DEF CleanedAt
        <3>4. At(w, "rejected") /\ provider'.reconciliation # "done" => HoldsNothing(w)
            BY <2>1 DEF Remembered, OnlyMoves
        <3>5. w \in provider'.stale => At(w, "lost")
            BY <2>1 DEF Remembered, OnlyMoves
        <3> HIDE DEF CleanedAt, HoldsNothing
        <3> QED
            BY <2>1, <3>1, <3>2, <3>3, <3>4, <3>5 DEF Remembered, At
    <2> QED
        BY <2>2, <2>3, <2>4 DEF HostOK
<1>2. LeftoversAreReachable'
    BY ResourcesAreSteps DEF HostInv, OnlyMoves, LeftoversAreReachable
<1> QED
    BY <1>1, <1>2 DEF HostInv


\* A step forward, or to the beginning of a cleanup: the directory is there, and what is
\* held is recorded.
LEMMA ForwardStep ==
    ASSUME HostInv, NEW v \in Vms, OnlyMoves(v), provider' = provider,
           \A r \in Resources : held'[r] \subseteq Vms,
           ~At(v, "lost"), LocalsTyped(vm'[v]),
           vm'[v].pc \in Provisioning \cup {"ready", "proxy"},
           vm'[v].pc # "proxy" => vm'[v].owner = "provision" /\ ~vm'[v].leaked,
           v \in held'["directory"],
           Recorded(v)'
    PROVE  HostInv'
<1>1. CleanedAt(vm'[v].pc) = {}
    BY CleanedSoFar DEF Provisioning, Over
<1>2. v \notin provider.stale
    BY DEF HostInv, HostOK, Remembered
<1>3. Owned(v)'
    BY DEF Owned, Provisioning
<1>4. Remembered(v)'
    BY <1>1, <1>2 DEF Remembered, At, Provisioning
<1>5. HostOK(v)'
    BY <1>3, <1>4 DEF HostOK
<1> QED
    BY <1>5, OneSandboxMoves

\* What the cleanup looks at in the locals.
CleanupLocals == {"owner", "network", "mounted", "failed", "leaked"}

\* A step forward that takes nothing but the use marker.
LEMMA QuietStepForward ==
    ASSUME NetInv, HostInv, NEW v \in Vms, provider' = provider,
           \A w \in Vms \ {v} : vm'[w] = vm[w],
           DOMAIN vm'[v] = DOMAIN vm[v],
           \A f \in CleanupLocals : vm'[v][f] = vm[v][f],
           vm[v].pc \in Provisioning \ {"addTap", "addRules"},
           vm'[v].pc \in Provisioning \cup {"proxy"},
           \A r \in Resources \ {"marker"} : held'[r] = held[r],
           held'["marker"] \cup {v} = held["marker"] \cup {v}
    PROVE  Steps(v)
<1>1. /\ \A r \in Resources : held[r] \subseteq Vms
      /\ LocalsTyped(vm[v]) /\ Owned(v) /\ Recorded(v) /\ Remembered(v)
    BY DEF HostInv, HostOK
<1>2. OnlyMoves(v) /\ \A r \in Resources : held'[r] \subseteq Vms
    BY <1>1, ResourcesAreSteps DEF OnlyMoves
<1>3. /\ vm'[v].owner = "provision" /\ ~vm'[v].leaked
      /\ vm'[v].network = vm[v].network /\ vm'[v].mounted = vm[v].mounted
      /\ vm'[v].failed = vm[v].failed /\ vm'[v].leaked = vm[v].leaked
      /\ vm'[v].owner = vm[v].owner
    BY <1>1 DEF Owned, CleanupLocals
<1>4. LocalsTyped(vm'[v])
    BY <1>1, <1>3, ResourcesAreSteps DEF LocalsTyped
<1>5. v \in held'["directory"]
    BY <1>1, ResourcesAreSteps DEF Remembered
<1>6. ~At(v, "lost")
    BY DEF At, Provisioning
<1>7. Recorded(v)'
    BY <1>1, <1>3, <1>6, ResourcesAreSteps DEF Recorded, At
<1>8. SandboxStep(v)
    <2>1. Holds(v) /\ Holds(v)'
        BY <1>1, <1>5, ResourcesAreSteps DEF Remembered, Holds
    <2>2. Phase(v) = "provisioning" /\ Phase(v)' = "provisioning"
        BY <1>3 DEF Phase, Provisioning, At
    <2> QED
        BY <1>3, <2>1, <2>2 DEF SandboxStep
<1> QED
    BY <1>2, <1>3, <1>4, <1>5, <1>6, <1>7, <1>8, ForwardStep DEF Steps

\* Keys, image, eviction, and what only reads or starts: nothing but the use marker is taken.
LEMMA QuietSteps ==
    ASSUME NetInv, HostInv, NEW v \in Vms,
           \/ GenerateKeys(v)
           \/ UseReference(v)
           \/ Pull(v)
           \/ LockKey(v)
           \/ Convert(v)
           \/ WriteMetadata(v)
           \/ WriteReference(v)
           \/ Missing(v)
           \/ Mark(v)
           \/ ListDisks(v)
           \/ SkipUsed(v)
           \/ EvictDisk(v)
           \/ EvictMetadata(v)
           \/ CacheFull(v)
           \/ Activated(v)
           \/ ImageFails(v)
           \/ Allocate(v)
           \/ Exhausted(v)
           \/ CreateDisk(v)
           \/ Configure(v)
           \/ BootFails(v)
    PROVE  Steps(v)
<1>1. CASE GenerateKeys(v)
    BY <1>1, QuietStepForward, ResourcesAreSteps
    DEF NetInv, StateOK, LocalsOK, CleanupLocals, Provisioning, At, Goto, GenerateKeys
<1>2. CASE UseReference(v)
    BY <1>2, QuietStepForward, ResourcesAreSteps
    DEF NetInv, StateOK, LocalsOK, CleanupLocals, Provisioning, At, UseReference
<1>3. CASE Pull(v)
    <2> PICK key \in Keys : vm' = [vm EXCEPT ![v].pc = "key", ![v].key = key, ![v].cached = FALSE]
        BY <1>3 DEF Pull
    <2>1. vm[v].pc \in {"image", "pull"} /\ UNCHANGED <<held, provider>>
        BY <1>3 DEF Pull, At
    <2> QED
        BY <2>1, QuietStepForward DEF NetInv, StateOK, LocalsOK, CleanupLocals, Provisioning
<1>4. CASE LockKey(v)
    BY <1>4, QuietStepForward, ResourcesAreSteps
    DEF NetInv, StateOK, LocalsOK, CleanupLocals, Provisioning, At, Goto, Lock, LockKey
<1>5. CASE Convert(v)
    BY <1>5, QuietStepForward, ResourcesAreSteps
    DEF NetInv, StateOK, LocalsOK, CleanupLocals, Provisioning, At, Goto, Convert
<1>6. CASE WriteMetadata(v)
    BY <1>6, QuietStepForward, ResourcesAreSteps
    DEF NetInv, StateOK, LocalsOK, CleanupLocals, Provisioning, At, Goto, WriteMetadata
<1>7. CASE WriteReference(v)
    BY <1>7, QuietStepForward, ResourcesAreSteps
    DEF NetInv, StateOK, LocalsOK, CleanupLocals, Provisioning, At, Goto, WriteReference
<1>8. CASE Missing(v)
    BY <1>8, QuietStepForward, ResourcesAreSteps
    DEF NetInv, StateOK, LocalsOK, CleanupLocals, Provisioning, At, Goto, Unlocked, Missing
<1>9. CASE Mark(v)
    BY <1>9, QuietStepForward, ResourcesAreSteps
    DEF NetInv, StateOK, LocalsOK, CleanupLocals, Provisioning, At, Goto, Hold, Lock, Mark
<1>10. CASE ListDisks(v)
    BY <1>10, QuietStepForward, ResourcesAreSteps
    DEF NetInv, StateOK, LocalsOK, CleanupLocals, Provisioning, At, ListDisks
<1>11. CASE SkipUsed(v)
    BY <1>11, QuietStepForward, ResourcesAreSteps
    DEF NetInv, StateOK, LocalsOK, CleanupLocals, Provisioning, At, Evicting, SkipUsed
<1>12. CASE EvictDisk(v)
    <2>1. /\ vm[v].pc = "evict" /\ vm' = [vm EXCEPT ![v].pc = "evictMetadata"]
          /\ UNCHANGED <<held, provider>>
        BY <1>12 DEF EvictDisk, Evicting, At, Goto
    <2> QED
        BY <2>1, QuietStepForward DEF NetInv, StateOK, LocalsOK, CleanupLocals, Provisioning
<1>13. CASE EvictMetadata(v)
    BY <1>13, QuietStepForward, ResourcesAreSteps
    DEF NetInv, StateOK, LocalsOK, CleanupLocals, Provisioning, At, EvictMetadata
<1>14. CASE CacheFull(v)
    BY <1>14, QuietStepForward, ResourcesAreSteps
    DEF NetInv, StateOK, LocalsOK, CleanupLocals, Provisioning, At, Goto, Unlocked, Evicting,
        CacheFull
<1>15. CASE Activated(v)
    BY <1>15, QuietStepForward, ResourcesAreSteps
    DEF NetInv, StateOK, LocalsOK, CleanupLocals, Provisioning, At, Unlocked, Activated
<1>16. CASE ImageFails(v)
    BY <1>16, QuietStepForward, ResourcesAreSteps
    DEF NetInv, StateOK, LocalsOK, CleanupLocals, Provisioning, Goto, Fault, ImageFails
<1>17. CASE Allocate(v)
    <2> PICK i : vm' = [vm EXCEPT ![v].pc = "record", ![v].index = i]
        BY <1>17 DEF Allocate
    <2> QED
        BY <1>17, QuietStepForward, ResourcesAreSteps
        DEF NetInv, StateOK, LocalsOK, CleanupLocals, Provisioning, At, Allocate
<1>18. CASE Exhausted(v)
    BY <1>18, QuietStepForward, ResourcesAreSteps
    DEF NetInv, StateOK, LocalsOK, CleanupLocals, Provisioning, At, Goto, Exhausted
<1>19. CASE CreateDisk(v)
    BY <1>19, QuietStepForward, ResourcesAreSteps
    DEF NetInv, StateOK, LocalsOK, CleanupLocals, Provisioning, At, Goto, CreateDisk
<1>20. CASE Configure(v)
    BY <1>20, QuietStepForward, ResourcesAreSteps
    DEF NetInv, StateOK, LocalsOK, CleanupLocals, Provisioning, At, Goto, Configure
<1>21. CASE BootFails(v)
    BY <1>21, QuietStepForward, ResourcesAreSteps
    DEF NetInv, StateOK, LocalsOK, CleanupLocals, Provisioning, Goto, Fault, BootFails
<1> QED
    BY <1>1, <1>2, <1>3, <1>4, <1>5, <1>6, <1>7, <1>8, <1>9, <1>10, <1>11, <1>12, <1>13, <1>14,
        <1>15, <1>16, <1>17, <1>18, <1>19, <1>20, <1>21

\* What is taken from the directory on is recorded where the cleanup looks for it.
LEMMA TakingSteps ==
    ASSUME NetInv, HostInv, NEW v \in Vms,
           \/ MakeDirectory(v)
           \/ RecordNetwork(v)
           \/ AddTap(v)
           \/ AddRules(v)
           \/ Launch(v)
           \/ MountBase(v)
           \/ Expose(v)
           \/ Dispose(v)
    PROVE  Steps(v)
<1>0. /\ \A r \in Resources : held[r] \subseteq Vms
      /\ LocalsTyped(vm[v]) /\ Owned(v) /\ Recorded(v) /\ Remembered(v)
    BY DEF HostInv, HostOK
<1>1. CASE MakeDirectory(v)
    <2>1. OnlyMoves(v) /\ provider' = provider /\ \A r \in Resources : held'[r] \subseteq Vms
        BY <1>0, <1>1, ResourcesAreSteps DEF OnlyMoves, NetInv, StateOK, Hold, Goto, MakeDirectory
    <2>2. /\ ~At(v, "lost") /\ LocalsTyped(vm'[v])
          /\ vm'[v].pc \in Provisioning \cup {"ready", "proxy"}
          /\ vm'[v].pc # "proxy" => vm'[v].owner = "provision" /\ ~vm'[v].leaked
        BY <1>0, <1>1, ResourcesAreSteps
        DEF LocalsTyped, Owned, Provisioning, NetInv, StateOK, LocalsOK, At, Hold, Goto,
            MakeDirectory
    <2>3. v \in held'["directory"]
        BY <1>0, <1>1, ResourcesAreSteps
        DEF Remembered, Provisioning, NetInv, StateOK, At, Hold, Goto, MakeDirectory
    <2>4. Recorded(v)'
        BY <1>0, <1>1, ResourcesAreSteps
        DEF Recorded, Remembered, HoldsNothing, Owned, Provisioning, NetInv, StateOK, LocalsOK,
            At, Hold, Goto, MakeDirectory
    <2>5. SandboxStep(v)
        <3>1. Holds(v)' /\ (vm[v].pc # "awaiting" => Holds(v))
            BY <1>0, <1>1, <2>3, ResourcesAreSteps
            DEF Remembered, Holds, Provisioning, At, Hold, Goto, MakeDirectory
        <3>2. vm'[v].leaked = vm[v].leaked
            BY <1>0, <1>1 DEF LocalsTyped, Fresh, NetInv, StateOK, Hold, Goto, MakeDirectory
        <3>3. Phase(v) = "provisioning" /\ Phase(v)' = "provisioning"
            BY <1>0, <1>1, ResourcesAreSteps
            DEF Phase, Owned, Provisioning, LocalsTyped, Fresh, NetInv, StateOK, LocalsOK, At,
                Hold, Goto, MakeDirectory
        <3> QED
            BY <3>1, <3>2, <3>3 DEF SandboxStep
    <2> QED
        BY <2>1, <2>2, <2>3, <2>4, <2>5, ForwardStep DEF Steps
<1>2. CASE RecordNetwork(v)
    <2>1. OnlyMoves(v) /\ provider' = provider /\ \A r \in Resources : held'[r] \subseteq Vms
        BY <1>0, <1>2, ResourcesAreSteps DEF OnlyMoves, NetInv, StateOK, Hold, Goto, RecordNetwork
    <2>2. /\ ~At(v, "lost") /\ LocalsTyped(vm'[v])
          /\ vm'[v].pc \in Provisioning \cup {"ready", "proxy"}
          /\ vm'[v].pc # "proxy" => vm'[v].owner = "provision" /\ ~vm'[v].leaked
        BY <1>0, <1>2, ResourcesAreSteps
        DEF LocalsTyped, Owned, Provisioning, NetInv, StateOK, LocalsOK, At, Hold, Goto,
            RecordNetwork
    <2>3. v \in held'["directory"]
        BY <1>0, <1>2, ResourcesAreSteps
        DEF Remembered, Provisioning, NetInv, StateOK, At, Hold, Goto, RecordNetwork
    <2>4. Recorded(v)'
        BY <1>0, <1>2, ResourcesAreSteps
        DEF Recorded, Remembered, HoldsNothing, Owned, Provisioning, NetInv, StateOK, LocalsOK,
            At, Hold, Goto, RecordNetwork
    <2>5. SandboxStep(v)
        <3>1. Holds(v)' /\ (vm[v].pc # "awaiting" => Holds(v))
            BY <1>0, <1>2, <2>3, ResourcesAreSteps
            DEF Remembered, Holds, Provisioning, At, Hold, Goto, RecordNetwork
        <3>2. vm'[v].leaked = vm[v].leaked
            BY <1>0, <1>2 DEF LocalsTyped, Fresh, NetInv, StateOK, Hold, Goto, RecordNetwork
        <3>3. Phase(v) = "provisioning" /\ Phase(v)' = "provisioning"
            BY <1>0, <1>2, ResourcesAreSteps
            DEF Phase, Owned, Provisioning, LocalsTyped, Fresh, NetInv, StateOK, LocalsOK, At,
                Hold, Goto, RecordNetwork
        <3> QED
            BY <3>1, <3>2, <3>3 DEF SandboxStep
    <2> QED
        BY <2>1, <2>2, <2>3, <2>4, <2>5, ForwardStep DEF Steps
<1>3. CASE AddTap(v)
    <2>1. OnlyMoves(v) /\ provider' = provider /\ \A r \in Resources : held'[r] \subseteq Vms
        BY <1>0, <1>3, ResourcesAreSteps DEF OnlyMoves, NetInv, StateOK, Hold, Goto, AddTap
    <2>2. /\ ~At(v, "lost") /\ LocalsTyped(vm'[v])
          /\ vm'[v].pc \in Provisioning \cup {"ready", "proxy"}
          /\ vm'[v].pc # "proxy" => vm'[v].owner = "provision" /\ ~vm'[v].leaked
        BY <1>0, <1>3, ResourcesAreSteps
        DEF LocalsTyped, Owned, Provisioning, NetInv, StateOK, LocalsOK, At, Hold, Goto, AddTap
    <2>3. v \in held'["directory"]
        BY <1>0, <1>3, ResourcesAreSteps
        DEF Remembered, Provisioning, NetInv, StateOK, At, Hold, Goto, AddTap
    <2>4. Recorded(v)'
        BY <1>0, <1>3, ResourcesAreSteps
        DEF Recorded, Remembered, HoldsNothing, Owned, Provisioning, NetInv, StateOK, LocalsOK,
            At, Hold, Goto, AddTap
    <2>5. SandboxStep(v)
        <3>1. Holds(v)' /\ (vm[v].pc # "awaiting" => Holds(v))
            BY <1>0, <1>3, <2>3, ResourcesAreSteps
            DEF Remembered, Holds, Provisioning, At, Hold, Goto, AddTap
        <3>2. vm'[v].leaked = vm[v].leaked
            BY <1>0, <1>3 DEF LocalsTyped, Fresh, NetInv, StateOK, Hold, Goto, AddTap
        <3>3. Phase(v) = "provisioning" /\ Phase(v)' = "provisioning"
            BY <1>0, <1>3, ResourcesAreSteps
            DEF Phase, Owned, Provisioning, LocalsTyped, Fresh, NetInv, StateOK, LocalsOK, At,
                Hold, Goto, AddTap
        <3> QED
            BY <3>1, <3>2, <3>3 DEF SandboxStep
    <2> QED
        BY <2>1, <2>2, <2>3, <2>4, <2>5, ForwardStep DEF Steps
<1>4. CASE AddRules(v)
    <2>1. OnlyMoves(v) /\ provider' = provider /\ \A r \in Resources : held'[r] \subseteq Vms
        BY <1>0, <1>4, ResourcesAreSteps DEF OnlyMoves, NetInv, StateOK, Hold, AddRules
    <2>2. /\ ~At(v, "lost") /\ LocalsTyped(vm'[v])
          /\ vm'[v].pc \in Provisioning \cup {"ready", "proxy"}
          /\ vm'[v].pc # "proxy" => vm'[v].owner = "provision" /\ ~vm'[v].leaked
        BY <1>0, <1>4, ResourcesAreSteps
        DEF LocalsTyped, Owned, Provisioning, NetInv, StateOK, LocalsOK, At, Hold, AddRules
    <2>3. v \in held'["directory"]
        BY <1>0, <1>4, ResourcesAreSteps
        DEF Remembered, Provisioning, NetInv, StateOK, At, Hold, AddRules
    <2>4. Recorded(v)'
        BY <1>0, <1>4, ResourcesAreSteps
        DEF Recorded, Remembered, HoldsNothing, Owned, Provisioning, NetInv, StateOK, LocalsOK,
            At, Hold, AddRules
    <2>5. SandboxStep(v)
        <3>1. Holds(v)' /\ (vm[v].pc # "awaiting" => Holds(v))
            BY <1>0, <1>4, <2>3, ResourcesAreSteps
            DEF Remembered, Holds, Provisioning, At, Hold, AddRules
        <3>2. vm'[v].leaked = vm[v].leaked
            BY <1>0, <1>4 DEF LocalsTyped, Fresh, NetInv, StateOK, Hold, AddRules
        <3>3. Phase(v) = "provisioning" /\ Phase(v)' = "provisioning"
            BY <1>0, <1>4, ResourcesAreSteps
            DEF Phase, Owned, Provisioning, LocalsTyped, Fresh, NetInv, StateOK, LocalsOK, At,
                Hold, AddRules
        <3> QED
            BY <3>1, <3>2, <3>3 DEF SandboxStep
    <2> QED
        BY <2>1, <2>2, <2>3, <2>4, <2>5, ForwardStep DEF Steps
<1>5. CASE Launch(v)
    <2>1. OnlyMoves(v) /\ provider' = provider /\ \A r \in Resources : held'[r] \subseteq Vms
        BY <1>0, <1>5, ResourcesAreSteps DEF OnlyMoves, NetInv, StateOK, Launch
    <2>2. /\ ~At(v, "lost") /\ LocalsTyped(vm'[v])
          /\ vm'[v].pc \in Provisioning \cup {"ready", "proxy"}
          /\ vm'[v].pc # "proxy" => vm'[v].owner = "provision" /\ ~vm'[v].leaked
        BY <1>0, <1>5, ResourcesAreSteps
        DEF LocalsTyped, Owned, Provisioning, NetInv, StateOK, LocalsOK, At, Launch
    <2>3. v \in held'["directory"]
        BY <1>0, <1>5, ResourcesAreSteps DEF Remembered, Provisioning, NetInv, StateOK, At, Launch
    <2>4. Recorded(v)'
        BY <1>0, <1>5, ResourcesAreSteps
        DEF Recorded, Remembered, HoldsNothing, Owned, Provisioning, NetInv, StateOK, LocalsOK,
            At, Launch
    <2>5. SandboxStep(v)
        <3>1. Holds(v)' /\ (vm[v].pc # "awaiting" => Holds(v))
            BY <1>0, <1>5, <2>3, ResourcesAreSteps DEF Remembered, Holds, Provisioning, At, Launch
        <3>2. vm'[v].leaked = vm[v].leaked
            BY <1>0, <1>5 DEF LocalsTyped, Fresh, NetInv, StateOK, Launch
        <3>3. Phase(v) = "provisioning" /\ Phase(v)' = "provisioning"
            BY <1>0, <1>5, ResourcesAreSteps
            DEF Phase, Owned, Provisioning, LocalsTyped, Fresh, NetInv, StateOK, LocalsOK, At,
                Launch
        <3> QED
            BY <3>1, <3>2, <3>3 DEF SandboxStep
    <2> QED
        BY <2>1, <2>2, <2>3, <2>4, <2>5, ForwardStep DEF Steps
<1>6. CASE MountBase(v)
    <2>1. OnlyMoves(v) /\ provider' = provider /\ \A r \in Resources : held'[r] \subseteq Vms
        BY <1>0, <1>6, ResourcesAreSteps DEF OnlyMoves, NetInv, StateOK, Hold, MountBase
    <2>2. /\ ~At(v, "lost") /\ LocalsTyped(vm'[v])
          /\ vm'[v].pc \in Provisioning \cup {"ready", "proxy"}
          /\ vm'[v].pc # "proxy" => vm'[v].owner = "provision" /\ ~vm'[v].leaked
        BY <1>0, <1>6, ResourcesAreSteps
        DEF LocalsTyped, Owned, Provisioning, NetInv, StateOK, LocalsOK, At, Hold, MountBase
    <2>3. v \in held'["directory"]
        BY <1>0, <1>6, ResourcesAreSteps
        DEF Remembered, Provisioning, NetInv, StateOK, At, Hold, MountBase
    <2>4. Recorded(v)'
        BY <1>0, <1>6, ResourcesAreSteps
        DEF Recorded, Remembered, HoldsNothing, Owned, Provisioning, NetInv, StateOK, LocalsOK,
            At, Hold, MountBase
    <2>5. SandboxStep(v)
        <3>1. Holds(v)' /\ (vm[v].pc # "awaiting" => Holds(v))
            BY <1>0, <1>6, <2>3, ResourcesAreSteps
            DEF Remembered, Holds, Provisioning, At, Hold, MountBase
        <3>2. vm'[v].leaked = vm[v].leaked
            BY <1>0, <1>6 DEF LocalsTyped, Fresh, NetInv, StateOK, Hold, MountBase
        <3>3. Phase(v) = "provisioning" /\ Phase(v)' = "provisioning"
            BY <1>0, <1>6, ResourcesAreSteps
            DEF Phase, Owned, Provisioning, LocalsTyped, Fresh, NetInv, StateOK, LocalsOK, At,
                Hold, MountBase
        <3> QED
            BY <3>1, <3>2, <3>3 DEF SandboxStep
    <2> QED
        BY <2>1, <2>2, <2>3, <2>4, <2>5, ForwardStep DEF Steps
<1>7. CASE Expose(v)
    <2>1. OnlyMoves(v) /\ provider' = provider /\ \A r \in Resources : held'[r] \subseteq Vms
        BY <1>0, <1>7, ResourcesAreSteps DEF OnlyMoves, NetInv, StateOK, Hold, Goto, Expose
    <2>2. /\ ~At(v, "lost") /\ LocalsTyped(vm'[v])
          /\ vm'[v].pc \in Provisioning \cup {"ready", "proxy"}
          /\ vm'[v].pc # "proxy" => vm'[v].owner = "provision" /\ ~vm'[v].leaked
        BY <1>0, <1>7, ResourcesAreSteps
        DEF LocalsTyped, Owned, Provisioning, NetInv, StateOK, LocalsOK, At, Hold, Goto, Expose
    <2>3. v \in held'["directory"]
        BY <1>0, <1>7, ResourcesAreSteps
        DEF Remembered, Provisioning, NetInv, StateOK, At, Hold, Goto, Expose
    <2>4. Recorded(v)'
        BY <1>0, <1>7, ResourcesAreSteps
        DEF Recorded, Remembered, HoldsNothing, Owned, Provisioning, NetInv, StateOK, LocalsOK,
            At, Hold, Goto, Expose
    <2>5. SandboxStep(v)
        <3>1. Holds(v)' /\ (vm[v].pc # "awaiting" => Holds(v))
            BY <1>0, <1>7, <2>3, ResourcesAreSteps
            DEF Remembered, Holds, Provisioning, At, Hold, Goto, Expose
        <3>2. vm'[v].leaked = vm[v].leaked
            BY <1>0, <1>7 DEF LocalsTyped, Fresh, NetInv, StateOK, Hold, Goto, Expose
        <3>3. Phase(v) = "provisioning" /\ Phase(v)' = "running" /\ vm[v].pc = "guest"
            BY <1>0, <1>7, ResourcesAreSteps
            DEF Phase, Owned, Provisioning, LocalsTyped, Fresh, NetInv, StateOK, LocalsOK, At,
                Hold, Goto, Expose
        <3> QED
            BY <3>1, <3>2, <3>3 DEF SandboxStep
    <2> QED
        BY <2>1, <2>2, <2>3, <2>4, <2>5, ForwardStep DEF Steps
<1>8. CASE Dispose(v)
    <2>1. OnlyMoves(v) /\ provider' = provider /\ \A r \in Resources : held'[r] \subseteq Vms
        BY <1>0, <1>8, ResourcesAreSteps DEF OnlyMoves, NetInv, StateOK, Dispose
    <2>2. /\ ~At(v, "lost") /\ LocalsTyped(vm'[v])
          /\ vm'[v].pc \in Provisioning \cup {"ready", "proxy"}
          /\ vm'[v].pc # "proxy" => vm'[v].owner = "provision" /\ ~vm'[v].leaked
        BY <1>0, <1>8, ResourcesAreSteps
        DEF LocalsTyped, Owned, Provisioning, NetInv, StateOK, LocalsOK, At, Dispose
    <2>3. v \in held'["directory"]
        BY <1>0, <1>8, ResourcesAreSteps DEF Remembered, Provisioning, NetInv, StateOK, At, Dispose
    <2>4. Recorded(v)'
        BY <1>0, <1>8, ResourcesAreSteps
        DEF Recorded, Remembered, HoldsNothing, Owned, Provisioning, NetInv, StateOK, LocalsOK,
            At, Dispose
    <2>5. SandboxStep(v)
        <3>1. Holds(v)' /\ (vm[v].pc # "awaiting" => Holds(v))
            BY <1>0, <1>8, <2>3, ResourcesAreSteps DEF Remembered, Holds, Provisioning, At, Dispose
        <3>2. vm'[v].leaked = vm[v].leaked
            BY <1>0, <1>8 DEF LocalsTyped, Fresh, NetInv, StateOK, Dispose
        <3>3. Phase(v) = "running" /\ Phase(v)' = "running" /\ vm[v].pc = "ready"
            BY <1>0, <1>8, ResourcesAreSteps
            DEF Phase, Owned, Provisioning, LocalsTyped, Fresh, NetInv, StateOK, LocalsOK, At,
                Dispose
        <3> QED
            BY <3>1, <3>2, <3>3 DEF SandboxStep
    <2> QED
        BY <2>1, <2>2, <2>3, <2>4, <2>5, ForwardStep DEF Steps
<1> QED
    BY <1>1, <1>2, <1>3, <1>4, <1>5, <1>6, <1>7, <1>8

\* What createVmNetwork and mountBase cannot give back is recorded as leaked.
LEMMA FailingSteps ==
    ASSUME NetInv, HostInv, NEW v \in Vms, NetworkFails(v) \/ MountFails(v)
    PROVE  Steps(v)
<1>0. /\ \A r \in Resources : held[r] \subseteq Vms
      /\ LocalsTyped(vm[v]) /\ Owned(v) /\ Recorded(v) /\ Remembered(v)
    BY DEF HostInv, HostOK
<1>1. CASE NetworkFails(v)
    <2> PICK stuck \in SUBSET {r \in {"tap"} : v \in held[r]} : NetworkFails(v)!2!(stuck)
        BY <1>1 DEF NetworkFails
    <2>1. OnlyMoves(v) /\ provider' = provider /\ \A r \in Resources : held'[r] \subseteq Vms
        BY <1>0, <1>1, ResourcesAreSteps DEF OnlyMoves, NetInv, StateOK, NetworkFails
    <2>2. /\ vm[v].pc \in {"addTap", "addRules"} /\ vm'[v].pc = "proxy"
          /\ DOMAIN vm'[v] = DOMAIN vm[v]
          /\ \A f \in CleanupLocals \ {"leaked"} : vm'[v][f] = vm[v][f]
          /\ vm'[v].leaked = (stuck # {})
        BY <1>0, <1>1, ResourcesAreSteps
        DEF LocalsTyped, CleanupLocals, NetInv, StateOK, At, NetworkFails, Fresh
    <2>3. ~At(v, "lost") /\ LocalsTyped(vm'[v])
        <3>1. /\ vm'[v].owner = vm[v].owner /\ vm'[v].network = vm[v].network
              /\ vm'[v].mounted = vm[v].mounted /\ vm'[v].failed = vm[v].failed
              /\ vm'[v].leaked \in BOOLEAN
            BY <2>2 DEF CleanupLocals
        <3>2. ~At(v, "lost")
            BY ONLY <2>2 DEF At
        <3>3. "proxy" \in Resources
            BY ONLY ResourcesAreSteps
        <3> QED
            BY ONLY <1>0, <2>2, <3>1, <3>2, <3>3 DEF LocalsTyped
    <2>4. v \in held'["directory"]
        BY <1>0, <2>2, ResourcesAreSteps DEF Remembered, Provisioning
    <2>5. vm'[v].owner = "provision"
        BY <1>0, <2>2 DEF Owned, Provisioning, CleanupLocals
    <2>6. /\ stuck = {} => v \notin held'["tap"] \cup held'["allocation"]
          /\ held'["mount"] = held["mount"] /\ held'["rules"] = held["rules"]
        BY ResourcesAreSteps
    <2>7. Recorded(v)'
        BY <1>0, <2>2, <2>5, <2>6 DEF Recorded, Owned, Provisioning, CleanupLocals, At
    <2>8. SandboxStep(v)
        <3>1. Holds(v) /\ Holds(v)'
            BY <1>0, <2>2, <2>4, ResourcesAreSteps DEF Remembered, Holds, Provisioning
        <3>2. Phase(v) = "provisioning" /\ Phase(v)' = "provisioning"
            BY <1>0, <2>2, <2>5, ResourcesAreSteps DEF Phase, Owned, Provisioning, At
        <3>3. vm[v].leaked = FALSE
            BY <1>0, <2>2 DEF Owned, LocalsTyped, Provisioning
        <3>4. vm'[v].leaked \/ vm'[v].leaked = FALSE
            BY <2>2
        <3> QED
            BY <3>1, <3>2, <3>3, <3>4 DEF SandboxStep
    <2> QED
        BY <2>1, <2>2, <2>3, <2>4, <2>7, <2>8, ForwardStep DEF Steps
<1>2. CASE MountFails(v)
    <2> PICK stuck \in BOOLEAN : MountFails(v)!2!(stuck)
        BY <1>2 DEF MountFails
    <2>1. OnlyMoves(v) /\ provider' = provider /\ \A r \in Resources : held'[r] \subseteq Vms
        BY <1>0, <1>2, ResourcesAreSteps DEF OnlyMoves, NetInv, StateOK, MountFails
    <2>2. /\ vm[v].pc = "mountBase" /\ vm'[v].pc = "proxy"
          /\ DOMAIN vm'[v] = DOMAIN vm[v]
          /\ \A f \in CleanupLocals \ {"leaked"} : vm'[v][f] = vm[v][f]
          /\ vm'[v].leaked = stuck
        BY <1>0, <1>2, ResourcesAreSteps
        DEF LocalsTyped, CleanupLocals, NetInv, StateOK, At, MountFails, Fresh
    <2>3. ~At(v, "lost") /\ LocalsTyped(vm'[v])
        <3>1. /\ vm'[v].owner = vm[v].owner /\ vm'[v].network = vm[v].network
              /\ vm'[v].mounted = vm[v].mounted /\ vm'[v].failed = vm[v].failed
              /\ vm'[v].leaked \in BOOLEAN
            BY <2>2 DEF CleanupLocals
        <3>2. ~At(v, "lost")
            BY ONLY <2>2 DEF At
        <3>3. "proxy" \in Resources
            BY ONLY ResourcesAreSteps
        <3> QED
            BY ONLY <1>0, <2>2, <3>1, <3>2, <3>3 DEF LocalsTyped
    <2>4. v \in held'["directory"]
        BY <1>0, <1>2, <2>2, ResourcesAreSteps
        DEF Remembered, Provisioning, MountFails, NetInv, StateOK
    <2>5. vm'[v].owner = "provision"
        BY <1>0, <2>2 DEF Owned, Provisioning, CleanupLocals
    <2>6. /\ ~stuck => held'["mount"] = held["mount"]
          /\ \A r \in Resources \ {"mount"} : held'[r] = held[r]
        BY ResourcesAreSteps DEF NetInv, StateOK
    <2>7. Recorded(v)'
        BY <1>0, <2>2, <2>5, <2>6, ResourcesAreSteps
        DEF Recorded, Owned, Provisioning, CleanupLocals, At
    <2>8. SandboxStep(v)
        <3>1. Holds(v) /\ Holds(v)'
            BY <1>0, <2>2, <2>4, ResourcesAreSteps DEF Remembered, Holds, Provisioning
        <3>2. Phase(v) = "provisioning" /\ Phase(v)' = "provisioning"
            BY <1>0, <2>2, <2>5, ResourcesAreSteps DEF Phase, Owned, Provisioning, At
        <3>3. vm[v].leaked = FALSE
            BY <1>0, <2>2 DEF Owned, LocalsTyped, Provisioning
        <3>4. vm'[v].leaked \/ vm'[v].leaked = FALSE
            BY <2>2
        <3> QED
            BY <3>1, <3>2, <3>3, <3>4 DEF SandboxStep
    <2> QED
        BY <2>1, <2>2, <2>3, <2>4, <2>7, <2>8, ForwardStep DEF Steps
<1> QED
    BY <1>1, <1>2

\* The VM ends or a user comes and goes: dispose has not moved.
LEMMA RuntimeSteps ==
    ASSUME NetInv, HostInv, NEW v \in Vms, VmExits(v) \/ UserConnects(v) \/ UserLeaves(v)
    PROVE  Steps(v)
<1>0. /\ \A r \in Resources : held[r] \subseteq Vms
      /\ LocalsTyped(vm[v]) /\ Owned(v) /\ Recorded(v) /\ Remembered(v)
    BY DEF HostInv, HostOK
<1>1. /\ \A w \in Vms \ {v} : vm'[w] = vm[w]
      /\ DOMAIN vm'[v] = DOMAIN vm[v]
      /\ \A f \in CleanupLocals \cup {"pc"} : vm'[v][f] = vm[v][f]
      /\ \A r \in Resources \ {"process"} : held'[r] = held[r]
      /\ held'["process"] = held["process"] \/ held'["process"] = held["process"] \ {v}
      /\ provider' = provider
    <2>1. CASE VmExits(v)
        <3> PICK how \in Exits : vm' = [vm EXCEPT ![v].child = how]
            BY <2>1 DEF VmExits
        <3> QED
            BY <2>1, ResourcesAreSteps DEF VmExits, NetInv, StateOK, LocalsOK, CleanupLocals
    <2>2. CASE UserConnects(v)
        BY <2>2, ResourcesAreSteps DEF UserConnects, NetInv, StateOK, LocalsOK, CleanupLocals
    <2>3. CASE UserLeaves(v)
        BY <2>3, ResourcesAreSteps DEF UserLeaves, NetInv, StateOK, LocalsOK, CleanupLocals
    <2> QED
        BY <2>1, <2>2, <2>3
<1>2. /\ OnlyMoves(v)
      /\ \A r \in Resources : held'[r] \subseteq Vms /\ (v \in held'[r] => v \in held[r])
    BY <1>0, <1>1, ResourcesAreSteps DEF OnlyMoves
<1>3. /\ vm'[v].pc = vm[v].pc /\ vm'[v].owner = vm[v].owner /\ vm'[v].network = vm[v].network
      /\ vm'[v].mounted = vm[v].mounted /\ vm'[v].failed = vm[v].failed
      /\ vm'[v].leaked = vm[v].leaked
    BY <1>1 DEF CleanupLocals
<1>4. LocalsTyped(vm'[v])
    BY <1>0, <1>1, <1>3 DEF LocalsTyped
<1>5. Owned(v)'
    BY <1>0, <1>3 DEF Owned
<1>6. Recorded(v)'
    BY <1>0, <1>1, <1>3, ResourcesAreSteps DEF Recorded, At
<1>7. Remembered(v)'
    <2>1. HoldsNothing(v) => HoldsNothing(v)'
        BY <1>2 DEF HoldsNothing
    <2>2. v \in held["directory"] => v \in held'["directory"]
        BY <1>1, ResourcesAreSteps
    <2>3. CleanedAt(vm'[v].pc) \subseteq Resources
        BY DEF CleanedAt
    <2> QED
        BY <1>0, <1>1, <1>2, <1>3, <2>1, <2>2, <2>3 DEF Remembered, At
<1>8. \A r \in Resources \ {"marker"} : v \in held'[r] => v \in held'["directory"] \/ vm'[v].leaked
    BY <1>0, <1>1, <1>2, <1>3, ResourcesAreSteps DEF HostInv, LeftoversAreReachable
<1>9. SandboxStep(v)
    <2>1. Phase(v)' = Phase(v)
        BY <1>3 DEF Phase, At
    <2>2. Holds(v)' => Holds(v)
        BY <1>2 DEF Holds
    <2>3. Phase(v) = "none" => ~Holds(v)
        BY <1>0 DEF Phase, Remembered, HoldsNothing, Holds, At
    <2> QED
        BY <1>3, <2>1, <2>2, <2>3 DEF SandboxStep, Holds
<1> QED
    BY <1>2, <1>4, <1>5, <1>6, <1>7, <1>8, <1>9, OneSandboxMoves DEF HostOK, Steps

\* A sandbox that waits holds nothing, and nothing when it is refused.
LEMMA WaitingSteps ==
    ASSUME NetInv, HostInv, NEW v \in Vms, Provision(v) \/ Refused(v)
    PROVE  Steps(v)
<1>0. /\ \A r \in Resources : held[r] \subseteq Vms
      /\ LocalsTyped(vm[v]) /\ Owned(v) /\ Recorded(v) /\ Remembered(v)
    BY DEF HostInv, HostOK
<1>1. /\ held' = held /\ \A w \in Vms \ {v} : vm'[w] = vm[w]
      /\ DOMAIN vm'[v] = DOMAIN vm[v]
      /\ \A f \in CleanupLocals : vm'[v][f] = vm[v][f]
      /\ vm[v].pc \in {"idle", "awaiting"} /\ vm'[v].pc \in {"awaiting", "rejected"}
    <2>1. CASE Provision(v)
        BY <2>1 DEF Provision, NetInv, StateOK, LocalsOK, CleanupLocals, At, Goto
    <2>2. CASE Refused(v)
        BY <2>2 DEF Refused, NetInv, StateOK, LocalsOK, CleanupLocals, At, Goto
    <2> QED
        BY <2>1, <2>2
<1>2. /\ vm'[v].owner = vm[v].owner /\ vm'[v].network = vm[v].network
      /\ vm'[v].mounted = vm[v].mounted /\ vm'[v].failed = vm[v].failed
      /\ vm'[v].leaked = vm[v].leaked
    BY <1>1 DEF CleanupLocals
<1>3. provider' = provider \/ (provider.reconciliation = "none" /\ provider'.stale = provider.stale)
    BY DEF Provision, Refused, NetInv, StateOK
<1>4. OnlyMoves(v)
    BY <1>1, <1>3 DEF OnlyMoves
<1>5. HoldsNothing(v)'
    BY <1>0, <1>1 DEF Remembered, HoldsNothing
<1>6. LocalsTyped(vm'[v])
    BY <1>0, <1>1, <1>2 DEF LocalsTyped, Over
<1>7. Owned(v)'
    BY <1>0, <1>1, <1>2 DEF Owned
<1>8. Recorded(v)'
    BY <1>5, ResourcesAreSteps DEF Recorded, HoldsNothing
<1>9. Remembered(v)'
    <2>1. v \notin provider'.stale
        BY <1>0, <1>1, <1>3 DEF Remembered, At
    <2>2. \A r \in CleanedAt(vm'[v].pc) : v \notin held'[r]
        BY <1>5 DEF CleanedAt, HoldsNothing
    <2> QED
        BY <1>1, <1>5, <2>1, <2>2 DEF Remembered, At, Provisioning
<1>10. \A r \in Resources : v \notin held'[r]
    BY <1>5 DEF HoldsNothing
<1>11. SandboxStep(v)
    <2>1. ~Holds(v) /\ ~Holds(v)'
        BY <1>1, <1>10 DEF Holds
    <2>2. \/ Phase(v) = "none" /\ Phase(v)' = "provisioning"
          \/ Phase(v) = "provisioning" /\ Phase(v)' = "rejected"
        <3>1. vm[v].owner = "provision"
            BY <1>0, <1>1 DEF Owned
        <3>2. \/ vm[v].pc = "idle" /\ vm'[v].pc = "awaiting"
              \/ vm[v].pc = "awaiting" /\ vm'[v].pc = "rejected"
            BY <1>1 DEF Provision, Refused, NetInv, StateOK, LocalsOK, At, Goto
        <3> QED
            BY <1>2, <3>1, <3>2 DEF Phase, At
    <2>3. Holds(v)' = Holds(v)
        BY <2>1 DEF Holds
    <2> QED
        BY <1>2, <2>1, <2>2, <2>3 DEF SandboxStep
<1> QED
    BY <1>0, <1>1, <1>4, <1>6, <1>7, <1>8, <1>9, <1>10, <1>11, OneSandboxMoves DEF HostOK, Steps

\* The steps of a cleanup, and its repetition.
LEMMA CleanupSteps ==
    ASSUME NetInv, HostInv, NEW v \in Vms, CleanUp(v) \/ CleanUpFails(v) \/ RetryDispose(v)
    PROVE  Steps(v)
<1>0. /\ \A r \in Resources : held[r] \subseteq Vms
      /\ LocalsTyped(vm[v]) /\ Owned(v) /\ Recorded(v) /\ Remembered(v)
    BY DEF HostInv, HostOK
<1>1. CASE CleanUp(v)
    <2>p. PICK r \in Resources : CleanUp(v)!(r)
        BY <1>1 DEF CleanUp
    <2> DEFINE next == After(v, r, vm[v].failed)
    <2>1. /\ vm[v].pc = r /\ vm'[v].pc = next
          /\ \A w \in Vms \ {v} : vm'[w] = vm[w]
          /\ DOMAIN vm'[v] = DOMAIN vm[v]
          /\ vm'[v].owner = vm[v].owner /\ vm'[v].network = vm[v].network
          /\ vm'[v].failed = vm[v].failed /\ vm'[v].leaked = vm[v].leaked
          /\ vm'[v].mounted = IF r = "mount" THEN FALSE ELSE vm[v].mounted
        BY <1>0, <2>p DEF NetInv, StateOK, LocalsTyped, Fresh, At
    <2>2. /\ \A q \in Resources \ {r} : held'[q] = held[q]
          /\ held'[r] = IF Attempted(v, r) THEN held[r] \ {v} ELSE held[r]
          /\ provider' = provider
        BY <2>p DEF NetInv, StateOK
    <2>3. /\ OnlyMoves(v)
          /\ \A q \in Resources : held'[q] \subseteq Vms /\ (v \in held'[q] => v \in held[q])
        BY <1>0, <2>1, <2>2 DEF OnlyMoves
    <2>4. v \in held'[r] => vm[v].leaked /\ vm[v].owner = "provision"
        BY <1>0, <2>1, <2>2, ResourcesAreSteps DEF Attempted, Recorded, At
    <2>5. /\ r # "marker" => next \in Resources \ {"proxy"}
          /\ r = "marker" => next = IF vm[v].owner = "provision" THEN "rejected"
                                    ELSE IF vm[v].failed THEN "retry" ELSE "disposed"
          /\ CleanedAt(next) \subseteq CleanedAt(r) \cup {r}
        BY CleanupAdvances, Zenon
    <2> HIDE DEF next
    <2>6. next \in Resources \cup Over
        BY <2>5 DEF Over
    <2>7. LocalsTyped(vm'[v])
        BY <1>0, <2>1, <2>6 DEF LocalsTyped
    <2>8. Owned(v)'
        BY <1>0, <2>1, <2>5, <2>6, CleanedSoFar DEF Owned, LocalsTyped, Provisioning, Over
    <2>9. Recorded(v)'
        BY <1>0, <2>1, <2>3, <2>4, ResourcesAreSteps DEF Recorded, At
    <2>10. Remembered(v)'
        <3>1. \A q \in CleanedAt(next) : v \in held'[q] =>
                  vm'[v].leaked /\ (vm'[v].owner = "dispose" => vm'[v].failed)
            <4> SUFFICES ASSUME NEW q \in CleanedAt(next), v \in held'[q]
                         PROVE  vm'[v].leaked /\ (vm'[v].owner = "dispose" => vm'[v].failed)
                OBVIOUS
            <4>1. CASE q = r
                BY <4>1, <2>1, <2>4
            <4>2. CASE q # r
                <5>1. q \in CleanedAt(r) /\ q \in Resources
                    BY <4>2, <2>5 DEF CleanedAt
                <5>2. v \in held[q]
                    BY <5>1, <2>3
                <5> QED
                    BY <1>0, <2>1, <5>1, <5>2 DEF Remembered
            <4> QED
                BY <4>1, <4>2
        <3>2. next \notin Provisioning \cup {"idle", "awaiting", "ready", "lost"}
            BY <2>6, CleanedSoFar DEF Provisioning, Over
        <3>3. provider.reconciliation = "done" /\ provider.stale = {}
            BY <2>1, ResourcesAreSteps DEF NetInv, ReconciledFirst
        <3>4. next = "disposed" => ~vm[v].failed
            BY <2>5, ResourcesAreSteps
        <3> QED
            BY <2>1, <2>2, <3>1, <3>2, <3>3, <3>4 DEF Remembered, At
    <2>11. \A q \in Resources \ {"marker"} :
               v \in held'[q] => v \in held'["directory"] \/ vm'[v].leaked
        <3> SUFFICES ASSUME NEW q \in Resources \ {"marker"},
                            v \in held'[q], v \notin held'["directory"]
                     PROVE  vm'[v].leaked
            OBVIOUS
        <3>1. v \in held[q] /\ (v \in held["directory"] \/ vm[v].leaked)
            BY <2>3 DEF HostInv, LeftoversAreReachable
        <3>2. CASE v \in held["directory"]
            <4>1. r = "directory"
                BY <3>2, <2>2, ResourcesAreSteps
            <4>2. q \in CleanedAt(r)
                BY <4>1, <3>1, CleanedSoFar
            <4> QED
                BY <1>0, <2>1, <4>2, <3>1 DEF Remembered
        <3> QED
            BY <3>1, <3>2, <2>1
    <2>12. SandboxStep(v)
        <3>1. Phase(v) = IF vm[v].owner = "dispose" THEN "running" ELSE "provisioning"
            BY <2>1, ResourcesAreSteps DEF Phase, At
        <3>2. Phase(v)' = IF next \in {"rejected", "disposed"} THEN next ELSE Phase(v)
            BY <1>0, <2>1, <2>6, <3>1, CleanedSoFar, ResourcesAreSteps DEF Phase, At, Over
        <3>3. /\ next = "rejected" => vm[v].owner = "provision"
              /\ next = "disposed" => vm[v].owner = "dispose" /\ ~vm[v].failed
            BY <1>0, <2>1, <2>5, <2>8, <2>10, ResourcesAreSteps
            DEF Owned, Remembered, LocalsTyped, At
        <3>4. next \in {"rejected", "disposed"} /\ Holds(v)' =>
                  vm[v].leaked /\ (vm[v].owner = "dispose" => vm[v].failed)
            BY <2>1, <2>10, CleanedSoFar DEF Remembered, Holds, Over
        <3>5. Holds(v)' => Holds(v)
            BY <2>3 DEF Holds
        <3>6. /\ Phase(v) \in {"running", "provisioning"}
              /\ Holds(v) \in BOOLEAN /\ Holds(v)' \in BOOLEAN
            BY <3>1 DEF Holds
        <3>7. CASE next \notin {"rejected", "disposed"}
            BY <2>1, <3>2, <3>5, <3>6, <3>7 DEF SandboxStep
        <3>8. CASE next = "rejected"
            BY <2>1, <3>1, <3>2, <3>3, <3>4, <3>8 DEF SandboxStep
        <3>9. CASE next = "disposed"
            BY <2>1, <3>1, <3>2, <3>3, <3>4, <3>9 DEF SandboxStep
        <3> QED
            BY <3>7, <3>8, <3>9
    <2> QED
        BY <2>3, <2>7, <2>8, <2>9, <2>10, <2>11, <2>12, OneSandboxMoves DEF HostOK, Steps
<1>2. CASE CleanUpFails(v)
    <2>p. PICK r \in Resources \ {"process"} : CleanUpFails(v)!(r)
        BY <1>2 DEF CleanUpFails
    <2> DEFINE next == After(v, r, TRUE)
    <2>1. /\ vm[v].pc = r /\ vm'[v].pc = next
          /\ \A w \in Vms \ {v} : vm'[w] = vm[w]
          /\ DOMAIN vm'[v] = DOMAIN vm[v]
          /\ vm'[v].owner = vm[v].owner /\ vm'[v].network = vm[v].network
          /\ vm'[v].mounted = vm[v].mounted
          /\ vm'[v].failed = TRUE /\ vm'[v].leaked = TRUE
          /\ held' = held /\ provider' = provider
        BY <1>0, <2>p DEF NetInv, StateOK, LocalsTyped, Fresh, At
    <2>2. OnlyMoves(v)
        BY <2>1 DEF OnlyMoves
    <2>3. /\ r # "marker" => next \in Resources \ {"proxy"}
          /\ r = "marker" => next = IF vm[v].owner = "provision" THEN "rejected"
                                    ELSE IF TRUE THEN "retry" ELSE "disposed"
        BY CleanupAdvances, ZenonT(30)
    <2> HIDE DEF next
    <2>4. next \in Resources \cup {"rejected", "retry"}
        BY <2>3
    <2>5. LocalsTyped(vm'[v])
        BY <1>0, <2>1, <2>4 DEF LocalsTyped, Over
    <2>6. Owned(v)'
        BY <1>0, <2>1, <2>3, <2>4, CleanedSoFar DEF Owned, LocalsTyped, Provisioning, Over
    <2>7. Recorded(v)'
        BY <1>0, <2>1, <2>4, ResourcesAreSteps DEF Recorded, At
    <2>8. Remembered(v)'
        <3>1. next \notin Provisioning \cup {"idle", "awaiting", "ready", "lost", "disposed"}
            BY <2>4, CleanedSoFar, ResourcesAreSteps DEF Provisioning
        <3>2. provider.reconciliation = "done" /\ provider.stale = {}
            BY <2>1, ResourcesAreSteps DEF NetInv, ReconciledFirst
        <3> QED
            BY <2>1, <3>1, <3>2 DEF Remembered, At
    <2>9. SandboxStep(v)
        <3>1. Phase(v) = IF vm[v].owner = "dispose" THEN "running" ELSE "provisioning"
            BY <2>1, ResourcesAreSteps DEF Phase, At
        <3>2. Phase(v)' = IF next = "rejected" THEN next ELSE Phase(v)
            BY <2>1, <2>4, <3>1, CleanedSoFar, ResourcesAreSteps DEF Phase, At, Over
        <3>3. next = "rejected" => vm[v].owner = "provision"
            BY <2>1, <2>6 DEF Owned, LocalsTyped
        <3>4. Holds(v)' = Holds(v)
            BY <2>1 DEF Holds
        <3> QED
            BY <2>1, <3>1, <3>2, <3>3, <3>4 DEF SandboxStep
    <2> QED
        BY <1>0, <2>1, <2>2, <2>5, <2>6, <2>7, <2>8, <2>9, OneSandboxMoves DEF HostOK, Steps
<1>3. CASE RetryDispose(v)
    <2>1. /\ vm[v].pc = "retry" /\ vm'[v].pc = "proxy"
          /\ \A w \in Vms \ {v} : vm'[w] = vm[w]
          /\ DOMAIN vm'[v] = DOMAIN vm[v]
          /\ vm'[v].owner = vm[v].owner /\ vm'[v].network = vm[v].network
          /\ vm'[v].mounted = vm[v].mounted /\ vm'[v].leaked = vm[v].leaked
          /\ vm'[v].failed = FALSE
          /\ held' = held /\ provider' = provider
        BY <1>0, <1>3, ResourcesAreSteps DEF RetryDispose, NetInv, StateOK, LocalsTyped, Fresh, At
    <2>2. OnlyMoves(v)
        BY <2>1 DEF OnlyMoves
    <2>3. LocalsTyped(vm'[v])
        BY <1>0, <2>1, ResourcesAreSteps DEF LocalsTyped
    <2>4. Owned(v)' /\ Recorded(v)'
        BY <1>0, <2>1 DEF Owned, Recorded, Provisioning, At
    <2>5. Remembered(v)'
        BY <1>0, <2>1, CleanedSoFar DEF Remembered, Provisioning, At
    <2>6. \A r \in Resources \ {"marker"} :
              v \in held'[r] => v \in held'["directory"] \/ vm'[v].leaked
        BY <2>1 DEF HostInv, LeftoversAreReachable
    <2>7. SandboxStep(v)
        <3>1. Phase(v) = "running" /\ Phase(v)' = "running"
            BY <1>0, <2>1 DEF Phase, Owned, At
        <3>2. Holds(v)' = Holds(v)
            BY <2>1 DEF Holds
        <3> QED
            BY <2>1, <3>1, <3>2 DEF SandboxStep
    <2> QED
        BY <1>0, <2>1, <2>2, <2>3, <2>4, <2>5, <2>6, <2>7, OneSandboxMoves DEF HostOK, Steps
<1> QED
    BY <1>1, <1>2, <1>3

\* A sweep leaves only what it could not give back, and says so.
LEMMA SweepSteps ==
    ASSUME NetInv, HostInv, NEW v \in Vms, Sweep(v)
    PROVE  Steps(v)
<1>0. /\ v \in provider.stale /\ At(v, "lost")
      /\ LocalsTyped(vm[v])
    BY DEF Sweep, HostInv, HostOK, Remembered
<1>p. PICK stuck \in SUBSET {r \in {"mount", "rules", "tap"} : v \in held[r]} : Sweep(v)!2!(stuck)
    BY DEF Sweep
<1> DEFINE kept == IF "mount" \in stuck THEN stuck \cup {"jail", "directory"} ELSE stuck
<1>1. held' = [r \in Resources |-> IF r \in kept THEN held[r] ELSE held[r] \ {v}]
    BY <1>p
<1>2. /\ \A w \in Vms \ {v} : vm'[w] = vm[w]
      /\ DOMAIN vm'[v] = DOMAIN vm[v]
      /\ vm'[v].pc = "lost" /\ vm'[v].owner = vm[v].owner /\ vm'[v].network = vm[v].network
      /\ vm'[v].mounted = vm[v].mounted /\ vm'[v].failed = vm[v].failed
      /\ vm'[v].leaked = (vm[v].leaked \/ stuck # {})
    BY <1>0, <1>p DEF NetInv, StateOK, LocalsTyped, Fresh, At
<1>3. provider'.stale \subseteq provider.stale
    BY <1>p DEF NetInv, StateOK
<1>4. provider.reconciliation # "done"
    BY <1>0 DEF NetInv, ReconciledFirst
<1>5. OnlyMoves(v) /\ \A r \in Resources : held'[r] \subseteq Vms
    BY <1>4, <1>1, <1>2, <1>3 DEF OnlyMoves, HostInv
<1>6. LocalsTyped(vm'[v])
    BY <1>0, <1>2 DEF LocalsTyped
<1>7. Owned(v)' /\ Recorded(v)'
    BY <1>2 DEF Owned, Recorded, Provisioning, At
<1>8. Remembered(v)'
    <2>1. CleanedAt(vm'[v].pc) = {}
        BY <1>2, CleanedSoFar DEF Over
    <2> QED
        BY <1>2, <2>1 DEF Remembered, Provisioning, At
<1>9. \A r \in Resources : v \in held'[r] => vm'[v].leaked
    BY <1>1, <1>2
<1>10. SandboxStep(v)
    <2>1. Phase(v) = "lost" /\ Phase(v)' = "lost"
        BY <1>0, <1>2 DEF Phase, At
    <2>2. Holds(v)' => Holds(v)
        BY <1>1, ResourcesAreSteps DEF Holds
    <2>3. vm[v].leaked => vm'[v].leaked
        BY <1>2
    <2> QED
        BY <2>1, <2>2, <2>3 DEF SandboxStep
<1> QED
    BY <1>5, <1>6, <1>7, <1>8, <1>9, <1>10, OneSandboxMoves DEF HostOK, Steps

\* Only directories of sandboxes that are lost are there to be swept.
LEMMA ReconcileKeepsHostInv ==
    ASSUME NetInv, HostInv, ClearLocks \/ Reconciled
    PROVE  HostInv'
<1>0. /\ \A r \in Resources : held[r] \subseteq Vms
      /\ \A w \in Vms : LocalsTyped(vm[w]) /\ Owned(w) /\ Recorded(w) /\ Remembered(w)
    BY DEF HostInv, HostOK
<1>1. provider.reconciliation # "done" /\ vm' = vm /\ held' = held
    BY DEF ClearLocks, Reconciled
<1>2. \A w \in Vms : vm[w].pc \in Waiting
    BY <1>1 DEF NetInv, ReconciledFirst
<1>3. \A w \in held["directory"] : At(w, "lost")
    BY <1>0, <1>1, <1>2, ResourcesAreSteps DEF Waiting, Remembered, HoldsNothing, At
<1>4. \A w \in provider'.stale : At(w, "lost")
    BY <1>3 DEF ClearLocks, Reconciled
<1>5. ASSUME NEW w \in Vms PROVE HostOK(w)'
    <2>1. /\ LocalsTyped(vm[w]) /\ Owned(w) /\ Recorded(w) /\ Remembered(w)
          /\ w \in provider'.stale => At(w, "lost")
        BY <1>0, <1>4
    <2>2. At(w, "rejected") => HoldsNothing(w)
        BY <2>1, <1>1 DEF Remembered
    <2>3. LocalsTyped(vm[w])' /\ Owned(w)' /\ Recorded(w)'
        BY <1>1, <2>1 DEF LocalsTyped, Owned, Recorded, At
    <2>4. Remembered(w)'
        BY <1>1, <2>1, <2>2 DEF Remembered, HoldsNothing, At
    <2> QED
        BY <2>3, <2>4 DEF HostOK
<1>6. LeftoversAreReachable'
    BY <1>1 DEF HostInv, LeftoversAreReachable
<1> QED
    BY <1>0, <1>1, <1>5, <1>6 DEF HostInv

\* A crash leaves what is held on the host to the directories in it.
LEMMA CrashKeepsHostInv ==
    ASSUME NetInv, HostInv, Crash
    PROVE  HostInv'
<1>0. /\ \A r \in Resources : held[r] \subseteq Vms
      /\ \A w \in Vms : LocalsTyped(vm[w]) /\ Owned(w) /\ Recorded(w) /\ Remembered(w)
    BY DEF HostInv, HostOK
<1>1. /\ \A r \in Resources \ {"proxy"} : held'[r] = held[r]
      /\ held'["proxy"] = {} /\ provider'.stale = {}
    BY ResourcesAreSteps DEF Crash, NetInv, StateOK
<1>2. ASSUME NEW w \in Vms PROVE HostOK(w)' /\ vm'[w].leaked = vm[w].leaked
    <2>1. CASE At(w, "idle")
        <3>1. vm'[w] = vm[w]
            BY <2>1 DEF Crash
        <3>2. HoldsNothing(w)'
            BY <1>0, <1>1, <2>1 DEF Remembered, HoldsNothing, At
        <3>3. LocalsTyped(vm[w])' /\ Owned(w)'
            BY <1>0, <3>1 DEF LocalsTyped, Owned
        <3>4. Recorded(w)' /\ Remembered(w)'
            <4>1. CleanedAt(vm'[w].pc) \subseteq Resources
                BY DEF CleanedAt
            <4> QED
                BY <1>1, <2>1, <3>1, <3>2, <4>1, ResourcesAreSteps
                DEF Recorded, Remembered, HoldsNothing, Provisioning, At
        <3> QED
            BY <3>1, <3>3, <3>4 DEF HostOK
    <2>2. CASE ~At(w, "idle")
        <3>1. vm'[w] = [Fresh EXCEPT !.pc = "lost", !.key = vm[w].key, !.index = vm[w].index,
                                     !.leaked = vm[w].leaked]
            BY <2>2 DEF Crash
        <3>2. /\ DOMAIN vm'[w] = DOMAIN Fresh /\ vm'[w].pc = "lost" /\ vm'[w].owner = "provision"
              /\ vm'[w].network = FALSE /\ vm'[w].mounted = FALSE /\ vm'[w].failed = FALSE
              /\ vm'[w].leaked = vm[w].leaked
            BY <3>1 DEF Fresh
        <3>3. LocalsTyped(vm'[w])
            BY <1>0, <3>2 DEF LocalsTyped
        <3>4. Owned(w)' /\ Recorded(w)'
            BY <3>2 DEF Owned, Recorded, Provisioning, At
        <3>5. Remembered(w)'
            <4>1. CleanedAt(vm'[w].pc) = {}
                BY <3>2, CleanedSoFar DEF Over
            <4> QED
                BY <1>1, <3>2, <4>1 DEF Remembered, Provisioning, At
        <3> QED
            BY <3>2, <3>3, <3>4, <3>5 DEF HostOK
    <2> QED
        BY <2>1, <2>2
<1>3. LeftoversAreReachable'
    BY <1>0, <1>1, <1>2, ResourcesAreSteps DEF HostInv, LeftoversAreReachable
<1>4. \A r \in Resources : held'[r] \subseteq Vms
    BY <1>0, <1>1
<1> QED
    BY <1>2, <1>3, <1>4 DEF HostInv

\* Nobody holds anything at first.
LEMMA InitEstablishesHostInv == Init => HostInv
<1> SUFFICES ASSUME Init
             PROVE  HostInv
    OBVIOUS
<1>1. \A r \in Resources : held[r] = {}
    BY DEF Init
<1>2. ASSUME NEW v \in Vms PROVE HostOK(v)
    <2>1. vm[v] = Fresh
        BY DEF Init
    <2>2. LocalsTyped(vm[v]) /\ Owned(v)
        BY <2>1 DEF LocalsTyped, Owned, Fresh
    <2>3. HoldsNothing(v)
        BY <1>1 DEF HoldsNothing
    <2>4. Recorded(v)
        BY <2>3, ResourcesAreSteps DEF Recorded, HoldsNothing
    <2>5. Remembered(v)
        BY <2>1, <2>3 DEF Remembered, HoldsNothing, CleanedAt, Provisioning, Init, Fresh, At
    <2> QED
        BY <2>2, <2>4, <2>5 DEF HostOK
<1> QED
    BY <1>1, <1>2 DEF HostInv, LeftoversAreReachable

\* Every step is one of the process as a whole, or of one sandbox.
LEMMA StepsOfSandboxes ==
    ASSUME NetInv, HostInv, fcNext
    PROVE  \/ ClearLocks \/ Reconciled \/ Crash
           \/ \E v \in Vms : Steps(v)
<1>1. ASSUME NEW v \in Vms, Advance(v) \/ Environment(v) \/ Sweep(v)
      PROVE  Steps(v)
    BY <1>1, WaitingSteps, QuietSteps, TakingSteps, FailingSteps, RuntimeSteps, CleanupSteps,
       SweepSteps
    DEF Advance, Environment
<1> QED
    BY <1>1 DEF fcNext, Reconcile

\* Every step of the provider keeps the invariant.
LEMMA NextKeepsHostInv == NetInv /\ HostInv /\ [fcNext]_fcVars => HostInv'
<1> SUFFICES ASSUME NetInv, HostInv, [fcNext]_fcVars
             PROVE  HostInv'
    OBVIOUS
<1>1. CASE fcNext
    BY <1>1, StepsOfSandboxes, ReconcileKeepsHostInv, CrashKeepsHostInv DEF Steps
<1>2. CASE UNCHANGED fcVars
    BY <1>2 DEF fcVars, HostInv, LeftoversAreReachable, HostOK, LocalsTyped, Owned, Recorded,
                Remembered, HoldsNothing, At
<1> QED
    BY <1>1, <1>2

\* The inductive invariant of what the sandboxes hold.
THEOREM HostInvariant == Spec => []HostInv
<1>1. Init => HostInv
    BY InitEstablishesHostInv
<1>2. NetInv /\ HostInv /\ [fcNext]_fcVars => HostInv'
    BY NextKeepsHostInv
<1> QED
    BY <1>1, <1>2, NetworkInvariant, PTL DEF Spec

\* What a crash leaves is found through the directories, however far each sandbox had come
\* (provisionFirecracker, dispose, reconcile).
THEOREM LeftoversStayReachable == Spec => []LeftoversAreReachable
<1>1. HostInv => LeftoversAreReachable
    BY DEF HostInv
<1> QED
    BY <1>1, HostInvariant, PTL

-----------------------------------------------------------------------------
(* The refinement of SandboxProvider *)

\* A step of one sandbox is a step of the mapped variables at its place.
LEMMA MappedVariables ==
    ASSUME HostInv, HostInv', NEW v \in Vms, OnlyMoves(v)
    PROVE  /\ [w \in Vms |-> Phase(w)]' = [[w \in Vms |-> Phase(w)] EXCEPT ![v] = Phase(v)']
           /\ Holding' = IF Holds(v)' THEN Holding \cup {v} ELSE Holding \ {v}
           /\ Holds(v) <=> v \in Holding
           /\ Excused' = IF vm'[v].leaked THEN Excused \cup {v} ELSE Excused \ {v}
           /\ vm[v].leaked <=> v \in Excused
           /\ [w \in Vms |-> Phase(w)][v] = Phase(v)
<1>1. \A w \in Vms \ {v} : Phase(w)' = Phase(w)
    BY DEF OnlyMoves, Phase, At
<1>2. [w \in Vms |-> Phase(w)]' = [[w \in Vms |-> Phase(w)] EXCEPT ![v] = Phase(v)']
    BY <1>1
<1>3. /\ \A w \in Vms : w \in Holding <=> Holds(w)
      /\ \A w \in Vms : w \in Holding' <=> Holds(w)'
      /\ Holding \subseteq Vms /\ Holding' \subseteq Vms
    BY DEF Holding, Holds, HostInv
<1>4. \A w \in Vms \ {v} : Holds(w)' <=> Holds(w)
    BY DEF Holds, OnlyMoves
<1>5. Holding' = IF Holds(v)' THEN Holding \cup {v} ELSE Holding \ {v}
    BY <1>3, <1>4
<1>6. Excused' = IF vm'[v].leaked THEN Excused \cup {v} ELSE Excused \ {v}
    BY DEF Excused, OnlyMoves
<1>7. vm[v].leaked <=> v \in Excused
    BY DEF Excused
<1> QED
    BY <1>2, <1>3, <1>5, <1>6, <1>7

LEMMA SandboxStepsImplement ==
    ASSUME HostInv, NEW v \in Vms, Steps(v)
    PROVE  [Provider!ProviderNext]_Provider!providerVars
<1>0. HostInv' /\ OnlyMoves(v) /\ SandboxStep(v)
    BY DEF Steps
<1>1. CASE Phase(v) = "lost" /\ Phase(v)' = "lost"
    <2>1. Provider!Sweep(v) \/ UNCHANGED Provider!providerVars
        BY <1>1, MappedVariables DEF Steps, SandboxStep, Provider!providerVars, Provider!Sweep
    <2> QED
        BY <2>1 DEF Provider!ProviderNext
<1>2. CASE /\ Phase(v)' = Phase(v) /\ Holds(v)' = Holds(v) /\ vm'[v].leaked = vm[v].leaked
    <2>1. UNCHANGED Provider!providerVars
        BY <1>0, <1>2, MappedVariables DEF Provider!providerVars
    <2> QED
        BY <2>1
<1>3. CASE /\ Phase(v) = "none" /\ Phase(v)' = "provisioning"
           /\ Holds(v)' = Holds(v) /\ vm'[v].leaked = vm[v].leaked
    <2>1. Provider!Begin(v)
        BY <1>0, <1>3, MappedVariables DEF Provider!Move, Provider!Begin
    <2> QED
        BY <2>1 DEF Provider!ProviderNext
<1>4. CASE /\ Phase(v) = "provisioning" /\ Phase(v)' = Phase(v)
           /\ Holds(v)' /\ vm'[v].leaked = vm[v].leaked
    <2>1. Provider!Take(v)
        BY <1>0, <1>4, MappedVariables DEF Provider!Take
    <2> QED
        BY <2>1 DEF Provider!ProviderNext
<1>5. CASE /\ Phase(v) # "none" /\ Phase(v)' = Phase(v)
           /\ ~Holds(v)' /\ vm'[v].leaked = vm[v].leaked
    <2>1. Provider!GiveBack(v)
        BY <1>0, <1>5, MappedVariables DEF Provider!GiveBack
    <2> QED
        BY <2>1 DEF Provider!ProviderNext
<1>6. CASE /\ Phase(v)' = Phase(v) /\ Holds(v)' = Holds(v) /\ vm'[v].leaked
    <2>1. Provider!Excuse(v)
        BY <1>0, <1>6, MappedVariables DEF Provider!Excuse
    <2> QED
        BY <2>1 DEF Provider!ProviderNext
<1>7. CASE /\ Phase(v) = "provisioning" /\ Phase(v)' = "running"
           /\ Holds(v) /\ Holds(v)' /\ vm'[v].leaked = vm[v].leaked
    <2>1. Provider!Resolve(v)
        BY <1>0, <1>7, MappedVariables DEF Provider!Move, Provider!Resolve
    <2> QED
        BY <2>1 DEF Provider!ProviderNext
<1>8. CASE /\ Phase(v) = "provisioning" /\ Phase(v)' = "rejected"
           /\ vm[v].leaked \/ Holds(v)' => vm'[v].leaked
    <2>1. Provider!Reject(v)
        <3>1. Provider!Move(v, "provisioning", "rejected")
            BY <1>0, <1>8, MappedVariables DEF Provider!Move
        <3>2. Excused' \in {Excused, Excused \cup {v}}
            BY <1>0, <1>8, MappedVariables
        <3>3. Holding' \in {Holding, Holding \ {v}, Holding \cup {v}}
            BY <1>0, MappedVariables
        <3>4. v \in Holding' => v \in Excused'
            BY <1>0, <1>8, MappedVariables
        <3> QED
            BY <3>1, <3>2, <3>3, <3>4 DEF Provider!Reject
    <2> QED
        BY <2>1 DEF Provider!ProviderNext
<1>9. CASE /\ Phase(v) = "running" /\ Phase(v)' = "disposed"
           /\ ~Holds(v)' /\ vm'[v].leaked = vm[v].leaked
    <2>1. Provider!Disposed(v)
        BY <1>0, <1>9, MappedVariables DEF Provider!Move, Provider!Disposed
    <2> QED
        BY <2>1 DEF Provider!ProviderNext
<1> QED
    BY <1>0, <1>1, <1>2, <1>3, <1>4, <1>5, <1>6, <1>7, <1>8, <1>9 DEF SandboxStep

\* A crash loses whoever is under way, and gives nothing back.
LEMMA CrashImplements ==
    ASSUME NetInv, HostInv, Crash
    PROVE  Provider!Crash
<1>1. [v \in Vms |-> Phase(v)]' =
          [v \in Vms |-> IF [w \in Vms |-> Phase(w)][v] = "none" THEN "none" ELSE "lost"]
    <2>1. ASSUME NEW v \in Vms
          PROVE  Phase(v)' = IF Phase(v) = "none" THEN "none" ELSE "lost"
        <3>1. CASE At(v, "idle")
            BY <3>1 DEF Crash, Phase, At
        <3>2. CASE ~At(v, "idle")
            <4>1. vm'[v].pc = "lost"
                BY <3>2 DEF Crash, Fresh
            <4> QED
                BY <3>2, <4>1 DEF Phase, At
        <3> QED
            BY <3>1, <3>2
    <2> QED
        BY <2>1
<1>2. Holding' = Holding
    BY ResourcesAreSteps DEF Crash, Holding, NetInv, StateOK
<1>3. Excused' = Excused
    <2>1. \A v \in Vms : vm'[v].leaked = vm[v].leaked
        BY DEF Crash, Fresh
    <2> QED
        BY <2>1 DEF Excused
<1> QED
    BY <1>1, <1>2, <1>3 DEF Provider!Crash

\* Firecracker implements the provider of packages/sandbox, crashes and reconciliations
\* included: provisioning leaves a running sandbox or nothing, a disposal that resolves leaves
\* nothing, and what a crash leaves is swept (provisionFirecracker, dispose, reconcile).
THEOREM FirecrackerImplementsProvider == Spec => ProviderImplemented
<1>1. Init => Provider!ProviderInit
    BY DEF Init, Fresh, Provider!ProviderInit, Phase, Holding, Excused, At
<1>2. ASSUME NetInv, HostInv, [fcNext]_fcVars
      PROVE  [Provider!ProviderNext]_Provider!providerVars
    <2>1. CASE UNCHANGED fcVars \/ ClearLocks \/ Reconciled
        BY <2>1
        DEF fcVars, ClearLocks, Reconciled, Provider!providerVars, Phase, Holding, Excused, At
    <2>2. CASE Crash
        BY <1>2, <2>2, CrashImplements DEF Provider!ProviderNext
    <2>3. ASSUME NEW v \in Vms, Steps(v)
          PROVE  [Provider!ProviderNext]_Provider!providerVars
        BY <1>2, <2>3, SandboxStepsImplement
    <2> QED
        BY <1>2, <2>1, <2>2, <2>3, StepsOfSandboxes
<1> QED
    BY <1>1, <1>2, NetworkInvariant, HostInvariant, PTL
    DEF Spec, ProviderImplemented, Provider!ProviderSpec

-----------------------------------------------------------------------------
(* Eviction *)

\* Sandboxes that have not marked an image, and those that are evicting others.
Unmarked ==
    {"idle", "awaiting", "keys", "image", "pull", "key", "convert", "metadata", "reference", "lru"}
EvictionSteps == {"list", "evict", "evictMetadata"}

\* One sandbox at a time evicts, under the lock that a mark needs.
EvictionIsLocked ==
    /\ \A v \in Vms : vm[v].pc \in EvictionSteps => "lru" \in locks
    /\ \A v, w \in Vms : vm[v].pc \in EvictionSteps /\ vm[w].pc \in EvictionSteps => v = w

\* The key of a marked image is final, and the image that is being evicted has no users.
MarksAreFinal == \A v \in held["marker"] : vm[v].pc \notin Unmarked
EvictedIsUnused ==
    \A v \in Vms : At(v, "evictMetadata") => Users(Head(vm[v].victims)) = {}

CacheOK ==
    /\ {"disks", "metadata"} \subseteq DOMAIN cache
    /\ cache.disks \in Seq(Keys \cup {None})

ImagesInv == CacheOK /\ EvictionIsLocked /\ MarksAreFinal /\ EvictedIsUnused /\ UsedImagesStay

\* A removal takes one disk away, and a disk that is appended is there.
LEMMA DisksAfterRemoval ==
    ASSUME NEW S, NEW seq \in Seq(S), NEW e
    PROVE  /\ RemoveFirst(seq, e) \in Seq(S)
           /\ ToSet(seq) \ {e} \subseteq ToSet(RemoveFirst(seq, e))
<1>1. RemoveFirst(seq, e) \in Seq(S)
    BY RemoveFirstProperties
<1>2. \A j \in 1..Len(seq) : seq[j] # e =>
          \E i \in 1..Len(RemoveFirst(seq, e)) : RemoveFirst(seq, e)[i] = seq[j]
    BY RemoveFirstProperties
<1> QED
    BY <1>1, <1>2 DEF ToSet

LEMMA DisksAfterUse ==
    ASSUME NEW S, NEW seq \in Seq(S), NEW e \in S
    PROVE  /\ Append(RemoveFirst(seq, e), e) \in Seq(S)
           /\ ToSet(seq) \cup {e} \subseteq ToSet(Append(RemoveFirst(seq, e), e))
<1> DEFINE rest == RemoveFirst(seq, e)
<1>1. rest \in Seq(S) /\ ToSet(seq) \ {e} \subseteq ToSet(rest)
    BY DisksAfterRemoval
<1> HIDE DEF rest
<1>2. ToSet(Append(rest, e)) = ToSet(rest) \cup {e}
    <2>1. Len(Append(rest, e)) = Len(rest) + 1 /\ Len(rest) \in Nat
        BY <1>1
    <2>2. /\ \A i \in 1..Len(rest) : Append(rest, e)[i] = rest[i]
          /\ Append(rest, e)[Len(rest) + 1] = e
        BY <1>1
    <2>3. DOMAIN Append(rest, e) = 1..(Len(rest) + 1) /\ DOMAIN rest = 1..Len(rest)
        BY <1>1, <2>1
    <2> QED
        BY <2>1, <2>2, <2>3 DEF ToSet
<1>3. Append(rest, e) \in Seq(S)
    BY <1>1
<1> QED
    BY <1>1, <1>2, <1>3 DEF rest

\* A step that leaves the images alone, marks nothing and does not go on evicting.
LEMMA QuietForImages ==
    ASSUME NetInv, HostInv, ImagesInv, NEW v \in Vms,
           DOMAIN cache' = DOMAIN cache,
           cache'.disks = cache.disks, cache'.metadata = cache.metadata,
           held'["marker"] \subseteq held["marker"],
           \A w \in Vms \ {v} : vm'[w] = vm[w],
           vm'[v].pc \in EvictionSteps => vm'[v].pc = vm[v].pc /\ vm'[v].victims = vm[v].victims,
           vm'[v].pc \in Unmarked => vm[v].pc \in Unmarked,
           vm[v].pc \notin Unmarked => vm'[v].key = vm[v].key,
           vm'[v].pc # "lost" => vm[v].pc # "lost",
           "lru" \in locks => \/ "lru" \in locks'
                              \/ vm[v].pc \in EvictionSteps /\ vm'[v].pc \notin EvictionSteps
    PROVE  ImagesInv'
<1>0. held["marker"] \subseteq Vms
    BY ResourcesAreSteps DEF HostInv
<1>1. CacheOK'
    BY DEF ImagesInv, CacheOK
<1>2. EvictionIsLocked'
    BY DEF ImagesInv, EvictionIsLocked
<1>3. MarksAreFinal'
    BY <1>0 DEF ImagesInv, MarksAreFinal
<1>4. \A w \in held'["marker"] : w \in held["marker"] /\ vm'[w].key = vm[w].key
    BY <1>0 DEF ImagesInv, MarksAreFinal
<1>5. EvictedIsUnused'
    <2> SUFFICES ASSUME NEW w \in Vms, At(w, "evictMetadata")'
                 PROVE  Users(Head(vm[w].victims))' = {}
        BY DEF EvictedIsUnused
    <2>1. At(w, "evictMetadata") /\ vm'[w].victims = vm[w].victims
        BY DEF At, EvictionSteps
    <2> QED
        BY <1>4, <2>1 DEF ImagesInv, EvictedIsUnused, Users
<1>6. UsedImagesStay'
    BY <1>0, <1>4 DEF ImagesInv, UsedImagesStay, Present, At
<1> QED
    BY <1>1, <1>2, <1>3, <1>5, <1>6 DEF ImagesInv

\* What neither writes nor evicts an image nor marks one.
LEMMA QuietKeepsImages ==
    ASSUME NetInv, HostInv, ImagesInv, NEW v \in Vms,
           \/ Provision(v)
           \/ Refused(v)
           \/ MakeDirectory(v)
           \/ GenerateKeys(v)
           \/ UseReference(v)
           \/ Pull(v)
           \/ LockKey(v)
           \/ WriteReference(v)
           \/ Missing(v)
           \/ CacheFull(v)
           \/ Activated(v)
           \/ ImageFails(v)
           \/ Allocate(v)
           \/ Exhausted(v)
           \/ RecordNetwork(v)
           \/ AddTap(v)
           \/ AddRules(v)
           \/ NetworkFails(v)
           \/ CreateDisk(v)
           \/ Launch(v)
           \/ MountBase(v)
           \/ MountFails(v)
           \/ Configure(v)
           \/ Expose(v)
           \/ BootFails(v)
           \/ VmExits(v)
           \/ UserConnects(v)
           \/ UserLeaves(v)
           \/ Dispose(v)
           \/ RetryDispose(v)
           \/ Sweep(v)
    PROVE  ImagesInv'
<1>1. CASE Provision(v)
    BY <1>1, QuietForImages, ResourcesAreSteps, LocksAreApart
    DEF NetInv, StateOK, LocalsOK, EvictionSteps, Unmarked, At, Goto, Provision
<1>2. CASE Refused(v)
    BY <1>2, QuietForImages, ResourcesAreSteps, LocksAreApart
    DEF NetInv, StateOK, LocalsOK, EvictionSteps, Unmarked, At, Goto, Refused
<1>3. CASE MakeDirectory(v)
    BY <1>3, QuietForImages, ResourcesAreSteps, LocksAreApart
    DEF NetInv, StateOK, LocalsOK, EvictionSteps, Unmarked, At, Goto, Hold, MakeDirectory
<1>4. CASE GenerateKeys(v)
    BY <1>4, QuietForImages, ResourcesAreSteps, LocksAreApart
    DEF NetInv, StateOK, LocalsOK, EvictionSteps, Unmarked, At, Goto, GenerateKeys
<1>5. CASE UseReference(v)
    BY <1>5, QuietForImages, ResourcesAreSteps, LocksAreApart
    DEF NetInv, StateOK, LocalsOK, EvictionSteps, Unmarked, At, UseReference
<1>6. CASE Pull(v)
    <2> PICK key \in Keys : vm' = [vm EXCEPT ![v].pc = "key", ![v].key = key, ![v].cached = FALSE]
        BY <1>6 DEF Pull
    <2> QED
        BY <1>6, QuietForImages, ResourcesAreSteps, LocksAreApart
        DEF NetInv, StateOK, LocalsOK, EvictionSteps, Unmarked, At, Pull
<1>7. CASE LockKey(v)
    BY <1>7, QuietForImages, ResourcesAreSteps, LocksAreApart
    DEF NetInv, StateOK, LocalsOK, EvictionSteps, Unmarked, At, Goto, Lock, LockKey
<1>8. CASE WriteReference(v)
    <2>1. /\ DOMAIN cache' = DOMAIN cache
          /\ cache'.disks = cache.disks /\ cache'.metadata = cache.metadata
        BY <1>8 DEF WriteReference, ImagesInv, CacheOK
    <2> QED
        BY <1>8, <2>1, QuietForImages
        DEF WriteReference, NetInv, StateOK, LocalsOK, EvictionSteps, Unmarked, At, Goto
<1>9. CASE Missing(v)
    BY <1>9, QuietForImages, ResourcesAreSteps, LocksAreApart
    DEF NetInv, StateOK, LocalsOK, EvictionSteps, Unmarked, At, Goto, Unlocked, Missing
<1>10. CASE CacheFull(v)
    BY <1>10, QuietForImages, ResourcesAreSteps, LocksAreApart
    DEF NetInv, StateOK, LocalsOK, EvictionSteps, Unmarked, At, Goto, Unlocked, Evicting,
        CacheFull
<1>11. CASE Activated(v)
    BY <1>11, QuietForImages, ResourcesAreSteps, LocksAreApart
    DEF NetInv, StateOK, LocalsOK, EvictionSteps, Unmarked, At, Unlocked, Activated
<1>12. CASE ImageFails(v)
    BY <1>12, QuietForImages, ResourcesAreSteps, LocksAreApart
    DEF NetInv, StateOK, LocalsOK, EvictionSteps, Unmarked, Goto, Fault, ImageFails
<1>13. CASE Allocate(v)
    <2> PICK i : vm' = [vm EXCEPT ![v].pc = "record", ![v].index = i]
        BY <1>13 DEF Allocate
    <2> QED
        BY <1>13, QuietForImages, ResourcesAreSteps, LocksAreApart
        DEF NetInv, StateOK, LocalsOK, EvictionSteps, Unmarked, At, Lock, Allocate
<1>14. CASE Exhausted(v)
    BY <1>14, QuietForImages, ResourcesAreSteps, LocksAreApart
    DEF NetInv, StateOK, LocalsOK, EvictionSteps, Unmarked, At, Goto, Exhausted
<1>15. CASE RecordNetwork(v)
    BY <1>15, QuietForImages, ResourcesAreSteps, LocksAreApart
    DEF NetInv, StateOK, LocalsOK, EvictionSteps, Unmarked, At, Goto, Hold, RecordNetwork
<1>16. CASE AddTap(v)
    BY <1>16, QuietForImages, ResourcesAreSteps, LocksAreApart
    DEF NetInv, StateOK, LocalsOK, EvictionSteps, Unmarked, At, Goto, Hold, AddTap
<1>17. CASE AddRules(v)
    BY <1>17, QuietForImages, ResourcesAreSteps, LocksAreApart
    DEF NetInv, StateOK, LocalsOK, EvictionSteps, Unmarked, At, Hold, AddRules
<1>18. CASE NetworkFails(v)
    <2> PICK stuck \in SUBSET {r \in {"tap"} : v \in held[r]} : NetworkFails(v)!2!(stuck)
        BY <1>18 DEF NetworkFails
    <2> QED
        BY <1>18, QuietForImages, ResourcesAreSteps, LocksAreApart
        DEF NetInv, StateOK, LocalsOK, EvictionSteps, Unmarked, At, NetworkFails
<1>19. CASE CreateDisk(v)
    BY <1>19, QuietForImages, ResourcesAreSteps, LocksAreApart
    DEF NetInv, StateOK, LocalsOK, EvictionSteps, Unmarked, At, Goto, CreateDisk
<1>20. CASE Launch(v)
    BY <1>20, QuietForImages, ResourcesAreSteps, LocksAreApart
    DEF NetInv, StateOK, LocalsOK, EvictionSteps, Unmarked, At, Launch
<1>21. CASE MountBase(v)
    BY <1>21, QuietForImages, ResourcesAreSteps, LocksAreApart
    DEF NetInv, StateOK, LocalsOK, EvictionSteps, Unmarked, At, Hold, MountBase
<1>22. CASE MountFails(v)
    <2> PICK stuck \in BOOLEAN : MountFails(v)!2!(stuck)
        BY <1>22 DEF MountFails
    <2> QED
        BY <1>22, QuietForImages, ResourcesAreSteps, LocksAreApart
        DEF NetInv, StateOK, LocalsOK, EvictionSteps, Unmarked, At, MountFails
<1>23. CASE Configure(v)
    BY <1>23, QuietForImages, ResourcesAreSteps, LocksAreApart
    DEF NetInv, StateOK, LocalsOK, EvictionSteps, Unmarked, At, Goto, Configure
<1>24. CASE Expose(v)
    BY <1>24, QuietForImages, ResourcesAreSteps, LocksAreApart
    DEF NetInv, StateOK, LocalsOK, EvictionSteps, Unmarked, At, Goto, Hold, Expose
<1>25. CASE BootFails(v)
    BY <1>25, QuietForImages, ResourcesAreSteps, LocksAreApart
    DEF NetInv, StateOK, LocalsOK, EvictionSteps, Unmarked, Goto, Fault, BootFails
<1>26. CASE VmExits(v)
    <2> PICK how \in Exits : vm' = [vm EXCEPT ![v].child = how]
        BY <1>26 DEF VmExits
    <2> QED
        BY <1>26, QuietForImages, ResourcesAreSteps, LocksAreApart
        DEF NetInv, StateOK, LocalsOK, EvictionSteps, Unmarked, Fault, VmExits
<1>27. CASE UserConnects(v)
    BY <1>27, QuietForImages, ResourcesAreSteps, LocksAreApart
    DEF NetInv, StateOK, LocalsOK, EvictionSteps, Unmarked, At, UserConnects
<1>28. CASE UserLeaves(v)
    BY <1>28, QuietForImages, ResourcesAreSteps, LocksAreApart
    DEF NetInv, StateOK, LocalsOK, EvictionSteps, Unmarked, UserLeaves
<1>29. CASE Dispose(v)
    BY <1>29, QuietForImages, ResourcesAreSteps, LocksAreApart
    DEF NetInv, StateOK, LocalsOK, EvictionSteps, Unmarked, At, Dispose
<1>30. CASE RetryDispose(v)
    BY <1>30, QuietForImages, ResourcesAreSteps, LocksAreApart
    DEF NetInv, StateOK, LocalsOK, EvictionSteps, Unmarked, At, RetryDispose
<1>31. CASE Sweep(v)
    <2> PICK stuck \in SUBSET {r \in {"mount", "rules", "tap"} : v \in held[r]} : Sweep(v)!2!(stuck)
        BY <1>31 DEF Sweep
    <2> QED
        BY <1>31, QuietForImages, ResourcesAreSteps, LocksAreApart
        DEF NetInv, StateOK, LocalsOK, EvictionSteps, Unmarked, Sweep, HostInv, HostOK,
            Remembered
<1> QED
    BY <1>1, <1>2, <1>3, <1>4, <1>5, <1>6, <1>7, <1>8, <1>9, <1>10, <1>11, <1>12, <1>13, <1>14,
        <1>15, <1>16, <1>17, <1>18, <1>19, <1>20, <1>21, <1>22, <1>23, <1>24, <1>25, <1>26, <1>27,
        <1>28, <1>29, <1>30, <1>31

\* dispose gives markers back, and nothing else of the cache.
LEMMA CleanupKeepsImages ==
    ASSUME NetInv, HostInv, ImagesInv, NEW v \in Vms, CleanUp(v) \/ CleanUpFails(v)
    PROVE  ImagesInv'
<1>1. \A r \in Resources : \A failed : After(v, r, failed) \notin Unmarked \cup EvictionSteps
    BY AfterLeadsOn DEF Unmarked, EvictionSteps, Early
<1>2. CASE CleanUp(v)
    <2> PICK r \in Resources : CleanUp(v)!(r)
        BY <1>2 DEF CleanUp
    <2>1. /\ vm[v].pc = r /\ vm'[v].pc = After(v, r, vm[v].failed)
          /\ \A w \in Vms \ {v} : vm'[w] = vm[w]
          /\ vm'[v].key = vm[v].key
        BY DEF NetInv, StateOK, LocalsOK, At
    <2>2. held'["marker"] \subseteq held["marker"] /\ cache' = cache /\ locks' = locks
        BY ResourcesAreSteps DEF NetInv, StateOK
    <2>3. vm'[v].pc \notin Unmarked \cup EvictionSteps
        BY <1>1, <2>1
    <2>4. vm[v].pc # "lost"
        BY <2>1, ResourcesAreSteps
    <2> QED
        BY <2>1, <2>2, <2>3, <2>4, QuietForImages
<1>3. CASE CleanUpFails(v)
    <2> PICK r \in Resources \ {"process"} : CleanUpFails(v)!(r)
        BY <1>3 DEF CleanUpFails
    <2>1. /\ vm[v].pc = r /\ vm'[v].pc = After(v, r, TRUE)
          /\ \A w \in Vms \ {v} : vm'[w] = vm[w]
          /\ vm'[v].key = vm[v].key
        BY DEF NetInv, StateOK, LocalsOK, At
    <2>2. held' = held /\ cache' = cache /\ locks' = locks
        OBVIOUS
    <2>3. vm'[v].pc \notin Unmarked \cup EvictionSteps
        BY <1>1, <2>1, Zenon
    <2>4. vm[v].pc # "lost"
        BY <2>1, ResourcesAreSteps
    <2> QED
        BY <2>1, <2>2, <2>3, <2>4, QuietForImages
<1> QED
    BY <1>2, <1>3

\* The disk and its metadata are written, and only more images are present then.
LEMMA WritesKeepImages ==
    ASSUME NetInv, HostInv, ImagesInv, NEW v \in Vms, Convert(v) \/ WriteMetadata(v)
    PROVE  ImagesInv'
<1>0. held["marker"] \subseteq Vms
    BY ResourcesAreSteps DEF HostInv
<1>1. /\ held' = held /\ locks' = locks
      /\ \A w \in Vms : vm'[w].key = vm[w].key
      /\ \A w \in Vms \ {v} : vm'[w] = vm[w]
      /\ vm[v].pc \in {"convert", "metadata"} /\ vm'[v].pc \in {"metadata", "reference"}
    BY DEF Convert, WriteMetadata, NetInv, StateOK, LocalsOK, At, Goto
<1>2. /\ CacheOK'
      /\ ToSet(cache.disks) \subseteq ToSet(cache'.disks)
      /\ cache.metadata \subseteq cache'.metadata
    <2>1. CASE Convert(v)
        <3>1. vm[v].key \in Keys \cup {None} /\ cache.disks \in Seq(Keys \cup {None})
            BY DEF NetInv, StateOK, LocalsOK, ImagesInv, CacheOK
        <3>2. /\ cache'.disks = Append(RemoveFirst(cache.disks, vm[v].key), vm[v].key)
              /\ cache'.metadata = cache.metadata
              /\ DOMAIN cache' = DOMAIN cache
            BY <2>1 DEF Convert, ImagesInv, CacheOK
        <3> QED
            BY <3>1, <3>2, DisksAfterUse DEF ImagesInv, CacheOK
    <2>2. CASE WriteMetadata(v)
        BY <2>2 DEF WriteMetadata, ImagesInv, CacheOK
    <2> QED
        BY <2>1, <2>2
<1>3. EvictionIsLocked' /\ MarksAreFinal'
    BY <1>0, <1>1 DEF ImagesInv, EvictionIsLocked, MarksAreFinal, EvictionSteps, Unmarked
<1>4. EvictedIsUnused'
    BY <1>0, <1>1 DEF ImagesInv, EvictedIsUnused, Users, At
<1>5. UsedImagesStay'
    BY <1>0, <1>1, <1>2 DEF ImagesInv, UsedImagesStay, Present, At
<1> QED
    BY <1>2, <1>3, <1>4, <1>5 DEF ImagesInv

\* A mark is set under the lock, on an image that is present: nobody is evicting it.
LEMMA MarkKeepsImages ==
    ASSUME NetInv, HostInv, ImagesInv, NEW v \in Vms, Mark(v)
    PROVE  ImagesInv'
<1>0. held["marker"] \subseteq Vms
    BY ResourcesAreSteps DEF HostInv
<1>1. /\ \A w \in Vms : vm'[w].key = vm[w].key
      /\ \A w \in Vms \ {v} : vm'[w] = vm[w]
      /\ vm[v].pc = "lru" /\ vm'[v].pc = "list"
      /\ Present(vm[v].key)
      /\ "lru" \notin locks /\ "lru" \in locks'
      /\ held'["marker"] = held["marker"] \cup {v}
    BY ResourcesAreSteps DEF Mark, Lock, Hold, NetInv, StateOK, LocalsOK, At, Goto
<1>2. /\ CacheOK'
      /\ ToSet(cache.disks) \subseteq ToSet(cache'.disks)
      /\ cache'.metadata = cache.metadata
    <2>1. vm[v].key \in Keys \cup {None} /\ cache.disks \in Seq(Keys \cup {None})
        BY DEF NetInv, StateOK, LocalsOK, ImagesInv, CacheOK
    <2>2. /\ cache'.disks = Append(RemoveFirst(cache.disks, vm[v].key), vm[v].key)
          /\ cache'.metadata = cache.metadata
          /\ DOMAIN cache' = DOMAIN cache
        BY DEF Mark, ImagesInv, CacheOK
    <2> QED
        BY <2>1, <2>2, DisksAfterUse DEF ImagesInv, CacheOK
<1>3. \A w \in Vms : vm[w].pc \notin EvictionSteps
    BY <1>1 DEF ImagesInv, EvictionIsLocked
<1>4. EvictionIsLocked' /\ MarksAreFinal' /\ EvictedIsUnused'
    BY <1>0, <1>1, <1>3
    DEF ImagesInv, EvictionIsLocked, MarksAreFinal, EvictedIsUnused, EvictionSteps, Unmarked, At
<1>5. UsedImagesStay'
    BY <1>0, <1>1, <1>2 DEF ImagesInv, UsedImagesStay, Present, At
<1> QED
    BY <1>2, <1>4, <1>5 DEF ImagesInv

\* The disk of an image without users goes, then its metadata, while nobody can mark it.
LEMMA EvictionKeepsImages ==
    ASSUME NetInv, HostInv, ImagesInv, NEW v \in Vms,
           ListDisks(v) \/ SkipUsed(v) \/ EvictDisk(v) \/ EvictMetadata(v)
    PROVE  ImagesInv'
<1>0. held["marker"] \subseteq Vms
    BY ResourcesAreSteps DEF HostInv
<1>1. /\ held' = held /\ locks' = locks
      /\ vm[v].pc \in EvictionSteps /\ vm'[v].pc \in EvictionSteps
      /\ vm'[v].key = vm[v].key
      /\ \A w \in Vms \ {v} : vm'[w] = vm[w]
    <2>1. CASE ListDisks(v)
        BY <2>1 DEF ListDisks, EvictionSteps, NetInv, StateOK, LocalsOK, At
    <2>2. CASE SkipUsed(v)
        BY <2>2 DEF SkipUsed, Evicting, EvictionSteps, NetInv, StateOK, LocalsOK, At
    <2>3. CASE EvictDisk(v)
        <3>1. /\ vm[v].pc = "evict" /\ vm' = [vm EXCEPT ![v].pc = "evictMetadata"]
              /\ UNCHANGED <<held, locks>>
            BY <2>3 DEF EvictDisk, Evicting, At, Goto
        <3> QED
            BY <3>1 DEF EvictionSteps, NetInv, StateOK, LocalsOK
    <2>4. CASE EvictMetadata(v)
        BY <2>4 DEF EvictMetadata, EvictionSteps, NetInv, StateOK, LocalsOK, At
    <2> QED
        BY <2>1, <2>2, <2>3, <2>4
<1>2. EvictionIsLocked' /\ MarksAreFinal'
    BY <1>0, <1>1 DEF ImagesInv, EvictionIsLocked, MarksAreFinal, EvictionSteps, Unmarked
<1>3. \A w \in Vms \ {v} : ~At(w, "evictMetadata")'
    BY <1>1 DEF ImagesInv, EvictionIsLocked, EvictionSteps, At
<1>4. \A w \in Vms : vm'[w].key = vm[w].key /\ vm'[w].pc # "lost" => vm[w].pc # "lost"
    BY <1>1 DEF EvictionSteps
<1>5. CASE ListDisks(v) \/ SkipUsed(v)
    <2>1. cache' = cache /\ vm'[v].pc = "evict"
        BY <1>5 DEF ListDisks, SkipUsed, Evicting, NetInv, StateOK, LocalsOK, At
    <2>2. EvictedIsUnused'
        BY <1>3, <2>1 DEF EvictedIsUnused, At
    <2>3. CacheOK'
        BY <2>1 DEF ImagesInv, CacheOK
    <2>4. UsedImagesStay'
        BY <1>0, <1>1, <1>4, <2>1 DEF ImagesInv, UsedImagesStay, Present, At, EvictionSteps
    <2> QED
        BY <1>2, <2>2, <2>3, <2>4 DEF ImagesInv
<1>6. CASE EvictDisk(v)
    <2> DEFINE victim == Head(vm[v].victims)
    <2>1. /\ vm'[v].pc = "evictMetadata" /\ vm'[v].victims = vm[v].victims
          /\ Users(victim) = {}
          /\ cache' = [cache EXCEPT !.disks = RemoveFirst(@, victim)]
        BY <1>6 DEF EvictDisk, Evicting, NetInv, StateOK, LocalsOK, At, Goto
    <2> HIDE DEF victim
    <2>2. /\ CacheOK'
          /\ ToSet(cache.disks) \ {victim} \subseteq ToSet(cache'.disks)
          /\ cache'.metadata = cache.metadata
        BY <2>1, DisksAfterRemoval DEF ImagesInv, CacheOK
    <2>3. \A w \in held["marker"] : vm[w].key # victim
        BY <2>1 DEF Users
    <2>4. EvictedIsUnused'
        BY <1>0, <1>1, <1>3, <1>4, <2>1, <2>3 DEF EvictedIsUnused, Users, At, victim
    <2>5. UsedImagesStay'
        BY <1>0, <1>1, <1>4, <2>2, <2>3 DEF ImagesInv, UsedImagesStay, Present, At
    <2> QED
        BY <1>2, <2>2, <2>4, <2>5 DEF ImagesInv
<1>7. CASE EvictMetadata(v)
    <2> DEFINE victim == Head(vm[v].victims)
    <2>1. /\ At(v, "evictMetadata") /\ vm'[v].pc = "evict"
          /\ cache' = [cache EXCEPT !.metadata = @ \ {victim}]
        BY <1>7 DEF EvictMetadata, NetInv, StateOK, LocalsOK, At
    <2>2. Users(victim) = {}
        BY <2>1 DEF ImagesInv, EvictedIsUnused
    <2> HIDE DEF victim
    <2>3. /\ CacheOK' /\ cache'.disks = cache.disks
          /\ cache'.metadata = cache.metadata \ {victim}
        BY <2>1 DEF ImagesInv, CacheOK
    <2>4. \A w \in held["marker"] : vm[w].key # victim
        BY <2>2 DEF Users
    <2>5. EvictedIsUnused'
        BY <1>3, <2>1 DEF EvictedIsUnused, At
    <2>6. UsedImagesStay'
        BY <1>0, <1>1, <1>4, <2>3, <2>4 DEF ImagesInv, UsedImagesStay, Present, At
    <2> QED
        BY <1>2, <2>3, <2>5, <2>6 DEF ImagesInv
<1> QED
    BY <1>5, <1>6, <1>7

\* A crash and what follows it: nobody evicts, and the markers stay.
LEMMA RestartKeepsImages ==
    ASSUME NetInv, HostInv, ImagesInv, ClearLocks \/ Reconciled \/ Crash
    PROVE  ImagesInv'
<1>0. held["marker"] \subseteq Vms
    BY ResourcesAreSteps DEF HostInv
<1>1. CASE ClearLocks \/ Reconciled
    <2>1. vm' = vm /\ held' = held /\ cache' = cache /\ provider.reconciliation # "done"
        BY <1>1 DEF ClearLocks, Reconciled
    <2>2. \A w \in Vms : vm[w].pc \notin EvictionSteps
        BY <2>1 DEF NetInv, ReconciledFirst, Waiting, EvictionSteps
    <2> QED
        BY <1>0, <2>1, <2>2
        DEF ImagesInv, CacheOK, EvictionIsLocked, MarksAreFinal, EvictedIsUnused, UsedImagesStay,
            Users, Present, EvictionSteps, At
<1>2. CASE Crash
    <2>1. /\ cache' = cache /\ held'["marker"] = held["marker"]
          /\ \A w \in Vms : \/ vm[w].pc = "idle" /\ vm'[w] = vm[w]
                            \/ vm[w].pc # "idle" /\ vm'[w].pc = "lost"
        BY <1>2, ResourcesAreSteps DEF Crash, Fresh, At, NetInv, StateOK
    <2>2. \A w \in held["marker"] : vm[w].pc # "idle"
        BY <1>0 DEF ImagesInv, MarksAreFinal, Unmarked
    <2> QED
        BY <1>0, <2>1, <2>2
        DEF ImagesInv, CacheOK, EvictionIsLocked, MarksAreFinal, EvictedIsUnused, UsedImagesStay,
            EvictionSteps, Unmarked, At
<1> QED
    BY <1>1, <1>2

\* Every step of the provider keeps the invariant.
LEMMA NextKeepsImages == NetInv /\ HostInv /\ ImagesInv /\ [fcNext]_fcVars => ImagesInv'
<1> SUFFICES ASSUME NetInv, HostInv, ImagesInv, [fcNext]_fcVars
             PROVE  ImagesInv'
    OBVIOUS
<1>1. ASSUME NEW v \in Vms, Advance(v) \/ Environment(v) \/ Sweep(v)
      PROVE  ImagesInv'
    BY <1>1, QuietKeepsImages, CleanupKeepsImages, WritesKeepImages, MarkKeepsImages,
       EvictionKeepsImages
    DEF Advance, Environment
<1>2. CASE UNCHANGED fcVars
    BY <1>2 DEF fcVars, ImagesInv, CacheOK, EvictionIsLocked, MarksAreFinal, EvictedIsUnused,
                UsedImagesStay, Users, Present, At
<1> QED
    BY <1>1, <1>2, RestartKeepsImages DEF fcNext, Reconcile

\* The inductive invariant of the image cache.
THEOREM ImagesInvariant == Spec => []ImagesInv
<1>1. Init => ImagesInv
    BY ResourcesAreSteps
    DEF Init, Fresh, ImagesInv, CacheOK, EvictionIsLocked, MarksAreFinal, EvictedIsUnused,
        UsedImagesStay, EvictionSteps, Unmarked, At
<1>2. NetInv /\ HostInv /\ ImagesInv /\ [fcNext]_fcVars => ImagesInv'
    BY NextKeepsImages
<1> QED
    BY <1>1, <1>2, NetworkInvariant, HostInvariant, PTL DEF Spec

\* The image of a sandbox that lives is never evicted, whoever evicts and whatever crashed
\* before (activateImage, evict).
THEOREM ImagesInUseStay == Spec => []UsedImagesStay
<1>1. ImagesInv => UsedImagesStay
    BY DEF ImagesInv
<1> QED
    BY <1>1, ImagesInvariant, PTL
=============================================================================
