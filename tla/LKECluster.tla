------------------------------ MODULE LKECluster ------------------------------
(***************************************************************************)
(* linode_lke_cluster and its nested node pools (linode/lke/resource.go,   *)
(* cluster.go).  The state's pools are matched with the API's by ID, then  *)
(* by their attributes, and an update compares the state's pools with the  *)
(* configured ones position by position.  Pools of linode_lke_node_pool    *)
(* resources live in the same cluster.                                     *)
(***************************************************************************)
EXTENDS Naturals, Sequences, SequencesExt, FiniteSets, Functions

CONSTANTS
    Specs,              \* pools a configuration can declare; count stands for
                        \* everything that can be updated in place
    MaxPools,           \* bound: pools of a configuration
    Disappear,          \* pools and clusters are deleted outside of Terraform
    MaxEdits,           \* bound: changes of the configuration or behind its back
    MaxFailures         \* bound: calls that fail or waits that time out

ASSUME LKEClusterAssumption ==
    /\ \A spec \in Specs : spec = [type |-> spec.type, count |-> spec.count]
    /\ \A spec \in Specs : spec.count \in Nat \ {0}
    /\ Disappear \in BOOLEAN
    /\ MaxPools \in Nat \ {0}
    /\ MaxEdits \in Nat /\ MaxFailures \in Nat

VARIABLES
    api,        \* the cluster, as the API has it
    state,      \* Terraform's
    config,     \* the operator's
    op,         \* the handler that runs
    budget

vars == <<api, state, config, op, budget>>

-----------------------------------------------------------------------------
Versions == {1, 2}

Types == {spec.type : spec \in Specs}
Counts == {spec.count : spec \in Specs}

\* version: the one its nodes run.  external: has one of external_pool_tags.
Pools == [type : Types, count : Counts, version : Versions, external : BOOLEAN]

\* A pool of the state; matchPoolsWithSchema leaves a zero value where a
\* declared pool has no match.
Hole == [id |-> 0, type |-> "none", count |-> 0, external |-> FALSE]

Present == [id : Nat, type : Types, count : Counts, external : BOOLEAN]

Declared == Present \cup {Hole}

StateRecord ==
    [tracked : BOOLEAN, tainted : BOOLEAN, version : Versions, tags : BOOLEAN,
     pools : Seq(Declared)]

\* recycling: pools as listed before the update.  updated: updatedIds.
\* fresh: before the update, all nodes ran the cluster's version.
OpRecord ==
    [pc : {"idle", "create", "ready", "delete", "deleting", "cluster", "list",
           "recycle", "recycling", "reconcile", "pools", "wait"},
     recycling : SUBSET Nat, old : Seq(Declared), toUpdate : SUBSET Present,
     toCreate : Seq(Specs), toDelete : Seq(Nat), updated : SUBSET Nat,
     upgrade : BOOLEAN, fresh : BOOLEAN, drift : BOOLEAN,
     result : {"none", "ok", "error"}]

TypeOK ==
    /\ api \in [exists : BOOLEAN, version : Versions, next : Nat,
                pools : [DOMAIN api.pools -> Pools]]
    /\ DOMAIN api.pools \subseteq 1 .. api.next
    /\ state \in StateRecord
    /\ config \in [version : Versions, tags : BOOLEAN, pools : Seq(Specs)]
    /\ op \in OpRecord
    /\ budget \in [edits : 0 .. MaxEdits, failures : 0 .. MaxFailures]

Idle == op.pc = "idle"

Goto(pc) == op' = [op EXCEPT !.pc = pc]

Nothing ==
    [pc |-> "idle", recycling |-> {}, old |-> <<>>, toUpdate |-> {},
     toCreate |-> <<>>, toDelete |-> <<>>, updated |-> {}, upgrade |-> FALSE,
     fresh |-> TRUE, drift |-> FALSE, result |-> "none"]

Return(result) == op' = [Nothing EXCEPT !.result = result]

-----------------------------------------------------------------------------
(* Reading the pools. *)

\* Mutant: pools of linode_lke_node_pool resources are not left out.
VisibleMutant(tags) == DOMAIN api.pools

\* filterExternalPools
Visible(tags) == {id \in DOMAIN api.pools : ~(tags /\ api.pools[id].external)}

SameAttributes(declared, id) ==
    /\ declared.type = api.pools[id].type
    /\ declared.count = api.pools[id].count
    /\ declared.external = api.pools[id].external

Found(declared, ids) == declared.id \in ids

\* matchPoolsWithSchema: the declared pools with an ID take theirs; each of the
\* others, in order, takes any that has its attributes and is left.
Pairings(declared, ids) ==
    {m \in [DOMAIN declared -> ids \cup {0}] :
        /\ \A i \in DOMAIN m :
              IF Found(declared[i], ids) THEN m[i] = declared[i].id
              ELSE m[i] # 0 => SameAttributes(declared[i], m[i])
        /\ \A i, j \in DOMAIN m : i # j /\ m[i] # 0 => m[i] # m[j]
        /\ \A i \in DOMAIN m : m[i] = 0 =>
              \A id \in {id \in ids : SameAttributes(declared[i], id)} :
                 \E j \in DOMAIN m :
                    m[j] = id /\ (j < i \/ Found(declared[j], ids))}

\* Mutant: an unmatched pool is flattened to nothing but its ID.
FlattenPoolMutant(id) ==
    IF id = 0 THEN [id |-> 0]
    ELSE [id |-> id, type |-> api.pools[id].type, count |-> api.pools[id].count,
          external |-> api.pools[id].external]

\* flattenLKENodePools
FlattenPool(id) ==
    IF id = 0 THEN Hole
    ELSE [id |-> id, type |-> api.pools[id].type, count |-> api.pools[id].count,
          external |-> api.pools[id].external]

\* The pools without a declared one come at the end, in any order.
ReadPools(declared, tags) ==
    LET ids == Visible(tags)
    IN  UNION {{[i \in DOMAIN m |-> FlattenPool(m[i])]
                   \o [i \in DOMAIN rest |-> FlattenPool(rest[i])] :
                      rest \in SetToSeqs(ids \ Range(m))} :
                  m \in Pairings(declared, ids)}

-----------------------------------------------------------------------------
(* Terraform: the computed IDs of the plan are those of the state, position *)
(* by position.                                                             *)

PlannedID(i) == IF i <= Len(state.pools) THEN state.pools[i].id ELSE 0

Configured(spec, id) ==
    [id |-> id, type |-> spec.type, count |-> spec.count, external |-> FALSE]

PlannedPools ==
    [i \in DOMAIN config.pools |-> Configured(config.pools[i], PlannedID(i))]

Planned ==
    [state EXCEPT !.version = config.version, !.tags = config.tags,
                  !.pools = PlannedPools]

UpToDate == \A id \in DOMAIN api.pools : api.pools[id].version = api.version

\* Start a handler; the state is the refreshed one.
Start(pc) ==
    op' = [op EXCEPT !.pc = pc, !.fresh = UpToDate,
                     !.upgrade = state'.version # config.version,
                     !.old = state'.pools]

Refreshed(pools) ==
    [state EXCEPT !.version = api.version, !.pools = pools]

InSync(s) ==
    /\ ~s.tainted /\ s.version = config.version /\ s.tags = config.tags
    /\ Len(s.pools) = Len(config.pools)
    /\ \A i \in DOMAIN s.pools :
          s.pools[i] = Configured(config.pools[i], s.pools[i].id)

PlanCreate ==
    /\ Idle /\ ~state.tracked
    /\ UNCHANGED state
    /\ Start("create")
    /\ UNCHANGED <<api, config, budget>>

\* Mutant: a cluster that is gone is an error.
ForgetMutant ==
    /\ Idle /\ state.tracked /\ ~api.exists
    /\ Return("error")
    /\ UNCHANGED <<api, state, config, budget>>

\* The cluster is gone.
Forget ==
    /\ Idle /\ state.tracked /\ ~api.exists
    /\ state' = [state EXCEPT !.tracked = FALSE, !.tainted = FALSE, !.pools = <<>>]
    /\ UNCHANGED <<api, config, op, budget>>

Plan ==
    /\ Idle /\ state.tracked /\ api.exists
    /\ \E pools \in ReadPools(state.pools, state.tags) :
          /\ state' = Refreshed(pools)
          /\ IF InSync(state') THEN Return("ok") /\ op.result # "ok"
             ELSE Start(IF state.tainted THEN "delete" ELSE "cluster")
    /\ UNCHANGED <<api, config, budget>>

-----------------------------------------------------------------------------
(* The API. *)

NewPool(spec, external) ==
    [type |-> spec.type, count |-> spec.count, version |-> api.version,
     external |-> external]

Added(spec, external) ==
    [api EXCEPT !.next = @ + 1,
        !.pools = [id \in DOMAIN @ \cup {api.next + 1} |->
                      IF id \in DOMAIN @ THEN @[id] ELSE NewPool(spec, external)]]

Removed(id) == [api EXCEPT !.pools = Restrict(@, DOMAIN @ \ {id})]

-----------------------------------------------------------------------------
(* Create and delete. *)

CreateCluster ==
    /\ op.pc = "create"
    /\ api' = [api EXCEPT !.exists = TRUE, !.version = config.version,
                 !.next = @ + Len(config.pools),
                 !.pools = [id \in api.next + 1 .. api.next + Len(config.pools) |->
                    [NewPool(config.pools[id - api.next], FALSE)
                        EXCEPT !.version = config.version]]]
    /\ state' = [Planned EXCEPT !.tracked = TRUE]
    /\ Goto("ready")
    /\ UNCHANGED <<config, budget>>

\* The error of the wait for a ready node is dropped: readResource follows,
\* ready or not.
CreateRead ==
    /\ op.pc = "ready"
    /\ \E pools \in ReadPools(state.pools, state.tags) :
          state' = Refreshed(pools)
    /\ Return("ok")
    /\ UNCHANGED <<api, config, budget>>

DeleteCluster ==
    /\ op.pc = "delete"
    /\ api' = [api EXCEPT !.exists = FALSE, !.pools = <<>>]
    /\ Goto("deleting")
    /\ UNCHANGED <<state, config, budget>>

\* The cluster is not found any more; Terraform creates its replacement.
Deleted ==
    /\ op.pc = "deleting"
    /\ state' = [state EXCEPT !.tracked = FALSE, !.tainted = FALSE, !.pools = <<>>]
    /\ Goto("create")
    /\ UNCHANGED <<api, config, budget>>

-----------------------------------------------------------------------------
(* Update. *)

\* UpdateLKECluster, when k8s_version changes.
UpdateCluster ==
    /\ op.pc = "cluster"
    /\ api' = IF op.upgrade THEN [api EXCEPT !.version = config.version] ELSE api
    /\ Goto("list")
    /\ UNCHANGED <<state, config, budget>>

\* Mutant: an upgrade does not recycle the nodes.
ListPoolsMutant ==
    /\ op.pc = "list"
    /\ op' = [op EXCEPT !.recycling = DOMAIN api.pools, !.pc = "reconcile"]
    /\ UNCHANGED <<api, state, config, budget>>

ListPools ==
    /\ op.pc = "list"
    /\ op' = [op EXCEPT !.recycling = DOMAIN api.pools,
                        !.pc = IF op.upgrade THEN "recycle" ELSE "reconcile"]
    /\ UNCHANGED <<api, state, config, budget>>

\* recycleLKECluster: every node is replaced, those of external pools too.
RecycleNodes ==
    /\ op.pc = "recycle"
    /\ api' = [api EXCEPT !.pools = [id \in DOMAIN @ |->
                 [@[id] EXCEPT !.version = api.version]]]
    /\ Goto("recycling")
    /\ UNCHANGED <<state, config, budget>>

\* The pools waited for become ready, unless one is gone.
Ready(ids) == ids \subseteq DOMAIN api.pools

Recycled ==
    /\ op.pc = "recycling" /\ Ready(op.recycling)
    /\ Goto("reconcile")
    /\ UNCHANGED <<api, state, config, budget>>

\* Mutant: what changes in place is not told from a change of type.
ReplacedMutant(old, new) == FALSE /\ old.type # new.type

Replaced(old, new) == old.type # new.type

\* Mutant: the first pools go, not the last ones.
SurplusFirstMutant(old, new) == [i \in 1 .. Len(old) - Len(new) |-> old[i].id]

Surplus(old, new) == [i \in 1 .. Len(old) - Len(new) |-> old[Len(new) + i].id]

\* The numbers of S in ascending order.
Ascending(S) ==
    {s \in [1 .. Cardinality(S) -> S] : \A i, j \in DOMAIN s : i < j => s[i] < s[j]}

\* expandLinodeLKENodePoolSpecs drops the state's pools without an ID;
\* ReconcileLKENodePoolSpecs compares what is left by position.
Reconcile ==
    /\ op.pc = "reconcile"
    /\ \E kept \in Ascending({i \in DOMAIN op.old : op.old[i].id # 0}) :
       LET old    == [i \in DOMAIN kept |-> op.old[kept[i]]]
           new    == PlannedPools
           common == DOMAIN old \cap DOMAIN new
           Swap   == {i \in common : Replaced(old[i], new[i])}
       IN  \E swaps \in Ascending(Swap) :
             op' = [op EXCEPT !.pc = "pools",
                !.toUpdate = {[new[i] EXCEPT !.id = old[i].id] :
                                 i \in {i \in common \ Swap : new[i] # old[i]}},
                !.toCreate = SubSeq(config.pools, Len(old) + 1, Len(new))
                                \o [i \in DOMAIN swaps |-> config.pools[swaps[i]]],
                !.toDelete = Surplus(old, new)
                                \o [i \in DOMAIN swaps |-> old[swaps[i]].id]]
    /\ UNCHANGED <<api, state, config, budget>>

\* UpdateLKENodePool, in the order of a Go map.
UpdatePool ==
    /\ op.pc = "pools"
    /\ \E pool \in op.toUpdate :
          /\ pool.id \in DOMAIN api.pools
          /\ api' = [api EXCEPT !.pools[pool.id].count = pool.count,
                                !.pools[pool.id].external = FALSE]
          /\ op' = [op EXCEPT !.toUpdate = @ \ {pool},
                              !.updated = @ \cup {pool.id}]
    /\ UNCHANGED <<state, config, budget>>

CreatePool ==
    /\ op.pc = "pools" /\ op.toUpdate = {} /\ op.toCreate # <<>>
    /\ api' = Added(Head(op.toCreate), FALSE)
    /\ op' = [op EXCEPT !.toCreate = Tail(@), !.updated = @ \cup {api.next + 1}]
    /\ UNCHANGED <<state, config, budget>>

DeletePool ==
    /\ op.pc = "pools" /\ op.toUpdate = {} /\ op.toCreate = <<>>
    /\ op.toDelete # <<>> /\ Head(op.toDelete) \in DOMAIN api.pools
    /\ api' = Removed(Head(op.toDelete))
    /\ op' = [op EXCEPT !.toDelete = Tail(@)]
    /\ UNCHANGED <<state, config, budget>>

PoolsUpdated ==
    /\ op.pc = "pools"
    /\ op.toUpdate = {} /\ op.toCreate = <<>> /\ op.toDelete = <<>>
    /\ Goto("wait")
    /\ UNCHANGED <<api, state, config, budget>>

\* readResource at the end of updateResource matches with the planned pools.
UpdateRead ==
    /\ op.pc = "wait" /\ Ready(op.updated)
    /\ \E pools \in ReadPools(PlannedPools, config.tags) :
          state' = [Planned EXCEPT !.version = api.version, !.pools = pools]
    /\ Return("ok")
    /\ UNCHANGED <<api, config, budget>>

-----------------------------------------------------------------------------
(* Errors. *)

\* A pool the handler works on is gone.
Gone ==
    \/ op.pc = "recycling" /\ ~Ready(op.recycling)
    \/ op.pc = "pools" /\ \E pool \in op.toUpdate : pool.id \notin DOMAIN api.pools
    \/ /\ op.pc = "pools" /\ op.toUpdate = {} /\ op.toCreate = <<>>
       /\ op.toDelete # <<>> /\ Head(op.toDelete) \notin DOMAIN api.pools
    \/ op.pc = "wait" /\ ~Ready(op.updated)

\* A failed update leaves the planned values in the state, a failed create a
\* tainted resource once it has its ID.
StepFails ==
    /\ ~Idle
    /\ \/ budget.failures > 0 /\ budget' = [budget EXCEPT !.failures = @ - 1]
       \/ Gone /\ UNCHANGED budget
    /\ state' = CASE op.pc \in {"create", "delete", "deleting"} -> state
                  [] op.pc = "ready" -> [state EXCEPT !.tainted = TRUE]
                  [] OTHER -> Planned
    /\ Return("error")
    /\ UNCHANGED <<api, config>>

-----------------------------------------------------------------------------
(* Others: the operator, linode_lke_node_pool resources, the Cloud Manager. *)

Edit == budget.edits > 0 /\ budget' = [budget EXCEPT !.edits = @ - 1]

Drift == op' = [op EXCEPT !.drift = ~Idle]

Configs ==
    [version : Versions, tags : BOOLEAN, pools : BoundedSeq(Specs, MaxPools) \ {<<>>}]

\* Between two applies; one edit changes one thing, several edits may precede
\* an apply.
ChangeConfig ==
    /\ Idle /\ Edit
    /\ \/ \E c \in Configs : config' = [config EXCEPT !.pools = c.pools]
       \/ config' = [config EXCEPT !.version = 2]
       \/ config' = [config EXCEPT !.tags = ~@]
    /\ config' # config
    /\ op' = [op EXCEPT !.result = "none"]
    /\ UNCHANGED <<api, state>>

ExternalPoolCreated ==
    /\ api.exists /\ Edit /\ Drift
    /\ \E spec \in Specs : api' = Added(spec, TRUE)
    /\ UNCHANGED <<state, config>>

PoolDeletedElsewhere ==
    /\ Disappear /\ Edit /\ Drift
    /\ \E id \in DOMAIN api.pools : api' = Removed(id)
    /\ UNCHANGED <<state, config>>

\* Between two applies.
ClusterDeletedElsewhere ==
    /\ Disappear /\ Idle /\ api.exists /\ Edit
    /\ api' = [api EXCEPT !.exists = FALSE, !.pools = <<>>]
    /\ UNCHANGED <<state, config, op>>

-----------------------------------------------------------------------------
Init ==
    /\ config \in {c \in Configs : c.version = 1}
    /\ api = [exists |-> FALSE, version |-> 1, pools |-> <<>>, next |-> 0]
    /\ state = [tracked |-> FALSE, tainted |-> FALSE, version |-> 1,
                tags |-> FALSE, pools |-> <<>>]
    /\ op = Nothing
    /\ budget = [edits |-> MaxEdits, failures |-> MaxFailures]

Provider ==
    \/ PlanCreate \/ Forget \/ Plan
    \/ CreateCluster \/ CreateRead \/ DeleteCluster \/ Deleted
    \/ UpdateCluster \/ ListPools \/ RecycleNodes \/ Recycled \/ Reconcile
    \/ UpdatePool \/ CreatePool \/ DeletePool \/ PoolsUpdated \/ UpdateRead
    \/ StepFails

Others ==
    \/ ChangeConfig \/ ExternalPoolCreated \/ PoolDeletedElsewhere
    \/ ClusterDeletedElsewhere

Next == Provider \/ Others

Spec == Init /\ [][Next]_vars

\* Apply is run again after an error, calls and waits end.
FairSpec == Spec /\ WF_vars(Provider)

-----------------------------------------------------------------------------
Succeeds == ~Idle /\ op'.pc = "idle" /\ op'.result = "ok"

\* A successful create or update leaves exactly the configured pools in the
\* cluster, each of them in the state at the place of its declaration, whatever
\* the order in which the API lists them and the handler updates them, and
\* whatever earlier runs left half done.  Nobody interferes meanwhile, no pool of
\* the state has disappeared (LKEClusterHole) and external_pool_tags is not
\* being removed.
PoolsAsConfigured ==
    [][/\ Succeeds /\ ~op.drift
       /\ Hole \notin Range(op.old)
       /\ (state.tags => config.tags)
       =>
          /\ InSync(state')
          /\ Visible(config.tags)' = {state'.pools[i].id : i \in DOMAIN state'.pools}
      ]_vars

\* With external_pool_tags in the state, an update neither deletes nor relabels
\* a pool of a linode_lke_node_pool resource.
Keeps(id) == id \in DOMAIN api'.pools /\ api'.pools[id].external

ExternalPoolsKept ==
    [][op.pc = "pools" /\ budget' = budget /\ config.tags /\ state.tags =>
          \A id \in DOMAIN api.pools : api.pools[id].external => Keeps(id)]_vars

\* docs/resources/lke_cluster.md of external_pool_tags: "A set of node pool tags
\* to ignore when planning and applying this cluster."
ExternalPoolsIgnored ==
    [][op.pc = "pools" /\ budget' = budget /\ config.tags =>
          \A id \in DOMAIN api.pools : api.pools[id].external => Keeps(id)]_vars

\* An upgrade of k8s_version that succeeds replaces the nodes of every pool, when
\* all of them ran the cluster's version before.
NodesUpgraded == [][Succeeds /\ ~op.drift /\ op.fresh => UpToDate']_vars

\* Pools whose declaration does not change in the plan.
Unchanged ==
    {op.old[i].id : i \in {i \in DOMAIN op.old \cap DOMAIN PlannedPools :
                              op.old[i] = PlannedPools[i]}}

\* An update leaves a pool the plan does not change alone, as long as none of
\* the state's pools has disappeared from the cluster.
UnchangedPoolsKept ==
    [][op.pc = "pools" /\ budget' = budget /\ Hole \notin Range(op.old) =>
          \A id \in Unchanged \cap DOMAIN api.pools :
             id \in DOMAIN api'.pools /\ api'.pools[id].count = api.pools[id].count
      ]_vars

\* docs/resources/lke_cluster.md: "the order of pool blocks is significant
\* because the ID of each pool is resolved from the Terraform state."
PoolsResolvedByState ==
    [][op.pc = "pools" /\ budget' = budget =>
          \A id \in Unchanged \ {0} : id \in DOMAIN api.pools =>
             id \in DOMAIN api'.pools]_vars

\* Once nobody changes anything any more, applying again ends with the
\* configured pools, whatever failed before; unless a pool of the state has
\* disappeared and its place never closes.
Applied ==
    /\ state.tracked /\ InSync(state)
    /\ Visible(config.tags) = {state.pools[i].id : i \in DOMAIN state.pools}

EventuallyApplied == <>[]Applied \/ []<>(Hole \in Range(state.pools))

=============================================================================
