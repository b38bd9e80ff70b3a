---------------------------- MODULE LKEClusterProofs ----------------------------
(* Theorems about LKECluster, for any specifications of pools and any bounds. *)
EXTENDS LKECluster, FiniteSetTheorems, SequenceTheorems, TLAPS

-----------------------------------------------------------------------------
(* The inductive invariant. *)

UpdateSteps == {"cluster", "list", "recycle", "recycling", "reconcile", "pools", "wait"}

\* What an update goes by are the pools of the refreshed state, each of them a
\* pool there was; an ID is that of one pool only.
OldInv ==
    op.pc \in UpdateSteps =>
        /\ op.old = state.pools
        /\ \A i \in DOMAIN op.old :
              op.old[i].id <= api.next /\ (op.old[i].id = 0 => op.old[i] = Hole)
        /\ \A i, j \in DOMAIN op.old :
              op.old[i].id = op.old[j].id /\ op.old[i].id # 0 => i = j

\* With external_pool_tags in the state, none of them is another resource's.
OwnInv ==
    op.pc \in UpdateSteps /\ state.tags =>
        \A i \in DOMAIN op.old :
            op.old[i].id \in DOMAIN api.pools => ~api.pools[op.old[i].id].external

\* A pool the update may change: one of the state, and unless some pool of the
\* state has disappeared one whose declaration changes.
Changes(id) ==
    /\ id # 0 /\ \E i \in DOMAIN op.old : op.old[i].id = id
    /\ Hole \notin Range(op.old) => id \notin Unchanged

ChangesInv ==
    op.pc = "pools" =>
        /\ \A pool \in op.toUpdate : Changes(pool.id)
        /\ \A i \in DOMAIN op.toDelete : Changes(op.toDelete[i])

\* Where every node ran the cluster's version before, every node does, except
\* between the upgrade of the cluster and the recycling of the nodes.
VersionInv ==
    op.fresh /\ ~op.drift =>
        /\ op.pc = "list" => op.upgrade \/ UpToDate
        /\ op.pc \in {"ready", "cluster", "recycling", "reconcile", "pools", "wait"} => UpToDate

IInv == TypeOK /\ OldInv /\ OwnInv /\ ChangesInv /\ VersionInv

-----------------------------------------------------------------------------
(* What the operators return. *)

LEMMA TypesOf ==
    ASSUME TypeOK
    PROVE  /\ api.version \in Versions /\ api.next \in Nat /\ api.exists \in BOOLEAN
           /\ \A id \in DOMAIN api.pools : id \in 1 .. api.next /\ api.pools[id] \in Pools
           /\ state \in StateRecord /\ state.pools \in Seq(Declared)
           /\ state.version \in Versions /\ state.tags \in BOOLEAN
           /\ config.pools \in Seq(Specs) /\ config.version \in Versions
           /\ config.tags \in BOOLEAN
           /\ op \in OpRecord /\ op.old \in Seq(Declared) /\ op.toUpdate \subseteq Present
           /\ op.toCreate \in Seq(Specs) /\ op.toDelete \in Seq(Nat)
  BY DEF TypeOK, StateRecord, OpRecord

LEMMA DeclaredID == \A pool \in Declared : pool.id \in Nat
  BY DEF Declared, Present, Hole

LEMMA VisibleIDs ==
    ASSUME TypeOK, NEW tags
    PROVE  /\ Visible(tags) \subseteq DOMAIN api.pools /\ Visible(tags) \subseteq 1 .. api.next
           /\ tags => \A id \in Visible(tags) : ~api.pools[id].external
           /\ \A S \in SUBSET Visible(tags) : IsFiniteSet(S) /\ Cardinality(S) \in Nat
<1>1. /\ Visible(tags) \subseteq DOMAIN api.pools /\ Visible(tags) \subseteq 1 .. api.next
      /\ tags => \A id \in Visible(tags) : ~api.pools[id].external
  BY TypesOf DEF Visible
<1>2. IsFiniteSet(1 .. api.next)
  BY TypesOf, FS_Interval
<1>3. \A S \in SUBSET Visible(tags) : IsFiniteSet(S) /\ Cardinality(S) \in Nat
  BY <1>1, <1>2, FS_Subset, FS_CardinalityType
<1> QED
  BY <1>1, <1>3

LEMMA FlattenIs ==
    ASSUME TypeOK, NEW id \in DOMAIN api.pools \cup {0}
    PROVE  /\ FlattenPool(id) \in Declared /\ FlattenPool(id).id = id
           /\ id = 0 => FlattenPool(id) = Hole
<1>1. CASE id = 0
  BY <1>1 DEF FlattenPool, Hole, Declared
<1>2. CASE id # 0
  <2>1. id \in Nat /\ api.pools[id] \in Pools
    BY <1>2, TypesOf
  <2> QED
    BY <1>2, <2>1 DEF FlattenPool, Pools, Declared, Present
<1> QED
  BY <1>1, <1>2

\* The pools that are read are those of the API the tags leave visible, each of
\* them once, and holes.
LEMMA ReadPoolsAre ==
    ASSUME TypeOK, NEW declared \in Seq(Declared), NEW tags, NEW p \in ReadPools(declared, tags)
    PROVE  /\ p \in Seq(Declared)
           /\ \A i \in DOMAIN p :
                 p[i].id \in Visible(tags) \cup {0} /\ (p[i].id = 0 => p[i] = Hole)
           /\ \A i, j \in DOMAIN p : p[i].id = p[j].id /\ p[i].id # 0 => i = j
<1> DEFINE ids == Visible(tags)
<1>1. PICK m \in Pairings(declared, ids) : \E rest \in SetToSeqs(ids \ Range(m)) :
         p = [i \in DOMAIN m |-> FlattenPool(m[i])] \o [i \in DOMAIN rest |-> FlattenPool(rest[i])]
  BY DEF ReadPools
<1>2. PICK rest \in SetToSeqs(ids \ Range(m)) :
         p = [i \in DOMAIN m |-> FlattenPool(m[i])] \o [i \in DOMAIN rest |-> FlattenPool(rest[i])]
  BY <1>1
<1> DEFINE a == [i \in DOMAIN m |-> FlattenPool(m[i])]
<1> DEFINE b == [i \in DOMAIN rest |-> FlattenPool(rest[i])]
<1> DEFINE x == Len(declared)
<1> DEFINE y == Cardinality(ids \ Range(m))
<1>3. /\ x \in Nat /\ m \in [1 .. x -> ids \cup {0}]
      /\ \A i, j \in 1 .. x : i # j /\ m[i] # 0 => m[i] # m[j]
  BY DEF Pairings
<1>4. /\ y \in Nat /\ rest \in [1 .. y -> ids \ Range(m)]
      /\ \A i, j \in 1 .. y : i # j => rest[i] # rest[j]
  BY VisibleIDs DEF SetToSeqs
<1>5. \A id \in ids \cup {0} :
         /\ FlattenPool(id) \in Declared /\ FlattenPool(id).id = id
         /\ id = 0 => FlattenPool(id) = Hole
  BY VisibleIDs, FlattenIs
<1>15. 0 \notin ids
  BY VisibleIDs, TypesOf
<1> HIDE DEF x, y, ids
<1>6. \A i \in 1 .. x : m[i] \in Range(m)
  BY <1>3 DEF Range
<1>7. a \in [1 .. x -> Declared] /\ \A i \in 1 .. x : a[i].id = m[i] /\ (m[i] = 0 => a[i] = Hole)
  BY <1>3, <1>5
<1>8. b \in [1 .. y -> Declared] /\ \A i \in 1 .. y : b[i].id = rest[i]
  BY <1>4, <1>5
<1>10. p = a \o b
  BY <1>2
<1> HIDE DEF a, b
<1>9. a \in Seq(Declared) /\ Len(a) = x /\ b \in Seq(Declared) /\ Len(b) = y
  BY <1>3, <1>4, <1>7, <1>8
<1>11. /\ p \in Seq(Declared) /\ Len(p) = x + y /\ DOMAIN p = 1 .. x + y
       /\ \A i \in 1 .. x + y : p[i] = IF i <= x THEN a[i] ELSE b[i - x]
  <2>1. p \in Seq(Declared) /\ Len(p) = x + y
    BY <1>9, <1>10, ConcatProperties, Zenon
  <2>2. DOMAIN p = 1 .. x + y
    BY <2>1
  <2>3. ASSUME NEW i \in 1 .. x + y
        PROVE  p[i] = IF i <= x THEN a[i] ELSE b[i - x]
    BY <1>3, <1>4, <1>9, <1>10, <2>3
  <2> QED
    BY <2>1, <2>2, <2>3
<1>12. ASSUME NEW i \in 1 .. x + y
       PROVE  p[i].id = IF i <= x THEN m[i] ELSE rest[i - x]
  <2>1. CASE i <= x
    BY <1>3, <1>7, <1>11, <2>1
  <2>2. CASE i > x
    <3>1. i - x \in 1 .. y /\ p[i] = b[i - x]
      BY <1>3, <1>4, <1>11, <2>2
    <3> QED
      BY <1>3, <1>8, <2>2, <3>1
  <2> QED
    BY <1>3, <1>4, <2>1, <2>2
<1>13. ASSUME NEW i \in 1 .. x + y
       PROVE  p[i].id \in ids \cup {0} /\ (p[i].id = 0 => p[i] = Hole)
  <2>1. CASE i <= x
    BY <1>3, <1>7, <1>11, <1>12, <2>1
  <2>2. CASE i > x
    <3>1. i - x \in 1 .. y
      BY <1>3, <1>4, <2>2
    <3>2. rest[i - x] \in ids /\ rest[i - x] # 0
      BY <1>4, <1>15, <3>1
    <3> QED
      BY <1>3, <1>12, <2>2, <3>2
  <2> QED
    BY <1>3, <1>4, <2>1, <2>2
<1>14. ASSUME NEW i \in 1 .. x + y, NEW j \in 1 .. x + y, p[i].id = p[j].id, p[i].id # 0
       PROVE  i = j
  <2>1. CASE i <= x /\ j <= x
    BY <1>3, <1>12, <1>14, <2>1
  <2>2. CASE i <= x /\ j > x
    <3>1. m[i] \in Range(m) /\ rest[j - x] \notin Range(m)
      BY <1>3, <1>4, <1>6, <2>2
    <3> QED
      BY <1>3, <1>4, <1>12, <1>14, <2>2, <3>1
  <2>3. CASE i > x /\ j <= x
    <3>1. m[j] \in Range(m) /\ rest[i - x] \notin Range(m)
      BY <1>3, <1>4, <1>6, <2>3
    <3> QED
      BY <1>3, <1>4, <1>12, <1>14, <2>3, <3>1
  <2>4. CASE i > x /\ j > x
    BY <1>3, <1>4, <1>12, <1>14, <2>4
  <2> QED
    BY <1>3, <1>4, <2>1, <2>2, <2>3, <2>4
<1> QED
  BY <1>11, <1>13, <1>14 DEF ids

LEMMA PlannedIs ==
    ASSUME TypeOK
    PROVE  /\ PlannedPools \in Seq(Present) /\ PlannedPools \in Seq(Declared)
           /\ Len(PlannedPools) = Len(config.pools)
           /\ \A i \in DOMAIN PlannedPools : PlannedPools[i].type \in Types
           /\ Planned \in StateRecord
<1>1. config.pools \in Seq(Specs) /\ Len(config.pools) \in Nat
      /\ DOMAIN config.pools = 1 .. Len(config.pools)
  BY TypesOf
<1>2. \A i \in DOMAIN config.pools : PlannedID(i) \in Nat
  <2>1. \A i \in 1 .. Len(state.pools) : state.pools[i] \in Declared
    BY TypesOf
  <2> QED
    BY <1>1, <2>1, TypesOf, DeclaredID DEF PlannedID
<1>3. \A i \in DOMAIN config.pools :
         config.pools[i].type \in Types /\ config.pools[i].count \in Counts
  BY <1>1 DEF Types, Counts
<1>4. \A i \in DOMAIN config.pools : Configured(config.pools[i], PlannedID(i)) \in Present
  BY <1>2, <1>3 DEF Configured, Present
<1>5. PlannedPools \in [1 .. Len(config.pools) -> Present]
  BY <1>1, <1>4 DEF PlannedPools
<1>6. PlannedPools \in Seq(Present) /\ Len(PlannedPools) = Len(config.pools)
  BY <1>1, <1>5
<1>7. PlannedPools \in Seq(Declared)
  BY <1>6 DEF Declared
<1>8. Planned \in StateRecord
  BY <1>7, TypesOf DEF Planned, StateRecord
<1> QED
  BY <1>5, <1>6, <1>7, <1>8 DEF Present

LEMMA LeastOf ==
    ASSUME NEW S \in SUBSET Nat, S # {}
    PROVE  \E i \in S : \A j \in S : i <= j
<1> DEFINE R == OpToRel(<, Nat)
<1>1. IsWellFoundedOn(R, Nat)
  BY NatLessThanWellFounded
<1>2. PICK i \in S : \A j \in S : ~(<<j, i>> \in R)
  <2> HIDE DEF R
  <2> QED
    BY <1>1, WFMin
<1>3. ASSUME NEW j \in S
      PROVE  i <= j
  <2>1. ~(j < i)
    BY <1>2 DEF OpToRel
  <2> QED
    BY <2>1
<1> QED
  BY <1>3

LEMMA AscendingIs ==
    ASSUME NEW n \in Nat, NEW S \in SUBSET (1 .. n), NEW k \in Ascending(S)
    PROVE  /\ IsFiniteSet(S) /\ Cardinality(S) \in Nat
           /\ k \in [1 .. Cardinality(S) -> S] /\ k \in Seq(S) /\ Len(k) = Cardinality(S)
<1>1. IsFiniteSet(S) /\ Cardinality(S) \in Nat
  <2>1. IsFiniteSet(1 .. n)
    BY FS_Interval
  <2>2. IsFiniteSet(S)
    BY <2>1, FS_Subset
  <2> QED
    BY <2>2, FS_CardinalityType
<1>2. k \in [1 .. Cardinality(S) -> S]
  BY DEF Ascending
<1> QED
  BY <1>1, <1>2

\* All of them in ascending order are they themselves.
LEMMA AscendingAll ==
    ASSUME NEW n \in Nat, NEW k \in Ascending(1 .. n)
    PROVE  Len(k) = n /\ \A i \in 1 .. n : k[i] = i
<1>1. Cardinality(1 .. n) = n
  BY FS_Interval
<1>2. /\ k \in [1 .. n -> 1 .. n] /\ Len(k) = n
      /\ \A i, j \in 1 .. n : i < j => k[i] < k[j]
  BY <1>1, AscendingIs DEF Ascending
<1>3. ASSUME NEW i \in 1 .. n
      PROVE  k[i] >= i
  <2> DEFINE low == {j \in 1 .. n : k[j] < j}
  <2>1. SUFFICES low = {}
    BY <1>2, <2>1
  <2>2. SUFFICES ASSUME low # {} PROVE FALSE
    OBVIOUS
  <2>3. PICK j \in low : \A h \in low : j <= h
    <3>1. low \in SUBSET Nat
      OBVIOUS
    <3> HIDE DEF low
    <3> QED
      BY <2>2, <3>1, LeastOf
  <2>4. j \in 1 .. n /\ k[j] < j /\ k[j] \in 1 .. n
    BY <1>2, <2>3
  <2>5. j - 1 \in 1 .. n /\ j - 1 \notin low
    BY <2>3, <2>4
  <2>6. k[j - 1] >= j - 1 /\ k[j - 1] < k[j] /\ k[j - 1] \in 1 .. n
    BY <1>2, <2>4, <2>5
  <2> QED
    BY <2>4, <2>6
<1>4. ASSUME NEW i \in 1 .. n
      PROVE  k[i] <= i
  <2> DEFINE high == {d \in 0 .. n : n - d \in 1 .. n /\ k[n - d] > n - d}
  <2>1. SUFFICES high = {}
    <3>1. n - i \in 0 .. n /\ n - (n - i) = i
      OBVIOUS
    <3>2. k[i] \in 1 .. n /\ ~(k[i] > i)
      BY <1>2, <2>1, <3>1
    <3> QED
      BY <3>2
  <2>2. SUFFICES ASSUME high # {} PROVE FALSE
    OBVIOUS
  <2>3. PICK d \in high : \A h \in high : d <= h
    <3>1. high \in SUBSET Nat
      OBVIOUS
    <3> HIDE DEF high
    <3> QED
      BY <2>2, <3>1, LeastOf
  <2>4. d \in 0 .. n /\ n - d \in 1 .. n /\ k[n - d] > n - d /\ k[n - d] \in 1 .. n
    BY <1>2, <2>3
  <2>5. d - 1 \in 0 .. n /\ n - (d - 1) \in 1 .. n /\ d - 1 \notin high
    BY <2>3, <2>4
  <2>6. ~(k[n - (d - 1)] > n - (d - 1)) /\ k[n - (d - 1)] \in 1 .. n
    BY <1>2, <2>5
  <2>7. n - d < n - (d - 1)
    BY <2>4
  <2>8. k[n - d] < k[n - (d - 1)]
    BY <1>2, <2>4, <2>5, <2>7
  <2> QED
    BY <2>4, <2>5, <2>6, <2>8
<1> QED
  BY <1>2, <1>3, <1>4

-----------------------------------------------------------------------------
(* What most steps have in common. *)

\* Between two applies there is nothing to keep.
LEMMA IdleInv ==
    ASSUME TypeOK', op'.pc \notin UpdateSteps, op'.pc # "ready"
    PROVE  IInv'
<1>1. op'.pc # "list" /\ op'.pc # "pools"
      /\ op'.pc \notin {"ready", "cluster", "recycling", "reconcile", "pools", "wait"}
  BY DEF UpdateSteps
<1> QED
  BY <1>1 DEF IInv, OldInv, OwnInv, ChangesInv, VersionInv

LEMMA ReturnIs ==
    ASSUME NEW result \in {"none", "ok", "error"}, Return(result)
    PROVE  op' \in OpRecord /\ op'.pc = "idle" /\ op'.result = result /\ op'.drift = FALSE
<1>1. /\ Nothing \in OpRecord
      /\ Nothing.pc = "idle" /\ Nothing.drift = FALSE
  BY DEF Nothing, OpRecord
<1> QED
  BY <1>1 DEF Return, OpRecord

LEMMA GotoIs ==
    ASSUME op \in OpRecord, NEW pc \in {"ready", "deleting", "create", "list", "recycling",
                                        "reconcile", "wait"},
           Goto(pc)
    PROVE  /\ op' \in OpRecord /\ op'.pc = pc /\ op'.old = op.old /\ op'.upgrade = op.upgrade
           /\ op'.fresh = op.fresh /\ op'.drift = op.drift
  BY DEF Goto, OpRecord

LEMMA StartIs ==
    ASSUME op \in OpRecord, state' \in StateRecord, NEW pc \in {"create", "delete", "cluster"},
           Start(pc)
    PROVE  /\ op' \in OpRecord /\ op'.pc = pc /\ op'.old = state'.pools
           /\ op'.fresh = UpToDate /\ op'.drift = op.drift
<1>1. UpToDate \in BOOLEAN /\ (state'.version # config.version) \in BOOLEAN
  BY DEF UpToDate
<1>2. state'.pools \in Seq(Declared)
  BY DEF StateRecord
<1> QED
  BY <1>1, <1>2 DEF Start, OpRecord

\* A step of an update, or of others, that makes no old pool another resource's.
LEMMA StillOwn ==
    ASSUME IInv, api'.next \in Nat, api.next <= api'.next,
           op'.pc \in UpdateSteps =>
               op.pc \in UpdateSteps /\ op'.old = op.old /\ state' = state,
           \A id \in DOMAIN api'.pools : id <= api.next =>
               id \in DOMAIN api.pools
               /\ (api'.pools[id].external => api.pools[id].external)
    PROVE  OldInv' /\ OwnInv'
<1> SUFFICES ASSUME op'.pc \in UpdateSteps
             PROVE  OldInv' /\ OwnInv'
  BY DEF OldInv, OwnInv
<1>1. op.pc \in UpdateSteps /\ op'.old = op.old /\ state' = state
  OBVIOUS
<1>2. \A i \in DOMAIN op.old : op.old[i].id <= api.next /\ op.old[i].id \in Nat
  <2>1. \A i \in DOMAIN op.old : op.old[i] \in Declared
    BY TypesOf DEF IInv
  <2> QED
    BY <1>1, <2>1, DeclaredID DEF IInv, OldInv
<1>3. api.next \in Nat
  BY TypesOf DEF IInv
<1>4. OldInv'
  BY <1>1, <1>2, <1>3 DEF IInv, OldInv, Hole
<1>5. OwnInv'
  BY <1>1, <1>2 DEF IInv, OwnInv
<1> QED
  BY <1>4, <1>5

LEMMA SameChanges ==
    ASSUME op'.old = op.old, state' = state, config' = config
    PROVE  \A id : Changes(id)' = Changes(id)
<1>1. PlannedPools' = PlannedPools
  BY DEF PlannedPools, PlannedID, Configured
<1>2. Unchanged' = Unchanged
  BY <1>1 DEF Unchanged
<1> QED
  BY <1>2 DEF Changes

\* The step of an update that leaves the API alone.
LEMMA QuietStep ==
    ASSUME IInv, api' = api, state' = state, config' = config, budget' = budget,
           op' \in OpRecord, op.pc \in UpdateSteps, op'.pc \in UpdateSteps \ {"pools"},
           op'.old = op.old, op'.fresh = op.fresh, op'.drift = op.drift,
           op'.upgrade = op.upgrade, op.pc \notin {"cluster", "recycle"},
           op.pc = "list" => op'.pc = "recycle" \/ ~op.upgrade
    PROVE  IInv'
<1>1. TypeOK'
  BY DEF IInv, TypeOK
<1>2. OldInv' /\ OwnInv'
  BY StillOwn, TypesOf DEF IInv
<1>3. ChangesInv'
  BY DEF ChangesInv
<1>4. UpToDate' = UpToDate
  BY DEF UpToDate
<1>5. VersionInv'
  BY <1>4 DEF IInv, VersionInv, UpdateSteps
<1> QED
  BY <1>1, <1>2, <1>3, <1>5 DEF IInv

-----------------------------------------------------------------------------
(* Refresh and plan, create and delete. *)

LEMMA EmptyPools == <<>> \in Seq(Declared) /\ DOMAIN <<>> = {}
  OBVIOUS

LEMMA PlanCreateInv ==
    ASSUME IInv, PlanCreate
    PROVE  IInv'
<1>1. state' = state /\ api' = api /\ config' = config /\ budget' = budget
  BY DEF PlanCreate
<1>2. op' \in OpRecord /\ op'.pc = "create"
  BY <1>1, StartIs, TypesOf DEF IInv, PlanCreate
<1>3. TypeOK'
  BY <1>1, <1>2 DEF IInv, TypeOK
<1> QED
  BY <1>2, <1>3, IdleInv DEF UpdateSteps

LEMMA ForgetInv ==
    ASSUME IInv, Forget
    PROVE  IInv'
<1>1. state' \in StateRecord
  BY TypesOf, EmptyPools DEF IInv, Forget, StateRecord
<1>2. TypeOK' /\ op'.pc = "idle"
  BY <1>1 DEF IInv, TypeOK, Forget, Idle
<1> QED
  BY <1>2, IdleInv DEF UpdateSteps

LEMMA PlanInv ==
    ASSUME IInv, Plan
    PROVE  IInv'
<1>1. api' = api /\ config' = config /\ budget' = budget /\ op.pc = "idle" /\ op \in OpRecord
      /\ state \in StateRecord /\ state.pools \in Seq(Declared)
      /\ api.next \in Nat /\ api.version \in Versions
  BY TypesOf DEF IInv, Plan, Idle
<1>2. PICK pools \in ReadPools(state.pools, state.tags) :
         /\ state' = Refreshed(pools)
         /\ IF InSync(state') THEN Return("ok") /\ op.result # "ok"
            ELSE Start(IF state.tainted THEN "delete" ELSE "cluster")
  BY DEF Plan
<1>3. /\ pools \in Seq(Declared)
      /\ \A i \in DOMAIN pools :
            pools[i].id \in Visible(state.tags) \cup {0} /\ (pools[i].id = 0 => pools[i] = Hole)
      /\ \A i, j \in DOMAIN pools : pools[i].id = pools[j].id /\ pools[i].id # 0 => i = j
  BY <1>1, <1>2, ReadPoolsAre DEF IInv
<1>4. state' \in StateRecord /\ state'.pools = pools /\ state'.tags = state.tags
  BY <1>1, <1>2, <1>3 DEF Refreshed, StateRecord
<1>5. CASE InSync(state')
  <2>1. op' \in OpRecord /\ op'.pc = "idle"
    BY <1>2, <1>5, ReturnIs
  <2>2. TypeOK'
    BY <1>1, <1>4, <2>1 DEF IInv, TypeOK
  <2> QED
    BY <2>1, <2>2, IdleInv DEF UpdateSteps
<1>6. CASE ~InSync(state') /\ state.tainted
  <2>1. op' \in OpRecord /\ op'.pc = "delete"
    BY <1>1, <1>2, <1>4, <1>6, StartIs
  <2>2. TypeOK'
    BY <1>1, <1>4, <2>1 DEF IInv, TypeOK
  <2> QED
    BY <2>1, <2>2, IdleInv DEF UpdateSteps
<1>7. CASE ~InSync(state') /\ ~state.tainted
  <2>1. /\ op' \in OpRecord /\ op'.pc = "cluster" /\ op'.old = pools /\ op'.fresh = UpToDate
    BY <1>1, <1>2, <1>4, <1>7, StartIs
  <2>2. TypeOK'
    BY <1>1, <1>4, <2>1 DEF IInv, TypeOK
  <2>3. OldInv'
    <3>1. \A i \in DOMAIN pools : pools[i].id <= api.next
      BY <1>1, <1>3, VisibleIDs DEF IInv
    <3> QED
      BY <1>1, <1>3, <1>4, <2>1, <3>1 DEF OldInv, Hole
  <2>4. OwnInv'
    <3>1. ASSUME state.tags, NEW i \in DOMAIN pools, pools[i].id \in DOMAIN api.pools
          PROVE  ~api.pools[pools[i].id].external
      <4>1. pools[i].id # 0
        BY <3>1, TypesOf DEF IInv
      <4>2. pools[i].id \in Visible(state.tags)
        BY <1>3, <4>1
      <4> QED
        BY <3>1, <4>2 DEF Visible
    <3> QED
      BY <1>1, <1>4, <2>1, <3>1 DEF OwnInv
  <2>5. ChangesInv'
    BY <2>1 DEF ChangesInv
  <2>6. VersionInv'
    <3>1. UpToDate' = UpToDate
      BY <1>1 DEF UpToDate
    <3> QED
      BY <2>1, <3>1 DEF VersionInv
  <2> QED
    BY <2>2, <2>3, <2>4, <2>5, <2>6 DEF IInv
<1> QED
  BY <1>5, <1>6, <1>7

LEMMA SpecIs ==
    ASSUME NEW spec \in Specs
    PROVE  spec.type \in Types /\ spec.count \in Counts
  BY DEF Types, Counts

LEMMA CreateClusterInv ==
    ASSUME IInv, CreateCluster
    PROVE  IInv'
<1> DEFINE n == Len(config.pools)
<1> DEFINE pools == [id \in api.next + 1 .. api.next + n |->
                        [NewPool(config.pools[id - api.next], FALSE)
                            EXCEPT !.version = config.version]]
<1>1. /\ op \in OpRecord /\ api.next \in Nat /\ config.version \in Versions
      /\ config.pools \in Seq(Specs) /\ n \in Nat /\ config' = config /\ budget' = budget
  BY TypesOf DEF IInv, CreateCluster
<1>2. op' \in OpRecord /\ op'.pc = "ready"
  BY <1>1, GotoIs DEF CreateCluster
<1>3. state' \in StateRecord
  <2>1. Planned \in StateRecord
    BY PlannedIs DEF IInv
  <2> QED
    BY <2>1 DEF CreateCluster, StateRecord
<1>4. ASSUME NEW id \in api.next + 1 .. api.next + n
      PROVE  pools[id] \in Pools /\ pools[id].version = config.version
  <2>1. config.pools[id - api.next] \in Specs
    <3>1. id - api.next \in 1 .. n
      BY <1>1
    <3> QED
      BY <1>1, <3>1
  <2> QED
    BY <1>1, <2>1, SpecIs DEF NewPool, Pools
<1>5. DOMAIN pools = api.next + 1 .. api.next + n
  OBVIOUS
<1>6. /\ api' = [exists |-> TRUE, version |-> config.version, next |-> api.next + n,
                 pools |-> pools]
      /\ api'.pools = pools /\ api'.version = config.version /\ api'.next = api.next + n
  <2>1. api' = [api EXCEPT !.exists = TRUE, !.version = config.version,
                           !.next = @ + n, !.pools = pools]
    BY DEF CreateCluster
  <2> HIDE DEF pools, n
  <2> QED
    BY <2>1 DEF IInv, TypeOK
<1> HIDE DEF pools, n
<1>7. pools \in [DOMAIN pools -> Pools]
  <2>1. pools = [id \in DOMAIN pools |-> pools[id]]
    BY DEF pools
  <2> QED
    BY <1>4, <1>5, <2>1
<1>8. TypeOK'
  <2>1. DOMAIN pools \subseteq 1 .. api'.next
    BY <1>1, <1>5, <1>6
  <2> QED
    BY <1>1, <1>2, <1>3, <1>6, <1>7, <2>1, api.next + n \in Nat DEF IInv, TypeOK
<1>9. UpToDate'
  BY <1>4, <1>5, <1>6 DEF UpToDate
<1>10. OldInv' /\ OwnInv' /\ ChangesInv' /\ VersionInv'
  BY <1>2, <1>9 DEF OldInv, OwnInv, ChangesInv, VersionInv, UpdateSteps
<1> QED
  BY <1>8, <1>10 DEF IInv

LEMMA RefreshedIs ==
    ASSUME TypeOK, NEW declared \in Seq(Declared), NEW tags,
           NEW pools \in ReadPools(declared, tags), NEW s \in StateRecord
    PROVE  [s EXCEPT !.version = api.version, !.pools = pools] \in StateRecord
<1>1. pools \in Seq(Declared) /\ api.version \in Versions
  BY ReadPoolsAre, TypesOf
<1> QED
  BY <1>1 DEF StateRecord

LEMMA CreateReadInv ==
    ASSUME IInv, CreateRead
    PROVE  IInv'
<1>1. op' \in OpRecord /\ op'.pc = "idle"
  BY ReturnIs DEF CreateRead
<1>2. state' \in StateRecord
  <2>1. PICK pools \in ReadPools(state.pools, state.tags) : state' = Refreshed(pools)
    BY DEF CreateRead
  <2> QED
    BY <2>1, RefreshedIs, TypesOf DEF IInv, Refreshed
<1>3. TypeOK'
  BY <1>1, <1>2 DEF IInv, TypeOK, CreateRead
<1> QED
  BY <1>1, <1>3, IdleInv DEF UpdateSteps

LEMMA NoPools ==
    ASSUME TypeOK, api' = [api EXCEPT !.exists = FALSE, !.pools = <<>>]
    PROVE  /\ api' \in [exists : BOOLEAN, version : Versions, next : Nat,
                        pools : [DOMAIN api'.pools -> Pools]]
           /\ DOMAIN api'.pools = {} /\ api'.next = api.next
<1>1. <<>> \in [{} -> Pools]
  OBVIOUS
<1>2. api'.pools = <<>> /\ api'.next = api.next
  BY DEF TypeOK
<1> QED
  BY <1>1, <1>2, EmptyPools DEF TypeOK

LEMMA DeleteClusterInv ==
    ASSUME IInv, DeleteCluster
    PROVE  IInv'
<1>1. op' \in OpRecord /\ op'.pc = "deleting"
  BY GotoIs, TypesOf DEF IInv, DeleteCluster
<1>2. TypeOK'
  BY <1>1, NoPools DEF IInv, TypeOK, DeleteCluster
<1> QED
  BY <1>1, <1>2, IdleInv DEF UpdateSteps

LEMMA DeletedInv ==
    ASSUME IInv, Deleted
    PROVE  IInv'
<1>1. op' \in OpRecord /\ op'.pc = "create"
  BY GotoIs, TypesOf DEF IInv, Deleted
<1>2. state' \in StateRecord
  BY TypesOf, EmptyPools DEF IInv, Deleted, StateRecord
<1>3. TypeOK'
  BY <1>1, <1>2 DEF IInv, TypeOK, Deleted
<1> QED
  BY <1>1, <1>3, IdleInv DEF UpdateSteps

-----------------------------------------------------------------------------
(* Update. *)

LEMMA UpdateClusterInv ==
    ASSUME IInv, UpdateCluster
    PROVE  IInv'
<1>1. /\ op \in OpRecord /\ op.pc = "cluster" /\ state' = state /\ config' = config
      /\ budget' = budget /\ config.version \in Versions /\ api.next \in Nat
  BY TypesOf DEF IInv, UpdateCluster
<1>2. /\ op' \in OpRecord /\ op'.pc = "list" /\ op'.old = op.old /\ op'.upgrade = op.upgrade
      /\ op'.fresh = op.fresh /\ op'.drift = op.drift
  BY <1>1, GotoIs DEF UpdateCluster
<1>3. /\ api' \in [exists : BOOLEAN, version : Versions, next : Nat,
                   pools : [DOMAIN api.pools -> Pools]]
      /\ api'.pools = api.pools /\ api'.next = api.next
      /\ ~op.upgrade => api' = api
  BY <1>1 DEF IInv, TypeOK, UpdateCluster
<1>4. TypeOK'
  BY <1>1, <1>2, <1>3 DEF IInv, TypeOK
<1>5. OldInv' /\ OwnInv'
  BY <1>1, <1>2, <1>3, StillOwn DEF UpdateSteps
<1>6. ChangesInv'
  BY <1>2 DEF ChangesInv
<1>7. VersionInv'
  <2>1. ~op.upgrade => UpToDate' = UpToDate
    BY <1>3 DEF UpToDate
  <2> QED
    BY <1>1, <1>2, <2>1 DEF IInv, VersionInv
<1> QED
  BY <1>4, <1>5, <1>6, <1>7 DEF IInv

LEMMA ListPoolsInv ==
    ASSUME IInv, ListPools
    PROVE  IInv'
<1>1. op \in OpRecord /\ op.pc = "list" /\ DOMAIN api.pools \subseteq Nat
  BY TypesOf DEF IInv, ListPools
<1>2. /\ op' \in OpRecord /\ op'.pc = (IF op.upgrade THEN "recycle" ELSE "reconcile")
      /\ op'.old = op.old /\ op'.upgrade = op.upgrade
      /\ op'.fresh = op.fresh /\ op'.drift = op.drift
  BY <1>1 DEF ListPools, OpRecord
<1>3. op.pc \in UpdateSteps /\ op'.pc \in UpdateSteps \ {"pools"}
  BY <1>1, <1>2 DEF UpdateSteps
<1> QED
  BY <1>1, <1>2, <1>3, QuietStep DEF ListPools

LEMMA RecycleNodesInv ==
    ASSUME IInv, RecycleNodes
    PROVE  IInv'
<1>1. /\ op \in OpRecord /\ op.pc = "recycle" /\ state' = state /\ config' = config
      /\ budget' = budget /\ api.version \in Versions /\ api.next \in Nat
  BY TypesOf DEF IInv, RecycleNodes
<1>2. /\ op' \in OpRecord /\ op'.pc = "recycling" /\ op'.old = op.old
      /\ op'.upgrade = op.upgrade /\ op'.fresh = op.fresh /\ op'.drift = op.drift
  BY <1>1, GotoIs DEF RecycleNodes
<1> DEFINE pools == [id \in DOMAIN api.pools |->
                        [api.pools[id] EXCEPT !.version = api.version]]
<1>3. ASSUME NEW id \in DOMAIN api.pools
      PROVE  /\ pools[id] \in Pools /\ pools[id].version = api.version
             /\ pools[id].external = api.pools[id].external
  <2>1. api.pools[id] \in Pools
    BY TypesOf DEF IInv
  <2> QED
    BY <1>1, <2>1 DEF Pools
<1>4. pools \in [DOMAIN api.pools -> Pools]
  BY <1>3
<1>5. api' = [api EXCEPT !.pools = pools]
  BY DEF RecycleNodes
<1> HIDE DEF pools
<1>6. /\ api' \in [exists : BOOLEAN, version : Versions, next : Nat,
                   pools : [DOMAIN api.pools -> Pools]]
      /\ api'.pools = pools /\ api'.next = api.next /\ api'.version = api.version
  BY <1>4, <1>5 DEF IInv, TypeOK
<1>7. DOMAIN pools = DOMAIN api.pools
  BY <1>4
<1>8. TypeOK'
  BY <1>1, <1>2, <1>6, <1>7 DEF IInv, TypeOK
<1>9. OldInv' /\ OwnInv'
  BY <1>1, <1>2, <1>3, <1>6, <1>7, StillOwn DEF UpdateSteps
<1>10. ChangesInv' /\ VersionInv'
  <2>1. UpToDate'
    BY <1>3, <1>6, <1>7 DEF UpToDate
  <2> QED
    BY <1>2, <2>1 DEF ChangesInv, VersionInv
<1> QED
  BY <1>8, <1>9, <1>10 DEF IInv

LEMMA RecycledInv ==
    ASSUME IInv, Recycled
    PROVE  IInv'
<1>1. op \in OpRecord /\ op.pc = "recycling"
  BY TypesOf DEF IInv, Recycled
<1>2. /\ op' \in OpRecord /\ op'.pc = "reconcile" /\ op'.old = op.old
      /\ op'.upgrade = op.upgrade /\ op'.fresh = op.fresh /\ op'.drift = op.drift
  BY <1>1, GotoIs DEF Recycled
<1>3. op.pc \in UpdateSteps /\ op'.pc \in UpdateSteps \ {"pools"}
  BY <1>1, <1>2 DEF UpdateSteps
<1> QED
  BY <1>1, <1>2, <1>3, QuietStep DEF Recycled

LEMMA PoolsUpdatedInv ==
    ASSUME IInv, PoolsUpdated
    PROVE  IInv'
<1>1. op \in OpRecord /\ op.pc = "pools"
  BY TypesOf DEF IInv, PoolsUpdated
<1>2. /\ op' \in OpRecord /\ op'.pc = "wait" /\ op'.old = op.old
      /\ op'.upgrade = op.upgrade /\ op'.fresh = op.fresh /\ op'.drift = op.drift
  BY <1>1, GotoIs DEF PoolsUpdated
<1>3. op.pc \in UpdateSteps /\ op'.pc \in UpdateSteps \ {"pools"}
  BY <1>1, <1>2 DEF UpdateSteps
<1> QED
  BY <1>1, <1>2, <1>3, QuietStep DEF PoolsUpdated

\* An ID of the state stands at one place only.
LEMMA UnchangedAt ==
    ASSUME IInv, op.pc \in UpdateSteps, NEW i \in DOMAIN op.old, op.old[i].id # 0,
           op.old[i].id \in Unchanged
    PROVE  i \in DOMAIN PlannedPools /\ op.old[i] = PlannedPools[i]
<1>1. PICK j \in DOMAIN op.old \cap DOMAIN PlannedPools :
         op.old[j] = PlannedPools[j] /\ op.old[i].id = op.old[j].id
  BY DEF Unchanged
<1>2. i = j
  BY <1>1 DEF IInv, OldInv
<1> QED
  BY <1>1, <1>2

\* What Reconcile compares: the old pools that have an ID, in their order.
LEMMA KeptIs ==
    ASSUME IInv, op.pc = "reconcile", NEW kept \in Ascending({i \in DOMAIN op.old : op.old[i].id # 0}),
           NEW old, old = [i \in DOMAIN kept |-> op.old[kept[i]]]
    PROVE  /\ old \in Seq(Present) /\ Len(old) = Len(kept) /\ DOMAIN old = 1 .. Len(old)
           /\ \A i \in DOMAIN old : kept[i] \in DOMAIN op.old /\ old[i] = op.old[kept[i]]
                                    /\ old[i].id # 0
           /\ Hole \notin Range(op.old) => \A i \in DOMAIN old : kept[i] = i
<1> DEFINE S == {i \in DOMAIN op.old : op.old[i].id # 0}
<1> DEFINE n == Len(op.old)
<1>1. n \in Nat /\ DOMAIN op.old = 1 .. n /\ \A i \in 1 .. n : op.old[i] \in Declared
  BY TypesOf DEF IInv
<1>2. S \in SUBSET (1 .. n)
  BY <1>1
<1>3. /\ Cardinality(S) \in Nat /\ kept \in [1 .. Cardinality(S) -> S]
      /\ Len(kept) = Cardinality(S)
  <2> HIDE DEF S, n
  <2>1. kept \in Ascending(S)
    BY DEF S
  <2> QED
    BY <1>1, <1>2, <2>1, AscendingIs
<1>4. \A i \in S : op.old[i] \in Present
  BY <1>1, <1>2 DEF Declared, Hole
<1>5. old \in [1 .. Cardinality(S) -> Present]
  <2> HIDE DEF S, n
  <2> QED
    BY <1>3, <1>4
<1>6. old \in Seq(Present) /\ Len(old) = Cardinality(S) /\ DOMAIN old = 1 .. Len(old)
  <2> HIDE DEF S, n
  <2> QED
    BY <1>3, <1>5
<1>7. \A i \in DOMAIN old : kept[i] \in S /\ old[i] = op.old[kept[i]]
  <2> HIDE DEF S, n
  <2> QED
    BY <1>3, <1>6
<1>8. ASSUME Hole \notin Range(op.old)
      PROVE  \A i \in DOMAIN old : kept[i] = i
  <2>1. ASSUME NEW i \in 1 .. n
        PROVE  op.old[i].id # 0
    <3>1. op.old[i] \in Range(op.old) /\ op.old[i] # Hole
      BY <1>1, <1>8 DEF Range
    <3> QED
      BY <1>1, <3>1 DEF IInv, OldInv, UpdateSteps
  <2>2. S = 1 .. n
    BY <1>1, <2>1
  <2>3. kept \in Ascending(1 .. n)
    BY <2>2
  <2>4. Len(kept) = n /\ \A i \in 1 .. n : kept[i] = i
    BY <1>1, <2>3, AscendingAll
  <2> QED
    BY <1>3, <1>6, <2>4
<1> QED
  BY <1>3, <1>6, <1>7, <1>8

\* A function on 1 .. d is a sequence, if need be the empty one.
LEMMA UpTo ==
    ASSUME NEW d \in Int, NEW S, NEW f \in [1 .. d -> S]
    PROVE  f \in Seq(S)
<1>1. CASE d >= 0
  BY <1>1
<1>2. CASE d < 0
  <2>1. 1 .. d = 1 .. 0
    BY <1>2
  <2>2. f \in [1 .. 0 -> S]
    BY <2>1
  <2> QED
    BY <2>2
<1> QED
  BY <1>1, <1>2

LEMMA ReconcileInv ==
    ASSUME IInv, Reconcile
    PROVE  IInv'
<1>1. /\ op \in OpRecord /\ op.pc = "reconcile" /\ op.pc \in UpdateSteps
      /\ api' = api /\ state' = state /\ config' = config /\ budget' = budget
      /\ config.pools \in Seq(Specs) /\ api.next \in Nat
  BY TypesOf DEF IInv, Reconcile, UpdateSteps
<1>2. PICK kept \in Ascending({i \in DOMAIN op.old : op.old[i].id # 0}) :
         LET old    == [i \in DOMAIN kept |-> op.old[kept[i]]]
             new    == PlannedPools
             common == DOMAIN old \cap DOMAIN new
             Swap   == {i \in common : Replaced(old[i], new[i])}
         IN  \E swaps \in Ascending(Swap) :
               op' = [op EXCEPT !.pc = "pools",
                  !.toUpdate = {[new[i] EXCEPT !.id = old[i].id] :
                                   i \in {i \in common \ Swap : new[i] # old[i]}},
                  !.toCreate = SubSeq(config.pools, Len(old) + 1, Len(new))
                                  \o [i \in DOMAIN swaps |-> config.pools[swaps[i]]],
                  !.toDelete = Surplus(old, new)
                                  \o [i \in DOMAIN swaps |-> old[swaps[i]].id]]
  BY DEF Reconcile
<1> DEFINE old     == [i \in DOMAIN kept |-> op.old[kept[i]]]
<1> DEFINE new     == PlannedPools
<1> DEFINE Swap    == {i \in DOMAIN old \cap DOMAIN new : Replaced(old[i], new[i])}
<1> DEFINE updates == {[new[i] EXCEPT !.id = old[i].id] :
                          i \in {i \in (DOMAIN old \cap DOMAIN new) \ Swap : new[i] # old[i]}}
<1>3. PICK swaps \in Ascending(Swap) :
         op' = [op EXCEPT !.pc = "pools", !.toUpdate = updates,
                  !.toCreate = SubSeq(config.pools, Len(old) + 1, Len(new))
                                  \o [i \in DOMAIN swaps |-> config.pools[swaps[i]]],
                  !.toDelete = Surplus(old, new)
                                  \o [i \in DOMAIN swaps |-> old[swaps[i]].id]]
  BY <1>2
<1> DEFINE again   == [i \in DOMAIN swaps |-> config.pools[swaps[i]]]
<1> DEFINE creates == SubSeq(config.pools, Len(old) + 1, Len(new)) \o again
<1> DEFINE away    == [i \in DOMAIN swaps |-> old[swaps[i]].id]
<1> DEFINE deletes == Surplus(old, new) \o away
<1> DEFINE C       == {id \in Nat : Changes(id)}
<1>4. op' = [op EXCEPT !.pc = "pools", !.toUpdate = updates, !.toCreate = creates,
                       !.toDelete = deletes]
  BY <1>3
<1>5. /\ old \in Seq(Present) /\ DOMAIN old = 1 .. Len(old) /\ Len(old) \in Nat
      /\ \A i \in DOMAIN old : kept[i] \in DOMAIN op.old /\ old[i] = op.old[kept[i]]
                               /\ old[i].id # 0
      /\ Hole \notin Range(op.old) => \A i \in DOMAIN old : kept[i] = i
  BY <1>1, KeptIs DEF IInv
<1>6. /\ new \in Seq(Present) /\ Len(new) = Len(config.pools) /\ Len(new) \in Nat
      /\ DOMAIN new = 1 .. Len(new) /\ DOMAIN config.pools = 1 .. Len(new)
  BY <1>1, PlannedIs DEF IInv
<1>7. Swap \subseteq DOMAIN old /\ Swap \subseteq DOMAIN new
      /\ \A i \in Swap : old[i] # new[i]
  BY DEF Replaced
<1>8. updates \subseteq {[new[i] EXCEPT !.id = old[i].id] :
                             i \in {i \in DOMAIN old \cap DOMAIN new : new[i] # old[i]}}
  OBVIOUS
<1>9. swaps \in Seq(Swap) /\ DOMAIN swaps = 1 .. Len(swaps) /\ Len(swaps) \in Nat
  <2>1. Swap \in SUBSET (1 .. Len(old))
    BY <1>5, <1>7
  <2> HIDE DEF Swap, old
  <2>2. swaps \in Seq(Swap)
    BY <1>5, <2>1, AscendingIs
  <2> QED
    BY <2>2
<1>10. op' \in [pc : {"pools"}, recycling : {op.recycling}, old : {op.old},
                toUpdate : {updates}, toCreate : {creates}, toDelete : {deletes},
                updated : {op.updated}, upgrade : {op.upgrade}, fresh : {op.fresh},
                drift : {op.drift}, result : {op.result}]
  <2> HIDE DEF updates, creates, deletes
  <2> QED
    BY <1>1, <1>4 DEF OpRecord
<1>11. again \in Seq(Specs)
  <2>1. \A i \in DOMAIN swaps : config.pools[swaps[i]] \in Specs
    <3> HIDE DEF Swap, old, new
    <3> QED
      BY <1>1, <1>6, <1>7, <1>9
  <2> HIDE DEF Swap, old, new
  <2> QED
    BY <1>9, <2>1
<1> HIDE DEF old, Swap
<1>12. ASSUME NEW i \in DOMAIN old, i \in DOMAIN new => old[i] # new[i]
       PROVE  old[i].id \in C
  <2>1. old[i].id \in Nat /\ old[i].id # 0
    <3>1. old[i] \in Present /\ old[i].id # 0
      BY <1>5
    <3> QED
      BY <3>1 DEF Present
  <2>2. \E j \in DOMAIN op.old : op.old[j].id = old[i].id
    BY <1>5
  <2>3. ASSUME Hole \notin Range(op.old), old[i].id \in Unchanged
        PROVE  FALSE
    <3>1. i \in DOMAIN op.old /\ old[i] = op.old[i]
      BY <1>5, <2>3
    <3>2. i \in DOMAIN new /\ old[i] = new[i]
      BY <1>1, <2>1, <2>3, <3>1, UnchangedAt
    <3> QED
      BY <1>12, <3>2
  <2> HIDE DEF new
  <2> QED
    BY <2>1, <2>2, <2>3 DEF Changes
<1> HIDE DEF new
<1>13. updates \subseteq Present /\ \A pool \in updates : pool.id \in C
  <2>1. ASSUME NEW i \in DOMAIN old \cap DOMAIN new, new[i] # old[i]
        PROVE  /\ [new[i] EXCEPT !.id = old[i].id] \in Present
               /\ [new[i] EXCEPT !.id = old[i].id].id \in C
    <3>1. old[i].id \in C /\ new[i] \in Present
      BY <1>6, <1>12, <2>1
    <3> HIDE DEF C
    <3>2. old[i].id \in Nat
      BY <3>1 DEF C
    <3> QED
      BY <3>1, <3>2 DEF Present
  <2> HIDE DEF updates, C
  <2> QED
    BY <1>8, <2>1
<1>14. creates \in Seq(Specs)
  <2>1. \A i \in Len(old) + 1 .. Len(new) : config.pools[i] \in Specs
    BY <1>1, <1>5, <1>6
  <2>2. Len(old) + 1 \in Int /\ Len(new) \in Int
    BY <1>5, <1>6
  <2>3. SubSeq(config.pools, Len(old) + 1, Len(new)) \in Seq(Specs)
    BY <2>1, <2>2, SubSeqProperties
  <2> HIDE DEF again
  <2> QED
    BY <1>11, <2>3, ConcatProperties
<1>15. deletes \in Seq(C)
  <2>1. ASSUME NEW i \in 1 .. Len(old) - Len(new)
        PROVE  old[Len(new) + i].id \in C
    <3>1. Len(new) + i \in DOMAIN old /\ Len(new) + i \notin DOMAIN new
      BY <1>5, <1>6
    <3> QED
      BY <1>12, <3>1
  <2>2. Surplus(old, new) \in Seq(C)
    <3> HIDE DEF C
    <3>1. Surplus(old, new) \in [1 .. Len(old) - Len(new) -> C]
      BY <2>1 DEF Surplus
    <3>2. Len(old) - Len(new) \in Int
      BY <1>5, <1>6
    <3> QED
      BY <3>1, <3>2, UpTo
  <2>3. ASSUME NEW i \in DOMAIN swaps
        PROVE  old[swaps[i]].id \in C
    <3>1. swaps[i] \in Swap
      BY <1>9
    <3> QED
      BY <1>7, <1>12, <3>1
  <2>4. away \in Seq(C)
    <3> HIDE DEF C
    <3> QED
      BY <1>9, <2>3
  <2> HIDE DEF C, away
  <2> QED
    BY <2>2, <2>4, ConcatProperties
<1> HIDE DEF updates, creates, deletes
<1>16. TypeOK'
  <2>1. deletes \in Seq(Nat)
    <3>1. C \subseteq Nat
      OBVIOUS
    <3> HIDE DEF C
    <3>2. Len(deletes) \in Nat /\ deletes \in [1 .. Len(deletes) -> C]
      BY <1>15
    <3>3. deletes \in [1 .. Len(deletes) -> Nat]
      BY <3>1, <3>2
    <3> QED
      BY <3>2, <3>3
  <2>2. op' \in OpRecord
    BY <1>1, <1>10, <1>13, <1>14, <2>1 DEF OpRecord
  <2> QED
    BY <1>1, <2>2 DEF IInv, TypeOK
<1>17. OldInv' /\ OwnInv'
  BY <1>1, <1>10, StillOwn
<1>18. ChangesInv'
  <2>1. \A id \in C : Changes(id)'
    BY <1>1, <1>10, SameChanges
  <2>2. \A i \in DOMAIN deletes : deletes[i] \in C
    <3> HIDE DEF C
    <3> QED
      BY <1>15
  <2> HIDE DEF C
  <2> QED
    BY <1>10, <1>13, <2>1, <2>2 DEF ChangesInv
<1>19. VersionInv'
  <2>1. UpToDate' = UpToDate
    BY <1>1 DEF UpToDate
  <2> QED
    BY <1>1, <1>10, <2>1 DEF IInv, VersionInv
<1> QED
  BY <1>16, <1>17, <1>18, <1>19 DEF IInv

\* The steps that work off the plan of an update.
LEMMA UpdatePoolInv ==
    ASSUME IInv, UpdatePool
    PROVE  IInv'
<1>1. /\ op \in OpRecord /\ op.pc = "pools" /\ state' = state /\ config' = config
      /\ budget' = budget /\ api.next \in Nat /\ op.pc \in UpdateSteps
      /\ op.toUpdate \subseteq Present
  BY TypesOf DEF IInv, UpdatePool, UpdateSteps
<1>2. PICK pool \in op.toUpdate :
         /\ pool.id \in DOMAIN api.pools
         /\ api' = [api EXCEPT !.pools[pool.id].count = pool.count,
                               !.pools[pool.id].external = FALSE]
         /\ op' = [op EXCEPT !.toUpdate = @ \ {pool}, !.updated = @ \cup {pool.id}]
  BY DEF UpdatePool
<1> DEFINE pools == [api.pools EXCEPT ![pool.id].count = pool.count,
                                      ![pool.id].external = FALSE]
<1>3. pool.id \in Nat /\ pool.count \in Counts
  <2>1. pool \in Present
    BY <1>1
  <2> QED
    BY <2>1 DEF Present
<1>4. api.pools = [id \in DOMAIN api.pools |-> api.pools[id]]
      /\ \A id \in DOMAIN api.pools : api.pools[id] \in Pools
  BY DEF IInv, TypeOK
<1>5. DOMAIN pools = DOMAIN api.pools
  BY <1>4
<1>6. ASSUME NEW id \in DOMAIN api.pools
      PROVE  /\ pools[id] \in Pools /\ pools[id].version = api.pools[id].version
             /\ pools[id].external => api.pools[id].external
  <2>1. api.pools[id] \in Pools
    BY <1>4
  <2>2. CASE id = pool.id
    <3>1. pools[id] = [api.pools[id] EXCEPT !.count = pool.count, !.external = FALSE]
      BY <1>2, <1>4, <2>2
    <3> QED
      BY <1>3, <2>1, <3>1 DEF Pools
  <2>3. CASE id # pool.id
    BY <1>4, <2>1, <2>3
  <2> QED
    BY <2>2, <2>3
<1>7. api' = [api EXCEPT !.pools = pools]
  BY <1>2 DEF IInv, TypeOK
<1>8. pools = [id \in DOMAIN pools |-> pools[id]]
  BY <1>4
<1> HIDE DEF pools
<1>9. /\ api' \in [exists : BOOLEAN, version : Versions, next : Nat,
                   pools : [DOMAIN api.pools -> Pools]]
      /\ api'.pools = pools /\ api'.next = api.next /\ api'.version = api.version
  <2>1. pools \in [DOMAIN api.pools -> Pools]
    BY <1>5, <1>6, <1>8
  <2> QED
    BY <1>7, <2>1 DEF IInv, TypeOK
<1>10. /\ op' \in OpRecord /\ op'.pc = "pools" /\ op'.old = op.old
       /\ op'.toUpdate \subseteq op.toUpdate /\ op'.toDelete = op.toDelete
       /\ op'.fresh = op.fresh /\ op'.drift = op.drift
  BY <1>1, <1>2, <1>3 DEF OpRecord
<1>11. TypeOK'
  BY <1>1, <1>5, <1>9, <1>10 DEF IInv, TypeOK
<1>12. OldInv' /\ OwnInv'
  BY <1>1, <1>5, <1>6, <1>9, <1>10, StillOwn
<1>13. ChangesInv'
  <2>1. \A id : Changes(id)' = Changes(id)
    BY <1>1, <1>10, SameChanges
  <2> QED
    BY <1>1, <1>10, <2>1 DEF IInv, ChangesInv
<1>14. VersionInv'
  <2>1. UpToDate' = UpToDate
    BY <1>5, <1>6, <1>9 DEF UpToDate
  <2> QED
    BY <1>1, <1>10, <2>1 DEF IInv, VersionInv
<1> QED
  BY <1>11, <1>12, <1>13, <1>14 DEF IInv

\* A new pool gets an ID no pool had.
LEMMA AddedIs ==
    ASSUME TypeOK, NEW spec \in Specs, NEW external \in BOOLEAN, api' = Added(spec, external)
    PROVE  /\ api' \in [exists : BOOLEAN, version : Versions, next : Nat,
                        pools : [DOMAIN api'.pools -> Pools]]
           /\ DOMAIN api'.pools = DOMAIN api.pools \cup {api.next + 1}
           /\ DOMAIN api'.pools \subseteq 1 .. api'.next
           /\ api'.next = api.next + 1 /\ api'.version = api.version
           /\ \A id \in DOMAIN api.pools : id <= api.next /\ api'.pools[id] = api.pools[id]
           /\ api'.pools[api.next + 1].version = api.version
           /\ api.next + 1 \notin DOMAIN api.pools
<1> DEFINE ids == DOMAIN api.pools \cup {api.next + 1}
<1> DEFINE pools == [id \in ids |-> IF id \in DOMAIN api.pools THEN api.pools[id]
                                    ELSE NewPool(spec, external)]
<1>1. /\ api.next \in Nat /\ api.version \in Versions
      /\ \A id \in DOMAIN api.pools : id \in 1 .. api.next /\ api.pools[id] \in Pools
  BY TypesOf
<1>2. NewPool(spec, external) \in Pools /\ NewPool(spec, external).version = api.version
  BY <1>1, SpecIs DEF NewPool, Pools
<1>3. pools \in [ids -> Pools]
  BY <1>1, <1>2
<1>4. \A id \in ids : pools[id] = IF id \in DOMAIN api.pools THEN api.pools[id]
                                  ELSE NewPool(spec, external)
  OBVIOUS
<1>5. api.next + 1 \notin DOMAIN api.pools /\ ids \subseteq 1 .. api.next + 1
  BY <1>1
<1>6. api' = [api EXCEPT !.next = api.next + 1, !.pools = pools]
  BY DEF Added
<1>7. /\ api' \in [exists : BOOLEAN, version : Versions, next : Nat, pools : [ids -> Pools]]
      /\ api'.pools = pools /\ api'.next = api.next + 1 /\ api'.version = api.version
  <2> HIDE DEF pools, ids
  <2>1. api.next + 1 \in Nat
    BY <1>1
  <2> QED
    BY <1>3, <1>6, <2>1 DEF TypeOK
<1>8. DOMAIN api'.pools = ids
  BY <1>3, <1>7
<1> HIDE DEF pools
<1> QED
  BY <1>1, <1>2, <1>4, <1>5, <1>7, <1>8

LEMMA CreatePoolInv ==
    ASSUME IInv, CreatePool
    PROVE  IInv'
<1>1. /\ op \in OpRecord /\ op.pc = "pools" /\ state' = state /\ config' = config
      /\ budget' = budget /\ api.next \in Nat /\ op.pc \in UpdateSteps
      /\ op.toCreate \in Seq(Specs) /\ op.toCreate # <<>>
      /\ op' = [op EXCEPT !.toCreate = Tail(@), !.updated = @ \cup {api.next + 1}]
  BY TypesOf DEF IInv, CreatePool, UpdateSteps
<1>2. Head(op.toCreate) \in Specs /\ Tail(op.toCreate) \in Seq(Specs)
  BY <1>1
<1>3. /\ op' \in OpRecord /\ op'.pc = "pools" /\ op'.old = op.old
      /\ op'.toUpdate = op.toUpdate /\ op'.toDelete = op.toDelete
      /\ op'.fresh = op.fresh /\ op'.drift = op.drift
  <2> DEFINE rest == Tail(op.toCreate)
  <2> DEFINE done == op.updated \cup {api.next + 1}
  <2>1. op' = [op EXCEPT !.toCreate = rest, !.updated = done]
    BY <1>1
  <2>2. rest \in Seq(Specs) /\ done \in SUBSET Nat
    BY <1>1, <1>2 DEF OpRecord
  <2> HIDE DEF rest, done
  <2> QED
    BY <1>1, <2>1, <2>2 DEF OpRecord
<1>4. /\ api' \in [exists : BOOLEAN, version : Versions, next : Nat,
                   pools : [DOMAIN api'.pools -> Pools]]
      /\ DOMAIN api'.pools = DOMAIN api.pools \cup {api.next + 1}
      /\ DOMAIN api'.pools \subseteq 1 .. api'.next
      /\ api'.next = api.next + 1 /\ api'.version = api.version
      /\ \A id \in DOMAIN api.pools : id <= api.next /\ api'.pools[id] = api.pools[id]
      /\ api'.pools[api.next + 1].version = api.version
  BY <1>2, AddedIs DEF IInv, CreatePool
<1>5. TypeOK'
  BY <1>1, <1>3, <1>4 DEF IInv, TypeOK
<1>6. OldInv' /\ OwnInv'
  <2>1. \A id \in DOMAIN api'.pools : id <= api.next => id \in DOMAIN api.pools
    BY <1>1, <1>4
  <2> QED
    BY <1>1, <1>3, <1>4, <2>1, StillOwn
<1>7. ChangesInv'
  <2>1. \A id : Changes(id)' = Changes(id)
    BY <1>1, <1>3, SameChanges
  <2> QED
    BY <1>1, <1>3, <2>1 DEF IInv, ChangesInv
<1>8. VersionInv'
  <2>1. UpToDate => UpToDate'
    BY <1>4 DEF UpToDate
  <2> QED
    BY <1>1, <1>3, <2>1 DEF IInv, VersionInv
<1> QED
  BY <1>5, <1>6, <1>7, <1>8 DEF IInv

LEMMA RemovedIs ==
    ASSUME TypeOK, NEW gone, api' = Removed(gone)
    PROVE  /\ api' \in [exists : BOOLEAN, version : Versions, next : Nat,
                        pools : [DOMAIN api'.pools -> Pools]]
           /\ DOMAIN api'.pools = DOMAIN api.pools \ {gone}
           /\ DOMAIN api'.pools \subseteq 1 .. api'.next
           /\ api'.next = api.next /\ api'.version = api.version
           /\ \A id \in DOMAIN api'.pools : api'.pools[id] = api.pools[id]
<1> DEFINE ids == DOMAIN api.pools \ {gone}
<1> DEFINE pools == [id \in ids |-> api.pools[id]]
<1>1. /\ \A id \in DOMAIN api.pools : id \in 1 .. api.next /\ api.pools[id] \in Pools
  BY TypesOf
<1>2. pools \in [ids -> Pools] /\ ids \subseteq 1 .. api.next
  BY <1>1
<1>3. api' = [api EXCEPT !.pools = pools]
  BY DEF Removed, Restrict
<1>4. /\ api' \in [exists : BOOLEAN, version : Versions, next : Nat, pools : [ids -> Pools]]
      /\ api'.pools = pools /\ api'.next = api.next /\ api'.version = api.version
  <2> HIDE DEF pools, ids
  <2> QED
    BY <1>2, <1>3 DEF TypeOK
<1> QED
  BY <1>2, <1>4

LEMMA DeletePoolInv ==
    ASSUME IInv, DeletePool
    PROVE  IInv'
<1>1. /\ op \in OpRecord /\ op.pc = "pools" /\ state' = state /\ config' = config
      /\ budget' = budget /\ api.next \in Nat /\ op.pc \in UpdateSteps
      /\ op.toDelete \in Seq(Nat) /\ op.toDelete # <<>>
      /\ op' = [op EXCEPT !.toDelete = Tail(@)]
  BY TypesOf DEF IInv, DeletePool, UpdateSteps
<1>2. /\ Tail(op.toDelete) \in Seq(Nat)
      /\ \A i \in DOMAIN Tail(op.toDelete) :
            i + 1 \in DOMAIN op.toDelete /\ Tail(op.toDelete)[i] = op.toDelete[i + 1]
  BY <1>1
<1>3. /\ op' \in OpRecord /\ op'.pc = "pools" /\ op'.old = op.old
      /\ op'.toUpdate = op.toUpdate /\ op'.toDelete = Tail(op.toDelete)
      /\ op'.fresh = op.fresh /\ op'.drift = op.drift
  BY <1>1, <1>2 DEF OpRecord
<1>4. /\ api' \in [exists : BOOLEAN, version : Versions, next : Nat,
                   pools : [DOMAIN api'.pools -> Pools]]
      /\ DOMAIN api'.pools \subseteq DOMAIN api.pools
      /\ DOMAIN api'.pools \subseteq 1 .. api'.next
      /\ api'.next = api.next /\ api'.version = api.version
      /\ \A id \in DOMAIN api'.pools : api'.pools[id] = api.pools[id]
  BY RemovedIs DEF IInv, DeletePool
<1>5. TypeOK'
  BY <1>1, <1>3, <1>4 DEF IInv, TypeOK
<1>6. OldInv' /\ OwnInv'
  <2>1. \A id \in DOMAIN api'.pools : id \in DOMAIN api.pools
                                      /\ (api'.pools[id].external => api.pools[id].external)
    BY <1>4
  <2> QED
    BY <1>1, <1>3, <1>4, <2>1, StillOwn
<1>7. ChangesInv'
  <2>1. \A id : Changes(id)' = Changes(id)
    BY <1>1, <1>3, SameChanges
  <2> QED
    BY <1>1, <1>2, <1>3, <2>1 DEF IInv, ChangesInv
<1>8. VersionInv'
  <2>1. UpToDate => UpToDate'
    BY <1>4 DEF UpToDate
  <2> QED
    BY <1>1, <1>3, <2>1 DEF IInv, VersionInv
<1> QED
  BY <1>5, <1>6, <1>7, <1>8 DEF IInv

LEMMA UpdateReadInv ==
    ASSUME IInv, UpdateRead
    PROVE  IInv'
<1>1. op' \in OpRecord /\ op'.pc = "idle"
  BY ReturnIs DEF UpdateRead
<1>2. state' \in StateRecord
  <2>1. PICK pools \in ReadPools(PlannedPools, config.tags) :
           state' = [Planned EXCEPT !.version = api.version, !.pools = pools]
    BY DEF UpdateRead
  <2> QED
    BY <2>1, RefreshedIs, PlannedIs DEF IInv
<1>3. TypeOK'
  BY <1>1, <1>2 DEF IInv, TypeOK, UpdateRead
<1> QED
  BY <1>1, <1>3, IdleInv DEF UpdateSteps

LEMMA StepFailsInv ==
    ASSUME IInv, StepFails
    PROVE  IInv'
<1>1. op' \in OpRecord /\ op'.pc = "idle" /\ api' = api /\ config' = config
  BY ReturnIs DEF StepFails
<1>2. state' \in StateRecord
  <2>1. state' \in {state, [state EXCEPT !.tainted = TRUE], Planned}
    <3>1. CASE op.pc \in {"create", "delete", "deleting"}
      BY <3>1 DEF StepFails
    <3>2. CASE op.pc = "ready"
      BY <3>2 DEF StepFails
    <3>3. CASE op.pc \notin {"create", "delete", "deleting", "ready"}
      BY <3>3 DEF StepFails
    <3> QED
      BY <3>1, <3>2, <3>3
  <2>2. state \in StateRecord /\ Planned \in StateRecord
    BY TypesOf, PlannedIs DEF IInv
  <2>3. [state EXCEPT !.tainted = TRUE] \in StateRecord
    BY <2>2 DEF StateRecord
  <2> QED
    BY <2>1, <2>2, <2>3
<1>3. budget' \in [edits : 0 .. MaxEdits, failures : 0 .. MaxFailures]
  <2>1. budget \in [edits : 0 .. MaxEdits, failures : 0 .. MaxFailures]
    BY DEF IInv, TypeOK
  <2>2. CASE budget.failures > 0 /\ budget' = [budget EXCEPT !.failures = @ - 1]
    <3>1. budget.failures - 1 \in 0 .. MaxFailures
      BY <2>1, <2>2, LKEClusterAssumption
    <3> QED
      BY <2>1, <2>2, <3>1
  <2>3. CASE budget' = budget
    BY <2>1, <2>3
  <2> QED
    BY <2>2, <2>3 DEF StepFails
<1>4. TypeOK'
  BY <1>1, <1>2, <1>3 DEF IInv, TypeOK
<1> QED
  BY <1>1, <1>4, IdleInv DEF UpdateSteps

-----------------------------------------------------------------------------
(* Others. *)

LEMMA EditIs ==
    ASSUME TypeOK, Edit
    PROVE  budget' \in [edits : 0 .. MaxEdits, failures : 0 .. MaxFailures]
<1>1. budget \in [edits : 0 .. MaxEdits, failures : 0 .. MaxFailures]
      /\ budget.edits > 0 /\ budget' = [budget EXCEPT !.edits = @ - 1]
  BY DEF Edit, TypeOK
<1>2. budget.edits - 1 \in 0 .. MaxEdits
  BY <1>1, LKEClusterAssumption
<1> QED
  BY <1>1, <1>2

LEMMA ConfigPools ==
    \A c \in Configs : c.pools \in Seq(Specs)
                     /\ c \in [version : Versions, tags : BOOLEAN, pools : Seq(Specs)]
<1>1. BoundedSeq(Specs, MaxPools) \subseteq Seq(Specs)
  BY DEF BoundedSeq, SeqOf
<1> QED
  BY <1>1 DEF Configs

LEMMA ChangeConfigInv ==
    ASSUME IInv, ChangeConfig
    PROVE  IInv'
<1>1. op' \in OpRecord /\ op'.pc = "idle"
  BY TypesOf DEF IInv, ChangeConfig, Idle, OpRecord
<1>2. config' \in [version : Versions, tags : BOOLEAN, pools : Seq(Specs)]
  <2>1. config \in [version : Versions, tags : BOOLEAN, pools : Seq(Specs)]
    BY DEF IInv, TypeOK
  <2>2. ASSUME NEW c \in Configs, config' = [config EXCEPT !.pools = c.pools]
        PROVE  config' \in [version : Versions, tags : BOOLEAN, pools : Seq(Specs)]
    <3>1. c.pools \in Seq(Specs)
      BY ConfigPools
    <3> QED
      BY <2>1, <2>2, <3>1
  <2>3. CASE config' = [config EXCEPT !.version = 2]
    BY <2>1, <2>3 DEF Versions
  <2>4. CASE config' = [config EXCEPT !.tags = ~@]
    BY <2>1, <2>4
  <2> QED
    BY <2>2, <2>3, <2>4 DEF ChangeConfig
<1>3. TypeOK'
  BY <1>1, <1>2, EditIs DEF IInv, TypeOK, ChangeConfig
<1> QED
  BY <1>1, <1>3, IdleInv DEF UpdateSteps

\* A change behind the back of an update ends what VersionInv says of it; none
\* of the pools it goes by becomes another resource's.
LEMMA DriftInv ==
    ASSUME IInv, TypeOK', Drift, state' = state, config' = config,
           api.next <= api'.next,
           \A id \in DOMAIN api'.pools : id <= api.next =>
               id \in DOMAIN api.pools
               /\ (api'.pools[id].external => api.pools[id].external)
    PROVE  IInv'
<1>1. /\ op'.pc = op.pc /\ op'.old = op.old /\ op'.drift = (op.pc # "idle")
      /\ op'.toUpdate = op.toUpdate /\ op'.toDelete = op.toDelete
  BY TypesOf DEF IInv, Drift, Idle, OpRecord
<1>2. OldInv' /\ OwnInv'
  BY <1>1, StillOwn, TypesOf DEF TypeOK
<1>3. ChangesInv'
  <2>1. \A id : Changes(id)' = Changes(id)
    BY <1>1, SameChanges
  <2> QED
    BY <1>1, <2>1 DEF IInv, ChangesInv
<1>4. VersionInv'
  BY <1>1 DEF VersionInv
<1> QED
  BY <1>2, <1>3, <1>4 DEF IInv

LEMMA DriftIs ==
    ASSUME op \in OpRecord, Drift
    PROVE  op' \in OpRecord
<1>1. (~Idle) \in BOOLEAN
  BY DEF Idle
<1> QED
  BY <1>1 DEF Drift, OpRecord

LEMMA ExternalPoolCreatedInv ==
    ASSUME IInv, ExternalPoolCreated
    PROVE  IInv'
<1>1. /\ Drift /\ state' = state /\ config' = config /\ op \in OpRecord /\ api.next \in Nat
      /\ budget' \in [edits : 0 .. MaxEdits, failures : 0 .. MaxFailures]
  BY TypesOf, EditIs DEF IInv, ExternalPoolCreated
<1>2. PICK spec \in Specs : api' = Added(spec, TRUE)
  BY DEF ExternalPoolCreated
<1>3. /\ api' \in [exists : BOOLEAN, version : Versions, next : Nat,
                   pools : [DOMAIN api'.pools -> Pools]]
      /\ DOMAIN api'.pools = DOMAIN api.pools \cup {api.next + 1}
      /\ DOMAIN api'.pools \subseteq 1 .. api'.next
      /\ api'.next = api.next + 1
      /\ \A id \in DOMAIN api.pools : id <= api.next /\ api'.pools[id] = api.pools[id]
  BY <1>2, AddedIs DEF IInv
<1>4. TypeOK'
  BY <1>1, <1>3, DriftIs DEF IInv, TypeOK
<1>5. \A id \in DOMAIN api'.pools : id <= api.next => id \in DOMAIN api.pools
  BY <1>1, <1>3
<1> QED
  BY <1>1, <1>3, <1>4, <1>5, DriftInv

LEMMA PoolDeletedElsewhereInv ==
    ASSUME IInv, PoolDeletedElsewhere
    PROVE  IInv'
<1>1. /\ Drift /\ state' = state /\ config' = config /\ op \in OpRecord /\ api.next \in Nat
      /\ budget' \in [edits : 0 .. MaxEdits, failures : 0 .. MaxFailures]
  BY TypesOf, EditIs DEF IInv, PoolDeletedElsewhere
<1>2. PICK gone \in DOMAIN api.pools : api' = Removed(gone)
  BY DEF PoolDeletedElsewhere
<1>3. /\ api' \in [exists : BOOLEAN, version : Versions, next : Nat,
                   pools : [DOMAIN api'.pools -> Pools]]
      /\ DOMAIN api'.pools = DOMAIN api.pools \ {gone}
      /\ DOMAIN api'.pools \subseteq 1 .. api'.next
      /\ api'.next = api.next
      /\ \A id \in DOMAIN api'.pools : api'.pools[id] = api.pools[id]
  BY <1>2, RemovedIs DEF IInv
<1>4. TypeOK'
  BY <1>1, <1>3, DriftIs DEF IInv, TypeOK
<1>5. \A id \in DOMAIN api'.pools : id \in DOMAIN api.pools
  BY <1>3
<1> QED
  BY <1>1, <1>3, <1>4, <1>5, DriftInv

LEMMA ClusterDeletedElsewhereInv ==
    ASSUME IInv, ClusterDeletedElsewhere
    PROVE  IInv'
<1>1. op'.pc = "idle"
  BY DEF ClusterDeletedElsewhere, Idle
<1>2. TypeOK'
  BY NoPools, EditIs DEF IInv, TypeOK, ClusterDeletedElsewhere
<1> QED
  BY <1>1, <1>2, IdleInv DEF UpdateSteps

-----------------------------------------------------------------------------
(* Every run. *)

LEMMA InitInv == Init => IInv
<1> SUFFICES ASSUME Init PROVE IInv
  OBVIOUS
<1>1. op = Nothing /\ Nothing \in OpRecord /\ Nothing.pc = "idle"
  BY DEF Init, Nothing, OpRecord
<1>2. PICK c \in Configs : config = c
  BY DEF Init
<1>3. config \in [version : Versions, tags : BOOLEAN, pools : Seq(Specs)]
  BY <1>2, ConfigPools
<1>4. api \in [exists : BOOLEAN, version : Versions, next : Nat,
               pools : [DOMAIN api.pools -> Pools]] /\ DOMAIN api.pools = {}
  <2>1. <<>> \in [{} -> Pools]
    OBVIOUS
  <2> QED
    BY <2>1, EmptyPools DEF Init, Versions
<1>5. state \in StateRecord
  BY EmptyPools DEF Init, StateRecord, Versions
<1>6. budget \in [edits : 0 .. MaxEdits, failures : 0 .. MaxFailures]
  BY LKEClusterAssumption DEF Init
<1>7. TypeOK
  BY <1>1, <1>3, <1>4, <1>5, <1>6 DEF TypeOK
<1> QED
  BY <1>1, <1>7 DEF IInv, OldInv, OwnInv, ChangesInv, VersionInv, UpdateSteps

LEMMA StutterInv ==
    ASSUME IInv, UNCHANGED vars
    PROVE  IInv'
<1>1. TypeOK'
  BY DEF IInv, TypeOK, vars
<1>2. OldInv' /\ OwnInv'
  BY StillOwn, TypesOf DEF IInv, vars
<1>3. op' = op /\ state' = state /\ config' = config /\ api' = api
  BY DEF vars
<1>4. ChangesInv'
  <2>1. \A id : Changes(id)' = Changes(id)
    BY <1>3, SameChanges
  <2> QED
    BY <1>3, <2>1 DEF IInv, ChangesInv
<1>5. VersionInv'
  <2>1. UpToDate' = UpToDate
    BY <1>3 DEF UpToDate
  <2> QED
    BY <1>3, <2>1 DEF IInv, VersionInv
<1> QED
  BY <1>1, <1>2, <1>4, <1>5 DEF IInv

LEMMA NextInv ==
    ASSUME IInv, [Next]_vars
    PROVE  IInv'
<1>1. CASE Provider
  BY <1>1, PlanCreateInv, ForgetInv, PlanInv, CreateClusterInv, CreateReadInv,
     DeleteClusterInv, DeletedInv, UpdateClusterInv, ListPoolsInv, RecycleNodesInv,
     RecycledInv, ReconcileInv, UpdatePoolInv, CreatePoolInv, DeletePoolInv,
     PoolsUpdatedInv, UpdateReadInv, StepFailsInv DEF Provider
<1>2. CASE Others
  BY <1>2, ChangeConfigInv, ExternalPoolCreatedInv, PoolDeletedElsewhereInv,
     ClusterDeletedElsewhereInv DEF Others
<1>3. CASE UNCHANGED vars
  BY <1>3, StutterInv
<1> QED
  BY <1>1, <1>2, <1>3 DEF Next
\* Every reachable state satisfies the inductive invariant.
THEOREM Invariance == Spec => []IInv
<1>1. IInv /\ [Next]_vars => IInv'
  BY NextInv
<1> QED
  BY InitInv, <1>1, PTL DEF Spec

\* Types, for any specifications of pools and any bounds: a pool's ID is below the
\* next one the API hands out, and what an update is about to change is a pool the
\* API can be sent, never the hole a disappeared pool leaves.
THEOREM TypeCorrect == Spec => []TypeOK
<1>1. IInv => TypeOK
  BY DEF IInv
<1> QED
  BY Invariance, <1>1, PTL

\* What an update does to a pool of the cluster: only those it may change.
LEMMA PoolsStep ==
    ASSUME IInv, Next, op.pc = "pools", budget' = budget, NEW id \in DOMAIN api.pools
    PROVE  \/ id \in DOMAIN api'.pools /\ api'.pools[id] = api.pools[id]
           \/ Changes(id)
<1>1. budget.edits \in Nat /\ op \in OpRecord /\ op.toDelete \in Seq(Nat)
  BY TypesOf DEF IInv, TypeOK
<1>2. CASE UpdatePool
  <2>1. PICK pool \in op.toUpdate :
           api' = [api EXCEPT !.pools[pool.id].count = pool.count,
                              !.pools[pool.id].external = FALSE]
    BY <1>2 DEF UpdatePool
  <2>2. CASE id = pool.id
    BY <2>2 DEF IInv, ChangesInv
  <2>3. CASE id # pool.id
    BY <2>1, <2>3 DEF IInv, TypeOK
  <2> QED
    BY <2>2, <2>3
<1>3. CASE CreatePool
  <2>1. Head(op.toCreate) \in Specs
    BY <1>3, TypesOf DEF IInv, CreatePool
  <2> QED
    BY <1>3, <2>1, AddedIs DEF IInv, CreatePool
<1>4. CASE DeletePool
  <2>1. Changes(Head(op.toDelete))
    <3>1. 1 \in DOMAIN op.toDelete /\ Head(op.toDelete) = op.toDelete[1]
      BY <1>1, <1>4 DEF DeletePool
    <3> QED
      BY <3>1 DEF IInv, ChangesInv
  <2>2. DOMAIN api'.pools = DOMAIN api.pools \ {Head(op.toDelete)}
        /\ \A i \in DOMAIN api'.pools : api'.pools[i] = api.pools[i]
    BY <1>4, RemovedIs DEF IInv, DeletePool
  <2> QED
    BY <2>1, <2>2
<1>5. CASE PoolsUpdated \/ StepFails
  BY <1>5 DEF PoolsUpdated, StepFails
<1>6. ~Edit
  BY <1>1 DEF Edit, IInv, TypeOK
<1> QED
  BY <1>2, <1>3, <1>4, <1>5, <1>6
  DEF Next, Provider, Others, Idle, PlanCreate, Forget, Plan, CreateCluster, CreateRead,
      DeleteCluster, Deleted, UpdateCluster, ListPools, RecycleNodes, Recycled, Reconcile,
      UpdateRead, ChangeConfig, ExternalPoolCreated, PoolDeletedElsewhere,
      ClusterDeletedElsewhere

\* No update ever deletes or relabels a pool of a linode_lke_node_pool resource
\* while external_pool_tags is in the state and in the configuration: what it
\* goes by is the refreshed state, which filterExternalPools has cleared of them,
\* and an ID stays with its pool.
THEOREM ExternalKept == Spec => ExternalPoolsKept
<1>1. ASSUME IInv, [Next]_vars, op.pc = "pools", budget' = budget, state.tags,
             NEW id \in DOMAIN api.pools, api.pools[id].external
      PROVE  Keeps(id)
  <2>1. ~Changes(id)
    BY <1>1 DEF IInv, OwnInv, Changes, UpdateSteps
  <2>2. id \in DOMAIN api'.pools /\ api'.pools[id] = api.pools[id]
    BY <1>1, <2>1, PoolsStep DEF vars
  <2> QED
    BY <1>1, <2>2 DEF Keeps
<1>2. IInv /\ [Next]_vars =>
         [op.pc = "pools" /\ budget' = budget /\ config.tags /\ state.tags =>
             \A id \in DOMAIN api.pools : api.pools[id].external => Keeps(id)]_vars
  BY <1>1
<1> QED
  BY Invariance, <1>2, PTL DEF Spec, ExternalPoolsKept

\* An update never touches a pool the plan leaves as it is, in whatever order it
\* goes through the others and wherever it fails, if the refresh found every pool
\* of the state: then the places of the state are those of the plan, and no two
\* of them hold the same pool.
THEOREM UnchangedKept == Spec => UnchangedPoolsKept
<1>1. ASSUME IInv, [Next]_vars, op.pc = "pools", budget' = budget, Hole \notin Range(op.old),
             NEW id \in Unchanged \cap DOMAIN api.pools
      PROVE  id \in DOMAIN api'.pools /\ api'.pools[id].count = api.pools[id].count
  <2>1. ~Changes(id)
    BY <1>1 DEF Changes
  <2> QED
    BY <1>1, <2>1, PoolsStep DEF vars
<1>2. IInv /\ [Next]_vars =>
         [op.pc = "pools" /\ budget' = budget /\ Hole \notin Range(op.old) =>
             \A id \in Unchanged \cap DOMAIN api.pools :
                id \in DOMAIN api'.pools /\ api'.pools[id].count = api.pools[id].count]_vars
  BY <1>1
<1> QED
  BY Invariance, <1>2, PTL DEF Spec, UnchangedPoolsKept

\* A create or an update succeeds with its read.
LEMMA SucceedsBy ==
    ASSUME IInv, [Next]_vars, Succeeds
    PROVE  CreateRead \/ UpdateRead
<1>1. op.pc # "idle" /\ op'.pc = "idle" /\ op'.result = "ok" /\ op \in OpRecord
  BY TypesOf DEF Succeeds, Idle, IInv
<1>2. ~StepFails
  <2>1. ~Return("error")
    BY <1>1, ReturnIs
  <2> QED
    BY <2>1 DEF StepFails
<1>3. \A pc \in {"ready", "deleting", "create", "list", "recycling", "reconcile", "wait"} :
         ~Goto(pc)
  BY <1>1, GotoIs
<1>4. ~(ListPools \/ Reconcile \/ UpdatePool \/ CreatePool \/ DeletePool)
  BY <1>1 DEF ListPools, Reconcile, UpdatePool, CreatePool, DeletePool, OpRecord
<1>5. ~Drift
  BY <1>1 DEF Drift, OpRecord
<1> QED
  BY <1>1, <1>2, <1>3, <1>4, <1>5
  DEF Next, vars, Provider, Others, Idle, PlanCreate, Forget, Plan, CreateCluster,
      DeleteCluster, Deleted, UpdateCluster, RecycleNodes, Recycled, PoolsUpdated,
      ChangeConfig, ExternalPoolCreated, PoolDeletedElsewhere, ClusterDeletedElsewhere

\* When an update or a create succeeds and all nodes ran the cluster's version
\* before, they do after it: an upgrade that succeeds has recycled every node, and
\* pools made on the way have the new version.
THEOREM Upgraded == Spec => NodesUpgraded
<1>1. ASSUME IInv, [Next]_vars, Succeeds, ~op.drift, op.fresh
      PROVE  UpToDate'
  <2>1. CreateRead \/ UpdateRead
    BY <1>1, SucceedsBy
  <2>2. UpToDate /\ api' = api
    BY <1>1, <2>1 DEF IInv, VersionInv, CreateRead, UpdateRead
  <2> QED
    BY <2>2 DEF UpToDate
<1>2. IInv /\ [Next]_vars => [Succeeds /\ ~op.drift /\ op.fresh => UpToDate']_vars
  BY <1>1
<1> QED
  BY Invariance, <1>2, PTL DEF Spec, NodesUpgraded

=============================================================================
