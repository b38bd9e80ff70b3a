---------------------------- MODULE LKEClusterPools ----------------------------
(* What a create or an update of LKECluster that succeeds leaves in the cluster    *)
(* and in the state, for any specifications of pools and any bounds.               *)
EXTENDS LKEClusterProofs

-----------------------------------------------------------------------------
(* The inductive invariant, beside IInv. *)

\* A cluster that is not in the state has no pools there; an update is of one that
\* is not tainted, and has brought it to the configured version first.
LifeInv ==
    /\ ~state.tracked => state.pools = <<>> /\ ~state.tainted
    /\ op.pc = "create" => ~state.tracked
    /\ op.pc \in UpdateSteps \cup {"ready"} => state.tracked /\ ~state.tainted
    /\ op.pc = "cluster" => op.upgrade = (api.version # config.version)
    /\ op.pc \in (UpdateSteps \cup {"ready"}) \ {"cluster"} => api.version = config.version

\* There is a pool for each of the declared ones, and no other: one that has its
\* attributes, and the one of its ID if that is there.
MatchedBy(f, declared, ids) ==
    /\ f \in [DOMAIN declared -> ids] /\ ids \subseteq Range(f)
    /\ \A i, j \in DOMAIN declared : f[i] = f[j] => i = j
    /\ \A i \in DOMAIN declared :
          SameAttributes(declared[i], f[i]) /\ (Found(declared[i], ids) => f[i] = declared[i].id)
Matched(declared, ids) == \E f \in [DOMAIN declared -> ids] : MatchedBy(f, declared, ids)

\* Between the creation of a cluster and the read.
ReadyInv ==
    op.pc = "ready" /\ ~op.drift =>
        /\ state.tags = config.tags /\ Len(state.pools) = Len(config.pools)
        /\ \A i \in DOMAIN state.pools : state.pools[i] = Configured(config.pools[i], 0)
        /\ Matched(state.pools, Visible(config.tags))

\* The conditions of PoolsAsConfigured.
Calm == ~op.drift /\ Hole \notin Range(op.old) /\ (state.tags => config.tags)

\* Up to the comparison, the old pools are those of the cluster.
SeenInv ==
    op.pc \in UpdateSteps \ {"pools", "wait"} /\ Calm =>
        /\ \A i \in DOMAIN op.old :
              op.old[i].id \in Visible(state.tags) /\ op.old[i] = FlattenPool(op.old[i].id)
        /\ \A id \in Visible(state.tags) : \E i \in DOMAIN op.old : op.old[i].id = id

\* While the pools are updated: f is the pool of each declaration, and 0 where it is
\* still to be made; the declarations whose pools are to be made are at the places q.
Places == DOMAIN config.pools

Waiting(f, q) ==
    /\ \A j \in DOMAIN q : op.toCreate[j] = config.pools[q[j]]
    /\ \A i, j \in DOMAIN q : q[i] = q[j] => i = j
    /\ \A i \in Places : f[i] = 0 <=> \E j \in DOMAIN q : q[j] = i

Kept(f) ==
    \A i \in Places : f[i] # 0 =>
        /\ f[i] \in Visible(state.tags) /\ f[i] \notin Range(op.toDelete)
        /\ \A j \in Places : f[i] = f[j] => i = j

\* A pool has the attributes of its declaration, or the update will give it them.
Fitting(f) ==
    /\ \A i \in Places : f[i] # 0 =>
          /\ api.pools[f[i]].type = config.pools[i].type
          /\ \/ SameAttributes(Configured(config.pools[i], 0), f[i])
             \/ Configured(config.pools[i], f[i]) \in op.toUpdate
    /\ \A pool \in op.toUpdate : \A i \in Places :
          f[i] = pool.id => pool = Configured(config.pools[i], f[i])

\* All others are deleted, and so is one that another takes the place of.
Placed(f) ==
    /\ \A id \in Visible(state.tags) : id \in Range(f) \cup Range(op.toDelete)
    /\ \A i \in Places : PlannedID(i) \in Visible(state.tags) =>
          PlannedID(i) \in {f[i]} \cup Range(op.toDelete)

Paired(f, q) == Waiting(f, q) /\ Kept(f) /\ Fitting(f) /\ Placed(f)

FixInv ==
    op.pc \in {"pools", "wait"} /\ Calm =>
        /\ \E f \in [Places -> 0 .. api.next], q \in [DOMAIN op.toCreate -> Places] : Paired(f, q)
        /\ op.pc = "wait" => op.toUpdate = {} /\ op.toCreate = <<>> /\ op.toDelete = <<>>

PoolsInv == LifeInv /\ ReadyInv /\ SeenInv /\ FixInv

-----------------------------------------------------------------------------
(* What a read finds. *)

\* Pigeonholes: a set does not go into itself without one of its elements.
LEMMA NotIntoLess ==
    ASSUME NEW S, IsFiniteSet(S), NEW x \in S, NEW h \in [S -> S \ {x}],
           \A a, b \in S : h[a] = h[b] => a = b
    PROVE  FALSE
<1>1. /\ IsFiniteSet(S \ {x}) /\ Cardinality(S \ {x}) = Cardinality(S) - 1
      /\ Cardinality(S) \in Nat
  BY FS_RemoveElement, FS_CardinalityType
<1>2. h \in Injection(S, S \ {x})
  BY DEF Injection, IsInjective
<1>3. Cardinality(S) <= Cardinality(S \ {x})
  BY <1>1, <1>2, FS_Injection
<1> QED
  BY <1>1, <1>3

\* Without repetition, as many as there are are all.
LEMMA AllTaken ==
    ASSUME NEW S, NEW T, IsFiniteSet(T), Cardinality(S) = Cardinality(T), NEW m \in [S -> T],
           \A a, b \in S : m[a] = m[b] => a = b
    PROVE  \A t \in T : \E a \in S : m[a] = t
<1>1. m \in Injection(S, T)
  BY DEF Injection, IsInjective
<1>2. m \in Surjection(S, T)
  BY <1>1, FS_Injection
<1> QED
  BY <1>2 DEF Surjection

\* However the pools are taken in order, each declared one gets one of its own.
LEMMA PairingMatches ==
    ASSUME TypeOK, NEW declared \in Seq(Declared), NEW tags,
           NEW f, MatchedBy(f, declared, Visible(tags)),
           NEW m \in Pairings(declared, Visible(tags))
    PROVE  /\ \A i \in DOMAIN declared :
                 m[i] \in Visible(tags) /\ SameAttributes(declared[i], m[i])
           /\ \A id \in Visible(tags) : \E i \in DOMAIN declared : m[i] = id
<1> DEFINE D == DOMAIN declared
<1> DEFINE ids == Visible(tags)
<1>1. /\ IsFiniteSet(D) /\ IsFiniteSet(ids) /\ 0 \notin ids
  <2>1. IsFiniteSet(D)
    BY FS_Interval, DOMAIN declared = 1 .. Len(declared), Len(declared) \in Nat
  <2> QED
    BY <2>1, VisibleIDs, TypesOf
<1>2. /\ f \in [D -> ids] /\ ids \subseteq Range(f)
      /\ \A i, j \in D : f[i] = f[j] => i = j
      /\ \A i \in D : SameAttributes(declared[i], f[i])
      /\ \A i \in D : Found(declared[i], ids) => f[i] = declared[i].id
  BY DEF MatchedBy
<1>3. /\ m \in [D -> ids \cup {0}]
      /\ \A i \in D : IF Found(declared[i], ids) THEN m[i] = declared[i].id
                      ELSE m[i] # 0 => SameAttributes(declared[i], m[i])
      /\ \A i, j \in D : i # j /\ m[i] # 0 => m[i] # m[j]
      /\ \A i \in D : m[i] = 0 =>
            \A id \in ids : SameAttributes(declared[i], id) => \E j \in D : m[j] = id
  BY DEF Pairings
<1> HIDE DEF D, ids
<1>4. \A i \in D : m[i] # 0 => SameAttributes(declared[i], m[i])
  BY <1>2, <1>3
<1>5. ASSUME NEW i \in D, m[i] = 0
      PROVE  FALSE
  <2> DEFINE S == {k \in D : SameAttributes(declared[i], f[k])}
  <2> DEFINE h == [k \in S |-> CHOOSE j \in D : m[j] = f[k]]
  <2>1. i \in S /\ IsFiniteSet(S)
    BY <1>1, <1>2, FS_Subset
  <2>2. ASSUME NEW k \in S
        PROVE  h[k] \in S \ {i} /\ m[h[k]] = f[k]
    <3>1. f[k] \in ids /\ f[k] # 0
      BY <1>1, <1>2
    <3>2. \E j \in D : m[j] = f[k]
      BY <1>3, <1>5, <3>1
    <3>3. h[k] \in D /\ m[h[k]] = f[k]
      BY <3>2
    <3> DEFINE j == h[k]
    <3> HIDE DEF h
    <3>4. SameAttributes(declared[j], f[k]) /\ SameAttributes(declared[j], f[j])
      BY <1>2, <1>4, <3>1, <3>3
    <3>5. SameAttributes(declared[i], f[k])
      OBVIOUS
    <3>6. SameAttributes(declared[i], f[j])
      BY <3>4, <3>5 DEF SameAttributes
    <3> QED
      BY <1>5, <3>1, <3>3, <3>6
  <2>3. h \in [S -> S \ {i}]
    <3>1. h = [k \in S |-> h[k]]
      OBVIOUS
    <3> HIDE DEF h, S
    <3> QED
      BY <2>2, <3>1
  <2>4. \A a, b \in S : h[a] = h[b] => a = b
    <3> HIDE DEF h
    <3> QED
      BY <1>2, <2>2
  <2> HIDE DEF h, S
  <2> QED
    BY <2>1, <2>3, <2>4, NotIntoLess
<1>6. \A i \in D : m[i] \in ids /\ SameAttributes(declared[i], m[i])
  BY <1>3, <1>4, <1>5
<1>7. Cardinality(D) = Cardinality(ids)
  <2>1. f \in Bijection(D, ids)
    BY <1>2 DEF Bijection, Injection, Surjection, IsInjective, Range
  <2> QED
    BY <1>1, <2>1, FS_Bijection DEF ExistsBijection
<1>8. m \in [D -> ids] /\ \A i, j \in D : m[i] = m[j] => i = j
  BY <1>3, <1>5
<1>9. \A id \in ids : \E i \in D : m[i] = id
  BY <1>1, <1>7, <1>8, AllTaken
<1> QED
  BY <1>6, <1>9 DEF D, ids

\* The pools a read returns: for each declared one the one it is paired with, then
\* all others.
ReadAs(p, declared, ids, m, rest) ==
    /\ p \in Seq(Declared) /\ Len(p) = Len(declared) + Len(rest)
    /\ m \in [1 .. Len(declared) -> ids \cup {0}]
    /\ rest \in [1 .. Len(rest) -> ids \ Range(m)] /\ Len(rest) \in Nat
    /\ \A id \in ids \ Range(m) : \E i \in 1 .. Len(rest) : rest[i] = id
    /\ \A i \in 1 .. Len(declared) : p[i] = FlattenPool(m[i])
    /\ \A i \in 1 .. Len(rest) : p[Len(declared) + i] = FlattenPool(rest[i])

LEMMA RestIs ==
    ASSUME TypeOK, NEW tags, NEW S \in SUBSET Visible(tags), NEW rest \in SetToSeqs(S)
    PROVE  /\ rest \in [1 .. Len(rest) -> S] /\ Len(rest) \in Nat
           /\ \A id \in S : \E i \in 1 .. Len(rest) : rest[i] = id
<1>1. IsFiniteSet(S) /\ Cardinality(S) \in Nat
  BY VisibleIDs
<1>2. /\ rest \in [1 .. Cardinality(S) -> S]
      /\ \A i, j \in 1 .. Cardinality(S) : rest[i] = rest[j] => i = j
  BY <1>1 DEF SetToSeqs
<1>3. Len(rest) = Cardinality(S)
  BY <1>1, <1>2
<1>4. Cardinality(1 .. Cardinality(S)) = Cardinality(S)
  BY <1>1, FS_Interval
<1> QED
  BY <1>1, <1>2, <1>3, <1>4, AllTaken

LEMMA ReadIs ==
    ASSUME TypeOK, NEW declared \in Seq(Declared), NEW tags, NEW p \in ReadPools(declared, tags)
    PROVE  \E m \in Pairings(declared, Visible(tags)) : \E rest :
              ReadAs(p, declared, Visible(tags), m, rest)
<1> DEFINE ids == Visible(tags)
<1>1. PICK m \in Pairings(declared, ids) : \E rest \in SetToSeqs(ids \ Range(m)) :
         p = [i \in DOMAIN m |-> FlattenPool(m[i])] \o [i \in DOMAIN rest |-> FlattenPool(rest[i])]
  BY DEF ReadPools
<1>2. PICK rest \in SetToSeqs(ids \ Range(m)) :
         p = [i \in DOMAIN m |-> FlattenPool(m[i])] \o [i \in DOMAIN rest |-> FlattenPool(rest[i])]
  BY <1>1
<1> DEFINE a == [i \in DOMAIN m |-> FlattenPool(m[i])]
<1> DEFINE b == [i \in DOMAIN rest |-> FlattenPool(rest[i])]
<1> DEFINE x == Len(declared)
<1> DEFINE y == Len(rest)
<1>3. x \in Nat /\ m \in [1 .. x -> ids \cup {0}]
  BY DEF Pairings
<1>4. /\ y \in Nat /\ rest \in [1 .. y -> ids \ Range(m)]
      /\ \A id \in ids \ Range(m) : \E i \in 1 .. y : rest[i] = id
  <2> DEFINE S == ids \ Range(m)
  <2>1. S \in SUBSET Visible(tags) /\ rest \in SetToSeqs(S)
    OBVIOUS
  <2> HIDE DEF S
  <2>2. /\ rest \in [1 .. Len(rest) -> S] /\ Len(rest) \in Nat
        /\ \A id \in S : \E i \in 1 .. Len(rest) : rest[i] = id
    BY <2>1, RestIs
  <2> QED
    BY <2>2 DEF S
<1>5. \A id \in ids \cup {0} : FlattenPool(id) \in Declared
  BY VisibleIDs, FlattenIs
<1>6. p = a \o b
  BY <1>2
<1> HIDE DEF x, y, ids
<1>7. a \in [1 .. x -> Declared] /\ \A i \in 1 .. x : a[i] = FlattenPool(m[i])
  BY <1>3, <1>5
<1>8. b \in [1 .. y -> Declared] /\ \A i \in 1 .. y : b[i] = FlattenPool(rest[i])
  BY <1>4, <1>5
<1> HIDE DEF a, b
<1>9. a \in Seq(Declared) /\ Len(a) = x /\ b \in Seq(Declared) /\ Len(b) = y
  BY <1>3, <1>4, <1>7, <1>8
<1>10. p \in Seq(Declared) /\ Len(p) = x + y
  BY <1>6, <1>9, ConcatProperties, Zenon
<1>11. \A i \in 1 .. x + y : p[i] = IF i <= x THEN a[i] ELSE b[i - x]
  <2>1. \A i \in 1 .. Len(a) + Len(b) :
           (a \o b)[i] = IF i <= Len(a) THEN a[i] ELSE b[i - Len(a)]
    BY <1>9, ConcatProperties, Zenon
  <2> QED
    BY <1>6, <1>9, <2>1, Zenon
<1>12. \A i \in 1 .. x : p[i] = a[i]
  BY <1>3, <1>4, <1>11
<1>13. ASSUME NEW i \in 1 .. y
       PROVE  p[x + i] = b[i]
  <2>1. x + i \in 1 .. x + y /\ ~(x + i <= x) /\ (x + i) - x = i
    BY <1>3, <1>4
  <2> QED
    BY <1>11, <2>1
<1>14. ReadAs(p, declared, ids, m, rest)
  BY <1>3, <1>4, <1>7, <1>8, <1>10, <1>12, <1>13 DEF ReadAs, x, y
<1> QED
  BY <1>14 DEF ids

\* Every pool that can be seen is read, as it is.
LEMMA ReadSees ==
    ASSUME TypeOK, NEW declared \in Seq(Declared), NEW tags, NEW p \in ReadPools(declared, tags)
    PROVE  /\ \A i \in DOMAIN p : p[i] = FlattenPool(p[i].id)
           /\ \A id \in Visible(tags) : \E i \in DOMAIN p : p[i].id = id
<1> DEFINE ids == Visible(tags)
<1> DEFINE x == Len(declared)
<1>0. PICK m \in Pairings(declared, ids) : \E rest : ReadAs(p, declared, ids, m, rest)
  BY ReadIs
<1>1. PICK rest : ReadAs(p, declared, ids, m, rest)
  BY <1>0
<1> DEFINE y == Len(rest)
<1>10. /\ x \in Nat /\ y \in Nat /\ DOMAIN p = 1 .. x + y /\ p \in Seq(Declared) /\ Len(p) = x + y
       /\ m \in [1 .. x -> ids \cup {0}] /\ rest \in [1 .. y -> ids \ Range(m)]
       /\ \A id \in ids \ Range(m) : \E i \in 1 .. y : rest[i] = id
       /\ \A i \in 1 .. x : p[i] = FlattenPool(m[i])
       /\ \A i \in 1 .. y : p[x + i] = FlattenPool(rest[i])
  BY <1>1 DEF ReadAs
<1>2. \A id \in ids \cup {0} : FlattenPool(id).id = id
  BY VisibleIDs, FlattenIs
<1> HIDE DEF ids, x, y
<1>4. ASSUME NEW i \in DOMAIN p
      PROVE  p[i] = FlattenPool(p[i].id)
  <2>1. CASE i <= x
    <3>1. i \in 1 .. x
      BY <1>10, <2>1
    <3>2. p[i] = FlattenPool(m[i]) /\ m[i] \in ids \cup {0}
      BY <1>10, <3>1
    <3> QED
      BY <1>2, <3>2
  <2>2. CASE i > x
    <3>1. i - x \in 1 .. y /\ x + (i - x) = i
      BY <1>10, <2>2
    <3>2. p[x + (i - x)] = FlattenPool(rest[i - x]) /\ rest[i - x] \in ids
      BY <1>10, <3>1
    <3> QED
      BY <1>2, <3>1, <3>2
  <2> QED
    BY <1>10, <2>1, <2>2
<1>5. ASSUME NEW id \in ids
      PROVE  \E i \in DOMAIN p : p[i].id = id
  <2>1. CASE id \in Range(m)
    <3>1. PICK i \in 1 .. x : m[i] = id
      BY <1>10, <2>1 DEF Range
    <3>2. i \in DOMAIN p /\ p[i].id = id
      BY <1>2, <1>10, <3>1
    <3> QED
      BY <3>2
  <2>2. CASE id \notin Range(m)
    <3>1. PICK i \in 1 .. y : rest[i] = id
      BY <1>5, <1>10, <2>2
    <3>2. x + i \in DOMAIN p /\ p[x + i].id = id
      BY <1>2, <1>10, <3>1
    <3> QED
      BY <3>2
  <2> QED
    BY <2>1, <2>2
<1> QED
  BY <1>4, <1>5 DEF ids

\* Where there is a pool for each declared one and no other, those are read, each at
\* the place of one that has its attributes.
LEMMA ReadMatches ==
    ASSUME TypeOK, NEW declared \in Seq(Declared), NEW tags,
           Matched(declared, Visible(tags)), NEW p \in ReadPools(declared, tags)
    PROVE  /\ p \in Seq(Declared) /\ Len(p) = Len(declared)
           /\ \A i \in DOMAIN p : p[i].id \in Visible(tags) /\ p[i] = FlattenPool(p[i].id)
                                  /\ SameAttributes(declared[i], p[i].id)
           /\ Visible(tags) = {p[i].id : i \in DOMAIN p}
<1> DEFINE ids == Visible(tags)
<1> DEFINE x == Len(declared)
<1>0. PICK m \in Pairings(declared, ids) : \E rest : ReadAs(p, declared, ids, m, rest)
  BY ReadIs
<1>1. PICK rest : ReadAs(p, declared, ids, m, rest)
  BY <1>0
<1> DEFINE y == Len(rest)
<1>10. /\ x \in Nat /\ y \in Nat /\ DOMAIN p = 1 .. x + y /\ p \in Seq(Declared) /\ Len(p) = x + y
       /\ m \in [1 .. x -> ids \cup {0}] /\ rest \in [1 .. y -> ids \ Range(m)]
       /\ \A id \in ids \ Range(m) : \E i \in 1 .. y : rest[i] = id
       /\ \A i \in 1 .. x : p[i] = FlattenPool(m[i])
       /\ \A i \in 1 .. y : p[x + i] = FlattenPool(rest[i])
  BY <1>1 DEF ReadAs
<1>2. PICK f : MatchedBy(f, declared, ids)
  BY DEF Matched
<1>3. /\ \A i \in 1 .. x : m[i] \in ids /\ SameAttributes(declared[i], m[i])
      /\ \A id \in ids : \E i \in 1 .. x : m[i] = id
  BY <1>2, PairingMatches
<1>4. \A id \in ids : FlattenPool(id).id = id
  BY VisibleIDs, FlattenIs
<1> HIDE DEF ids, x, y
<1>5. ids \ Range(m) = {}
  BY <1>3, <1>10 DEF Range
<1>6. ~(1 \in 1 .. y)
  BY <1>5, <1>10
<1>7. Len(p) = x /\ DOMAIN p = 1 .. x
  BY <1>6, <1>10
<1>8. \A i \in 1 .. x : p[i].id = m[i] /\ p[i].id \in ids /\ p[i] = FlattenPool(p[i].id)
  BY <1>3, <1>4, <1>10
<1>9. ids = {p[i].id : i \in 1 .. x}
  BY <1>3, <1>8
<1> QED
  BY <1>3, <1>7, <1>8, <1>9, <1>10 DEF ids, x

-----------------------------------------------------------------------------
(* What most steps have in common. *)

LEMMA PlaceNames ==
    /\ "idle" \notin UpdateSteps \cup {"ready", "create"}
    /\ "create" \notin UpdateSteps \cup {"ready"} /\ "ready" \notin UpdateSteps
    /\ "delete" \notin UpdateSteps \cup {"ready", "create"}
    /\ "deleting" \notin UpdateSteps \cup {"ready", "create"}
  BY DEF UpdateSteps

\* Where no update runs, there is little to keep.
LEMMA RestStep ==
    ASSUME op'.pc \notin UpdateSteps \cup {"ready"}, op'.pc = "create" => ~state'.tracked,
           ~state'.tracked => state'.pools = <<>> /\ ~state'.tainted
    PROVE  PoolsInv'
<1>1. op'.pc \notin {"ready", "cluster", "pools", "wait"}
  BY DEF UpdateSteps
<1> QED
  BY <1>1 DEF PoolsInv, LifeInv, ReadyInv, SeenInv, FixInv

LEMMA SameCalm ==
    ASSUME op'.old = op.old, op'.drift = op.drift, state' = state, config' = config
    PROVE  Calm' = Calm
  BY DEF Calm

\* A step of an update before the pools are compared: the pools stay as they are, but
\* for their version.
LEMMA SeenStep ==
    ASSUME IInv, PoolsInv, op.pc \in UpdateSteps \ {"pools", "wait"},
           op'.pc \in UpdateSteps \ {"pools", "wait", "cluster"}, op'.old = op.old,
           op'.drift = op.drift, state' = state, config' = config,
           api'.version = config.version, DOMAIN api'.pools = DOMAIN api.pools,
           \A id \in DOMAIN api.pools :
              /\ api'.pools[id].type = api.pools[id].type
              /\ api'.pools[id].count = api.pools[id].count
              /\ api'.pools[id].external = api.pools[id].external
    PROVE  PoolsInv'
<1>1. LifeInv'
  BY PlaceNames DEF PoolsInv, LifeInv
<1>2. op'.pc \notin {"ready", "pools", "wait"}
  BY PlaceNames
<1>3. ReadyInv' /\ FixInv'
  BY <1>2 DEF ReadyInv, FixInv
<1>4. Visible(state.tags)' = Visible(state.tags)
  BY DEF Visible
<1>5. ASSUME NEW id \in DOMAIN api.pools
      PROVE  FlattenPool(id)' = FlattenPool(id)
  BY TypesOf DEF FlattenPool
<1>6. SeenInv'
  <2> SUFFICES ASSUME Calm'
               PROVE  SeenInv'
    BY DEF SeenInv
  <2>1. /\ \A i \in DOMAIN op.old :
              op.old[i].id \in Visible(state.tags) /\ op.old[i] = FlattenPool(op.old[i].id)
        /\ \A id \in Visible(state.tags) : \E i \in DOMAIN op.old : op.old[i].id = id
    BY SameCalm DEF PoolsInv, SeenInv
  <2>2. ASSUME NEW i \in DOMAIN op.old
        PROVE  FlattenPool(op.old[i].id)' = FlattenPool(op.old[i].id)
    <3>1. op.old[i].id \in DOMAIN api.pools
      BY <2>1 DEF Visible
    <3> QED
      BY <3>1 DEF FlattenPool
  <2> QED
    BY <1>4, <2>1, <2>2 DEF SeenInv
<1> QED
  BY <1>1, <1>3, <1>6 DEF PoolsInv

-----------------------------------------------------------------------------
(* The steps, but for those that change the pools. *)

LEMMA PlanCreatePools ==
    ASSUME IInv, PoolsInv, PlanCreate
    PROVE  PoolsInv'
<1>1. op'.pc = "create" /\ state' = state
  BY StartIs, TypesOf DEF IInv, PlanCreate
<1> QED
  BY <1>1, RestStep, PlaceNames DEF PlanCreate, PoolsInv, LifeInv

LEMMA ForgetPools ==
    ASSUME IInv, PoolsInv, Forget
    PROVE  PoolsInv'
<1>1. op'.pc = "idle" /\ ~state'.tracked /\ ~state'.tainted /\ state'.pools = <<>>
  BY TypesOf DEF IInv, Forget, Idle, StateRecord
<1> QED
  BY <1>1, RestStep, PlaceNames

LEMMA PlanPools ==
    ASSUME IInv, PoolsInv, Plan
    PROVE  PoolsInv'
<1>1. /\ api' = api /\ config' = config /\ op \in OpRecord /\ state.tracked
      /\ state \in StateRecord /\ state.pools \in Seq(Declared)
  BY TypesOf DEF IInv, Plan
<1>2. PICK pools \in ReadPools(state.pools, state.tags) :
         /\ state' = Refreshed(pools)
         /\ IF InSync(state') THEN Return("ok") /\ op.result # "ok"
            ELSE Start(IF state.tainted THEN "delete" ELSE "cluster")
  BY DEF Plan
<1>3. /\ pools \in Seq(Declared)
      /\ \A i \in DOMAIN pools :
            pools[i].id \in Visible(state.tags) \cup {0} /\ (pools[i].id = 0 => pools[i] = Hole)
  BY <1>1, <1>2, ReadPoolsAre DEF IInv
<1>4. /\ state' \in StateRecord /\ state'.pools = pools /\ state'.tags = state.tags
      /\ state'.tracked /\ state'.tainted = state.tainted /\ state'.version = api.version
  BY <1>1, <1>2, <1>3, TypesOf DEF IInv, Refreshed, StateRecord
<1>5. CASE InSync(state')
  BY <1>2, <1>4, <1>5, ReturnIs, RestStep, PlaceNames
<1>6. CASE ~InSync(state') /\ state.tainted
  BY <1>1, <1>2, <1>4, <1>6, StartIs, RestStep, PlaceNames
<1>7. CASE ~InSync(state') /\ ~state.tainted
  <2>1. /\ op'.pc = "cluster" /\ op'.old = pools
        /\ op'.upgrade = (api.version # config.version)
    <3>1. Start("cluster")
      BY <1>2, <1>7
    <3>2. op'.pc = "cluster" /\ op'.old = pools
      BY <1>1, <1>4, <3>1, StartIs
    <3>3. op'.upgrade = (state'.version # config.version)
      BY <1>1, <3>1 DEF Start, OpRecord
    <3> QED
      BY <1>4, <3>2, <3>3
  <2>2. LifeInv'
    BY <1>1, <1>4, <1>7, <2>1, PlaceNames DEF LifeInv
  <2>3. ReadyInv' /\ FixInv'
    BY <2>1 DEF ReadyInv, FixInv
  <2>4. SeenInv'
    <3> SUFFICES ASSUME Calm'
                 PROVE  SeenInv'
      BY DEF SeenInv
    <3>1. /\ \A i \in DOMAIN pools : pools[i] = FlattenPool(pools[i].id)
          /\ \A id \in Visible(state.tags) : \E i \in DOMAIN pools : pools[i].id = id
      BY <1>1, <1>2, ReadSees DEF IInv
    <3>2. \A i \in DOMAIN pools : pools[i].id \in Visible(state.tags)
      <4>1. \A i \in DOMAIN pools : pools[i] # Hole
        BY <2>1 DEF Calm, Range, Hole
      <4> QED
        BY <1>3, <4>1
    <3>3. Visible(state.tags)' = Visible(state.tags)
      BY <1>1, <1>4 DEF Visible
    <3>4. ASSUME NEW i \in DOMAIN pools
          PROVE  FlattenPool(op.old[i].id)' = FlattenPool(pools[i].id)
      BY <1>1, <2>1 DEF FlattenPool, Hole
    <3> QED
      BY <2>1, <3>1, <3>2, <3>3, <3>4 DEF SeenInv
  <2> QED
    BY <2>2, <2>3, <2>4 DEF PoolsInv
<1> QED
  BY <1>5, <1>6, <1>7

LEMMA CreateReadPools ==
    ASSUME IInv, PoolsInv, CreateRead
    PROVE  PoolsInv'
<1>1. op'.pc = "idle" /\ state \in StateRecord
  BY ReturnIs, TypesOf DEF IInv, CreateRead
<1>2. state.tracked
  BY DEF CreateRead, PoolsInv, LifeInv
<1>3. state'.tracked
  BY <1>1, <1>2 DEF CreateRead, Refreshed, StateRecord
<1> QED
  BY <1>1, <1>3, RestStep, PlaceNames

LEMMA DeleteClusterPools ==
    ASSUME IInv, PoolsInv, DeleteCluster
    PROVE  PoolsInv'
<1>1. op'.pc = "deleting" /\ state' = state
  BY GotoIs, TypesOf DEF IInv, DeleteCluster
<1> QED
  BY <1>1, RestStep, PlaceNames DEF PoolsInv, LifeInv

LEMMA DeletedPools ==
    ASSUME IInv, PoolsInv, Deleted
    PROVE  PoolsInv'
<1>1. op'.pc = "create" /\ ~state'.tracked /\ ~state'.tainted /\ state'.pools = <<>>
  BY GotoIs, TypesOf DEF IInv, Deleted, StateRecord
<1> QED
  BY <1>1, RestStep, PlaceNames

LEMMA UpdateClusterPools ==
    ASSUME IInv, PoolsInv, UpdateCluster
    PROVE  PoolsInv'
<1>1. op'.pc = "list" /\ op'.old = op.old /\ op'.drift = op.drift
  BY GotoIs, TypesOf DEF IInv, UpdateCluster
<1>2. api'.pools = api.pools /\ api'.version = config.version
  <2>1. op.upgrade = (api.version # config.version)
    BY DEF UpdateCluster, PoolsInv, LifeInv
  <2> QED
    BY <2>1 DEF IInv, TypeOK, UpdateCluster
<1> QED
  BY <1>1, <1>2, SeenStep DEF UpdateCluster, UpdateSteps

LEMMA ListPoolsPools ==
    ASSUME IInv, PoolsInv, ListPools
    PROVE  PoolsInv'
<1>1. /\ op'.pc \in {"recycle", "reconcile"} /\ op'.old = op.old /\ op'.drift = op.drift
      /\ op.pc = "list" /\ api' = api /\ state' = state /\ config' = config
  BY TypesOf DEF IInv, ListPools, OpRecord
<1>2. api.version = config.version
  BY <1>1 DEF PoolsInv, LifeInv, UpdateSteps
<1> QED
  BY <1>1, <1>2, SeenStep DEF UpdateSteps

LEMMA RecycleNodesPools ==
    ASSUME IInv, PoolsInv, RecycleNodes
    PROVE  PoolsInv'
<1>1. /\ op'.pc = "recycling" /\ op'.old = op.old /\ op'.drift = op.drift
      /\ op.pc = "recycle" /\ state' = state /\ config' = config
  BY GotoIs, TypesOf DEF IInv, RecycleNodes
<1>2. /\ api'.pools = [id \in DOMAIN api.pools |-> [api.pools[id] EXCEPT !.version = api.version]]
      /\ api'.version = api.version
  BY DEF IInv, TypeOK, RecycleNodes
<1>3. \A id \in DOMAIN api.pools : api.pools[id] \in Pools
  BY TypesOf DEF IInv
<1>4. ASSUME NEW id \in DOMAIN api.pools
      PROVE  /\ api'.pools[id].type = api.pools[id].type
             /\ api'.pools[id].count = api.pools[id].count
             /\ api'.pools[id].external = api.pools[id].external
  BY <1>2, <1>3 DEF Pools
<1>5. api.version = config.version
  BY <1>1 DEF PoolsInv, LifeInv, UpdateSteps
<1> QED
  BY <1>1, <1>2, <1>4, <1>5, SeenStep DEF UpdateSteps

LEMMA RecycledPools ==
    ASSUME IInv, PoolsInv, Recycled
    PROVE  PoolsInv'
<1>1. /\ op'.pc = "reconcile" /\ op'.old = op.old /\ op'.drift = op.drift
      /\ op.pc = "recycling" /\ api' = api /\ state' = state /\ config' = config
  BY GotoIs, TypesOf DEF IInv, Recycled
<1>2. api.version = config.version
  BY <1>1 DEF PoolsInv, LifeInv, UpdateSteps
<1> QED
  BY <1>1, <1>2, SeenStep DEF UpdateSteps

LEMMA UpdateReadPools ==
    ASSUME IInv, PoolsInv, UpdateRead
    PROVE  PoolsInv'
<1>1. op'.pc = "idle" /\ state \in StateRecord
  BY ReturnIs, TypesOf DEF IInv, UpdateRead
<1>2. state.tracked
  BY DEF UpdateRead, PoolsInv, LifeInv, UpdateSteps
<1>3. state'.tracked
  BY <1>1, <1>2 DEF UpdateRead, Planned, StateRecord
<1> QED
  BY <1>1, <1>3, RestStep, PlaceNames

LEMMA StepFailsPools ==
    ASSUME IInv, PoolsInv, StepFails
    PROVE  PoolsInv'
<1>1. op'.pc = "idle" /\ state \in StateRecord /\ op \in OpRecord
  BY ReturnIs, TypesOf DEF IInv, StepFails
<1>2. CASE op.pc \in {"create", "delete", "deleting"}
  <2>1. state' = state
    BY <1>2 DEF StepFails
  <2> QED
    BY <1>1, <2>1, RestStep, PlaceNames DEF PoolsInv, LifeInv
<1>3. CASE op.pc \notin {"create", "delete", "deleting"}
  <2>1. op.pc \in UpdateSteps \cup {"ready"}
    BY <1>1, <1>3 DEF StepFails, Idle, OpRecord, UpdateSteps
  <2>2. state.tracked
    BY <2>1 DEF PoolsInv, LifeInv
  <2>3. state' = [state EXCEPT !.tainted = TRUE] \/ state' = Planned
    BY <1>3 DEF StepFails
  <2>4. state'.tracked
    BY <1>1, <2>2, <2>3 DEF Planned, StateRecord
  <2> QED
    BY <1>1, <2>4, RestStep, PlaceNames
<1> QED
  BY <1>2, <1>3

LEMMA ChangeConfigPools ==
    ASSUME IInv, PoolsInv, ChangeConfig
    PROVE  PoolsInv'
<1>1. op'.pc = "idle" /\ state' = state
  BY TypesOf DEF IInv, ChangeConfig, Idle, OpRecord
<1> QED
  BY <1>1, RestStep, PlaceNames DEF PoolsInv, LifeInv

LEMMA ClusterDeletedElsewherePools ==
    ASSUME IInv, PoolsInv, ClusterDeletedElsewhere
    PROVE  PoolsInv'
<1>1. op'.pc = "idle" /\ state' = state
  BY DEF ClusterDeletedElsewhere, Idle
<1> QED
  BY <1>1, RestStep, PlaceNames DEF PoolsInv, LifeInv

\* A change behind the back of a run ends what is said of it.
LEMMA DriftPools ==
    ASSUME IInv, PoolsInv, Drift, state' = state, config' = config,
           api'.version = api.version
    PROVE  PoolsInv'
<1>1. op'.pc = op.pc /\ op'.upgrade = op.upgrade /\ op'.drift = (op.pc # "idle")
  BY TypesOf DEF IInv, Drift, Idle, OpRecord
<1>2. CASE op.pc = "idle"
  BY <1>1, <1>2, RestStep, PlaceNames DEF PoolsInv, LifeInv
<1>3. CASE op.pc # "idle"
  <2>1. LifeInv'
    BY <1>1 DEF PoolsInv, LifeInv
  <2>2. op'.drift
    BY <1>1, <1>3
  <2> QED
    BY <2>1, <2>2 DEF PoolsInv, ReadyInv, SeenInv, FixInv, Calm
<1> QED
  BY <1>2, <1>3

LEMMA OthersPools ==
    ASSUME IInv, PoolsInv, Others
    PROVE  PoolsInv'
<1>1. CASE ExternalPoolCreated
  BY <1>1, AddedIs, DriftPools DEF IInv, ExternalPoolCreated
<1>2. CASE PoolDeletedElsewhere
  BY <1>2, RemovedIs, DriftPools DEF IInv, PoolDeletedElsewhere
<1> QED
  BY <1>1, <1>2, ChangeConfigPools, ClusterDeletedElsewherePools DEF Others

-----------------------------------------------------------------------------
(* The steps that change the pools. *)

LEMMA CreateClusterPools ==
    ASSUME IInv, PoolsInv, CreateCluster
    PROVE  PoolsInv'
<1> DEFINE n == Len(config.pools)
<1>1. /\ api.next \in Nat /\ n \in Nat /\ config.pools \in Seq(Specs) /\ config' = config
      /\ DOMAIN config.pools = 1 .. n /\ state \in StateRecord
  BY TypesOf DEF IInv, CreateCluster
<1>2. op'.pc = "ready"
  BY GotoIs, TypesOf DEF IInv, CreateCluster
<1>3. state.pools = <<>> /\ ~state.tainted
  BY DEF CreateCluster, PoolsInv, LifeInv
<1>4. /\ state'.pools = PlannedPools /\ state'.tracked /\ ~state'.tainted
      /\ state'.tags = config.tags
  BY <1>1, <1>3 DEF CreateCluster, Planned, StateRecord
<1>5. /\ PlannedPools \in Seq(Declared) /\ Len(PlannedPools) = n /\ DOMAIN PlannedPools = 1 .. n
      /\ \A i \in 1 .. n : PlannedPools[i] = Configured(config.pools[i], 0)
  <2>1. \A i \in 1 .. n : PlannedID(i) = 0
    BY <1>3 DEF PlannedID
  <2> QED
    BY <1>1, <2>1, PlannedIs DEF IInv, PlannedPools
<1>6. api'.version = config.version
  BY DEF CreateCluster, IInv, TypeOK
<1>7. LifeInv'
  BY <1>1, <1>2, <1>4, <1>6, PlaceNames DEF LifeInv
<1>8. SeenInv' /\ FixInv'
  BY <1>2, PlaceNames DEF SeenInv, FixInv
<1>9. /\ DOMAIN api'.pools = api.next + 1 .. api.next + n
      /\ \A i \in 1 .. n :
            /\ api'.pools[api.next + i].type = config.pools[i].type
            /\ api'.pools[api.next + i].count = config.pools[i].count
            /\ api'.pools[api.next + i].external = FALSE
  <2> DEFINE made == [id \in api.next + 1 .. api.next + n |->
                        [NewPool(config.pools[id - api.next], FALSE)
                            EXCEPT !.version = config.version]]
  <2>1. api'.pools = made
    BY DEF CreateCluster, IInv, TypeOK
  <2>2. ASSUME NEW i \in 1 .. n
        PROVE  /\ made[api.next + i].type = config.pools[i].type
               /\ made[api.next + i].count = config.pools[i].count
               /\ made[api.next + i].external = FALSE
    <3>1. api.next + i \in api.next + 1 .. api.next + n /\ (api.next + i) - api.next = i
      BY <1>1
    <3>2. made[api.next + i] = [NewPool(config.pools[i], FALSE) EXCEPT !.version = config.version]
      BY <3>1
    <3> HIDE DEF made
    <3> QED
      BY <3>2 DEF NewPool
  <2>3. DOMAIN made = api.next + 1 .. api.next + n
    OBVIOUS
  <2> HIDE DEF made
  <2> QED
    BY <2>1, <2>2, <2>3
<1>10. Visible(config.tags)' = api.next + 1 .. api.next + n
  <2>1. \A id \in api.next + 1 .. api.next + n : ~api'.pools[id].external
    <3> TAKE id \in api.next + 1 .. api.next + n
    <3>1. id - api.next \in 1 .. n /\ api.next + (id - api.next) = id
      BY <1>1
    <3> QED
      BY <1>9, <3>1
  <2> QED
    BY <1>9, <2>1 DEF Visible
<1>11. PICK f : f = [i \in 1 .. n |-> api.next + i]
  OBVIOUS
<1>12. /\ f \in [1 .. n -> api.next + 1 .. api.next + n]
       /\ \A i \in 1 .. n : f[i] = api.next + i
       /\ \A i, j \in 1 .. n : f[i] = f[j] => i = j
       /\ api.next + 1 .. api.next + n \subseteq Range(f)
  <2>1. \A i \in 1 .. n : f[i] = api.next + i /\ f[i] \in api.next + 1 .. api.next + n
    BY <1>1, <1>11
  <2>2. ASSUME NEW id \in api.next + 1 .. api.next + n
        PROVE  id \in Range(f)
    <3>1. id - api.next \in 1 .. n /\ f[id - api.next] = id
      BY <1>1, <2>1
    <3> QED
      BY <1>11, <3>1 DEF Range
  <2> QED
    BY <1>1, <1>11, <2>1, <2>2
<1>13. ASSUME NEW i \in 1 .. n
       PROVE  /\ SameAttributes(state.pools[i], f[i])'
              /\ state'.pools[i].id = 0 /\ 0 \notin api.next + 1 .. api.next + n
  <2>1. state'.pools[i] = Configured(config.pools[i], 0)
    BY <1>4, <1>5
  <2>2. f[i] = api.next + i
    BY <1>12
  <2>3. SameAttributes(state.pools[i], f[i])'
    <3>1. /\ state'.pools[i].type = config.pools[i].type
          /\ state'.pools[i].count = config.pools[i].count
          /\ state'.pools[i].external = FALSE
      BY <2>1 DEF Configured
    <3>2. /\ api'.pools[f[i]].type = config.pools[i].type
          /\ api'.pools[f[i]].count = config.pools[i].count
          /\ api'.pools[f[i]].external = FALSE
      BY <1>9, <2>2
    <3> QED
      BY <3>1, <3>2 DEF SameAttributes
  <2>4. state'.pools[i].id = 0
    BY <2>1 DEF Configured
  <2> QED
    BY <1>1, <2>3, <2>4
<1> HIDE DEF n
<1>14. MatchedBy(f, state.pools, Visible(config.tags))'
  BY <1>4, <1>5, <1>10, <1>12, <1>13 DEF MatchedBy, Found
<1>15. ReadyInv'
  <2>1. f \in [DOMAIN state'.pools -> Visible(config.tags)']
    BY <1>4, <1>5, <1>10, <1>12
  <2>2. Matched(state.pools, Visible(config.tags))'
    BY <1>14, <2>1 DEF Matched
  <2> QED
    BY <1>1, <1>4, <1>5, <2>2 DEF ReadyInv, n
<1> QED
  BY <1>7, <1>8, <1>15 DEF PoolsInv

\* What Reconcile takes for the old pools, when none of them has disappeared.
LEMMA KeptAll ==
    ASSUME IInv, op.pc = "reconcile", Hole \notin Range(op.old),
           NEW kept \in Ascending({i \in DOMAIN op.old : op.old[i].id # 0})
    PROVE  [i \in DOMAIN kept |-> op.old[kept[i]]] = op.old
<1> DEFINE n == Len(op.old)
<1>1. n \in Nat /\ DOMAIN op.old = 1 .. n /\ op.old = [i \in 1 .. n |-> op.old[i]]
  BY TypesOf DEF IInv
<1>2. ASSUME NEW i \in 1 .. n
      PROVE  op.old[i].id # 0
  <2>1. op.old[i] \in Range(op.old) /\ op.old[i] # Hole
    BY <1>1 DEF Range
  <2> QED
    BY <1>1, <2>1 DEF IInv, OldInv, UpdateSteps
<1>3. {i \in DOMAIN op.old : op.old[i].id # 0} = 1 .. n
  BY <1>1, <1>2
<1>4. kept \in Ascending(1 .. n)
  BY <1>3
<1>5. Len(kept) = n /\ \A i \in 1 .. n : kept[i] = i
  BY <1>1, <1>4, AscendingAll
<1>6. DOMAIN kept = 1 .. n
  BY <1>1, <1>4, FS_Interval DEF Ascending
<1> HIDE DEF n
<1> QED
  BY <1>1, <1>5, <1>6

\* An ascending sequence goes through all of the set, once.
Takes(k, S) ==
    /\ Len(k) \in Nat /\ DOMAIN k = 1 .. Len(k) /\ k \in [1 .. Len(k) -> S]
    /\ \A a, b \in 1 .. Len(k) : k[a] = k[b] => a = b
    /\ \A i \in S : \E a \in 1 .. Len(k) : k[a] = i

LEMMA AscendingTakes ==
    ASSUME NEW n \in Nat, NEW S \in SUBSET (1 .. n), NEW k \in Ascending(S)
    PROVE  Takes(k, S)
<1> DEFINE c == Cardinality(S)
<1>1. /\ IsFiniteSet(S) /\ c \in Nat /\ k \in [1 .. c -> S] /\ Len(k) = c
  BY AscendingIs
<1>2. \A a, b \in 1 .. c : a < b => k[a] < k[b]
  BY <1>1 DEF Ascending
<1>3. \A a \in 1 .. c : k[a] \in Nat
  <2>1. \A i \in S : i \in Nat
    OBVIOUS
  <2> HIDE DEF c
  <2> QED
    BY <1>1, <2>1
<1>4. \A a, b \in 1 .. c : k[a] = k[b] => a = b
  BY <1>1, <1>2, <1>3
<1>5. Cardinality(1 .. c) = c
  BY <1>1, FS_Interval
<1>6. \A i \in S : \E a \in 1 .. c : k[a] = i
  BY <1>1, <1>4, <1>5, AllTaken
<1> HIDE DEF c
<1> QED
  BY <1>1, <1>4, <1>6 DEF Takes

\* Without a hole the comparison pairs each old pool with the declaration at its
\* place: it stays and is updated, or it makes way for a new one.
PlanOf(updates, creates, deletes, q) ==
    LET old   == op.old
        Stays == {i \in DOMAIN old \cap Places : old[i].type = config.pools[i].type}
    IN  /\ updates = {Configured(config.pools[i], old[i].id) :
                         i \in {i \in Stays : old[i] # Configured(config.pools[i], old[i].id)}}
        /\ Range(deletes) = {old[i].id : i \in DOMAIN old \ Stays}
        /\ q \in [DOMAIN creates -> Places \ Stays]
        /\ \A i \in Places \ Stays : \E j \in DOMAIN creates : q[j] = i
        /\ \A i, j \in DOMAIN creates : q[i] = q[j] => i = j
        /\ \A j \in DOMAIN creates : creates[j] = config.pools[q[j]]

\* What Reconcile makes of the old pools it has kept.
Compares(old) ==
    LET new  == PlannedPools
        Swap == {i \in DOMAIN old \cap DOMAIN new : Replaced(old[i], new[i])}
    IN  \E swaps \in Ascending(Swap) :
           op' = [op EXCEPT !.pc = "pools",
              !.toUpdate = {[new[i] EXCEPT !.id = old[i].id] :
                               i \in {i \in (DOMAIN old \cap DOMAIN new) \ Swap : new[i] # old[i]}},
              !.toCreate = SubSeq(config.pools, Len(old) + 1, Len(new))
                              \o [i \in DOMAIN swaps |-> config.pools[swaps[i]]],
              !.toDelete = Surplus(old, new)
                              \o [i \in DOMAIN swaps |-> old[swaps[i]].id]]

\* Where none has disappeared that is the comparison of all of them.
LEMMA ReconcilePlans ==
    ASSUME IInv, Reconcile, Hole \notin Range(op.old)
    PROVE  \E updates, creates, deletes, q :
              /\ PlanOf(updates, creates, deletes, q)
              /\ op' = [op EXCEPT !.pc = "pools", !.toUpdate = updates, !.toCreate = creates,
                                  !.toDelete = deletes]
<1> DEFINE old     == op.old
<1> DEFINE new     == PlannedPools
<1> DEFINE Swap    == {i \in DOMAIN old \cap DOMAIN new : Replaced(old[i], new[i])}
<1> DEFINE updates == {[new[i] EXCEPT !.id = old[i].id] :
                          i \in {i \in (DOMAIN old \cap DOMAIN new) \ Swap : new[i] # old[i]}}
<1>1. PICK kept \in Ascending({i \in DOMAIN op.old : op.old[i].id # 0}) :
         Compares([i \in DOMAIN kept |-> op.old[kept[i]]])
  BY DEF Reconcile, Compares
<1>2. Compares(op.old)
  <2>1. [i \in DOMAIN kept |-> op.old[kept[i]]] = op.old
    BY KeptAll DEF Reconcile
  <2> QED
    BY <1>1, <2>1
<1>3. PICK swaps \in Ascending(Swap) :
         op' = [op EXCEPT !.pc = "pools", !.toUpdate = updates,
                  !.toCreate = SubSeq(config.pools, Len(old) + 1, Len(new))
                                  \o [i \in DOMAIN swaps |-> config.pools[swaps[i]]],
                  !.toDelete = Surplus(old, new)
                                  \o [i \in DOMAIN swaps |-> old[swaps[i]].id]]
  BY <1>2 DEF Compares
<1> DEFINE k == Len(old)
<1> DEFINE n == Len(new)
<1> DEFINE y == Len(swaps)
<1> DEFINE tail == SubSeq(config.pools, k + 1, n)
<1> DEFINE again == [i \in DOMAIN swaps |-> config.pools[swaps[i]]]
<1> DEFINE creates == tail \o again
<1> DEFINE away == [i \in DOMAIN swaps |-> old[swaps[i]].id]
<1> DEFINE deletes == Surplus(old, new) \o away
<1> DEFINE Stays == {i \in DOMAIN old \cap Places : old[i].type = config.pools[i].type}
<1>4. /\ op' = [op EXCEPT !.pc = "pools", !.toUpdate = updates, !.toCreate = creates,
                          !.toDelete = deletes]
  BY <1>3
<1>5. /\ k \in Nat /\ DOMAIN old = 1 .. k /\ n \in Nat /\ DOMAIN new = 1 .. n
      /\ Places = 1 .. n /\ config.pools \in Seq(Specs) /\ Len(config.pools) = n
      /\ old \in Seq(Declared) /\ new \in Seq(Present)
  BY TypesOf, PlannedIs DEF IInv, Places
<1>6. ASSUME NEW i \in 1 .. n
      PROVE  /\ new[i] = Configured(config.pools[i], PlannedID(i))
             /\ new[i].type = config.pools[i].type
             /\ i <= k => PlannedID(i) = old[i].id
  <2>1. op.old = state.pools
    BY DEF Reconcile, IInv, OldInv, UpdateSteps
  <2>2. new[i] = Configured(config.pools[i], PlannedID(i))
    BY <1>5 DEF PlannedPools, Places
  <2> QED
    BY <1>5, <2>1, <2>2 DEF PlannedID, Configured
<1>7. Stays = (DOMAIN old \cap DOMAIN new) \ Swap
  BY <1>5, <1>6 DEF Replaced
<1>8. Swap \in SUBSET (1 .. k) /\ Swap \in SUBSET (1 .. n)
  BY <1>5
<1>9. /\ y \in Nat /\ DOMAIN swaps = 1 .. y /\ swaps \in [1 .. y -> Swap]
      /\ \A a, b \in 1 .. y : swaps[a] = swaps[b] => a = b
      /\ \A i \in Swap : \E a \in 1 .. y : swaps[a] = i
  <2>1. swaps \in Ascending(Swap) /\ k \in Nat /\ Swap \in SUBSET (1 .. k)
    BY <1>5, <1>8
  <2> HIDE DEF Swap, k, n, old, new
  <2>2. Takes(swaps, Swap)
    BY <2>1, AscendingTakes
  <2> QED
    BY <2>2 DEF Takes
<1>10. updates = {Configured(config.pools[i], old[i].id) :
                     i \in {i \in Stays : old[i] # Configured(config.pools[i], old[i].id)}}
  <2>1. ASSUME NEW i \in Stays
        PROVE  /\ new[i] = Configured(config.pools[i], old[i].id)
               /\ [new[i] EXCEPT !.id = old[i].id] = Configured(config.pools[i], old[i].id)
    <3>1. i \in 1 .. n /\ i <= k
      BY <1>5
    <3> HIDE DEF new, old, k, n, Stays
    <3>2. new[i] = Configured(config.pools[i], old[i].id)
      BY <1>6, <3>1
    <3>3. new[i].id = old[i].id
      BY <3>2 DEF Configured
    <3>4. [new[i] EXCEPT !.id = old[i].id] = new[i]
      <4>1. new[i] \in Present
        BY <1>5, <3>1
      <4> QED
        BY <3>3, <4>1 DEF Present
    <3> QED
      BY <3>2, <3>4
  <2> DEFINE A == {i \in Stays : new[i] # old[i]}
  <2> DEFINE B == {i \in Stays : old[i] # Configured(config.pools[i], old[i].id)}
  <2>2. updates = {[new[i] EXCEPT !.id = old[i].id] : i \in A}
    BY <1>7
  <2> HIDE DEF Stays, Swap, new, old, updates
  <2>3. A = B
    BY <2>1
  <2>4. \A i \in A : [new[i] EXCEPT !.id = old[i].id] = Configured(config.pools[i], old[i].id)
    BY <2>1
  <2> HIDE DEF A
  <2>5. updates = {Configured(config.pools[i], old[i].id) : i \in A}
    BY <2>2, <2>4, Zenon
  <2> QED
    BY <2>3, <2>5
<1> HIDE DEF updates, Swap, k, n, y
<1>11. /\ Surplus(old, new) \in Seq(Nat)
       /\ \A i \in DOMAIN Surplus(old, new) : n + i \in 1 .. k /\ n + i > n
                                              /\ Surplus(old, new)[i] = old[n + i].id
       /\ \A i \in 1 .. k : i > n => i - n \in DOMAIN Surplus(old, new)
  <2>1. Surplus(old, new) = [i \in 1 .. k - n |-> old[n + i].id]
    BY DEF Surplus, k, n
  <2>2. \A i \in 1 .. k : old[i].id \in Nat
    BY <1>5, DeclaredID
  <2> HIDE DEF old, new
  <2>3. Surplus(old, new) \in [1 .. k - n -> Nat]
    BY <1>5, <2>1, <2>2
  <2>4. Surplus(old, new) \in Seq(Nat)
    BY <1>5, <2>3, UpTo
  <2> QED
    BY <1>5, <2>1, <2>4
<1>12. away \in Seq(Nat) /\ DOMAIN away = 1 .. y /\ \A a \in 1 .. y : away[a] = old[swaps[a]].id
  <2>1. ASSUME NEW a \in 1 .. y
        PROVE  old[swaps[a]].id \in Nat
    <3>1. swaps[a] \in 1 .. k
      BY <1>8, <1>9
    <3> HIDE DEF old
    <3>2. old[swaps[a]] \in Declared
      BY <1>5, <3>1
    <3> QED
      BY <3>2, DeclaredID
  <2> HIDE DEF old
  <2> QED
    BY <1>9, <2>1
<1> HIDE DEF away
<1>13. Range(deletes) = {old[i].id : i \in DOMAIN old \ Stays}
  <2>1. Range(deletes) = Range(Surplus(old, new)) \cup Range(away)
    <3> DEFINE a == Surplus(old, new)
    <3>1. a \in Seq(Nat) /\ away \in Seq(Nat)
      BY <1>11, <1>12
    <3> HIDE DEF a
    <3>2. Range(a \o away) = Range(a) \cup Range(away)
      BY <3>1, RangeConcatenation
    <3> QED
      BY <3>2 DEF a
  <2>2. DOMAIN old \ Stays = {i \in 1 .. k : i > n} \cup Swap
    <3> HIDE DEF old, new, Stays
    <3>1. \A i \in 1 .. k : i \in 1 .. n \/ i > n
      BY <1>5
    <3>2. \A i \in 1 .. n : ~(i > n)
      BY <1>5
    <3> QED
      BY <1>5, <1>7, <1>8, <3>1, <3>2
  <2>3. Range(away) = {old[i].id : i \in Swap}
    <3> HIDE DEF old
    <3> QED
      BY <1>9, <1>12 DEF Range
  <2>4. ASSUME NEW i \in 1 .. k, i > n
        PROVE  old[i].id \in Range(Surplus(old, new))
    <3>1. i - n \in DOMAIN Surplus(old, new) /\ n + (i - n) = i
      BY <1>5, <1>11, <2>4
    <3>2. Surplus(old, new)[i - n] = old[n + (i - n)].id
      BY <1>11, <3>1
    <3> QED
      BY <3>1, <3>2 DEF Range
  <2>5. Range(Surplus(old, new)) \subseteq {old[i].id : i \in {i \in 1 .. k : i > n}}
    <3> HIDE DEF old, new
    <3> QED
      BY <1>11 DEF Range
  <2> HIDE DEF old, new, deletes, Stays
  <2> QED
    BY <2>1, <2>2, <2>3, <2>4, <2>5
<1>14. /\ tail \in Seq(Specs) /\ (n > k => Len(tail) = n - k) /\ (n <= k => Len(tail) = 0)
       /\ \A j \in 1 .. Len(tail) : k + j \in 1 .. n /\ tail[j] = config.pools[k + j]
  <2>1. \A i \in k + 1 .. n : config.pools[i] \in Specs
    BY <1>5
  <2>2. k + 1 \in Int /\ n \in Int
    BY <1>5
  <2>3. /\ tail \in Seq(Specs)
        /\ Len(tail) = IF k + 1 <= n THEN n - (k + 1) + 1 ELSE 0
        /\ \A j \in 1 .. n - (k + 1) + 1 : tail[j] = config.pools[(k + 1) + j - 1]
    BY <2>1, <2>2, SubSeqProperties
  <2> HIDE DEF tail
  <2>4. (n > k => Len(tail) = n - k) /\ (n <= k => Len(tail) = 0)
    BY <1>5, <2>3
  <2>5. ASSUME NEW j \in 1 .. Len(tail)
        PROVE  k + j \in 1 .. n /\ tail[j] = config.pools[k + j]
    <3>1. n > k /\ j \in 1 .. n - k /\ j \in 1 .. n - (k + 1) + 1 /\ (k + 1) + j - 1 = k + j
      BY <1>5, <2>4
    <3> QED
      BY <1>5, <2>3, <3>1
  <2> QED
    BY <2>3, <2>4, <2>5
<1>15. again \in Seq(Specs) /\ Len(again) = y /\ \A a \in 1 .. y : again[a] = config.pools[swaps[a]]
  <2>1. ASSUME NEW a \in 1 .. y
        PROVE  config.pools[swaps[a]] \in Specs
    <3>1. swaps[a] \in 1 .. n
      BY <1>8, <1>9
    <3> HIDE DEF old, new
    <3> QED
      BY <1>5, <3>1
  <2> QED
    BY <1>9, <2>1
<1> HIDE DEF tail, again
<1> DEFINE z == Len(tail)
<1>16. /\ z \in Nat /\ DOMAIN creates = 1 .. z + y
       /\ \A j \in 1 .. z + y : creates[j] = IF j <= z THEN tail[j] ELSE again[j - z]
  <2>1. /\ creates \in Seq(Specs) /\ Len(creates) = Len(tail) + Len(again)
        /\ \A j \in 1 .. Len(tail) + Len(again) :
              creates[j] = IF j <= Len(tail) THEN tail[j] ELSE again[j - Len(tail)]
    BY <1>14, <1>15, ConcatProperties, Zenon
  <2>2. Len(tail) \in Nat
    BY <1>14
  <2> HIDE DEF creates
  <2> QED
    BY <1>15, <2>1, <2>2
<1> DEFINE q == [j \in 1 .. z + y |-> IF j <= z THEN k + j ELSE swaps[j - z]]
<1> HIDE DEF z, creates
<1>17. ASSUME NEW j \in 1 .. z + y
       PROVE  /\ j <= z => q[j] = k + j /\ q[j] \in 1 .. n /\ q[j] > k
                           /\ creates[j] = config.pools[q[j]]
              /\ j > z => j - z \in 1 .. y /\ q[j] = swaps[j - z] /\ q[j] \in Swap
                          /\ creates[j] = config.pools[q[j]]
  <2>1. CASE j <= z
    <3>1. j \in 1 .. Len(tail) /\ q[j] = k + j /\ creates[j] = tail[j]
      BY <1>5, <1>16, <2>1 DEF z
    <3>2. ~(j > z)
      BY <1>16, <2>1
    <3>3. k + j \in 1 .. n /\ tail[j] = config.pools[k + j]
      BY <1>14, <3>1
    <3>4. k + j > k
      BY <1>5, <3>1
    <3> HIDE DEF q
    <3> QED
      BY <3>1, <3>2, <3>3, <3>4
  <2>2. CASE j > z
    <3>1. j - z \in 1 .. y /\ ~(j <= z)
      BY <1>9, <1>16, <2>2
    <3>2. q[j] = swaps[j - z] /\ creates[j] = again[j - z]
      BY <1>16, <3>1
    <3>3. again[j - z] = config.pools[swaps[j - z]] /\ swaps[j - z] \in Swap
      BY <1>9, <1>15, <3>1
    <3> HIDE DEF q
    <3> QED
      BY <3>1, <3>2, <3>3
  <2> QED
    BY <1>16, <2>1, <2>2
<1> HIDE DEF Stays
<1>18. Places \ Stays = {i \in 1 .. n : i > k} \cup Swap
  <2> HIDE DEF old, new
  <2>1. \A i \in 1 .. n : i \in 1 .. k \/ i > k
    BY <1>5
  <2>2. \A i \in 1 .. k : ~(i > k)
    BY <1>5
  <2> QED
    BY <1>5, <1>7, <1>8, <2>1, <2>2
<1>19. q \in [1 .. z + y -> Places \ Stays]
  <2>1. q = [j \in 1 .. z + y |-> q[j]]
    OBVIOUS
  <2>2. \A j \in 1 .. z + y : j <= z \/ j > z
    BY <1>9, <1>16
  <2> HIDE DEF q
  <2>3. \A j \in 1 .. z + y : q[j] \in Places \ Stays
    BY <1>17, <1>18, <2>2
  <2> QED
    BY <2>1, <2>3
<1>20. ASSUME NEW i \in Places \ Stays
       PROVE  \E j \in 1 .. z + y : q[j] = i
  <2>1. CASE i \in Swap
    <3>1. PICK a \in 1 .. y : swaps[a] = i
      BY <1>9, <2>1
    <3>2. z + a \in 1 .. z + y /\ ~(z + a <= z) /\ (z + a) - z = a
      BY <1>9, <1>16
    <3> QED
      BY <3>1, <3>2
  <2>2. CASE i \in 1 .. n /\ i > k
    <3>1. z = n - k /\ i - k \in 1 .. z /\ i - k \in 1 .. z + y /\ k + (i - k) = i
      BY <1>5, <1>9, <1>14, <2>2 DEF z
    <3>2. q[i - k] = i
      BY <3>1
    <3> QED
      BY <3>1, <3>2
  <2> QED
    BY <1>18, <2>1, <2>2
<1>21. ASSUME NEW i \in 1 .. z + y, NEW j \in 1 .. z + y, q[i] = q[j]
       PROVE  i = j
  <2> HIDE DEF q
  <2>1. \A a \in Swap : a \in Nat /\ a <= k
    BY <1>5, <1>8
  <2>2. i \in Nat /\ j \in Nat /\ z \in Nat /\ k \in Nat
    BY <1>5, <1>9, <1>16
  <2>3. CASE i <= z /\ j <= z
    BY <1>17, <1>21, <2>2, <2>3
  <2>4. CASE i <= z /\ j > z
    BY <1>17, <1>21, <2>1, <2>2, <2>4
  <2>5. CASE i > z /\ j <= z
    BY <1>17, <1>21, <2>1, <2>2, <2>5
  <2>6. CASE i > z /\ j > z
    <3>1. i - z \in 1 .. y /\ j - z \in 1 .. y /\ swaps[i - z] = swaps[j - z]
      BY <1>17, <1>21, <2>6
    <3>2. i - z = j - z
      BY <1>9, <3>1
    <3> QED
      BY <2>2, <3>2
  <2> QED
    BY <2>2, <2>3, <2>4, <2>5, <2>6
<1>22. \A j \in 1 .. z + y : creates[j] = config.pools[q[j]]
  <2>1. \A j \in 1 .. z + y : j <= z \/ j > z
    BY <1>9, <1>16
  <2> HIDE DEF q
  <2> QED
    BY <1>17, <2>1
<1> HIDE DEF q, deletes
<1>23. PlanOf(updates, creates, deletes, q)
  BY <1>10, <1>13, <1>16, <1>19, <1>20, <1>21, <1>22 DEF PlanOf, Stays
<1> QED
  BY <1>4, <1>23

\* A step that makes the plan of an update or works it off keeps the rest.
LEMMA FixStep ==
    ASSUME PoolsInv, op.pc \in UpdateSteps \ {"cluster"}, op'.pc \in {"pools", "wait"},
           op'.old = op.old, op'.drift = op.drift, state' = state, config' = config,
           api'.version = api.version,
           Calm => \E f \in [Places -> 0 .. api'.next], q \in [DOMAIN op'.toCreate -> Places] :
                      Paired(f, q)',
           op'.pc = "wait" => op'.toUpdate = {} /\ op'.toCreate = <<>> /\ op'.toDelete = <<>>
    PROVE  PoolsInv'
<1>1. LifeInv'
  BY PlaceNames DEF PoolsInv, LifeInv, UpdateSteps
<1>2. ReadyInv' /\ SeenInv'
  BY DEF ReadyInv, SeenInv
<1>3. Places' = Places
  BY DEF Places
<1>4. FixInv'
  BY <1>3, SameCalm DEF FixInv
<1> QED
  BY <1>1, <1>2, <1>4 DEF PoolsInv

LEMMA OpPlanned ==
    ASSUME op \in OpRecord, NEW updates, NEW creates, NEW deletes,
           op' = [op EXCEPT !.pc = "pools", !.toUpdate = updates, !.toCreate = creates,
                            !.toDelete = deletes]
    PROVE  /\ op'.pc = "pools" /\ op'.old = op.old /\ op'.drift = op.drift
           /\ op'.toUpdate = updates /\ op'.toCreate = creates /\ op'.toDelete = deletes
  BY DEF OpRecord

LEMMA ReconcilePools ==
    ASSUME IInv, PoolsInv, Reconcile
    PROVE  PoolsInv'
<1>1. /\ op \in OpRecord /\ op.pc = "reconcile" /\ api' = api /\ state' = state
      /\ config' = config /\ op.pc \in UpdateSteps /\ api.next \in Nat
      /\ op.pc \in UpdateSteps \ {"pools", "wait"}
  BY TypesOf DEF IInv, Reconcile, UpdateSteps
<1>2. op'.pc = "pools" /\ op'.old = op.old /\ op'.drift = op.drift
  BY <1>1 DEF Reconcile, OpRecord
<1>3. ASSUME Calm
      PROVE  \E f \in [Places -> 0 .. api'.next], q \in [DOMAIN op'.toCreate -> Places] :
                Paired(f, q)'
  <2> DEFINE old   == op.old
  <2> DEFINE ids   == Visible(state.tags)
  <2> DEFINE Stays == {i \in DOMAIN old \cap Places : old[i].type = config.pools[i].type}
  <2>1. PICK updates, creates, deletes, q :
           /\ PlanOf(updates, creates, deletes, q)
           /\ op' = [op EXCEPT !.pc = "pools", !.toUpdate = updates, !.toCreate = creates,
                               !.toDelete = deletes]
    BY <1>3, ReconcilePlans DEF Calm
  <2>2. op'.toUpdate = updates /\ op'.toCreate = creates /\ op'.toDelete = deletes
    BY <1>1, <2>1, OpPlanned
  <2>3. /\ updates = {Configured(config.pools[i], old[i].id) :
                         i \in {i \in Stays : old[i] # Configured(config.pools[i], old[i].id)}}
        /\ Range(deletes) = {old[i].id : i \in DOMAIN old \ Stays}
        /\ q \in [DOMAIN creates -> Places \ Stays]
        /\ \A i \in Places \ Stays : \E j \in DOMAIN creates : q[j] = i
        /\ \A i, j \in DOMAIN creates : q[i] = q[j] => i = j
        /\ \A j \in DOMAIN creates : creates[j] = config.pools[q[j]]
    BY <2>1 DEF PlanOf
  <2>4. /\ \A i \in DOMAIN old : old[i].id \in ids /\ old[i] = FlattenPool(old[i].id)
        /\ \A id \in ids : \E i \in DOMAIN old : old[i].id = id
    BY <1>1, <1>3 DEF PoolsInv, SeenInv
  <2>5. /\ \A id \in ids : id \in 1 .. api.next /\ id # 0
        /\ \A i, j \in DOMAIN old : old[i].id = old[j].id => i = j
        /\ old = state.pools
    <3>1. \A id \in ids : id \in 1 .. api.next /\ id # 0
      BY <1>1, VisibleIDs DEF IInv
    <3> QED
      BY <1>1, <2>4, <3>1 DEF IInv, OldInv
  <2>6. ASSUME NEW i \in DOMAIN old
        PROVE  /\ old[i].type = api.pools[old[i].id].type
               /\ old[i].count = api.pools[old[i].id].count
               /\ old[i].external = api.pools[old[i].id].external
    <3> DEFINE id == old[i].id
    <3>1. old[i] = FlattenPool(id) /\ id # 0
      BY <2>4, <2>5
    <3> HIDE DEF id, old
    <3>2. /\ old[i].type = api.pools[id].type
          /\ old[i].count = api.pools[id].count
          /\ old[i].external = api.pools[id].external
      BY <3>1 DEF FlattenPool
    <3> QED
      BY <3>2 DEF id
  <2>7. PICK f : f = [i \in Places |-> IF i \in Stays THEN old[i].id ELSE 0]
    OBVIOUS
  <2>8. Stays \subseteq DOMAIN old /\ Stays \subseteq Places
        /\ \A i \in Stays : old[i].type = config.pools[i].type
    OBVIOUS
  <2> HIDE DEF Stays, old
  <2>9. /\ \A i \in Stays : f[i] = old[i].id /\ f[i] \in ids /\ f[i] # 0
        /\ \A i \in Places : f[i] # 0 <=> i \in Stays
    BY <2>4, <2>5, <2>7, <2>8
  <2>10. ids' = ids /\ Places' = Places /\ \A i : PlannedID(i)' = PlannedID(i)
    BY <1>1 DEF Visible, Places, PlannedID
  <2>11. f \in [Places -> 0 .. api'.next] /\ q \in [DOMAIN op'.toCreate -> Places]
    <3>1. \A i \in Places : (IF i \in Stays THEN old[i].id ELSE 0) \in 0 .. api.next
      BY <1>1, <2>4, <2>5, <2>8
    <3> QED
      BY <1>1, <2>2, <2>3, <2>7, <3>1
  <2>12. Waiting(f, q)'
    <3>1. DOMAIN q = DOMAIN creates
      BY <2>3
    <3>2. \A i \in Places : f[i] = 0 <=> \E j \in DOMAIN q : q[j] = i
      BY <2>3, <2>9, <3>1
    <3> QED
      BY <1>1, <2>2, <2>3, <2>10, <3>1, <3>2 DEF Waiting
  <2>13. Kept(f)'
    <3>1. ASSUME NEW i \in Stays
          PROVE  /\ f[i] \notin Range(deletes)
                 /\ \A j \in Places : f[i] = f[j] => i = j
      <4>1. ASSUME NEW j \in DOMAIN old \ Stays
            PROVE  f[i] # old[j].id
        BY <2>5, <2>8, <2>9
      <4>2. f[i] \notin Range(deletes)
        BY <2>3, <4>1
      <4>3. ASSUME NEW j \in Places, f[i] = f[j]
            PROVE  i = j
        BY <2>5, <2>8, <2>9, <4>3
      <4> QED
        BY <4>2, <4>3
    <3> QED
      BY <2>2, <2>9, <2>10, <3>1 DEF Kept
  <2>14. Fitting(f)'
    <3>1. ASSUME NEW i \in Places, f[i] # 0
          PROVE  /\ api'.pools[f[i]].type = config'.pools[i].type
                 /\ \/ SameAttributes(Configured(config.pools[i], 0), f[i])'
                    \/ Configured(config.pools[i], f[i])' \in op'.toUpdate
      <4>1. i \in Stays /\ i \in DOMAIN old /\ f[i] = old[i].id
        BY <2>8, <2>9, <3>1
      <4>2. api.pools[f[i]].type = config.pools[i].type
        BY <2>6, <2>8, <4>1
      <4>3. CASE old[i] = Configured(config.pools[i], old[i].id)
        <5>1. /\ api.pools[f[i]].count = config.pools[i].count
              /\ api.pools[f[i]].external = FALSE
          BY <2>6, <4>1, <4>3 DEF Configured
        <5>2. SameAttributes(Configured(config.pools[i], 0), f[i])'
          BY <1>1, <4>2, <5>1 DEF SameAttributes, Configured
        <5> QED
          BY <1>1, <4>2, <5>2
      <4>4. CASE old[i] # Configured(config.pools[i], old[i].id)
        <5>1. Configured(config.pools[i], f[i]) \in updates
          BY <2>3, <4>1, <4>4
        <5>2. Configured(config.pools[i], f[i])' \in op'.toUpdate
          BY <1>1, <2>2, <5>1 DEF Configured
        <5> QED
          BY <1>1, <4>2, <5>2
      <4> QED
        BY <4>3, <4>4
    <3>2. ASSUME NEW pool \in updates, NEW i \in Places, f[i] = pool.id
          PROVE  pool = Configured(config.pools[i], f[i])
      <4>1. PICK s \in Stays : pool = Configured(config.pools[s], old[s].id)
        BY <2>3
      <4>2. f[i] = f[s] /\ f[s] # 0
        BY <2>9, <3>2, <4>1 DEF Configured
      <4>3. i \in Stays /\ old[i].id = old[s].id
        BY <2>9, <4>2
      <4>4. i = s
        BY <2>5, <2>8, <4>3
      <4> QED
        BY <2>9, <4>1, <4>4
    <3>3. \A pool \in op'.toUpdate : \A i \in Places :
             f[i] = pool.id => pool = Configured(config.pools[i], f[i])'
      BY <1>1, <2>2, <3>2 DEF Configured
    <3> QED
      BY <2>10, <3>1, <3>3 DEF Fitting
  <2>15. Placed(f)'
    <3>1. ASSUME NEW i \in DOMAIN old
          PROVE  (i \in Places /\ f[i] = old[i].id) \/ old[i].id \in Range(deletes)
      BY <2>3, <2>8, <2>9
    <3>2. \A id \in ids : id \in Range(f) \cup Range(deletes)
      BY <2>4, <2>7, <3>1 DEF Range
    <3>3. ASSUME NEW i \in Places, PlannedID(i) \in ids
          PROVE  PlannedID(i) \in {f[i]} \cup Range(deletes)
      <4>1. i \in DOMAIN old /\ PlannedID(i) = old[i].id
        <5>1. DOMAIN config.pools = 1 .. Len(config.pools) /\ state.pools \in Seq(Declared)
          BY TypesOf DEF IInv
        <5> QED
          BY <2>5, <3>3, <5>1 DEF PlannedID, Places
      <4> QED
        BY <3>1, <4>1
    <3> QED
      BY <2>2, <2>10, <3>2, <3>3 DEF Placed
  <2> QED
    BY <2>11, <2>12, <2>13, <2>14, <2>15 DEF Paired
<1> QED
  BY <1>1, <1>2, <1>3, FixStep

\* While the plan is worked off each declaration has its pool or waits for it.
LEMMA PairedNow ==
    ASSUME PoolsInv, op.pc \in {"pools", "wait"}, Calm
    PROVE  \E f, q : /\ f \in [Places -> 0 .. api.next] /\ q \in [DOMAIN op.toCreate -> Places]
                     /\ Waiting(f, q) /\ Kept(f) /\ Fitting(f) /\ Placed(f)
<1>1. PICK f \in [Places -> 0 .. api.next] :
         \E q \in [DOMAIN op.toCreate -> Places] : Paired(f, q)
  BY DEF PoolsInv, FixInv
<1> QED
  BY <1>1 DEF Paired

LEMMA PlacesStay ==
    ASSUME state' = state, config' = config
    PROVE  /\ Places' = Places /\ \A i : PlannedID(i)' = PlannedID(i)
  BY DEF Places, PlannedID

LEMMA UpdatePoolPools ==
    ASSUME IInv, PoolsInv, UpdatePool
    PROVE  PoolsInv'
<1>1. /\ op \in OpRecord /\ op.pc = "pools" /\ state' = state /\ config' = config
      /\ op.pc \in UpdateSteps \ {"cluster"} /\ op.toUpdate \subseteq Present
  BY TypesOf DEF IInv, UpdatePool, UpdateSteps
<1>2. PICK pool \in op.toUpdate :
         /\ pool.id \in DOMAIN api.pools
         /\ api' = [api EXCEPT !.pools[pool.id].count = pool.count,
                               !.pools[pool.id].external = FALSE]
         /\ op' = [op EXCEPT !.toUpdate = @ \ {pool}, !.updated = @ \cup {pool.id}]
  BY DEF UpdatePool
<1>3. /\ op'.pc = "pools" /\ op'.old = op.old /\ op'.drift = op.drift
      /\ op'.toUpdate = op.toUpdate \ {pool} /\ op'.toCreate = op.toCreate
      /\ op'.toDelete = op.toDelete
  BY <1>1, <1>2 DEF OpRecord
<1>4. /\ api'.next = api.next /\ api'.version = api.version
      /\ api'.pools = [api.pools EXCEPT ![pool.id].count = pool.count,
                                        ![pool.id].external = FALSE]
      /\ api.pools = [id \in DOMAIN api.pools |-> api.pools[id]]
      /\ \A id \in DOMAIN api.pools : api.pools[id] \in Pools
  BY <1>2 DEF IInv, TypeOK
<1>5. /\ DOMAIN api'.pools = DOMAIN api.pools
      /\ \A id \in DOMAIN api.pools : id # pool.id => api'.pools[id] = api.pools[id]
      /\ api'.pools[pool.id].type = api.pools[pool.id].type
      /\ api'.pools[pool.id].count = pool.count
      /\ api'.pools[pool.id].external = FALSE
  <2>1. api'.pools[pool.id] = [api.pools[pool.id] EXCEPT !.count = pool.count, !.external = FALSE]
    BY <1>2, <1>4
  <2>2. api.pools[pool.id] \in Pools
    BY <1>2, <1>4
  <2> QED
    BY <1>4, <2>1, <2>2 DEF Pools
<1>6. ASSUME Calm
      PROVE  \E f \in [Places -> 0 .. api'.next], q \in [DOMAIN op'.toCreate -> Places] :
                Paired(f, q)'
  <2>1. PICK f, q : /\ f \in [Places -> 0 .. api.next] /\ q \in [DOMAIN op.toCreate -> Places]
                    /\ Waiting(f, q) /\ Kept(f) /\ Fitting(f) /\ Placed(f)
    BY <1>1, <1>6, PairedNow
  <2>2. Places' = Places /\ \A i : PlannedID(i)' = PlannedID(i)
    BY <1>1, PlacesStay
  <2>3. Visible(state.tags)' = Visible(state.tags)
    <3>1. state.tags => ~api.pools[pool.id].external
      BY <1>1, <1>2 DEF IInv, OwnInv, ChangesInv, Changes
    <3>2. \A id \in DOMAIN api.pools :
             state.tags => api'.pools[id].external = api.pools[id].external
      BY <1>4, <1>5, <3>1 DEF Pools
    <3> QED
      BY <1>1, <1>5, <3>2 DEF Visible
  <2>4. Waiting(f, q)'
    BY <1>1, <1>3, <2>1, <2>2 DEF Waiting
  <2>5. Kept(f)'
    BY <1>3, <2>1, <2>2, <2>3 DEF Kept
  <2>6. Placed(f)'
    BY <1>3, <2>1, <2>2, <2>3 DEF Placed
  <2>7. Fitting(f)'
    <3>1. ASSUME NEW i \in Places, f[i] # 0
          PROVE  /\ api'.pools[f[i]].type = config'.pools[i].type
                 /\ \/ SameAttributes(Configured(config.pools[i], 0), f[i])'
                    \/ Configured(config.pools[i], f[i])' \in op'.toUpdate
      <4>1. /\ api.pools[f[i]].type = config.pools[i].type
            /\ \/ SameAttributes(Configured(config.pools[i], 0), f[i])
               \/ Configured(config.pools[i], f[i]) \in op.toUpdate
            /\ f[i] = pool.id => pool = Configured(config.pools[i], f[i])
            /\ f[i] \in DOMAIN api.pools
        BY <2>1, <3>1 DEF Fitting, Kept, Visible
      <4>2. CASE f[i] = pool.id
        <5>1. /\ api'.pools[f[i]].type = config.pools[i].type
              /\ api'.pools[f[i]].count = config.pools[i].count
              /\ api'.pools[f[i]].external = FALSE
          BY <1>5, <4>1, <4>2 DEF Configured
        <5>2. SameAttributes(Configured(config.pools[i], 0), f[i])'
          BY <1>1, <5>1 DEF SameAttributes, Configured
        <5> QED
          BY <1>1, <5>1, <5>2
      <4>3. CASE f[i] # pool.id
        <5>1. api'.pools[f[i]] = api.pools[f[i]]
          BY <1>5, <4>1, <4>3
        <5>2. Configured(config.pools[i], f[i]) # pool
          BY <4>3 DEF Configured
        <5>3. SameAttributes(Configured(config.pools[i], 0), f[i]) =>
                 SameAttributes(Configured(config.pools[i], 0), f[i])'
          BY <1>1, <5>1 DEF SameAttributes, Configured
        <5>4. Configured(config.pools[i], f[i])' = Configured(config.pools[i], f[i])
          BY <1>1 DEF Configured
        <5> QED
          BY <1>1, <1>3, <4>1, <5>1, <5>2, <5>3, <5>4
      <4> QED
        BY <4>2, <4>3
    <3>2. \A p \in op'.toUpdate : \A i \in Places :
             f[i] = p.id => p = Configured(config.pools[i], f[i])'
      BY <1>1, <1>3, <2>1 DEF Fitting, Configured
    <3> QED
      BY <2>2, <3>1, <3>2 DEF Fitting
  <2> QED
    BY <1>3, <1>4, <2>1, <2>4, <2>5, <2>6, <2>7 DEF Paired
<1> QED
  BY <1>1, <1>3, <1>4, <1>6, FixStep

LEMMA TailIs ==
    ASSUME NEW S, NEW s \in Seq(S), s # <<>>
    PROVE  /\ 1 \in DOMAIN s /\ Head(s) = s[1] /\ Head(s) \in S /\ Tail(s) \in Seq(S)
           /\ \A i \in DOMAIN Tail(s) : i + 1 \in DOMAIN s /\ Tail(s)[i] = s[i + 1] /\ i + 1 # 1
           /\ \A i \in DOMAIN s : i # 1 => i - 1 \in DOMAIN Tail(s) /\ (i - 1) + 1 = i
           /\ Range(Tail(s)) \subseteq Range(s) /\ Range(s) \subseteq {s[1]} \cup Range(Tail(s))
<1>1. /\ 1 \in DOMAIN s /\ Head(s) = s[1] /\ Head(s) \in S /\ Tail(s) \in Seq(S)
      /\ \A i \in DOMAIN Tail(s) : i + 1 \in DOMAIN s /\ Tail(s)[i] = s[i + 1] /\ i + 1 # 1
  OBVIOUS
<1>2. \A i \in DOMAIN s : i # 1 => i - 1 \in DOMAIN Tail(s) /\ (i - 1) + 1 = i
  OBVIOUS
<1>3. Range(Tail(s)) \subseteq Range(s)
  BY <1>1 DEF Range
<1>4. ASSUME NEW i \in DOMAIN s, i # 1
      PROVE  s[i] \in Range(Tail(s))
  <2>1. i - 1 \in DOMAIN Tail(s) /\ Tail(s)[i - 1] = s[(i - 1) + 1] /\ (i - 1) + 1 = i
    BY <1>1, <1>2, <1>4
  <2> QED
    BY <2>1 DEF Range
<1>5. Range(s) \subseteq {s[1]} \cup Range(Tail(s))
  BY <1>4 DEF Range
<1> QED
  BY <1>1, <1>2, <1>3, <1>5

\* What a pool is that has been added.
LEMMA AddedPool ==
    ASSUME TypeOK, NEW spec \in Specs, NEW external \in BOOLEAN, api' = Added(spec, external)
    PROVE  /\ api'.pools[api.next + 1].type = spec.type
           /\ api'.pools[api.next + 1].count = spec.count
           /\ api'.pools[api.next + 1].external = external
<1> DEFINE ids == DOMAIN api.pools \cup {api.next + 1}
<1> DEFINE pools == [id \in ids |-> IF id \in DOMAIN api.pools THEN api.pools[id]
                                    ELSE NewPool(spec, external)]
<1>1. api.next + 1 \notin DOMAIN api.pools
  BY AddedIs
<1>2. api' = [api EXCEPT !.next = api.next + 1, !.pools = pools]
  BY DEF Added
<1>3. pools[api.next + 1] = NewPool(spec, external)
  BY <1>1
<1> HIDE DEF pools, ids
<1>4. api'.pools = pools
  BY <1>2 DEF TypeOK
<1> QED
  BY <1>3, <1>4 DEF NewPool

LEMMA CreatePoolPools ==
    ASSUME IInv, PoolsInv, CreatePool
    PROVE  PoolsInv'
<1> DEFINE w == api.next + 1
<1> DEFINE spec == Head(op.toCreate)
<1>1. /\ op \in OpRecord /\ op.pc = "pools" /\ state' = state /\ config' = config
      /\ op.pc \in UpdateSteps \ {"cluster"} /\ api.next \in Nat /\ op.toUpdate = {}
      /\ op.toCreate \in Seq(Specs) /\ op.toCreate # <<>> /\ api' = Added(spec, FALSE)
      /\ op' = [op EXCEPT !.toCreate = Tail(@), !.updated = @ \cup {w}]
      /\ op.toDelete \in Seq(Nat)
  BY TypesOf DEF IInv, CreatePool, UpdateSteps
<1>2. /\ 1 \in DOMAIN op.toCreate /\ spec = op.toCreate[1] /\ spec \in Specs
      /\ \A j \in DOMAIN Tail(op.toCreate) :
            j + 1 \in DOMAIN op.toCreate /\ Tail(op.toCreate)[j] = op.toCreate[j + 1] /\ j + 1 # 1
      /\ \A j \in DOMAIN op.toCreate :
            j # 1 => j - 1 \in DOMAIN Tail(op.toCreate) /\ (j - 1) + 1 = j
      /\ \A j \in DOMAIN Tail(op.toCreate) : j \in Int
  <2>1. \A j \in DOMAIN Tail(op.toCreate) : j \in Int
    BY <1>1
  <2> QED
    BY <1>1, <2>1, TailIs
<1>3. /\ op'.pc = "pools" /\ op'.old = op.old /\ op'.drift = op.drift
      /\ op'.toUpdate = {} /\ op'.toCreate = Tail(op.toCreate) /\ op'.toDelete = op.toDelete
  BY <1>1 DEF OpRecord
<1>4. /\ DOMAIN api'.pools = DOMAIN api.pools \cup {w} /\ api'.next = w
      /\ api'.version = api.version /\ w \notin DOMAIN api.pools
      /\ \A id \in DOMAIN api.pools : id <= api.next /\ api'.pools[id] = api.pools[id]
      /\ api'.pools[w].type = spec.type /\ api'.pools[w].count = spec.count
      /\ api'.pools[w].external = FALSE
  BY <1>1, <1>2, AddedIs, AddedPool DEF IInv
<1> HIDE DEF spec
<1>5. ASSUME Calm
      PROVE  \E f \in [Places -> 0 .. api'.next], q \in [DOMAIN op'.toCreate -> Places] :
                Paired(f, q)'
  <2>1. PICK f, q : /\ f \in [Places -> 0 .. api.next] /\ q \in [DOMAIN op.toCreate -> Places]
                    /\ Waiting(f, q) /\ Kept(f) /\ Fitting(f) /\ Placed(f)
    BY <1>1, <1>5, PairedNow
  <2>2. Places' = Places /\ \A i : PlannedID(i)' = PlannedID(i)
    BY <1>1, PlacesStay
  <2>3. Visible(state.tags)' = Visible(state.tags) \cup {w}
    BY <1>1, <1>4 DEF Visible
  <2>4. /\ \A i \in Places : PlannedID(i) # w /\ f[i] # w
        /\ w \notin Range(op.toDelete) /\ w # 0 /\ w \notin Visible(state.tags)
    <3>1. \A i \in DOMAIN op.old : op.old[i].id # w
      BY <1>1 DEF IInv, OldInv
    <3>2. w \notin Range(op.toDelete)
      BY <1>1, <3>1 DEF IInv, ChangesInv, Changes, Range
    <3>3. op.old = state.pools /\ state.pools \in Seq(Declared)
          /\ DOMAIN config.pools = 1 .. Len(config.pools)
      BY <1>1, TypesOf DEF IInv, OldInv
    <3>4. \A i \in Places : PlannedID(i) # w
      BY <1>1, <3>1, <3>3 DEF PlannedID, Places
    <3> QED
      BY <1>1, <1>4, <2>1, <3>2, <3>4 DEF Visible
  <2> DEFINE p == q[1]
  <2>5. p \in Places /\ f[p] = 0 /\ spec = config.pools[p]
    <3>1. DOMAIN q = DOMAIN op.toCreate
      BY <2>1
    <3> QED
      BY <1>2, <2>1, <3>1 DEF Waiting
  <2>6. PICK g : g = [f EXCEPT ![p] = w]
    OBVIOUS
  <2>7. PICK r : r = [j \in DOMAIN Tail(op.toCreate) |-> q[j + 1]]
    OBVIOUS
  <2>8. /\ g \in [Places -> 0 .. w] /\ g[p] = w /\ \A i \in Places : i # p => g[i] = f[i]
        /\ r \in [DOMAIN Tail(op.toCreate) -> Places]
        /\ \A j \in DOMAIN Tail(op.toCreate) : r[j] = q[j + 1]
    <3>1. \A i \in Places : f[i] \in 0 .. w
      BY <1>1, <2>1
    <3>2. w \in 0 .. w
      BY <1>1
    <3>3. g \in [Places -> 0 .. w]
      BY <2>1, <2>5, <2>6, <3>1, <3>2
    <3> QED
      BY <1>2, <2>1, <2>5, <2>6, <2>7, <3>3
  <2> HIDE DEF p, w
  <2>9. Waiting(g, r)'
    <3>1. DOMAIN q = DOMAIN op.toCreate /\ DOMAIN r = DOMAIN Tail(op.toCreate)
      BY <2>1, <2>8
    <3>2. /\ \A j \in DOMAIN q : op.toCreate[j] = config.pools[q[j]]
          /\ \A i, j \in DOMAIN q : q[i] = q[j] => i = j
          /\ \A i \in Places : f[i] = 0 <=> \E j \in DOMAIN q : q[j] = i
      BY <2>1 DEF Waiting
    <3>3. \A j \in DOMAIN r : Tail(op.toCreate)[j] = config.pools[r[j]]
      BY <1>2, <2>8, <3>1, <3>2
    <3>4. ASSUME NEW i \in DOMAIN r, NEW j \in DOMAIN r, r[i] = r[j]
          PROVE  i = j
      <4>1. i + 1 = j + 1 /\ i \in Int /\ j \in Int
        BY <1>2, <2>8, <3>1, <3>2, <3>4
      <4> QED
        BY <4>1
    <3>5. ASSUME NEW j \in DOMAIN r
          PROVE  r[j] # p
      <4>1. j + 1 \in DOMAIN q /\ j + 1 # 1 /\ r[j] = q[j + 1]
        BY <1>2, <2>8, <3>1
      <4> QED
        BY <1>2, <3>1, <3>2, <4>1 DEF p
    <3>6. ASSUME NEW i \in Places
          PROVE  g[i] = 0 <=> \E j \in DOMAIN r : r[j] = i
      <4>1. CASE i = p
        BY <2>4, <2>8, <3>5, <4>1
      <4>2. CASE i # p
        <5>1. ASSUME NEW j \in DOMAIN q, q[j] = i
              PROVE  \E k \in DOMAIN r : r[k] = i
          <6>1. j # 1
            BY <4>2, <5>1 DEF p
          <6>2. j - 1 \in DOMAIN r /\ r[j - 1] = q[j]
            BY <1>2, <2>8, <3>1, <6>1
          <6> QED
            BY <5>1, <6>2
        <5>2. ASSUME NEW k \in DOMAIN r, r[k] = i
              PROVE  \E j \in DOMAIN q : q[j] = i
          BY <1>2, <2>8, <3>1, <5>2
        <5> QED
          BY <2>8, <3>2, <4>2, <5>1, <5>2
      <4> QED
        BY <4>1, <4>2
    <3> QED
      BY <1>1, <1>3, <2>2, <3>1, <3>3, <3>4, <3>6 DEF Waiting
  <2>10. Kept(g)'
    <3>1. ASSUME NEW i \in Places, g[i] # 0
          PROVE  /\ g[i] \in Visible(state.tags) \cup {w} /\ g[i] \notin Range(op.toDelete)
                 /\ \A j \in Places : g[i] = g[j] => i = j
      <4>1. CASE i = p
        BY <2>4, <2>8, <4>1
      <4>2. CASE i # p
        <5>1. /\ f[i] \in Visible(state.tags) /\ f[i] \notin Range(op.toDelete)
              /\ \A j \in Places : f[i] = f[j] => i = j
          BY <2>1, <2>8, <3>1, <4>2 DEF Kept
        <5> QED
          BY <2>4, <2>8, <4>2, <5>1
      <4> QED
        BY <4>1, <4>2
    <3> QED
      BY <1>3, <2>2, <2>3, <3>1 DEF Kept
  <2>11. Fitting(g)'
    <3>1. ASSUME NEW i \in Places, g[i] # 0
          PROVE  /\ api'.pools[g[i]].type = config'.pools[i].type
                 /\ SameAttributes(Configured(config.pools[i], 0), g[i])'
      <4>1. CASE i = p
        BY <1>1, <1>4, <2>5, <2>8, <4>1 DEF SameAttributes, Configured, w
      <4>2. CASE i # p
        <5>1. /\ api.pools[f[i]].type = config.pools[i].type
              /\ SameAttributes(Configured(config.pools[i], 0), f[i])
              /\ f[i] \in DOMAIN api.pools /\ g[i] = f[i]
          BY <1>1, <2>1, <2>8, <3>1, <4>2 DEF Fitting, Kept, Visible
        <5>2. api'.pools[f[i]] = api.pools[f[i]]
          BY <1>4, <5>1
        <5>3. SameAttributes(Configured(config.pools[i], 0), g[i])'
          BY <1>1, <5>1, <5>2 DEF SameAttributes, Configured
        <5> QED
          BY <1>1, <5>1, <5>2, <5>3
      <4> QED
        BY <4>1, <4>2
    <3> QED
      BY <1>3, <2>2, <3>1 DEF Fitting
  <2>12. Placed(g)'
    <3>1. DOMAIN g = Places /\ DOMAIN f = Places
      BY <2>1, <2>8
    <3>2. w \in Range(g)
      BY <2>5, <2>8, <3>1 DEF Range
    <3>3. ASSUME NEW id \in Visible(state.tags)
          PROVE  id \in Range(g) \cup Range(op.toDelete)
      <4>1. id # 0
        BY VisibleIDs DEF IInv
      <4>2. CASE id \in Range(f)
        <5>1. PICK i \in Places : f[i] = id
          BY <3>1, <4>2 DEF Range
        <5>2. i # p /\ g[i] = id
          BY <2>5, <2>8, <4>1, <5>1
        <5> QED
          BY <3>1, <5>2 DEF Range
      <4> QED
        BY <2>1, <4>2 DEF Placed
    <3>4. ASSUME NEW i \in Places, PlannedID(i) \in Visible(state.tags) \cup {w}
          PROVE  PlannedID(i) \in {g[i]} \cup Range(op.toDelete)
      <4>1. PlannedID(i) \in Visible(state.tags)
        BY <2>4, <3>4
      <4>2. PlannedID(i) # 0
        BY <4>1, VisibleIDs DEF IInv
      <4>3. PlannedID(i) \in {f[i]} \cup Range(op.toDelete)
        BY <2>1, <4>1 DEF Placed
      <4> QED
        BY <2>5, <2>8, <4>2, <4>3
    <3> QED
      BY <1>3, <2>2, <2>3, <3>2, <3>3, <3>4 DEF Placed
  <2>13. g \in [Places -> 0 .. api'.next] /\ r \in [DOMAIN op'.toCreate -> Places]
    BY <1>3, <1>4, <2>8
  <2> QED
    BY <2>9, <2>10, <2>11, <2>12, <2>13 DEF Paired
<1> QED
  BY <1>1, <1>3, <1>4, <1>5, FixStep

LEMMA DeletePoolPools ==
    ASSUME IInv, PoolsInv, DeletePool
    PROVE  PoolsInv'
<1> DEFINE gone == Head(op.toDelete)
<1>1. /\ op \in OpRecord /\ op.pc = "pools" /\ state' = state /\ config' = config
      /\ op.pc \in UpdateSteps \ {"cluster"} /\ op.toUpdate = {} /\ op.toCreate = <<>>
      /\ op.toDelete \in Seq(Nat) /\ op.toDelete # <<>> /\ api' = Removed(gone)
      /\ op' = [op EXCEPT !.toDelete = Tail(@)]
  BY TypesOf DEF IInv, DeletePool, UpdateSteps
<1>2. /\ Range(Tail(op.toDelete)) \subseteq Range(op.toDelete) /\ gone \in Range(op.toDelete)
      /\ Range(op.toDelete) \subseteq {gone} \cup Range(Tail(op.toDelete))
  <2>1. 1 \in DOMAIN op.toDelete /\ gone = op.toDelete[1]
    BY <1>1, TailIs
  <2> QED
    BY <1>1, <2>1, TailIs DEF Range
<1>3. /\ op'.pc = "pools" /\ op'.old = op.old /\ op'.drift = op.drift
      /\ op'.toUpdate = {} /\ op'.toCreate = <<>> /\ op'.toDelete = Tail(op.toDelete)
  BY <1>1 DEF OpRecord
<1>4. /\ DOMAIN api'.pools = DOMAIN api.pools \ {gone} /\ api'.next = api.next
      /\ api'.version = api.version
      /\ \A id \in DOMAIN api'.pools : api'.pools[id] = api.pools[id]
  BY <1>1, RemovedIs DEF IInv
<1> HIDE DEF gone
<1>5. ASSUME Calm
      PROVE  \E f \in [Places -> 0 .. api'.next], q \in [DOMAIN op'.toCreate -> Places] :
                Paired(f, q)'
  <2>1. PICK f, q : /\ f \in [Places -> 0 .. api.next] /\ q \in [DOMAIN op.toCreate -> Places]
                    /\ Waiting(f, q) /\ Kept(f) /\ Fitting(f) /\ Placed(f)
    BY <1>1, <1>5, PairedNow
  <2>2. Places' = Places /\ \A i : PlannedID(i)' = PlannedID(i)
    BY <1>1, PlacesStay
  <2>3. Visible(state.tags)' = Visible(state.tags) \ {gone}
    BY <1>1, <1>4 DEF Visible
  <2>4. Waiting(f, q)'
    BY <1>1, <1>3, <2>1, <2>2 DEF Waiting
  <2>5. Kept(f)'
    BY <1>2, <1>3, <2>1, <2>2, <2>3 DEF Kept
  <2>6. Placed(f)'
    BY <1>2, <1>3, <2>1, <2>2, <2>3 DEF Placed
  <2>7. Fitting(f)'
    <3>1. ASSUME NEW i \in Places, f[i] # 0
          PROVE  /\ api'.pools[f[i]].type = config'.pools[i].type
                 /\ SameAttributes(Configured(config.pools[i], 0), f[i])'
      <4>1. /\ api.pools[f[i]].type = config.pools[i].type
            /\ SameAttributes(Configured(config.pools[i], 0), f[i])
            /\ f[i] \in DOMAIN api.pools /\ f[i] # gone
        BY <1>1, <1>2, <2>1, <3>1 DEF Fitting, Kept, Visible
      <4>2. api'.pools[f[i]] = api.pools[f[i]]
        BY <1>4, <4>1
      <4>3. SameAttributes(Configured(config.pools[i], 0), f[i])'
        BY <1>1, <4>1, <4>2 DEF SameAttributes, Configured
      <4> QED
        BY <1>1, <4>1, <4>2, <4>3
    <3> QED
      BY <1>3, <2>2, <3>1 DEF Fitting
  <2> QED
    BY <1>1, <1>3, <1>4, <2>1, <2>4, <2>5, <2>6, <2>7 DEF Paired
<1> QED
  BY <1>1, <1>3, <1>4, <1>5, FixStep

\* A step that leaves the plan alone.
LEMMA PairedStays ==
    ASSUME PoolsInv, op.pc \in {"pools", "wait"}, Calm, api' = api, state' = state, config' = config,
           op'.toUpdate = op.toUpdate, op'.toCreate = op.toCreate, op'.toDelete = op.toDelete
    PROVE  \E f \in [Places -> 0 .. api'.next], q \in [DOMAIN op'.toCreate -> Places] :
              Paired(f, q)'
<1>1. PICK f, q : /\ f \in [Places -> 0 .. api.next] /\ q \in [DOMAIN op.toCreate -> Places]
                  /\ Waiting(f, q) /\ Kept(f) /\ Fitting(f) /\ Placed(f)
  BY PairedNow
<1>2. Places' = Places /\ \A i : PlannedID(i)' = PlannedID(i)
  BY PlacesStay
<1>3. Visible(state.tags)' = Visible(state.tags)
  BY DEF Visible
<1>4. Waiting(f, q)' /\ Kept(f)' /\ Placed(f)'
  BY <1>1, <1>2, <1>3 DEF Waiting, Kept, Placed
<1>5. Fitting(f)'
  BY <1>1, <1>2 DEF Fitting, SameAttributes, Configured
<1> QED
  BY <1>1, <1>4, <1>5 DEF Paired

LEMMA PoolsUpdatedPools ==
    ASSUME IInv, PoolsInv, PoolsUpdated
    PROVE  PoolsInv'
<1>1. /\ op \in OpRecord /\ op.pc = "pools" /\ api' = api /\ state' = state /\ config' = config
      /\ op.pc \in UpdateSteps \ {"cluster"}
      /\ op.toUpdate = {} /\ op.toCreate = <<>> /\ op.toDelete = <<>>
  BY TypesOf DEF IInv, PoolsUpdated, UpdateSteps
<1>2. /\ op'.pc = "wait" /\ op'.old = op.old /\ op'.drift = op.drift
      /\ op'.toUpdate = op.toUpdate /\ op'.toCreate = op.toCreate /\ op'.toDelete = op.toDelete
  BY <1>1 DEF PoolsUpdated, Goto, OpRecord
<1> QED
  BY <1>1, <1>2, FixStep, PairedStays

-----------------------------------------------------------------------------
(* Every run. *)

LEMMA InitPools == Init => PoolsInv
<1> SUFFICES ASSUME Init PROVE PoolsInv
  OBVIOUS
<1>1. op.pc = "idle" /\ state.pools = <<>> /\ ~state.tainted
  BY DEF Init, Nothing
<1> QED
  BY <1>1, PlaceNames DEF PoolsInv, LifeInv, ReadyInv, SeenInv, FixInv, UpdateSteps

LEMMA StutterPools ==
    ASSUME PoolsInv, UNCHANGED vars
    PROVE  PoolsInv'
<1>1. api' = api /\ state' = state /\ config' = config /\ op' = op
  BY DEF vars
<1>2. LifeInv'
  BY <1>1 DEF PoolsInv, LifeInv
<1>3. \A tags : Visible(tags)' = Visible(tags)
  BY <1>1 DEF Visible
<1>4. ReadyInv'
  BY <1>1 DEF PoolsInv, ReadyInv, Configured, Matched, MatchedBy, Found, SameAttributes, Visible
<1>5. SeenInv'
  BY <1>1 DEF PoolsInv, SeenInv, Calm, Visible, FlattenPool
<1>6. FixInv'
  <2> SUFFICES ASSUME op.pc \in {"pools", "wait"}, Calm
               PROVE  FixInv'
    BY <1>1, SameCalm DEF FixInv
  <2>1. \E f \in [Places -> 0 .. api'.next], q \in [DOMAIN op'.toCreate -> Places] :
           Paired(f, q)'
    BY <1>1, PairedStays
  <2>2. Places' = Places
    BY <1>1 DEF Places
  <2>3. op.pc = "wait" => op.toUpdate = {} /\ op.toCreate = <<>> /\ op.toDelete = <<>>
    BY DEF PoolsInv, FixInv
  <2> QED
    BY <1>1, <2>1, <2>2, <2>3 DEF FixInv
<1> QED
  BY <1>2, <1>4, <1>5, <1>6 DEF PoolsInv

LEMMA NextPools ==
    ASSUME IInv, PoolsInv, [Next]_vars
    PROVE  PoolsInv'
<1>1. CASE Provider
  BY <1>1, PlanCreatePools, ForgetPools, PlanPools, CreateClusterPools, CreateReadPools,
     DeleteClusterPools, DeletedPools, UpdateClusterPools, ListPoolsPools, RecycleNodesPools,
     RecycledPools, ReconcilePools, UpdatePoolPools, CreatePoolPools, DeletePoolPools,
     PoolsUpdatedPools, UpdateReadPools, StepFailsPools DEF Provider
<1>2. CASE Others
  BY <1>2, OthersPools
<1>3. CASE UNCHANGED vars
  BY <1>3, StutterPools
<1> QED
  BY <1>1, <1>2, <1>3 DEF Next

\* Every reachable state satisfies this inductive invariant too.
THEOREM PoolsInvariance == Spec => []PoolsInv
<1>1. IInv /\ PoolsInv /\ [Next]_vars => PoolsInv'
  BY NextPools
<1> QED
  BY InitPools, Invariance, <1>1, PTL DEF Spec

\* Pools of the state that are read, as they are declared, are in sync.
LEMMA ReadInSync ==
    ASSUME TypeOK, NEW declared \in Seq(Declared), Matched(declared, Visible(config.tags)),
           NEW pools \in ReadPools(declared, config.tags),
           Len(declared) = Len(config.pools),
           \A i \in DOMAIN declared : declared[i].type = config.pools[i].type
                                      /\ declared[i].count = config.pools[i].count
                                      /\ declared[i].external = FALSE,
           config' = config, api' = api, api.version = config.version,
           state'.tags = config.tags, state'.pools = pools, state'.version = api.version,
           ~state'.tainted
    PROVE  /\ InSync(state')
           /\ Visible(config.tags)' = {state'.pools[i].id : i \in DOMAIN state'.pools}
<1>1. /\ pools \in Seq(Declared) /\ Len(pools) = Len(declared)
      /\ \A i \in DOMAIN pools : pools[i].id \in Visible(config.tags)
                                 /\ pools[i] = FlattenPool(pools[i].id)
                                 /\ SameAttributes(declared[i], pools[i].id)
      /\ Visible(config.tags) = {pools[i].id : i \in DOMAIN pools}
  BY ReadMatches
<1>2. ASSUME NEW i \in DOMAIN pools
      PROVE  pools[i] = Configured(config.pools[i], pools[i].id)
  <2> DEFINE id == pools[i].id
  <2>1. pools[i] = FlattenPool(id) /\ id # 0 /\ SameAttributes(declared[i], id)
    <3>1. id \in Visible(config.tags)
      BY <1>1
    <3>2. id \in 1 .. api.next
      BY <3>1, VisibleIDs
    <3> QED
      BY <1>1, <3>2
  <2>2. i \in DOMAIN declared
    BY <1>1
  <2>3. declared[i].type = config.pools[i].type /\ declared[i].count = config.pools[i].count
        /\ declared[i].external = FALSE
    BY <2>2
  <2> HIDE DEF id
  <2>4. pools[i] = Configured(config.pools[i], id)
    BY <2>1, <2>3 DEF FlattenPool, SameAttributes, Configured
  <2> QED
    BY <2>4 DEF id
<1>3. InSync(state')
  BY <1>1, <1>2 DEF InSync
<1>4. Visible(config.tags)' = Visible(config.tags)
  BY DEF Visible
<1> QED
  BY <1>1, <1>3, <1>4

\* At the end of an update there is a pool for each one of the plan, and no other.
LEMMA PlanMatched ==
    ASSUME IInv, PoolsInv, op.pc = "wait", Calm
    PROVE  Matched(PlannedPools, Visible(config.tags))
<1> DEFINE ids == Visible(config.tags)
<1>1. PICK f, q : /\ f \in [Places -> 0 .. api.next] /\ q \in [DOMAIN op.toCreate -> Places]
                  /\ Waiting(f, q) /\ Kept(f) /\ Fitting(f) /\ Placed(f)
  BY PairedNow
<1>2. op.toUpdate = {} /\ op.toCreate = <<>> /\ op.toDelete = <<>>
  BY DEF PoolsInv, FixInv
<1>3. Range(op.toDelete) = {} /\ DOMAIN q = {}
  BY <1>1, <1>2 DEF Range
<1>4. \A i \in Places : /\ f[i] \in Visible(state.tags)
                        /\ SameAttributes(Configured(config.pools[i], 0), f[i])
                        /\ \A j \in Places : f[i] = f[j] => i = j
  <2>1. \A i \in Places : f[i] # 0
    BY <1>1, <1>3 DEF Waiting
  <2> QED
    BY <1>1, <1>2, <2>1 DEF Kept, Fitting
<1>5. /\ \A id \in Visible(state.tags) : id \in Range(f)
      /\ \A i \in Places : PlannedID(i) \in Visible(state.tags) => PlannedID(i) = f[i]
  BY <1>1, <1>3 DEF Placed
\* What the configuration hides is none of the declared pools.
<1>6. ids = Visible(state.tags)
  <2>1. ids \subseteq Visible(state.tags)
    BY DEF Calm, Visible
  <2>2. ASSUME NEW id \in Visible(state.tags)
        PROVE  id \in ids
    <3>1. PICK i \in Places : f[i] = id
      BY <1>1, <1>5 DEF Range
    <3>2. ~api.pools[id].external
      BY <1>4, <3>1 DEF SameAttributes, Configured
    <3> QED
      BY <3>2 DEF Visible
  <2> QED
    BY <2>1, <2>2
<1>7. DOMAIN PlannedPools = Places
      /\ \A i \in Places : PlannedPools[i] = Configured(config.pools[i], PlannedID(i))
  BY DEF PlannedPools, Places
<1> HIDE DEF ids
<1>8. ASSUME NEW i \in Places
      PROVE  /\ SameAttributes(PlannedPools[i], f[i])
             /\ Found(PlannedPools[i], ids) => f[i] = PlannedPools[i].id
  <2>1. PlannedPools[i].id = PlannedID(i)
    BY <1>7 DEF Configured
  <2>2. SameAttributes(PlannedPools[i], f[i])
    <3>1. /\ PlannedPools[i].type = config.pools[i].type
          /\ PlannedPools[i].count = config.pools[i].count
          /\ PlannedPools[i].external = FALSE
      BY <1>7 DEF Configured
    <3>2. /\ api.pools[f[i]].type = config.pools[i].type
          /\ api.pools[f[i]].count = config.pools[i].count
          /\ api.pools[f[i]].external = FALSE
      BY <1>4 DEF SameAttributes, Configured
    <3> QED
      BY <3>1, <3>2 DEF SameAttributes
  <2> QED
    BY <1>5, <1>6, <2>1, <2>2 DEF Found
<1>9. f \in [Places -> ids] /\ ids \subseteq Range(f)
  BY <1>1, <1>4, <1>5, <1>6
<1>10. MatchedBy(f, PlannedPools, ids)
  BY <1>4, <1>7, <1>8, <1>9 DEF MatchedBy
<1> QED
  BY <1>7, <1>9, <1>10 DEF Matched, ids

\* When nobody interferes, no pool of the state has disappeared and
\* external_pool_tags is not being removed, a create or update that succeeds
\* leaves the configured pools, all of them and no other, and the state has each
\* at the place of its declaration: the comparison by position makes exactly the
\* pools that are missing, and the pairing of the read, which takes pools with
\* the same attributes as they come, misses none.
THEOREM PoolsSettled == Spec => PoolsAsConfigured
<1>1. ASSUME IInv, PoolsInv, [Next]_vars, Succeeds, ~op.drift, Hole \notin Range(op.old),
             state.tags => config.tags
      PROVE  /\ InSync(state')
             /\ Visible(config.tags)' = {state'.pools[i].id : i \in DOMAIN state'.pools}
  <2>1. CreateRead \/ UpdateRead
    BY <1>1, SucceedsBy
  <2>2. /\ TypeOK /\ state \in StateRecord /\ config.version \in Versions
        /\ state.pools \in Seq(Declared) /\ api.version \in Versions
    BY <1>1, TypesOf DEF IInv
  <2>3. CASE CreateRead
    <3>1. /\ op.pc = "ready" /\ api' = api /\ config' = config /\ ~state.tainted
          /\ api.version = config.version
      BY <1>1, <2>3 DEF CreateRead, PoolsInv, LifeInv
    <3>2. /\ state.tags = config.tags /\ Len(state.pools) = Len(config.pools)
          /\ \A i \in DOMAIN state.pools : state.pools[i] = Configured(config.pools[i], 0)
          /\ Matched(state.pools, Visible(config.tags))
      BY <1>1, <3>1 DEF PoolsInv, ReadyInv
    <3>3. PICK pools \in ReadPools(state.pools, config.tags) : state' = Refreshed(pools)
      BY <2>3, <3>2 DEF CreateRead
    <3>4. pools \in Seq(Declared)
      BY <2>2, <3>3, ReadPoolsAre
    <3>5. /\ state'.tags = config.tags /\ state'.pools = pools /\ state'.version = api.version
          /\ ~state'.tainted
      BY <2>2, <3>1, <3>2, <3>3, <3>4 DEF Refreshed, StateRecord
    <3>6. ASSUME NEW i \in DOMAIN state.pools
          PROVE  /\ state.pools[i].type = config.pools[i].type
                 /\ state.pools[i].count = config.pools[i].count
                 /\ state.pools[i].external = FALSE
      <4>1. state.pools[i] = Configured(config.pools[i], 0)
        BY <3>2
      <4> QED
        BY <4>1 DEF Configured
    <3> QED
      BY <2>2, <3>1, <3>2, <3>3, <3>5, <3>6, ReadInSync
  <2>4. CASE UpdateRead
    <3>1. /\ op.pc = "wait" /\ api' = api /\ config' = config /\ ~state.tainted
          /\ api.version = config.version
      BY <1>1, <2>4 DEF UpdateRead, PoolsInv, LifeInv, UpdateSteps
    <3>2. Matched(PlannedPools, Visible(config.tags))
      BY <1>1, <3>1, PlanMatched DEF Calm
    <3>3. PICK pools \in ReadPools(PlannedPools, config.tags) :
             state' = [Planned EXCEPT !.version = api.version, !.pools = pools]
      BY <2>4 DEF UpdateRead
    <3>4. /\ PlannedPools \in Seq(Declared) /\ Len(PlannedPools) = Len(config.pools)
          /\ Planned \in StateRecord
      BY <2>2, PlannedIs
    <3>5. Planned.tags = config.tags /\ Planned.tainted = state.tainted
      BY <2>2 DEF Planned, StateRecord
    <3>6. /\ state'.tags = config.tags /\ state'.pools = pools /\ state'.version = api.version
          /\ ~state'.tainted
      BY <3>1, <3>3, <3>4, <3>5 DEF StateRecord
    <3>7. \A i \in DOMAIN PlannedPools : /\ PlannedPools[i].type = config.pools[i].type
                                         /\ PlannedPools[i].count = config.pools[i].count
                                         /\ PlannedPools[i].external = FALSE
      BY DEF PlannedPools, Configured
    <3> QED
      BY <2>2, <3>1, <3>2, <3>3, <3>4, <3>6, <3>7, ReadInSync
  <2> QED
    BY <2>1, <2>3, <2>4
<1>2. IInv /\ PoolsInv /\ [Next]_vars =>
         [Succeeds /\ ~op.drift /\ Hole \notin Range(op.old) /\ (state.tags => config.tags) =>
             /\ InSync(state')
             /\ Visible(config.tags)' = {state'.pools[i].id : i \in DOMAIN state'.pools}]_vars
  BY <1>1
<1> QED
  BY Invariance, PoolsInvariance, <1>2, PTL DEF Spec, PoolsAsConfigured

=============================================================================
