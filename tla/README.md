# Terraform Provider for Linode: TLA+ models and proofs

The Linode provider turns a configuration into calls of the Linode API. Each
resource has handlers that Terraform calls (Create, Read, Update, Delete); each
handler makes several calls, waits for asynchronous jobs in between, and saves
what it knows in the Terraform state. The handlers are sequential, but they are
not alone: the API works on its own time, other resources of the same
configuration run in parallel and touch the same objects, people use the Cloud
Manager, calls fail, waits time out, and after an error the operator applies
again from whatever state is left. That is where the provider's bugs are, and
what these modules model.

Every model has the same three parts:

- what the API has (`cloud`, `linode`, `size`/`job`, `api`, `object`),
- what Terraform has: its state and the operator's configuration,
- the handler that runs, as a program counter and its local variables,

and one action for every API call, every wait and every early return of the
handler. Refresh, plan and apply are Terraform's; they are modelled from how the
handlers rely on them and marked external in the map of `PROJECT.json`.

The handlers come in two sorts. A few are long, or share an object with others
while they run: volumes, the update of an instance, its swap disk, LKE clusters,
and everything that powers a Linode on and off. Each of these has a module of its
own. All the others (42 resources) are short programs over the same few
operations - a call, a condition on what changes, a copy between plan, answer and
state - and their bugs are in what those programs leave out. They are written
down as data, one schema and four programs for each, and `Resource` runs them.

## Inventory

| Component | State | Operations | What is hard about it | What makes it correct |
|---|---|---|---|---|
| `linode_volume` (`linode/volume`) | volume (size, label, attachment), saved model | create, clone, read, resize, rename, detach/attach, delete | clone is five calls and three waits; a wait times out after the volume exists; instance configurations detach and attach the same volume | a volume the provider made is in the state; calls are made on a detached volume; success is the truth; applying again converges |
| `linode_instance`, update (`linode/instance`) | power state, job, type, disk, attributes; `rebootInstance` | fourteen steps in a fixed order | four steps power the Linode off, boot it or reboot it; the type change must surround the disk resize; decisions on old snapshots | no call the API must refuse; success is the truth; the configured power state at the end; no needed reboot lost |
| `linode_instance`, default disks | sizes of boot and swap disk | change of `swap_size` | two dependent resizes from a difference | never more space than there is; none lost |
| `linode_instance`, create, read, delete, import | disks, configurations, boot | two-phase create | failures after the ID is set; boot configuration from a map | what was created is in the state; the right configuration boots |
| `linode_instance_disk`, `_config` | the Linode's power state, its events | shut down, operate, boot; reboot into a config | several resources act on one Linode at the same time | the Linode ends as it was, or as `booted` says; a handler wakes for its own event; all end |
| `linode_interface` | public, VPC or VLAN interface | create, read, update, delete | lists that are dropped from a request are not taken back | as configured |
| IP addresses (`instanceip`, `networkingip`, `instancereservedipassignment`, `rdns`, ...) | address -> Linode | reserve, assign, move, release, set reverse DNS | a move is two calls; an address is added before its reverse DNS is set | an address is where the state says, and known to it |
| `linode_lke_cluster` (`linode/lke`) | version, pools, state's pool list | create, update (upgrade and recycle, pools), read, delete | pools matched by ID, then by attributes, then compared by position; pools of other resources in the same cluster | configured pools exactly, others' pools untouched, every node upgraded |
| `linode_lke_node_pool` | pool | create, update, recycle, delete | waits for readiness; the tier of the cluster decides what is sent | as configured |
| NodeBalancers (`nb`, `nbconfig`, `nbnode`) | balancer, ports, nodes | create, update, delete; look-ups of firewalls and VPC configs | a failed look-up empties attributes that replace | as configured, replaced for a reason only |
| Firewalls (`firewall`, `firewalldevice`, `firewallsettings`) | rules, devices | create, disable, update rules, update devices, delete | rules, devices and options are calls of their own; two resource types own devices | as configured after any failure between the calls |
| Images (`image`, share groups, members, tokens) | image, replicas, hash | upload or capture, replicate, share | three waits, early save of the ID | an image that exists is in the state; an import shows it |
| Managed databases (`databasemysqlv2`, `databasepostgresqlv2`, `databasemysql`, `databasepostgresql`, access controls) | database, suspension | create, suspend/resume, update, resize | several calls and waits of one update | the update is carried out after a failure between them |
| Object storage (`obj`, `objbucket`, `objkey`) | bucket, certificate, object, keys | put, read, update, delete | keys that live for one handler; a certificate is deleted before the new one is put | as configured; what is gone is forgotten |
| VPCs, placement groups, domains, users, locks, tokens, SSH keys, scripts, account settings | the object | one to three calls | what is in the schema but not in a request; what is reset without being configured | as configured; nothing else changed |
| Events, retries, polling (`helper`) | event list, poller | wait for the next event | two handlers poll the same entity and action | a handler wakes for its own event |
| Data sources, provider wiring, acceptance helpers | none | read only | nothing changes | - |

How they interact: `linode_instance` attaches volumes by its configurations and
detaches them first (`makeVolumeDetacher`); its update shuts the Linode down,
which `linode_instance_disk` and `linode_instance_config` do as well, at the same
time, unless the configuration orders them; adding an address reboots it;
`linode_lke_node_pool` puts pools into the cluster `linode_lke_cluster` manages;
firewalls, placement groups and reserved addresses refer to Linodes; all of them
share the event helpers. `PROJECT.json` lists every component with its status
and every hazard with its line.

## Modules

| Module | Models | Configurations |
|---|---|---|
| `Volume` | `linode_volume` | `Volume.cfg`, `VolumeOrphan.cfg` |
| `VolumeProofs` | theorems about `Volume` | - |
| `InstanceUpdate`, `InstanceUpdateMC` | `updateResource` of `linode_instance` | `InstanceUpdateSafety.cfg`, `InstanceUpdateLiveness.cfg`, `InstanceUpdatePower.cfg` |
| `InstanceUpdateProofs` | theorems about `InstanceUpdate` | - |
| `InstanceSwap` | `adjustSwapSizeIfNeeded` | `InstanceSwapSafety.cfg`, `InstanceSwapRemainder.cfg` |
| `InstanceSwapProofs` | theorems about `InstanceSwap` | - |
| `LKECluster`, `LKEClusterMC` | `linode_lke_cluster` and its nested pools | `LKEClusterSafety.cfg`, `LKEClusterExternal.cfg`, `LKEClusterHole.cfg` |
| `LKEClusterProofs` | theorems about `LKECluster` | - |
| `LKEClusterPools` | theorem about `LKECluster`: which pools it ends with | - |
| `LinodePower`, `LinodePowerMC` | handlers of `linode_instance_disk`, `linode_instance_config` and the address resources on one Linode | `LinodePower.cfg`, `LinodePowerBooted.cfg` |
| `LinodePowerProofs` | theorems about `LinodePower` | - |
| `LinodePowerSettled` | theorem about `LinodePower`: how the Linode is left | - |
| `Custody` | abstract: who knows of an object | (refined by `Resource`) |
| `ResourceSteps` | the steps of a handler, the parts of a schema | - |
| `AccountKinds` | account settings, domains and records, locks, SSH keys, StackScripts, tokens, users | - |
| `NetworkKinds` | VPCs and subnets, firewalls, their devices and settings | - |
| `BalancerKinds` | NodeBalancers, their configs and nodes | - |
| `AddressKinds` | reserved, assigned, shared and instance addresses, IPv6 ranges, reverse DNS, placement groups | - |
| `StorageKinds` | images and their sharing; buckets, keys and objects | - |
| `DatabaseKinds` | the five database resources | - |
| `ComputeKinds` | instances, their disks, configs and interfaces; node pools | - |
| `Resource`, `ResourceMC` | one resource over its life: configuration, plan, handlers, state, object | `ResourceLifecycle.cfg`, `ResourceConverges.cfg` |
| `ImageImportMC` | the same, for `linode_image` alone | `ResourceImageImport.cfg` |
| `ResourceReads` | what a read handler has to be like for an import | - |
| `ResourceProofs` | theorems about `Resource`, the refinement of `Custody` among them | - |

Definitions named `...Mutant` are plausible bugs: each changes the definition
after it the way a mistake in the code would, and breaks one property. Nothing
else uses them. To check a configuration: `tlc -config Volume.cfg Volume`; to
check the proofs of a module: `tlapm VolumeProofs.tla`, and so on for the other
`...Proofs` modules, `LKEClusterPools` and `LinodePowerSettled`.

### Volume

`cloud` maps volume IDs to what the API knows; a volume has a Linode it is on and
a `target` the API is taking it to, so that an attachment that timed out can
still happen later. `st` is the Terraform state, with `tainted`. `op.pc` names the
next call or wait of the handler. Interference: other resources detach, attach
and delete the volume (`DetachedElsewhere`, ...) and mark the run with `drift`.
`FlattenVolume` stores a nil `linode_id` as 0 and never as null, which is why a
change of `linode_id` always detaches first.

Labels stand for label and tags. Not modelled: encryption, the region, import.

`Volume.cfg` (two Linodes, sizes below, at and above the clone source's, two
labels, four volumes, one failure, two edits or interferences; 1 million states): `ClonedVolumesTracked`,
`CallsOnDetachedVolume`, `SuccessIsTruthful`, `EventuallyApplied`. One failure is
enough for every error path; two edits let an interference and a change of the
configuration meet; four volumes are more than a run with one failure can create.
`VolumeOrphan.cfg`: `VolumesTracked`, which a comment of `Create` promises, fails:
when the wait after `CreateVolume` fails, the handler returns nil and Create has
nothing to save. The clone path returns the volume with the error; that is
`ClonedVolumesTracked`.

### InstanceUpdate

One `linode` record: power, the job the API works on, the attributes whose value
differs from the configured one (`diff`), type, disk size, and two history bits:
`current` (the running system was booted after the last change that needs it) and
`lag` (the API still shows the disk's old size). `op.step` walks through `Steps`,
in the order of `updateResource`; `Proceed` skips the steps whose condition on
the refreshed state (`op.seen`) is false, and the phases within a step are its
calls and waits. `op.inst` is the local variable `instance`, a snapshot that only
some steps renew: `changeInstanceDiskSize` decides by it.

Abstractions: one attribute per step (`label` for all of
`InstanceUpdateOptions`), one explicit disk, one boot configuration, a cold
migration, `booted` as configured. Not modelled: warm migrations (no power
change), several disks (the same step repeated), `validateBooted` and the schema's
plan checks, `swap_size` (`InstanceSwap`).

`InstanceUpdateSafety.cfg` (three types of different disk space; all
combinations of the four attributes that power, reboot or move the Linode; one
failure, one interference; 5.1 million states): `CallsAccepted`,
`SuccessIsTruthful`, `BootedAsConfigured`, `RebootsNotLost`.
`InstanceUpdateLiveness.cfg` (four types, two of them with the same disk space,
every attribute alone, one failure): `EventuallyApplied`.
`InstanceUpdatePower.cfg`: the documentation says that the power state of a Linode
is not managed when `booted` is not set; a downsize leaves a running Linode off
(`PowerUnmanaged`).

A reboot that a failure cuts off is never made up for: the change itself is in
the refreshed state, so that the next plan is empty. `RebootsNotLost` therefore
speaks of updates that find an up-to-date system.
`ShutdownInstanceForVPCInterfaceUpdate` refuses to work under
`skip_implicit_reboots` and advises to set it to true (`InterfaceRejected`).
Whether the Linode is booted again after a change of VPC interfaces goes by the status
before that call (`DecidePowerOn`), whether it is shut down by the status after the wait
in it (`ShutDownForVPC`): a Linode that is still booting at the first of these reads is
left off.

### InstanceSwap

The two default disks and the resizes a change of `swap_size` does.
`BootWanted` mixes the current boot disk with the refreshed swap size, as the code
does. `NilDisk`: `getInstanceDefaultDisks` found no such disk and the handler
dereferences nil, which ends the provider process; the model reaches it with a
Linode deployed without a swap disk.

`InstanceSwapSafety.cfg` (five units of space, three failures): `ResizesFit`,
`SpaceKept`; also proved. `InstanceSwapRemainder.cfg`: the documentation says that
the boot disk takes the remainder of the space (`BootTakesRemainder`); a failure
between the two resizes loses space for good, because the swap disk is in sync for
the next run.

### LKECluster

`api` has the cluster's version and its pools by ID (type, count, the version its
nodes run, whether it carries one of `external_pool_tags`); `state.pools` and
`config.pools` are sequences. `Pairings` is `matchPoolsWithSchema`: all outcomes of
its two passes, over every order of the API's map; `ReadPools` appends what is left
in any order. The plan keeps the IDs of the state position by position
(`PlannedPools`). `Reconcile` is `ReconcileLKENodePoolSpecs` after
`expandLinodeLKENodePoolSpecs` dropped the old pools without an ID; `Ascending`
stands for the order of its loops (there is one such sequence for each set). A failed
update leaves the planned values in the state, a failed create a tainted resource,
as Terraform's SDK does.

`count` stands for everything of a pool that can be updated in place. Readiness
of nodes is abstracted: a wait ends when it likes, unless its pool is gone. Not
modelled: the control plane ACL, the cluster's label and tags, per-pool versions,
the kubeconfig wait of enterprise clusters, a cluster deleted during an update.

`LKEClusterSafety.cfg` (two pools out of three specifications, both versions, one
failure, two changes of the configuration or behind its back; 600 000 states):
`PoolsAsConfigured`, `ExternalPoolsKept`, `NodesUpgraded`, `UnchangedPoolsKept`,
`EventuallyApplied`. One edit changes the pools, the version or
`external_pool_tags`; two edits may precede one apply. Two pools are the least
with an order to get wrong; one of the specifications differs in its type, one in
what changes in place.
`LKEClusterExternal.cfg`: the apply that adds `external_pool_tags` deletes the
pools it is to protect, because the refresh filters with the tags of the state
(`ExternalPoolsIgnored`). `LKEClusterHole.cfg`: after a pool has disappeared, the
state has a hole, later pools are compared with the declaration before theirs, and
a pool the plan does not touch is deleted (`PoolsResolvedByState`). The same hole
comes back at the end of each such update, so that no later apply converges:
`PoolsAsConfigured` and `EventuallyApplied` exclude it.

### LinodePower

Up to two handlers of one Linode at the same time, each one of: resize or delete
a disk, create, change, rewire (VPC interfaces) or remove a config, with each
value of `booted`, or add an address and reboot. `linode` has the power state, the
job the API works on, the config that was booted last, the changes of configs no
boot has taken up (`pending`), disks and configs; `events` is the list of events
pollers look at. A handler is a record: its task, its program counter and the local
variables of the Go function, so that what it read (`status`, `current`, `watch`) stays
what it was while the Linode goes on. A call of a power helper is three steps:
`Watch` (the poller takes note of the events there are), `Request`, `Await`.

Of the API we assume what the handlers rely on: one job at a time, an event for
each, requests in the wrong power state refused, requests to a busy Linode tried
again by the client.

`LinodePower.cfg` (every pair of tasks, `skip_implicit_reboots` on and off, the Linode
on or off at first, with or without boot events and running a config that is not still
to be created, one failed call, job or wait; 987 000 states):

- `SuccessMeansDone`: a handler does not take the event of another handler's job for
  its own. Events of disks are compared by disk; this is what the mutant drops.
- `PowerAsConfigured`: if all succeed, and at most one is about a config or a reboot,
  the power is what `booted` says, or what it was. The exception `Interlude`: a config
  with `booted = false` that looks at the Linode while a disk handler has it off
  succeeds, and the disk handler boots it again afterwards. The other exception,
  `BootEvents = {}`: `GetCurrentBootedConfig` knows the config from the latest boot event
  only, so that a Linode that has been running for longer than its events are listed
  goes on running a config with `booted = false`.
- `RunsAgain`: handlers disturb each other (a request of one is refused because another
  one changed the power, and it ends with an error), but when no call fails, those
  that shut the Linode down bring it back between them.
- `HandlersEnd`: every handler ends; a wait for a power state that another handler keeps
  from coming ends with its timeout, which the model grants only when nothing else
  can happen, or as the one failure.

`LinodePowerBooted.cfg`: the documentation of `booted` (`instance_config.md:158`) says
that false shuts the Linode down only if it is booted into this config. `applyBootStatus`
reads the booted config, waits for the Linode to run, and then shuts down whatever runs
(`Apply`, `Decide`, `Running`). In the trace of the run a config that is booted is changed
to `booted = false`; between the reads and the request a new config with `booted = true`
reboots the Linode into itself, and is shut down (`ShutsDownOnlyItsOwn`). The property is
about this shutdown alone: a removal and a change of VPC interfaces shut down for their
own reasons. The test that swaps the booted config orders its two resources with
`depends_on`.

Two formulas are stated and not run, because they do not hold: `RestartsAfterChange`
(`instanceconfig/resource.go:311` drops the result of the boot after a change of VPC
interfaces) and `ChangeReboots` (with `booted` not set, a change of the booted config
does not reboot, `instanceconfig/resource.go:317`, although the documentation says so at
`docs/resources/instance_config.md:14`).

### Resource, ResourceSteps and the kinds

A kind is a record: a schema and four sequences of steps. `ResourceSteps` has the
vocabulary. The steps are what the handlers are made of: a call that creates, updates,
reads or deletes, with what a 404 leads to (an error, the end of the resource in the
state, nothing at all); `SaveId`, `Save` and `Forget` for what is handed back to
Terraform; `Refresh` and `Preserve` for the two ways a flattening copies an answer
(`preserveKnown` false or true); `Copy` for `CopyFrom`; `IfChanged`, `IfGiven`, ... for the
conditions around them. The order of the steps is the order of the code. A schema says
which attributes are required, optional, computed or have a default, which replace,
which keep their prior value (`UseStateForUnknown` and the variants of
`helper/planmodifiers.go`), and what the API derives.

An attribute stands for itself; where several are handled alike by schema and
programs, they are one (`disk_layout`, `deploy`, `engine_config`, the settings
of NodeBalancer configs). Values are `"x"`, `"y"`, `"api"` (a default or the API's choice),
`"later"` (changed by the API itself), null and unknown.

`Resource` runs a kind. `Begin` refreshes what is recorded, `Plan...` decides, the
handlers go one step at a time, `EndApply` records, taints, and rejects a result that
differs from the plan, as Terraform does with a framework provider. `CallFails` may
strike at every call, an update or deletion may have been carried out all the
same. `Interfere` changes or deletes the object between any two steps; `Edit` changes
one attribute of the configuration or removes it. Behaviours begin with nothing, or
with an import, which records the identity only; a refresh follows it.

Three parts of a schema are about what the API does with a call. `key` is an identity that
may change, the username of `linode_user`: a call finds the object only under the name that
the handler knows (`Found`), and no object is made under a name in use (`Taken`); all other
resources have identities of their own, and what is recorded once stays right. `frozen` is what
keeps the rest of the object from being changed while it is given, `suspended` of the
databases (`Frozen`), which a comment of their updates says (`databasemysqlv2/framework_resource.go:313`).
`altered`, of a step, are the attributes that its request carries only where they change. A
handler that rejects its plan has a step `Reject` or `Require` there, so that what
it did before that step is done. Unconfigured `tags` of `linode_domain` and `linode_instance`
are planned as an empty set (`customdiffs/computedwithdefault.go:14`), and are in `defaulted`.

`Custody` is the abstract specification: an object is always in somebody's hands, the
create handler's or the state's; a record is dropped only when its object is gone; and no second object
is made while there is one. `KeepsCustody` is `Held!Spec`, with `there` the existence of the object and `holder` from `state` and `phase`. It
says at once that no failure between the call that creates and the record loses an
object, and that replacement, taint and 404s are in the right order.

`ResourceLifecycle.cfg` (all 42 kinds, one edit of any attribute, one failure, foreign
change or foreign deletion; 929 000 states):

- `QuietRunsSucceed`: left alone, no handler fails and none returns what Terraform
  rejects, but for the plans in `KnownRefusals`.
- `KeepsCustody`: the refinement.
- `SuccessIsTruthful`: after an undisturbed success, state and object have what is
  configured; a schema attribute that is in no request, or that a flattening forgets,
  breaks it.
- `ApplyIsIdempotent`: another run then plans nothing, even if its look-ups fail.
- `ReplacedForAReason`: an object is destroyed only where the configuration asks for
  another value of a fixed attribute.
- `UnmanagedUntouched`: what nobody configured keeps its value through updates of the rest.
- `ImportIsFaithful`: the refresh after an import takes from the object whatever some
  handler takes from the API.

`ResourceConverges.cfg` (`LiveKinds`: without `linode_instance` and
`linode_object_storage_bucket`, whose handlers are the longest, and the PostgreSQL databases,
whose handlers are the MySQL ones but for one check; 324 000 states): `Converges`. Whatever happened,
applying again brings the object to the configuration and keeps it there.
`ResourceImageImport.cfg`: an imported image is never read (`ImportIsFaithful` with
`Unread` empty).

A refusal (`Refusal`) goes by the configuration and by what it changes, not by the run:
one of a configuration (`Unfit`) is excused in every run of that configuration, one
of a change only while the change is planned. Each member was found by the run without it.

`Alike` and `OneOfEach` in `ResourceMC`: of attributes that schema and every step treat
alike, one is edited and interfered with; no step can tell them apart.

**Where the code falls short.** The properties hold of the provider except where
`KnownDivergences`, `KnownLeaks`, `KnownStuck`, `KnownUnread` and `KnownRefusals` say so; these sets are
the result of the runs, every member is a counterexample that was found and traced to the
code. Without them the run finds the next one.

| What | Where | Why |
|---|---|---|
| `linode_user` (leaks) | `user/resource.go:72`, `:135` | the ID is the username, and changes only after the update has answered: a user whom somebody renames, or whose renaming is carried out without an answer, is not found by the next read and dropped from the state; a creation makes a second user, or finds the name taken |
| `linode_user.grants` without `restricted` | `user/resource.go:167` | refused when it is applied ("Implement this validation at plan-time"): the user has been made or changed by then; a new one is tainted, and an update records the grants that were not given, so that the next apply has nothing to do |
| the databases, `suspended = true` with another change | `databasemysqlv2/framework_resource.go:313`, `databasepostgresqlv2/framework_resource.go:312` | refused: the update comes after the suspension, and the API does not change a suspended database |
| the databases, another engine in `engine_id` | `databasemysqlv2/framework_resource.go:442`, `databasepostgresqlv2/framework_resource.go:455` | refused when it is applied, after a suspension or resumption was done |
| `linode_domain.status` | `domain/resource.go:79` | in the schema, in no request |
| `linode_domain.axfr_ips` | `domain/resource.go:62` | read only if it is not empty: a list that somebody takes back stays in the state |
| `linode_token.label` | `token/framework_model.go:25` | optional and not computed, but read back as an empty label: a token without one has a change in every plan |
| `linode_account_settings.longview_subscription` | `accountsettings/framework_resource.go:161` | an unconfigured value is sent as an empty one |
| `linode_firewall_settings.default_firewall_ids` | `firewallsettings/framework_models.go:36` | refused: a configuration without the (optional) object is an error in every update |
| `linode_vpc_subnet.ipv4` | `vpcsubnet/framework_schema_resource.go:90` | optional and not computed, but read back as an empty value, and replaces |
| `linode_nodebalancer.vpcs`, `linode_nodebalancer_node.subnet_id` | `nb/helpers.go:12`, `nbnode/helpers.go:12` | diagnostics by value: a failed look-up is swallowed, the attribute becomes null, and a replacement is planned |
| `linode_nodebalancer_config.cipher_suite` | `nbconfig/framework_models.go:259` | in neither the options of the creation nor of the update |
| `linode_networking_ip.region`, `.type` | `networkingip/framework_resource_schema.go:48`, `:64` | neither replace nor are sent by the update |
| `linode_networking_ip_assignment` (leaks; `region`) | `networkingipassignment/framework_resource.go:119` | Update does nothing; Delete drops the state although its calls fail |
| `linode_ipv6_range` (leaks; `route_target`) | `ipv6range/framework_schema_resource.go:32`, `framework_resource.go:108` | computed, replaces, and without a prior value; a range is lost if the `GetIPv6Range` after its creation fails |
| `linode_instance_ip`, `linode_reserved_ip_assignment` (leaks; `address`) | `instanceip/framework_resource.go:57`, `instancereservedipassignment/framework_resource.go:69` | the reverse DNS call fails after the address was added: nobody tracks it |
| `linode_placement_group.placement_group_policy` | `placementgroup/framework_schema_resource.go:50` | neither replaces nor is sent by the update |
| `linode_instance.private_ip` | `instance/resource.go:677` | taking it back is an error (by design: it needs a support ticket) |
| `linode_lke_node_pool.autoscaler` | `lkenodepool/framework_models.go:110` | an autoscaler that is off is not read: the old block stays in the state |
| `linode_image.file_hash`, `.replica_regions`, `.cloud_init` | `image/framework_resource.go:503`, `:353`, `:288` | overwritten; regions cannot be added later; replaces after an import |
| image share groups, members, tokens (stuck; `description`, `token`) | `producerimagesharegroup*/`, `consumerimagesharegrouptoken/` | Read treats 404 as an error and keeps what it knows; a member's token is neither replaced nor sent |
| `linode_object_storage_object` (stuck, leaks; `acl`, `content`, `content_base64`, `source`) | `obj/framework_resource.go:113`, `:178`, `:220`, `:232` | a 404 is an error after the state was dropped; `acl` is no trigger of the update; a failed PUT of an update is reported, and yet the planned body, which no read shows, is recorded: the next apply has nothing to do |
| `linode_object_storage_bucket.cert` | `objbucket/resource.go:475` | the planned certificate is recorded although the new one failed after the old one was deleted |
| `linode_object_storage_bucket.lifecycle_rule`, `.versioning` | `objbucket/resource.go:87` | read only if the state has one |
| `linode_database_mysql_v2`, `_postgresql_v2`: `.private_network` | `databasemysqlv2/framework_models.go:241`, `databasepostgresqlv2/framework_resource.go:357` | read only if there is one: a network that somebody takes away stays in the state; PostgreSQL also dereferences nil when the configuration takes it back |

Assumptions about what is outside: a null in a request clears the attribute where the API allows it, an
absent one leaves it; a call that failed has created nothing (`helper/retry.go`
repeats creations); a wait ends when it likes; node pools are those of an enterprise
cluster, whose version and strategy are sent; the regions of object storage keys cover
their buckets; usernames are unique; a suspended database can be resumed and deleted, and not
changed otherwise. A foreign change of an attribute that the read handler never looks at
(`Seen`) is not seen by a refresh, and excused (`unseen`).

### Further configurations

`InstanceUpdatePower.cfg`, `InstanceSwapRemainder.cfg` and `LKEClusterExternal.cfg` end in
counterexamples too, as described above: the documentation says that the power state
is not managed without `booted` (`docs/resources/instance.md:187`), that the boot disk takes the
remainder (`instance.md:235`), and that pools with external tags are left alone
(`docs/resources/lke_cluster.md:184`). They are kept for a reader; `PROJECT.json` lists the four findings with a
run: `volume_orphan`, `lke_cluster_hole`, `linode_power_booted_false`,
`resource_image_import`.

## Fairness

`FairSpec` of each module is weak fairness of the provider's actions together
(handlers go on to their next call; waits end by success or by timeout; after an
error the operator applies again) and of the API's jobs (what it accepted, it
finishes). Edits, failures and interferences have no fairness and are bounded, so
that liveness says what happens once they stop. Where a wait can only time out
(the size of a disk that cannot change), the timeout is an action without a budget
(`Hopeless`, `Stuck`, `Gone`): a wait that never ends is not in the code, every one
has a deadline.

`Resource` has weak fairness of `Run` alone: Terraform carries a run on, and the
operator applies again. `LinodePower` has weak fairness of the job of the API and of
every handler on its own, because Terraform runs each in a goroutine; a handler that
polls is not stopped by what another one does.

`CHECK_DEADLOCK FALSE` is set where a system that is in sync has nothing more to
do, or where the process or all handlers have ended.

## Bounds

`MaxFailures`, `MaxEdits`, `MaxInterference`, `MaxDiff`, `MaxVolumes`, `MaxPools`,
`Edits`, `Disturbances`: each a guard of the actions it names. A failure, an edit and
an interference are enough to meet each other at every step; the number of volumes
and pools is more than a run can use within the other bounds. In `Resource`, one
disturbance and one edit meet at every step of every handler, on a configuration that
is minimal or full; what takes two of them (a deletion by somebody else and a failure
while the object is made again) is left out to keep 42 resources in one run. In
`LinodePower` two handlers are the least that get into each other's way, two disks
and two configs let each have its own, and a third config runs before those are created; three handlers are beyond a run of some minutes.

## Proofs

`VolumeProofs`, for every set of Linodes, sizes and labels and every bound:

- `TypeCorrect`: `TypeOK`, together with `Control`: which volume `op.id` names at
  every step, that an update or a delete works on the state's volume, and that the
  continuation of a delete is `create` or `clone` only for a replacement. `TypeOK`
  is not inductive without it: the steps save `FlattenPlan(op.id, ...)`.
- `ClonesTracked`: `ClonedVolumesTracked`. The invariant `ClonesKept` adds that an
  idle handler has no volume in hand but the state's and that a handler before its
  first call has none; the step from `delete` to `create` needs it.
- `DetachedFirst`: `CallsOnDetachedVolume`. `DetachKept` adds that from the moment
  the detachment was asked for, the volume's target is nowhere (`Detaching`), which
  is why a pending attachment of an earlier run cannot come back.
- `SuccessTruthful`: `SuccessIsTruthful`. What a handler saves is the plan
  (`FlattenPlan`), not what the API answered, so that it is true only if every
  difference was put right on the way. The invariant `RunFaithful` follows a run that
  nobody disturbs and that found no move of the volume under way: after `Read` the
  state is what the volume is and where it is headed (`StateRead`), the plan is the
  configuration (`PlanFollowed`), and at each step the volume already has the planned
  size, label or target that the steps behind it set (`VolumeFollows`).

`InstanceSwapProofs`, for every capacity and every number of failures:

- `SwapTypeCorrect`: `TypeOK`. It needs that the disks never take more than the
  type's space and that a resize the API works on fits (`SpaceInv`).
- `ResizesAlwaysFit`: `ResizesFit`, and `SpaceIsKept`: `SpaceKept`. The invariant
  (`PlanInv`) says, for a run that found no resize unfinished, that the sizes still
  to be set and the disks not to be touched any more add up to the space there was,
  that the first resize makes its disk no larger, and that a job is the handler's
  own.

`InstanceUpdateProofs`, for any types and their disk spaces, any configuration, and any
number of differences, failures and interferences:

- `Invariance`: the inductive invariant `Inv`. Its heart is `TodoInv`: whatever the
  refresh saw missing (`Missing`: an attribute that differs, a type, a disk size) is put
  right by a step that is still to come and that the conditions of the update do not
  skip. Around it `JobInv` says that without a job left over from an earlier run every
  job is the one the running step waits for, and that the disk has the size the type
  change decided by; `WaitInv` what the waits can rely on; `OffInv` and `PowerInv`
  how the Linode is powered where a call needs it off and at the end; `RebootInv` that a
  boot that is due is either in `op.reboot` or not wanted; `WorldInv` what the API
  never lets happen.
- `TypeCorrect`: `TypeOK`; `OnlyAcceptableCalls`: `CallsAccepted`, from `JobInv` and
  `OffInv`; `SuccessTruthful`: `SuccessIsTruthful`, from `TodoInv` at the last step;
  `PowerKept`: `BootedAsConfigured`; `NoRebootLost`: `RebootsNotLost`.

`LinodePowerProofs`, for any number of handlers, configs and disks, where the runs have
two of each:

- `Invariance`: the inductive invariant `IInv`. `JobInv` ties the power state to the event
  of the job that runs; `EventInv` says of every event what it is about and whose it is
  (`Told`: a finished operation on a disk has changed the disk, and somebody whose task it
  is asked for it); `HandlersInv` what a handler has done by the time it is at a place,
  and with which call it goes on. A handler that takes the event of another for its own is
  not excluded - the code allows it - but then the event tells of the same operation.
- `TypeCorrect`: `TypeOK`; `SuccessIsDone`: `SuccessMeansDone`.
- `PowerComesBack`: `RunsAgain`, by `CalmInv`: as long as nothing fails, the job that
  runs is awaited by somebody, so that nobody can end before it, and while the Linode is
  off one of the handlers has the boot still before it (`Owes`).

`LinodePowerSettled`, which builds on `IInv`:

- `PowerSettled`: `PowerAsConfigured`, with one handler of a config (or a reboot) and any
  number of disk handlers. The invariant `SettledInv` speaks of runs in which no handler
  has failed (`Well`), whatever became of the jobs. `EventsTell`: the latest boot event
  names the config that is booted, which is what `GetCurrentBootedConfig` goes by;
  `WatchedInv`: the job that runs is awaited, so that its failure fails a handler;
  `WarmInv`: a Linode that was on is on, or a disk handler that has shut it down has the
  boot still before it (`Owing`), or the boot has failed and its handler will too
  (`Doomed`); `LaunchInv`: from the boot on, a config with `booted = true` is the one that
  runs; `StopInv`: with `booted = false` and no disk handler that has found the Linode
  running, nobody else changes the power; `ColdInv`: a Linode that was off stays off when no
  config is to be booted. `WatchedInv` leaves out the one task that drops the
  result of its boot, a change of interfaces by a config without `booted` (`Plain`).

`ResourceProofs`, for any set of kinds, not only the 42 of the runs:

- `TypeCorrect`: `TypeOK`, with `Flow` (which handler runs on what) and `Typed`.
- `CustodyKept`: `Spec => KeepsCustody`, the refinement of `Custody`. Its assumption
  `CustodyAssumption` is a rule about the text of the programs (`Careful`): after a call
  that creates, the next step that can fail comes after the identity is recorded; an
  update makes nothing; a read does not drop the state except for a 404; a delete handler
  always has a delete to make, and does not pass over its failure; and the object has an
  identity that does not change (no `key`). The theorem
  says that the rule is enough, for every order of failures, early returns, replacements
  and deletions by somebody else. The rule is static: TLC evaluates it for every kind at
  the start of every run of `Resource`, and the kinds that break it are those of
  `KnownLeaks`, for which `KeepsCustody` says nothing. The invariant `Safe` says who
  holds the object at each step: the state, what the handler has handed back (`saved`), or
  a create handler whose next step records it (`WillRecord`); a delete handler that has
  not failed still has to delete (`WillDelete`).
- `ImportRead`: `ImportIsFaithful`. The rule about the programs is `ReadsAll` of
  `ResourceReads`, for the kinds that can be imported: the read handler asks the API on
  every path before it takes an attribute from the answer; each configurable
  attribute that some handler shows, but those of `KnownUnread`, is taken whatever the handler skips (in
  `linode_instance_disk`, `image` only where it is empty, which an import leaves it); the
  read makes up no value for it or for the identity, and a framework handler ends with the
  save. It speaks of an object that still has the identity it was imported under
  (`Recognised`): a user renamed since is dropped by the read. `ImportInv`
  says what the handler holds after each step: the null of the import or the value of
  the object, the latter once it is past the step that takes it. TLC
  evaluates the rule at the start of both runs of `ResourceMC`. `linode_image` without
  `KnownUnread` breaks it; so its run has a module of its own.

`LKEClusterProofs`, for any specifications of pools, any number of pools, edits and
failures:

- `Invariance`: the inductive invariant `IInv`. `OldInv`: what an update goes by is the
  refreshed state, all its IDs are those of pools there were, each at one place only;
  `OwnInv`: none of them is another resource's when `external_pool_tags` is in the
  state; `ChangesInv`: what is left to update and delete are pools of the state, and
  without a hole only pools whose declaration changes; `VersionInv`: between which
  steps the nodes are behind the cluster. `ReadPoolsAre` says of the two passes of
  `matchPoolsWithSchema` that they give every visible pool one place, `AscendingAll`
  that nothing moves where nothing is dropped - the step that a hole breaks
  (`LKEClusterHole.cfg`).
- `TypeCorrect`: `TypeOK`; `ExternalKept`: `ExternalPoolsKept`; `UnchangedKept`:
  `UnchangedPoolsKept`; `Upgraded`: `NodesUpgraded`.

`LKEClusterPools`, which builds on `IInv`:

- `PoolsSettled`: `PoolsAsConfigured`. The invariant `PoolsInv` speaks of updates under
  the conditions of the property (`Calm`). `SeenInv`: up to the comparison the old pools are
  the visible pools of the cluster, all of them and as they are. `FixInv`, while the pools are
  updated: there is an assignment `f` of pools to declarations and an order `q` of the
  declarations without one, such that `op.toCreate` is what `q` waits for (`Waiting`); no
  pool serves two declarations or is to be deleted (`Kept`); each has the attributes of its
  declaration or the update that gives it them still to come (`Fitting`); and every other
  visible pool is to be deleted, one at whose planned ID another takes the place too
  (`Placed`). `ReadyInv`: a create leaves one pool for each declaration, `LifeInv`: the
  cluster is at the configured version by then. At the end `f` matches declarations and
  pools one to one (`PlanMatched`).
- `PairingMatches` is the part about the read: a declaration with an ID takes its pool, the
  others take any pool with their attributes, in the order of a Go map, and may take the pool
  `f` has for another. Still no declaration is left over: one that found none would leave
  the pools of its attributes, as many as the declarations of them, to one declaration
  fewer (`NotIntoLess`).

The assumptions are the named ones on the constants; all of them are evaluated by TLC in
the runs of their modules. Every inductive invariant held in a run of TLC on the
instances of the safety configurations before it was proved.

Model-checked only:

- liveness (`EventuallyApplied`, `HandlersEnd`, `Converges`): fairness and ENABLED are
  outside the proof system;
- `QuietRunsSucceed`, `SuccessIsTruthful`, `ApplyIsIdempotent`, `ReplacedForAReason` and
  `UnmanagedUntouched` of `Resource`: they relate what each request sends, what each answer
  overwrites and what each schema plans, attribute by attribute. A rule about the
  programs that implies them would have to follow each attribute through all of them;
  TLC does that by running them.

## Not modelled

- Data sources (about seventy, the engine configurations of databases among them): they
  read and filter lists, keep no state and take no steps.
- The wiring of the provider and its configuration: built once, constant afterwards.
- Conversions, validation, diff suppression and custom types, except where what they do
  decides a step (unknown, null, prior value).
- `linode_instance` creation: which of several configs boots, and how its disks and configs
  are made, is one attribute of the kind; `detachConfigVolumes` with its goroutines is an
  interference of `Volume`.
- `linode_lke_cluster`: the control plane ACL, label and tags, per-pool versions, the
  kubeconfig wait.
- The temporary keys of object storage (two calls around a handler), lifecycle rules
  as single rules, the retries of the HTTP client, events of databases by their time.

## Plan

1. `InstanceCreate`: the choice of the config that boots, and the composition with
   `Volume` (a configuration attaches a volume that a `linode_volume` updates).
2. `ObjectKeys`: temporary keys that must not outlive a handler.
3. `Retry`: a creation that is repeated after its answer was lost.
