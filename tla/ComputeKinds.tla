------------------------------ MODULE ComputeKinds ------------------------------
(***************************************************************************)
(* Linodes and what belongs to one: disks, configs and interfaces, and the *)
(* node pools of an LKE cluster.  A Linode is here with its life; what its *)
(* update does to disks, configs and power is in InstanceUpdate.tla and    *)
(* InstanceSwap.tla, what two resources do to the power of one Linode in   *)
(* LinodePower.tla.                                                        *)
(***************************************************************************)
EXTENDS ResourceSteps

---------------------------------------------------------------------------
\* linode_instance (SDKv2).  disk_layout stands for the blocks disk and config and
\* for boot_config_label, deploy for the attributes that only the creation sends.
InstanceSchema ==
    [EmptySchema EXCEPT
        !.required  = {"region"},
        !.optional  = {"deploy", "group", "interface", "private_ip", "firewall_id"},
        !.either    = {"label", "maintenance_policy", "ipv4",
                       "swap_size", "backups_enabled", "booted", "shared_ipv4", "alerts",
                       "disk_layout", "disk_encryption"},
        !.defaulted = {"type", "watchdog_enabled", "tags"},
        !.readOnly  = {"capabilities", "locks", "status", "ip_address", "ipv6",
                       "private_ip_address", "host_uuid", "has_user_data", "lke_cluster_id",
                       "specs", "backups"},
        !.flag      = {"private_ip", "backups_enabled", "watchdog_enabled"},
        !.replace   = {"deploy", "firewall_id", "ipv4", "disk_encryption"},
        !.local     = {"deploy", "firewall_id"},
        !.path      = {"interface"},
        !.conflicts = "disk_layout" :> {"deploy", "interface", "swap_size"},
        !.mirrors   = "specs" :> "type" @@ "backups" :> "backups_enabled"
                          @@ "private_ip_address" :> "private_ip"]

InstanceFlattened ==
    {"ipv4", "ipv6", "shared_ipv4", "ip_address", "private_ip", "private_ip_address", "label",
     "status", "type", "region", "maintenance_policy", "watchdog_enabled", "group", "tags",
     "capabilities", "locks", "booted", "host_uuid", "has_user_data", "lke_cluster_id",
     "disk_encryption", "specs", "alerts", "backups", "backups_enabled", "disk_layout",
     "swap_size", "interface"}

InstanceRead == <<GetOrForget, Wait, Wait, Wait, Refresh(InstanceFlattened)>>

\* What one request creates, and the calls that make up the rest.  A Linode with
\* a disk layout is created off, and booted when it has its disks and configs.
InstanceCreateOptions ==
    {"region", "type", "label", "group", "backups_enabled", "private_ip", "disk_encryption",
     "ipv4", "tags", "firewall_id", "maintenance_policy", "interface", "deploy", "swap_size"}
InstanceDeployment ==
    IfGiven({"disk_layout"}, <<Create(InstanceCreateOptions), SaveId>>)
    \o Unless({"disk_layout"}, <<Create(InstanceCreateOptions \union {"booted"}), SaveId>>)
    \o IfGiven({"watchdog_enabled"}, <<Update({"watchdog_enabled", "alerts"})>>)
    \o Unless({"watchdog_enabled"}, IfGiven({"alerts"}, <<Update({"alerts"})>>))
    \o IfGiven({"disk_layout"}, <<Wait, Update({"disk_layout"})>>)
    \o IfGiven({"shared_ipv4"}, <<Update({"shared_ipv4"})>>)
    \o IfGiven({"disk_layout"}, <<Wait, Update({"booted"}), Wait>>)
InstanceCreate == <<Wait>> \o InstanceDeployment \o <<Wait>> \o InstanceRead

\* The update is a list of changes, each with its own call; a private address
\* cannot be taken back.
InstanceUpdateOptions == {"label", "group", "maintenance_policy", "tags", "watchdog_enabled", "alerts"}
InstanceUpdate ==
    <<Get, UpdateChanged(InstanceUpdateOptions), UpdateChanged({"backups_enabled"})>>
    \o IfChanged({"private_ip"}, <<Require({"private_ip"}), Update({"private_ip"})>>)
    \o IfChanged({"region"}, <<Wait, Update({"region"}), Wait>>)
    \o IfChanged({"type"}, <<Wait, Update({"type"}), Wait>>)
    \o Unless({"deploy"}, <<UpdateChanged({"disk_layout"})>>)
    \o <<UpdateChanged({"swap_size"}), Wait, UpdateChanged({"interface"}),
         UpdateChanged({"shared_ipv4"}), Wait, UpdateChanged({"booted"})>>
    \o InstanceRead

\* The deletion does not ask whether there is anything to delete.
InstanceDelete == <<Wait, Delete, Wait>>

Instance ==
    SDKv2("linode_instance", InstanceSchema, InstanceCreate, InstanceRead, InstanceUpdate,
          InstanceDelete)

---------------------------------------------------------------------------
\* linode_instance_disk.  The handlers shut the Linode down around a resize or
\* a deletion and boot it again.
DiskSchema ==
    [EmptySchema EXCEPT
        !.required = {"label", "linode_id", "size"},
        !.optional = {"authorized_keys", "root_pass", "stackscript"},
        !.either   = {"filesystem", "image"},
        !.readOnly = {"created", "updated", "status", "disk_encryption"},
        !.replace  = {"linode_id", "authorized_keys", "root_pass", "stackscript", "filesystem", "image"},
        !.keep     = {"filesystem", "image", "created"},
        !.path     = {"linode_id", "image"},
        !.local    = {"authorized_keys", "root_pass", "stackscript"},
        !.volatile = {"updated"}]

DiskFlattened == {"label", "size", "filesystem", "created", "updated", "status", "disk_encryption"}
DiskCopied    ==
    DiskFlattened \union {"linode_id", "image", "authorized_keys", "root_pass", "stackscript"}

DiskCreate ==
    <<Without({"image"}), Wait,
      Create({"label", "linode_id", "size", "filesystem", "image", "authorized_keys", "root_pass",
              "stackscript"}),
      SaveId, Wait, Wait, Get, Preserve(DiskFlattened), Save>>

\* A disk without an image takes the one of its Linode, if that can be read.
PopulateImage == Unless({"image"}, <<GetIfThere, Refresh({"image"})>>)
DiskRead == <<GetOrForget>> \o PopulateImage \o <<Refresh(DiskFlattened), Save>>

RunDiskOperation(operation) == <<Wait, Wait, operation, Wait, Wait, Wait>>
ResizeDisk == IfChanged({"size"}, RunDiskOperation(Update({"size"})))
DiskUpdate ==
    <<Without({"image"})>> \o ResizeDisk
    \o <<UpdateChanged({"label"}), Get, Preserve(DiskFlattened), Copy(DiskCopied), Save>>

\* The error of the deletion is noted, and the Linode is booted all the same.
DiskDelete == RunDiskOperation(DeleteAndGoOn)

Disk ==
    ImportedWith(
        Framework("linode_instance_disk", DiskSchema, DiskCreate, DiskRead, DiskUpdate, DiskDelete),
        {"linode_id"})

---------------------------------------------------------------------------
\* linode_instance_config (SDKv2).  device and devices are two ways to say the
\* same; booted is the power state of the Linode.
ConfigSchema ==
    [EmptySchema EXCEPT
        !.required  = {"linode_id", "label"},
        !.optional  = {"comments", "interface"},
        !.either    = {"device", "booted", "helpers", "memory_limit"},
        !.defaulted = {"kernel", "root_device", "run_level", "virt_mode"},
        !.readOnly  = {"devices"},
        !.mirrors   = "devices" :> "device",
        !.path      = {"linode_id"},
        !.replace   = {"linode_id"}]

ConfigFlattened ==
    {"linode_id", "label", "comments", "kernel", "memory_limit", "root_device", "run_level",
     "virt_mode", "interface", "booted", "device", "devices", "helpers"}

ConfigOptions ==
    {"label", "comments", "helpers", "interface", "memory_limit", "kernel", "run_level",
     "virt_mode", "root_device", "device"}

\* applyBootStatus reads what runs and boots, reboots or shuts down, for a
\* configuration that manages the power.
ApplyBootStatus == IfConfigured({"booted"}, <<Wait, Wait, Update({"booted"}), Wait>>)

ConfigRead   == <<GetOrForget, Wait, Wait, Wait, Refresh(ConfigFlattened)>>
ConfigCreate ==
    <<Create(ConfigOptions \union {"linode_id"}), SaveId>> \o ApplyBootStatus \o ConfigRead
ConfigUpdate ==
    <<Wait>> \o IfChanged({"interface"}, <<Get, Wait>>)
    \o <<UpdateChanged(ConfigOptions)>> \o ApplyBootStatus \o ConfigRead
ConfigDelete == <<Wait, Wait, Delete>>

Config ==
    ImportedWith(
        SDKv2("linode_instance_config", ConfigSchema, ConfigCreate, ConfigRead, ConfigUpdate,
              ConfigDelete),
        {"linode_id"})

---------------------------------------------------------------------------
\* linode_interface.  addresses stands for the lists of addresses and ranges
\* that a configuration asks for, of public and of VPC interfaces alike,
\* assigned for what the API made of them, shared for what others have on this
\* interface; which kind of interface it is, is said by vlan or subnet_id.
InterfaceSchema ==
    [EmptySchema EXCEPT
        !.required   = {"linode_id"},
        !.optional   = {"firewall_id", "addresses", "vlan", "subnet_id"},
        !.either     = {"default_route", "is_public"},
        !.readOnly   = {"assigned", "shared"},
        !.mirrors    = "assigned" :> "addresses",
        !.nested     = "is_public" :> "subnet_id",
        !.exclusive  = "subnet_id" :> "vlan",
        !.replace    = {"linode_id", "firewall_id", "vlan", "subnet_id"},
        !.keep       = {"default_route", "shared"},
        !.keepUnless = "assigned" :> {"addresses"},
        !.path       = {"linode_id", "vlan", "subnet_id"},
        !.local      = {"firewall_id", "addresses"}]

PublicFlattened       == {"assigned"}
SharedFlattened       == {"shared"}
VPCInterfaceFlattened == {"subnet_id", "assigned", "is_public"}
InterfaceFlattened    == PublicFlattened \union VPCInterfaceFlattened \union {"default_route", "vlan"}

PublicOptions       == {"addresses"}
VPCOptions          == {"addresses", "is_public"}
DefaultRouteOptions == {"default_route"}
InterfaceCreateOptions ==
    {"linode_id", "firewall_id", "vlan", "subnet_id"}
        \union PublicOptions \union VPCOptions \union DefaultRouteOptions
InterfaceUpdateOptions == VPCOptions \union DefaultRouteOptions

\* What others share is overwritten even where the plan has kept it.
InterfaceCreate ==
    <<Create(InterfaceCreateOptions), SaveId, Preserve(InterfaceFlattened),
      Refresh(SharedFlattened), Save>>
InterfaceRead ==
    <<GetOrForget, Refresh(InterfaceFlattened \union SharedFlattened), Save>>
\* Lists that the configuration no longer has are not part of the request.
InterfaceUpdate ==
    IfGiven({"addresses"}, <<SendChanged(InterfaceUpdateOptions)>>)
    \o Unless({"addresses"}, <<SendChanged(InterfaceUpdateOptions \ {"addresses"})>>)
    \o <<Preserve(InterfaceFlattened), Refresh(SharedFlattened), Save>>
InterfaceDelete == <<DeleteIfThere>>

Interface ==
    ImportedWith(
        Framework("linode_interface", InterfaceSchema, InterfaceCreate, InterfaceRead, InterfaceUpdate,
                  InterfaceDelete),
        {"linode_id"})

---------------------------------------------------------------------------
\* linode_lke_node_pool, of an enterprise cluster (the others send neither the
\* version nor the update strategy).
NodePoolSchema ==
    [EmptySchema EXCEPT
        !.required  = {"cluster_id", "type"},
        !.optional  = {"autoscaler", "taint"},
        !.either    = {"firewall_id", "node_count", "k8s_version", "update_strategy"},
        !.defaulted = {"label", "tags", "labels"},
        !.readOnly  = {"disk_encryption", "nodes"},
        !.path      = {"cluster_id", "type"},
        !.replace   = {"cluster_id", "type"},
        !.keep      = {"firewall_id", "node_count", "k8s_version", "update_strategy"}]

\* The autoscaler is read back only where the API has one.
NodePoolFlattened ==
    {"node_count", "type", "disk_encryption", "label", "firewall_id", "tags", "labels", "nodes",
     "k8s_version", "update_strategy"}
NodePoolBlocks == {"taint"}
NodePoolCopied ==
    {"cluster_id", "node_count", "type", "disk_encryption", "tags", "nodes", "labels",
     "k8s_version", "update_strategy", "label", "firewall_id"}
NodePoolCreateOptions ==
    {"cluster_id", "node_count", "type", "label", "firewall_id", "tags", "autoscaler", "taint",
     "labels", "k8s_version", "update_strategy"}
NodePoolUpdateOptions == NodePoolCreateOptions \ {"cluster_id", "type"}

\* The wait for the nodes ends with the pool as it is then.
WaitForNodePoolReady == Get

NodePoolCreate ==
    <<Wait, Create(NodePoolCreateOptions), SaveId, WaitForNodePoolReady,
      Preserve(NodePoolFlattened), Save>>
NodePoolRead ==
    <<GetOrForget, Refresh(NodePoolFlattened \union NodePoolBlocks), RefreshSet({"autoscaler"}), Save>>
NodePoolUpdate ==
    <<Wait>>
    \o IfChanged(NodePoolUpdateOptions,
                 <<SendChanged(NodePoolUpdateOptions), WaitForNodePoolReady,
                   Preserve(NodePoolFlattened)>>)
    \o <<Copy(NodePoolCopied), Save>>
NodePoolDelete == <<DeleteIfThere>>

NodePool ==
    ImportedWith(
        Framework("linode_lke_node_pool", NodePoolSchema, NodePoolCreate, NodePoolRead, NodePoolUpdate,
                  NodePoolDelete),
        {"cluster_id"})

ComputeKinds == {Instance, Disk, Config, Interface, NodePool}
=================================================================================
