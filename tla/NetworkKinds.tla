------------------------------ MODULE NetworkKinds ------------------------------
(***************************************************************************)
(* The network resources: VPCs and their subnets, firewalls, their devices *)
(* and the default firewalls of an account.                                *)
(***************************************************************************)
EXTENDS ResourceSteps

---------------------------------------------------------------------------
\* linode_vpc.  An IPv6 prefix that was asked for and is not in the answer is an
\* error after the VPC was recorded.
VPCSchema ==
    [EmptySchema EXCEPT
        !.required = {"label", "region"},
        !.optional = {"ipv6"},
        !.either   = {"description", "range"},
        !.readOnly = {"allocated_range", "created", "updated"},
        !.replace  = {"region", "ipv6", "range"},
        !.keep     = {"description", "ipv6", "range", "created"},
        !.nested   = ("range" :> "ipv6") @@ ("allocated_range" :> "ipv6"),
        !.volatile = {"updated"}]

VPCFlattened     == {"description", "created", "updated", "label", "region"}
VPCIPv6Flattened == {"ipv6", "range", "allocated_range"}
VPCCopied        == VPCFlattened
VPCIPv6Copied    == {"ipv6"}

VPCCreate ==
    <<Create({"label", "region", "description", "ipv6", "range"}),
      Preserve(VPCFlattened), Refresh(VPCIPv6Flattened), Save>>
    \o IfGiven({"ipv6"}, <<Wait>>)

VPCRead   == <<GetOrForget, Refresh(VPCFlattened \union VPCIPv6Flattened), Save>>
VPCUpdate ==
    IfChanged({"description", "label"},
              <<UpdateChanged({"description", "label"}),
                Refresh(VPCFlattened \union VPCIPv6Flattened)>>)
    \o <<Copy(VPCCopied \union VPCIPv6Copied), Save>>
VPCDelete == <<DeleteIfThere>>

VPC == Framework("linode_vpc", VPCSchema, VPCCreate, VPCRead, VPCUpdate, VPCDelete)

---------------------------------------------------------------------------
\* linode_vpc_subnet.  Before the deletion the databases of the subnet are looked
\* up; the deletion is retried while they propagate.
VPCSubnetSchema ==
    [EmptySchema EXCEPT
        !.required  = {"vpc_id", "label"},
        !.optional  = {"ipv4", "ipv6"},
        !.either    = {"range"},
        !.readOnly  = {"allocated_range", "created", "updated", "linodes", "databases"},
        !.replace   = {"vpc_id", "ipv4", "ipv6", "range"},
        !.keep      = {"ipv6", "range", "created", "linodes", "databases"},
        !.blank     = {"ipv4"},
        !.path      = {"vpc_id"},
        !.nested    = ("range" :> "ipv6") @@ ("allocated_range" :> "ipv6"),
        !.volatile  = {"updated"}]

VPCSubnetFlattened     == {"linodes", "created", "updated", "label", "ipv4", "databases"}
VPCSubnetIPv6Flattened == {"ipv6", "range", "allocated_range"}
VPCSubnetCopied        == VPCSubnetFlattened \union {"vpc_id"}
VPCSubnetIPv6Copied    == {"ipv6"}

VPCSubnetCreate ==
    <<Create({"vpc_id", "label", "ipv4", "ipv6", "range"}),
      Preserve(VPCSubnetFlattened), Refresh(VPCSubnetIPv6Flattened), Save>>
    \o IfGiven({"ipv6"}, <<Wait>>)
VPCSubnetRead ==
    <<GetOrForget, Refresh(VPCSubnetFlattened \union VPCSubnetIPv6Flattened), Save>>
VPCSubnetUpdate ==
    IfChanged({"label"},
              <<Update({"label"}),
                Preserve(VPCSubnetFlattened), Refresh(VPCSubnetIPv6Flattened)>>)
    \o <<Copy(VPCSubnetCopied \union VPCSubnetIPv6Copied), Save>>
VPCSubnetDatabases == <<GetIfThere, Wait>>
VPCSubnetDelete    == VPCSubnetDatabases \o <<DeleteIfThere>>

VPCSubnet ==
    ImportedWith(
        Framework("linode_vpc_subnet", VPCSubnetSchema, VPCSubnetCreate, VPCSubnetRead,
                  VPCSubnetUpdate, VPCSubnetDelete),
        {"vpc_id"})

---------------------------------------------------------------------------
\* linode_firewall.  The identity is recorded right after the creation; a
\* disabled firewall is created enabled and disabled by a second call; devices
\* and rules are read by calls of their own, whose errors are noted, and changed
\* by separate ones.
FirewallSchema ==
    [EmptySchema EXCEPT
        !.required  = {"label", "inbound_policy", "outbound_policy"},
        !.optional  = {"inbound", "outbound"},
        !.defaulted = {"tags", "disabled"},
        !.either    = {"linodes", "nodebalancers", "interfaces"},
        !.readOnly  = {"devices", "status", "created", "updated"},
        !.keep      = {"linodes", "nodebalancers", "interfaces", "devices", "status", "created"},
        !.mirrors   = ("status" :> "disabled") @@ ("devices" :> "linodes"),
        !.volatile  = {"updated"}]

FirewallFlattened ==
    {"label", "tags", "disabled", "inbound_policy", "outbound_policy", "status", "created", "updated"}
FirewallDevices   == {"linodes", "nodebalancers", "interfaces"}
FirewallRules     == {"inbound", "outbound"}
FirewallCopied    == FirewallFlattened \union FirewallDevices \union {"devices"}

FirewallCreateOptions ==
    {"label", "tags", "inbound_policy", "outbound_policy"} \union FirewallDevices \union FirewallRules
FirewallDisable == IfGiven({"disabled"}, <<Update({"disabled"})>>)
FirewallRefreshed == FirewallDevices \union {"devices"}
FirewallRefreshDevices(read) == <<GetAndGoOn, read>>
FirewallRefreshRules(read)   == <<GetAndGoOn, read>>

FirewallCreate ==
    <<Create(FirewallCreateOptions), SaveId>> \o FirewallDisable \o <<Preserve(FirewallFlattened)>>
    \o FirewallRefreshDevices(Preserve(FirewallRefreshed)) \o FirewallRefreshRules(Preserve(FirewallRules)) \o <<Save>>
FirewallRead ==
    <<GetOrForget, Refresh(FirewallFlattened)>>
    \o FirewallRefreshRules(Refresh(FirewallRules)) \o FirewallRefreshDevices(Refresh(FirewallRefreshed)) \o <<Save>>

FirewallUpdateOptions == {"label", "tags", "disabled"}
FirewallRulesAndPolicies == FirewallRules \union {"inbound_policy", "outbound_policy"}
FirewallUpdateDevices == <<Get, Update(FirewallDevices)>>
FirewallUpdate ==
    IfChanged(FirewallUpdateOptions,
              <<UpdateChanged(FirewallUpdateOptions), Preserve(FirewallFlattened)>>)
    \o IfChanged(FirewallRulesAndPolicies,
                 <<Update(FirewallRulesAndPolicies), Preserve(FirewallRules)>>)
    \o IfChanged(FirewallDevices, FirewallUpdateDevices)
    \o <<Copy(FirewallCopied), Save>>
FirewallDelete == <<Delete>>

Firewall ==
    Framework("linode_firewall", FirewallSchema, FirewallCreate, FirewallRead, FirewallUpdate,
              FirewallDelete)

---------------------------------------------------------------------------
\* linode_firewall_device: the attachment of a firewall to an entity.  Every
\* attribute asks for replacement, so the update handler is never called.
FirewallDeviceSchema ==
    [EmptySchema EXCEPT
        !.required  = {"firewall_id", "entity_id"},
        !.defaulted = {"entity_type"},
        !.readOnly  = {"created", "updated"},
        !.replace   = {"firewall_id", "entity_id", "entity_type"},
        !.path      = {"firewall_id"},
        !.keep      = {"created"},
        !.volatile  = {"updated"}]

FirewallDeviceFlattened == {"entity_id", "entity_type", "created", "updated"}
FirewallDeviceCopied    == FirewallDeviceFlattened \union {"firewall_id"}

FirewallDeviceCreate ==
    <<Create({"firewall_id", "entity_id", "entity_type"}), Preserve(FirewallDeviceFlattened), Save>>
FirewallDeviceRead   == <<GetOrForget, Refresh(FirewallDeviceFlattened), Save>>
FirewallDeviceUpdate == <<Copy(FirewallDeviceCopied), Save>>
FirewallDeviceDelete == <<DeleteIfThere>>

FirewallDevice ==
    ImportedWith(
        Framework("linode_firewall_device", FirewallDeviceSchema, FirewallDeviceCreate,
                  FirewallDeviceRead, FirewallDeviceUpdate, FirewallDeviceDelete),
        {"firewall_id"})

---------------------------------------------------------------------------
\* linode_firewall_settings: the default firewalls of the account, which
\* outlive the resource.  The block of defaults may be left out, but the
\* request cannot be built from a null one.
DefaultFirewallIDs == {"linode", "nodebalancer", "public_interface", "vpc_interface"}
FirewallSettingsSchema ==
    [EmptySchema EXCEPT
        !.optional = {"default_firewall_ids"},
        !.either   = DefaultFirewallIDs,
        !.keep     = DefaultFirewallIDs,
        !.nested   = [a \in DefaultFirewallIDs |-> "default_firewall_ids"]]

FirewallSettingsFlattened == {"default_firewall_ids"} \union DefaultFirewallIDs
FirewallSettingsUpdateOptions ==
    <<Require({"default_firewall_ids"}), Update({"default_firewall_ids"} \union DefaultFirewallIDs)>>
FirewallSettingsUpdateCall ==
    FirewallSettingsUpdateOptions \o <<Preserve(FirewallSettingsFlattened)>>

FirewallSettingsCreate == FirewallSettingsUpdateCall \o <<Save>>
FirewallSettingsRead   == <<Get, Refresh(FirewallSettingsFlattened), Save>>
FirewallSettingsUpdate == FirewallSettingsUpdateCall \o <<Save>>
FirewallSettingsDelete == <<>>

FirewallSettings ==
    NotImportable(
        [Framework("linode_firewall_settings", FirewallSettingsSchema, FirewallSettingsCreate,
                   FirewallSettingsRead, FirewallSettingsUpdate, FirewallSettingsDelete)
            EXCEPT !.adopted = TRUE])

NetworkKinds == {VPC, VPCSubnet, Firewall, FirewallDevice, FirewallSettings}
=================================================================================
