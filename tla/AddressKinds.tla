------------------------------ MODULE AddressKinds ------------------------------
(***************************************************************************)
(* Addresses, their assignment to Linodes and their names, IPv6 ranges,    *)
(* and placement groups with the assignment of Linodes to them.            *)
(***************************************************************************)
EXTENDS ResourceSteps

---------------------------------------------------------------------------
\* linode_instance_ip.  The address is added, then it gets its name; it is
\* recorded after both.  The reboot that applies it comes last.
InstanceIPSchema ==
    [EmptySchema EXCEPT
        !.required  = {"linode_id"},
        !.either    = {"rdns"},
        !.defaulted = {"public", "apply_immediately"},
        !.readOnly  = {"address", "gateway", "prefix", "region", "subnet_mask", "type", "vpc_nat_1_1"},
        !.local     = {"apply_immediately"},
        !.replace   = {"linode_id", "public"},
        !.path      = {"linode_id"},
        !.keep      = {"address", "prefix", "rdns", "region", "subnet_mask", "type", "vpc_nat_1_1"}]

InstanceIPFlattened ==
    {"linode_id", "public", "address", "gateway", "prefix", "rdns", "region", "subnet_mask",
     "type", "vpc_nat_1_1"}
InstanceIPCopied == InstanceIPFlattened

InstanceIPCreate ==
    <<Create({"linode_id", "public"})>> \o IfGiven({"rdns"}, <<Update({"rdns"})>>)
    \o <<Preserve(InstanceIPFlattened), Save>>
    \o IfGiven({"apply_immediately"}, <<Wait, Wait>>)
InstanceIPRead   == <<GetOrForget, Refresh(InstanceIPFlattened), Save>>
InstanceIPUpdate ==
    IfChanged({"rdns"}, <<Update({"rdns"}), Preserve(InstanceIPFlattened)>>)
    \o <<Copy(InstanceIPCopied), Save>>
InstanceIPDelete == <<DeleteIfThere>>

InstanceIP ==
    NotImportable(
        Framework("linode_instance_ip", InstanceIPSchema, InstanceIPCreate, InstanceIPRead,
                  InstanceIPUpdate, InstanceIPDelete))

---------------------------------------------------------------------------
\* linode_reserved_ip_assignment: the same over an address that is reserved.
\* An update with another address does not assign it.
ReservedIPAssignmentSchema ==
    [EmptySchema EXCEPT
        !.required  = {"linode_id", "address"},
        !.either    = {"rdns"},
        !.defaulted = {"public", "apply_immediately"},
        !.readOnly  = {"gateway", "prefix", "region", "subnet_mask", "type", "vpc_nat_1_1", "reserved"},
        !.local     = {"apply_immediately"},
        !.replace   = {"linode_id", "public"},
        !.path      = {"address"},
        !.keep      = {"address", "prefix", "rdns", "region", "subnet_mask", "type", "vpc_nat_1_1"}]

ReservedIPAssignmentFlattened == InstanceIPFlattened \union {"reserved"}
ReservedIPAssignmentCopied    == ReservedIPAssignmentFlattened

ReservedIPAssignmentCreate ==
    <<Create({"linode_id", "public", "address"})>> \o IfGiven({"rdns"}, <<Update({"rdns"})>>)
    \o <<Preserve(ReservedIPAssignmentFlattened), Save>>
    \o IfGiven({"apply_immediately"}, <<Wait, Wait>>)
ReservedIPAssignmentRead == <<GetOrForget, Refresh(ReservedIPAssignmentFlattened), Save>>
ReservedIPAssignmentUpdate ==
    IfChanged({"rdns"}, <<Update({"rdns"}), Preserve(ReservedIPAssignmentFlattened)>>)
    \o <<Copy(ReservedIPAssignmentCopied), Save>>
ReservedIPAssignmentDelete == <<DeleteIfThere>>

ReservedIPAssignment ==
    Framework("linode_reserved_ip_assignment", ReservedIPAssignmentSchema,
              ReservedIPAssignmentCreate, ReservedIPAssignmentRead, ReservedIPAssignmentUpdate,
              ReservedIPAssignmentDelete)

---------------------------------------------------------------------------
\* linode_instance_shared_ips: the addresses that a Linode shares, a setting of
\* the Linode.  The read handler preserves what is known, which is everything.
SharedIPsSchema ==
    [EmptySchema EXCEPT
        !.required = {"linode_id", "addresses"},
        !.replace  = {"linode_id"},
        !.path     = {"linode_id"}]

SharedIPsFlattened == {"linode_id", "addresses"}
SharedIPsCopied    == SharedIPsFlattened

SharedIPsCreateOrUpdate == <<Update({"linode_id", "addresses"}), Preserve(SharedIPsFlattened)>>
SharedIPsCreate == SharedIPsCreateOrUpdate \o <<Save>>
SharedIPsRead   == <<Get, Preserve(SharedIPsFlattened), Save>>
SharedIPsUpdate ==
    IfChanged({"addresses"}, SharedIPsCreateOrUpdate) \o <<Copy(SharedIPsCopied), Save>>
SharedIPsDelete == <<Clear({"addresses"})>>

SharedIPs ==
    NotImportable(
        [Framework("linode_instance_shared_ips", SharedIPsSchema, SharedIPsCreate, SharedIPsRead,
                   SharedIPsUpdate, SharedIPsDelete) EXCEPT !.adopted = TRUE])

---------------------------------------------------------------------------
\* linode_networking_ip.  An ephemeral address is replaced to be reassigned, a
\* reserved one is taken from its Linode and given to another.
NetworkingIPSchema ==
    [EmptySchema EXCEPT
        !.either        = {"linode_id", "reserved", "region", "public"},
        !.defaulted     = {"type"},
        !.readOnly      = {"rdns", "address", "gateway", "prefix", "subnet_mask", "vpc_nat_1_1"},
        !.replaceUnless = "linode_id" :> "reserved",
        !.keep          = {"linode_id", "rdns", "reserved", "region", "public", "type", "address",
                           "gateway", "prefix", "subnet_mask", "vpc_nat_1_1"}]

NetworkingIPFlattened ==
    {"linode_id", "rdns", "reserved", "region", "public", "type", "address", "gateway",
     "subnet_mask", "prefix", "vpc_nat_1_1"}
NetworkingIPCopied == NetworkingIPFlattened

NetworkingIPReconcile ==
    IfChanged({"linode_id"},
              <<Clear({"linode_id"})>> \o IfGiven({"linode_id"}, <<Update({"linode_id"})>>))

NetworkingIPCreate ==
    <<Create({"type", "public", "linode_id", "reserved", "region"}),
      Refresh(NetworkingIPFlattened), Save>>
NetworkingIPRead   == <<GetOrForget, Refresh(NetworkingIPFlattened), Save>>
NetworkingIPUpdate ==
    IfChanged({"reserved"}, <<Update({"reserved"})>>) \o NetworkingIPReconcile
    \o <<Copy(NetworkingIPCopied), Save>>
NetworkingIPDelete ==
    IfGiven({"reserved"}, <<Delete>>) \o Unless({"reserved"}, <<DeleteIfThere>>)

NetworkingIP ==
    Framework("linode_networking_ip", NetworkingIPSchema, NetworkingIPCreate, NetworkingIPRead,
              NetworkingIPUpdate, NetworkingIPDelete)

---------------------------------------------------------------------------
\* linode_networking_ip_assignment: a list of assignments of a region.  An
\* address that is gone leaves the list; the update handler is empty; the
\* delete handler reports a failure and drops the resource all the same. Without
\* assignments there is nothing to have, so the model takes them as required.
NetworkingIPAssignmentSchema ==
    [EmptySchema EXCEPT
        !.required = {"region", "assignments"},
        !.replace  = {"assignments"},
        !.path     = {"region"},
        !.keep     = {"assignments"}]

NetworkingIPAssignmentCreate == <<Create({"region", "assignments"}), Save>>
NetworkingIPAssignmentRead ==
    <<GetOrEmpty({"assignments"}), Refresh({"assignments"}), Save>>
NetworkingIPAssignmentUpdate == <<>>
NetworkingIPAssignmentDelete == IfGiven({"assignments"}, <<DeleteAndGoOn>>) \o <<Forget>>

NetworkingIPAssignment ==
    NotImportable(
        Framework("linode_networking_ip_assignment", NetworkingIPAssignmentSchema,
                  NetworkingIPAssignmentCreate, NetworkingIPAssignmentRead,
                  NetworkingIPAssignmentUpdate, NetworkingIPAssignmentDelete))

---------------------------------------------------------------------------
\* linode_ipv6_range.  The answer to the creation is not enough, so the range is
\* read before it is recorded; a create with neither a Linode nor a target is
\* refused.  Nothing keeps the target while the Linode changes.
IPv6RangeSchema ==
    [EmptySchema EXCEPT
        !.required  = {"prefix_length"},
        !.optional  = {"linode_id"},
        !.either    = {"route_target"},
        !.readOnly  = {"is_bgp", "linodes", "range", "region"},
        !.replace   = {"prefix_length", "route_target"},
        !.exclusive = "route_target" :> "linode_id",
        !.keep      = {"range", "region"}]

IPv6RangeFlattened == {"is_bgp", "linodes", "range", "region", "prefix_length"}
IPv6RangeCopied    == IPv6RangeFlattened \union {"route_target"}

IPv6RangeCreate ==
    <<Create({"prefix_length", "linode_id", "route_target"}), Get>>
    \o IfGiven({"linode_id"}, <<Refresh({"route_target"})>>)
    \o <<Preserve(IPv6RangeFlattened), Save>>
IPv6RangeRead   == <<GetOrForget, Refresh(IPv6RangeFlattened), Save>>
IPv6RangeUpdate ==
    <<Get>> \o IfChanged({"linode_id"}, <<Update({"linode_id"}), Preserve(IPv6RangeFlattened)>>)
    \o <<Copy(IPv6RangeCopied), Save>>
IPv6RangeDelete == <<DeleteIfThere>>

IPv6Range ==
    Framework("linode_ipv6_range", IPv6RangeSchema, IPv6RangeCreate, IPv6RangeRead,
              IPv6RangeUpdate, IPv6RangeDelete)

---------------------------------------------------------------------------
\* linode_rdns: the name of an address, which is given back when the resource
\* is destroyed.  The call that sets it is repeated while it is refused for
\* the name not resolving.
RDNSSchema ==
    [EmptySchema EXCEPT
        !.required  = {"address", "rdns"},
        !.defaulted = {"wait_for_available"},
        !.local     = {"wait_for_available"},
        !.replace   = {"address"},
        !.path      = {"address"}]

RDNSFlattened == {"address", "rdns"}
RDNSCopied    == RDNSFlattened
RDNSUpdateIPAddress == <<Update({"rdns"})>>

RDNSCreate == <<Wait, Create({"address", "rdns"}), Preserve(RDNSFlattened), Save>>
RDNSRead   == <<GetOrForget, Refresh(RDNSFlattened), Save>>
RDNSUpdate ==
    IfChanged({"rdns"}, RDNSUpdateIPAddress \o <<Preserve(RDNSFlattened)>>)
    \o <<Copy(RDNSCopied), Save>>
RDNSDelete == <<DeleteIfThere>>

RDNS == Framework("linode_rdns", RDNSSchema, RDNSCreate, RDNSRead, RDNSUpdate, RDNSDelete)

---------------------------------------------------------------------------
\* linode_placement_group.  The policy has no plan modifier, and the update
\* carries the label alone.  The members are those of the state after an update.
PlacementGroupSchema ==
    [EmptySchema EXCEPT
        !.required  = {"label", "region", "placement_group_type"},
        !.defaulted = {"placement_group_policy"},
        !.readOnly  = {"is_compliant", "members"},
        !.replace   = {"region", "placement_group_type"}]

PlacementGroupFlattened ==
    {"label", "region", "placement_group_type", "placement_group_policy", "is_compliant"}
PlacementGroupCopied == PlacementGroupFlattened \union {"members"}

PlacementGroupCreate ==
    <<Create({"label", "region", "placement_group_type", "placement_group_policy"}),
      Preserve(PlacementGroupFlattened), Refresh({"members"}), Save>>
PlacementGroupRead ==
    <<GetOrForget, Refresh(PlacementGroupFlattened \union {"members"}), Save>>
PlacementGroupUpdate ==
    IfChanged({"label"}, <<Update({"label"}), Refresh(PlacementGroupFlattened)>>)
    \o <<Copy(PlacementGroupCopied), Save>>
PlacementGroupDelete == <<DeleteIfThere>>

PlacementGroup ==
    Framework("linode_placement_group", PlacementGroupSchema, PlacementGroupCreate,
              PlacementGroupRead, PlacementGroupUpdate, PlacementGroupDelete)

---------------------------------------------------------------------------
\* linode_placement_group_assignment: a Linode in a group.  A group that is gone
\* and a Linode that is not in it are the same to the read.
PGAssignmentSchema ==
    [EmptySchema EXCEPT
        !.required = {"placement_group_id", "linode_id"},
        !.optional = {"compliant_only"},
        !.local    = {"compliant_only"},
        !.replace  = {"placement_group_id", "linode_id"},
        !.path     = {"placement_group_id", "linode_id"}]

PGAssignmentFlattened == {"placement_group_id", "linode_id"}
PGAssignmentCopied    == PGAssignmentFlattened

PGAssignmentCreate ==
    <<Create({"placement_group_id", "linode_id"}), Preserve(PGAssignmentFlattened), Save>>
PGAssignmentRead   == <<GetOrForget, Refresh(PGAssignmentFlattened), Save>>
PGAssignmentUpdate == <<Copy(PGAssignmentCopied), Save>>
PGAssignmentDelete == <<DeleteIfThere>>

PGAssignment ==
    ImportedWith(
        Framework("linode_placement_group_assignment", PGAssignmentSchema, PGAssignmentCreate,
                  PGAssignmentRead, PGAssignmentUpdate, PGAssignmentDelete),
        {"placement_group_id", "linode_id"})

AddressKinds ==
    {InstanceIP, ReservedIPAssignment, SharedIPs, NetworkingIP, NetworkingIPAssignment, IPv6Range,
     RDNS, PlacementGroup, PGAssignment}
=================================================================================
