-------------------------------- MODULE ResourceMC --------------------------------
(* Every resource of the provider that is modelled as a schema and four handlers. *)
EXTENDS ResourceReads, AccountKinds, NetworkKinds, BalancerKinds, AddressKinds, StorageKinds,
        DatabaseKinds, ComputeKinds

\* Two attributes of a resource are alike if its schema and every step of its
\* handlers treat them alike: one of each such group is enough to be touched.
Steps(k) == UNION {{p[i] : i \in DOMAIN p} : p \in {k.create, k.read, k.update, k.destroy}}
Groups(k) ==
    {k.schema[f] : f \in DOMAIN k.schema \ {"mirrors", "nested", "needs", "exclusive", "replaceUnless",
                                         "keepUnless", "conflicts"}}
        \union {k.schema.keepUnless[a] : a \in DOMAIN k.schema.keepUnless}
        \union {k.schema.conflicts[a] : a \in DOMAIN k.schema.conflicts}
        \union {DOMAIN k.schema.conflicts}
        \union UNION {{s.attrs, s.when, s.given, s.configured, s.unless, s.unknown, s.altered} : s \in Steps(k)}
Pairs(f) == {{x, f[x]} : x \in DOMAIN f}
Alike(k, a, b) ==
    /\ \A g \in Groups(k) : a \in g <=> b \in g
    /\ \A p \in Pairs(k.schema.mirrors) \union Pairs(k.schema.nested)
                \union Pairs(k.schema.needs) \union Pairs(k.schema.exclusive)
                \union Pairs(k.schema.replaceUnless) : a \in p <=> b \in p
OneOfEach(k) == {CHOOSE a \in GivenOf(k) : Alike(k, a, b) : b \in GivenOf(k)}

AllKinds ==
    {[k EXCEPT !.touched = OneOfEach(k)] :
        k \in UNION {AccountKinds, NetworkKinds, BalancerKinds, AddressKinds, StorageKinds,
                     DatabaseKinds, ComputeKinds}}

\* linode_instance and linode_object_storage_bucket have by far the longest
\* handlers; that the update of an instance reaches the configuration is checked
\* of InstanceUpdate.tla.  The PostgreSQL databases have the handlers of the
\* MySQL ones (and one check, see CheckPrivateNetwork).
LiveKinds ==
    {k \in AllKinds : k.name \notin {"linode_instance", "linode_object_storage_bucket",
                                    "linode_database_postgresql_v2",
                                    "linode_database_postgresql"}}

KnownDivergences ==
    {<<"linode_domain", "status">>, <<"linode_domain", "axfr_ips">>,
     <<"linode_token", "label">>,
     <<"linode_vpc_subnet", "ipv4">>,
     <<"linode_instance", "private_ip">>, <<"linode_lke_node_pool", "autoscaler">>,
     <<"linode_nodebalancer", "vpcs">>, <<"linode_nodebalancer_node", "subnet_id">>,
     <<"linode_nodebalancer_config", "cipher_suite">>,
     <<"linode_account_settings", "longview_subscription">>,
     <<"linode_networking_ip", "region">>, <<"linode_networking_ip", "type">>,
     <<"linode_networking_ip_assignment", "region">>,
     <<"linode_ipv6_range", "route_target">>,
     <<"linode_placement_group", "placement_group_policy">>,
     <<"linode_reserved_ip_assignment", "address">>,
     <<"linode_image", "file_hash">>, <<"linode_image", "replica_regions">>,
     <<"linode_image", "cloud_init">>,
     <<"linode_producer_image_share_group", "description">>,
     <<"linode_producer_image_share_group_member", "token">>,
     <<"linode_object_storage_object", "acl">>, <<"linode_object_storage_object", "content">>,
     <<"linode_object_storage_object", "content_base64">>,
     <<"linode_object_storage_object", "source">>, <<"linode_object_storage_bucket", "cert">>,
     <<"linode_object_storage_bucket", "lifecycle_rule">>,
     <<"linode_database_mysql_v2", "private_network">>,
     <<"linode_database_postgresql_v2", "private_network">>}
KnownLeaks ==
    {"linode_instance_ip", "linode_reserved_ip_assignment", "linode_ipv6_range",
     "linode_networking_ip_assignment", "linode_object_storage_object", "linode_user"}
KnownStuck ==
    {"linode_producer_image_share_group", "linode_producer_image_share_group_member",
     "linode_consumer_image_share_group_token", "linode_object_storage_object"}
\* The read handlers of images and of the sharing of images preserve what is
\* known, and after an import everything is known to be null.
KnownUnread ==
    {"linode_image", "linode_producer_image_share_group"} \X {"label", "description", "tags"}
    \union {"linode_consumer_image_share_group_token"} \X {"label", "valid_for_sharegroup_uuid"}
    \union {<<"linode_user", "grants">>, <<"linode_ipv6_range", "route_target">>,
            <<"linode_object_storage_bucket", "versioning">>,
            <<"linode_object_storage_bucket", "lifecycle_rule">>}
\* Grants of a user who is not restricted; default firewalls without any; any other
\* change of a database that is to be suspended, and another kind of database.
Refusing(name, given, lacks, alters) ==
    [name |-> name, given |-> given, lacks |-> lacks, alters |-> alters]
KnownRefusals ==
    {Refusing("linode_user", {"grants"}, {"restricted"}, {}),
     Refusing("linode_firewall_settings", {}, {"default_firewall_ids"}, {})}
    \union UNION {{Refusing(k.name, {"suspended"}, {}, GivenOf(k) \ {"suspended"}),
                   Refusing(k.name, {}, {}, {"engine"})} : k \in {MySQL, Postgres}}
===================================================================================
