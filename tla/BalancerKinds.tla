------------------------------ MODULE BalancerKinds ------------------------------
(***************************************************************************)
(* NodeBalancers, their configs and their nodes.  What hangs on the object *)
(* (the firewalls and VPCs of a NodeBalancer, the VPC of a node) is looked *)
(* up by helpers that take the diagnostics by value: the error they add is *)
(* lost, and the handler goes on with an empty list.                       *)
(***************************************************************************)
EXTENDS ResourceSteps

---------------------------------------------------------------------------
\* linode_nodebalancer.
NodeBalancerSchema ==
    [EmptySchema EXCEPT
        !.optional  = {"label", "firewall_id", "vpcs"},
        !.defaulted = {"region", "client_conn_throttle", "client_udp_sess_throttle", "tags"},
        !.readOnly  = {"hostname", "ipv4", "ipv6", "created", "updated", "transfer", "firewalls"},
        !.replace   = {"region", "firewall_id", "vpcs"},
        !.keep      = {"region", "hostname", "ipv4", "ipv6", "created", "transfer", "firewalls", "vpcs"},
        !.volatile  = {"updated"}]

NodeBalancerFlattened ==
    {"label", "tags", "region", "client_conn_throttle", "client_udp_sess_throttle", "hostname",
     "ipv4", "ipv6", "created", "updated", "transfer", "firewalls"}
NodeBalancerVPCsFlattened == {"vpcs"}
NodeBalancerCopied ==
    NodeBalancerFlattened \union NodeBalancerVPCsFlattened \union {"firewall_id"}

ListFirewalls  == GetOrNothing({"firewalls"})
ListVPCConfigs == GetOrNothing({"vpcs"})
NodeBalancerSettings == {"label", "client_conn_throttle", "client_udp_sess_throttle", "tags"}

\* The VPCs are read back even where the plan gives them.
NodeBalancerCreate ==
    <<Create(NodeBalancerSettings \union {"region", "firewall_id", "vpcs"}),
      ListFirewalls, ListVPCConfigs,
      Preserve(NodeBalancerFlattened), Refresh(NodeBalancerVPCsFlattened), Save>>
NodeBalancerRead ==
    <<GetOrForget, ListFirewalls, ListVPCConfigs,
      Refresh(NodeBalancerFlattened \union NodeBalancerVPCsFlattened), Save>>
NodeBalancerUpdate ==
    IfChanged(NodeBalancerSettings,
              <<Update(NodeBalancerSettings), ListFirewalls, ListVPCConfigs,
                Preserve(NodeBalancerFlattened), Refresh(NodeBalancerVPCsFlattened)>>)
    \o <<Copy(NodeBalancerCopied), Save>>
NodeBalancerDelete == <<DeleteIfThere>>

NodeBalancer ==
    Framework("linode_nodebalancer", NodeBalancerSchema, NodeBalancerCreate, NodeBalancerRead,
              NodeBalancerUpdate, NodeBalancerDelete)

---------------------------------------------------------------------------
\* linode_nodebalancer_config.  The cipher suite is in the schema and in the
\* answer, but in neither of the requests.
NodeBalancerConfigSchema ==
    [EmptySchema EXCEPT
        !.required  = {"nodebalancer_id"},
        !.optional  = {"ssl_cert", "ssl_key"},
        !.either    = {"check_interval", "check_timeout", "check_attempts", "algorithm",
                       "stickiness", "check", "check_path", "check_body"},
        !.defaulted = {"protocol", "proxy_protocol", "port", "udp_check_port", "check_passive",
                       "cipher_suite"},
        !.readOnly  = {"udp_session_timeout", "ssl_commonname", "ssl_fingerprint", "node_status"},
        !.replace   = {"nodebalancer_id"},
        !.path      = {"nodebalancer_id"},
        !.keep      = {"check_interval", "check_timeout", "check_attempts", "algorithm", "stickiness",
                       "check_body", "udp_session_timeout", "ssl_commonname", "ssl_fingerprint"}]

NodeBalancerConfigFlattened ==
    {"nodebalancer_id", "algorithm", "stickiness", "check", "check_attempts", "check_body",
     "check_interval", "check_timeout", "check_passive", "check_path", "udp_check_port",
     "udp_session_timeout", "cipher_suite", "port", "protocol", "proxy_protocol",
     "ssl_fingerprint", "ssl_commonname", "node_status"}
NodeBalancerConfigCopied == NodeBalancerConfigFlattened \union {"ssl_cert", "ssl_key"}

NodeBalancerConfigUpdateOptions ==
    {"algorithm", "check", "stickiness", "check_attempts", "check_body", "check_interval",
     "check_path", "check_timeout", "udp_check_port", "port", "protocol", "proxy_protocol",
     "ssl_cert", "ssl_key", "check_passive"}
NodeBalancerConfigCreateOptions == NodeBalancerConfigUpdateOptions \union {"nodebalancer_id"}

NodeBalancerConfigCreate ==
    <<Create(NodeBalancerConfigCreateOptions), Preserve(NodeBalancerConfigFlattened), Save>>
NodeBalancerConfigRead   == <<GetOrForget, Refresh(NodeBalancerConfigFlattened), Save>>
NodeBalancerConfigUpdate ==
    <<Update(NodeBalancerConfigUpdateOptions), Preserve(NodeBalancerConfigFlattened),
      Copy(NodeBalancerConfigCopied), Save>>
NodeBalancerConfigDelete == <<DeleteIfThere>>

NodeBalancerConfig ==
    ImportedWith(
        Framework("linode_nodebalancer_config", NodeBalancerConfigSchema, NodeBalancerConfigCreate,
                  NodeBalancerConfigRead, NodeBalancerConfigUpdate, NodeBalancerConfigDelete),
        {"nodebalancer_id"})

---------------------------------------------------------------------------
\* linode_nodebalancer_node.  A deletion that finds nothing is an error.
NodeBalancerNodeSchema ==
    [EmptySchema EXCEPT
        !.required = {"nodebalancer_id", "config_id", "label", "address"},
        !.optional = {"subnet_id"},
        !.either   = {"weight", "mode"},
        !.readOnly = {"vpc_config_id", "status"},
        !.replace  = {"nodebalancer_id", "config_id", "subnet_id"},
        !.path     = {"nodebalancer_id", "config_id"},
        !.keep     = {"subnet_id", "vpc_config_id", "weight", "mode"}]

NodeBalancerNodeFlattened ==
    {"nodebalancer_id", "config_id", "label", "weight", "mode", "address", "status",
     "subnet_id", "vpc_config_id"}
NodeBalancerNodeCopied == NodeBalancerNodeFlattened

GetVPCConfig == GetOrNothing({"subnet_id", "vpc_config_id"})
NodeBalancerNodeCreateOptions == {"address", "label", "weight", "mode", "subnet_id"}
NodeBalancerNodeUpdateOptions == {"address", "label", "weight", "mode"}

NodeBalancerNodeCreate ==
    <<Create(NodeBalancerNodeCreateOptions \union {"nodebalancer_id", "config_id"}), SaveId,
      GetVPCConfig, Preserve(NodeBalancerNodeFlattened), Save>>
NodeBalancerNodeRead ==
    <<GetOrForget, GetVPCConfig, Refresh(NodeBalancerNodeFlattened), Save>>
NodeBalancerNodeUpdate ==
    <<UpdateChanged(NodeBalancerNodeUpdateOptions), GetVPCConfig,
      Preserve(NodeBalancerNodeFlattened), Copy(NodeBalancerNodeCopied), Save>>
NodeBalancerNodeDelete == <<Delete>>

NodeBalancerNode ==
    ImportedWith(
        Framework("linode_nodebalancer_node", NodeBalancerNodeSchema, NodeBalancerNodeCreate,
                  NodeBalancerNodeRead, NodeBalancerNodeUpdate, NodeBalancerNodeDelete),
        {"nodebalancer_id", "config_id"})

BalancerKinds == {NodeBalancer, NodeBalancerConfig, NodeBalancerNode}
=================================================================================
