----------------------------- MODULE DatabaseKinds -----------------------------
(***************************************************************************)
(* Managed databases: the two current resources, the two deprecated ones,  *)
(* and the allow list of a database that is managed on its own.            *)
(***************************************************************************)
EXTENDS ResourceSteps

---------------------------------------------------------------------------
\* linode_database_mysql_v2 and linode_database_postgresql_v2 have the same
\* shape.  engine_config stands for their engine_config_* attributes, which are
\* all declared and handled alike, stopword_table for the one of MySQL that
\* can be set to null; engine for the first part of engine_id, which says what
\* kind of database it is, and engine_id for the version in it.
DatabaseSchema ==
    [EmptySchema EXCEPT
        !.required     = {"engine", "engine_id", "label", "region", "type"},
        !.optional     = {"fork_source", "private_network"},
        !.either       = {"allow_list", "fork_restore_time", "updates", "engine_config"},
        !.defaulted    = {"cluster_size", "suspended"},
        !.readOnly     = {"ca_cert", "root_credentials", "created", "host", "members", "version",
                          "status", "updated", "pending_updates"},
        !.flag         = {"suspended"},
        !.replace      = {"region", "fork_source"},
        !.replaceSet   = {"fork_restore_time"},
        !.nested       = "fork_restore_time" :> "fork_source",
        !.mirrors      = "version" :> "engine_id" @@ "host" :> "type",
        !.keep         = {"allow_list", "ca_cert", "fork_restore_time", "updates", "engine_config",
                          "created", "root_credentials"},
        !.keepUnless   = "host" :> {"private_network", "type"},
        !.path         = {"engine"},
        !.frozen       = {"suspended"},
        !.volatile     = {"updated"}]

DatabaseFlattened ==
    {"cluster_size", "created", "engine", "engine_id", "host", "label", "region", "status", "suspended",
     "type", "updated", "version", "allow_list", "members", "fork_source", "fork_restore_time",
     "updates", "pending_updates"}
Secrets        == {"ca_cert", "root_credentials"}
DatabaseCopied == DatabaseFlattened \union Secrets \union {"private_network"}

\* The engine configuration: what the schema has, what an update compares, what
\* a request carries, what is flattened, what is copied from the state.
MySQLConfig          == {"engine_config", "stopword_table"}
MySQLConfigCompared  == MySQLConfig
MySQLConfigSent      == MySQLConfig
MySQLConfigFlattened == MySQLConfig
MySQLConfigCopied    == MySQLConfig

\* The certificate and the credentials of a suspended database are not to be
\* had: what is known of them stays, and what is not known becomes null.
RefreshDatabase(flattened) ==
    <<Get, Refresh({"suspended"})>> \o Unless({"suspended"}, <<Wait, Wait, Refresh(Secrets)>>)
    \o IfGiven({"suspended"}, <<Without(Secrets)>>)
    \o <<Refresh(DatabaseFlattened \union flattened), RefreshSet({"private_network"})>>

\* ReconcileSuspensionSync: the state says what is, the plan what shall be.  It
\* comes before the rest of an update, which the API refuses of a suspended database.
ReconcileSuspension == IfChanged({"suspended"}, <<Update({"suspended"}), Wait>>)

DatabaseCreate(sent, flattened) ==
    <<Wait, Create({"label", "region", "type", "engine", "engine_id", "cluster_size",
                    "fork_source", "fork_restore_time", "allow_list", "private_network"}
                       \union sent),
      SaveId, Wait, Wait>>
    \o IfGiven({"updates"}, <<Update({"updates"}), Wait>>)
    \o ReconcileSuspension
    \o <<Get>> \o Unless({"suspended"}, <<Wait, Wait, Preserve(Secrets)>>)
    \o <<Without(Secrets), Preserve(DatabaseFlattened \union flattened \union {"private_network"}),
         Save>>

DatabaseRead(flattened) == <<GetOrForget>> \o RefreshDatabase(flattened) \o <<Save>>

DatabaseSent ==
    {"label", "allow_list", "type", "private_network", "updates", "engine_id", "cluster_size"}
DatabaseResized == {"type", "cluster_size"}
SendDatabase(compared, sent) ==
    IfChanged(DatabaseSent \union compared, <<Wait, SendChanged(DatabaseSent \union sent)>>)
    \o IfChanged((DatabaseSent \union compared) \ DatabaseResized, <<Wait>>)
    \o IfChanged(DatabaseResized, <<Wait>>)
\* Another kind of database is refused, though the plan shows an update.
CheckEngine == IfChanged({"engine"}, <<Reject>>)
DatabaseUpdate(check, compared, sent, flattened, copied) ==
    ReconcileSuspension \o check \o CheckEngine \o SendDatabase(compared, sent)
    \o RefreshDatabase(flattened) \o <<Copy(DatabaseCopied \union copied), Save>>
DatabaseDelete == <<DeleteIfThere>>

MySQLSchema == [DatabaseSchema EXCEPT !.optional = @ \union {"stopword_table"}]
MySQLCreate == DatabaseCreate(MySQLConfigSent, MySQLConfigFlattened)
MySQLRead   == DatabaseRead(MySQLConfigFlattened)
MySQLUpdate ==
    DatabaseUpdate(<<>>, MySQLConfigCompared, MySQLConfigSent, MySQLConfigFlattened,
                   MySQLConfigCopied)

MySQL ==
    Framework("linode_database_mysql_v2", MySQLSchema, MySQLCreate, MySQLRead, MySQLUpdate,
              DatabaseDelete)

---------------------------------------------------------------------------
\* linode_database_postgresql_v2: a package of its own that says the same, but
\* for the private network.  That can be given or changed, never taken back: the
\* handler works on the planned one without asking whether there is one.
PostgresSchema          == DatabaseSchema
PostgresFlattened       == DatabaseFlattened \union Secrets \union {"private_network"}
PostgresCopied          == DatabaseCopied
PostgresConfig          == {"engine_config"}
PostgresConfigCompared  == PostgresConfig
PostgresConfigSent      == PostgresConfig
PostgresConfigFlattened == PostgresConfig
PostgresConfigCopied    == PostgresConfig

PostgresCreate == DatabaseCreate(PostgresConfigSent, PostgresConfigFlattened)
PostgresRead   == DatabaseRead(PostgresConfigFlattened)
CheckPrivateNetwork == IfChanged({"private_network"}, <<Require({"private_network"})>>)
PostgresUpdate ==
    DatabaseUpdate(CheckPrivateNetwork, PostgresConfigCompared, PostgresConfigSent,
                   PostgresConfigFlattened, PostgresConfigCopied)
PostgresDelete == DatabaseDelete

Postgres ==
    Framework("linode_database_postgresql_v2", PostgresSchema, PostgresCreate, PostgresRead,
              PostgresUpdate, PostgresDelete)

---------------------------------------------------------------------------
\* linode_database_mysql and linode_database_postgresql (SDKv2, deprecated).
LegacyMySQLSchema ==
    [EmptySchema EXCEPT
        !.required  = {"engine_id", "label", "region", "type"},
        !.either    = {"allow_list", "updates"},
        !.defaulted = {"cluster_size", "encrypted", "replication_type", "ssl_connection"},
        !.readOnly  = {"ca_cert", "created", "host_primary", "root_password", "status", "version"},
        !.mirrors   = "version" :> "engine_id",
        !.replace   = {"engine_id", "region", "type", "cluster_size", "encrypted",
                       "replication_type", "ssl_connection"}]

LegacyMySQLRead ==
    <<GetOrForget, Wait, Wait,
      Refresh({"engine_id", "label", "region", "type", "allow_list", "updates", "cluster_size",
               "encrypted", "replication_type", "ssl_connection", "ca_cert", "created",
               "host_primary", "root_password", "status", "version"})>>
LegacyMySQLCreate ==
    <<Wait, Create({"label", "region", "type", "engine_id", "encrypted", "cluster_size",
                    "replication_type", "ssl_connection", "allow_list"}),
      SaveId, Wait, Wait>>
    \o IfGiven({"updates"}, <<Update({"updates"}), Wait, Wait>>) \o LegacyMySQLRead
LegacyMySQLUpdate ==
    IfChanged({"label", "allow_list", "updates"},
              <<UpdateChanged({"label", "allow_list", "updates"}), Wait, Wait>>)
    \o LegacyMySQLRead
\* A deletion that the API cannot carry out yet is asked for again.
LegacyMySQLDelete == <<Delete>>

LegacyMySQL ==
    SDKv2("linode_database_mysql", LegacyMySQLSchema, LegacyMySQLCreate, LegacyMySQLRead,
          LegacyMySQLUpdate, LegacyMySQLDelete)

LegacyPostgresSchema ==
    [LegacyMySQLSchema EXCEPT !.defaulted = @ \union {"replication_commit_type"},
                              !.replace   = @ \union {"replication_commit_type"}]
LegacyPostgresRead   == LegacyMySQLRead \o <<Refresh({"replication_commit_type"})>>
LegacyPostgresCreate ==
    <<Wait, Create({"label", "region", "type", "engine_id", "encrypted", "cluster_size",
                    "replication_type", "replication_commit_type", "ssl_connection",
                    "allow_list"}),
      SaveId, Wait, Wait>>
    \o IfGiven({"updates"}, <<Update({"updates"}), Wait, Wait>>) \o LegacyPostgresRead
LegacyPostgresUpdate ==
    IfChanged({"label", "allow_list", "updates"},
              <<UpdateChanged({"label", "allow_list", "updates"}), Wait, Wait>>)
    \o LegacyPostgresRead
LegacyPostgresDelete == <<Delete>>

LegacyPostgres ==
    SDKv2("linode_database_postgresql", LegacyPostgresSchema, LegacyPostgresCreate,
          LegacyPostgresRead, LegacyPostgresUpdate, LegacyPostgresDelete)

---------------------------------------------------------------------------
\* linode_database_access_controls: the allow list of a database that is there
\* before and after; to delete it is to empty the list.
AccessControlsSchema ==
    [EmptySchema EXCEPT
        !.required = {"database_id", "database_type", "allow_list"},
        !.replace  = {"database_id", "database_type"},
        !.local    = {"database_id", "database_type"}]

AccessControlsRead == <<GetOrForget, Refresh({"allow_list"})>>
UpdateAllowList(call) == <<Get, Wait, call, Wait>>
AccessControlsUpdate ==
    IfChanged({"allow_list"}, UpdateAllowList(Update({"allow_list"}))) \o AccessControlsRead
AccessControlsCreate == <<SaveId>> \o AccessControlsUpdate
AccessControlsDelete == UpdateAllowList(Clear({"allow_list"}))

AccessControls ==
    ImportedWith(
        [SDKv2("linode_database_access_controls", AccessControlsSchema, AccessControlsCreate,
               AccessControlsRead, AccessControlsUpdate, AccessControlsDelete)
         EXCEPT !.adopted = TRUE],
        {"database_id", "database_type"})

DatabaseKinds == {MySQL, Postgres, LegacyMySQL, LegacyPostgres, AccessControls}
================================================================================
