------------------------------ MODULE AccountKinds ------------------------------
(***************************************************************************)
(* The resources of an account: users, tokens, SSH keys, StackScripts,     *)
(* account settings, locks, domains and their records.  Each is a schema,  *)
(* the attributes its model reads from the API, and its four handlers.     *)
(***************************************************************************)
EXTENDS ResourceSteps

---------------------------------------------------------------------------
\* linode_user.  Its ID is the user name, which may change: an update asks for the
\* user of the recorded ID and records the new one when it has the answer.  The
\* grants are a second call, made when they are configured or changed, and refused
\* where the user is not restricted; the read shows them only of a restricted user.
\* The answer to a delete of a missing user is an error.
UserSchema ==
    [EmptySchema EXCEPT
        !.required  = {"email", "username"},
        !.defaulted = {"restricted"},
        !.either    = {"grants"},
        !.readOnly  = {"id", "user_type", "ssh_keys", "tfa_enabled"},
        !.replace   = {"email"},
        !.flag      = {"restricted"},
        !.mirrors   = "id" :> "username",
        !.key       = {"id"}]

\* The name that is written back is the ID, under which the user was found.
UserRead ==
    <<GetOrForget, Refresh({"restricted"})>>
    \o IfGiven({"restricted"}, <<GetSome({"grants"}), Refresh({"grants"})>>)
    \o <<Refresh({"username", "email", "user_type", "ssh_keys", "tfa_enabled"})>>

UserGrants ==
    IfChanged({"grants"}, Unless({"restricted"}, <<Reject>>) \o <<Update({"grants"})>>)
UserSaveId == <<Refresh({"id"}), SaveId>>

UserCreate ==
    <<Create({"email", "username", "restricted"})>> \o UserSaveId \o UserGrants \o UserRead
UserUpdate == <<Update({"username", "restricted"})>> \o UserSaveId \o UserGrants \o UserRead
UserDelete == <<Delete>>

User ==
    ImportedWith(
        SDKv2("linode_user", UserSchema, UserCreate, UserRead, UserUpdate, UserDelete), {"id"})

---------------------------------------------------------------------------
\* linode_token.  The secret is only in the answer to the creation; an update
\* is a read, then a call with the label.

\* Without UseStateForUnknown, the expiry is unknown in every plan.
TokenSchemaMutant ==
    [EmptySchema EXCEPT
        !.required     = {"scopes"},
        !.optional     = {"label"},
        !.blank        = {"label"},
        !.either       = {"expiry"},
        !.readOnly     = {"created", "token"},
        !.replace      = {"scopes", "expiry"},
        !.keep         = {"created", "token"}]

TokenSchema ==
    [EmptySchema EXCEPT
        !.required     = {"scopes"},
        !.optional     = {"label"},
        !.blank        = {"label"},
        !.either       = {"expiry"},
        !.readOnly     = {"created", "token"},
        !.replace      = {"scopes", "expiry"},
        !.keep         = {"expiry", "created", "token"}]

TokenFlattened == {"label", "scopes", "expiry", "created"}
TokenCopied    == {"label", "scopes", "expiry", "created", "token"}

TokenCreate ==
    <<Create({"label", "scopes", "expiry"}), Preserve(TokenFlattened \union {"token"}), Save>>
TokenRead   == <<GetOrForget, Refresh(TokenFlattened), Save>>
TokenUpdate ==
    IfChanged({"label"}, <<Get, Update({"label"}), Preserve(TokenFlattened)>>)
    \o <<Copy(TokenCopied), Save>>
TokenDelete == <<DeleteIfThere>>

Token == Framework("linode_token", TokenSchema, TokenCreate, TokenRead, TokenUpdate, TokenDelete)

---------------------------------------------------------------------------
\* linode_sshkey.
SSHKeySchema ==
    [EmptySchema EXCEPT
        !.required = {"label", "ssh_key"},
        !.readOnly = {"created"},
        !.replace  = {"ssh_key"},
        !.keep     = {"created"}]

\* The time of creation is forgotten.
SSHKeyFlattenedMutant == {"label", "ssh_key"}

SSHKeyFlattened == {"label", "ssh_key", "created"}
SSHKeyCopied    == {"label", "ssh_key", "created"}

SSHKeyCreate == <<Create({"label", "ssh_key"}), Preserve(SSHKeyFlattened), Save>>

\* The refresh of a key that is gone is an error.
SSHKeyReadMutant == <<Get, Refresh(SSHKeyFlattened), Save>>

SSHKeyRead   == <<GetOrForget, Refresh(SSHKeyFlattened), Save>>
SSHKeyUpdate ==
    IfChanged({"label"}, <<Update({"label"}), Preserve(SSHKeyFlattened)>>)
    \o <<Copy(SSHKeyCopied), Save>>
SSHKeyDelete == <<DeleteIfThere>>

SSHKey == Framework("linode_sshkey", SSHKeySchema, SSHKeyCreate, SSHKeyRead, SSHKeyUpdate, SSHKeyDelete)

---------------------------------------------------------------------------
\* linode_stackscript.  A failed update call is noted, and the planned values
\* are recorded all the same.
StackScriptSchema ==
    [EmptySchema EXCEPT
        !.required     = {"label", "script", "description", "images"},
        !.defaulted    = {"rev_note", "is_public"},
        !.readOnly     = {"deployments_active", "deployments_total", "user_gravatar_id",
                          "username", "created", "updated", "user_defined_fields"},
        !.replaceUnset = {"is_public"},
        !.keep         = {"user_gravatar_id", "username", "created"},
        !.volatile     = {"updated"}]

StackScriptSettings == {"label", "script", "description", "rev_note", "is_public", "images"}
StackScriptFlattened ==
    StackScriptSettings \union
        {"deployments_active", "deployments_total", "user_gravatar_id", "username",
         "created", "updated", "user_defined_fields"}
StackScriptCopied == StackScriptFlattened

StackScriptCreate == <<Create(StackScriptSettings), Preserve(StackScriptFlattened), Save>>
StackScriptRead   == <<GetOrForget, Refresh(StackScriptFlattened), Save>>
StackScriptUpdateCall == <<UpdateAndGoOn(StackScriptSettings), Preserve(StackScriptFlattened)>>
StackScriptUpdate ==
    IfChanged(StackScriptSettings, StackScriptUpdateCall) \o <<Copy(StackScriptCopied), Save>>
StackScriptDelete == <<DeleteIfThere>>

StackScript ==
    Framework("linode_stackscript", StackScriptSchema, StackScriptCreate, StackScriptRead,
              StackScriptUpdate, StackScriptDelete)

---------------------------------------------------------------------------
\* linode_account_settings: the settings of the account, which exist before
\* the resource and stay when it is destroyed.  Create and Update are one
\* function; the Longview plan is a call of its own, made whenever the plan is
\* not null, so that a plan the API was to choose is sent as an empty one.
AccountSettingsSchema ==
    [EmptySchema EXCEPT
        !.either   = {"backups_enabled", "network_helper", "longview_subscription",
                      "interfaces_for_new_linodes", "maintenance_policy"},
        !.readOnly = {"managed", "object_storage"},
        !.keep     = {"backups_enabled", "network_helper", "longview_subscription",
                      "interfaces_for_new_linodes", "maintenance_policy", "managed",
                      "object_storage"}]

AccountSettingsFlattened ==
    {"longview_subscription", "object_storage", "interfaces_for_new_linodes", "managed",
     "backups_enabled", "network_helper", "maintenance_policy"}
AccountSettingsCopied == AccountSettingsFlattened

\* Settings that are not configured are sent as empty ones.
AccountSettingsCreateOrUpdateMutant ==
    <<Get, Blank({"longview_subscription"}),
      Blank({"backups_enabled", "network_helper", "interfaces_for_new_linodes",
             "maintenance_policy"}),
      Preserve(AccountSettingsFlattened)>>

AccountSettingsCreateOrUpdate ==
    <<Get, Blank({"longview_subscription"}),
      Update({"backups_enabled", "network_helper", "interfaces_for_new_linodes",
              "maintenance_policy"}),
      Preserve(AccountSettingsFlattened)>>

AccountSettingsCreate == AccountSettingsCreateOrUpdate \o <<Save>>
AccountSettingsRead   == <<Get, Get, Refresh(AccountSettingsFlattened), Save>>
AccountSettingsUpdate ==
    AccountSettingsCreateOrUpdate \o <<Copy(AccountSettingsCopied), Save>>
AccountSettingsDelete == <<>>

AccountSettings ==
    [Framework("linode_account_settings", AccountSettingsSchema, AccountSettingsCreate,
               AccountSettingsRead, AccountSettingsUpdate, AccountSettingsDelete)
        EXCEPT !.adopted = TRUE]

---------------------------------------------------------------------------
\* linode_lock: every attribute replaces the lock, so an update copies the state.
LockSchema ==
    [EmptySchema EXCEPT
        !.required = {"entity_id", "entity_type", "lock_type"},
        !.readOnly = {"entity_label", "entity_url"},
        !.replace  = {"entity_id", "entity_type", "lock_type"},
        !.keep     = {"entity_label", "entity_url"}]

LockFlattened == {"lock_type", "entity_id", "entity_type", "entity_label", "entity_url"}
LockCopied    == LockFlattened

LockCreateOptions == {"entity_id", "entity_type", "lock_type"}
LockCreate == <<Create(LockCreateOptions), Preserve(LockFlattened), Save>>
LockRead   == <<GetOrForget, Refresh(LockFlattened), Save>>
LockUpdate == <<Copy(LockCopied), Save>>
LockDelete == <<DeleteIfThere>>

Lock == Framework("linode_lock", LockSchema, LockCreate, LockRead, LockUpdate, LockDelete)

---------------------------------------------------------------------------
\* linode_domain.  The creation does not carry the status; the read leaves the
\* transfer addresses alone when the API has none.
DomainSchema ==
    [EmptySchema EXCEPT
        !.required = {"domain", "type"},
        !.optional = {"group", "description", "master_ips", "axfr_ips", "ttl_sec", "retry_sec",
                      "expire_sec", "refresh_sec", "soa_email"},
        !.either   = {"status"},
        !.defaulted = {"tags"},
        !.replace  = {"type"}]

DomainRead ==
    <<GetOrForget,
      Refresh({"domain", "type", "group", "status", "description", "master_ips"}),
      RefreshSet({"axfr_ips"}),
      Refresh({"ttl_sec", "retry_sec", "expire_sec", "refresh_sec", "soa_email", "tags"})>>

DomainCreate ==
    <<Create({"domain", "type", "group", "description", "soa_email", "retry_sec", "expire_sec",
              "refresh_sec", "ttl_sec", "tags", "master_ips", "axfr_ips"}), SaveId>>
    \o DomainRead

DomainUpdate ==
    <<SendAltered({"domain", "status", "group", "description", "soa_email", "retry_sec",
                   "expire_sec", "refresh_sec", "ttl_sec"}, {"tags", "master_ips", "axfr_ips"})>>
    \o DomainRead

DomainDelete == <<Delete>>

Domain == SDKv2("linode_domain", DomainSchema, DomainCreate, DomainRead, DomainUpdate, DomainDelete)

---------------------------------------------------------------------------
\* linode_domain_record.  A configured name is reconciled with the name of the
\* parent domain, which is another call.
DomainRecordSchema ==
    [EmptySchema EXCEPT
        !.required = {"domain_id", "record_type", "target"},
        !.optional = {"ttl_sec", "priority", "protocol", "service", "tag", "port", "weight"},
        !.either   = {"name"},
        !.replace  = {"domain_id", "record_type"},
        !.path     = {"domain_id"}]

\* One setting is forgotten everywhere.
DomainRecordSettingsMutant ==
    {"record_type", "name", "target", "priority", "port", "service", "protocol",
     "ttl_sec", "tag"}

DomainRecordSettings ==
    {"record_type", "name", "target", "priority", "weight", "port", "service", "protocol",
     "ttl_sec", "tag"}

DomainRecordReconcileName == IfGiven({"name"}, <<Wait>>)
DomainRecordRead   ==
    <<GetOrForget>> \o DomainRecordReconcileName \o <<Refresh(DomainRecordSettings)>>
DomainRecordCreate == <<Create(DomainRecordSettings \union {"domain_id"}), SaveId>> \o DomainRecordRead

\* One setting is not in the options of the update.
DomainRecordUpdateMutant == <<Update(DomainRecordSettings \ {"weight"})>> \o DomainRecordRead

DomainRecordUpdate == <<Update(DomainRecordSettings)>> \o DomainRecordRead
DomainRecordDelete == <<Delete>>

DomainRecord ==
    ImportedWith(
        SDKv2("linode_domain_record", DomainRecordSchema, DomainRecordCreate, DomainRecordRead,
              DomainRecordUpdate, DomainRecordDelete),
        {"domain_id"})

AccountKinds ==
    {User, Token, SSHKey, StackScript, AccountSettings, Lock, Domain, DomainRecord}
=================================================================================
