------------------------------ MODULE StorageKinds ------------------------------
(***************************************************************************)
(* Images and the sharing of images, Object Storage buckets, objects and   *)
(* keys.                                                                   *)
(***************************************************************************)
EXTENDS ResourceSteps

---------------------------------------------------------------------------
\* linode_image.  An image is taken from the disk of a Linode or uploaded from
\* a file; the identity is recorded before the handler waits for it.  The read
\* handler preserves what is known, which is everything.
ImageSchema ==
    [EmptySchema EXCEPT
        !.required  = {"label"},
        !.optional  = {"disk_id", "linode_id", "file_path", "region", "file_hash", "description",
                       "replica_regions"},
        !.either    = {"tags"},
        !.defaulted = {"cloud_init", "wait_for_replications"},
        !.readOnly  = {"created", "status", "is_shared", "image_sharing", "total_size", "replications"},
        !.local     = {"file_path", "file_hash", "wait_for_replications"},
        !.replace   = {"disk_id", "linode_id", "file_hash", "cloud_init"},
        !.exclusive = "file_path" :> "linode_id" @@ "region" :> "linode_id",
        !.needs     = "disk_id" :> "linode_id",
        !.keep      = {"created", "status", "is_shared"}]

ImageFlattened ==
    {"label", "description", "created", "status", "is_shared", "image_sharing", "total_size",
     "tags", "replications"}
ImageCopied ==
    ImageFlattened \union {"disk_id", "linode_id", "file_path", "region", "file_hash",
                           "cloud_init", "replica_regions", "wait_for_replications"}

RefreshImage == <<Get>>

ImageFromUpload ==
    <<Create({"region", "label", "description", "cloud_init", "tags"}), SaveId,
      Wait, Compute({"file_hash"}), Wait>> \o RefreshImage
ImageFromLinode ==
    <<Wait, Create({"disk_id", "linode_id", "label", "description", "cloud_init", "tags"}), SaveId,
      Wait>> \o RefreshImage

\* All the regions are waited for, if that is asked for.
ReplicateImage ==
    <<Update({"replica_regions"})>> \o IfGiven({"wait_for_replications"}, <<Get, Wait>>)

ImageCreate ==
    IfGiven({"linode_id"}, ImageFromLinode) \o Unless({"linode_id"}, ImageFromUpload)
    \o IfChanged({"replica_regions"}, <<Wait>> \o ReplicateImage)
    \o <<Preserve(ImageFlattened), Save>>
ImageRead == <<GetOrForget, Preserve(ImageFlattened), Save>>

\* The new regions must have one of the old ones among them.
ImageUpdate ==
    <<UpdateChanged({"description", "label", "tags"})>>
    \o IfChanged({"description", "label", "tags"}, <<Preserve(ImageFlattened)>>)
    \o IfChanged({"replica_regions"},
                 <<Require({"replica_regions"}), RequireBefore({"replica_regions"}), Wait>>
                 \o ReplicateImage \o <<Preserve(ImageFlattened)>>)
    \o <<Copy(ImageCopied), Save>>
ImageDelete == <<Delete>>

Image == Framework("linode_image", ImageSchema, ImageCreate, ImageRead, ImageUpdate, ImageDelete)

---------------------------------------------------------------------------
\* linode_producer_image_share_group.  The images are added, changed and
\* removed one by one; the update hands back what the API answers.
ShareGroupSchema ==
    [EmptySchema EXCEPT
        !.required  = {"label"},
        !.optional  = {"description"},
        !.blank     = {"description"},
        !.defaulted = {"images"},
        !.readOnly  = {"uuid", "is_suspended", "images_count", "members_count", "created",
                       "updated", "expiry"},
        !.keep      = {"uuid", "images"},
        !.volatile  = {"updated"}]

ShareGroupFlattened ==
    {"label", "description", "uuid", "is_suspended", "images_count", "members_count", "created",
     "updated", "expiry"}

ShareGroupCreate ==
    <<Create({"label", "description", "images"}), Preserve(ShareGroupFlattened), Save>>
ShareGroupRead ==
    <<Get, GetOrEmpty({"images"}), Preserve(ShareGroupFlattened), Refresh({"images"}), Save>>
ShareGroupImages == <<Get>> \o IfChanged({"images"}, <<Update({"images"})>>)
ShareGroupUpdate ==
    ShareGroupImages
    \o IfChanged({"label", "description"}, <<Update({"label", "description"})>>)
    \o <<Get, GetOrEmpty({"images"}), Refresh(ShareGroupFlattened \union {"images"}), Save>>
ShareGroupDelete == <<Delete>>

ShareGroup ==
    Framework("linode_producer_image_share_group", ShareGroupSchema, ShareGroupCreate,
              ShareGroupRead, ShareGroupUpdate, ShareGroupDelete)

---------------------------------------------------------------------------
\* linode_producer_image_share_group_member.  The token is sent once.
ShareGroupMemberSchema ==
    [EmptySchema EXCEPT
        !.required = {"sharegroup_id", "token", "label"},
        !.readOnly = {"token_uuid", "status", "created", "updated", "expiry"},
        !.replace  = {"sharegroup_id"},
        !.path     = {"sharegroup_id"},
        !.volatile = {"updated"}]

ShareGroupMemberFlattened == {"label", "token_uuid", "status", "created", "updated", "expiry"}
ShareGroupMemberCopied == ShareGroupMemberFlattened \union {"sharegroup_id", "token"}

ShareGroupMemberCreate ==
    <<Create({"sharegroup_id", "token", "label"}), Preserve(ShareGroupMemberFlattened), Save>>
ShareGroupMemberRead == <<Get, Preserve(ShareGroupMemberFlattened), Save>>
ShareGroupMemberUpdate ==
    IfChanged({"label"}, <<Update({"label"}), Refresh(ShareGroupMemberFlattened)>>)
    \o <<Copy(ShareGroupMemberCopied), Save>>
ShareGroupMemberDelete == <<Delete>>

ShareGroupMember ==
    NotImportable(
        Framework("linode_producer_image_share_group_member", ShareGroupMemberSchema,
                  ShareGroupMemberCreate, ShareGroupMemberRead, ShareGroupMemberUpdate,
                  ShareGroupMemberDelete))

---------------------------------------------------------------------------
\* linode_consumer_image_share_group_token.  The token itself is in the answer
\* to the creation alone.
ShareGroupTokenSchema ==
    [EmptySchema EXCEPT
        !.required = {"valid_for_sharegroup_uuid"},
        !.optional = {"label"},
        !.readOnly = {"token", "token_uuid", "status", "created", "updated", "expiry",
                      "sharegroup_uuid", "sharegroup_label"},
        !.replace  = {"valid_for_sharegroup_uuid"},
        !.path     = {"valid_for_sharegroup_uuid"},
        !.keep     = {"token"},
        !.volatile = {"updated"}]

ShareGroupTokenFlattened ==
    {"valid_for_sharegroup_uuid", "label", "token_uuid", "status", "created", "updated", "expiry",
     "sharegroup_uuid", "sharegroup_label"}
ShareGroupTokenCreated == ShareGroupTokenFlattened \union {"token"}
ShareGroupTokenCopied  == ShareGroupTokenCreated

ShareGroupTokenCreate ==
    <<Create({"valid_for_sharegroup_uuid", "label"}), Refresh(ShareGroupTokenCreated), Save>>
ShareGroupTokenRead == <<Get, Preserve(ShareGroupTokenFlattened), Save>>
ShareGroupTokenUpdate ==
    IfChanged({"label"}, <<Update({"label"}), Refresh(ShareGroupTokenFlattened)>>)
    \o <<Copy(ShareGroupTokenCopied), Save>>
ShareGroupTokenDelete == <<Delete>>

ShareGroupToken ==
    Framework("linode_consumer_image_share_group_token", ShareGroupTokenSchema,
              ShareGroupTokenCreate, ShareGroupTokenRead, ShareGroupTokenUpdate,
              ShareGroupTokenDelete)

---------------------------------------------------------------------------
\* linode_object_storage_bucket (SDKv2).  The keys for the S3 calls are made on
\* the fly and can be refused; versioning and lifecycle are read only if the
\* state has one of them, the certificate never is.
BucketSchema ==
    [EmptySchema EXCEPT
        !.required  = {"label"},
        !.optional  = {"access_key", "secret_key", "lifecycle_rule", "cert"},
        !.either    = {"cluster", "region", "s3_endpoint", "endpoint_type", "cors_enabled",
                       "versioning"},
        !.defaulted = {"acl"},
        !.readOnly  = {"endpoint", "hostname"},
        !.local     = {"access_key", "secret_key"},
        !.replace   = {"label", "cluster", "region", "s3_endpoint", "endpoint_type"},
        !.path      = {"label", "cluster", "region"},
        !.exclusive = "region" :> "cluster"]

BucketFlattened ==
    {"cluster", "region", "label", "hostname", "acl", "cors_enabled", "endpoint", "s3_endpoint",
     "endpoint_type"}
ObjectKeys == <<Wait>>
ReadLifecycleAndVersioning ==
    ObjectKeys \o <<GetSome({"lifecycle_rule"}), RefreshSet({"lifecycle_rule"}),
                    GetSome({"versioning"}), Refresh({"versioning"})>>

BucketRead ==
    <<GetOrForget, GetSome({"acl", "cors_enabled"})>>
    \o IfGiven({"versioning"}, ReadLifecycleAndVersioning)
    \o Unless({"versioning"}, IfGiven({"lifecycle_rule"}, ReadLifecycleAndVersioning))
    \o <<SaveId, Refresh(BucketFlattened)>>

ValidateRegion == IfGiven({"region"}, <<Wait>>)
UpdateBucketAccess == IfChanged({"acl", "cors_enabled"}, <<UpdateChanged({"acl", "cors_enabled"})>>)
UpdateBucketCert   ==
    IfChanged({"cert"}, <<Clear({"cert"})>> \o IfGiven({"cert"}, <<Update({"cert"})>>))
UpdateBucketVersioningAndLifecycle ==
    IfChanged({"versioning", "lifecycle_rule"}, ObjectKeys)
    \o IfChanged({"versioning"}, <<Update({"versioning"})>>)
    \o IfChanged({"lifecycle_rule"}, <<Update({"lifecycle_rule"})>>)

BucketUpdate ==
    IfChanged({"region"}, ValidateRegion) \o UpdateBucketAccess \o UpdateBucketCert
    \o UpdateBucketVersioningAndLifecycle \o BucketRead
BucketCreate ==
    ValidateRegion
    \o <<Create({"label", "acl", "cors_enabled", "s3_endpoint", "endpoint_type", "region", "cluster"}),
         SaveId>>
    \o BucketUpdate
\* With obj_bucket_force_delete the objects are purged first.
BucketDelete == ObjectKeys \o <<Wait, Delete>>

Bucket ==
    SDKv2("linode_object_storage_bucket", BucketSchema, BucketCreate, BucketRead, BucketUpdate,
          BucketDelete)

---------------------------------------------------------------------------
\* linode_object_storage_object.  A create that fails once the object may be
\* there records the address, but no id, and the read drops a resource
\* without one.  The read fails on an object that is gone.  The update notes
\* that the object could not be put or read, and records the plan all the same.
ObjectSchema ==
    [EmptySchema EXCEPT
        !.required  = {"bucket", "key"},
        !.optional  = {"cluster", "region", "secret_key", "access_key", "content", "content_base64",
                       "source", "cache_control", "content_disposition", "content_encoding",
                       "content_language", "website_redirect"},
        !.either    = {"content_type", "endpoint", "etag"},
        !.defaulted = {"acl", "force_destroy", "metadata"},
        !.readOnly  = {"id", "version_id"},
        !.local     = {"secret_key", "access_key", "endpoint", "force_destroy"},
        !.replace   = {"bucket", "key", "cluster", "region"},
        !.path      = {"bucket", "key", "cluster", "region"},
        !.exclusive = "region" :> "cluster",
        !.keep      = {"id", "content_type", "endpoint"}]

ObjectFlattened ==
    {"cache_control", "content_disposition", "content_encoding", "content_language",
     "content_type", "etag", "website_redirect", "version_id", "metadata"}
ObjectCopied ==
    ObjectFlattened \union
    {"bucket", "cluster", "region", "key", "secret_key", "access_key", "content",
     "content_base64", "source", "acl", "endpoint", "force_destroy"}

ObjectBody == {"content", "content_base64", "source"}
ObjectHeaders ==
    {"cache_control", "content_disposition", "content_encoding", "content_language",
     "content_type", "website_redirect", "metadata"}
PutObject ==
    <<PutAndGoOn({"bucket", "key", "region", "cluster", "acl", "etag"} \union ObjectBody \union ObjectHeaders)>>
ComputeEndpoint == IfUnknown({"endpoint"}, <<Wait, Compute({"endpoint"})>>)
RefreshObject(get) == UnlessFailed(<<get, Preserve(ObjectFlattened)>>)

ObjectCreate ==
    ComputeEndpoint \o ObjectKeys \o PutObject \o <<SaveId>> \o RefreshObject(Get)
    \o UnlessFailed(<<Compute({"id"}), Save>>)
ObjectRead ==
    <<ForgetUnless({"id"})>> \o ObjectKeys \o <<Get, Refresh(ObjectFlattened), Save>>
ObjectUpdate ==
    ComputeEndpoint \o ObjectKeys
    \o IfChanged(ObjectBody \union ObjectHeaders, PutObject)
    \o UnlessFailed(IfGiven({"etag"}, IfChanged({"etag"}, PutObject)))
    \o RefreshObject(GetAndGoOn) \o <<Copy(ObjectCopied), Save>>
ObjectDelete == ObjectKeys \o <<DeleteIfThere>>

StorageObject ==
    NotImportable(
        Framework("linode_object_storage_object", ObjectSchema, ObjectCreate, ObjectRead,
                  ObjectUpdate, ObjectDelete))

---------------------------------------------------------------------------
\* linode_object_storage_key.  The regions are assumed to cover the buckets: the
\* handlers refuse others before any call.  The secret is in the answer to
\* the creation alone.
KeySchema ==
    [EmptySchema EXCEPT
        !.required = {"label"},
        !.optional = {"bucket_access"},
        !.either   = {"regions"},
        !.readOnly = {"access_key", "secret_key", "limited", "regions_details"},
        !.replace  = {"bucket_access"},
        !.keep     = {"access_key", "secret_key", "limited"}]

KeyFlattened == {"label", "access_key", "limited", "regions", "bucket_access", "regions_details"}
KeyCopied    == KeyFlattened \union {"secret_key"}

KeyCreate ==
    <<Create({"label", "bucket_access", "regions"}), Preserve(KeyFlattened \union {"secret_key"}), Save>>
KeyRead   == <<GetOrForget, Refresh(KeyFlattened), Save>>
KeyUpdate ==
    <<UpdateChanged({"label", "regions"})>>
    \o IfChanged({"label", "regions"}, <<Preserve(KeyFlattened)>>)
    \o <<Copy(KeyCopied \ {"bucket_access"}), Save>>
KeyDelete == <<DeleteIfThere>>

Key ==
    Framework("linode_object_storage_key", KeySchema, KeyCreate, KeyRead, KeyUpdate, KeyDelete)

StorageKinds ==
    {Image, ShareGroup, ShareGroupMember, ShareGroupToken, Bucket, StorageObject, Key}
=================================================================================
