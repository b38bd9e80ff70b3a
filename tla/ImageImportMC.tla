------------------------------ MODULE ImageImportMC ------------------------------
(* The import of an image, whose read handler is not one of ResourceReads. *)
EXTENDS Resource, StorageKinds

OnlyImages == {k \in StorageKinds : k.name = "linode_image"}
================================================================================
