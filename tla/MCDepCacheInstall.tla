-------------------------- MODULE MCDepCacheInstall --------------------------
(* Small instances of DepCacheInstall. *)
EXTENDS DepCacheInstall, PackageWorlds
=============================================================================
