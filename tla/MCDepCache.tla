------------------------------ MODULE MCDepCache ------------------------------
(* Small instances of DepCache. *)
EXTENDS DepCache, PackageWorlds
=============================================================================
