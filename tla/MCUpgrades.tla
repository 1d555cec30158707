------------------------------ MODULE MCUpgrades ------------------------------
(* Small instances of Upgrades. *)
EXTENDS Upgrades, PackageWorlds
=============================================================================
