--------------------------- MODULE MCPackageManager ---------------------------
(* Small instances of PackageManager. *)
EXTENDS PackageManager, PackageWorlds

\* What needs what in up to eight steps: there are seven packages.
Joined(R) ==
    R \cup {x \in Package \X Package : \E b \in Package : <<x[1], b>> \in R /\ <<b, x[2]>> \in R}
Needs == Joined(Joined(Joined({x \in Package \X Package : Leads(x[1], x[2])})))

\* Of PutOff.cfg: the new mailer has no quarrel with the shell.
Peaceful == [d \in DOMAIN UpgradeDep \ {"m2_sh"} |-> UpgradeDep[d]]

\* What the theorems assume of the packages holds of these (Closed and NoWayBack:
\* NoHiddenLoop).
ASSUME WorldFits ==
    /\ RpmSystem /\ NothingIgnored /\ GroupsAlike /\ MaxLoops # 0
    /\ Closed(Needs) /\ NoWayBack(Needs)
=============================================================================
