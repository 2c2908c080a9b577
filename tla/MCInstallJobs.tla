---------------------------- MODULE MCInstallJobs ----------------------------
(* The instances of InstallJobs that TLC checks. *)
EXTENDS InstallJobs

\* Everything the platform may order; without an application the file of a
\* container's job is of no account, and an upgrade enables nothing.
AllOrders ==
  {o \in Order : /\ o.kind # "CON_INSTALL" => ~o.withAPP
                 /\ o.kind = "CON_INSTALL" /\ ~o.withAPP =>
                      o.url /\ o.enable /\ o.file = CHOOSE n \in Name : TRUE
                 /\ o.kind = "APP_UPGRADE" => o.enable}

\* Orders of one kind only.
Deferrals == {o \in AllOrders : o.kind = "APP_INSTALL" /\ o.url /\ o.deferred}
Upgrades  == {o \in AllOrders : o.kind = "APP_UPGRADE" /\ o.url /\ ~o.deferred}
=============================================================================
