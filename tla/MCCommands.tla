------------------------------ MODULE MCCommands ------------------------------
(* The instances of Commands that TLC checks. *)
EXTENDS Commands

\* A type the topic's own thread serves, one that the device's thread serves for
\* it, one that is acknowledged first (and whose tag is misnamed on both sides),
\* and the query sg_bus_inter_thread deals with itself.
OneOfEach == {"CON_START", "CON_STATUS", "APP_INSTALL", "STATUS_QUERY"}
=============================================================================
