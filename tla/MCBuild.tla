------------------------------ MODULE MCBuild -------------------------------
(* Instances of Build: three builds, each with any JDK and with or without  *)
(* Java files, so that the JVM is loaded, attached to again, and left behind*)
(* by a load that failed.                                                   *)
EXTENDS Build
=============================================================================
