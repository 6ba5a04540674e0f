-------------------------- MODULE MCMonitoringService --------------------------
(* MonitoringService with its configurations. *)
EXTENDS MonitoringService

Config(attach, reattach, forever) ==
  [attach |-> attach, reattach |-> reattach, forever |-> forever]

\* Two binaries to test, an attach that reattaches, and one that does not, with
\* endless retries.
TestRun == Config(FALSE, FALSE, FALSE)
ReattachRun == Config(TRUE, TRUE, FALSE)
AttachRun == Config(TRUE, FALSE, TRUE)

EveryConfig == {TestRun, ReattachRun, AttachRun}

Tests == {TestRun}
Reattaches == {ReattachRun}
===============================================================================
