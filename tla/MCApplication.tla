--------------------------- MODULE MCApplication ---------------------------
(***************************************************************************)
(* The application, two instances side by side that share no state.        *)
(* "monitor": RuntimeMonitor on a table of three entries, one of each      *)
(* kind, read two at a time, so that a portion may cross the end of the    *)
(* table.  "platform": PlatformApp with a build per kind of test scenario, *)
(* one that allows the restricted commands, and one without the monitor.   *)
(***************************************************************************)
EXTENDS RuntimeMonitor, PlatformApp, TLC

VARIABLE part  \* which of the two a behaviour is about

PlainBuild == [scenario |-> "none", rsm |-> TRUE, restricted |-> FALSE]
ApplicationInit ==
  /\ part \in {"monitor", "platform"} /\ Init /\ PlatformInit
  /\ part = "monitor" => build = PlainBuild
  /\ part = "platform" => configured
InPlatform(A) == part = "platform" /\ A /\ UNCHANGED <<part, vars>>
ApplicationNext ==
  \/ part = "monitor" /\ Next /\ UNCHANGED <<part, platform_vars>>
  \/ InPlatform(PlatformNext)

\* The fairness of PlatformApp; the monitor has none.
Fairness ==
  /\ WF_<<part, vars, platform_vars>>(InPlatform(Platform))
  /\ WF_<<part, vars, platform_vars>>(InPlatform(Select))
  /\ WF_<<part, vars, platform_vars>>(InPlatform(WatchdogTimeout))
ApplicationSpec ==
  ApplicationInit /\ [][ApplicationNext]_<<part, vars, platform_vars>> /\ Fairness
PlatformOnly == part = "platform" /\ ApplicationSpec

MCKinds == (0 :> "INITIAL_MSP") @@ (1 :> "HANDLER") @@ (2 :> "RESERVED")
MCBadValues == (0 :> {"outside"}) @@ (1 :> {"even", "other"}) @@ (2 :> {"other"})
MCBuilds ==
  {[scenario |-> s, rsm |-> TRUE, restricted |-> FALSE] :
     s \in {"none", "no_confirm", "watchdog_hang", "hardfault", "software_reset",
            "delayed_confirm", "mpu_write_metadata"}} \cup
  {[scenario |-> "none", rsm |-> TRUE, restricted |-> TRUE],
   [scenario |-> "none", rsm |-> FALSE, restricted |-> FALSE]}
=============================================================================
