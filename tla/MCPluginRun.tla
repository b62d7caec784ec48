------------------------------ MODULE MCPluginRun ------------------------------
(***************************************************************************)
(* Instances of PluginRun for TLC.                                         *)
(***************************************************************************)
EXTENDS PluginRun

\* Both listeners and a cleanup interval of zero, or a `listen` that listeners()
\* rejects; and then a restart with one listener of either kind, which meets the one of
\* its kind that the first run leaves.
MCConfigs ==
    << {[listen |-> "none", uds_path |-> TRUE, zero |-> TRUE],
        [listen |-> "other", uds_path |-> FALSE, zero |-> FALSE]},
       {[listen |-> "none", uds_path |-> FALSE, zero |-> FALSE],
        [listen |-> "unix", uds_path |-> TRUE, zero |-> FALSE]} >>
================================================================================
