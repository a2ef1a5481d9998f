---------------------------- MODULE MCPipeline ----------------------------
(* The environments of the Pipeline run. *)
EXTENDS Pipeline

Env(throughput, grid, logical, physical) ==
    [throughput |-> throughput, grid |-> grid, logical |-> logical, physical |-> physical]

\* The default, the throughput mode, a batch that does not divide its block, and
\* a legacy grid above the physical floor.
AllEnvs == { Env(FALSE, 0, 0, 0), Env(TRUE, 0, 0, 0), Env(FALSE, 0, 3, 4), Env(FALSE, 4, 0, 0) }
=============================================================================
