----------------------------- MODULE MCStatistics -----------------------------
(* Statistics with the default counters and one the configuration repeats.      *)
EXTENDS Statistics, TLC

MCDefault ==
    <<"acceptedPackets", "acceptedBlocks", "expectedBlocks", "assembledNalu", "skippedNalu">>
MCTotals == 0 :> {2, 3}
MCConfigured == <<"skippedNalu">>
===============================================================================
