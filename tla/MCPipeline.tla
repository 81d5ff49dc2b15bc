---------------------------- MODULE MCPipeline ----------------------------
EXTENDS Pipeline

\* Every plugin, or any combination of the post-processors that change the
\* report's files with one plugin of each other kind.
MCConfigurations ==
    {Plugins} \cup
    {{"RateLimiter", "Fingerprinter", "DuplicateDetector", "ConsoleNotifier"} \cup on :
        on \in SUBSET {"RawCleanup", "PNGConverter", "ZIPArchiver"}}

\* OrderAssumption beyond these configurations: any set of post-processors.
ASSUME EveryOrder ==
    \A on \in SUBSET Range(PostProcessors), k \in {"captured", "termination"} :
        LET steps == Steps(k, Closed((Plugins \ Range(PostProcessors)) \cup on)) IN
        /\ steps \in Seq(STRING) /\ Orderly(steps)
        /\ \E i \in 1 .. Len(steps) : steps[i] = "Commit"
=============================================================================
