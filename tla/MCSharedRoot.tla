---------------------------- MODULE MCSharedRoot ----------------------------
(***************************************************************************)
(* The monitors of one data root, for TLC.  Retention, the rate limiter,   *)
(* the session log and the private directory of the others share no entry  *)
(* and no lock, so the initial state chooses the one whose monitors run.   *)
(***************************************************************************)
EXTENDS Retention, RateLimiter, SessionLog, PrivatePaths

VARIABLE domain   \* "reports", "quota", "sessions" or "files"

rootVars == <<domain, allVars, rateVars, sessionVars, pathVars>>

RootInit ==
    /\ domain \in {"reports", "quota", "sessions", "files"}
    /\ RetentionInit /\ RateInit /\ SessionInit /\ PathInit
    /\ domain # "reports" => modified = <<>>
    /\ domain # "sessions" => lines = <<>> /\ \A d \in Directories : lockFile[d] = "none"
    /\ domain # "files" => folder.gen = 0

Reporting ==
    /\ domain = "reports"
    /\ RetentionNext
    /\ UNCHANGED <<domain, rateVars, sessionVars, pathVars>>

Limiting ==
    /\ domain = "quota"
    /\ RateNext
    /\ UNCHANGED <<domain, allVars, sessionVars, pathVars>>

Recording ==
    /\ domain = "sessions"
    /\ SessionNext
    /\ UNCHANGED <<domain, allVars, rateVars, pathVars>>

Publishing ==
    /\ domain = "files"
    /\ PathNext
    /\ UNCHANGED <<domain, allVars, rateVars, sessionVars>>

RootSpec == RootInit /\ [][Reporting \/ Limiting \/ Recording \/ Publishing]_rootVars

\* A legacy file is twice as large as a report.
MCSize(e) == IF e \in Legacy THEN 2 ELSE 1

\* The reports of the modelled monitors are interchangeable, and no property of
\* this run is a liveness property.
RootSymmetry == Permutations(Reports \ Earlier)

=============================================================================
