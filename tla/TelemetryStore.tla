--------------------------- MODULE TelemetryStore ---------------------------
(***************************************************************************)
(* What the telemetry buffer promises: a stored point stays readable, and  *)
(* moves to the archive without ever leaving it.  Only what two flushes    *)
(* touch at once is at risk.                                               *)
(***************************************************************************)
VARIABLES kept,      \* points that can be read
          archived,  \* points that can be read from the archive
          atRisk     \* points that two flushes may touch at once

Init == kept = {} /\ archived = {} /\ atRisk = {}

\* Storing, archiving and endangering points, and losing endangered ones.
Next ==
    /\ atRisk \subseteq atRisk'
    /\ kept \subseteq kept' \cup atRisk'
    /\ archived \subseteq archived' \cup atRisk'
    /\ archived' \subseteq archived \cup kept \cup atRisk'

Spec == Init /\ [][Next]_<<kept, archived, atRisk>>
=============================================================================
