--------------------------- MODULE MCReportStorage ---------------------------
(* Small instances of ReportStorage.                                         *)
EXTENDS ReportStorage

CONSTANTS a1, a2, a3

TwoAttempts == {a1, a2}
ThreeAttempts == {a1, a2, a3}
=============================================================================
