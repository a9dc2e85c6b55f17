--------------------------- MODULE MCExportCycle ----------------------------
(* ExportCycle with two backends.                                          *)
EXTENDS ExportCycle

CONSTANTS b1, b2

MCBackends == {b1, b2}
MCEnrollFlags == {NoFlags}
=============================================================================
