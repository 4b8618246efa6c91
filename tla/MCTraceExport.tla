--------------------------- MODULE MCTraceExport ---------------------------
(* Instances of TraceExport for TLC.                                        *)
EXTENDS TraceExport

\* The root's input, which every span reads, and the outputs of the others.
MCReferenced == {<<Root, "input">>} \cup {<<o, "output">> : o \in Obs \ {Root}}
=============================================================================
