--------------------------- MODULE MCPaperLedger ---------------------------
(* The code's own amounts and rates, counted in tenths of a won: numbers    *)
(* that keep five digits where a Decimal keeps 28.                          *)
EXTENDS PaperLedger
=============================================================================
