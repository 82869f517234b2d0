------------------------------ MODULE MCPapers -----------------------------
(* A calendar of two days a year, and three invoices.                       *)
EXTENDS Papers

CONSTANTS d1, d2, d3

MCInvoices == <<d1, d2, d3>>
============================================================================
