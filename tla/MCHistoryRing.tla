--------------------------- MODULE MCHistoryRing ---------------------------
(* A small flash ring: three pages of three double words of three bytes,    *)
(* and records that fill neither a double word nor a page evenly.           *)
EXTENDS HistoryRing

ByteSizes == <<1, 1>>
TwoSizes == <<4, 2>>
=============================================================================
