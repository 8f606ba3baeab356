------------------------- MODULE MC_MobileEntryPoint -------------------------
(* Values of up to two characters over "a", "1", "-" and "_": empty, with *)
(* a leading digit, with '-' and well-formed ones.                        *)
EXTENDS MobileEntryPoint
=============================================================================
