-------------------------- MODULE MCParseUtils -------------------------------
(***************************************************************************)
(* Inputs of up to four characters over digits, the suffix letters, a     *)
(* space and a tab: every well-formed capacity ("12KB") and frequency     *)
(* ("1GHz") of that length, and lines with leading, trailing, doubled     *)
(* and tab separators.                                                     *)
(***************************************************************************)
EXTENDS ParseUtils

MCChars == {"1", "2", "K", "M", "G", "B", "H", "z", " ", "\t"}

=============================================================================
