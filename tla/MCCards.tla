------------------------------- MODULE MCCards -------------------------------
(* An instance of Cards for TLC: a table of two devices, or of one device   *)
(* listed twice.                                                            *)
EXTENDS Cards

CONSTANTS d1, d2

OneOrTwice == {<<d1, d2>>, <<d1, d1>>}
=============================================================================
