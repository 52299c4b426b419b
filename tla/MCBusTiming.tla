---------------------------- MODULE MCBusTiming ----------------------------
(* BusTiming with tables of up to four entries.                            *)
EXTENDS BusTiming

MCSizes == 0 .. 4
=============================================================================
