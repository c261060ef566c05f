------------------------------- MODULE MCYY --------------------------------
(* A small instance of YY for TLC.                                         *)
EXTENDS YY
=============================================================================
