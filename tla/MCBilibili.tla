----------------------------- MODULE MCBilibili ----------------------------
(* A small instance of Bilibili for TLC.                                   *)
EXTENDS Bilibili
=============================================================================
