----------------------------- MODULE MCHuajiao -----------------------------
(* A small instance of Huajiao for TLC.                                    *)
EXTENDS Huajiao
=============================================================================
