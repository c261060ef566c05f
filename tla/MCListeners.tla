---------------------------- MODULE MCListeners ----------------------------
(* Small instances of Listeners for TLC: two viewers, no symmetry, since    *)
(* the order of Conn is the order of the set and liveness is checked.       *)
EXTENDS Listeners
=============================================================================
