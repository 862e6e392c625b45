------------------------------ MODULE MCLinks ------------------------------
(* Three paired devices: this device dials two of them, the third dials in. *)
EXTENDS Links
=============================================================================
