---------------------------- MODULE MCLoraDriver ----------------------------
(* LoraDriver with a queue of two or three messages (20 in the code) and   *)
(* enough packets to fill and purge it more than once.                     *)
EXTENDS LoraDriver
=============================================================================
