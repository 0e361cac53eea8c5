--------------------------- MODULE MCNodeIdentity ---------------------------
(***************************************************************************)
(* Two uptimes that differ in the bytes that are copied into the version   *)
(* field, and two random numbers; after a power loss the SRAM reads as     *)
(* zeros, as ones, or as bytes that happen to look like a version 6 id.    *)
(***************************************************************************)
EXTENDS NodeIdentity

Early == [i \in 0 .. 5 |-> IF i = 5 THEN 200 ELSE 0]
Late == [i \in 0 .. 5 |-> IF i = 4 THEN 171 ELSE IF i = 5 THEN 205 ELSE 0]
MCUptimes == {Early, Late}

MCRandoms == {[i \in 0 .. 7 |-> 17], [i \in 0 .. 7 |-> 250]}

Ones == [i \in 0 .. 15 |-> 255]
LooksValid == [Ones EXCEPT ![6] = 111]
MCAnyMemory == {Zeros, Ones, LooksValid}
=============================================================================
