---------------------------- MODULE MCSerialRx ----------------------------
(***************************************************************************)
(* Small instances of SerialRx.  As in the code (1280 and 256), the buffer *)
(* is longer than the range of its 8-bit index in every instance.          *)
(***************************************************************************)
EXTENDS SerialRx

CONSTANTS a, b
MCChars == {a, b}
MCOneChar == {a}
=============================================================================
