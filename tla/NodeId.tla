------------------------------- MODULE NodeId -------------------------------
(***************************************************************************)
(* The node's identifier (samples/mesh/src/node.c): how generate_id fills  *)
(* the 16 bytes of a custom_uuid, how uuid_to_str prints them, and which   *)
(* strings is_valid_uuid_v6 accepts.                                       *)
(*                                                                         *)
(* A C string is a function from 0 .. n-1.  Its characters are the hex     *)
(* digits 0 .. 15 (%02x prints one case, the validator accepts both, so    *)
(* case is left out), DASH, and any others.  The 64-bit uptime is its six  *)
(* low bytes, most significant first.                                      *)
(***************************************************************************)
EXTENDS Integers

CONSTANT DASH         \* the character '-'

ASSUME DashAssumption == DASH \notin 0 .. 15

Byte == 0 .. 255
Digit == 0 .. 15
Uuids == [0 .. 15 -> Byte]
Uptimes == [0 .. 5 -> Byte]      \* the 48 low bits of k_uptime_get()
Randoms == [0 .. 7 -> Byte]      \* two results of sys_rand32_get()

UUID_STR_LEN == 37

(* generate_id: six bytes of time, the version and twelve bits of time     *)
(* again, eight random bytes.                                              *)
GeneratedByte(time, random, i) ==
  CASE i \in 0 .. 5  -> time[i]
    [] i = 6         -> 96 + time[4] \div 16
    [] i = 7         -> (time[4] % 16) * 16 + time[5] \div 16
    [] i \in 8 .. 15 -> random[i - 8]

GeneratedId(time, random) ==
  [i \in 0 .. 15 |-> GeneratedByte(time, random, i)]

-----------------------------------------------------------------------------
Dashes == {8, 13, 18, 23}

(* How many dashes are printed before position i. *)
DashesBefore(i) ==
  CASE i <= 8         -> 0
    [] i \in 9 .. 13  -> 1
    [] i \in 14 .. 18 -> 2
    [] i \in 19 .. 23 -> 3
    [] i >= 24        -> 4

(* The k-th of the 32 hex digits of a uuid. *)
Nibble(uuid, k) ==
  IF k % 2 = 0 THEN uuid[k \div 2] \div 16 ELSE uuid[k \div 2] % 16

(* uuid_to_str: snprintf keeps the first len - 1 of the 36 characters. *)
UuidToStr(uuid, len) ==
  [i \in 0 .. (IF len > 36 THEN 36 ELSE len - 1) - 1 |->
     IF i \in Dashes THEN DASH ELSE Nibble(uuid, i - DashesBefore(i))]

-----------------------------------------------------------------------------
VersionAtDash(str) ==
  /\ DOMAIN str = 0 .. UUID_STR_LEN - 2
  /\ str[13] = 6

(* is_valid_uuid_v6: length, dashes, digits, then the version digit. *)
IsValidUuidV6(str) ==
  /\ DOMAIN str = 0 .. UUID_STR_LEN - 2
  /\ \A i \in 0 .. UUID_STR_LEN - 2 :
       IF i \in Dashes THEN str[i] = DASH ELSE str[i] \in Digit
  /\ str[14] = 6

IsVersion6(uuid) == uuid[6] \div 16 = 6
=============================================================================
