------------------------- MODULE NodeIdentityProofs -------------------------
(***************************************************************************)
(* Proofs about NodeIdentity, for every set of uptimes, random numbers and *)
(* power-up contents of the SRAM: a running node has a version 6 id and    *)
(* prints it, a boot cut short never yields a time of its own, and all of  *)
(* it implements a register that is written once.                          *)
(***************************************************************************)
EXTENDS NodeIdentity, TLAPS

-----------------------------------------------------------------------------
(* What generate_id, uuid_to_str and is_valid_uuid_v6 do to each other,    *)
(* for every id, uptime and random number.                                 *)

LEMMA NibbleIsDigit ==
  ASSUME NEW uuid \in Uuids, NEW k \in 0 .. 31
  PROVE  Nibble(uuid, k) \in Digit
<1>1. k \div 2 \in 0 .. 15
  OBVIOUS
<1>2. uuid[k \div 2] \in 0 .. 255
  BY <1>1 DEF Uuids, Byte
<1>3. \A b \in 0 .. 255 : b \div 16 \in 0 .. 15 /\ b % 16 \in 0 .. 15
  OBVIOUS
<1> QED BY <1>2, <1>3 DEF Nibble, Digit

LEMMA DigitPosition ==
  ASSUME NEW i \in 0 .. 35, i \notin Dashes
  PROVE  i - DashesBefore(i) \in 0 .. 31
BY DEF Dashes, DashesBefore

(* sram_load's test: the printed form of 16 bytes is accepted exactly when *)
(* the high half of byte 6 is 6, whatever the other bytes are              *)
(* (node.c:40-84).                                                         *)
THEOREM ValidIffVersion6 ==
  ASSUME NEW uuid \in Uuids
  PROVE  IsValidUuidV6(UuidToStr(uuid, UUID_STR_LEN)) <=> IsVersion6(uuid)
<1> DEFINE str == UuidToStr(uuid, UUID_STR_LEN)
<1>1. str = [i \in 0 .. 35 |->
               IF i \in Dashes THEN DASH ELSE Nibble(uuid, i - DashesBefore(i))]
  BY DEF UuidToStr, UUID_STR_LEN
<1>2. DOMAIN str = 0 .. UUID_STR_LEN - 2
  BY <1>1 DEF UUID_STR_LEN
<1>3. \A i \in 0 .. UUID_STR_LEN - 2 :
        IF i \in Dashes THEN str[i] = DASH ELSE str[i] \in Digit
  <2> SUFFICES ASSUME NEW i \in 0 .. 35
               PROVE  IF i \in Dashes THEN str[i] = DASH ELSE str[i] \in Digit
    BY DEF UUID_STR_LEN
  <2>1. str[i] = IF i \in Dashes THEN DASH ELSE Nibble(uuid, i - DashesBefore(i))
    <3> HIDE DEF str
    <3> QED BY <1>1
  <2>2. CASE i \in Dashes
    BY <2>1, <2>2
  <2>3. CASE i \notin Dashes
    <3>1. Nibble(uuid, i - DashesBefore(i)) \in Digit
      BY <2>3, DigitPosition, NibbleIsDigit
    <3> QED BY <2>1, <2>3, <3>1
  <2> QED BY <2>2, <2>3
<1>4. str[14] = uuid[6] \div 16
  <2>1. str[14] = Nibble(uuid, 12)
    <3>1. 14 \notin Dashes /\ DashesBefore(14) = 2
      BY DEF Dashes, DashesBefore
    <3> HIDE DEF str
    <3> QED BY <1>1, <3>1
  <2>2. Nibble(uuid, 12) = uuid[6] \div 16
    <3>1. 12 % 2 = 0 /\ 12 \div 2 = 6
      OBVIOUS
    <3> QED BY <3>1, Zenon DEF Nibble
  <2> QED BY <2>1, <2>2
<1>5. IsValidUuidV6(str) <=> IsVersion6(uuid)
  <2> HIDE DEF str
  <2> QED BY <1>2, <1>3, <1>4 DEF IsValidUuidV6, IsVersion6
<1> QED BY <1>5

(* Every id that generate_id makes is 16 bytes of version 6, and passes    *)
(* the validation of the next boot (node.c:14-33, 59-84).                  *)
THEOREM GeneratedIdIsValid ==
  ASSUME NEW time \in Uptimes, NEW random \in Randoms
  PROVE  /\ GeneratedId(time, random) \in Uuids
         /\ IsValidUuidV6(UuidToStr(GeneratedId(time, random), UUID_STR_LEN))
<1> DEFINE id == GeneratedId(time, random)
<1>1. \A b \in 0 .. 255 : b \div 16 \in 0 .. 15 /\ b % 16 \in 0 .. 15
  OBVIOUS
<1>2. time[4] \in 0 .. 255 /\ time[5] \in 0 .. 255
  BY DEF Uptimes, Byte
<1>3. \A i \in 0 .. 15 : GeneratedByte(time, random, i) \in Byte
  <2> SUFFICES ASSUME NEW i \in 0 .. 15 PROVE GeneratedByte(time, random, i) \in Byte
    OBVIOUS
  <2>1. CASE i \in 0 .. 5
    BY <2>1 DEF GeneratedByte, Uptimes
  <2>2. CASE i = 6
    BY <2>2, <1>1, <1>2 DEF GeneratedByte, Byte
  <2>3. CASE i = 7
    BY <2>3, <1>1, <1>2 DEF GeneratedByte, Byte
  <2>4. CASE i \in 8 .. 15
    <3>1. i - 8 \in 0 .. 7 /\ i \notin 0 .. 5 /\ i # 6 /\ i # 7
      BY <2>4
    <3>2. GeneratedByte(time, random, i) = random[i - 8]
      BY <2>4, <3>1 DEF GeneratedByte
    <3> QED BY <3>1, <3>2 DEF Randoms
  <2> QED BY <2>1, <2>2, <2>3, <2>4
<1>4. id \in Uuids
  BY <1>3 DEF GeneratedId, Uuids
<1>5. id[6] = 96 + time[4] \div 16
  BY DEF GeneratedId, GeneratedByte
<1>6. \A d \in 0 .. 15 : (96 + d) \div 16 = 6
  OBVIOUS
<1>7. IsVersion6(id)
  BY <1>1, <1>2, <1>5, <1>6 DEF IsVersion6
<1>8. IsValidUuidV6(UuidToStr(id, UUID_STR_LEN))
  <2> HIDE DEF id
  <2> QED BY <1>4, <1>7, ValidIffVersion6
<1> QED BY <1>4, <1>8

-----------------------------------------------------------------------------

(* From the moment an id is chosen it is of version 6 and is printed.      *)
ChosenId ==
  pc \in {"store", "copy", "announce", "running"} =>
    /\ IsVersion6(n_uuid)
    /\ n_str = "uuid_str"
    /\ uuid_str = UuidToStr(n_uuid, UUID_STR_LEN)

(* sram_load's verdict still describes the SRAM when main acts on it.      *)
LoadVerdict ==
  pc = "loaded" =>
    /\ ret = 0 => dev_ready /\ n_uuid = backup_value /\ IsVersion6(n_uuid)
    /\ ret # 0 /\ dev_ready => ~IsVersion6(backup_value)

(* The progress of the memcpy, over bytes that were no id. *)
CopyProgress ==
  /\ pc \in {"off", "load", "loaded", "store"} => copied = 0
  /\ pc = "store" /\ dev_ready => ~IsVersion6(backup_value)
  /\ pc = "copy" => /\ dev_ready /\ copied \in 0 .. 15
                    /\ copied <= 6 => ~IsVersion6(backup_value)
                    /\ \A i \in 0 .. 15 : i < copied => backup_value[i] = n_uuid[i]

(* A node at the end of its boot has the id of a working SRAM. *)
IdInSram ==
  /\ pc = "off" => ~dev_ready
  /\ pc \in {"announce", "running"} /\ dev_ready => n_uuid = backup_value

(* The time and version are those of an id that came whole. *)
Timely(uuid) == \E id \in whole : \A i \in 0 .. 6 : uuid[i] = id[i]

IdsTimely ==
  /\ IsVersion6(backup_value) => Timely(backup_value)
  /\ pc \in {"store", "copy", "announce", "running"} => Timely(n_uuid)

IInv == TypeOK /\ ChosenId /\ LoadVerdict /\ CopyProgress /\ IdInSram /\ IdsTimely

LEMMA StringsTyped ==
  ASSUME NEW uuid \in Uuids
  PROVE  UuidToStr(uuid, UUID_STR_LEN) \in Strings
<1>1. UuidToStr(uuid, UUID_STR_LEN)
        = [i \in 0 .. 35 |->
             IF i \in Dashes THEN DASH ELSE Nibble(uuid, i - DashesBefore(i))]
  BY DEF UuidToStr, UUID_STR_LEN
<1>2. \A i \in 0 .. 35 : i \notin Dashes => Nibble(uuid, i - DashesBefore(i)) \in Digit
  BY DigitPosition, NibbleIsDigit
<1> QED BY <1>1, <1>2 DEF Strings

LEMMA InitIInv == Init => IInv
<1> SUFFICES ASSUME Init PROVE IInv
  OBVIOUS
<1>1. Zeros \in Uuids /\ PowerUpValues \subseteq Uuids
  BY IdentityAssumption DEF IdentityAssumption, Zeros, Uuids, Byte
<1>2. TypeOK
  <2>1. n_uuid \in Uuids /\ backup_value \in Uuids /\ uuid_str \in Strings \cup {NoStr}
    BY <1>1 DEF Init
  <2>2. pc = "off" /\ n_str = "null" /\ copied = 0 /\ whole \subseteq Uuids /\ ret = 0
    BY <2>1 DEF Init
  <2>3. dev_ready \in BOOLEAN /\ status \in BOOLEAN
    BY DEF Init
  <2> QED BY <2>1, <2>2, <2>3 DEF TypeOK
<1>3. ChosenId /\ LoadVerdict /\ CopyProgress /\ IdInSram
  BY DEF Init, ChosenId, LoadVerdict, CopyProgress, IdInSram
<1>4. IsVersion6(backup_value) => backup_value \in whole
  BY <1>2, ValidIffVersion6 DEF Init, TypeOK, LoadAccepts
<1>5. IdsTimely
  BY <1>4 DEF Init, IdsTimely, Timely
<1> QED BY <1>2, <1>3, <1>5 DEF IInv

LEMMA GenerateIdIInv == IInv /\ GenerateId => IInv'
<1> SUFFICES ASSUME IInv, GenerateId PROVE IInv'
  OBVIOUS
<1>1. PICK time \in UptimeValues, random \in RandomValues :
        n_uuid' = GeneratedId(time, random)
  BY DEF GenerateId
<1>2. n_uuid' \in Uuids /\ IsVersion6(n_uuid')
  BY <1>1, IdentityAssumption, GeneratedIdIsValid, ValidIffVersion6 DEF IdentityAssumption
<1>3. uuid_str' = UuidToStr(n_uuid', UUID_STR_LEN) /\ uuid_str' \in Strings
  BY <1>2, StringsTyped DEF GenerateId, UseUuidStr
<1>4. dev_ready => ~IsVersion6(backup_value)
  BY DEF IInv, LoadVerdict, GenerateId
<1>5. TypeOK'
  BY <1>2, <1>3 DEF IInv, TypeOK, GenerateId, UseUuidStr
<1>6. ChosenId' /\ LoadVerdict'
  BY <1>2, <1>3 DEF GenerateId, UseUuidStr, ChosenId, LoadVerdict
<1>7. CopyProgress' /\ IdInSram'
  BY <1>4 DEF IInv, CopyProgress, IdInSram, GenerateId
<1>8. n_uuid' \in whole' /\ whole \subseteq whole' /\ UNCHANGED backup_value
  BY DEF GenerateId
<1>9. IdsTimely'
  BY <1>8 DEF IInv, IdsTimely, Timely
<1> QED BY <1>5, <1>6, <1>7, <1>9 DEF IInv

LEMMA CopyByteIInv == IInv /\ CopyByte => IInv'
<1> SUFFICES ASSUME IInv, CopyByte PROVE IInv'
  OBVIOUS
<1>1. /\ copied \in 0 .. 15 /\ dev_ready
      /\ copied <= 6 => ~IsVersion6(backup_value)
      /\ backup_value \in Uuids /\ n_uuid \in Uuids /\ IsVersion6(n_uuid)
  BY DEF IInv, TypeOK, ChosenId, CopyProgress, CopyByte
<1>2. backup_value' = [backup_value EXCEPT ![copied] = n_uuid[copied]]
  BY DEF CopyByte, CopyUp
<1>3. backup_value' \in Uuids
  BY <1>1, <1>2 DEF Uuids
<1>4. \A i \in 0 .. 15 : i < copied' => backup_value'[i] = n_uuid[i]
  BY <1>1, <1>2 DEF IInv, CopyProgress, CopyByte, Uuids
<1>5. copied' = 16 => backup_value' = n_uuid
  BY <1>1, <1>3, <1>4 DEF Uuids
<1>6. TypeOK'
  BY <1>1, <1>3 DEF IInv, TypeOK, CopyByte
<1>7. ChosenId' /\ LoadVerdict'
  BY DEF IInv, ChosenId, LoadVerdict, CopyByte
<1>8. copied' <= 6 => ~IsVersion6(backup_value')
  <2>1. copied' <= 6 => backup_value'[6] = backup_value[6]
    BY <1>1, <1>2 DEF CopyByte, Uuids
  <2> QED BY <2>1, <1>1 DEF IsVersion6, CopyByte
<1>9. CopyProgress'
  BY <1>1, <1>4, <1>8 DEF CopyProgress, CopyByte
<1>10. IdInSram'
  BY <1>1, <1>5 DEF IdInSram, CopyByte
<1>11. Timely(n_uuid) /\ UNCHANGED <<whole, n_uuid>>
  BY DEF IInv, IdsTimely, CopyByte
<1>12. copied' > 6 => Timely(backup_value)'
  <2> SUFFICES ASSUME copied' > 6 PROVE Timely(backup_value)'
    OBVIOUS
  <2>1. \A i \in 0 .. 6 : backup_value'[i] = n_uuid[i]
    BY <1>1, <1>4 DEF CopyByte
  <2> QED BY <2>1, <1>11 DEF Timely
<1>13. copied' <= 6 \/ copied' > 6
  BY <1>1 DEF CopyByte
<1>14. IdsTimely'
  BY <1>8, <1>11, <1>12, <1>13 DEF IdsTimely, Timely
<1> QED BY <1>6, <1>7, <1>9, <1>10, <1>14 DEF IInv

LEMMA SramLoadIInv == IInv /\ SramLoad => IInv'
<1> SUFFICES ASSUME IInv, SramLoad PROVE IInv'
  OBVIOUS
<1>1. backup_value \in Uuids
  BY DEF IInv, TypeOK
<1>2. LoadAccepts(backup_value) <=> IsVersion6(backup_value)
  BY <1>1, ValidIffVersion6 DEF LoadAccepts
<1>3. TypeOK'
  BY <1>1 DEF IInv, TypeOK, SramLoad
<1>4. LoadVerdict'
  BY <1>2 DEF LoadVerdict, SramLoad
<1>5. IdsTimely'
  BY DEF IInv, IdsTimely, Timely, SramLoad
<1> QED
  BY <1>3, <1>4, <1>5 DEF IInv, ChosenId, CopyProgress, IdInSram, SramLoad

LEMMA KeepIdIInv == IInv /\ KeepId => IInv'
<1> SUFFICES ASSUME IInv, KeepId PROVE IInv'
  OBVIOUS
<1>1. n_uuid \in Uuids /\ n_uuid = backup_value /\ IsVersion6(n_uuid)
  BY DEF IInv, TypeOK, LoadVerdict, KeepId
<1>2. UuidToStr(n_uuid, UUID_STR_LEN) \in Strings
  BY <1>1, StringsTyped
<1>3. TypeOK' /\ ChosenId' /\ LoadVerdict' /\ CopyProgress' /\ IdInSram'
  BY <1>1, <1>2 DEF IInv, TypeOK, ChosenId, LoadVerdict, CopyProgress, IdInSram,
                    KeepId, UseUuidStr
<1>4. IdsTimely'
  BY <1>1 DEF IInv, IdsTimely, Timely, KeepId
<1> QED BY <1>3, <1>4 DEF IInv

LEMMA ResetIInv == IInv /\ Reset => IInv'
<1> SUFFICES ASSUME IInv, Reset PROVE IInv'
  OBVIOUS
<1>1. Zeros \in Uuids
  BY DEF Zeros, Uuids, Byte
<1>2. TypeOK'
  <2>1. /\ n_uuid' \in Uuids /\ backup_value' \in Uuids /\ whole' \subseteq Uuids
        /\ uuid_str' \in Strings \cup {NoStr}
    BY <1>1 DEF IInv, TypeOK, Reset, RamCleared
  <2>2. pc' = "off" /\ n_str' = "null" /\ copied' = 0 /\ ret' = 0
    BY DEF Reset, RamCleared
  <2>3. dev_ready' \in BOOLEAN /\ status' \in BOOLEAN
    BY DEF Reset, RamCleared
  <2> QED BY <2>1, <2>2, <2>3 DEF TypeOK
<1>3. ChosenId' /\ LoadVerdict' /\ CopyProgress' /\ IdInSram'
  BY DEF ChosenId, LoadVerdict, CopyProgress, IdInSram, Reset, RamCleared
<1>4. IdsTimely'
  BY DEF IInv, IdsTimely, Timely, Reset, RamCleared
<1> QED BY <1>2, <1>3, <1>4 DEF IInv

LEMMA BatteryLossIInv == IInv /\ BatteryLoss => IInv'
<1> SUFFICES ASSUME IInv, BatteryLoss PROVE IInv'
  OBVIOUS
<1>1. backup_value' \in Uuids
  BY IdentityAssumption DEF BatteryLoss, IdentityAssumption
<1>2. TypeOK' /\ ChosenId' /\ LoadVerdict' /\ CopyProgress' /\ IdInSram'
  BY <1>1 DEF IInv, TypeOK, ChosenId, LoadVerdict, CopyProgress, IdInSram, BatteryLoss
<1>3. IsVersion6(backup_value') => backup_value' \in whole'
  BY <1>1, ValidIffVersion6 DEF BatteryLoss, LoadAccepts
<1>4. IdsTimely'
  BY <1>3 DEF BatteryLoss, IdsTimely, Timely
<1> QED BY <1>2, <1>4 DEF IInv

LEMMA StepIInv == IInv /\ [Next]_vars => IInv'
<1> SUFFICES ASSUME IInv, [Next]_vars PROVE IInv'
  OBVIOUS
<1> USE DEF IInv, TypeOK, ChosenId, LoadVerdict, CopyProgress, IdInSram, IdsTimely, Timely
<1>1. CASE PowerOn
  BY <1>1 DEF PowerOn
<1>2. CASE SramStore
  BY <1>2 DEF SramStore
<1>3. CASE Announce
  BY <1>3 DEF Announce
<1>4. CASE UNCHANGED vars
  BY <1>4 DEF vars
<1> QED
  BY <1>1, <1>2, <1>3, <1>4, SramLoadIInv, GenerateIdIInv, KeepIdIInv, CopyByteIInv, ResetIInv,
     BatteryLossIInv DEF Next

LEMMA Invariant == Spec => []IInv
BY InitIInv, StepIInv, PTL DEF Spec

-----------------------------------------------------------------------------
LEMMA InitRegister == Init => Register!Init
BY IdentityAssumption DEF Init, Register!Init, IdentityAssumption

(* A store fills the register with its last byte; a reset may do so too.   *)
LEMMA StepRegister ==
  IInv /\ [Next]_vars => [Register!Next]_(Register!vars)
<1> SUFFICES ASSUME IInv, [Next]_vars PROVE [Register!Next]_(Register!vars)
  OBVIOUS
<1> USE DEF Register!vars, Register!Next
<1>1. NoId \notin Uuids /\ n_uuid \in Uuids /\ backup_value \in Uuids
      /\ backup_value' \in Uuids /\ PowerUpValues \subseteq Uuids
      /\ dev_ready \in BOOLEAN
  BY IdentityAssumption, StepIInv DEF IInv, TypeOK, IdentityAssumption
<1>2. CASE PowerOn
  BY <1>1, <1>2 DEF PowerOn, Register!Boot, IInv, IdInSram
<1>3. CASE SramLoad
  BY <1>3 DEF SramLoad
<1>4. CASE GenerateId \/ KeepId
  BY <1>4 DEF GenerateId, KeepId
<1>5. CASE SramStore
  BY <1>5 DEF SramStore, IInv, CopyProgress
<1>6. CASE CopyByte
  <2>1. pc' # "copy" => backup_value' = n_uuid /\ IsVersion6(n_uuid)
    BY <1>6, CopyByteIInv DEF CopyByte, IInv, CopyProgress, IdInSram, ChosenId
  <2>2. pc' # "copy" => Register!Store
    BY <1>1, <1>6, <2>1 DEF CopyByte, IInv, CopyProgress, Register!Store, Register!Fill
  <2>3. pc' = "copy" => UNCHANGED Register!vars
    BY <1>6 DEF CopyByte
  <2> QED BY <2>2, <2>3
<1>7. CASE Announce
  BY <1>1, <1>7 DEF Announce, IInv, ChosenId, IdInSram, Register!Show
<1>8. CASE Reset
  BY <1>1, <1>8 DEF Reset, RamCleared, Register!Reset, Register!Fill
<1>9. CASE BatteryLoss
  BY <1>1, <1>9 DEF BatteryLoss, Register!PowerLoss, IInv, IdInSram
<1>10. CASE UNCHANGED vars
  BY <1>10 DEF vars
<1> QED
  BY <1>2, <1>3, <1>4, <1>5, <1>6, <1>7, <1>8, <1>9, <1>10 DEF Next

-----------------------------------------------------------------------------
(* Type correctness: among others, n.id.str never points into the dead     *)
(* frame of sram_load once main has moved on (sram_setup.c:34-37).         *)
THEOREM TypeCorrect == Spec => []TypeOK
<1>1. IInv => TypeOK
  BY DEF IInv
<1> QED BY <1>1, Invariant, PTL

(* A running node has a version 6 identity and prints it (main.c:58-72).   *)
THEOREM RunningNodeIsIdentified == Spec => []RunningNodeHasId
<1>1. IInv => RunningNodeHasId
  BY DEF IInv, ChosenId, RunningNodeHasId
<1> QED BY <1>1, Invariant, PTL

(* Wherever resets cut stores short, a node runs with bytes 0 to 6, the    *)
(* time and the version, of one id that came whole, if memcpy copies       *)
(* upwards (sram_setup.c:12-13, 36-42).                                    *)
THEOREM TornIdIsTimely == Spec => []TornIdKeepsItsTime
<1>1. IInv => TornIdKeepsItsTime
  BY DEF IInv, IdsTimely, Timely, TornIdKeepsItsTime
<1> QED BY <1>1, Invariant, PTL

(* The boot implements the register that is written once: a stored id is   *)
(* the id of every later boot that can read it, until VBAT is lost         *)
(* (main.c:58-72, sram_setup.c).                                           *)
THEOREM Refinement == Spec => ImplementsRegister
BY InitRegister, StepRegister, Invariant, PTL DEF Spec, ImplementsRegister, Register!Spec
=============================================================================
