---------------------------- MODULE NodeIdentity ----------------------------
(***************************************************************************)
(* How a node gets its identity at boot (samples/mesh/src/main.c:56-72,    *)
(* sram_setup.c): main loads the id from the battery-backed SRAM, or makes *)
(* a new one and stores it there.  The board may reset at any moment, also *)
(* inside the memcpy of sram_store; RAM is then cleared and the SRAM keeps *)
(* what it holds, unless its battery supply fails while the board is off.  *)
(***************************************************************************)
EXTENDS NodeId

CONSTANTS UptimeValues,   \* values of k_uptime_get() when an id is made
          RandomValues,   \* values of sys_rand32_get()
          PowerUpValues,  \* what the SRAM may hold when its supply returns
          NoId,           \* no identity
          NoStr           \* a null or empty C string

ASSUME IdentityAssumption ==
  /\ UptimeValues \subseteq Uptimes
  /\ RandomValues \subseteq Randoms
  /\ PowerUpValues \subseteq Uuids
  /\ PowerUpValues # {}
  /\ NoId \notin Uuids

VARIABLES pc,            \* where main is, or "off"
          dev_ready,     \* device_is_ready of the backup SRAM in this boot
          ret,           \* what sram_load returned
          n_uuid,        \* n.id.uuid, static and so zero at reset
          n_str,         \* where n.id.str points
          uuid_str,      \* the static buffer of main.c
          status,        \* n.status
          backup_value,  \* the 16 bytes of backup SRAM
          copied,        \* bytes that the memcpy of sram_store has written
          whole          \* history: ids from generate_id, and valid ids that
                         \* the SRAM held when its supply returned

vars == <<pc, dev_ready, ret, n_uuid, n_str, uuid_str, status, backup_value,
          copied, whole>>

Zeros == [i \in 0 .. 15 |-> 0]

(* sram_load accepts the bytes whose printed form is a version 6 uuid. *)
LoadAcceptsAll(uuid) == TRUE
LoadAccepts(uuid) == IsValidUuidV6(UuidToStr(uuid, UUID_STR_LEN))

(* memcpy(backup_value, uuid->uuid, 16).  That it copies from the lowest    *)
(* byte upwards is assumed of the C library, the language does not promise *)
(* it; one byte at a time covers a library that copies by words.           *)
CopyDown(k) == [backup_value EXCEPT ![15 - k] = n_uuid[15 - k]]
CopyUp(k) == [backup_value EXCEPT ![k] = n_uuid[k]]

-----------------------------------------------------------------------------
RamCleared ==
  /\ pc' = "off"
  /\ dev_ready' = FALSE
  /\ ret' = 0
  /\ n_uuid' = Zeros
  /\ n_str' = "null"
  /\ uuid_str' = NoStr
  /\ status' = FALSE
  /\ copied' = 0

Init ==
  /\ pc = "off"
  /\ dev_ready = FALSE
  /\ ret = 0
  /\ n_uuid = Zeros
  /\ n_str = "null"
  /\ uuid_str = NoStr
  /\ status = FALSE
  /\ copied = 0
  /\ backup_value \in PowerUpValues
  /\ whole = IF LoadAccepts(backup_value) THEN {backup_value} ELSE {}

PowerOn ==
  /\ pc = "off"
  /\ pc' = "load"
  /\ dev_ready' \in BOOLEAN
  /\ UNCHANGED <<ret, n_uuid, n_str, uuid_str, status, backup_value, copied, whole>>

(* sram_load copies the SRAM into the node before it looks at it, and      *)
(* leaves n.id.str pointing into its own stack frame.                      *)
SramLoad ==
  /\ pc = "load"
  /\ pc' = "loaded"
  /\ \/ /\ ~dev_ready
        /\ ret' = -1
        /\ UNCHANGED <<n_uuid, n_str>>
     \/ /\ dev_ready
        /\ n_uuid' = backup_value
        /\ n_str' = "sram_load"
        /\ ret' = IF LoadAccepts(backup_value) THEN 0 ELSE -1
  /\ UNCHANGED <<dev_ready, uuid_str, status, backup_value, copied, whole>>

PrintUuidStr(uuid) ==
  /\ uuid_str' = UuidToStr(uuid, UUID_STR_LEN)
  /\ UNCHANGED n_str

(* uuid_to_str into the static buffer, and n.id.str = uuid_str. *)
UseUuidStr(uuid) ==
  /\ uuid_str' = UuidToStr(uuid, UUID_STR_LEN)
  /\ n_str' = "uuid_str"

(* The load failed: generate_id, uuid_to_str. *)
GenerateId ==
  /\ pc = "loaded"
  /\ ret # 0
  /\ pc' = "store"
  /\ \E time \in UptimeValues, random \in RandomValues :
       n_uuid' = GeneratedId(time, random)
  /\ UseUuidStr(n_uuid')
  /\ whole' = whole \cup {n_uuid'}
  /\ UNCHANGED <<dev_ready, ret, status, backup_value, copied>>

(* The load succeeded. *)
KeepId ==
  /\ pc = "loaded"
  /\ ret = 0
  /\ pc' = "announce"
  /\ UseUuidStr(n_uuid)
  /\ UNCHANGED <<dev_ready, ret, n_uuid, status, backup_value, copied, whole>>

(* sram_store; main does not look at what it returns. *)
SramStore ==
  /\ pc = "store"
  /\ pc' = IF dev_ready THEN "copy" ELSE "announce"
  /\ UNCHANGED <<dev_ready, ret, n_uuid, n_str, uuid_str, status, backup_value,
                 copied, whole>>

CopyByte ==
  /\ pc = "copy"
  /\ backup_value' = CopyUp(copied)
  /\ copied' = copied + 1
  /\ pc' = IF copied' = 16 THEN "announce" ELSE "copy"
  /\ UNCHANGED <<dev_ready, ret, n_uuid, n_str, uuid_str, status, whole>>

Announce ==
  /\ pc = "announce"
  /\ pc' = "running"
  /\ status' = TRUE
  /\ UNCHANGED <<dev_ready, ret, n_uuid, n_str, uuid_str, backup_value, copied, whole>>

(* The board resets, wherever main is. *)
Reset ==
  /\ pc # "off"
  /\ RamCleared
  /\ UNCHANGED <<backup_value, whole>>

(* VBAT fails while the board is off. *)
BatteryLoss ==
  /\ pc = "off"
  /\ backup_value' \in PowerUpValues
  /\ whole' = IF LoadAccepts(backup_value') THEN whole \cup {backup_value'} ELSE whole
  /\ UNCHANGED <<pc, dev_ready, ret, n_uuid, n_str, uuid_str, status, copied>>

Next ==
  \/ PowerOn
  \/ SramLoad
  \/ GenerateId
  \/ KeepId
  \/ SramStore
  \/ CopyByte
  \/ Announce
  \/ Reset
  \/ BatteryLoss

Spec == Init /\ [][Next]_vars

-----------------------------------------------------------------------------
Strings == [0 .. 35 -> Digit \cup {DASH}]

(* Type correctness; n.id.str points into the dead frame of sram_load only *)
(* until main has set it again.                                            *)
TypeOK ==
  /\ pc \in {"off", "load", "loaded", "store", "copy", "announce", "running"}
  /\ dev_ready \in BOOLEAN
  /\ ret \in {0, -1}
  /\ n_uuid \in Uuids
  /\ n_str \in {"null", "sram_load", "uuid_str"}
  /\ n_str = "sram_load" => pc = "loaded"
  /\ uuid_str \in Strings \cup {NoStr}
  /\ status \in BOOLEAN
  /\ backup_value \in Uuids
  /\ copied \in 0 .. 16
  /\ whole \subseteq Uuids

(* A node that runs has a version 6 identity and prints that very id,      *)
(* whatever the SRAM held and whichever call failed (main.c:58-72).        *)
RunningNodeHasId ==
  pc = "running" =>
    /\ IsVersion6(n_uuid)
    /\ n_str = "uuid_str"
    /\ uuid_str = UuidToStr(n_uuid, UUID_STR_LEN)

(* A store cut short by a reset is either rejected by the next boot or has *)
(* the time (bytes 0 to 5) and the version (byte 6) of one id that came    *)
(* whole (sram_setup.c:12-13, 36-42).  Byte 7, which repeats bits of the   *)
(* time (node.c:23), and the random half may be those of other contents of *)
(* the SRAM.  This rests on a memcpy that copies upwards.                  *)
TornIdKeepsItsTime ==
  pc = "running" =>
    \E id \in whole : \A i \in 0 .. 6 : n_uuid[i] = id[i]

(* The boot implements the register: an id once stored or found there is   *)
(* the id of every later boot whose SRAM works, through resets at any      *)
(* step, until VBAT is lost.  While the memcpy runs the register is empty  *)
(* (main.c:58-72; sram_setup.c:20-21, "Next reported value should be ...   *)
(* Keep VBAT power source and reset the board now!").                      *)
Register == INSTANCE IdentityRegister WITH
  Ids <- {uuid \in Uuids : IsVersion6(uuid)},
  stored <- IF IsVersion6(backup_value) /\ pc # "copy" THEN backup_value ELSE NoId,
  shown <- IF pc = "running" THEN n_uuid ELSE NoId,
  works <- dev_ready
ImplementsRegister == Register!Spec
=============================================================================
