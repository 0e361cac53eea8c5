-------------------------- MODULE IdentityRegister --------------------------
(***************************************************************************)
(* What main.c, node.c and sram_setup.c promise together: the SRAM is a    *)
(* register that is written once.  A node that runs with a working SRAM    *)
(* shows the id in the register, whatever resets came before; only the     *)
(* loss of VBAT, while the board is off, empties it or fills it anew.  A   *)
(* node whose SRAM does not work shows some id all the same.               *)
(***************************************************************************)
CONSTANTS Ids,     \* the valid ids
          NoId     \* no id

VARIABLES stored,  \* the id in the register
          shown,   \* the id of the running node
          works    \* the SRAM works in this boot

vars == <<stored, shown, works>>

Init ==
  /\ stored \in Ids \cup {NoId}
  /\ shown = NoId
  /\ works = FALSE

Boot ==
  /\ works = FALSE /\ shown = NoId
  /\ works' \in BOOLEAN
  /\ UNCHANGED <<stored, shown>>

Fill ==
  /\ stored = NoId
  /\ stored' \in Ids

Store ==
  /\ works
  /\ Fill
  /\ UNCHANGED <<shown, works>>

Show ==
  /\ shown = NoId
  /\ shown' \in Ids
  /\ works => shown' = stored
  /\ UNCHANGED <<stored, works>>

(* A store that the reset cuts short may have filled the register. *)
Reset ==
  /\ shown' = NoId
  /\ works' = FALSE
  /\ Fill \/ UNCHANGED stored

PowerLoss ==
  /\ ~works /\ shown = NoId
  /\ stored' \in Ids \cup {NoId}
  /\ UNCHANGED <<shown, works>>

Next == Boot \/ Store \/ Show \/ Reset \/ PowerLoss

Spec == Init /\ [][Next]_vars
=============================================================================
