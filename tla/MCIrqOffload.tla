---------------------------- MODULE MCIrqOffload ----------------------------
(* IrqOffload with the interrupt of irq_offload, which has the priority    *)
(* 255, between two that may be as little urgent, or more.                 *)
EXTENDS IrqOffload

MCIRQs == 0 .. 2
MCPrios == {1, 2, 255}
MCRoutines == {"r1", "r2"}
=============================================================================
