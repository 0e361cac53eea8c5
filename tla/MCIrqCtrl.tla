------------------------------ MODULE MCIrqCtrl ------------------------------
(* IrqCtrl with the three interrupts of the board and two priorities, so   *)
(* that interrupts nest, tie and hold each other back.                     *)
EXTENDS IrqCtrl

MCIRQs == 0 .. 2
MCTwoIRQs == 0 .. 1
MCPrios == {1, 2}
=============================================================================
