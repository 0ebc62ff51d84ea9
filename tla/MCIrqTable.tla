----------------------------- MODULE MCIrqTable -----------------------------
(* Instance of IrqTable for TLC: three chips, a line without faults and one *)
(* on which everything may be refused.                                      *)
EXTENDS IrqTable
CONSTANTS emu, mpu, ich, irq5, irq6

Chips3 == {emu, mpu, ich}
=============================================================================
