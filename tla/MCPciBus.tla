------------------------------ MODULE MCPciBus ------------------------------
(* Instance of PciBus for TLC: CMI8338 and CMI8738 behind the cmipci driver, *)
(* a CS4281, and an ICH with its joystick function; in some machines a       *)
(* CS4281 or an ICH is the first device of a secondary bus.                  *)
EXTENDS PciBus
CONSTANTS cmipci, cs4281, intel8x0, joystick, cm1, cm2, cs, ich, joy

InOrder == <<cmipci, cs4281, intel8x0>>
Joysticks == cmipci :> None @@ cs4281 :> None @@ intel8x0 :> joystick
Tables == cmipci :> <<cm1, cm2>> @@ cs4281 :> <<cs>> @@ intel8x0 :> <<ich>>
            @@ joystick :> <<joy>>
BarsOf == cm1 :> {"io1", "irq"} @@ cm2 :> {"io2", "irq"} @@ cs :> {"mem", "irq"}
            @@ ich :> {"io3", "io4", "irq"} @@ joy :> {"io5"}
Ports == cmipci :> {"fm", "mpu"} @@ cs4281 :> {} @@ intel8x0 :> {"mpu"}
            @@ joystick :> {}
FirstOnBus == {{}, {ich}, {cs, joy}}
=============================================================================
