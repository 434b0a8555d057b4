--------------------------- MODULE MCTraceBuilder ---------------------------
(* Two bytes of memory and the access patterns of the instruction set.     *)
EXTENDS TraceBuilder

Rom == [op |-> "rom"]
Read(at) == [op |-> "read", at |-> at]
Write(at, value) == [op |-> "write", at |-> at, value |-> value]
In == [op |-> "input"]

MCScripts == {
    <<Rom>>,
    <<Rom, [op |-> "stop"]>>,
    <<Rom, Read(0), Write(0, LastReadPlus)>>,              \* INC (HL)
    <<Rom, Rom, Rom, Write(1, 1), Write(0, 0)>>,           \* CALL, LD (nn),SP
    <<Rom, Read(0), Read(1)>>,                             \* POP
    <<Read(0), Read(1), Write(LastRead, 1)>>,              \* LD (nn),A in RAM
    <<Read(1), Write(1, 0), Write(0, 1)>>,                 \* PUSH in RAM
    <<Write(0, 1), Write(1, 1)>>,                          \* interrupt dispatch
    <<Read(1), Write(0, LastRead)>>,                       \* one DMA byte
    <<Rom, Rom, In>>,                                      \* read of the input port
    <<Rom, In, [op |-> "fault"]>>,                         \* INC (HL) on the input port
    <<Rom, Write(0, 1), [op |-> "fault"]>>}                \* PUSH across ROM
MCInputs == {<<0, 1>>, <<0, 1, 1>>, <<1, 0>>}
=============================================================================
