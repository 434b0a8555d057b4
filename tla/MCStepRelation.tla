--------------------------- MODULE MCStepRelation ---------------------------
(* Small instances of the step relation.  A scanline has three M-cycles,   *)
(* one per LCD mode, a frame two lines; TIMA counts to two.                *)
EXTENDS StepRelation

MCPeriod == [s \in {"slow", "fast"} |-> IF s = "slow" THEN 16 ELSE 8]
MCOnePeriod == [s \in {"fast"} |-> 8]

W(reg, vals) == {<<[reg |-> reg, val |-> v]>> : v \in vals}
TacOn(s) == [enable |-> TRUE, select |-> s]
TacOff == [enable |-> FALSE, select |-> "fast"]
Clocked(b) == [start |-> TRUE, internal |-> b]

MCAccesses ==
    [timer |->      \* the LCD is switched off to let the CPU skip to the timer
        W("DIV", {0}) \cup W("TIMA", {0, 2}) \cup W("TMA", {1})
        \cup W("TAC", {TacOn("slow"), TacOn("fast"), TacOff})
        \cup W("LCDC", {FALSE}) \cup W("IE", {{"Timer"}}) \cup W("IF", {{}})
        \cup {<<[reg |-> "TIMA", val |-> 1], [reg |-> "TMA", val |-> 2]>>},   \* LD (FF05),SP
     display |->    \* every STAT source, the LYC line and the LCD switch
        W("LCDC", {FALSE, TRUE}) \cup W("LYC", {0, 1})
        \cup W("STAT", {{}, {"Mode0"}, {"Mode1", "Mode2"}, {"Lyc", "Mode0"}})
        \cup W("IE", {{"VBlank"}, {"VBlank", "LcdStat"}, {"VBlank", "Joypad"}}) \cup W("IF", {{}}),
     transfer |->   \* serial port, joypad and DMA, with a stack in I/O space
        W("SC", {Clocked(TRUE), Clocked(FALSE)}) \cup W("DMA", {TRUE})
        \cup W("LCDC", {FALSE}) \cup W("IE", {{"Serial"}, {"VBlank", "Joypad"}}) \cup W("IF", {{}})
        \cup W("P1", {{"actions"}}) \cup W("ReadP1", {{"directions"}})]
MCPushAccesses ==
    [p \in DOMAIN MCAccesses |->
        IF p # "transfer" THEN {}
        ELSE {<<[reg |-> "LYC", val |-> 0]>>,
              <<[reg |-> "IE", val |-> {}], [reg |-> "IF", val |-> {}]>>,
              <<[reg |-> "DMA", val |-> TRUE]>>}]
MCControls == [p \in DOMAIN MCAccesses |-> {"EI", "DI", "RETI", "HALT", "STOP"}]

\* Everything that can wake a sleeping CPU, or that stops being able to.
MCWakeAccesses ==
    [wake |-> W("IE", {{"VBlank"}, {"Serial", "Timer"}}) \cup W("IF", {{}})
              \cup W("LCDC", {FALSE, TRUE}) \cup W("TAC", {TacOn("fast"), TacOff})
              \cup W("SC", {Clocked(TRUE)})]
MCWakePushes == [wake |-> {}]
MCWakeControls == [wake |-> {"EI", "DI", "RETI", "HALT"}]
=============================================================================
