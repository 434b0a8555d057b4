--------------------------- MODULE MCBlockDevices ---------------------------
(* A frame of two lines of 20 M-cycles, every LCD mode as long as the      *)
(* longest block; programs that each exercise one device.                  *)
EXTENDS BlockDevices

MCPeriod == [s \in {"slow", "fast"} |-> IF s = "slow" THEN 32 ELSE 16]

W(reg, vals) == {<<[reg |-> reg, val |-> v]>> : v \in vals}
TacOn(s) == [enable |-> TRUE, select |-> s]
TacOff == [enable |-> FALSE, select |-> "fast"]
Clocked(b) == [start |-> TRUE, internal |-> b]

MCAccesses ==
    [dispatch |-> W("IE", {{"VBlank"}}),
     timer    |-> W("LCDC", {FALSE}) \cup W("TAC", {TacOn("fast"), TacOff})
                  \cup W("TIMA", {1}) \cup W("IE", {{"Timer"}}),
     divider  |-> W("DIV", {0}) \cup W("TAC", {TacOn("slow")}) \cup W("TMA", {1}),
     stat     |-> W("STAT", {{"Mode0", "Mode1"}, {"Mode2", "Lyc"}}) \cup W("LYC", {1})
                  \cup W("IF", {{}}),
     vblank   |-> W("LCDC", {FALSE, TRUE}) \cup W("IE", {{"VBlank"}}),
     transfer |-> W("SC", {Clocked(TRUE), Clocked(FALSE)}) \cup W("LCDC", {FALSE})
                  \cup W("IE", {{"Serial"}}),
     joypad   |-> W("P1", {{"actions"}, {}}) \cup W("ReadP1", {{"actions"}}),
     sound    |-> W("NR52", {[power |-> FALSE, active |-> {}], [power |-> TRUE, active |-> {}]})
                  \cup W("NR12", {{}, {"top"}}) \cup W("NR14", {Bits}) \cup W("NR11", {Bits}) \cup W("Wave", {Bits}),
     dma      |-> W("DMA", {TRUE})]
MCReadable ==
    [dispatch |-> {"IF"}, timer |-> {"TIMA"}, divider |-> {"DIV"}, stat |-> {"STAT"}, vblank |-> {"LY"},
     transfer |-> {"SC"}, joypad |-> {"IF"}, sound |-> {"NR52", "Unused"}, dma |-> {"DMA"}]
MCPushAccesses == [p \in DOMAIN MCAccesses |-> {}]
MCControls ==
    [p \in DOMAIN MCAccesses |->
        CASE p \in {"divider", "stat", "sound", "joypad"} -> {}
          [] p \in {"timer", "vblank", "transfer", "dma"} -> {"HALT"}
          [] p = "dispatch" -> {"EI", "HALT"}]
MCLanes == {<<1>>, <<1, 2, 3>>}
=============================================================================
