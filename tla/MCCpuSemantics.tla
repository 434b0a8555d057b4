--------------------------- MODULE MCCpuSemantics ---------------------------
EXTENDS CpuSemantics

Dmg == Profile(TRUE, TRUE, FALSE)
SmallDmg == Profile(TRUE, FALSE, FALSE)
RtcDmg == Profile(TRUE, TRUE, TRUE)
Minimal == Profile(FALSE, TRUE, FALSE)

\* A corner from its words, its mapper and its inputs
Corner(bc, de, hl, sp, pc, ime, run, mapper, profile, imm, data, a, f) ==
    [ cpu |-> [ A |-> a, F |-> f, B |-> High(bc), C |-> Low(bc), D |-> High(de), E |-> Low(de),
                H |-> High(hl), L |-> Low(hl), pc |-> pc, sp |-> sp, ime |-> ime, run |-> run ],
      mapper |-> mapper, profile |-> profile, imm |-> imm, data |-> data ]

Map(ram, bank, select) == [ ram |-> ram, bank |-> bank, select |-> select ]

\* Accumulators and flags at the carries of the byte operations
AccumulatorsAndFlags == { << 0, 96 >>, << 143, 16 >>, << 255, 176 >> }

MCCorners ==
    UNION { {
        Corner(49407, 40960, 49152, 57342, 256, 0, 0, Map(TRUE, 1, 0), Dmg, << 254, 192 >>, << 255, 15 >>, af[1], af[2]),
        Corner(8191, 0, 8192, 2, 16383, 1, 0, Map(FALSE, 63, 3), Dmg, << 128, 255 >>, << 0, 128 >>, af[1], af[2]),
        Corner(65407, 65535, 16384, 1, 65532, 2, 0, Map(TRUE, 15, 8), SmallDmg, << 127, 64 >>, << 16, 255 >>, af[1], af[2]),
        Corner(40961, 49151, 49151, 0, 65535, 0, 0, Map(TRUE, 2, 3), Dmg, << 255, 255 >>, << 127, 1 >>, af[1], af[2]),
        Corner(128, 32768, 65535, 65535, 49152, 1, 0, Map(FALSE, 32, 0), Dmg, << 0, 160 >>, << 240, 239 >>, af[1], af[2]),
        Corner(4095, 24576, 0, 65534, 32767, 2, 0, Map(TRUE, 16, 12), RtcDmg, << 1, 32 >>, << 1, 16 >>, af[1], af[2]),
        Corner(65520, 65521, 65519, 49154, 49150, 0, 0, Map(TRUE, 1, 4), Minimal, << 240, 255 >>, << 15, 0 >>, af[1], af[2]),
        Corner(61439, 40959, 57343, 40961, 0, 0, 3, Map(TRUE, 1, 2), Dmg, << 62, 62 >>, << 153, 102 >>, af[1], af[2])
      } : af \in AccumulatorsAndFlags }

MCDecimalAccumulators == Byte
MCKeys == DefinedKeys \ { 203 }

=============================================================================
