------------------------------- MODULE MCRv32 -------------------------------
(* Programs for the hart: one raises, delegates and masks supervisor         *)
(* interrupts, one changes the fields of mstatus under a machine timer.      *)
(* Guests for the caches: two pages of one space, whose 4 KiB leaves fall    *)
(* into different sets, slots and epochs; both pages of two spaces, in       *)
(* megapages that share a set; one page in either size, global or not, three *)
(* keys for two ways, with loads and stores in user and supervisor mode.     *)
EXTENDS Rv32, TLC

CONSTANTS i0, i1

MCLines == {"SEI", "MTI"}
MCCsrs == {"mstatus", "sstatus", "mie", "sie", "mip", "sip", "medeleg", "mideleg"}
MCPrograms ==
  [interrupts |->
     [lines |-> {"SEI"},
      operands |-> [c \in MCCsrs |->
        CASE c = "mie" -> {{"SEI", "SSI"}}
          [] c = "sie" -> {{"SEI"}}
          [] c = "mideleg" -> {{"SEI", "SSI"}}
          [] c = "mip" -> {{"SSI"}}
          [] c = "sip" -> {{"SSI"}}
          [] c = "mstatus" -> {{"MPP0"}}
          [] c = "sstatus" -> {{"SIE"}}
          [] c = "medeleg" -> {}]],
   status |->
     [lines |-> {"MTI"},
      operands |-> [c \in MCCsrs |->
        CASE c = "mstatus" -> {{"MPP1"}, {"MPP0", "MPRV", "MIE"}, {"TVM", "TW", "TSR"}}
          [] c = "sstatus" -> {{"SPP", "SPIE"}}
          [] c = "medeleg" -> {{"EcallU"}}
          [] c = "mie" -> {{"MTI"}}
          [] OTHER -> {}]]]
MCOperands == [c \in MCCsrs |-> UNION {MCPrograms[p].operands[c] : p \in DOMAIN MCPrograms}]

MCInstructions == {i0, i1}
MCSymmetry == Permutations(MCInstructions)

MCAsidOf == [s \in {1, 3} |-> IF s = 1 THEN 1 ELSE 2]
MCPlain == [sum |-> FALSE, mxr |-> FALSE]
MCTable == [kind |-> "table", global |-> FALSE]
MCLeaf(frame, perm, global) ==
  [kind |-> "leaf", frame |-> frame, perm |-> perm, global |-> global,
   accessed |-> FALSE, dirty |-> FALSE]
MCPtes(small, large) == [l \in 0 .. 1 |-> IF l = 0 THEN small ELSE large]

MCGuests ==
  [pages |-> [spaces |-> {1}, pages |-> {0, 1}, modes |-> {1}, views |-> {},
              ptes |-> MCPtes({MCLeaf(1, {"R", "X"}, FALSE)}, {MCTable})],
   spaces |-> [spaces |-> {1, 3}, pages |-> {0, 1}, modes |-> {1}, views |-> {},
               ptes |-> MCPtes({}, {MCLeaf(0, {"R", "X"}, FALSE)})],
   modes |-> [spaces |-> {1}, pages |-> {0}, modes |-> {0, 1},
              views |-> {MCPlain, [sum |-> TRUE, mxr |-> FALSE]},
              ptes |-> MCPtes({MCLeaf(1, {"R", "X", "U"}, g) : g \in BOOLEAN},
                              {MCTable, MCLeaf(0, {"R", "W", "X", "U"}, FALSE)})]]
MCGuestPtes == [l \in 0 .. 1 |-> UNION {MCGuests[g].ptes[l] : g \in DOMAIN MCGuests}]
=============================================================================
