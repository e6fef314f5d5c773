------------------------------- MODULE MCHart -------------------------------
EXTENDS Hart

\* Interrupts and delegation: every mix of one machine timer line, one
\* supervisor external line and the software interrupt.
MCInterruptLines == {"MTI", "SEI"}
MCInterruptOperands ==
  [c \in Csrs |->
     CASE c \in {"mie", "sie"} -> {{"SEI", "SSI"}, {"MTI"}}
       [] c = "mideleg" -> {{"SEI", "SSI"}}
       [] c = "mip" -> {{"SEI"}, {"SSI"}}
       [] c = "sip" -> {{"SSI"}, {"SEI"}}
       [] c = "mstatus" -> {{"MIE"}, {"MPP0"}}
       [] c = "sstatus" -> {{"SIE"}}
       [] c = "medeleg" -> {}]

\* Status fields: every field of mstatus, one interrupt of each mode.
MCStatusLines == {"MTI"}
MCStatusOperands ==
  [c \in Csrs |->
     CASE c = "mstatus" -> {{b} : b \in StatusBits \ {"TVM"}}
       [] c = "sstatus" -> {{b} : b \in StatusBits \ {"TVM"}}
       [] c = "medeleg" -> {{"EcallU", "Illegal"}}
       [] c = "mie" -> {{"MTI"}}
       [] OTHER -> {}]
=============================================================================
