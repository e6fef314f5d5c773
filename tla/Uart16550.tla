----------------------------- MODULE Uart16550 -----------------------------
(***************************************************************************)
(* The serial port (devices/src/uart16550.cpp). Registers share offsets:   *)
(* while the divisor latch is open, data and interrupt enable are divisor  *)
(* bytes. The guest reads and writes registers; the main loop puts console *)
(* input into the receive queue and takes out what was transmitted.        *)
(***************************************************************************)
EXTENDS Integers, Sequences

VARIABLES
  receive_fifo,
  transmit_buffer,
  transmit_interrupt_pending,
  interrupt_enable,        \* subset of {"received", "transmitter"}
  divisor_latch            \* the bit of the line control register

uart == <<receive_fifo, transmit_buffer, transmit_interrupt_pending, interrupt_enable,
          divisor_latch>>

UartInit ==
  /\ receive_fifo = <<>> /\ transmit_buffer = <<>>
  /\ transmit_interrupt_pending = FALSE /\ interrupt_enable = {}
  /\ divisor_latch = FALSE

ReceiveInterrupt == receive_fifo # <<>> /\ "received" \in interrupt_enable
TransmitInterrupt == transmit_interrupt_pending /\ "transmitter" \in interrupt_enable

uart_interrupt_pending == ReceiveInterrupt \/ TransmitInterrupt

\* A read of the data register takes a character, if there is one.
ReadData ==
  /\ receive_fifo' = IF divisor_latch \/ receive_fifo = <<>> THEN receive_fifo
                                                             ELSE Tail(receive_fifo)
  /\ UNCHANGED <<transmit_buffer, transmit_interrupt_pending, interrupt_enable, divisor_latch>>

WriteData(character) ==
  /\ \/ divisor_latch /\ UNCHANGED <<transmit_buffer, transmit_interrupt_pending>>
     \/ /\ ~divisor_latch
        /\ transmit_buffer' = Append(transmit_buffer, character)
        /\ transmit_interrupt_pending' = TRUE
  /\ UNCHANGED <<receive_fifo, interrupt_enable, divisor_latch>>

\* To enable the transmitter interrupt raises it: the transmitter is always empty.
WriteInterruptEnable(bits) ==
  /\ \/ divisor_latch /\ UNCHANGED <<interrupt_enable, transmit_interrupt_pending>>
     \/ /\ ~divisor_latch
        /\ interrupt_enable' = bits
        /\ transmit_interrupt_pending' =
             (transmit_interrupt_pending \/ "transmitter" \in bits \ interrupt_enable)
  /\ UNCHANGED <<receive_fifo, transmit_buffer, divisor_latch>>

WriteFifoControl(clear_receive, clear_transmit) ==
  /\ receive_fifo' = IF clear_receive THEN <<>> ELSE receive_fifo
  /\ transmit_buffer' = IF clear_transmit THEN <<>> ELSE transmit_buffer
  /\ UNCHANGED <<transmit_interrupt_pending, interrupt_enable, divisor_latch>>

WriteLineControl(latch) ==
  /\ divisor_latch' = latch
  /\ UNCHANGED <<receive_fifo, transmit_buffer, transmit_interrupt_pending, interrupt_enable>>

\* What a read of the identification register returns.
Identification ==
  IF ReceiveInterrupt THEN "received"
  ELSE IF TransmitInterrupt THEN "transmitter" ELSE "none"

\* Mutant: the read takes back the transmitter interrupt whatever it returns.
interrupt_identificationClears ==
  /\ transmit_interrupt_pending' = FALSE
  /\ UNCHANGED <<receive_fifo, transmit_buffer, interrupt_enable, divisor_latch>>

\* The transmitter interrupt ends with the read that returns it.
interrupt_identification ==
  /\ transmit_interrupt_pending' =
       (transmit_interrupt_pending /\ Identification # "transmitter")
  /\ UNCHANGED <<receive_fifo, transmit_buffer, interrupt_enable, divisor_latch>>

inject_received(character) ==
  /\ receive_fifo' = Append(receive_fifo, character)
  /\ UNCHANGED <<transmit_buffer, transmit_interrupt_pending, interrupt_enable, divisor_latch>>

take_transmitted ==
  /\ transmit_buffer' = <<>>
  /\ UNCHANGED <<receive_fifo, transmit_interrupt_pending, interrupt_enable, divisor_latch>>
=============================================================================
