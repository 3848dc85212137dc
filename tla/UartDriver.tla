----------------------------- MODULE UartDriver -----------------------------
(***************************************************************************)
(* The bootloader's USART1 driver (uart.c): polled, no buffer but the      *)
(* one-byte data register, so the hardware receives and overruns between   *)
(* any two register accesses of the driver.                                *)
(*                                                                         *)
(* The peripheral is external.  Bytes of the line are numbered in the      *)
(* order sent.  A byte that arrives while RXNE is set is lost and raises   *)
(* ORE; a damaged byte raises FE or NE with RXNE.  A read of DR clears     *)
(* RXNE and the error flags the last read of SR has seen: an overrun after *)
(* that read stays flagged, with nothing left in DR.  Writing DR after a   *)
(* read of SR clears TC.  Parity is off (CR1), and no caller passes NULL.  *)
(***************************************************************************)
EXTENDS Integers, Sequences

CONSTANTS
  MaxBytes,                   \* bound on the bytes of the line
  UART_FLUSH_RX_MAX_DRAINS,
  UART_TX_READY_MAX_POLLS,
  Timeouts, Lengths           \* arguments of the blocking calls

\* The counts and arguments of the driver are unsigned.
ASSUME UartAssumption ==
  /\ MaxBytes \in Nat /\ UART_FLUSH_RX_MAX_DRAINS \in Nat /\ UART_TX_READY_MAX_POLLS \in Nat
  /\ Timeouts \subseteq Nat /\ Lengths \subseteq Nat

VARIABLES
  sent,     \* bytes the line has carried
  dr,       \* the byte in the receive data register and whether it is damaged
  sr,       \* receive flags of the status register
  sampled,  \* receive error flags the last read of SR returned
  tx,       \* transmitter: byte in DR, byte in the shift register, TC
  uart_call, \* the call in progress
  reply,    \* status of the call that returned last
  got       \* bytes the callers were given since the last call that told of a loss

uart_vars == <<sent, dr, sr, sampled, tx, uart_call, reply, got>>

UartIdle == [at |-> "idle"]

\* Framing and noise only: an overrun passes as a clean byte.
error_without_overrun(flags) ==
  CASE "FE" \in flags -> "FRAMING" [] flags = {"NE"} -> "NOISE" [] OTHER -> "OK"
uart_error_from_sr(flags) ==
  CASE "ORE" \in flags -> "OVERRUN"
    [] "ORE" \notin flags /\ "FE" \in flags -> "FRAMING"
    [] flags = {"NE"} -> "NOISE"
    [] OTHER -> "OK"
-----------------------------------------------------------------------------
(* The peripheral *)

Receive ==
  /\ sent < MaxBytes /\ sent' = sent + 1
  /\ \/ /\ sr.rxne
        /\ sr' = [sr EXCEPT !.err = @ \cup {"ORE"}]
        /\ UNCHANGED dr
     \/ \E damage \in {{}, {"FE"}, {"NE"}} :
          /\ ~sr.rxne
          /\ dr' = [byte |-> sent + 1, damaged |-> damage # {}]
          /\ sr' = [rxne |-> TRUE, err |-> sr.err \cup damage]
  /\ UNCHANGED <<sampled, tx, uart_call, reply, got>>

Transmit ==
  /\ \/ tx.dr /\ ~tx.shift /\ tx' = [tx EXCEPT !.dr = FALSE, !.shift = TRUE]
     \/ tx.shift /\ tx' = [tx EXCEPT !.shift = FALSE, !.tc = ~tx.dr]
  /\ UNCHANGED <<sent, dr, sr, sampled, uart_call, reply, got>>

uart_read_dr == sr' = [rxne |-> FALSE, err |-> sr.err \ sampled]
-----------------------------------------------------------------------------
(* Calls *)

UartBegin(c) == /\ uart_call.at = "idle" /\ uart_call' = c
                /\ UNCHANGED <<sent, dr, sr, sampled, tx, reply, got>>

\* The same loops run over the UART itself and over the byte reader made from it.
Layers == {"uart", "reader"}
Read(layer, op, timeout, length) ==
  [at |-> "poll", layer |-> layer, op |-> op, timeout |-> timeout, polls |-> timeout, left |-> length]

uart_getc_nonblocking ==
  \E l \in Layers : UartBegin([at |-> "getc", layer |-> l, op |-> "getc"])
uart_getc_timeout ==
  \E l \in Layers, t \in Timeouts : UartBegin(Read(l, "getc_timeout", t, 1))
uart_read_timeout ==
  \E l \in Layers, t \in Timeouts, n \in Lengths : UartBegin(Read(l, "read_timeout", t, n))
uart_flush_rx ==
  UartBegin([at |-> "drain", layer |-> "uart", op |-> "flush", drains |-> 0, first_error |-> "OK"])
uart_putc == UartBegin([at |-> "putc", layer |-> "uart", op |-> "putc", polls |-> UART_TX_READY_MAX_POLLS])
uart_wait_tx_complete ==
  UartBegin([at |-> "wait_tc", layer |-> "uart", op |-> "wait", polls |-> UART_TX_READY_MAX_POLLS])

uart_byte_reader_getc(status) ==
  IF status \in {"OVERRUN", "FRAMING", "NOISE", "PARITY"} THEN "IO" ELSE status

Losses == {"OVERRUN", "FRAMING", "NOISE", "IO"}
\* A flush throws bytes away whatever it returns.
UartReturn(result) ==
  LET status == IF uart_call.layer = "reader" THEN uart_byte_reader_getc(result) ELSE result
  IN /\ uart_call' = UartIdle
     /\ reply' = [op |-> uart_call.op, status |-> status]
     /\ got' = IF status \in Losses \/ uart_call.op = "flush" THEN <<>> ELSE got

\* What a call does with the result of one uart_getc_nonblocking.
GetcNoData ==
  /\ UNCHANGED got
  /\ IF uart_call.op = "getc"
       THEN uart_call' = UartIdle /\ reply' = [op |-> "getc", status |-> "NO_DATA"]
       ELSE uart_call' = [uart_call EXCEPT !.at = "poll", !.polls = @ - 1] /\ UNCHANGED reply
GetcByte ==
  /\ got' = Append(got, dr)
  /\ IF uart_call.op = "getc"
       THEN uart_call' = UartIdle /\ reply' = [op |-> "getc", status |-> "OK"]
       ELSE /\ uart_call' = [uart_call EXCEPT !.at = "poll", !.left = @ - 1, !.polls = uart_call.timeout]
            /\ UNCHANGED reply

\* The loops of the blocking reads: done, out of polls, or one more try.
Poll ==
  /\ uart_call.at = "poll" /\ UNCHANGED <<sent, dr, sr, sampled, tx>>
  /\ \/ uart_call.left = 0 /\ UartReturn("OK")
     \/ uart_call.left > 0 /\ uart_call.polls = 0 /\ UartReturn("TIMEOUT")
     \/ /\ uart_call.left > 0 /\ uart_call.polls > 0
        /\ uart_call' = [uart_call EXCEPT !.at = "getc"] /\ UNCHANGED <<reply, got>>

\* uart_getc_nonblocking reads SR.
Sample ==
  /\ uart_call.at = "getc" /\ sampled' = sr.err
  /\ UNCHANGED <<sent, dr, sr, tx>>
  /\ LET error == uart_error_from_sr(sr.err)
     IN \/ /\ error # "OK" /\ UNCHANGED <<reply, got>>
           /\ uart_call' = [at |-> "clear_sr", layer |-> uart_call.layer, op |-> uart_call.op,
                            status |-> error]
        \/ error = "OK" /\ ~sr.rxne /\ GetcNoData
        \/ /\ error = "OK" /\ sr.rxne
           /\ uart_call' = [uart_call EXCEPT !.at = "take"] /\ UNCHANGED <<reply, got>>
Take ==
  /\ uart_call.at = "take" /\ uart_read_dr /\ GetcByte
  /\ UNCHANGED <<sent, dr, sampled, tx>>

\* One pass of uart_flush_rx up to its read of SR.
Drain ==
  /\ uart_call.at = "drain" /\ UNCHANGED <<sent, dr, sr, tx>>
  /\ LET error == uart_error_from_sr(sr.err)
     IN \/ /\ uart_call.drains = UART_FLUSH_RX_MAX_DRAINS
           /\ UartReturn("TIMEOUT") /\ UNCHANGED sampled
        \/ /\ uart_call.drains < UART_FLUSH_RX_MAX_DRAINS /\ sampled' = sr.err
           /\ error = "OK" /\ ~sr.rxne /\ UartReturn(uart_call.first_error)
        \/ /\ uart_call.drains < UART_FLUSH_RX_MAX_DRAINS /\ sampled' = sr.err
           /\ error # "OK" \/ sr.rxne
           /\ uart_call' = [uart_call EXCEPT !.at = "clear_sr", !.drains = @ + 1,
                                   !.first_error = IF @ = "OK" THEN error ELSE @]
           /\ UNCHANGED <<reply, got>>

\* uart_clear_rx_condition, one register at a time, and the way back.
ClearSr ==
  /\ uart_call.at = "clear_sr" /\ sampled' = sr.err
  /\ uart_call' = [uart_call EXCEPT !.at = "clear_dr"]
  /\ UNCHANGED <<sent, dr, sr, tx, reply, got>>
ClearDr ==
  /\ uart_call.at = "clear_dr" /\ uart_read_dr
  /\ IF uart_call.op = "flush"
       THEN uart_call' = [uart_call EXCEPT !.at = "drain"] /\ UNCHANGED <<reply, got>>
       ELSE UartReturn(uart_call.status)
  /\ UNCHANGED <<sent, dr, sampled, tx>>

\* uart_putc: wait for TXE, then write DR; a byte is dropped when the polls run out.
Putc ==
  /\ uart_call.at = "putc" /\ sampled' = sr.err /\ UNCHANGED <<sent, dr, sr>>
  /\ \/ ~tx.dr /\ uart_call' = [uart_call EXCEPT !.at = "write_dr"] /\ UNCHANGED <<tx, reply, got>>
     \/ tx.dr /\ uart_call.polls = 0 /\ UartReturn("OK") /\ UNCHANGED tx
     \/ /\ tx.dr /\ uart_call.polls > 0
        /\ uart_call' = [uart_call EXCEPT !.polls = @ - 1] /\ UNCHANGED <<tx, reply, got>>
WriteDr ==
  /\ uart_call.at = "write_dr" /\ tx' = [tx EXCEPT !.dr = TRUE, !.tc = FALSE]
  /\ UartReturn("OK") /\ UNCHANGED <<sent, dr, sr, sampled>>

WaitTc ==
  /\ uart_call.at = "wait_tc" /\ sampled' = sr.err /\ UNCHANGED <<sent, dr, sr, tx>>
  /\ \/ tx.tc /\ UartReturn("OK")
     \/ ~tx.tc /\ uart_call.polls = 0 /\ UartReturn("TIMEOUT")
     \/ /\ ~tx.tc /\ uart_call.polls > 0
        /\ uart_call' = [uart_call EXCEPT !.polls = @ - 1] /\ UNCHANGED <<reply, got>>

UartInit ==
  /\ sent = 0 /\ dr = [byte |-> 0, damaged |-> FALSE]
  /\ sr = [rxne |-> FALSE, err |-> {}] /\ sampled = {}
  /\ tx = [dr |-> FALSE, shift |-> FALSE, tc |-> TRUE]
  /\ uart_call = UartIdle /\ reply = [op |-> "none", status |-> "OK"] /\ got = <<>>

UartCall ==
  \/ uart_getc_nonblocking \/ uart_getc_timeout \/ uart_read_timeout
  \/ uart_flush_rx \/ uart_putc \/ uart_wait_tx_complete
UartStep ==
  \/ Poll \/ Sample \/ Take \/ Drain \/ ClearSr \/ ClearDr
  \/ Putc \/ WriteDr \/ WaitTc
UartNext == Receive \/ Transmit \/ UartCall \/ UartStep

UartSpec == UartInit /\ [][UartNext]_uart_vars
-----------------------------------------------------------------------------
(* Properties *)

\* The bytes callers are given are undamaged consecutive bytes of the line,
\* each once, unless some call in between returned an error or flushed: a
\* byte lost in any gap between two register accesses is told to a caller
\* before a later byte is delivered (uart_getc_nonblocking, uart_flush_rx).  And
\* when uart_wait_tx_complete has answered OK every byte given to the transmitter
\* is on the wire: the reply before a reset is not cut off.
AnswersAreTrue ==
  /\ \A i \in DOMAIN got : ~got[i].damaged
  /\ \A i \in 1..(Len(got) - 1) : got[i + 1].byte = got[i].byte + 1
  /\ reply.op = "wait" /\ reply.status = "OK" /\ uart_call = UartIdle => ~tx.dr /\ ~tx.shift
=============================================================================
