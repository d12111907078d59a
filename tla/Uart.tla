-------------------------------- MODULE Uart --------------------------------
(* Output of drivers/uart16550.c: the ring that write() fills (uart_putc),   *)
(* the synchronous path of printk() and of the echo (uart_putc_sync), and    *)
(* the interrupt handler, on a device with a transmit FIFO.                  *)
(*                                                                           *)
(* The ring is protected by uart_tx_lock; the device is not: whoever saw the *)
(* transmitter idle may find, when the byte is written, that another CPU     *)
(* wrote one in between. On Spike the transmit interrupt stays disabled, and *)
(* a writer asleep on a full ring is then never woken; the model has the     *)
(* interrupt, as the other platforms do.                                     *)
EXTENDS Integers, Sequences, FiniteSets
CONSTANTS Writers, Printers, Handler,   \* the CPUs' threads in the driver
          UART_TX_BUF_SIZE, FifoBytes,
          MaxPuts, MaxInput             \* bounds: bytes per thread, bytes received
VARIABLES uart,       \* uart_tx_buf, uart_tx_r, uart_tx_w and the lock's holder
          hw,         \* FIFO, pending transmit interrupt, bytes received
          ut,         \* thread -> step, bytes done, byte in hand
          queued      \* history: what went into the ring and not yet over the wire
uartVars == <<uart, hw, ut, queued>>

UartThreads == Writers \cup Printers \cup {Handler}
NoCaller == "nobody"
TxIdle == hw.fifo = <<>>          \* LSR_TX_IDLE
Step(t, s) == [ut EXCEPT ![t].at = s]
Release(t) == /\ uart' = [uart EXCEPT !.lock = NoCaller]
              /\ ut' = [ut EXCEPT ![t].at = "idle"]

\* uart_init() enables the FIFO.
UartSetup == FifoBytes

\* A byte for the transmit register: beyond the FIFO it is lost.
WriteThr(b) == [hw EXCEPT !.fifo = IF Len(@) < UartSetup THEN Append(@, b) ELSE @,
                          !.tx_irq = FALSE]

(***************************************************************************)
(* uart_putc() and uart_send_buffer(), under uart_tx_lock.                 *)
(***************************************************************************)
AfterStore == "send"

UartPutc(t) ==
  LET full == uart.w = uart.r + UART_TX_BUF_SIZE
      b == <<t, ut[t].n>> IN
  /\ uart.lock = NoCaller
  /\ ut[t].at = "woken" \/ (ut[t].at = "idle" /\ ut[t].n < MaxPuts)
  /\ IF full THEN ut' = Step(t, "asleep") /\ UNCHANGED <<uart, queued>>
     ELSE /\ uart' = [uart EXCEPT !.buf[uart.w % UART_TX_BUF_SIZE] = b, !.w = @ + 1, !.lock = t]
          /\ ut' = [ut EXCEPT ![t] = [@ EXCEPT !.at = AfterStore, !.n = @ + 1]]
          /\ queued' = Append(queued, b)
  /\ UNCHANGED hw

\* Fault: the sleeping writers are not woken.
Wake_none(s) == s

Wake(s) == [t \in UartThreads |-> IF s[t].at = "asleep" THEN [s[t] EXCEPT !.at = "woken"] ELSE s[t]]

UartSendBuffer(t) ==
  /\ ut[t].at = "send"
  /\ IF uart.w = uart.r \/ ~TxIdle THEN ut' = Step(t, "done") /\ UNCHANGED uart
     ELSE /\ uart' = [uart EXCEPT !.r = @ + 1]
          /\ ut' = Wake([ut EXCEPT ![t] = [@ EXCEPT !.at = "thr",
                                  !.c = uart.buf[uart.r % UART_TX_BUF_SIZE]]])
  /\ UNCHANGED <<hw, queued>>

SendByte(t) ==
  /\ ut[t].at = "thr"
  /\ hw' = WriteThr(ut[t].c)
  /\ ut' = Step(t, "send")
  /\ UNCHANGED <<uart, queued>>

UartUnlock(t) == ut[t].at = "done" /\ Release(t) /\ UNCHANGED <<hw, queued>>

(***************************************************************************)
(* uart_putc_sync(), from console_putc(): no lock of the driver.           *)
(***************************************************************************)
ConsolePutc(t) ==
  /\ ut[t].at = "idle" /\ t \in Printers /\ ut[t].n < MaxPuts
  /\ ut' = [ut EXCEPT ![t] = [@ EXCEPT !.at = "sync", !.n = @ + 1]]
  /\ UNCHANGED <<uart, hw, queued>>

UartPutcSync(t) ==
  /\ \/ ut[t].at = "sync" /\ TxIdle /\ ut' = Step(t, "sync thr") /\ UNCHANGED hw
     \/ /\ ut[t].at = "sync thr" /\ hw' = WriteThr(<<t, ut[t].n>>)
        /\ ut' = Step(t, IF t = Handler THEN "input" ELSE "idle")
  /\ UNCHANGED <<uart, queued>>

(***************************************************************************)
(* uart_interrupt_handler(): reading the status clears the transmit cause. *)
(***************************************************************************)
UartInterruptHandler ==
  /\ ut[Handler].at = "idle" /\ uart.lock = NoCaller
  /\ hw.rx > 0 \/ hw.tx_irq
  /\ uart' = [uart EXCEPT !.lock = Handler]
  /\ \/ hw.rx > 0 /\ ut' = Step(Handler, "input") /\ UNCHANGED hw
     \/ hw.rx = 0 /\ ut' = Step(Handler, "send") /\ hw' = [hw EXCEPT !.tx_irq = FALSE]
  /\ UNCHANGED queued

\* uart_getc() until nothing is left; every byte is echoed by the console.
UartHandleInput ==
  /\ ut[Handler].at = "input"
  /\ IF hw.rx = 0 THEN ut' = Step(Handler, "done") /\ UNCHANGED hw
     ELSE hw' = [hw EXCEPT !.rx = @ - 1] /\ ut' = Step(Handler, "sync")
  /\ UNCHANGED <<uart, queued>>

(***************************************************************************)
(* The device.                                                             *)
(***************************************************************************)
Transmit == /\ hw.fifo # <<>>
            /\ queued' = IF Head(hw.fifo)[1] \in Writers THEN Tail(queued) ELSE queued
            /\ hw' = [hw EXCEPT !.fifo = Tail(@), !.tx_irq = Len(hw.fifo) = 1]
            /\ UNCHANGED <<uart, ut>>

Receive == /\ hw.received < MaxInput
           /\ hw' = [hw EXCEPT !.rx = @ + 1, !.received = @ + 1]
           /\ UNCHANGED <<uart, ut, queued>>

UartsInit ==
  /\ uart = [buf |-> [i \in 0..(UART_TX_BUF_SIZE - 1) |-> <<>>], r |-> 0, w |-> 0, lock |-> NoCaller]
  /\ hw = [fifo |-> <<>>, tx_irq |-> FALSE, rx |-> 0, received |-> 0]
  /\ ut = [t \in UartThreads |-> [at |-> "idle", n |-> 0, c |-> <<>>]]
  /\ queued = <<>>

UartNext == \/ \E t \in Writers : UartPutc(t)
            \/ \E t \in UartThreads : UartSendBuffer(t) \/ SendByte(t) \/ UartUnlock(t)
            \/ \E t \in UartThreads : ConsolePutc(t) \/ UartPutcSync(t)
            \/ UartInterruptHandler \/ UartHandleInput \/ Transmit \/ Receive

UartSpec == UartsInit /\ [][UartNext]_uartVars

(***************************************************************************)
(* Properties.                                                             *)
(***************************************************************************)
InRing == [i \in 1..(uart.w - uart.r) |-> uart.buf[(uart.r + i - 1) % UART_TX_BUF_SIZE]]
InHand == LET S == {t \in UartThreads : ut[t].at = "thr"} IN
          IF S = {} THEN <<>> ELSE <<ut[CHOOSE t \in S : TRUE].c>>
FromWriters(s) == SelectSeq(s, LAMBDA b : b[1] \in Writers)

(* No byte of a write() is lost, doubled or overtaken between uart_putc() and  *)
(* the wire, although printk() and the echo write to the device beside the     *)
(* ring and without its lock.                                                  *)
BytesInOrder == FromWriters(hw.fifo) \o InHand \o InRing = queued

(* While the ring holds something, something will move it: a byte on its way   *)
(* out, whose departure interrupts, an interrupt that waits to be handled, or  *)
(* a thread inside uart_send_buffer(). So no writer sleeps on a full ring that *)
(* nobody empties, and none sleeps once there is room.                         *)
RingDrains ==
  /\ uart.w > uart.r => \/ hw.fifo # <<>> \/ hw.tx_irq
                        \/ \E t \in UartThreads : ut[t].at \in {"send", "thr"}
  /\ \A t \in Writers : ut[t].at = "asleep" => uart.w = uart.r + UART_TX_BUF_SIZE
=============================================================================
