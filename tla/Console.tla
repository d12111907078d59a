------------------------------- MODULE Console -------------------------------
(***************************************************************************)
(* kernel/drivers/console.c: console_read(), console_ioctl() and the input *)
(* interrupt handler.                                                      *)
(*                                                                         *)
(* g_console.lock protects the ring and the terminal settings, but         *)
(* console_read() fetches c_cc[VMIN] and ICANON before it takes the lock.  *)
(* The handler holds the lock from beginning to end and is one step.  A    *)
(* canonical reader sleeps on the read index, a raw one on the clock.      *)
(* Time is kept as what is left of a reader's timeout.                     *)
(***************************************************************************)
EXTENDS Integers, Sequences

CONSTANTS
    Readers,
    Chars,          \* what can be typed; "nl", "cr", "eof", "del" and "ctl"
                    \* are the keys the code knows
    Modes,          \* settings: [icanon, icrnl, vmin, vtime (in ticks)]
    INPUT_BUF_SIZE,
    WORD32,         \* 2^32: r, w and e are uint32_t
    MaxRead,
    NoReader

ASSUME ConsoleAssumption ==
    /\ INPUT_BUF_SIZE \in Nat \ {0}
    /\ WORD32 \in Nat /\ WORD32 > INPUT_BUF_SIZE /\ WORD32 % INPUT_BUF_SIZE = 0
    /\ NoReader \notin Readers
    /\ Modes \subseteq [icanon : BOOLEAN, icrnl : BOOLEAN, vmin : Nat, vtime : Nat]
    /\ MaxRead \in Nat

VARIABLES
    buf, r, w, e, termios,      \* g_console
    con_lock,                   \* holder of g_console.lock
    rpc, rkilled,
    n, got,                     \* bytes wanted still; bytes copied out
    termios_target, canonical,  \* locals of console_read()
    timeout,                    \* ticks left
    ret                         \* return value, on the way back to the caller

conVars == <<buf, r, w, e, termios, con_lock, rpc, rkilled, n, got, termios_target,
          canonical, timeout, ret>>
ring == <<buf, r, w, e>>
call == <<n, got, termios_target, canonical>>

ReaderHolding == {"outer", "wait"}
ReaderLabels == ReaderHolding \cup {"user", "lock", "r_sleep", "t_sleep", "r_woken",
                        "return", "exited"}

ESRCH == -3
Ring(i) == i % INPUT_BUF_SIZE
Minus(a, b) == (a + WORD32 - b) % WORD32
ReaderAt(p, label) == rpc' = [rpc EXCEPT ![p] = label]
WakeReaders(chan) ==
    rpc' = [q \in Readers |-> IF rpc[q] = chan THEN "r_woken" ELSE rpc[q]]

ConInit ==
    /\ buf = [i \in 0 .. (INPUT_BUF_SIZE - 1) |-> "nul"]
    /\ r = 0 /\ w = 0 /\ e = 0
    /\ termios = [icanon |-> TRUE, icrnl |-> TRUE, vmin |-> 1, vtime |-> 0]
    /\ con_lock = NoReader
    /\ rpc = [p \in Readers |-> "user"]
    /\ rkilled = [p \in Readers |-> FALSE]
    /\ n = [p \in Readers |-> 0] /\ got = [p \in Readers |-> 0]
    /\ termios_target = [p \in Readers |-> 0]
    /\ canonical = [p \in Readers |-> TRUE]
    /\ timeout = [p \in Readers |-> 0]
    /\ ret = [p \in Readers |-> 0]
-----------------------------------------------------------------------------
(* Keys that console_handle_control_keys() takes away in canonical mode:   *)
(* ^D is one of them.                                                      *)
Control == {"ctl", "eof"}

Erase_ready ==      \* fault: erases what was handed over already
    /\ IF e # r THEN e' = Minus(e, 1) ELSE UNCHANGED e
    /\ UNCHANGED <<buf, r, w, rpc>>

Erase ==
    /\ IF e # w THEN e' = Minus(e, 1) ELSE UNCHANGED e
    /\ UNCHANGED <<buf, r, w, rpc>>

Full == Minus(e, r) >= INPUT_BUF_SIZE

Submit(c) ==
    \/ ~termios.icanon
    \/ c \in {"nl", "eof"}
    \/ Minus((e + 1) % WORD32, r) = INPUT_BUF_SIZE

Store_silent(c) ==  \* fault: no wakeup
    /\ ~Full
    /\ buf' = [buf EXCEPT ![Ring(e)] = c]
    /\ e' = (e + 1) % WORD32
    /\ w' = IF Submit(c) THEN e' ELSE w
    /\ UNCHANGED <<r, rpc>>

Store(c) ==
    /\ ~Full
    /\ buf' = [buf EXCEPT ![Ring(e)] = c]
    /\ e' = (e + 1) % WORD32
    /\ IF Submit(c) THEN w' = e' /\ WakeReaders("r_sleep") ELSE UNCHANGED <<w, rpc>>
    /\ UNCHANGED r

(* console_interrupt_handler(c)                                            *)
Interrupt(c) ==
    /\ con_lock = NoReader
    /\ \/ /\ termios.icanon /\ c = "del"
          /\ Erase
       \/ /\ termios.icanon /\ c \in Control
          /\ UNCHANGED <<ring, rpc>>
       \/ /\ ~(termios.icanon /\ c \in Control \cup {"del"})
          /\ Store(IF c = "cr" /\ termios.icrnl THEN "nl" ELSE c)
    /\ UNCHANGED <<termios, con_lock, rkilled, call, timeout, ret>>

(* console_ioctl(TCSETA)                                                   *)
SetTermios(m) ==
    /\ con_lock = NoReader
    /\ termios' = m
    /\ UNCHANGED <<ring, con_lock, rpc, rkilled, call, timeout, ret>>

(* The clock: wakes whoever sleeps on g_ticks.                             *)
Tick ==
    /\ \E p \in Readers : timeout[p] > 0 \/ rpc[p] = "t_sleep"
    /\ timeout' = [p \in Readers |-> IF timeout[p] > 0 THEN timeout[p] - 1 ELSE 0]
    /\ WakeReaders("t_sleep")
    /\ UNCHANGED <<ring, termios, con_lock, rkilled, call, ret>>

KillReader(p) ==
    /\ ~rkilled[p] /\ rpc[p] # "exited"
    /\ rkilled' = [rkilled EXCEPT ![p] = TRUE]
    /\ ReaderAt(p, IF rpc[p] \in {"r_sleep", "t_sleep"} THEN "r_woken" ELSE rpc[p])
    /\ UNCHANGED <<ring, termios, con_lock, call, timeout, ret>>

ReaderExit(p) ==
    /\ rkilled[p] /\ rpc[p] = "user"
    /\ ReaderAt(p, "exited")
    /\ UNCHANGED <<ring, termios, con_lock, rkilled, call, timeout, ret>>
-----------------------------------------------------------------------------
(* console_read() up to spin_lock(): the settings are read without it.     *)
ReadCall(p) ==
    /\ rpc[p] = "user" /\ ~rkilled[p]
    /\ \E k \in 1 .. MaxRead : n' = [n EXCEPT ![p] = k]
    /\ termios_target' = [termios_target EXCEPT ![p] = termios.vmin]
    /\ canonical' = [canonical EXCEPT ![p] = termios.icanon]
    /\ ReaderAt(p, "lock")
    /\ UNCHANGED <<ring, termios, con_lock, rkilled, got, timeout, ret>>

(* The two loads may happen at any time until the lock is taken, in either *)
(* order: one may see the settings before a change and one those after.    *)
ReadFetch(p) ==
    /\ rpc[p] = "lock"
    /\ \/ /\ termios_target' = [termios_target EXCEPT ![p] = termios.vmin]
          /\ UNCHANGED canonical
       \/ /\ canonical' = [canonical EXCEPT ![p] = termios.icanon]
          /\ UNCHANGED termios_target
    /\ UNCHANGED <<ring, termios, con_lock, rpc, rkilled, n, got, timeout, ret>>

ReadLocks(p) ==
    /\ rpc[p] = "lock" /\ con_lock = NoReader
    /\ con_lock' = p
    /\ ReaderAt(p, "outer")
    /\ UNCHANGED <<ring, termios, rkilled, call, timeout, ret>>

(* Head of the outer loop: a new timeout for every byte.                   *)
ReadByteWanted(p) ==
    /\ rpc[p] = "outer"
    /\ timeout' = [timeout EXCEPT ![p] = termios.vtime]
    /\ ReaderAt(p, "wait")
    /\ UNCHANGED <<ring, termios, con_lock, rkilled, call, ret>>

ReturnRead(p, value) ==
    /\ con_lock' = NoReader
    /\ ReaderAt(p, "return")
    /\ ret' = [ret EXCEPT ![p] = value]
    /\ UNCHANGED <<buf, w, e, termios, rkilled, n, termios_target, canonical,
                   timeout>>

(* Back to the caller; a killed process exits instead.                     *)
Resume(p) ==
    /\ rpc[p] = "return"
    /\ ReaderAt(p, IF rkilled[p] THEN "exited" ELSE "user")
    /\ ret' = [ret EXCEPT ![p] = 0]
    /\ n' = [n EXCEPT ![p] = 0]
    /\ got' = [got EXCEPT ![p] = 0]
    /\ termios_target' = [termios_target EXCEPT ![p] = 0]
    /\ canonical' = [canonical EXCEPT ![p] = TRUE]
    /\ timeout' = [timeout EXCEPT ![p] = 0]
    /\ UNCHANGED <<ring, termios, con_lock, rkilled>>

ReadKilled(p) ==
    /\ rpc[p] = "wait" /\ r = w /\ rkilled[p]
    /\ UNCHANGED <<r, got>>
    /\ ReturnRead(p, ESRCH)

ReadSleeps(p) ==
    /\ rpc[p] = "wait" /\ r = w /\ ~rkilled[p]
    /\ canonical[p] \/ timeout[p] > 0
    /\ con_lock' = NoReader
    /\ ReaderAt(p, IF canonical[p] THEN "r_sleep" ELSE "t_sleep")
    /\ UNCHANGED <<ring, termios, rkilled, call, timeout, ret>>

ReadTimeout(p) ==
    /\ rpc[p] = "wait" /\ r = w /\ ~rkilled[p]
    /\ ~canonical[p] /\ timeout[p] = 0
    /\ UNCHANGED <<r, got>>
    /\ ReturnRead(p, 0)

ReadWoken(p) ==
    /\ rpc[p] = "r_woken" /\ con_lock = NoReader
    /\ con_lock' = p
    /\ ReaderAt(p, "wait")
    /\ UNCHANGED <<ring, termios, rkilled, call, timeout, ret>>

Next1 == (r + 1) % WORD32

(* ^D ends the call; it stays in the buffer if bytes were read before it.  *)
ReadEof(p) ==
    /\ rpc[p] = "wait" /\ r # w /\ buf[Ring(r)] = "eof"
    /\ r' = IF got[p] > 0 THEN r ELSE Next1
    /\ UNCHANGED got
    /\ ReturnRead(p, got[p])

(* The byte is taken but cannot be copied out.                             *)
TakeFault(p) ==
    /\ rpc[p] = "wait" /\ r # w /\ buf[Ring(r)] # "eof"
    /\ r' = Next1
    /\ UNCHANGED got
    /\ ReturnRead(p, got[p])

(* Is the byte c the last one of this call?                                *)
Last(p, c) ==
    \/ n[p] = 1
    \/ canonical[p] /\ c = "nl"
    \/ ~canonical[p] /\ termios_target[p] - 1 <= 0

TakeByte(p) ==
    /\ rpc[p] = "wait" /\ r # w /\ buf[Ring(r)] # "eof"
    /\ r' = Next1
    /\ got' = [got EXCEPT ![p] = @ + 1]
    /\ IF Last(p, buf[Ring(r)])
         THEN ReturnRead(p, got[p] + 1)
         ELSE /\ n' = [n EXCEPT ![p] = @ - 1]
              /\ termios_target' = [termios_target EXCEPT ![p] = @ - 1]
              /\ ReaderAt(p, "outer")
              /\ UNCHANGED <<buf, w, e, termios, con_lock, rkilled, canonical,
                             timeout, ret>>
-----------------------------------------------------------------------------
ConStep(p) ==
    \/ ReadFetch(p) \/ ReadLocks(p) \/ ReadByteWanted(p) \/ ReadKilled(p)
    \/ ReadSleeps(p) \/ ReadTimeout(p) \/ ReadWoken(p) \/ ReadEof(p) \/ TakeFault(p)
    \/ TakeByte(p) \/ Resume(p)

Others ==
    \/ \E p \in Readers : ReadCall(p) \/ ConStep(p) \/ KillReader(p) \/ ReaderExit(p)
    \/ \E m \in Modes : SetTermios(m)
    \/ Tick

ConNext == Others \/ \E c \in Chars : Interrupt(c)

ConSpec == ConInit /\ [][ConNext]_conVars
-----------------------------------------------------------------------------
ConTypeOK ==
    /\ buf \in [0 .. (INPUT_BUF_SIZE - 1) -> Chars \cup {"nul", "nl"}]
    /\ {r, w, e} \subseteq 0 .. (WORD32 - 1)
    /\ termios \in Modes \cup {[icanon |-> TRUE, icrnl |-> TRUE, vmin |-> 1,
                                vtime |-> 0]}
    /\ con_lock \in Readers \cup {NoReader}
    /\ rpc \in [Readers -> ReaderLabels] /\ rkilled \in [Readers -> BOOLEAN]
    /\ n \in [Readers -> 0 .. MaxRead] /\ got \in [Readers -> 0 .. MaxRead]
    /\ termios_target \in [Readers -> Int] /\ canonical \in [Readers -> BOOLEAN]
    /\ timeout \in [Readers -> Nat] /\ ret \in [Readers -> Int]

(* The characters between two indices.                                     *)
Between(a, b) ==
    [k \in 1 .. Minus(b, a) |-> buf[Ring((a + k - 1) % WORD32)]]

Tty == INSTANCE TtyQueue WITH
    Chars <- Chars \cup {"nl"}, Capacity <- INPUT_BUF_SIZE,
    ready <- Between(r, w), edit <- Between(w, e)

(* console_interrupt_handler() and console_read() implement the line       *)
(* discipline for any number of readers, changes of mode in the middle of  *)
(* a line, kills, copy faults and index wrap-around: nothing is read       *)
(* twice, skipped, overwritten or erased after it was handed over.         *)
RefinesTty == Tty!TSpec

(* With the lock free, a canonical reader sleeps only while nothing was    *)
(* handed over: every way in which a line ends wakes it, also when the     *)
(* terminal was switched to raw mode since it fetched the mode.            *)
NoReaderForgotten ==
    con_lock = NoReader => \A p \in Readers : rpc[p] = "r_sleep" => r = w

(* A full buffer can be read, so the console cannot get stuck with input   *)
(* being refused and readers asleep.                                       *)
FullIsReadable == Minus(e, r) = INPUT_BUF_SIZE => w = e

(* read() returns the number of bytes it has put into the caller's buffer, *)
(* whichever way it ends: end of file, fault, end of line, enough bytes.   *)
(* A killed caller does not see the result, and a raw read() that times    *)
(* out returns 0 whatever it has copied before (console_read() says        *)
(* `return 0` there).                                                      *)
ReturnsWhatItCopied ==
    \A p \in Readers : rpc[p] = "return" =>
        \/ ret[p] \in {got[p], ESRCH}
        \/ ~canonical[p] /\ ret[p] = 0

(* The console's reader and its interrupt together: no reader sleeps on input it *)
(* may take, a full buffer can be read, and a read returns what it copied.       *)
ConsoleSafe ==
    /\ ConTypeOK
    /\ NoReaderForgotten
    /\ FullIsReadable
    /\ ReturnsWhatItCopied
=============================================================================
