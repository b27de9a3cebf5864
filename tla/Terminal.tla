------------------------------ MODULE Terminal ------------------------------
(***************************************************************************)
(* The console (kernel/console.c) on the UART (kernel/uart.c): processes   *)
(* that read lines and write, the interrupt handler that takes what is     *)
(* typed and echoes it, and a printf() on another CPU.                     *)
(*                                                                         *)
(* tx_lock is held within a step only; cons.lock is a variable, since it   *)
(* is held while the handler spins on the transmitter and while a reader   *)
(* copies a line.  Output is counted, not kept: fifo is how many bytes the *)
(* transmitter holds.                                                      *)
(***************************************************************************)
EXTENDS Integers

CONSTANTS
  Reader, Writer,      \* processes
  None, Handler,
  INPUT_BUF_SIZE,
  Wrap,                \* 2^32: the indices are uints
  MaxRead, MaxWrite,   \* bounds: bytes per call
  MaxTyped             \* bound: characters typed at a time

ASSUME ProcessAssumption == Reader \cap Writer = {}
ASSUME HandlerAssumption == Handler # None /\ {None, Handler} \cap (Reader \cup Writer) = {}
ASSUME BufferAssumption ==
  INPUT_BUF_SIZE \in Nat \ {0} /\ Wrap \in Nat /\ Wrap > INPUT_BUF_SIZE /\ Wrap % INPUT_BUF_SIZE = 0

VARIABLES
  r, w, e, buf,  \* cons
  consLock,      \* who holds cons.lock: a reader, Handler or None
  txBusy,        \* tx_busy
  fifo,          \* bytes in the transmitter
  txIrq,         \* it has become empty, and the interrupt is not acknowledged
  rx,            \* how many characters it has received
  hpc,           \* where the interrupt handler is
  hc,            \* its character
  echo,          \* bytes it has yet to echo
  prn,           \* printf(): "idle", "spin" or "put"
  pc, left, n,   \* a call's place, bytes left, and bytes asked for
  killed

consVars == <<r, w, e, buf>>
uartVars == <<txBusy, fifo, txIrq>>
intrVars == <<hpc, hc, echo>>
procVars == <<pc, left, n, killed>>
termVars == <<consVars, consLock, uartVars, rx, intrVars, prn, procVars>>

Process == Reader \cup Writer
Plain == "x"
Newline == "nl"
Eof == "^D"
Char == {Plain, Newline, Eof}
Keys == Char \cup {"^H", "^U"}

Used == (e - r) % Wrap
Slot(i) == i % INPUT_BUF_SIZE

TermInit ==
  /\ r = 0 /\ w = 0 /\ e = 0 /\ buf = [i \in 0..(INPUT_BUF_SIZE - 1) |-> Plain]
  /\ consLock = None
  /\ txBusy = FALSE /\ fifo = 0 /\ txIrq = FALSE /\ rx = 0
  /\ hpc = "idle" /\ hc = Plain /\ echo = 0 /\ prn = "idle"
  /\ pc = [p \in Process |-> "idle"] /\ left = [p \in Process |-> 0]
  /\ n = [p \in Process |-> 0] /\ killed = [p \in Process |-> FALSE]

Goto(p, where) == pc' = [pc EXCEPT ![p] = where]
(* wakeup() of the processes of S that are asleep. *)
Woken(S, where) == [p \in Process |-> IF p \in S /\ pc[p] = "asleep" THEN where ELSE pc[p]]

-----------------------------------------------------------------------------
(* The device. *)
KeyPressed ==
  /\ rx < MaxTyped /\ rx' = rx + 1
  /\ UNCHANGED <<consVars, consLock, uartVars, intrVars, prn, procVars>>

Transmit ==
  /\ fifo > 0 /\ fifo' = fifo - 1
  /\ txIrq' = (txIrq \/ fifo = 1)
  /\ UNCHANGED <<consVars, consLock, txBusy, rx, intrVars, prn, procVars>>

Idle == fifo = 0     \* LSR_TX_IDLE
Put == fifo' = fifo + 1 /\ UNCHANGED txIrq

-----------------------------------------------------------------------------
(* uartwrite(), below consolewrite() *)

WriteStart(p) ==
  /\ pc[p] = "idle" /\ p \in Writer
  /\ \E k \in 1..MaxWrite : left' = [left EXCEPT ![p] = k]
  /\ Goto(p, "write")
  /\ UNCHANGED <<consVars, consLock, uartVars, rx, intrVars, prn, n, killed>>

WriteSleep(p) ==
  /\ pc[p] = "write" /\ txBusy
  /\ Goto(p, "asleep")
  /\ UNCHANGED <<consVars, consLock, uartVars, rx, intrVars, prn, left, n, killed>>

(* Without a look at the transmitter: it is idle, or full of echoes.  The   *)
(* next byte finds tx_busy set, or is of the next batch.                    *)
WriteByte(p) ==
  /\ pc[p] = "write" /\ ~txBusy
  /\ Put /\ txBusy' = TRUE
  /\ left' = [left EXCEPT ![p] = @ - 1]
  /\ \E where \in IF left[p] = 1 THEN {"idle"} ELSE {"asleep", "write"} : Goto(p, where)
  /\ UNCHANGED <<consVars, consLock, rx, intrVars, prn, n, killed>>

(* uartputc_sync() of a printf(): it finds the transmitter idle, and puts.  *)
Printf ==
  /\ \/ prn = "idle" /\ prn' = "spin" /\ UNCHANGED uartVars
     \/ prn = "spin" /\ Idle /\ prn' = "put" /\ UNCHANGED uartVars
     \/ prn = "put" /\ Put /\ prn' = "idle" /\ UNCHANGED txBusy
  /\ UNCHANGED <<consVars, consLock, rx, intrVars, procVars>>

-----------------------------------------------------------------------------
(* uartintr() *)

(* The PLIC has one interrupt of the UART at a time. *)
IntrEnter ==
  /\ hpc = "idle" /\ (txIrq \/ rx > 0)
  /\ hpc' = "tx" /\ txIrq' = FALSE
  /\ UNCHANGED <<consVars, consLock, txBusy, fifo, rx, hc, echo, prn, procVars>>

(* Wrong: leaves tx_busy to the writer it wakes. *)
IntrTxBusy ==
  /\ hpc = "tx" /\ hpc' = "rx"
  /\ pc' = IF Idle THEN Woken(Writer, "write") ELSE pc
  /\ UNCHANGED <<consVars, consLock, uartVars, rx, hc, echo, prn, left, n, killed>>

IntrTx ==
  /\ hpc = "tx" /\ hpc' = "rx"
  /\ IF Idle
     THEN txBusy' = FALSE /\ pc' = Woken(Writer, "write")
     ELSE UNCHANGED <<txBusy, pc>>
  /\ UNCHANGED <<consVars, consLock, fifo, txIrq, rx, hc, echo, prn, left, n, killed>>

(* uartgetc(), and which key it was. *)
IntrGetc ==
  /\ hpc = "rx"
  /\ IF rx = 0 THEN hpc' = "idle" /\ UNCHANGED <<rx, hc>>
     ELSE hpc' = "cons" /\ hc' \in Keys /\ rx' = rx - 1
  /\ UNCHANGED <<consVars, consLock, uartVars, echo, prn, procVars>>

(* consoleintr(): acquire, and what it does before it echoes. *)
(* Wrong: erases what a reader may have been given. *)
MayEraseMore == hc \in {"^H", "^U"} /\ e # r
MayErase == hc \in {"^H", "^U"} /\ e # w /\ (hc = "^U" => buf[Slot(e - 1)] # Newline)
MayStore == hc \in Char /\ Used < INPUT_BUF_SIZE

ConsStart ==
  /\ hpc = "cons" /\ consLock \in {None, Handler}
  /\ \/ /\ \/ MayErase /\ e' = (e - 1) % Wrap /\ echo' = 3
           \/ MayStore /\ echo' = 1 /\ UNCHANGED e
        /\ hpc' = "echo" /\ consLock' = Handler
     \/ ~MayErase /\ ~MayStore /\ hpc' = "rx" /\ consLock' = None /\ UNCHANGED <<e, echo>>
  /\ UNCHANGED <<r, w, buf, uartVars, rx, hc, prn, procVars>>

(* consputc(): spin, then put; as for printf(), others come in between.     *)
EchoSpin ==
  /\ hpc = "echo" /\ Idle /\ hpc' = "put"
  /\ UNCHANGED <<consVars, consLock, uartVars, rx, hc, echo, prn, procVars>>

(* After the echo: ^U goes on, ^H is done, a character is stored.           *)
EchoPut ==
  /\ hpc = "put" /\ Put /\ echo' = echo - 1
  /\ IF echo > 1 THEN hpc' = "echo" /\ UNCHANGED consLock
     ELSE /\ hpc' = (CASE hc = "^U" -> "cons" [] hc = "^H" -> "rx" [] OTHER -> "store")
          /\ consLock' = IF hc = "^H" THEN None ELSE Handler
  /\ UNCHANGED <<consVars, txBusy, rx, hc, prn, procVars>>

WholeLine(u) == hc \in {Newline, Eof} \/ u = INPUT_BUF_SIZE

(* The character, and the wakeup for a whole line or a full buffer. *)
ConsStore ==
  /\ hpc = "store" /\ hpc' = "rx" /\ consLock' = None
  /\ buf' = [buf EXCEPT ![Slot(e)] = hc]
  /\ e' = (e + 1) % Wrap
  /\ IF WholeLine(Used + 1) THEN w' = e' /\ pc' = Woken(Reader, "read") ELSE UNCHANGED <<w, pc>>
  /\ UNCHANGED <<r, uartVars, rx, hc, echo, prn, left, n, killed>>

-----------------------------------------------------------------------------
(* consoleread() *)

ReadStart(p) ==
  /\ pc[p] = "idle" /\ p \in Reader
  /\ \E k \in 1..MaxRead : left' = [left EXCEPT ![p] = k] /\ n' = [n EXCEPT ![p] = k]
  /\ Goto(p, "read")
  /\ UNCHANGED <<consVars, consLock, uartVars, rx, intrVars, prn, killed>>

(* The victim of a kill exits when its call returns. *)
ReadReturn(p) ==
  /\ Goto(p, "idle") /\ consLock' = None
  /\ left' = [left EXCEPT ![p] = 0] /\ n' = [n EXCEPT ![p] = 0]
  /\ killed' = [killed EXCEPT ![p] = FALSE]

MayRead(p) == \/ pc[p] = "read" /\ consLock = None
              \/ pc[p] = "more" /\ consLock = p

(* Nothing to read: returns when killed, or sleeps. *)
ReadSleep(p) ==
  /\ MayRead(p) /\ r = w
  /\ IF killed[p] THEN ReadReturn(p)
     ELSE Goto(p, "asleep") /\ consLock' = None /\ UNCHANGED <<left, n, killed>>
  /\ UNCHANGED <<consVars, uartVars, rx, intrVars, prn>>

PutBack(p) == left[p] < n[p]

(* A byte is read; the copy may fail. *)
ReadByte(p) ==
  LET c == buf[Slot(r)] IN
  /\ MayRead(p) /\ r # w
  /\ r' = IF c = Eof /\ PutBack(p) THEN r ELSE (r + 1) % Wrap
  /\ \/ ReadReturn(p)
     \/ /\ c = Plain /\ left[p] > 1
        /\ Goto(p, "more") /\ consLock' = p
        /\ left' = [left EXCEPT ![p] = @ - 1] /\ UNCHANGED <<n, killed>>
  /\ UNCHANGED <<w, e, buf, uartVars, rx, intrVars, prn>>

(* kkill() *)
KillReader(p) ==
  /\ p \in Reader /\ pc[p] # "idle" /\ ~killed[p]
  /\ killed' = [killed EXCEPT ![p] = TRUE]
  /\ pc' = IF pc[p] = "asleep" THEN [pc EXCEPT ![p] = "read"] ELSE pc
  /\ UNCHANGED <<consVars, consLock, uartVars, rx, intrVars, prn, left, n>>

-----------------------------------------------------------------------------
Intr == IntrEnter \/ IntrTx \/ IntrGetc \/ ConsStart \/ EchoSpin \/ EchoPut \/ ConsStore
Device == KeyPressed \/ Transmit
Call(p) == WriteStart(p) \/ WriteSleep(p) \/ WriteByte(p)
           \/ ReadStart(p) \/ ReadSleep(p) \/ ReadByte(p) \/ KillReader(p)
=============================================================================
