------------------------------ MODULE Devices ------------------------------
(***************************************************************************)
(* The devices devintr() of kernel/trap.c knows beside the disk: the       *)
(* terminal and the clock.                                                 *)
(***************************************************************************)
EXTENDS Terminal, Clock

vars == <<termVars, clockVars>>

Init == TermInit /\ ClockInit

TerminalNext == Intr \/ Device \/ Printf \/ \E p \in Process : Call(p)
ClockNext == Clockintr \/ \E s \in Sleeper : SleeperStep(s)

(* The two share nothing but the CPU of a handler, which delays the clock.  *)
Next == \/ TerminalNext /\ UNCHANGED clockVars
        \/ ClockNext /\ UNCHANGED termVars

Spec == Init /\ [][Next]_vars

-----------------------------------------------------------------------------
(* uart.c:86 and console.c:97 sleep on what the handler will change: a      *)
(* writer asleep is waited for by the transmitter, its interrupt or the     *)
(* handler that has not looked yet, and a reader asleep has nothing to read.*)
WaitsForDevice ==
  \A p \in Process : pc[p] = "asleep" =>
    IF p \in Writer THEN txBusy /\ (fifo > 0 \/ txIrq \/ hpc = "tx") ELSE r = w

(* console.c:152, :159, :177: what is typed can be erased until its line is *)
(* whole, and is then read once, in order, however the indices wrap.        *)
Slots(i, j) == [k \in 1..((j - i) % Wrap) |-> buf[Slot(i + k - 1)]]
Lines == INSTANCE LineQueue WITH
  EndOfLine <- {Newline, Eof}, Size <- INPUT_BUF_SIZE, ready <- Slots(r, w), edit <- Slots(w, e)
LineSpec == Lines!Spec

(* sysproc.c:77: whoever sleeps has time left, also when ticks has wrapped; *)
(* a tick wakes all, so nobody sleeps through the end of its time.          *)
OnTime == \A s \in Sleeper : at[s] \in {"sleep", "asleep"} => Elapsed(s) < for[s]
=============================================================================
