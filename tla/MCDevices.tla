----------------------------- MODULE MCDevices -----------------------------
EXTENDS Devices

MCArgs == {-1, 1}

(* What is read again: not the slots of buf that are free, nor a character  *)
(* that is done with.                                                       *)
View == <<r, w, e, Slots(r, e), consLock, uartVars, rx, hpc, echo, prn, procVars, clockVars,
          IF hpc \in {"idle", "tx", "rx"} THEN Plain ELSE hc>>

(* The terminal moves while the clock stands still, and the clock while     *)
(* nothing has happened at the terminal: no step of one reads the other.    *)
Apart ==
  \/ ticks = 0 /\ \A s \in Sleeper : at[s] = "idle"
  \/ r = 0 /\ e = 0 /\ fifo = 0 /\ rx = 0 /\ hpc = "idle" /\ prn = "idle" /\ ~txBusy
     /\ \A p \in Process : pc[p] = "idle"
=============================================================================
