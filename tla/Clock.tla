------------------------------- MODULE Clock -------------------------------
(***************************************************************************)
(* The clock: clockintr() of kernel/trap.c counts ticks on one CPU, and    *)
(* pause() and sleep2() of kernel/sysproc.c wait for them.  ticks, the     *)
(* time of a call and the argument compared with their difference are      *)
(* unsigned.  kkill() takes no tickslock: it may come between a caller's   *)
(* look at its killed flag and its sleep.                                  *)
(***************************************************************************)
EXTENDS Integers

CONSTANTS
  Sleeper,   \* processes that call pause() or sleep2()
  Nobody,
  TickWrap,  \* 2^32
  Args       \* the arguments of a call, negative ones included

ASSUME NobodyAssumption == Nobody \notin Sleeper
ASSUME TicksAssumption == TickWrap \in Nat \ {0} /\ Args \subseteq Int

VARIABLES
  ticks,
  tickslock,  \* the sleeper that holds it between its look and its sleep
  at,         \* a sleeper's place: "idle", "look", "sleep" or "asleep"
  ticks0, for,
  flagged     \* killed

clockVars == <<ticks, tickslock, at, ticks0, for, flagged>>

ClockInit ==
  /\ ticks = 0 /\ tickslock = Nobody
  /\ at = [s \in Sleeper |-> "idle"]
  /\ ticks0 = [s \in Sleeper |-> 0] /\ for = [s \in Sleeper |-> 0]
  /\ flagged = [s \in Sleeper |-> FALSE]

Elapsed(s) == (ticks - ticks0[s]) % TickWrap
MoveTo(s, place) == at' = [at EXCEPT ![s] = place]

(* pause() clamps its argument, sleep2() does not. *)
Ask(s) ==
  /\ at[s] = "idle" /\ tickslock = Nobody
  /\ \E a \in Args, sleep2 \in BOOLEAN :
       for' = [for EXCEPT ![s] = IF a < 0 /\ ~sleep2 THEN 0 ELSE a % TickWrap]
  /\ ticks0' = [ticks0 EXCEPT ![s] = ticks]
  /\ MoveTo(s, "look") /\ tickslock' = s
  /\ UNCHANGED <<ticks, flagged>>

MayLook(s) == \/ at[s] = "look" /\ tickslock = s
              \/ at[s] = "woken" /\ tickslock = Nobody

(* The look at the time and at the flag, tickslock held.  A victim exits   *)
(* as its call returns.                                                     *)
Look(s) ==
  /\ MayLook(s)
  /\ IF Elapsed(s) < for[s] /\ ~flagged[s]
     THEN MoveTo(s, "sleep") /\ tickslock' = s /\ UNCHANGED <<ticks0, for, flagged>>
     ELSE /\ MoveTo(s, "idle") /\ tickslock' = Nobody
          /\ ticks0' = [ticks0 EXCEPT ![s] = 0] /\ for' = [for EXCEPT ![s] = 0]
          /\ flagged' = [flagged EXCEPT ![s] = FALSE]
  /\ UNCHANGED ticks

(* sleep(&ticks, &tickslock) *)
Sleep(s) ==
  /\ at[s] = "sleep" /\ MoveTo(s, "asleep") /\ tickslock' = Nobody
  /\ UNCHANGED <<ticks, ticks0, for, flagged>>

(* Wrong: wakes only those whose time has come. *)
ClockintrOnTime ==
  /\ tickslock = Nobody
  /\ ticks' = (ticks + 1) % TickWrap
  /\ at' = [s \in Sleeper |-> IF at[s] = "asleep" /\ ticks' > ticks0[s] + for[s]
                              THEN "woken" ELSE at[s]]
  /\ UNCHANGED <<tickslock, ticks0, for, flagged>>

(* clockintr() on the CPU that counts. *)
Clockintr ==
  /\ tickslock = Nobody
  /\ ticks' = (ticks + 1) % TickWrap
  /\ at' = [s \in Sleeper |-> IF at[s] = "asleep" THEN "woken" ELSE at[s]]
  /\ UNCHANGED <<tickslock, ticks0, for, flagged>>

(* kkill() *)
KillSleeper(s) ==
  /\ at[s] # "idle" /\ ~flagged[s]
  /\ flagged' = [flagged EXCEPT ![s] = TRUE]
  /\ at' = IF at[s] = "asleep" THEN [at EXCEPT ![s] = "woken"] ELSE at
  /\ UNCHANGED <<ticks, tickslock, ticks0, for>>

SleeperStep(s) == Ask(s) \/ Look(s) \/ Sleep(s) \/ KillSleeper(s)
=============================================================================
