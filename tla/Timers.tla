------------------------------- MODULE Timers -------------------------------
(***************************************************************************)
(* The software timers (src/Timer.c) and the delay built on them (msDelay, *)
(* src/global.c).  A timer is a word the reload timer interrupt counts     *)
(* down once a millisecond while its address stands in a table of          *)
(* COUNT_USER_TIMERS places; the main loop registers, sets and reads it    *)
(* with interrupts enabled, re-reading when the handler came in between.   *)
(***************************************************************************)
EXTENDS Naturals, FiniteSets

CONSTANTS
  TIMERS,             \* the words used as timers
  TimerDelay,         \* the one msDelay uses
  COUNT_USER_TIMERS,  \* places of the table
  VALUES,             \* values timers are set to
  None

ASSUME TimersAssumption ==
  /\ TimerDelay \in TIMERS /\ None \notin TIMERS
  /\ COUNT_USER_TIMERS \in Nat
  /\ VALUES \subseteq Nat

Places == 1 .. COUNT_USER_TIMERS

VARIABLES
  timers, count,  \* SystemTimers
  value,          \* the words themselves
  at,             \* where the main loop is
  tmr, arg,       \* arguments of the call in progress
  first,          \* getTimer: the first reading
  delaying,       \* the call belongs to msDelay
  asked, elapsed  \* history: value set last, milliseconds since (up to it)

table == <<timers, count>>
call  == <<tmr, arg, first>>
hist  == <<asked, elapsed>>
timerVars == <<table, value, at, call, delaying, hist>>

Registered(t) == \E p \in Places : timers[p] = t
Used == {p \in Places : timers[p] # None}

TimerInit ==
  /\ timers = [p \in Places |-> None] /\ count = 0
  /\ value = [t \in TIMERS |-> 0]
  /\ at = "idle" /\ tmr = TimerDelay /\ arg = 0 /\ first = 0
  /\ delaying = FALSE
  /\ asked = [t \in TIMERS |-> 0] /\ elapsed = [t \in TIMERS |-> 0]

\* TimerService, called by the reload timer interrupt, the highest level.
Tick ==
  /\ value' = [t \in TIMERS |->
                 LET n == Cardinality({p \in Places : timers[p] = t})
                 IN  IF value[t] > n THEN value[t] - n ELSE 0]
  /\ elapsed' = [t \in TIMERS |->
                   IF elapsed[t] < asked[t] THEN elapsed[t] + 1 ELSE asked[t]]
  /\ UNCHANGED <<table, at, call, delaying, asked>>

\* Mistake: the table is not searched for the timer first.
Bug_Enter(t) ==
  IF Used = Places THEN UNCHANGED table
  ELSE /\ \E p \in Places \ Used :
            /\ \A q \in Places \ Used : q <= p
            /\ timers' = [timers EXCEPT ![p] = t]
       /\ count' = count + 1

\* add_timer: nothing when the timer is registered or the table is full,
\* otherwise the free place with the highest number.
Enter(t) ==
  IF Registered(t) \/ Used = Places THEN UNCHANGED table
  ELSE /\ \E p \in Places \ Used :
            /\ \A q \in Places \ Used : q <= p
            /\ timers' = [timers EXCEPT ![p] = t]
       /\ count' = count + 1

\* del_timer.
Remove(t) ==
  IF Registered(t)
  THEN /\ timers' = [p \in Places |-> IF timers[p] = t THEN None ELSE timers[p]]
       /\ count' = count - 1
  ELSE UNCHANGED table

add_timer(t) ==
  /\ at = "idle" /\ t # TimerDelay
  /\ Enter(t)
  /\ UNCHANGED <<value, at, call, delaying, hist>>

del_timer(t) ==
  /\ at = "idle" /\ t # TimerDelay
  /\ Remove(t)
  /\ UNCHANGED <<value, at, call, delaying, hist>>

-----------------------------------------------------------------------------
(* setTimer: the word is written and compared; written again if they differ.*)

setTimer(t, v) ==
  /\ at = "idle" /\ t # TimerDelay
  /\ at' = "write" /\ tmr' = t /\ arg' = v
  /\ UNCHANGED <<table, value, first, delaying, hist>>

WriteWord ==
  /\ at = "write"
  /\ value' = [value EXCEPT ![tmr] = arg]
  /\ asked' = [asked EXCEPT ![tmr] = arg]
  /\ elapsed' = [elapsed EXCEPT ![tmr] = 0]
  /\ at' = "compare"
  /\ UNCHANGED <<table, call, delaying>>

Compare ==
  /\ at = "compare"
  /\ at' = IF value[tmr] = arg THEN "idle" ELSE "write"
  /\ UNCHANGED <<table, value, call, delaying, hist>>

-----------------------------------------------------------------------------
(* getTimer reads twice until both readings agree.                         *)

getTimer(t) ==
  /\ at = "idle" /\ t # TimerDelay
  /\ at' = "read" /\ tmr' = t
  /\ UNCHANGED <<table, value, arg, first, delaying, hist>>

Read ==
  /\ at = "read"
  /\ first' = value[tmr]
  /\ at' = "reread"
  /\ UNCHANGED <<table, value, tmr, arg, delaying, hist>>

\* The second reading; msDelay calls again while the timer runs.
Reread ==
  /\ at = "reread"
  /\ at' = IF value[tmr] # first THEN "read"
           ELSE IF ~delaying THEN "idle"
           ELSE IF first > 0 THEN "read" ELSE "leave"
  /\ UNCHANGED <<table, value, call, delaying, hist>>

-----------------------------------------------------------------------------
(* msDelay sets its timer before it registers it, waits and deletes it.    *)

msDelay(v) ==
  /\ at = "idle"
  /\ value' = [value EXCEPT ![TimerDelay] = v]
  /\ asked' = [asked EXCEPT ![TimerDelay] = v]
  /\ elapsed' = [elapsed EXCEPT ![TimerDelay] = 0]
  /\ tmr' = TimerDelay /\ delaying' = TRUE
  /\ at' = "enter"
  /\ UNCHANGED <<table, arg, first>>

\* Mistake: the timer is not registered.
Bug_DelayEnter ==
  /\ at = "enter"
  /\ at' = "read"
  /\ UNCHANGED <<table, value, call, delaying, hist>>

DelayEnter ==
  /\ at = "enter"
  /\ Enter(TimerDelay)
  /\ at' = "read"
  /\ UNCHANGED <<value, call, delaying, hist>>

DelayLeave ==
  /\ at = "leave"
  /\ Remove(TimerDelay)
  /\ delaying' = FALSE /\ at' = "idle"
  /\ UNCHANGED <<value, call, hist>>

Step == WriteWord \/ Compare \/ Read \/ Reread \/ DelayEnter \/ DelayLeave

TimerNext ==
  \/ Tick
  \/ \E t \in TIMERS : add_timer(t) \/ del_timer(t) \/ getTimer(t)
  \/ \E t \in TIMERS, v \in VALUES : setTimer(t, v)
  \/ \E v \in VALUES : msDelay(v)
  \/ Step

TimerSpec == TimerInit /\ [][TimerNext]_timerVars

\* The reload timer runs and the processor executes what the main loop began.
TimerFairSpec == TimerSpec /\ WF_timerVars(Tick) /\ WF_timerVars(Step)

-----------------------------------------------------------------------------
(* Properties.                                                             *)

\* A time-out is never early: a timer has lost no more than the milliseconds
\* that passed since it was set.
NeverEarly == \A t \in TIMERS : value[t] + elapsed[t] >= asked[t]

\* msDelay returns, as long as the table has a place for its timer.
DelayEnds == delaying ~> ~delaying
=============================================================================
