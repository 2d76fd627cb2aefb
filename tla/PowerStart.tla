----------------------------- MODULE PowerStart -----------------------------
(***************************************************************************)
(* Starting the supplies of a board's power block across restarts of the   *)
(* processor (InitProgrammVar and CyclicModules, src/global.c).  A supply  *)
(* that overloads brings the processor down with it, so the number of      *)
(* attempts is kept in the EEPROM, and a word of RAM tells a restart from  *)
(* a cold start.                                                           *)
(***************************************************************************)
EXTENDS Naturals

CONSTANTS
  MAX_RESTARTS,  \* the largest counter with which a start is tried again: 3
  RESETS         \* bound: restarts in a behaviour

ASSUME PowerAssumption == MAX_RESTARTS \in Nat /\ RESETS \in Nat

\* EE_StPwr: the tag 0xA5, the bit "started", the restart counter.
Attempt(k) == [tag |-> TRUE, started |-> FALSE, count |-> k]
Success    == [tag |-> TRUE, started |-> TRUE, count |-> 0]

Counts == 0 .. MAX_RESTARTS + 1
Word   == [tag : BOOLEAN, started : BOOLEAN, count : Counts]

VARIABLES
  eeprom, EE_StPwr,  \* the word in the EEPROM and its copy in RAM
  ram,               \* the tag 0xA55A survives in RAM
  StPwr, timer,      \* 0 undecided, 1 starting, 2 started, 3 given up; TimerPwr runs
  pc,                \* "boot", "store", "tag", "run", "confirm"
  resets,
  tries, givenUp     \* history since the last cold start or success

memory == <<eeprom, ram>>
hist   == <<tries, givenUp>>
vars   == <<memory, EE_StPwr, StPwr, timer, pc, resets, hist>>

Init ==
  /\ eeprom \in Word /\ EE_StPwr = Attempt(0)
  /\ ram = FALSE
  /\ StPwr = 0 /\ timer = FALSE /\ pc = "boot"
  /\ resets = 0 /\ tries = 0 /\ givenUp = FALSE

\* The supply follows the settings while the main loop runs.
Powered == pc \in {"run", "confirm"} /\ StPwr \in {1, 2}

\* The word read was left by an earlier start of this power-on.
Known == ram /\ eeprom.tag

-----------------------------------------------------------------------------
(* InitProgrammVar.                                                        *)

\* One more attempt, which the EEPROM must know before the supply is on.
Try(k) ==
  /\ EE_StPwr' = Attempt(k)
  /\ StPwr' = 1 /\ timer' = TRUE
  /\ pc' = "store"
  /\ UNCHANGED <<memory, resets, hist>>

FirstTry ==
  /\ pc = "boot"
  /\ ~Known \/ eeprom.started
  /\ Try(0)

TryAgain ==
  /\ pc = "boot" /\ Known /\ ~eeprom.started
  /\ eeprom.count <= MAX_RESTARTS
  /\ Try(eeprom.count + 1)

\* Mistake: the counter starts anew when the block is given up.
Bug_GiveUp ==
  /\ pc = "boot" /\ Known /\ ~eeprom.started
  /\ eeprom.count > MAX_RESTARTS
  /\ EE_StPwr' = Attempt(0)
  /\ StPwr' = 3 /\ pc' = "store"
  /\ givenUp' = TRUE
  /\ UNCHANGED <<memory, timer, resets, tries>>

GiveUp ==
  /\ pc = "boot" /\ Known /\ ~eeprom.started
  /\ eeprom.count > MAX_RESTARTS
  /\ EE_StPwr' = eeprom
  /\ StPwr' = 3 /\ pc' = "tag"
  /\ givenUp' = TRUE
  /\ UNCHANGED <<memory, timer, resets, tries>>

\* Mistake: the attempt is not written.
Bug_Store ==
  /\ pc = "store"
  /\ pc' = "tag"
  /\ UNCHANGED <<memory, EE_StPwr, StPwr, timer, resets, hist>>

\* HighDensPageWrite.
Store ==
  /\ pc = "store"
  /\ eeprom' = EE_StPwr
  /\ pc' = "tag"
  /\ UNCHANGED <<ram, EE_StPwr, StPwr, timer, resets, hist>>

Tag ==
  /\ pc = "tag"
  /\ ram' = TRUE
  /\ pc' = "run"
  /\ tries' = IF StPwr = 1 THEN tries + 1 ELSE tries
  /\ UNCHANGED <<eeprom, EE_StPwr, StPwr, timer, resets, givenUp>>

-----------------------------------------------------------------------------
(* CyclicModules: after one second the start was a success.                *)

Second ==
  /\ pc = "run" /\ timer
  /\ timer' = FALSE
  /\ UNCHANGED <<memory, EE_StPwr, StPwr, pc, resets, hist>>

Succeed ==
  /\ pc = "run" /\ StPwr = 1 /\ ~timer
  /\ EE_StPwr' = Success
  /\ pc' = "confirm"
  /\ tries' = 0
  /\ UNCHANGED <<memory, StPwr, timer, resets, givenUp>>

\* Mistake: the state stays "starting".
Bug_Confirm ==
  /\ pc = "confirm"
  /\ eeprom' = EE_StPwr
  /\ pc' = "run"
  /\ UNCHANGED <<ram, EE_StPwr, StPwr, timer, resets, hist>>

Confirm ==
  /\ pc = "confirm"
  /\ eeprom' = EE_StPwr
  /\ StPwr' = 2
  /\ pc' = "run"
  /\ UNCHANGED <<ram, EE_StPwr, timer, resets, hist>>

-----------------------------------------------------------------------------
(* Restarts.  A page write that is cut off leaves some of the old bytes.   *)

Torn(old, new) ==
  [tag : {old.tag, new.tag}, started : {old.started, new.started},
   count : {old.count, new.count}]

Reboot ==
  /\ resets < RESETS /\ resets' = resets + 1
  /\ eeprom' \in IF pc \in {"store", "confirm"} THEN Torn(eeprom, EE_StPwr) ELSE {eeprom}
  /\ StPwr' = 0 /\ timer' = FALSE /\ pc' = "boot"
  /\ UNCHANGED EE_StPwr

\* A watchdog reset or a dip of the voltage keeps the RAM.
WarmReset ==
  /\ Reboot
  /\ UNCHANGED <<ram, hist>>

ColdStart ==
  /\ Reboot
  /\ ram' = FALSE /\ tries' = 0 /\ givenUp' = FALSE

Boot == FirstTry \/ TryAgain \/ GiveUp \/ Store \/ Tag
Loop == Second \/ Succeed \/ Confirm

Next == Boot \/ Loop \/ WarmReset \/ ColdStart

Spec == Init /\ [][Next]_vars

\* Between restarts the program runs on and time passes.
FairSpec == Spec /\ WF_vars(Boot \/ Loop)

-----------------------------------------------------------------------------
(* Properties.                                                             *)

\* The restart counter never outgrows what InitProgrammVar may write.
TypeOK ==
  /\ eeprom \in Word /\ EE_StPwr \in Word /\ ram \in BOOLEAN
  /\ StPwr \in 0 .. 3 /\ timer \in BOOLEAN
  /\ pc \in {"boot", "store", "tag", "run", "confirm"}
  /\ resets \in 0 .. RESETS /\ tries \in Nat /\ givenUp \in BOOLEAN

\* A supply that brings the processor down every time is switched on
\* MAX_RESTARTS + 2 times, wherever the restarts fall.
TriesBounded == tries <= MAX_RESTARTS + 2

\* A block that was given up stays off until the next cold start.
GivenUpStaysOff == givenUp => ~Powered

\* While the supply has not proved itself the EEPROM counts this attempt as a
\* failure: a restart at any moment finds at least as many as were made.
AttemptIsStored ==
  pc = "run" /\ StPwr = 1 =>
    eeprom.tag /\ ~eeprom.started /\ tries <= eeprom.count + 1

\* When the restarts end, the start is decided: success or given up.
Settles == <>[](StPwr \in {2, 3})
=============================================================================
