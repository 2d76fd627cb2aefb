-------------------------------- MODULE Ndd22 --------------------------------
(***************************************************************************)
(* The board of discrete inputs (src/SRC_Modul/NDD22.c).  Chips hang in    *)
(* pairs on a switched supply; every 20 ms the driver polls them, and when *)
(* both chips of a pair have lost the link it switches their supply off,   *)
(* on again and writes their registers anew.  The supply pins are also     *)
(* written by CyclicModules (src/global.c) from the same settings.         *)
(***************************************************************************)
EXTENDS Naturals, FiniteSets

CONSTANTS
  PAIRS,         \* number of pairs, 2 on the board
  REBOOT_TIME,   \* ticks a supply stays off; 1000 ms
  SETTLE_TIME,   \* ticks before the chips are polled again; 100 ms
  START_STATES,  \* what StPwr may be after start-up: 1 started, 3 given up
  FAILING,       \* bound: chips that come and go, the others keep their 27 V
  HOT            \* bound: chips that may report over-temperature

ASSUME NddAssumption ==
  /\ PAIRS \in Nat \ {0}
  /\ REBOOT_TIME \in Nat \ {0} /\ SETTLE_TIME \in Nat \ {0}
  /\ START_STATES \subseteq {1, 3}
  /\ FAILING \subseteq 0 .. 2 * PAIRS - 1 /\ HOT \subseteq 0 .. 2 * PAIRS - 1

Pairs == 0 .. PAIRS - 1
Chips == 0 .. 2 * PAIRS - 1
PairOf(i)  == i \div 2
ChipsOf(p) == {2 * p, 2 * p + 1}

VARIABLES
  StPwr, setON, power,       \* program.StPwr, program.setONx, the pins ONx_PWR
  Link, InitReq, valid,      \* Ndd.Link, Ndd.Init, Ndd.valid = VALID_DIN
  Reboot, StatusReboot, TimerReboot,
  pc, at,                    \* the step of a pass and the chip or pair it is at
  stStartBlock, stStartValid,
  alive, configured,         \* a chip has its 27 V; its registers are written
  noticed, missed,           \* history: the loss was polled; it did not answer InitDinReg
  off                        \* history: ticks since the supply was switched off

driver == <<Link, InitReq, valid>>
fsm    == <<Reboot, StatusReboot, TimerReboot>>
supply == <<StPwr, setON, power>>
start  == <<stStartBlock, stStartValid>>
chips  == <<alive, configured, noticed, missed>>
nddVars == <<supply, driver, fsm, pc, at, start, chips, off>>

NddInit ==
  /\ StPwr \in START_STATES
  /\ setON = [p \in Pairs |-> TRUE] /\ power = [p \in Pairs |-> FALSE]
  /\ Link = [i \in Chips |-> FALSE] /\ InitReq = [i \in Chips |-> FALSE]
  /\ valid = [i \in Chips |-> FALSE]
  /\ Reboot = [p \in Pairs |-> FALSE] /\ StatusReboot = [p \in Pairs |-> 0]
  /\ TimerReboot = [p \in Pairs |-> 0]
  /\ pc = "loop" /\ at = 0
  /\ stStartBlock = FALSE /\ stStartValid = FALSE
  /\ alive \in {f \in [Chips -> BOOLEAN] : \A i \in Chips \ FAILING : f[i]}
  /\ configured = [i \in Chips |-> FALSE]
  /\ noticed = [i \in Chips |-> TRUE] /\ missed = [i \in Chips |-> FALSE]
  /\ off = [p \in Pairs |-> 0]

Answers(i) == alive[i] /\ power[PairOf(i)]

Goto(step, k) == pc' = step /\ at' = k

-----------------------------------------------------------------------------
(* A pass of the main loop.                                                *)

\* The end of CyclicModules: the pins follow the settings, unless the power
\* block has been given up.
CyclicModules ==
  /\ pc = "loop"
  /\ power' = IF StPwr = 3 THEN power ELSE setON
  /\ Goto(IF stStartBlock THEN "decide" ELSE "init", 0)
  /\ UNCHANGED <<StPwr, setON, driver, fsm, start, chips, off>>

\* InitDinReg writes the registers of a chip; nobody looks at its answer.
InitDinReg(i) ==
  /\ configured' = [configured EXCEPT ![i] = Answers(i)]
  /\ missed' = [missed EXCEPT ![i] = ~Answers(i)]
  /\ UNCHANGED <<alive, noticed>>

\* One second after the start all chips are initialised.
StartBlock ==
  /\ pc = "init"
  /\ InitDinReg(at)
  /\ IF at + 1 \in Chips
     THEN Goto("init", at + 1) /\ UNCHANGED stStartBlock
     ELSE Goto("decide", 0) /\ stStartBlock' = TRUE
  /\ UNCHANGED <<supply, driver, fsm, stStartValid, off>>

\* Mistake: a pair is restarted although neither of its chips answers.
Bug_NeedsReboot(p) == \A i \in ChipsOf(p) : InitReq[i]

\* Both chips were lost and at least one of them is back.
NeedsReboot(p) ==
  (\A i \in ChipsOf(p) : InitReq[i]) /\ (\E i \in ChipsOf(p) : Link[i])

Decide ==
  /\ pc = "decide"
  /\ Reboot' = [p \in Pairs |-> Reboot[p] \/ NeedsReboot(p)]
  /\ StatusReboot' = [p \in Pairs |-> IF NeedsReboot(p) THEN 0 ELSE StatusReboot[p]]
  /\ InitReq' = [i \in Chips |-> InitReq[i] /\ ~NeedsReboot(PairOf(i))]
  /\ Goto("reboot", 0)
  /\ UNCHANGED <<supply, Link, valid, TimerReboot, start, chips, off>>

-----------------------------------------------------------------------------
(* The restart of a supply, one state at a time.                           *)

NextPair == IF at + 1 \in Pairs THEN Goto("reboot", at + 1) ELSE Goto("valid", 0)

\* Mistake: setON is left, so that CyclicModules switches the supply on.
Bug_RebootOff ==
  /\ pc = "reboot" /\ Reboot[at] /\ StatusReboot[at] = 0
  /\ power' = [power EXCEPT ![at] = FALSE]
  /\ off' = [off EXCEPT ![at] = 0]
  /\ TimerReboot' = [TimerReboot EXCEPT ![at] = REBOOT_TIME]
  /\ StatusReboot' = [StatusReboot EXCEPT ![at] = 1]
  /\ configured' = [i \in Chips |-> configured[i] /\ PairOf(i) # at]
  /\ NextPair
  /\ UNCHANGED <<StPwr, setON, driver, Reboot, start, alive, noticed, missed>>

RebootOff ==
  /\ pc = "reboot" /\ Reboot[at] /\ StatusReboot[at] = 0
  /\ power' = [power EXCEPT ![at] = FALSE]
  /\ setON' = [setON EXCEPT ![at] = FALSE]
  /\ off' = [off EXCEPT ![at] = 0]
  /\ TimerReboot' = [TimerReboot EXCEPT ![at] = REBOOT_TIME]
  /\ StatusReboot' = [StatusReboot EXCEPT ![at] = 1]
  /\ configured' = [i \in Chips |-> configured[i] /\ PairOf(i) # at]
  /\ NextPair
  /\ UNCHANGED <<StPwr, driver, Reboot, start, alive, noticed, missed>>

\* Mistake: setON keeps the supply off.
Bug_RebootOn ==
  /\ pc = "reboot" /\ Reboot[at] /\ StatusReboot[at] = 1 /\ TimerReboot[at] = 0
  /\ power' = [power EXCEPT ![at] = TRUE]
  /\ Goto("reinit", 2 * at)
  /\ UNCHANGED <<StPwr, setON, driver, fsm, start, chips, off>>

RebootOn ==
  /\ pc = "reboot" /\ Reboot[at] /\ StatusReboot[at] = 1 /\ TimerReboot[at] = 0
  /\ power' = [power EXCEPT ![at] = TRUE]
  /\ setON' = [setON EXCEPT ![at] = TRUE]
  /\ Goto("reinit", 2 * at)
  /\ UNCHANGED <<StPwr, driver, fsm, start, chips, off>>

\* The first chip of the pair is written, then the second.
Reinit ==
  /\ pc = "reinit"
  /\ InitDinReg(at)
  /\ LET p == PairOf(at)
     IN  IF at = 2 * p
         THEN Goto("reinit", at + 1) /\ UNCHANGED fsm
         ELSE /\ TimerReboot' = [TimerReboot EXCEPT ![p] = SETTLE_TIME]
              /\ StatusReboot' = [StatusReboot EXCEPT ![p] = 2]
              /\ Goto("reboot", p)
              /\ UNCHANGED Reboot
  /\ UNCHANGED <<supply, driver, start, off>>

RebootDone ==
  /\ pc = "reboot" /\ Reboot[at] /\ StatusReboot[at] = 2 /\ TimerReboot[at] = 0
  /\ StatusReboot' = [StatusReboot EXCEPT ![at] = 0]
  /\ Reboot' = [Reboot EXCEPT ![at] = FALSE]
  /\ valid' = [i \in Chips |-> valid[i] \/ PairOf(i) = at]
  /\ NextPair
  /\ UNCHANGED <<supply, Link, InitReq, TimerReboot, start, chips, off>>

RebootWait ==
  /\ pc = "reboot"
  /\ ~Reboot[at] \/ (StatusReboot[at] \in {1, 2} /\ TimerReboot[at] # 0)
  /\ NextPair
  /\ UNCHANGED <<supply, driver, fsm, start, chips, off>>

-----------------------------------------------------------------------------
(* The poll.                                                               *)

\* The first pass declares all inputs valid before it polls them.
StartValid ==
  /\ pc = "valid"
  /\ valid' = [i \in Chips |-> valid[i] \/ ~stStartValid]
  /\ stStartValid' = TRUE
  /\ Goto("poll", 0)
  /\ UNCHANGED <<supply, Link, InitReq, fsm, stStartBlock, chips, off>>

NextChip == IF at + 1 \in Chips THEN Goto("poll", at + 1) ELSE Goto("loop", 0)

PollAnswer ==
  /\ pc = "poll" /\ StatusReboot[PairOf(at)] = 0 /\ Answers(at)
  /\ Link' = [Link EXCEPT ![at] = TRUE]
  /\ \E hot \in {FALSE, (at \in HOT)} : valid' = [valid EXCEPT ![at] = @ /\ ~hot]
  /\ NextChip
  /\ UNCHANGED <<supply, InitReq, fsm, start, chips, off>>

\* Mistake: a lost link does not invalidate the inputs.
Bug_PollSilence ==
  /\ pc = "poll" /\ StatusReboot[PairOf(at)] = 0 /\ ~Answers(at)
  /\ Link' = [Link EXCEPT ![at] = FALSE]
  /\ InitReq' = [InitReq EXCEPT ![at] = TRUE]
  /\ noticed' = [noticed EXCEPT ![at] = TRUE]
  /\ NextChip
  /\ UNCHANGED <<supply, valid, fsm, start, alive, configured, missed, off>>

PollSilence ==
  /\ pc = "poll" /\ StatusReboot[PairOf(at)] = 0 /\ ~Answers(at)
  /\ valid' = [valid EXCEPT ![at] = FALSE]
  /\ Link' = [Link EXCEPT ![at] = FALSE]
  /\ InitReq' = [InitReq EXCEPT ![at] = TRUE]
  /\ noticed' = [noticed EXCEPT ![at] = TRUE]
  /\ NextChip
  /\ UNCHANGED <<supply, fsm, start, alive, configured, missed, off>>

PollSkip ==
  /\ pc = "poll" /\ StatusReboot[PairOf(at)] # 0
  /\ NextChip
  /\ UNCHANGED <<supply, driver, fsm, start, chips, off>>

-----------------------------------------------------------------------------
(* The environment.                                                        *)

\* Time: the running timers and the history of the supplies.
Tick ==
  /\ TimerReboot' = [p \in Pairs |-> IF TimerReboot[p] > 0 THEN TimerReboot[p] - 1 ELSE 0]
  /\ off' = [p \in Pairs |-> IF power[p] \/ off[p] = REBOOT_TIME THEN off[p] ELSE off[p] + 1]
  /\ UNCHANGED <<supply, driver, Reboot, StatusReboot, pc, at, start, chips>>

\* A chip loses its 27 V, and with them the contents of its registers.
ChipLost(i) ==
  /\ i \in FAILING /\ alive[i]
  /\ alive' = [alive EXCEPT ![i] = FALSE]
  /\ configured' = [configured EXCEPT ![i] = FALSE]
  /\ noticed' = [noticed EXCEPT ![i] = FALSE]
  /\ UNCHANGED <<supply, driver, fsm, pc, at, start, missed, off>>

\* It gets them back; losses that no poll has seen are left out.
ChipBack(i) ==
  /\ ~alive[i] /\ noticed[i]
  /\ alive' = [alive EXCEPT ![i] = TRUE]
  /\ UNCHANGED <<supply, driver, fsm, pc, at, start, configured, noticed, missed, off>>

Pass ==
  \/ CyclicModules \/ StartBlock \/ Decide
  \/ RebootOff \/ RebootOn \/ Reinit \/ RebootDone \/ RebootWait
  \/ StartValid \/ PollAnswer \/ PollSilence \/ PollSkip

NddNext == Pass \/ Tick \/ \E i \in Chips : ChipLost(i) \/ ChipBack(i)

NddSpec == NddInit /\ [][NddNext]_nddVars

\* The main loop runs and time passes.
NddFairSpec == NddSpec /\ WF_nddVars(Pass) /\ WF_nddVars(Tick)

-----------------------------------------------------------------------------
(* Properties.                                                             *)

\* A power block that was given up (StPwr = 3, "we do not switch it on, there
\* is a fault") is not switched on by the restart of a pair either, although
\* RebootOn writes the pin without looking at StPwr.
GivenUpStaysOff == StPwr = 3 => \A p \in Pairs : ~power[p]

\* A supply that is switched off for a restart stays off for the whole second,
\* although CyclicModules writes the pin in every pass.
FullPowerCycle ==
  [][\A p \in Pairs :
       StatusReboot[p] = 1 /\ ~power[p] /\ power'[p] => off[p] = REBOOT_TIME]_nddVars

\* After a pass, inputs that are marked valid come from a chip whose registers
\* were written since it lost its supply, provided that it answered when
\* InitDinReg wrote them.
ValidWhenConfigured ==
  pc = "loop" =>
    \A i \in Chips : valid[i] => configured[i] \/ missed[i] \/ ~noticed[i]

\* A pair that lost both chips works again, its inputs valid, once the chips
\* stay there (and cool, on a power block that was not given up).
Recovers ==
  \A p \in {q \in Pairs : ChipsOf(q) \cap HOT = {}} :
    StPwr = 1 /\ (\A i \in ChipsOf(p) : InitReq[i]) /\ [](\A i \in ChipsOf(p) : alive[i])
      ~> pc = "loop" /\ \A i \in ChipsOf(p) : valid[i]
=============================================================================
