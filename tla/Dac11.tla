------------------------------- MODULE Dac11 ---------------------------------
(***************************************************************************)
(* Three analogue output boards DAC11 drive the same output (one of twelve *)
(* channels, src/SRC_Modul/DAC11.c).  Every PeriodPing each board tells    *)
(* the others its serial number, gives addresses to the boards it sees,    *)
(* tells them its command and its error, and decides from what it was told *)
(* whether the channel is its own (SelectMasterDAC).  The CANopen master   *)
(* commands each board by itself; boards and their exchange line fail and  *)
(* return.                                                                 *)
(*                                                                         *)
(* The boards' periods have the same length, their order is arbitrary and  *)
(* stays as it is.  The boards have read their serial numbers and are      *)
(* calibrated.  A frame reaches every board on the line before the next    *)
(* period begins.                                                          *)
(***************************************************************************)
EXTENDS Naturals, FiniteSets

CONSTANTS
  BLOCKS,                \* three boards
  SerN,                  \* bytes 1 .. 7 of their serial numbers; byte 0 is the same
  MAX_COUNT_PING_LOST,   \* periods after which a silent neighbour is given up, 5
  ORDER_AFTER, TAKE_AFTER,  \* periods before addresses are given, and channels taken: 3, 6
  FAULTS,                \* what a board may come to measure at the output it drives
  EVENTS                 \* bound: commands, failures and returns

ERROR_OK   == 0
ERROR_ZERO == 1          \* the current is too low
ERROR_KZ   == 2          \* the current is too high
ERROR_MAX  == 3          \* the converter does not answer

Bytes == 1 .. 7

ASSUME DacAssumption ==
  /\ BLOCKS \subseteq Nat \ {0} /\ IsFiniteSet(BLOCKS) /\ Cardinality(BLOCKS) = 3
  /\ SerN \in [BLOCKS -> [Bytes -> Nat]]
  /\ MAX_COUNT_PING_LOST \in Nat \ {0, 1}
  /\ ORDER_AFTER \in Nat \ {0} /\ TAKE_AFTER \in Nat /\ ORDER_AFTER <= TAKE_AFTER /\ TAKE_AFTER <= 255
  /\ FAULTS \subseteq {ERROR_OK, ERROR_ZERO, ERROR_KZ}
  /\ EVENTS \in Nat

\* Periods without an event after which a board has given its last addresses.
Ordering == IF ORDER_AFTER > MAX_COUNT_PING_LOST THEN ORDER_AFTER ELSE MAX_COUNT_PING_LOST

\* Periods without an event after which the boards have settled.  What was told with an
\* address just before it was given anew lasts until the place counts as silent.
Calm == IF TAKE_AFTER > Ordering + MAX_COUNT_PING_LOST - 1 THEN TAKE_AFTER
        ELSE Ordering + MAX_COUNT_PING_LOST - 1

Slots  == 1 .. 2         \* the places for the neighbours
Free   == 0             \* no board

VARIABLES
  block,     \* what each board knows, see Fresh
  command,   \* EnOutDac[0]: the board is to drive the output
  working,   \* the board is operational and hears the CANopen master
  online,    \* the board is on the exchange line
  output,    \* what the board measures when it drives the output
  measured,  \* ErrorUP and ErrorDOWN: kept while the board does not drive
  chip,      \* DiagMAX: the converter answers
  order,     \* the boards in the order of their periods
  turn,      \* whose period comes next
  calm,      \* the periods of each board since the last event, Calm at most
  events     \* bound of EVENTS

outside == <<command, working, online, output, chip, events>>
vars    == <<block, measured, order, turn, calm, outside>>

\* InitDAC11
Fresh ==
  [start |-> 0,                                           \* StartFindMaster
   serial |-> [i \in Slots |-> Free],                     \* StNeigbor; whose SerN it is
   ping |-> [i \in Slots |-> MAX_COUNT_PING_LOST],        \* PingBlock
   pingData |-> [i \in Slots |-> MAX_COUNT_PING_LOST],    \* PingDataBlock
   adr |-> [i \in 0 .. 2 |-> 0],                          \* AddrBl, the board's own first
   out |-> [i \in Slots |-> FALSE],                       \* EnOutDac
   err |-> [i \in Slots |-> ERROR_OK],                    \* ErrorDAC
   master |-> FALSE]                                      \* Master[0]

\* The first commands are there before the first period.
Init ==
  /\ block = [b \in BLOCKS |-> Fresh]
  /\ command \in [BLOCKS -> BOOLEAN]
  /\ working = [b \in BLOCKS |-> TRUE]
  /\ online = [b \in BLOCKS |-> TRUE]
  /\ output = [b \in BLOCKS |-> ERROR_OK]
  /\ measured = [b \in BLOCKS |-> ERROR_OK]
  /\ chip = [b \in BLOCKS |-> TRUE]
  /\ order \in {f \in [0 .. 2 -> BLOCKS] : \A b \in BLOCKS : \E i \in 0 .. 2 : f[i] = b}
  /\ turn = 0 /\ calm = [b \in BLOCKS |-> 0] /\ events = 0

ErrorDAC(b) == IF chip[b] THEN measured[b] ELSE ERROR_MAX

\* OutDac[0]
Driving(b) == block[b].master /\ command[b]

-----------------------------------------------------------------------------
(* A period of a board.                                                    *)

OneMore(n) == IF n + 1 >= MAX_COUNT_PING_LOST THEN MAX_COUNT_PING_LOST ELSE n + 1

\* Neighbours that have been silent for too long are forgotten; their last error stays.
Aged(k) ==
  LET ping == [i \in Slots |-> OneMore(k.ping[i])]
      data == [i \in Slots |-> OneMore(k.pingData[i])]
  IN  [k EXCEPT !.start = @ + 1, !.ping = ping, !.pingData = data,
         !.serial = [i \in Slots |-> IF ping[i] = MAX_COUNT_PING_LOST THEN Free ELSE @[i]],
         !.out = [i \in Slots |-> data[i] < MAX_COUNT_PING_LOST /\ @[i]]]

\* Max3: the board of group G whose byte i is higher than that of each of the others.
Max3(G, i) == {b \in G : \A c \in G \ {b} : SerN[b][i] > SerN[c][i]}

\* Of two boards, m has the higher serial number from byte i on.
AboveFrom(i, m, n) ==
  \E k \in i .. 7 : SerN[m][k] > SerN[n][k] /\ \A j \in i .. k - 1 : SerN[m][j] = SerN[n][j]

\* The first byte of which one board has the highest value decides who comes first, and
\* the others are compared from that byte on, whatever they have in the bytes before.
Before(G, m, n) ==
  \E i \in Bytes :
    /\ Max3(G, i) # {} /\ \A j \in 1 .. i - 1 : Max3(G, j) = {}
    /\ n \notin Max3(G, i) /\ (m \in Max3(G, i) \/ AboveFrom(i, m, n))

\* Who comes before whom in which group: <<group, board, board>>.
Precedence ==
  {t \in {<<G, m, n>> : G \in SUBSET BLOCKS, m \in BLOCKS, n \in BLOCKS} :
     t[2] \in t[1] /\ t[3] \in t[1] /\ Before(t[1], t[2], t[3])}

Sorted(G) ==
  \A m, n \in G : m # n => <<G, m, n>> \in Precedence \/ <<G, n, m>> \in Precedence

\* The address of a board in a group is the number of those before it.  Serial numbers
\* that cannot be put in order leave all addresses 0.
Place(G, c) == IF Sorted(G) THEN Cardinality({m \in G : <<G, m, c>> \in Precedence}) ELSE 0

\* Mistake: a board that sees one neighbour does not look for the other's address.
Bug_Address(b, serial) ==
  LET G == {b} \cup {serial[i] : i \in {j \in Slots : serial[j] # Free}}
  IN  [i \in 0 .. 2 |-> IF i = 0 THEN Place(G, b) ELSE i]

\* The addresses board b gives to itself and to the boards it sees; what is not seen
\* comes last.
Address(b, serial) ==
  LET seen == {i \in Slots : serial[i] # Free}
      G    == {b} \cup {serial[i] : i \in seen}
  IN  [i \in 0 .. 2 |->
         CASE i = 0 -> Place(G, b)
           [] i \in seen -> Place(G, serial[i])
           [] OTHER -> IF seen = {} THEN i ELSE 2]

Addressed(b, k) == IF k.start >= ORDER_AFTER THEN [k EXCEPT !.adr = Address(b, k.serial)] ELSE k

\* Bit 0 of an error says whether it counts when all three boards have the command.
Counts(err) == err % 2 = 1

Bug_Takes(adr, err, out) ==      \* of two boards with the same errors the address is not asked
  LET others == {i \in Slots : out[i]}
  IN  /\ err[0] < ERROR_KZ
      /\ \/ out[0] /\ Cardinality(others) < 2
         \/ out[0] /\ others = Slots /\ \A i \in Slots : adr[0] < adr[i]

Bug_TakesOrder(adr, err, out) ==     \* the neighbours' errors are not looked at
  LET others == {i \in Slots : out[i]}
  IN  err[0] < ERROR_KZ /\ out[0] /\ \A i \in others : adr[0] < adr[i]

\* The decision about the channel, from the addresses, errors and commands of the three
\* boards, 0 is the board itself.
Takes(adr, err, out) ==
  LET others == {i \in Slots : out[i]}
      First(rivals) == \A i \in rivals : adr[0] < adr[i]
      sound == {i \in Slots : ~Counts(err[i])}
  IN  /\ err[0] < ERROR_KZ
      /\ \/ out[0] /\ others = {}
         \/ out[0] /\ others = Slots /\ ~Counts(err[0]) /\ First(sound)
         \/ out[0] /\ others = Slots /\ Counts(err[0]) /\ sound = {} /\ First(Slots)
         \/ out[0] /\ \E i \in Slots : others = {i} /\ (err[0] < err[i] \/ First({i}))
         \/ ~out[0] /\ others = {} /\ First(Slots)

\* What board b takes part in the decision with: its own value first.
Own(mine, told) == [i \in 0 .. 2 |-> IF i = 0 THEN mine ELSE told[i]]
Decision(b, k) == Takes(k.adr, Own(ErrorDAC(b), k.err), Own(command[b], k.out))

Decided(b, k) ==
  IF k.start < TAKE_AFTER THEN k
  ELSE [k EXCEPT !.start = TAKE_AFTER, !.master = Decision(b, k)]

-----------------------------------------------------------------------------
(* The frames of board b at board k's.                                     *)

\* ServiceMaster
Heard(k, b) ==
  LET known == {i \in Slots : k.serial[i] = b}
      free  == {i \in Slots : k.serial[i] = Free}
      Put(i) == [k EXCEPT !.serial[i] = b, !.ping[i] = 0]
  IN  IF known # {} THEN Put(CHOOSE i \in known : \A j \in known : i <= j)
      ELSE IF free # {} THEN Put(CHOOSE i \in free : \A j \in free : i <= j)
      ELSE k

\* ServiceObmenData1 and 2 look for the sender's address.
Told(k, adr, out, err) ==
  LET places == {i \in Slots : k.adr[i] = adr}
  IN  IF adr = k.adr[0] \/ places = {} THEN k
      ELSE LET n == CHOOSE i \in places : \A j \in places : j <= i
           IN  [k EXCEPT !.out[n] = out, !.err[n] = err, !.pingData[n] = 0]

SelectMasterDAC(b) ==
  /\ b = order[turn]
  /\ LET mine == Addressed(b, Aged(block[b]))
         Hears(k) == IF mine.start >= ORDER_AFTER /\ \E i \in 0 .. 2 : mine.adr[i] # 0
                     THEN Told(Heard(k, b), mine.adr[0], command[b], ErrorDAC(b))
                     ELSE Heard(k, b)
     IN  block' = IF working[b]
                  THEN [c \in BLOCKS |->
                          CASE c = b -> Decided(b, mine)
                            [] c # b /\ online[b] /\ online[c] -> Hears(block[c])
                            [] OTHER -> block[c]]
                  ELSE block
  /\ turn' = (turn + 1) % 3
  /\ calm' = [calm EXCEPT ![b] = IF @ < Calm THEN @ + 1 ELSE @]
  /\ UNCHANGED <<measured, order, outside>>

\* The converter of a board that drives is read, the others keep their last error.
Measure(b) ==
  /\ Driving(b) /\ measured[b] # output[b]
  /\ measured' = [measured EXCEPT ![b] = output[b]]
  /\ calm' = [c \in BLOCKS |-> 0]
  /\ UNCHANGED <<block, order, turn, outside>>

-----------------------------------------------------------------------------
(* What happens to the boards.                                             *)

Event ==
  /\ events < EVENTS /\ events' = events + 1
  /\ calm' = [c \in BLOCKS |-> 0]
  /\ UNCHANGED <<order, turn>>

Command(b) ==
  /\ Event /\ command' = [command EXCEPT ![b] = ~@]
  /\ UNCHANGED <<block, measured, working, online, output, chip>>

Line(b) ==
  /\ Event /\ online' = [online EXCEPT ![b] = ~@]
  /\ UNCHANGED <<block, measured, command, working, output, chip>>

Chip(b) ==
  /\ Event /\ chip' = [chip EXCEPT ![b] = ~@]
  /\ UNCHANGED <<block, measured, command, working, online, output>>

Output(b, fault) ==
  /\ output[b] # fault /\ Event /\ output' = [output EXCEPT ![b] = fault]
  /\ UNCHANGED <<block, measured, command, working, online, chip>>

\* Without the CANopen master, or not operational, the board lets the channel go; it
\* still listens to the others.
Stop(b) ==
  /\ working[b] /\ Event
  /\ working' = [working EXCEPT ![b] = FALSE]
  /\ block' = [block EXCEPT ![b].master = FALSE, ![b].start = 0]
  /\ UNCHANGED <<measured, command, online, output, chip>>

Start(b) ==
  /\ ~working[b] /\ Event
  /\ working' = [working EXCEPT ![b] = TRUE]
  /\ UNCHANGED <<block, measured, command, online, output, chip>>

Restart(b) ==
  /\ Event
  /\ block' = [block EXCEPT ![b] = Fresh]
  /\ command' = [command EXCEPT ![b] = FALSE]
  /\ measured' = [measured EXCEPT ![b] = ERROR_OK]
  /\ UNCHANGED <<working, online, output, chip>>

Next ==
  \E b \in BLOCKS :
    \/ SelectMasterDAC(b) \/ Measure(b)
    \/ Command(b) \/ Line(b) \/ Chip(b) \/ Stop(b) \/ Start(b) \/ Restart(b)
    \/ \E fault \in FAULTS : Output(b, fault)

Spec == Init /\ [][Next]_vars

-----------------------------------------------------------------------------
(* Properties.                                                             *)

Group == {b \in BLOCKS : online[b] /\ working[b]}     \* they hear each other
Settled == \A b \in BLOCKS : calm[b] = Calm

\* The boards of a group agree: each has three different addresses, the command and the
\* error of the other under the other's address and no command of a board that is not
\* there, and has decided from what it knows.
Agreement ==
  Settled => \A a \in Group :
    /\ \A i, j \in 0 .. 2 : i # j => block[a].adr[i] # block[a].adr[j]
    /\ \A b \in Group \ {a} :
         \E i \in Slots : /\ block[a].adr[i] = block[b].adr[0]
                         /\ block[a].out[i] = command[b] /\ block[a].err[i] = ErrorDAC(b)
    /\ \A i \in Slots : block[a].out[i] =>
         \E b \in Group \ {a} : block[a].adr[i] = block[b].adr[0]
    /\ block[a].master = Decision(a, block[a])

\* Two boards never keep driving the same output, whatever failed and returned, as long
\* as none of them has seen its current drop.
OneDrives ==
  Settled => \A a, b \in Group :
    Driving(a) /\ Driving(b) /\ ErrorDAC(a) # ERROR_ZERO /\ ErrorDAC(b) # ERROR_ZERO => a = b

\* An output that a faultless board is to drive is driven, as long as no board has seen
\* its current exceed.
NotAbandoned ==
  Settled /\ (\E b \in Group : command[b] /\ ErrorDAC(b) = ERROR_OK)
          /\ (\A b \in BLOCKS : ErrorDAC(b) # ERROR_KZ)
    => \E b \in Group : Driving(b)

\* What DAC11.c calls the procedure for choosing the master of three boards, "nobody has
\* an error: the block with the lower address takes it": exactly one of the boards that
\* could drives.
ExactlyOneDrives ==
  Settled /\ (\E b \in Group : command[b] /\ ErrorDAC(b) = ERROR_OK)
    => Cardinality({b \in Group : Driving(b)}) = 1
=============================================================================
