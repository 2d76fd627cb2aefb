--------------------------- MODULE Boards_proofs ----------------------------
(***************************************************************************)
(* Proofs about the boards of the system.                                  *)
(*                                                                         *)
(* The choice of the board that drives (Dac11): that the exchange brings   *)
(* the boards to Agreement within Calm periods after the last event, and   *)
(* that the decisions, taken by every board alone, then leave the output   *)
(* to one board, and to some board: for three boards whose serial numbers   *)
(* can be put in order, every order of their periods and every length of   *)
(* the limits; which serial numbers can, and what three boards do that     *)
(* cannot.                                                                 *)
(*                                                                         *)
(* The discrete inputs (Ndd22): which chips are written, when a pair of    *)
(* chips is restarted, and what the network is told of the inputs, for     *)
(* every set of pairs and every length of the counters.                    *)
(***************************************************************************)
EXTENDS Dac11, Ndd22, TLAPS, FiniteSetTheorems

-----------------------------------------------------------------------------
(* What the boards know has its type.                                      *)

Errors == 0 .. 3

Knowledge ==
  [start : Nat, serial : [Slots -> Nat], ping : [Slots -> Nat], pingData : [Slots -> Nat],
   adr : [0 .. 2 -> Nat], out : [Slots -> BOOLEAN], err : [Slots -> Errors],
   master : BOOLEAN]

TypeOK ==
  /\ block \in [BLOCKS -> Knowledge]
  /\ command \in [BLOCKS -> BOOLEAN]
  /\ output \in [BLOCKS -> FAULTS \cup {ERROR_OK}]
  /\ measured \in [BLOCKS -> FAULTS \cup {ERROR_OK}]

LEMMA FreshType == Fresh \in Knowledge
BY DacAssumption DEF Fresh, Knowledge, Slots, Free, Errors, ERROR_OK

LEMMA ErrorType ==
  ASSUME TypeOK, NEW b \in BLOCKS
  PROVE  ErrorDAC(b) \in Errors
<1>1. measured[b] \in FAULTS \cup {ERROR_OK}
  BY Zenon DEF TypeOK
<1>2. measured[b] \in Errors
  <2>1. \A fault \in FAULTS : fault = 0 \/ fault = 1 \/ fault = 2
    BY DacAssumption DEF ERROR_OK, ERROR_ZERO, ERROR_KZ
  <2>2. measured[b] = 0 \/ measured[b] = 1 \/ measured[b] = 2
    BY <1>1, <2>1 DEF ERROR_OK
  <2> QED  BY ONLY <2>2 DEF Errors
<1>3. ERROR_MAX \in Errors
  BY DEF Errors, ERROR_MAX
<1> QED  BY <1>2, <1>3, Zenon DEF ErrorDAC

LEMMA SlotsFinite == IsFiniteSet(Slots)
<1>1. 1 \in Int /\ 2 \in Int
  OBVIOUS
<1> QED  BY ONLY <1>1, FS_Interval, Zenon DEF Slots

LEMMA PlaceType ==
  ASSUME NEW G, IsFiniteSet(G), NEW c
  PROVE  Place(G, c) \in Nat
<1>1. IsFiniteSet({m \in G : <<G, m, c>> \in Precedence})
  BY FS_Subset
<1>2. Cardinality({m \in G : <<G, m, c>> \in Precedence}) \in Nat
  BY <1>1, FS_CardinalityType
<1> QED  BY <1>2 DEF Place

LEMMA AddressType ==
  ASSUME NEW b \in Nat, NEW serial \in [Slots -> Nat]
  PROVE  Address(b, serial) \in [0 .. 2 -> Nat]
<1> DEFINE seen == {i \in Slots : serial[i] # Free}
           G == {b} \cup {serial[i] : i \in seen}
<1>1. IsFiniteSet(G)
  <2>1. G \subseteq {b} \cup ({serial[1]} \cup {serial[2]})
    BY DEF Slots
  <2>2. IsFiniteSet({b} \cup ({serial[1]} \cup {serial[2]}))
    BY FS_Singleton, FS_Union
  <2> QED  BY <2>1, <2>2, FS_Subset
<1>2. \A c : Place(G, c) \in Nat
  BY <1>1, PlaceType
<1>3. Address(b, serial) =
        [i \in 0 .. 2 |-> CASE i = 0 -> Place(G, b)
                            [] i \in seen -> Place(G, serial[i])
                            [] OTHER -> IF seen = {} THEN i ELSE 2]
  BY Zenon DEF Address
<1> HIDE DEF G, seen
<1>4. ASSUME NEW i \in 0 .. 2  PROVE Address(b, serial)[i] \in Nat
  <2>1. CASE i = 0
    <3>1. i \notin seen
      BY <2>1 DEF seen, Slots
    <3>2. Address(b, serial)[i] = Place(G, b)
      BY <1>3, <2>1, <3>1, Zenon
    <3> QED  BY <1>2, <3>2
  <2>2. CASE i # 0 /\ i \in seen
    <3>1. Address(b, serial)[i] = Place(G, serial[i])
      BY <1>3, <2>2, Zenon
    <3> QED  BY <1>2, <3>1
  <2>3. CASE i # 0 /\ i \notin seen
    <3>1. Address(b, serial)[i] = IF seen = {} THEN i ELSE 2
      BY <1>3, <2>3, Zenon
    <3> QED  BY <3>1
  <2> QED  BY <2>1, <2>2, <2>3
<1>5. Address(b, serial) = [i \in 0 .. 2 |-> Address(b, serial)[i]]
  BY <1>3, Zenon
<1> QED  BY <1>4, <1>5, Zenon

LEMMA AgedType ==
  ASSUME NEW k \in Knowledge
  PROVE  Aged(k) \in Knowledge
<1>1. \A n \in Nat : OneMore(n) \in Nat
  BY DacAssumption DEF OneMore
<1> DEFINE ping == [i \in Slots |-> OneMore(k.ping[i])]
           data == [i \in Slots |-> OneMore(k.pingData[i])]
           serial == [i \in Slots |-> IF ping[i] = MAX_COUNT_PING_LOST THEN Free ELSE k.serial[i]]
           out == [i \in Slots |-> data[i] < MAX_COUNT_PING_LOST /\ k.out[i]]
<1>2. ping \in [Slots -> Nat] /\ data \in [Slots -> Nat]
  BY <1>1 DEF Knowledge
<1>3. serial \in [Slots -> Nat]
  BY DEF Knowledge, Free
<1>4. out \in [Slots -> BOOLEAN]
  BY Zenon
<1>5. k.start + 1 \in Nat
  BY DEF Knowledge
<1>6. Aged(k) = [k EXCEPT !.start = @ + 1, !.ping = ping, !.pingData = data,
                          !.serial = serial, !.out = out]
  BY Zenon DEF Aged
<1> HIDE DEF ping, data, serial, out
<1> QED  BY <1>2, <1>3, <1>4, <1>5, <1>6 DEF Knowledge

LEMMA AddressedType ==
  ASSUME NEW b \in BLOCKS, NEW k \in Knowledge
  PROVE  Addressed(b, k) \in Knowledge
<1>1. b \in Nat
  BY DacAssumption
<1>2. k.serial \in [Slots -> Nat]
  BY DEF Knowledge
<1>3. Address(b, k.serial) \in [0 .. 2 -> Nat]
  BY <1>1, <1>2, AddressType
<1> QED  BY <1>3 DEF Addressed, Knowledge

LEMMA DecidedType ==
  ASSUME NEW b \in BLOCKS, NEW k \in Knowledge
  PROVE  Decided(b, k) \in Knowledge
<1>1. Decision(b, k) \in BOOLEAN
  BY Zenon DEF Decision, Takes
<1> HIDE DEF Decision
<1> QED  BY <1>1, DacAssumption DEF Decided, Knowledge

LEMMA HeardType ==
  ASSUME NEW b \in BLOCKS, NEW k \in Knowledge
  PROVE  Heard(k, b) \in Knowledge
<1>1. \A i : [k EXCEPT !.serial[i] = b, !.ping[i] = 0] \in Knowledge
  BY DacAssumption DEF Knowledge
<1> QED  BY <1>1 DEF Heard

LEMMA ToldType ==
  ASSUME NEW k \in Knowledge, NEW adr, NEW out \in BOOLEAN, NEW err \in Errors
  PROVE  Told(k, adr, out, err) \in Knowledge
<1>1. \A i : [k EXCEPT !.out[i] = out, !.err[i] = err, !.pingData[i] = 0] \in Knowledge
  BY DEF Knowledge
<1> QED  BY <1>1 DEF Told

LEMMA TypeInit == Init => TypeOK
<1> SUFFICES ASSUME Init  PROVE TypeOK
  OBVIOUS
<1> QED  BY FreshType DEF Init, TypeOK

LEMMA TypeStep == TypeOK /\ [Next]_vars => TypeOK'
<1> SUFFICES ASSUME TypeOK, [Next]_vars  PROVE TypeOK'
  OBVIOUS
<1>1. CASE UNCHANGED vars
  BY <1>1 DEF vars, outside, TypeOK
<1>2. ASSUME NEW b \in BLOCKS, SelectMasterDAC(b)  PROVE TypeOK'
  <2> DEFINE mine == Addressed(b, Aged(block[b]))
             Hears(k) == IF mine.start >= ORDER_AFTER /\ \E i \in 0 .. 2 : mine.adr[i] # 0
                         THEN Told(Heard(k, b), mine.adr[0], command[b], ErrorDAC(b))
                         ELSE Heard(k, b)
  <2>1. mine \in Knowledge
    BY AgedType, AddressedType DEF TypeOK
  <2>2. Decided(b, mine) \in Knowledge
    BY <2>1, DecidedType
  <2>3. ASSUME NEW c \in BLOCKS  PROVE Hears(block[c]) \in Knowledge
    <3>1. Heard(block[c], b) \in Knowledge
      BY HeardType DEF TypeOK
    <3>2. command[b] \in BOOLEAN /\ ErrorDAC(b) \in Errors
      BY ErrorType DEF TypeOK
    <3>3. Told(Heard(block[c], b), mine.adr[0], command[b], ErrorDAC(b)) \in Knowledge
      BY <3>1, <3>2, ToldType
    <3> QED  BY <3>1, <3>3
  <2>4. \A c \in BLOCKS : block[c] \in Knowledge
    BY DEF TypeOK
  <2>5. /\ block' = IF working[b]
                    THEN [c \in BLOCKS |->
                            CASE c = b -> Decided(b, mine)
                              [] c # b /\ online[b] /\ online[c] -> Hears(block[c])
                              [] OTHER -> block[c]]
                    ELSE block
        /\ UNCHANGED <<command, output, measured>>
    BY <1>2 DEF SelectMasterDAC, outside
  <2> HIDE DEF mine, Hears
  <2>6. block' \in [BLOCKS -> Knowledge]
    BY <2>2, <2>3, <2>4, <2>5 DEF TypeOK
  <2> QED  BY <2>5, <2>6 DEF TypeOK
<1>3. ASSUME NEW b \in BLOCKS, Measure(b)  PROVE TypeOK'
  BY <1>3 DEF Measure, outside, TypeOK
<1>4. ASSUME NEW b \in BLOCKS, Command(b)  PROVE TypeOK'
  BY <1>4 DEF Command, TypeOK
<1>5. ASSUME NEW b \in BLOCKS, Line(b) \/ Chip(b) \/ Start(b)  PROVE TypeOK'
  BY <1>5 DEF Line, Chip, Start, TypeOK
<1>6. ASSUME NEW b \in BLOCKS, Stop(b)  PROVE TypeOK'
  <2>1. /\ block' = [block EXCEPT ![b] = [block[b] EXCEPT !.master = FALSE, !.start = 0]]
        /\ UNCHANGED <<command, output, measured>>
    BY <1>6 DEF Stop
  <2>2. [block[b] EXCEPT !.master = FALSE, !.start = 0] \in Knowledge
    BY DEF TypeOK, Knowledge
  <2> QED  BY <2>1, <2>2 DEF TypeOK
<1>7. ASSUME NEW b \in BLOCKS, Restart(b)  PROVE TypeOK'
  <2>1. /\ block' = [block EXCEPT ![b] = Fresh]
        /\ command' = [command EXCEPT ![b] = FALSE]
        /\ measured' = [measured EXCEPT ![b] = ERROR_OK]
        /\ output' = output
    BY <1>7 DEF Restart
  <2> QED  BY <2>1, FreshType DEF TypeOK
<1>8. ASSUME NEW b \in BLOCKS, NEW fault \in FAULTS, Output(b, fault)  PROVE TypeOK'
  BY <1>8 DEF Output, TypeOK
<1> QED  BY <1>1, <1>2, <1>3, <1>4, <1>5, <1>6, <1>7, <1>8 DEF Next

\* What the boards keep about each other has its type, for every set of three boards.
THEOREM TypeCorrect == Spec => []TypeOK
BY TypeInit, TypeStep, PTL DEF Spec

-----------------------------------------------------------------------------
(* The decision, and boards that agree.                                    *)

Views(adr, err, out) ==
  adr \in [0 .. 2 -> Nat] /\ err \in [0 .. 2 -> Errors] /\ out \in [0 .. 2 -> BOOLEAN]

\* A board without a low current that takes the channel has a lower address than every
\* faultless board that is to drive it too.
LEMMA Yields ==
  ASSUME NEW adr, NEW err, NEW out, Views(adr, err, out), Takes(adr, err, out),
         out[0], err[0] # ERROR_ZERO,
         NEW i \in Slots, out[i], err[i] = ERROR_OK
  PROVE  adr[0] < adr[i]
<1> DEFINE others == {j \in Slots : out[j]}
           sound == {j \in Slots : ~Counts(err[j])}
<1>1. err[0] = ERROR_OK
  BY DEF Views, Errors, Takes, ERROR_OK, ERROR_ZERO, ERROR_KZ
<1>2. ~Counts(err[0]) /\ ~Counts(err[i])
  BY <1>1 DEF Counts, ERROR_OK
<1>3. i \in others /\ i \in sound
  BY <1>2
<1>4. ~(err[0] < err[i])
  BY <1>1 DEF ERROR_OK
<1>5. \/ others = {}
      \/ others = Slots /\ \A j \in sound : adr[0] < adr[j]
      \/ \E n \in Slots : others = {n} /\ (err[0] < err[n] \/ adr[0] < adr[n])
  BY <1>2, Zenon DEF Takes
<1>6. ASSUME NEW n \in Slots, others = {n}, err[0] < err[n] \/ adr[0] < adr[n]
      PROVE  adr[0] < adr[i]
  BY <1>3, <1>4, <1>6, Zenon
<1> QED  BY <1>3, <1>5, <1>6, Zenon

\* The faultless board with the lowest address takes the channel, as long as no board
\* has a high current.
LEMMA TakesIt ==
  ASSUME NEW adr, NEW err, NEW out, Views(adr, err, out),
         out[0], err[0] = ERROR_OK,
         \A i \in Slots : out[i] =>
           err[i] # ERROR_KZ /\ (err[i] = ERROR_OK => adr[0] < adr[i])
  PROVE  Takes(adr, err, out)
<1> DEFINE others == {j \in Slots : out[j]}
           sound == {j \in Slots : ~Counts(err[j])}
<1>1. err[0] < ERROR_KZ /\ ~Counts(err[0])
  BY DEF Counts, ERROR_OK, ERROR_KZ
<1>2. ASSUME NEW i \in Slots, out[i]  PROVE err[0] < err[i] \/ adr[0] < adr[i]
  BY <1>2 DEF Views, Errors, ERROR_OK, Slots
<1>3. ASSUME NEW i \in Slots, out[i], ~Counts(err[i])  PROVE adr[0] < adr[i]
  <2>1. err[i] \in Errors /\ err[i] # 2
    BY <1>3 DEF Views, Slots, ERROR_KZ
  <2>2. err[i] = 0
    BY <1>3, <2>1 DEF Errors, Counts
  <2> QED  BY <1>3, <2>2 DEF ERROR_OK
<1>4. others = {} \/ others = Slots \/ \E n \in Slots : others = {n}
  BY DEF Slots
<1>5. CASE others = {}
  BY <1>1, <1>5, Zenon DEF Takes
<1>6. CASE others = Slots
  <2>1. \A j \in sound : adr[0] < adr[j]
    BY <1>3, <1>6
  <2> QED  BY <1>1, <1>6, <2>1, Zenon DEF Takes
<1>7. ASSUME NEW n \in Slots, others = {n}  PROVE Takes(adr, err, out)
  <2>1. err[0] < err[n] \/ adr[0] < adr[n]
    BY <1>2, <1>7
  <2> QED  BY <1>1, <1>7, <2>1, Zenon DEF Takes
<1> QED  BY <1>4, <1>5, <1>6, <1>7

\* How board a sees board b.
Sees(a, b, i) ==
  /\ block[a].adr[i] = block[b].adr[0]
  /\ block[a].out[i] = command[b] /\ block[a].err[i] = ErrorDAC(b)

OwnErrors(a)   == Own(ErrorDAC(a), block[a].err)
OwnCommands(a) == Own(command[a], block[a].out)

\* What a board decides from is its own value and those of the others in the group.
LEMMA View ==
  ASSUME TypeOK, Agreement, Settled, NEW a \in Group
  PROVE  /\ Views(block[a].adr, OwnErrors(a), OwnCommands(a))
         /\ OwnErrors(a)[0] = ErrorDAC(a) /\ OwnCommands(a)[0] = command[a]
         /\ \A i \in Slots : OwnErrors(a)[i] = block[a].err[i] /\ OwnCommands(a)[i] = block[a].out[i]
         /\ block[a].master = Takes(block[a].adr, OwnErrors(a), OwnCommands(a))
         /\ \A b \in Group \ {a} : \E i \in Slots : Sees(a, b, i)
         /\ \A i \in Slots : block[a].out[i] => \E b \in Group \ {a} : Sees(a, b, i)
<1>1. a \in BLOCKS /\ block[a] \in Knowledge /\ command[a] \in BOOLEAN
  BY DEF Group, TypeOK
<1>2. block[a].adr \in [0 .. 2 -> Nat]
  BY <1>1 DEF Knowledge
<1>3. OwnErrors(a) \in [0 .. 2 -> Errors]
  <2>1. block[a].err \in [Slots -> Errors] /\ ErrorDAC(a) \in Errors
    BY <1>1, ErrorType DEF Knowledge
  <2> QED  BY <2>1 DEF OwnErrors, Own, Slots
<1>4. OwnCommands(a) \in [0 .. 2 -> BOOLEAN]
  <2>1. block[a].out \in [Slots -> BOOLEAN]
    BY <1>1 DEF Knowledge
  <2>2. \A i \in 0 .. 2 : i = 0 \/ i \in Slots
    BY DEF Slots
  <2> QED  BY <1>1, <2>1, <2>2, Zenon DEF OwnCommands, Own
<1>5. /\ OwnErrors(a)[0] = ErrorDAC(a) /\ OwnCommands(a)[0] = command[a]
      /\ \A i \in Slots : OwnErrors(a)[i] = block[a].err[i] /\ OwnCommands(a)[i] = block[a].out[i]
  BY DEF OwnErrors, OwnCommands, Own, Slots
<1>6. block[a].master = Takes(block[a].adr, OwnErrors(a), OwnCommands(a))
  BY Zenon DEF Agreement, Decision, OwnErrors, OwnCommands
<1>7. \A b \in Group \ {a} : \E i \in Slots : Sees(a, b, i)
  BY Zenon DEF Agreement, Sees
<1>8. ASSUME NEW i \in Slots, block[a].out[i]
      PROVE  \E b \in Group \ {a} : Sees(a, b, i)
  <2>1. PICK b \in Group \ {a} : block[a].adr[i] = block[b].adr[0]
    BY <1>8, Zenon DEF Agreement
  <2>2. PICK j \in Slots : Sees(a, b, j)
    BY <1>7
  <2>3. block[a].adr[i] = block[a].adr[j]
    BY <2>1, <2>2 DEF Sees
  <2>4. i = j
    <3>1. i \in 0 .. 2 /\ j \in 0 .. 2
      BY DEF Slots
    <3>2. \A m, n \in 0 .. 2 : m # n => block[a].adr[m] # block[a].adr[n]
      BY Zenon DEF Agreement
    <3> QED  BY <2>3, <3>1, <3>2
  <2> QED  BY <2>2, <2>4
<1> QED  BY <1>2, <1>3, <1>4, <1>5, <1>6, <1>7, <1>8 DEF Views

LEMMA AgreementOneDrives ==
  ASSUME TypeOK, Agreement
  PROVE  OneDrives
<1> SUFFICES ASSUME Settled, NEW a \in Group, NEW b \in Group, a # b,
                    Driving(a), Driving(b),
                    ErrorDAC(a) # ERROR_ZERO, ErrorDAC(b) # ERROR_ZERO
             PROVE  FALSE
  BY DEF OneDrives
<1>1. ASSUME NEW c \in Group, Driving(c), ErrorDAC(c) # ERROR_ZERO
      PROVE  /\ Takes(block[c].adr, OwnErrors(c), OwnCommands(c)) /\ command[c]
             /\ ErrorDAC(c) = ERROR_OK
  <2>1. Takes(block[c].adr, OwnErrors(c), OwnCommands(c)) /\ command[c]
    BY <1>1, View, Zenon DEF Driving
  <2>2. OwnErrors(c)[0] < ERROR_KZ
    BY <2>1, Zenon DEF Takes
  <2>3. ErrorDAC(c) \in Errors /\ ErrorDAC(c) < 2
    BY <2>2, View, ErrorType DEF Group, ERROR_KZ
  <2>4. ErrorDAC(c) = 0
    BY <1>1, <2>3 DEF Errors, ERROR_ZERO
  <2> QED  BY <2>1, <2>4 DEF ERROR_OK
<1>2. ASSUME NEW c \in Group, NEW d \in Group, c # d, Driving(c), Driving(d),
             ErrorDAC(c) # ERROR_ZERO, ErrorDAC(d) # ERROR_ZERO
      PROVE  block[c].adr[0] < block[d].adr[0]
  <2>1. PICK i \in Slots : Sees(c, d, i)
    BY <1>2, View
  <2>2. /\ OwnCommands(c)[i] = command[d] /\ OwnErrors(c)[i] = ErrorDAC(d)
        /\ block[c].adr[i] = block[d].adr[0]
    BY <2>1, View DEF Sees
  <2>3. OwnCommands(c)[i] /\ OwnErrors(c)[i] = ERROR_OK
    BY <1>1, <1>2, <2>2, Zenon
  <2>4. OwnCommands(c)[0] /\ OwnErrors(c)[0] # ERROR_ZERO
    BY <1>1, <1>2, View, Zenon
  <2>5. /\ Views(block[c].adr, OwnErrors(c), OwnCommands(c))
        /\ Takes(block[c].adr, OwnErrors(c), OwnCommands(c))
    BY <1>1, <1>2, View
  <2>6. block[c].adr[0] < block[c].adr[i]
    BY <2>3, <2>4, <2>5, Yields
  <2> QED  BY <2>2, <2>6
<1>3. block[a].adr[0] \in Nat /\ block[b].adr[0] \in Nat
  BY DEF TypeOK, Group, Knowledge
<1> QED  BY <1>2, <1>3

\* The boards that could drive without an error.
Able == {b \in Group : command[b] /\ ErrorDAC(b) = ERROR_OK}

LEMMA LowestAble ==
  ASSUME TypeOK, Agreement, Settled, Able # {}
  PROVE  \E c \in Able : \A d \in Able : d # c => block[c].adr[0] < block[d].adr[0]
<1>1. PICK b \in Able : TRUE
  OBVIOUS
<1>2. b \in Group
  BY DEF Able
<1> DEFINE adr(i) == block[b].adr[i]
           rivals == {i \in Slots : block[b].out[i] /\ block[b].err[i] = ERROR_OK}
<1>3. \A i \in 0 .. 2 : adr(i) \in Nat
  BY <1>2 DEF TypeOK, Group, Knowledge
<1>4. \A i, j \in 0 .. 2 : i # j => adr(i) # adr(j)
  BY <1>2, Zenon DEF Agreement
<1>5. ASSUME NEW i \in rivals  PROVE \E d \in Able : adr(i) = block[d].adr[0]
  <2>1. PICK d \in Group \ {b} : Sees(b, d, i)
    BY <1>2, View
  <2>2. command[d] /\ ErrorDAC(d) = ERROR_OK /\ adr(i) = block[d].adr[0]
    BY <2>1, Zenon DEF Sees
  <2> QED  BY <2>2 DEF Able
<1>6. ASSUME NEW d \in Able  PROVE \E i \in {0} \cup rivals : adr(i) = block[d].adr[0]
  <2>1. CASE d = b
    BY <2>1
  <2>2. CASE d # b
    <3>1. d \in Group /\ command[d] /\ ErrorDAC(d) = ERROR_OK
      BY DEF Able
    <3>2. PICK i \in Slots : Sees(b, d, i)
      BY <1>2, <2>2, <3>1, View
    <3>3. i \in rivals /\ adr(i) = block[d].adr[0]
      BY <3>1, <3>2, Zenon DEF Sees
    <3> QED  BY <3>3
  <2> QED  BY <2>1, <2>2
<1>7. PICK n \in {0} \cup rivals : \A j \in {0} \cup rivals : adr(n) <= adr(j)
  <2>1. rivals \subseteq {1, 2}
    BY DEF Slots
  <2>2. adr(0) \in Nat /\ adr(1) \in Nat /\ adr(2) \in Nat
    BY <1>3
  <2> HIDE DEF rivals, adr
  <2> QED  BY <2>1, <2>2
<1>8. PICK c \in Able : adr(n) = block[c].adr[0]
  BY <1>1, <1>5
<1>9. ASSUME NEW d \in Able, d # c  PROVE block[c].adr[0] < block[d].adr[0]
  <2>1. block[c].adr[0] <= block[d].adr[0]
    BY <1>6, <1>7, <1>8
  <2>2. block[c].adr[0] # block[d].adr[0]
    <3>1. c \in Group /\ d \in Group \ {c}
      BY <1>9 DEF Able
    <3>2. PICK i \in Slots : Sees(c, d, i)
      BY <3>1, View
    <3>3. i \in 0 .. 2 /\ i # 0 /\ 0 \in 0 .. 2
      BY DEF Slots
    <3>4. block[c].adr[0] # block[c].adr[i]
      BY <3>1, <3>3, Zenon DEF Agreement
    <3> QED  BY <3>2, <3>4 DEF Sees
  <2>3. block[c].adr[0] \in Nat /\ block[d].adr[0] \in Nat
    BY DEF TypeOK, Able, Group, Knowledge
  <2> QED  BY <2>1, <2>2, <2>3
<1> QED  BY <1>9

LEMMA AgreementNotAbandoned ==
  ASSUME TypeOK, Agreement
  PROVE  NotAbandoned
<1> SUFFICES ASSUME Settled, Able # {}, \A b \in BLOCKS : ErrorDAC(b) # ERROR_KZ
             PROVE  \E b \in Group : Driving(b)
  BY DEF NotAbandoned, Able
<1>1. PICK c \in Able : \A d \in Able : d # c => block[c].adr[0] < block[d].adr[0]
  BY LowestAble
<1>2. c \in Group /\ command[c] /\ ErrorDAC(c) = ERROR_OK
  BY DEF Able
<1>3. OwnCommands(c)[0] /\ OwnErrors(c)[0] = ERROR_OK
  BY <1>2, View, Zenon
<1>4. ASSUME NEW i \in Slots, OwnCommands(c)[i]
      PROVE  /\ OwnErrors(c)[i] # ERROR_KZ
             /\ OwnErrors(c)[i] = ERROR_OK => block[c].adr[0] < block[c].adr[i]
  <2>1. block[c].out[i] /\ OwnErrors(c)[i] = block[c].err[i]
    BY <1>2, <1>4, View, Zenon
  <2>2. PICK d \in Group \ {c} : Sees(c, d, i)
    BY <1>2, <2>1, View
  <2>3. /\ command[d] /\ OwnErrors(c)[i] = ErrorDAC(d)
        /\ block[c].adr[i] = block[d].adr[0]
    BY <2>1, <2>2, Zenon DEF Sees
  <2>4. d \in BLOCKS
    BY DEF Group
  <2>5. ErrorDAC(d) = ERROR_OK => d \in Able
    BY <2>3 DEF Able
  <2>6. ErrorDAC(d) = ERROR_OK => block[c].adr[0] < block[d].adr[0]
    BY <1>1, <2>5
  <2> QED  BY <2>3, <2>4, <2>6
<1>5. Takes(block[c].adr, OwnErrors(c), OwnCommands(c))
  <2>1. Views(block[c].adr, OwnErrors(c), OwnCommands(c))
    BY <1>2, View
  <2> QED  BY <1>3, <1>4, <2>1, TakesIt
<1>6. Driving(c)
  BY <1>2, <1>5, View, Zenon DEF Driving
<1> QED  BY <1>2, <1>6

-----------------------------------------------------------------------------
(* How the boards come to agree.                                           *)

\* The next period of a comes before the next of b, so the last of b was after that of a.
Ahead(a, b) == a # b /\ (order[turn] = a \/ order[(turn + 2) % 3] = b)

\* The periods of board a since the last of board b.
Lag(a, b) == IF Ahead(a, b) THEN 0 ELSE 1

\* The boards take turns, so none is more than a period behind another.
RoundInv ==
  /\ order \in [0 .. 2 -> BLOCKS] /\ \A b \in BLOCKS : \E i \in 0 .. 2 : order[i] = b
  /\ turn \in 0 .. 2
  /\ calm \in [BLOCKS -> 0 .. Calm]
  /\ \A a, b \in BLOCKS : Ahead(a, b) => calm[a] <= calm[b] /\ calm[b] <= calm[a] + 1

LEMMA Limits ==
  /\ MAX_COUNT_PING_LOST \in Nat /\ MAX_COUNT_PING_LOST > 1
  /\ ORDER_AFTER \in Nat /\ ORDER_AFTER > 0 /\ TAKE_AFTER \in Nat /\ ORDER_AFTER <= TAKE_AFTER
  /\ Ordering \in Nat /\ Ordering >= MAX_COUNT_PING_LOST /\ Ordering >= ORDER_AFTER
  /\ Calm \in Nat /\ Calm >= TAKE_AFTER /\ Calm >= Ordering + MAX_COUNT_PING_LOST - 1
BY DacAssumption DEF Ordering, Calm

\* Three turns are those of three different boards.
LEMMA ThreeBoards ==
  ASSUME RoundInv
  PROVE  /\ order[0] # order[1] /\ order[0] # order[2] /\ order[1] # order[2]
         /\ BLOCKS = {order[0], order[1], order[2]}
<1>1. order \in Surjection(0 .. 2, BLOCKS)
  BY DEF RoundInv, Surjection
<1>2. IsFiniteSet(0 .. 2) /\ Cardinality(0 .. 2) = 3
  <2>1. 0 \in Int /\ 2 \in Int /\ ~(0 > 2) /\ 2 - 0 + 1 = 3
    OBVIOUS
  <2> QED  BY ONLY <2>1, FS_Interval
<1>3. order \in Injection(0 .. 2, BLOCKS)
  BY <1>1, <1>2, DacAssumption, FS_Surjection
<1>4. order[0] # order[1] /\ order[0] # order[2] /\ order[1] # order[2]
  <2>1. \A i, j \in 0 .. 2 : order[i] = order[j] => i = j
    BY <1>3 DEF Injection, IsInjective
  <2> QED  BY <2>1
<1>5. BLOCKS = {order[0], order[1], order[2]}
  <2>1. order[0] \in BLOCKS /\ order[1] \in BLOCKS /\ order[2] \in BLOCKS
    BY DEF RoundInv
  <2>2. \A b \in BLOCKS : b = order[0] \/ b = order[1] \/ b = order[2]
    BY DEF RoundInv
  <2> QED  BY <2>1, <2>2, Zenon
<1> QED  BY <1>4, <1>5

\* After its turn a board is the last in the round, the others keep their order.
LEMMA NextInRound ==
  ASSUME RoundInv, turn' = (turn + 1) % 3, order' = order, NEW a \in BLOCKS, NEW b \in BLOCKS
  PROVE  /\ a # order[turn] => Ahead(order[turn], a)
         /\ ~Ahead(a, order[turn])
         /\ Ahead(a, b)' <=> a # b /\ (b = order[turn] \/ (a # order[turn] /\ Ahead(a, b)))
<1>1. /\ order[0] # order[1] /\ order[0] # order[2] /\ order[1] # order[2]
      /\ BLOCKS = {order[0], order[1], order[2]}
  BY ThreeBoards
<1>2. \/ turn = 0 /\ (turn + 2) % 3 = 2 /\ turn' = 1 /\ (turn' + 2) % 3 = 0
      \/ turn = 1 /\ (turn + 2) % 3 = 0 /\ turn' = 2 /\ (turn' + 2) % 3 = 1
      \/ turn = 2 /\ (turn + 2) % 3 = 1 /\ turn' = 0 /\ (turn' + 2) % 3 = 2
  BY DEF RoundInv
<1>3. CASE turn = 0
  BY <1>1, <1>2, <1>3 DEF Ahead
<1>4. CASE turn = 1
  BY <1>1, <1>2, <1>4 DEF Ahead
<1>5. CASE turn = 2
  BY <1>1, <1>2, <1>5 DEF Ahead
<1> QED  BY <1>2, <1>3, <1>4, <1>5

\* What happens between the periods: the count of calm periods begins anew, and at most one
\* board loses what it knows, or lets its channel go.
Disturbed ==
  /\ calm' = [c \in BLOCKS |-> 0] /\ UNCHANGED <<order, turn>>
  /\ \/ block' = block
     \/ \E b \in BLOCKS : \/ block' = [block EXCEPT ![b] = Fresh]
                          \/ block' = [block EXCEPT ![b].master = FALSE, ![b].start = 0]

LEMMA Steps ==
  ASSUME [Next]_vars
  PROVE  \/ UNCHANGED vars
         \/ SelectMasterDAC(order[turn]) /\ order[turn] \in BLOCKS
         \/ Disturbed
<1>1. ASSUME NEW b \in BLOCKS, SelectMasterDAC(b)
      PROVE  SelectMasterDAC(order[turn]) /\ order[turn] \in BLOCKS
  <2>1. order[turn] = b
    BY <1>1 DEF SelectMasterDAC
  <2> QED  BY <1>1, <2>1, Zenon
<1>2. ASSUME NEW b \in BLOCKS, Measure(b)  PROVE Disturbed
  BY <1>2 DEF Measure, Disturbed
<1>3. ASSUME NEW b \in BLOCKS, Command(b) \/ Line(b) \/ Chip(b) \/ Start(b)  PROVE Disturbed
  BY <1>3 DEF Command, Line, Chip, Start, Event, Disturbed
<1>4. ASSUME NEW b \in BLOCKS, NEW fault \in FAULTS, Output(b, fault)  PROVE Disturbed
  BY <1>4 DEF Output, Event, Disturbed
<1>5. ASSUME NEW b \in BLOCKS, Stop(b)  PROVE Disturbed
  BY <1>5, Zenon DEF Stop, Event, Disturbed
<1>6. ASSUME NEW b \in BLOCKS, Restart(b)  PROVE Disturbed
  BY <1>6, Zenon DEF Restart, Event, Disturbed
<1> QED  BY <1>1, <1>2, <1>3, <1>4, <1>5, <1>6, Zenon DEF Next

LEMMA RoundInit == Init => RoundInv
BY Limits DEF Init, RoundInv

LEMMA RoundStep == RoundInv /\ [Next]_vars => RoundInv'
<1> SUFFICES ASSUME RoundInv, [Next]_vars  PROVE RoundInv'
  OBVIOUS
<1>1. CASE UNCHANGED vars
  BY <1>1 DEF vars, RoundInv, Ahead
<1>2. CASE Disturbed
  <2>1. order' = order /\ turn' = turn /\ \A c \in BLOCKS : calm'[c] = 0
    BY <1>2 DEF Disturbed
  <2>2. calm' \in [BLOCKS -> 0 .. Calm]
    BY <1>2, Limits DEF Disturbed
  <2> QED  BY <2>1, <2>2 DEF RoundInv
<1>3. CASE SelectMasterDAC(order[turn])
  <2> DEFINE n == order[turn]
  <2>1. /\ turn' = (turn + 1) % 3 /\ order' = order
        /\ calm' = [calm EXCEPT ![n] = IF calm[n] < Calm THEN calm[n] + 1 ELSE calm[n]]
    BY <1>3 DEF SelectMasterDAC
  <2>2. n \in BLOCKS /\ turn' \in 0 .. 2
    BY <2>1 DEF RoundInv
  <2>3. \A c \in BLOCKS : calm[c] \in Nat /\ calm[c] <= Calm
    BY Limits DEF RoundInv
  <2>4. calm' \in [BLOCKS -> 0 .. Calm]
    BY <2>1, <2>2, <2>3, Limits DEF RoundInv
  <2>5. ASSUME NEW a \in BLOCKS, NEW b \in BLOCKS, Ahead(a, b)'
        PROVE  calm'[a] <= calm'[b] /\ calm'[b] <= calm'[a] + 1
    <3>1. a # b /\ (b = n \/ (a # n /\ Ahead(a, b)))
      BY <2>1, <2>5, NextInRound
    <3>2. CASE b = n
      <4>1. Ahead(n, a)
        BY <2>1, <3>1, <3>2, NextInRound
      <4>2. calm[n] <= calm[a] /\ calm[a] <= calm[n] + 1
        BY <2>2, <4>1 DEF RoundInv
      <4>3. /\ calm'[a] = calm[a]
            /\ calm'[n] = IF calm[n] < Calm THEN calm[n] + 1 ELSE calm[n]
        BY <2>1, <2>2, <3>1, <3>2 DEF RoundInv
      <4> QED  BY <2>2, <2>3, <3>2, <4>2, <4>3, Limits
    <3>3. CASE b # n
      <4>1. calm[a] <= calm[b] /\ calm[b] <= calm[a] + 1
        BY <3>1, <3>3 DEF RoundInv
      <4>2. calm'[a] = calm[a] /\ calm'[b] = calm[b]
        BY <2>1, <3>1, <3>3 DEF RoundInv
      <4> QED  BY <4>1, <4>2
    <3> QED  BY <3>2, <3>3
  <2> QED  BY <2>1, <2>2, <2>4, <2>5 DEF RoundInv
<1> QED  BY <1>1, <1>2, <1>3, Steps

\* What the period of a board makes of its own knowledge.
LEMMA OwnPeriod ==
  ASSUME TypeOK, NEW n \in BLOCKS, SelectMasterDAC(n), working[n],
         NEW k, k = block[n], NEW new, new = block'[n]
  PROVE  /\ new.start = IF k.start + 1 < TAKE_AFTER THEN k.start + 1 ELSE TAKE_AFTER
         /\ \A i \in Slots :
              /\ new.ping[i] = OneMore(k.ping[i]) /\ new.pingData[i] = OneMore(k.pingData[i])
              /\ new.serial[i] = IF new.ping[i] = MAX_COUNT_PING_LOST THEN Free ELSE k.serial[i]
              /\ new.out[i] <=> new.pingData[i] < MAX_COUNT_PING_LOST /\ k.out[i]
              /\ new.err[i] = k.err[i]
         /\ new.adr = IF k.start + 1 >= ORDER_AFTER THEN Address(n, new.serial) ELSE k.adr
         /\ k.start + 1 >= TAKE_AFTER => new.master = Decision(n, new)
         /\ Addressed(n, Aged(k)).adr = new.adr /\ Addressed(n, Aged(k)).start = k.start + 1
<1> DEFINE aged == Aged(k)
           mine == Addressed(n, aged)
<1>1. k \in Knowledge /\ aged \in Knowledge /\ mine \in Knowledge
  BY AgedType, AddressedType DEF TypeOK
<1>2. new = Decided(n, mine)
  <2>1. block' = [c \in BLOCKS |-> block'[c]] /\ block'[n] = Decided(n, mine)
    BY DEF SelectMasterDAC
  <2> QED  BY <2>1
<1>3. /\ aged.start = k.start + 1 /\ aged.err = k.err /\ aged.adr = k.adr
      /\ \A i \in Slots :
           /\ aged.ping[i] = OneMore(k.ping[i]) /\ aged.pingData[i] = OneMore(k.pingData[i])
           /\ aged.serial[i] = IF aged.ping[i] = MAX_COUNT_PING_LOST THEN Free ELSE k.serial[i]
           /\ aged.out[i] <=> aged.pingData[i] < MAX_COUNT_PING_LOST /\ k.out[i]
  BY <1>1 DEF Aged, Knowledge
<1> HIDE DEF aged
<1>4. /\ mine.start = aged.start /\ mine.serial = aged.serial /\ mine.ping = aged.ping
      /\ mine.pingData = aged.pingData /\ mine.out = aged.out /\ mine.err = aged.err
      /\ mine.adr = IF aged.start >= ORDER_AFTER THEN Address(n, aged.serial) ELSE aged.adr
  BY <1>1 DEF Addressed, Knowledge
<1> HIDE DEF mine
<1>5. /\ new.serial = mine.serial /\ new.ping = mine.ping
      /\ new.pingData = mine.pingData /\ new.out = mine.out /\ new.err = mine.err
      /\ new.adr = mine.adr
      /\ new.start = IF mine.start < TAKE_AFTER THEN mine.start ELSE TAKE_AFTER
      /\ mine.start >= TAKE_AFTER => new.master = Decision(n, mine)
  <2>1. CASE mine.start < TAKE_AFTER
    <3>1. new = mine
      BY <1>2, <2>1, Zenon DEF Decided
    <3>2. ~(mine.start >= TAKE_AFTER)
      BY <1>1, <2>1, Limits DEF Knowledge
    <3> QED  BY <2>1, <3>1, <3>2
  <2>2. CASE ~(mine.start < TAKE_AFTER)
    <3> DEFINE d == Decision(n, mine)
    <3>1. new = [mine EXCEPT !.start = TAKE_AFTER, !.master = d]
      BY <1>2, <2>2, Zenon DEF Decided
    <3> HIDE DEF d
    <3>2. /\ new.serial = mine.serial /\ new.ping = mine.ping
          /\ new.pingData = mine.pingData /\ new.out = mine.out /\ new.err = mine.err
          /\ new.adr = mine.adr /\ new.start = TAKE_AFTER /\ new.master = d
      BY <1>1, <3>1 DEF Knowledge
    <3> QED  BY <2>2, <3>2 DEF d
  <2> QED  BY <2>1, <2>2
<1>6. Decision(n, mine) = Decision(n, new)
  BY <1>5, Zenon DEF Decision
<1>7. Addressed(n, Aged(k)).adr = new.adr /\ Addressed(n, Aged(k)).start = k.start + 1
  BY <1>3, <1>4, <1>5, Zenon DEF mine, aged
<1> QED  BY <1>3, <1>4, <1>5, <1>6, <1>7

\* Board n is entered in its place, in a free one if it has none.
Hearing(k, new, n) ==
  \/ /\ \A i \in Slots : k.serial[i] # n /\ k.serial[i] # Free
     /\ new.serial = k.serial /\ new.ping = k.ping
  \/ \E j \in Slots :
       /\ k.serial[j] = n \/ (k.serial[j] = Free /\ \A i \in Slots : k.serial[i] # n)
       /\ new.serial = [k.serial EXCEPT ![j] = n]
       /\ new.ping = [k.ping EXCEPT ![j] = 0]

\* Its command and error are entered under the address it sent, if that is a neighbour's.
\* It sends nothing before it has given addresses, or while they are all 0.
Telling(k, new, n, sent) ==
  \/ /\ \/ block[n].start + 1 < ORDER_AFTER
        \/ \A i \in 0 .. 2 : block'[n].adr[i] = 0
        \/ sent = k.adr[0]
        \/ \A i \in Slots : k.adr[i] # sent
     /\ new.out = k.out /\ new.err = k.err /\ new.pingData = k.pingData
  \/ \E j \in Slots :
       /\ k.adr[j] = sent /\ sent # k.adr[0]
       /\ new.out = [k.out EXCEPT ![j] = command[n]]
       /\ new.err = [k.err EXCEPT ![j] = ErrorDAC(n)]
       /\ new.pingData = [k.pingData EXCEPT ![j] = 0]

\* What the other boards make of it: they hear the board, and are told by it what they
\* enter under its address.
LEMMA OtherPeriod ==
  ASSUME TypeOK, NEW n \in BLOCKS, SelectMasterDAC(n), working[n], online[n],
         NEW a \in BLOCKS, a # n, online[a],
         NEW k, k = block[a], NEW new, new = block'[a], NEW sent, sent = block'[n].adr[0]
  PROVE  /\ new.start = k.start /\ new.adr = k.adr /\ new.master = k.master
         /\ Hearing(k, new, n)
         /\ Telling(k, new, n, sent)
<1> DEFINE mine == Addressed(n, Aged(block[n]))
           heard == Heard(k, n)
           tells == mine.start >= ORDER_AFTER /\ \E i \in 0 .. 2 : mine.adr[i] # 0
<1>1. k \in Knowledge
  BY DEF TypeOK
<1>2. mine.adr = block'[n].adr /\ mine.start = block[n].start + 1
  <2>1. PICK old : old = block[n]
    OBVIOUS
  <2>2. PICK own : own = block'[n]
    OBVIOUS
  <2>3. Addressed(n, Aged(old)).adr = own.adr /\ Addressed(n, Aged(old)).start = old.start + 1
    BY <2>1, <2>2, OwnPeriod
  <2> QED  BY <2>1, <2>2, <2>3, Zenon
<1>3. block[n].start \in Nat
  BY DEF TypeOK, Knowledge
<1>4. new = IF tells
            THEN Told(heard, sent, command[n], ErrorDAC(n)) ELSE heard
  <2>1. block'[a] = IF tells
                    THEN Told(heard, mine.adr[0], command[n], ErrorDAC(n)) ELSE heard
    <3> HIDE DEF mine
    <3> USE DEF mine
    <3> QED  BY DEF SelectMasterDAC
  <2> QED  BY <1>2, <2>1, Zenon
<1> HIDE DEF mine
<1>5. /\ heard \in Knowledge
      /\ heard.start = k.start /\ heard.adr = k.adr /\ heard.master = k.master
      /\ heard.out = k.out /\ heard.err = k.err /\ heard.pingData = k.pingData
      /\ Hearing(k, heard, n)
  <2> DEFINE known == {i \in Slots : k.serial[i] = n}
             free  == {i \in Slots : k.serial[i] = Free}
             First(S) == CHOOSE i \in S : \A j \in S : i <= j
             Put(i) == [k EXCEPT !.serial[i] = n, !.ping[i] = 0]
  <2>1. heard = IF known # {} THEN Put(First(known))
                ELSE IF free # {} THEN Put(First(free)) ELSE k
    BY Zenon DEF Heard
  <2>2. ASSUME NEW S \in SUBSET Slots, S # {}  PROVE First(S) \in S
    <3>1. \E i \in S : \A j \in S : i <= j
      <4>1. \A i \in S : i = 1 \/ i = 2
        BY DEF Slots
      <4> QED  BY <2>2, <4>1
    <3> QED  BY <3>1, Zenon
  <2>3. ASSUME NEW j \in Slots
        PROVE  /\ Put(j).start = k.start /\ Put(j).adr = k.adr /\ Put(j).master = k.master
               /\ Put(j).out = k.out /\ Put(j).err = k.err /\ Put(j).pingData = k.pingData
               /\ Put(j).serial = [k.serial EXCEPT ![j] = n]
               /\ Put(j).ping = [k.ping EXCEPT ![j] = 0]
    BY <1>1 DEF Knowledge
  <2>4. heard \in Knowledge
    BY <1>1, HeardType
  <2> HIDE DEF Put, First, heard
  <2>5. CASE known # {}
    <3>1. First(known) \in known
      BY <2>2, <2>5
    <3>2. PICK j \in known : heard = Put(j)
      BY <2>1, <2>5, <3>1, Zenon
    <3>3. j \in Slots /\ k.serial[j] = n
      OBVIOUS
    <3>4. Hearing(k, heard, n)
      BY <2>3, <3>2, <3>3, Zenon DEF Hearing
    <3> QED  BY <2>3, <2>4, <3>2, <3>3, <3>4, Zenon
  <2>6. CASE known = {} /\ free # {}
    <3>1. First(free) \in free
      BY <2>2, <2>6
    <3>2. PICK j \in free : heard = Put(j)
      BY <2>1, <2>6, <3>1, Zenon
    <3>3. j \in Slots /\ k.serial[j] = Free /\ \A i \in Slots : k.serial[i] # n
      BY <2>6
    <3>4. Hearing(k, heard, n)
      BY <2>3, <3>2, <3>3, Zenon DEF Hearing
    <3> QED  BY <2>3, <2>4, <3>2, <3>3, <3>4, Zenon
  <2>7. CASE known = {} /\ free = {}
    <3>1. heard = k
      BY <2>1, <2>7, Zenon
    <3>2. \A i \in Slots : k.serial[i] # n /\ k.serial[i] # Free
      BY <2>7
    <3>3. Hearing(k, heard, n)
      BY <3>1, <3>2, Zenon DEF Hearing
    <3> QED  BY <2>4, <3>1, <3>3, Zenon
  <2> QED  BY <2>5, <2>6, <2>7, Zenon
<1> HIDE DEF heard
<1>6. CASE ~tells
  <2>1. new = heard
    BY <1>4, <1>6, Zenon
  <2>2. block[n].start + 1 < ORDER_AFTER \/ \A i \in 0 .. 2 : block'[n].adr[i] = 0
    <3>1. CASE ~(mine.start >= ORDER_AFTER)
      BY <1>2, <1>3, <3>1, Limits
    <3>2. CASE ~(\E i \in 0 .. 2 : mine.adr[i] # 0)
      BY <1>2, <3>2, Zenon
    <3> QED  BY <1>6, <3>1, <3>2
  <2>3. Telling(k, new, n, sent)
    BY <1>5, <2>1, <2>2, Zenon DEF Telling
  <2> QED  BY <1>5, <2>1, <2>3, Zenon
<1>7. CASE tells
  <2> DEFINE places == {i \in Slots : heard.adr[i] = sent}
             last == CHOOSE i \in places : \A j \in places : j <= i
             Entered(i) == [heard EXCEPT !.out[i] = command[n], !.err[i] = ErrorDAC(n),
                                         !.pingData[i] = 0]
  <2>1. new = IF sent = heard.adr[0] \/ places = {} THEN heard ELSE Entered(last)
    <3> HIDE DEF tells
    <3> QED  BY <1>4, <1>7, Zenon DEF Told
  <2>2. CASE sent = heard.adr[0] \/ places = {}
    <3>1. new = heard
      BY <2>1, <2>2, Zenon
    <3>2. sent = k.adr[0] \/ \A i \in Slots : k.adr[i] # sent
      BY <1>5, <2>2
    <3>3. Telling(k, new, n, sent)
      BY <1>5, <3>1, <3>2, Zenon DEF Telling
    <3> QED  BY <1>5, <3>1, <3>3, Zenon
  <2>3. CASE sent # heard.adr[0] /\ places # {}
    <3>1. last \in places
      <4>1. \E i \in places : \A j \in places : j <= i
        <5>1. \A i \in places : i = 1 \/ i = 2
          BY DEF Slots
        <5> QED  BY <2>3, <5>1
      <4> QED  BY <4>1, Zenon
    <3> HIDE DEF Entered, last
    <3>2. PICK j \in places : new = Entered(j)
      BY <2>1, <2>3, <3>1, Zenon
    <3>3. j \in Slots /\ k.adr[j] = sent /\ sent # k.adr[0]
      BY <1>5, <2>3
    <3>4. /\ new.start = heard.start /\ new.adr = heard.adr /\ new.master = heard.master
          /\ new.serial = heard.serial /\ new.ping = heard.ping
          /\ new.out = [heard.out EXCEPT ![j] = command[n]]
          /\ new.err = [heard.err EXCEPT ![j] = ErrorDAC(n)]
          /\ new.pingData = [heard.pingData EXCEPT ![j] = 0]
      BY <1>5, <3>2 DEF Entered, Knowledge
    <3>5. Telling(k, new, n, sent)
      <4>1. /\ new.out = [k.out EXCEPT ![j] = command[n]]
            /\ new.err = [k.err EXCEPT ![j] = ErrorDAC(n)]
            /\ new.pingData = [k.pingData EXCEPT ![j] = 0]
        BY <1>5, <3>4
      <4> QED  BY <3>3, <4>1, Zenon DEF Telling
    <3>6. Hearing(k, new, n)
      <4>1. new.serial = heard.serial /\ new.ping = heard.ping /\ Hearing(k, heard, n)
        BY <1>5, <3>4, Zenon
      <4> QED  BY <4>1 DEF Hearing
    <3> QED  BY <1>5, <3>4, <3>5, <3>6, Zenon
  <2> QED  BY <2>2, <2>3
<1> QED  BY <1>6, <1>7

-----------------------------------------------------------------------------
(* The order of the serial numbers.  Place needs it in every group that    *)
(* may see each other: a premise of the theorems, not of the module.       *)

\* Any boards that may hear each other can be put in order.
Sortable == \A G \in SUBSET BLOCKS : Sorted(G)

LEMMA InOrder ==
  ASSUME NEW H \in SUBSET BLOCKS, NEW b \in H, NEW c \in H
  PROVE  <<H, b, c>> \in Precedence <=> Before(H, b, c)
<1> DEFINE triples == {<<G, m, n>> : G \in SUBSET BLOCKS, m \in BLOCKS, n \in BLOCKS}
<1> PICK t : t = <<H, b, c>>
  OBVIOUS
<1>1. t[1] = H /\ t[2] = b /\ t[3] = c
  OBVIOUS
<1>2. t \in triples
  <2>1. b \in BLOCKS /\ c \in BLOCKS
    OBVIOUS
  <2> QED  BY <2>1
<1>3. t \in Precedence <=> t[2] \in t[1] /\ t[3] \in t[1] /\ Before(t[1], t[2], t[3])
  BY <1>2 DEF Precedence
<1>4. t \in Precedence <=> Before(H, b, c)
  BY <1>1, <1>3, Zenon
<1> QED  BY <1>4

LEMMA ByteType ==
  ASSUME NEW b \in BLOCKS
  PROVE  \A i \in 1 .. 7 : SerN[b][i] \in Nat
BY DacAssumption DEF Bytes

\* Byte i decides about group G.
Decides(G, i) == i \in Bytes /\ Max3(G, i) # {} /\ \A j \in 1 .. i - 1 : Max3(G, j) = {}

LEMMA DecidesOnce ==
  ASSUME NEW G, NEW i, Decides(G, i), NEW j, Decides(G, j)
  PROVE  i = j
<1>1. i \in 1 .. 7 /\ j \in 1 .. 7
  BY DEF Decides, Bytes
<1>2. ~(i \in 1 .. j - 1) /\ ~(j \in 1 .. i - 1)
  BY Zenon DEF Decides
<1> QED  BY <1>1, <1>2

LEMMA AboveTransitive ==
  ASSUME NEW i \in 1 .. 7, NEW m \in BLOCKS, NEW n \in BLOCKS, NEW p \in BLOCKS,
         AboveFrom(i, m, n), AboveFrom(i, n, p)
  PROVE  AboveFrom(i, m, p)
<1>1. PICK k \in i .. 7 : SerN[m][k] > SerN[n][k] /\ \A j \in i .. k - 1 : SerN[m][j] = SerN[n][j]
  BY DEF AboveFrom
<1>2. PICK l \in i .. 7 : SerN[n][l] > SerN[p][l] /\ \A j \in i .. l - 1 : SerN[n][j] = SerN[p][j]
  BY DEF AboveFrom
<1>3. \A j \in i .. 7 : SerN[m][j] \in Nat /\ SerN[n][j] \in Nat /\ SerN[p][j] \in Nat
  BY ByteType
<1> DEFINE Higher(q) == SerN[m][q] > SerN[p][q] /\ \A j \in i .. q - 1 : SerN[m][j] = SerN[p][j]
<1>4. \E q \in i .. 7 : Higher(q)
  <2>1. CASE k <= l
    <3>1. SerN[m][k] > SerN[p][k]
      <4>1. k = l \/ k \in i .. l - 1
        BY <2>1
      <4>2. SerN[n][k] >= SerN[p][k]
        BY <1>2, <1>3, <4>1
      <4> QED  BY <1>1, <1>3, <4>2
    <3>2. ASSUME NEW j \in i .. k - 1  PROVE SerN[m][j] = SerN[p][j]
      <4>1. j \in i .. l - 1
        BY <2>1
      <4> QED  BY <1>1, <1>2, <4>1
    <3> QED  BY <3>1, <3>2
  <2>2. CASE l < k
    <3>1. SerN[m][l] > SerN[p][l]
      <4>1. l \in i .. k - 1
        BY <2>2
      <4> QED  BY <1>1, <1>2, <4>1
    <3>2. ASSUME NEW j \in i .. l - 1  PROVE SerN[m][j] = SerN[p][j]
      <4>1. j \in i .. k - 1
        BY <2>2
      <4> QED  BY <1>1, <1>2, <4>1
    <3> QED  BY <3>1, <3>2
  <2> QED  BY <2>1, <2>2
<1> QED  BY <1>4 DEF AboveFrom

LEMMA BeforeDecided ==
  ASSUME NEW G, NEW m, NEW n
  PROVE  Before(G, m, n) <=>
           \E i : Decides(G, i) /\ n \notin Max3(G, i) /\ (m \in Max3(G, i) \/ AboveFrom(i, m, n))
BY Zenon DEF Before, Decides

\* The order of a group is strict: no board comes before itself, and who comes before one
\* that comes before a third comes before the third.
THEOREM StrictOrder ==
  ASSUME NEW G \in SUBSET BLOCKS, NEW m \in G, NEW n \in G, NEW p \in G
  PROVE  /\ ~Before(G, m, m)
         /\ Before(G, m, n) /\ Before(G, n, p) => Before(G, m, p)
<1>1. ASSUME Before(G, m, m)  PROVE FALSE
  <2>1. PICK i : Decides(G, i) /\ AboveFrom(i, m, m)
    BY <1>1, BeforeDecided, Zenon
  <2>2. PICK k \in i .. 7 : SerN[m][k] > SerN[m][k]
    BY <2>1 DEF AboveFrom
  <2>3. k \in 1 .. 7
    BY <2>1 DEF Decides, Bytes
  <2>4. SerN[m][k] \in Nat
    BY <2>3, ByteType
  <2> QED  BY <2>2, <2>4
<1>2. ASSUME Before(G, m, n), Before(G, n, p)  PROVE Before(G, m, p)
  <2>1. PICK i : Decides(G, i) /\ n \notin Max3(G, i) /\ (m \in Max3(G, i) \/ AboveFrom(i, m, n))
    BY <1>2, BeforeDecided, Zenon
  <2>2. PICK j : Decides(G, j) /\ p \notin Max3(G, j) /\ (n \in Max3(G, j) \/ AboveFrom(j, n, p))
    BY <1>2, BeforeDecided, Zenon
  <2>3. i = j
    BY <2>1, <2>2, DecidesOnce
  <2>4. p \notin Max3(G, i) /\ AboveFrom(i, n, p)
    BY <2>1, <2>2, <2>3
  <2>5. m \in Max3(G, i) \/ AboveFrom(i, m, p)
    <3>1. i \in 1 .. 7 /\ m \in BLOCKS /\ n \in BLOCKS /\ p \in BLOCKS
      BY <2>1 DEF Decides, Bytes
    <3> QED  BY <2>1, <2>4, <3>1, AboveTransitive
  <2> QED  BY <2>1, <2>4, <2>5, BeforeDecided, Zenon
<1> QED  BY <1>1, <1>2

LEMMA ThreeOfThem == \E x, y, z : BLOCKS = {x, y, z} /\ x # y /\ x # z /\ y # z
<1>1. IsFiniteSet(BLOCKS) /\ Cardinality(BLOCKS) = 3
  BY DacAssumption
<1>2. BLOCKS # {}
  BY <1>1, FS_EmptySet
<1>3. PICK x \in BLOCKS : TRUE
  BY <1>2
<1>4. IsFiniteSet(BLOCKS \ {x}) /\ Cardinality(BLOCKS \ {x}) = 2
  BY <1>1, <1>3, FS_RemoveElement
<1>5. BLOCKS \ {x} # {}
  BY <1>4, FS_EmptySet
<1>6. PICK y \in BLOCKS \ {x} : TRUE
  BY <1>5
<1>7. IsFiniteSet((BLOCKS \ {x}) \ {y}) /\ Cardinality((BLOCKS \ {x}) \ {y}) = 1
  BY <1>4, <1>6, FS_RemoveElement
<1>8. PICK z : (BLOCKS \ {x}) \ {y} = {z}
  BY <1>7, FS_Singleton
<1> QED  BY <1>3, <1>6, <1>8

\* Of some bytes one is the first.
LEMMA FirstByte ==
  ASSUME NEW S, S \subseteq 1 .. 7, NEW s \in S
  PROVE  \E i \in S : i <= s /\ \A j \in 1 .. i - 1 : j \notin S
<1>1. s \in 1 .. 7
  OBVIOUS
<1> DEFINE First(i) == i \in S /\ i <= s /\ \A j \in 1 .. i - 1 : j \notin S
<1>2. CASE 1 \in S
  <2>1. First(1)
    BY <1>1, <1>2
  <2> QED  BY <2>1
<1>3. CASE 1 \notin S /\ 2 \in S
  <2>1. First(2)
    BY <1>1, <1>3
  <2> QED  BY <2>1
<1>4. CASE 1 \notin S /\ 2 \notin S /\ 3 \in S
  <2>1. First(3)
    BY <1>1, <1>4
  <2> QED  BY <2>1
<1>5. CASE 1 \notin S /\ 2 \notin S /\ 3 \notin S /\ 4 \in S
  <2>1. First(4)
    BY <1>1, <1>5
  <2> QED  BY <2>1
<1>6. CASE 1 \notin S /\ 2 \notin S /\ 3 \notin S /\ 4 \notin S /\ 5 \in S
  <2>1. First(5)
    BY <1>1, <1>6
  <2> QED  BY <2>1
<1>7. CASE 1 \notin S /\ 2 \notin S /\ 3 \notin S /\ 4 \notin S /\ 5 \notin S
  <2>1. s = 6 \/ s = 7
    BY <1>1, <1>7
  <2>2. CASE 6 \in S
    <3>1. First(6)
      BY <1>7, <2>1, <2>2
    <3> QED  BY <3>1
  <2>3. CASE 6 \notin S
    <3>1. s = 7 /\ First(7)
      BY <1>7, <2>1, <2>3
    <3> QED  BY <3>1
  <2> QED  BY <2>2, <2>3
<1> QED  BY <1>2, <1>3, <1>4, <1>5, <1>6, <1>7

\* Two boards that differ in a byte from i on are compared by the first in which they do.
LEMMA Compared ==
  ASSUME NEW i \in 1 .. 7, NEW m \in BLOCKS, NEW n \in BLOCKS,
         NEW q \in i .. 7, SerN[m][q] # SerN[n][q]
  PROVE  AboveFrom(i, m, n) \/ AboveFrom(i, n, m)
<1> DEFINE S == {k \in i .. 7 : SerN[m][k] # SerN[n][k]}
<1>1. S \subseteq 1 .. 7 /\ q \in S
  OBVIOUS
<1>2. PICK k \in S : \A j \in 1 .. k - 1 : j \notin S
  BY <1>1, FirstByte
<1>3. k \in i .. 7 /\ SerN[m][k] # SerN[n][k] /\ \A j \in i .. k - 1 : SerN[m][j] = SerN[n][j]
  BY <1>2
<1>4. SerN[m][k] \in Nat /\ SerN[n][k] \in Nat
  BY <1>3, ByteType
<1>5. SerN[m][k] > SerN[n][k] \/ SerN[n][k] > SerN[m][k]
  BY <1>3, <1>4
<1> QED  BY <1>3, <1>5 DEF AboveFrom

\* A byte decides about a group if some byte has one highest value.
LEMMA Decided1 ==
  ASSUME NEW G, NEW q \in 1 .. 7, Max3(G, q) # {}
  PROVE  \E i \in 1 .. q : Decides(G, i)
<1> DEFINE S == {i \in 1 .. 7 : Max3(G, i) # {}}
<1>1. S \subseteq 1 .. 7 /\ q \in S
  OBVIOUS
<1>2. PICK i \in S : i <= q /\ \A j \in 1 .. i - 1 : j \notin S
  BY <1>1, FirstByte
<1>3. \A j \in 1 .. i - 1 : Max3(G, j) = {}
  BY <1>2
<1>4. Decides(G, i) /\ i \in 1 .. q
  BY <1>2, <1>3 DEF Decides, Bytes
<1> QED  BY <1>4

LEMMA HighestFirst ==
  ASSUME NEW G \in SUBSET BLOCKS, NEW i, Decides(G, i),
         NEW m \in G, NEW n \in G, m # n,
         n \notin Max3(G, i) => m \in Max3(G, i) \/ AboveFrom(i, m, n) \/ AboveFrom(i, n, m)
  PROVE  Before(G, m, n) \/ Before(G, n, m)
<1>1. i \in 1 .. 7
  BY DEF Decides, Bytes
<1>2. ~(m \in Max3(G, i) /\ n \in Max3(G, i))
  <2>1. SerN[m][i] \in Nat /\ SerN[n][i] \in Nat
    BY <1>1, ByteType
  <2> QED  BY <2>1 DEF Max3
<1> QED  BY <1>2, BeforeDecided, Zenon

\* Serial numbers with a byte in which all boards differ, as the checksum in byte 7 mostly
\* is, can be put in order, whatever the bytes before it are and whoever is there.
THEOREM OneByteSuffices ==
  ASSUME NEW q \in Bytes, \A a, b \in BLOCKS : a # b => SerN[a][q] # SerN[b][q]
  PROVE  Sortable
<1> SUFFICES ASSUME NEW G \in SUBSET BLOCKS, NEW m \in G, NEW n \in G, m # n
             PROVE  <<G, m, n>> \in Precedence \/ <<G, n, m>> \in Precedence
  BY DEF Sortable, Sorted
<1>1. q \in 1 .. 7
  BY DEF Bytes
<1>2. Max3(G, q) # {}
  <2>1. PICK x, y, z : BLOCKS = {x, y, z}
    BY ThreeOfThem
  <2>2. \A b \in G : b = x \/ b = y \/ b = z
    BY <2>1
  <2>3. SerN[x][q] \in Nat /\ SerN[y][q] \in Nat /\ SerN[z][q] \in Nat
    BY <1>1, <2>1, ByteType
  <2>4. \A a, b \in G : a # b => SerN[a][q] # SerN[b][q]
    OBVIOUS
  <2>5. \E b \in G : \A c \in G \ {b} : SerN[b][q] > SerN[c][q]
    BY <2>2, <2>3, <2>4
  <2> QED  BY <2>5 DEF Max3
<1>3. PICK i \in 1 .. q : Decides(G, i)
  BY <1>1, <1>2, Decided1
<1>4. AboveFrom(i, m, n) \/ AboveFrom(i, n, m)
  <2>1. i \in 1 .. 7 /\ q \in i .. 7 /\ SerN[m][q] # SerN[n][q] /\ m \in BLOCKS /\ n \in BLOCKS
    BY <1>1
  <2> QED  BY <2>1, Compared
<1>5. Before(G, m, n) \/ Before(G, n, m)
  BY <1>3, <1>4, HighestFirst
<1> QED  BY <1>5, InOrder

\* Two boards that see each other only are always in order: their serial numbers differ.
THEOREM PairsInOrder ==
  ASSUME NEW a \in BLOCKS, NEW b \in BLOCKS, SerN[a] # SerN[b]
  PROVE  Sorted({a, b})
<1> DEFINE G == {a, b}
<1>1. PICK q \in 1 .. 7 : SerN[a][q] # SerN[b][q]
  BY DacAssumption DEF Bytes
<1>2. PICK k \in {j \in 1 .. 7 : SerN[a][j] # SerN[b][j]} :
        \A j \in 1 .. k - 1 : j \notin {l \in 1 .. 7 : SerN[a][l] # SerN[b][l]}
  BY <1>1, FirstByte
<1>3. k \in 1 .. 7 /\ SerN[a][k] # SerN[b][k] /\ SerN[a][k] \in Nat /\ SerN[b][k] \in Nat
  BY <1>2, ByteType
<1>4. Max3(G, k) # {}
  <2>1. SerN[a][k] > SerN[b][k] \/ SerN[b][k] > SerN[a][k]
    BY <1>3
  <2> QED  BY <2>1 DEF Max3
<1>5. PICK i \in 1 .. k : Decides(G, i)
  BY <1>3, <1>4, Decided1
<1>6. AboveFrom(i, a, b) \/ AboveFrom(i, b, a)
  <2>1. i \in 1 .. 7 /\ k \in i .. 7
    BY <1>3
  <2> QED  BY <1>3, <2>1, Compared
<1>7. G \in SUBSET BLOCKS /\ a \in G /\ b \in G
  OBVIOUS
<1>8. a # b
  OBVIOUS
<1> HIDE DEF G
<1>9. Before(G, a, b) \/ Before(G, b, a)
  BY <1>5, <1>6, <1>7, <1>8, HighestFirst
<1>10. <<G, a, b>> \in Precedence \/ <<G, b, a>> \in Precedence
  BY <1>7, <1>9, InOrder
<1> QED  BY <1>10 DEF G, Sorted

\* Boards with different serial numbers can be put in order, whoever is there, if the three
\* can.
THEOREM ThreeDecide ==
  ASSUME \A a, b \in BLOCKS : a # b => SerN[a] # SerN[b], Sorted(BLOCKS)
  PROVE  Sortable
<1> SUFFICES ASSUME NEW G \in SUBSET BLOCKS, NEW m \in G, NEW n \in G, m # n
             PROVE  <<G, m, n>> \in Precedence \/ <<G, n, m>> \in Precedence
  BY DEF Sortable, Sorted
<1>1. PICK x, y, z : BLOCKS = {x, y, z}
  BY ThreeOfThem
<1>2. G = BLOCKS \/ G = {m, n}
  BY <1>1
<1>3. CASE G = BLOCKS
  BY <1>3 DEF Sorted
<1>4. CASE G = {m, n}
  <2>1. Sorted({m, n})
    BY PairsInOrder
  <2> QED  BY <1>4, <2>1 DEF Sorted
<1> QED  BY <1>2, <1>3, <1>4

\* They cannot when the two that are not the highest in the deciding byte differ only in
\* bytes before it, and then every board that sees both others gives no addresses.
THEOREM Tie ==
  ASSUME NEW i, Decides(BLOCKS, i),
         NEW m \in BLOCKS \ Max3(BLOCKS, i), NEW n \in BLOCKS \ Max3(BLOCKS, i), m # n,
         \A k \in i .. 7 : SerN[m][k] = SerN[n][k]
  PROVE  ~Sorted(BLOCKS)
<1>1. ASSUME NEW b \in BLOCKS \ Max3(BLOCKS, i), NEW c, Before(BLOCKS, b, c)
      PROVE  AboveFrom(i, b, c)
  <2>1. PICK j : Decides(BLOCKS, j) /\ (b \in Max3(BLOCKS, j) \/ AboveFrom(j, b, c))
    BY <1>1, BeforeDecided, Zenon
  <2>2. i = j
    BY <2>1, DecidesOnce
  <2> QED  BY <1>1, <2>1, <2>2
<1>2. i \in 1 .. 7
  BY DEF Decides, Bytes
<1>3. ~AboveFrom(i, m, n) /\ ~AboveFrom(i, n, m)
  <2>1. \A k \in i .. 7 : SerN[m][k] \in Nat
    BY <1>2, ByteType
  <2> QED  BY <2>1 DEF AboveFrom
<1>4. ~Before(BLOCKS, m, n) /\ ~Before(BLOCKS, n, m)
  BY <1>1, <1>3
<1>5. BLOCKS \in SUBSET BLOCKS /\ m \in BLOCKS /\ n \in BLOCKS
  OBVIOUS
<1>6. <<BLOCKS, m, n>> \notin Precedence /\ <<BLOCKS, n, m>> \notin Precedence
  BY <1>4, <1>5, InOrder
<1> QED  BY <1>5, <1>6 DEF Sorted

LEMMA NoAddresses ==
  ASSUME ~Sorted(BLOCKS), NEW a \in BLOCKS, NEW serial \in [Slots -> BLOCKS],
         BLOCKS = {a, serial[1], serial[2]}
  PROVE  \A j \in 0 .. 2 : Address(a, serial)[j] = 0
<1>1. \A c : Place(BLOCKS, c) = 0
  BY DEF Place
<1> DEFINE seen == {j \in Slots : serial[j] # Free}
<1>2. seen = Slots /\ {a} \cup {serial[j] : j \in seen} = BLOCKS
  <2>1. Free \notin BLOCKS
    BY DacAssumption DEF Free
  <2>2. seen = Slots
    BY <2>1
  <2> QED  BY <2>2 DEF Slots
<1>3. Address(a, serial) =
        [j \in 0 .. 2 |-> CASE j = 0 -> Place({a} \cup {serial[l] : l \in seen}, a)
                            [] j \in seen -> Place({a} \cup {serial[l] : l \in seen}, serial[j])
                            [] OTHER -> IF seen = {} THEN j ELSE 2]
  BY Zenon DEF Address
<1>4. ASSUME NEW j \in 0 .. 2  PROVE Address(a, serial)[j] = 0
  <2>1. Address(a, serial)[j] =
          CASE j = 0 -> Place(BLOCKS, a)
            [] j \in Slots -> Place(BLOCKS, serial[j])
            [] OTHER -> IF Slots = {} THEN j ELSE 2
    <3> HIDE DEF seen
    <3> QED  BY <1>2, <1>3
  <2>2. (j = 0 /\ j \notin Slots) \/ (j # 0 /\ j \in Slots)
    BY DEF Slots
  <2>3. CASE j = 0 /\ j \notin Slots
    BY <1>1, <2>1, <2>3, Zenon
  <2>4. CASE j # 0 /\ j \in Slots
    BY <1>1, <2>1, <2>4, Zenon
  <2> QED  BY <2>2, <2>3, <2>4
<1> QED  BY <1>4

\* The address of a board among those that hear each other.
Rank(b) == Cardinality({c \in Group : <<Group, c, b>> \in Precedence})

\* The list of board a holds the others of its group, each once.
Lists(a, serial) ==
  /\ serial \in [Slots -> Nat]
  /\ \A i \in Slots : serial[i] \in (Group \ {a}) \cup {Free}
  /\ \A b \in Group \ {a} : \E i \in Slots : serial[i] = b
  /\ serial[1] = serial[2] => serial[1] = Free

LEMMA GroupFinite ==
  ASSUME RoundInv
  PROVE  Group \subseteq BLOCKS /\ IsFiniteSet(Group) /\ Group \subseteq Nat /\ Free \notin Group
<1>1. IsFiniteSet(0 .. 2)
  <2>1. 0 \in Int /\ 2 \in Int
    OBVIOUS
  <2> QED  BY ONLY <2>1, FS_Interval
<1>2. order \in Surjection(0 .. 2, BLOCKS)
  BY DEF RoundInv, Surjection
<1>3. IsFiniteSet(BLOCKS)
  BY <1>1, <1>2, FS_Surjection
<1> QED  BY <1>3, DacAssumption, FS_Subset DEF Group, Free

LEMMA RankType ==
  ASSUME RoundInv, NEW b
  PROVE  IsFiniteSet({c \in Group : <<Group, c, b>> \in Precedence}) /\ Rank(b) \in Nat
<1>1. IsFiniteSet({c \in Group : <<Group, c, b>> \in Precedence})
  BY GroupFinite, FS_Subset
<1> QED  BY <1>1, FS_CardinalityType DEF Rank

LEMMA RanksDiffer ==
  ASSUME RoundInv, Sortable, NEW a \in Group, NEW b \in Group, a # b
  PROVE  Rank(a) # Rank(b)
<1>1. Group \in SUBSET BLOCKS
  BY GroupFinite
<1>2. ASSUME NEW c \in Group, NEW d \in Group, Before(Group, c, d)  PROVE Rank(c) # Rank(d)
  <2> DEFINE C == {e \in Group : <<Group, e, c>> \in Precedence}
             D == {e \in Group : <<Group, e, d>> \in Precedence}
  <2>1. C \in SUBSET D
    <3>1. ASSUME NEW e \in Group, <<Group, e, c>> \in Precedence
          PROVE  <<Group, e, d>> \in Precedence
      <4>1. Before(Group, e, c)
        BY <1>1, <3>1, InOrder
      <4>2. Before(Group, e, d)
        BY <1>1, <1>2, <4>1, StrictOrder
      <4> QED  BY <1>1, <4>2, InOrder
    <3> QED  BY <3>1
  <2>2. c \in D /\ c \notin C
    <3>1. <<Group, c, d>> \in Precedence
      BY <1>1, <1>2, InOrder
    <3>2. <<Group, c, c>> \notin Precedence
      BY <1>1, InOrder, StrictOrder
    <3> QED  BY <3>1, <3>2
  <2>3. IsFiniteSet(D)
    BY RankType
  <2>4. Cardinality(C) # Cardinality(D)
    <3> HIDE DEF C, D
    <3> QED  BY <2>1, <2>2, <2>3, FS_Subset
  <2> QED  BY <2>4 DEF Rank
<1>3. Before(Group, a, b) \/ Before(Group, b, a)
  <2>1. <<Group, a, b>> \in Precedence \/ <<Group, b, a>> \in Precedence
    BY <1>1 DEF Sortable, Sorted
  <2> QED  BY <1>1, <2>1, InOrder
<1> QED  BY <1>2, <1>3

\* The addresses a board gives from a list of its group: everybody's rank, and one that is
\* left to a place that is free.
LEMMA Addresses ==
  ASSUME RoundInv, Sortable, NEW a \in Group,
         NEW serial, Lists(a, serial), NEW adr, adr = Address(a, serial)
  PROVE  /\ adr[0] = Rank(a)
         /\ \A i \in Slots : serial[i] # Free => adr[i] = Rank(serial[i])
         /\ \A i, j \in 0 .. 2 : i # j => adr[i] # adr[j]
<1> DEFINE seen == {i \in Slots : serial[i] # Free}
           others == {serial[i] : i \in seen}
<1>1. a \in Nat /\ a # Free /\ IsFiniteSet(Group) /\ Free \notin Group /\ Group \in SUBSET BLOCKS
  BY GroupFinite
<1>2. {a} \cup others = Group
  BY <1>1 DEF Lists
<1>3. adr = [i \in 0 .. 2 |->
               CASE i = 0 -> Place(Group, a)
                 [] i \in seen -> Place(Group, serial[i])
                 [] OTHER -> IF seen = {} THEN i ELSE 2]
  <2>1. adr = [i \in 0 .. 2 |->
                 CASE i = 0 -> Place({a} \cup others, a)
                   [] i \in seen -> Place({a} \cup others, serial[i])
                   [] OTHER -> IF seen = {} THEN i ELSE 2]
    BY Zenon DEF Address
  <2> HIDE DEF others, seen
  <2> QED  BY <1>2, <2>1, Zenon
<1>4. /\ adr[0] = Place(Group, a)
      /\ \A i \in seen : adr[i] = Place(Group, serial[i])
      /\ \A i \in Slots \ seen : adr[i] = IF seen = {} THEN i ELSE 2
  <2>1. 0 \notin Slots /\ 0 \in 0 .. 2 /\ \A i \in Slots : i \in 0 .. 2 /\ i # 0
    BY DEF Slots
  <2> HIDE DEF others, seen
  <2>2. seen \subseteq Slots
    BY DEF seen
  <2> QED  BY <1>3, <2>1, <2>2, Zenon
<1>5. \A c : Place(Group, c) = Rank(c)
  BY <1>1, Zenon DEF Place, Rank, Sortable
<1>6. \A i \in seen : adr[i] = Rank(serial[i])
  BY <1>4, <1>5, Zenon
<1>7. adr[0] = Rank(a)
  BY <1>4, <1>5, Zenon
<1>8. ASSUME NEW b \in Group, NEW i \in Slots \ seen, seen # {}  PROVE Rank(b) < 2
  <2>1. PICK j \in seen : TRUE
    BY <1>8
  <2>2. seen = {j}
    BY <1>8 DEF Slots
  <2>3. Group = {a, serial[j]}
    BY <1>2, <2>2
  <2> DEFINE c == IF b = a THEN serial[j] ELSE a
             before == {d \in Group : <<Group, d, b>> \in Precedence}
  <2>4. before \subseteq {c}
    <3>1. <<Group, b, b>> \notin Precedence
      BY <1>1, InOrder, StrictOrder
    <3> QED  BY <2>3, <3>1
  <2>5. IsFiniteSet({c}) /\ Cardinality({c}) = 1
    BY FS_Singleton
  <2>6. Cardinality(before) <= 1
    <3> HIDE DEF before, c
    <3> QED  BY <2>4, <2>5, FS_Subset
  <2>7. Rank(b) = Cardinality(before)
    BY DEF Rank
  <2>8. Rank(b) \in Nat
    BY RankType
  <2> HIDE DEF before
  <2> QED  BY <2>6, <2>7, <2>8
<1>9. CASE seen = {}
  <2>1. Group = {a}
    BY <1>2, <1>9
  <2>2. {c \in Group : <<Group, c, a>> \in Precedence} = {}
    <3>1. <<Group, a, a>> \notin Precedence
      BY <1>1, InOrder, StrictOrder
    <3> QED  BY <2>1, <3>1
  <2>3. Rank(a) = 0
    BY <2>2, FS_EmptySet DEF Rank
  <2>4. adr[0] = 0 /\ adr[1] = 1 /\ adr[2] = 2
    BY <1>4, <1>7, <1>9, <2>3 DEF Slots
  <2> QED  BY <1>7, <1>9, <2>4
<1>10. CASE seen # {}
  <2>1. \A i \in seen : serial[i] \in Group /\ serial[i] # a
    BY DEF Lists
  <2>2. \A i, j \in seen : i # j => adr[i] # adr[j]
    <3>1. \A i, j \in seen : i # j => serial[i] # serial[j]
      BY DEF Lists, Slots
    <3> QED  BY <1>6, <2>1, <3>1, RanksDiffer
  <2>3. \A i \in seen : adr[i] # adr[0]
    BY <1>6, <1>7, <2>1, RanksDiffer
  <2>4. ASSUME NEW i \in Slots \ seen
        PROVE  adr[i] = 2 /\ adr[0] # 2 /\ \A j \in seen : adr[j] # 2
    <3>1. adr[i] = 2
      BY <1>4, <1>10
    <3>2. adr[0] # 2
      BY <1>7, <1>8, <1>10
    <3>3. \A j \in seen : adr[j] # 2
      BY <1>6, <1>8, <1>10, <2>1
    <3> QED  BY <3>1, <3>2, <3>3
  <2>5. ASSUME NEW i \in Slots \ seen, NEW j \in Slots \ seen  PROVE i = j
    BY <1>10 DEF Slots
  <2>6. \A i \in 0 .. 2 : i = 0 \/ i \in Slots
    BY DEF Slots
  <2> HIDE DEF seen
  <2>7. \A i, j \in 0 .. 2 : i # j => adr[i] # adr[j]
    BY <2>2, <2>3, <2>4, <2>5, <2>6
  <2> QED  BY <1>6, <1>7, <2>7 DEF seen
<1> QED  BY <1>9, <1>10

-----------------------------------------------------------------------------
(* The invariant of the exchange.                                          *)

\* What holds of every board: the others stand in its list once, and what is silent for
\* too long is not there.
ListInv ==
  \A a \in BLOCKS :
    /\ \A i \in Slots :
         /\ block[a].serial[i] \in (BLOCKS \ {a}) \cup {Free}
         /\ block[a].serial[i] # Free => block[a].ping[i] < MAX_COUNT_PING_LOST
         /\ block[a].out[i] => block[a].pingData[i] < MAX_COUNT_PING_LOST
    /\ block[a].serial[1] = block[a].serial[2] => block[a].serial[1] = Free
    /\ block[a].start <= TAKE_AFTER

\* A working board has counted its calm periods.
StartedInv == \A a \in BLOCKS : working[a] => block[a].start = TAKE_AFTER \/ block[a].start >= calm[a]

\* A board of the group that had its period is heard by the others.
HeardInv ==
  \A a \in Group : \A b \in Group \ {a} : calm[b] >= 1 =>
    \E i \in Slots : block[a].serial[i] = b /\ block[a].ping[i] <= Lag(a, b)

\* Who is not in the group has been silent since.
GoneInv ==
  \A a \in Group : \A i \in Slots :
    block[a].serial[i] \notin Group \cup {Free} => block[a].ping[i] >= calm[a]

\* In time a board lists its group and no one else.
GroupInv == \A a \in Group : calm[a] >= Ordering => Lists(a, block[a].serial)

\* Then the addresses are given from the list of the group.
AddressInv == \A a \in Group : calm[a] >= Ordering => block[a].adr = Address(a, block[a].serial)

\* From then on each board is told what the others have and see.
ToldInv ==
  \A a \in Group : \A b \in Group \ {a} : \A i \in Slots :
    block[a].serial[i] = b /\ calm[a] >= Ordering + Lag(a, b) =>
      /\ block[a].out[i] = command[b] /\ block[a].err[i] = ErrorDAC(b)
      /\ block[a].pingData[i] <= Lag(a, b)

\* Nobody enters anything in a free place any more.
StaleInv ==
  \A a \in Group : \A i \in Slots :
    calm[a] >= Ordering /\ block[a].serial[i] = Free /\ block[a].out[i] =>
      block[a].pingData[i] + Ordering > calm[a]

\* At last a board decides from what it knows.
MasterInv == \A a \in Group : calm[a] = Calm => block[a].master = Decision(a, block[a])

\* What hearing the others' serial numbers leads to, whatever these are.
ListsInv ==
  /\ TypeOK /\ RoundInv /\ ListInv /\ StartedInv /\ HeardInv /\ GoneInv
  /\ GroupInv /\ AddressInv

\* What the boards then learn of each other, if their serial numbers can be put in order.
ConvergeInv == ListsInv /\ Sortable /\ ToldInv /\ StaleInv /\ MasterInv

\* What holds if the three cannot be put in order, and all are there: nobody is told anything.
QuietInv ==
  Group = BLOCKS => \A a \in BLOCKS : \A i \in Slots :
    calm[a] >= Ordering /\ block[a].out[i] => block[a].pingData[i] + Ordering > calm[a]
AloneInv == Group = BLOCKS => MasterInv
TieInv   == ListsInv /\ ~Sorted(BLOCKS) /\ QuietInv /\ AloneInv

-----------------------------------------------------------------------------
(* A period of a board.                                                    *)

\* What all steps of the proof need of a period of board n.
Period(n) ==
  /\ ListsInv /\ SelectMasterDAC(n) /\ n \in BLOCKS /\ n = order[turn]
  /\ TypeOK' /\ RoundInv'

LEMMA PeriodFacts ==
  ASSUME NEW n, Period(n)
  PROVE  /\ Group' = Group /\ working' = working /\ command' = command
         /\ \A b \in BLOCKS : ErrorDAC(b)' = ErrorDAC(b)
         /\ \A b \in BLOCKS : b # n => calm'[b] = calm[b]
         /\ calm'[n] = IF calm[n] < Calm THEN calm[n] + 1 ELSE calm[n]
         /\ \A b \in BLOCKS : calm[b] \in Nat /\ calm[b] <= Calm
         /\ \A a, b \in BLOCKS : Ahead(a, b)' <=> a # b /\ (b = n \/ (a # n /\ Ahead(a, b)))
         /\ \A a \in BLOCKS : a # n => Ahead(n, a)
         /\ \A a \in BLOCKS : ~working[n] => block'[a] = block[a]
         /\ \A a \in BLOCKS : a # n /\ ~(online[n] /\ online[a]) => block'[a] = block[a]
         /\ \A a \in BLOCKS : block[a] \in Knowledge /\ block'[a] \in Knowledge
<1>1. /\ UNCHANGED <<measured, order, outside>> /\ turn' = (turn + 1) % 3
      /\ calm' = [calm EXCEPT ![n] = IF calm[n] < Calm THEN calm[n] + 1 ELSE calm[n]]
  BY DEF Period, SelectMasterDAC
<1>2. UNCHANGED <<command, working, online, output, chip, measured>>
  BY <1>1 DEF outside
<1>3. Group' = Group
  BY <1>2 DEF Group
<1>4. \A b \in BLOCKS : ErrorDAC(b)' = ErrorDAC(b)
  BY <1>2 DEF ErrorDAC
<1>5. \A b \in BLOCKS : calm[b] \in Nat /\ calm[b] <= Calm
  BY Limits DEF Period, ListsInv, RoundInv
<1>6. n \in DOMAIN calm
  BY DEF Period, ListsInv, RoundInv
<1>7. /\ \A a, b \in BLOCKS : Ahead(a, b)' <=> a # b /\ (b = n \/ (a # n /\ Ahead(a, b)))
      /\ \A a \in BLOCKS : a # n => Ahead(n, a)
  BY <1>1, NextInRound DEF Period, ListsInv
<1>8. \A a \in BLOCKS : ~working[n] => block'[a] = block[a]
  BY Zenon DEF Period, SelectMasterDAC
<1>9. ASSUME NEW a \in BLOCKS, a # n, ~(online[n] /\ online[a])
      PROVE  block'[a] = block[a]
  BY <1>9 DEF Period, SelectMasterDAC
<1>10. \A a \in BLOCKS : block[a] \in Knowledge /\ block'[a] \in Knowledge
  BY DEF Period, ListsInv, TypeOK
<1>11. \A b \in BLOCKS : b # n => calm'[b] = calm[b]
  <2>1. DOMAIN calm = BLOCKS
    BY DEF Period, ListsInv, RoundInv
  <2> QED  BY <1>1, <2>1
<1> QED  BY <1>1, <1>2, <1>3, <1>4, <1>5, <1>6, <1>7, <1>8, <1>9, <1>10, <1>11

LEMMA OneMoreBound ==
  ASSUME NEW m \in Nat
  PROVE  /\ OneMore(m) \in Nat /\ OneMore(m) <= MAX_COUNT_PING_LOST /\ OneMore(m) >= 1
         /\ OneMore(m) # MAX_COUNT_PING_LOST => OneMore(m) = m + 1
         /\ m + 1 < MAX_COUNT_PING_LOST => OneMore(m) = m + 1
BY Limits DEF OneMore

LEMMA Slot12 == \A i : i \in Slots <=> i = 1 \/ i = 2
BY DEF Slots

LEMMA ListPeriod ==
  ASSUME NEW n, Period(n)
  PROVE  ListInv'
<1> SUFFICES ASSUME NEW a \in BLOCKS
             PROVE  /\ \A i \in Slots :
                         /\ block'[a].serial[i] \in (BLOCKS \ {a}) \cup {Free}
                         /\ block'[a].serial[i] # Free => block'[a].ping[i] < MAX_COUNT_PING_LOST
                         /\ block'[a].out[i] => block'[a].pingData[i] < MAX_COUNT_PING_LOST
                    /\ block'[a].serial[1] = block'[a].serial[2] => block'[a].serial[1] = Free
                    /\ block'[a].start <= TAKE_AFTER
  BY DEF ListInv
<1> PICK k : k = block[a]
  OBVIOUS
<1> PICK new : new = block'[a]
  OBVIOUS
<1>1. k \in Knowledge /\ new \in Knowledge
  BY PeriodFacts
<1>2. /\ \A i \in Slots :
           /\ k.serial[i] \in (BLOCKS \ {a}) \cup {Free}
           /\ k.serial[i] # Free => k.ping[i] < MAX_COUNT_PING_LOST
           /\ k.out[i] => k.pingData[i] < MAX_COUNT_PING_LOST
      /\ k.serial[1] = k.serial[2] => k.serial[1] = Free
      /\ k.start <= TAKE_AFTER
  BY DEF Period, ListsInv, ListInv
<1>3. CASE new = k
  BY <1>2, <1>3
<1>4. CASE a = n /\ working[n]
  <2>1. /\ new.start = IF k.start + 1 < TAKE_AFTER THEN k.start + 1 ELSE TAKE_AFTER
        /\ \A i \in Slots :
             /\ new.ping[i] = OneMore(k.ping[i]) /\ new.pingData[i] = OneMore(k.pingData[i])
             /\ new.serial[i] = IF new.ping[i] = MAX_COUNT_PING_LOST THEN Free ELSE k.serial[i]
             /\ new.out[i] <=> new.pingData[i] < MAX_COUNT_PING_LOST /\ k.out[i]
    BY <1>4, OwnPeriod DEF Period, ListsInv
  <2>2. \A i \in Slots : k.ping[i] \in Nat /\ k.pingData[i] \in Nat
    BY <1>1 DEF Knowledge
  <2>3. k.start \in Nat
    BY <1>1 DEF Knowledge
  <2>4. new.start <= TAKE_AFTER
    BY <2>1, <2>3, Limits
  <2>5. ASSUME NEW i \in Slots
        PROVE  /\ new.serial[i] \in (BLOCKS \ {a}) \cup {Free}
               /\ new.serial[i] # Free =>
                    new.ping[i] < MAX_COUNT_PING_LOST /\ new.serial[i] = k.serial[i]
               /\ new.out[i] => new.pingData[i] < MAX_COUNT_PING_LOST
    <3>1. new.ping[i] \in Nat /\ new.ping[i] <= MAX_COUNT_PING_LOST
      BY <2>1, <2>2, OneMoreBound
    <3>2. new.ping[i] = MAX_COUNT_PING_LOST \/ new.ping[i] < MAX_COUNT_PING_LOST
      BY <3>1, Limits
    <3> QED  BY <1>2, <2>1, <3>2, Zenon
  <2>6. new.serial[1] = new.serial[2] => new.serial[1] = Free
    BY <1>2, <2>5, Slot12
  <2> QED  BY <2>4, <2>5, <2>6
<1>5. CASE a # n /\ working[n] /\ online[n] /\ online[a]
  <2>1. PICK sent : sent = block'[n].adr[0]
    OBVIOUS
  <2>2. new.start = k.start /\ Hearing(k, new, n) /\ Telling(k, new, n, sent)
    BY <1>5, <2>1, OtherPeriod DEF Period, ListsInv
  <2>3. /\ k.serial \in [Slots -> Nat] /\ k.ping \in [Slots -> Nat]
        /\ k.out \in [Slots -> BOOLEAN] /\ k.pingData \in [Slots -> Nat]
    BY <1>1 DEF Knowledge
  <2>4. n \in BLOCKS /\ n \in Nat /\ n # Free
    BY DacAssumption DEF Period, Free
  <2> DEFINE Listed == /\ \A i \in Slots :
                            /\ new.serial[i] \in (BLOCKS \ {a}) \cup {Free}
                            /\ new.serial[i] # Free => new.ping[i] < MAX_COUNT_PING_LOST
                       /\ new.serial[1] = new.serial[2] => new.serial[1] = Free
             InTime == \A i \in Slots : new.out[i] => new.pingData[i] < MAX_COUNT_PING_LOST
  <2>5. Listed
    <3>1. CASE new.serial = k.serial /\ new.ping = k.ping
      BY <1>2, <3>1
    <3>2. ASSUME NEW j \in Slots,
                 k.serial[j] = n \/ (k.serial[j] = Free /\ \A i \in Slots : k.serial[i] # n),
                 new.serial = [k.serial EXCEPT ![j] = n],
                 new.ping = [k.ping EXCEPT ![j] = 0]
          PROVE  Listed
      <4>1. \A i \in Slots : /\ new.serial[i] = IF i = j THEN n ELSE k.serial[i]
                            /\ new.ping[i] = IF i = j THEN 0 ELSE k.ping[i]
        BY <2>3, <3>2
      <4>2. \A i \in Slots : i # j => new.serial[i] # n
        BY <1>2, <2>4, <3>2, <4>1, Slot12
      <4> QED  BY <1>2, <1>5, <2>4, <4>1, <4>2, Limits, Slot12
    <3> HIDE DEF Listed
    <3> QED  BY <2>2, <3>1, <3>2, Zenon DEF Hearing
  <2>6. InTime
    <3>1. CASE new.out = k.out /\ new.pingData = k.pingData
      BY <1>2, <3>1
    <3>2. ASSUME NEW j \in Slots, new.out = [k.out EXCEPT ![j] = command[n]],
                 new.pingData = [k.pingData EXCEPT ![j] = 0]
          PROVE  InTime
      <4> SUFFICES ASSUME NEW i \in Slots, new.out[i]
                   PROVE  new.pingData[i] < MAX_COUNT_PING_LOST
        OBVIOUS
      <4>1. CASE i = j
        BY <2>3, <3>2, <4>1, Limits
      <4>2. CASE i # j
        <5>1. k.out[i] /\ new.pingData[i] = k.pingData[i]
          BY <2>3, <3>2, <4>2
        <5> QED  BY <1>2, <5>1
      <4> QED  BY <4>1, <4>2
    <3> HIDE DEF InTime
    <3> QED  BY <2>2, <3>1, <3>2, Zenon DEF Telling
  <2> QED  BY <1>2, <2>2, <2>5, <2>6
<1> QED  BY <1>3, <1>4, <1>5, PeriodFacts

LEMMA StartedPeriod ==
  ASSUME NEW n, Period(n)
  PROVE  StartedInv'
<1> SUFFICES ASSUME NEW a \in BLOCKS, working'[a]
             PROVE  block'[a].start = TAKE_AFTER \/ block'[a].start >= calm'[a]
  BY DEF StartedInv
<1> PICK k : k = block[a]
  OBVIOUS
<1> PICK new : new = block'[a]
  OBVIOUS
<1>1. k.start = TAKE_AFTER \/ k.start >= calm[a]
  BY PeriodFacts DEF Period, ListsInv, StartedInv
<1>2. k.start \in Nat /\ calm[a] \in Nat
  BY PeriodFacts DEF Knowledge
<1>3. CASE a = n
  <2>1. new.start = IF k.start + 1 < TAKE_AFTER THEN k.start + 1 ELSE TAKE_AFTER
    BY <1>3, OwnPeriod, PeriodFacts DEF Period, ListsInv
  <2>2. calm'[a] <= calm[a] + 1 /\ calm'[a] \in Nat
    BY <1>2, <1>3, PeriodFacts, Limits
  <2> QED  BY <1>1, <1>2, <2>1, <2>2, Limits
<1>4. CASE a # n
  <2>1. new.start = k.start
    <3>1. CASE working[n] /\ online[n] /\ online[a]
      <4>1. PICK sent : sent = block'[n].adr[0]
        OBVIOUS
      <4> QED  BY <1>4, <3>1, <4>1, OtherPeriod DEF Period, ListsInv
    <3>2. CASE ~(working[n] /\ online[n] /\ online[a])
      BY <1>4, <3>2, PeriodFacts
    <3> QED  BY <3>1, <3>2
  <2>2. calm'[a] = calm[a]
    BY <1>4, PeriodFacts
  <2> QED  BY <1>1, <2>1, <2>2
<1> QED  BY <1>3, <1>4

\* A board of the group at its period, and one that is told of it.
LEMMA InGroup ==
  ASSUME NEW n, Period(n), NEW a \in Group
  PROVE  /\ a \in BLOCKS /\ working[a] /\ online[a]
         /\ a # n /\ n \in Group =>
              /\ Hearing(block[a], block'[a], n)
              /\ Telling(block[a], block'[a], n, block'[n].adr[0])
              /\ block'[a].adr = block[a].adr /\ block'[a].master = block[a].master
         /\ a # n /\ n \notin Group => block'[a] = block[a]
<1>1. a \in BLOCKS /\ working[a] /\ online[a]
  BY DEF Group
<1>2. CASE a # n /\ n \in Group
  <2>1. PICK k : k = block[a]
    OBVIOUS
  <2>2. PICK new : new = block'[a]
    OBVIOUS
  <2>3. PICK sent : sent = block'[n].adr[0]
    OBVIOUS
  <2>4. Hearing(k, new, n) /\ Telling(k, new, n, sent) /\ new.adr = k.adr /\ new.master = k.master
    BY <1>1, <1>2, <2>1, <2>2, <2>3, OtherPeriod DEF Period, ListsInv, Group
  <2> QED  BY <1>1, <1>2, <2>1, <2>2, <2>3, <2>4
<1>3. CASE a # n /\ n \notin Group
  BY <1>1, <1>3, PeriodFacts DEF Period, Group
<1> QED  BY <1>1, <1>2, <1>3

LEMMA Total ==
  ASSUME RoundInv, NEW a \in BLOCKS, NEW b \in BLOCKS, a # b
  PROVE  Ahead(a, b) \/ Ahead(b, a)
<1>1. /\ order[0] # order[1] /\ order[0] # order[2] /\ order[1] # order[2]
      /\ BLOCKS = {order[0], order[1], order[2]}
  BY ThreeBoards
<1>2. turn = 0 \/ turn = 1 \/ turn = 2
  BY DEF RoundInv
<1> QED  BY <1>1, <1>2 DEF Ahead

\* A list that is complete stays as it is.
LEMMA SameList ==
  ASSUME NEW n, Period(n), n \in Group, NEW a \in Group, a # n, calm[a] >= Ordering
  PROVE  /\ block'[a].serial = block[a].serial /\ block'[a].adr = block[a].adr
         /\ \E i \in Slots : block[a].serial[i] = n
<1> PICK k : k = block[a]
  OBVIOUS
<1> PICK new : new = block'[a]
  OBVIOUS
<1>1. Lists(a, k.serial)
  BY DEF Period, ListsInv, GroupInv
<1>2. PICK i \in Slots : k.serial[i] = n
  BY <1>1 DEF Lists
<1>3. Hearing(k, new, n) /\ new.adr = k.adr
  BY InGroup
<1>4. PICK j \in Slots : k.serial[j] = n /\ new.serial = [k.serial EXCEPT ![j] = n]
  BY <1>2, <1>3, Zenon DEF Hearing
<1>5. new.serial = k.serial
  BY <1>1, <1>4 DEF Lists
<1> QED  BY <1>2, <1>3, <1>5

LEMMA HeardPeriod ==
  ASSUME NEW n, Period(n)
  PROVE  HeardInv'
<1>1. Group' = Group
  BY PeriodFacts
<1> SUFFICES ASSUME NEW a \in Group, NEW b \in Group \ {a}, calm'[b] >= 1
             PROVE  \E i \in Slots : block'[a].serial[i] = b /\ block'[a].ping[i] <= Lag(a, b)'
  BY <1>1 DEF HeardInv
<1> PICK k : k = block[a]
  OBVIOUS
<1> PICK new : new = block'[a]
  OBVIOUS
<1>2. a \in BLOCKS /\ b \in BLOCKS /\ working[a] /\ b \in Nat /\ b # Free /\ n \in BLOCKS
  BY DacAssumption DEF Group, Free, Period
<1>3. k \in Knowledge /\ new \in Knowledge
  BY <1>2, PeriodFacts
<1>4. k.serial \in [Slots -> Nat] /\ k.ping \in [Slots -> Nat]
  BY <1>3 DEF Knowledge
<1>5. Lag(a, b)' = IF b = n \/ (a # n /\ Ahead(a, b)) THEN 0 ELSE 1
  BY <1>2, PeriodFacts DEF Lag
<1>6. CASE b = n
  <2>1. Hearing(k, new, n)
    BY <1>6, InGroup
  <2>2. Lag(a, b)' = 0
    BY <1>5, <1>6
  <2>3. \E j \in Slots : new.serial = [k.serial EXCEPT ![j] = n] /\ new.ping = [k.ping EXCEPT ![j] = 0]
    <3>1. ~(\A i \in Slots : k.serial[i] # n /\ k.serial[i] # Free)
      <4> SUFFICES ASSUME \A i \in Slots : k.serial[i] # n /\ k.serial[i] # Free
                   PROVE  FALSE
        OBVIOUS
      <4>1. /\ k.serial[1] \in BLOCKS /\ k.serial[2] \in BLOCKS
            /\ k.serial[1] # a /\ k.serial[2] # a /\ k.serial[1] # n /\ k.serial[2] # n
            /\ k.serial[1] # k.serial[2]
        BY <1>2, Slot12 DEF Period, ListsInv, ListInv
      <4>2. BLOCKS = {order[0], order[1], order[2]}
        BY ThreeBoards DEF Period, ListsInv
      <4> QED  BY <1>2, <1>6, <4>1, <4>2
    <3> QED  BY <2>1, <3>1, Zenon DEF Hearing
  <2>4. PICK j \in Slots : new.serial = [k.serial EXCEPT ![j] = n] /\ new.ping = [k.ping EXCEPT ![j] = 0]
    BY <2>3
  <2>5. new.serial[j] = b /\ new.ping[j] = 0
    BY <1>4, <1>6, <2>4
  <2> QED  BY <2>2, <2>5
<1>7. CASE b # n
  <2>1. PICK i \in Slots : k.serial[i] = b /\ k.ping[i] <= Lag(a, b)
    <3>1. calm[b] >= 1
      BY <1>2, <1>7, PeriodFacts
    <3> QED  BY <3>1 DEF Period, ListsInv, HeardInv
  <2>2. CASE a = n
    <3>1. Ahead(a, b) /\ Lag(a, b)' = 1
      BY <1>2, <1>5, <1>7, <2>2, PeriodFacts
    <3>2. k.ping[i] = 0
      BY <1>4, <2>1, <3>1 DEF Lag
    <3>3. /\ new.ping[i] = OneMore(k.ping[i])
          /\ new.serial[i] = IF new.ping[i] = MAX_COUNT_PING_LOST THEN Free ELSE k.serial[i]
      <4>1. TypeOK /\ SelectMasterDAC(n) /\ working[n] /\ k = block[n] /\ new = block'[n]
        BY <1>2, <2>2 DEF Period, ListsInv
      <4> QED  BY <1>2, <4>1, OwnPeriod
    <3>4. new.ping[i] = 1
      BY <3>2, <3>3, Limits DEF OneMore
    <3> QED  BY <2>1, <3>1, <3>3, <3>4, Limits
  <2>3. CASE a # n /\ n \in Group
    <3>1. Hearing(k, new, n)
      BY <2>3, InGroup
    <3>2. new.serial[i] = b /\ new.ping[i] = k.ping[i]
      <4>1. CASE new.serial = k.serial /\ new.ping = k.ping
        BY <2>1, <4>1
      <4>2. ASSUME NEW j \in Slots, k.serial[j] = n \/ k.serial[j] = Free,
                   new.serial = [k.serial EXCEPT ![j] = n], new.ping = [k.ping EXCEPT ![j] = 0]
            PROVE  new.serial[i] = b /\ new.ping[i] = k.ping[i]
        <5>1. j # i
          BY <1>2, <1>7, <2>1, <4>2
        <5> QED  BY <1>4, <2>1, <4>2, <5>1
      <4> QED  BY <3>1, <4>1, <4>2, Zenon DEF Hearing
    <3>3. Lag(a, b)' = Lag(a, b)
      BY <1>2, <1>5, <1>7, <2>3 DEF Lag
    <3> QED  BY <2>1, <3>2, <3>3
  <2>4. CASE a # n /\ n \notin Group
    <3>1. new = k
      BY <2>4, InGroup
    <3>2. Lag(a, b)' = Lag(a, b)
      BY <1>2, <1>5, <1>7, <2>4 DEF Lag
    <3> QED  BY <2>1, <3>1, <3>2
  <2> QED  BY <2>2, <2>3, <2>4
<1> QED  BY <1>6, <1>7

LEMMA GonePeriod ==
  ASSUME NEW n, Period(n)
  PROVE  GoneInv'
<1>1. Group' = Group
  BY PeriodFacts
<1> SUFFICES ASSUME NEW a \in Group, NEW i \in Slots, block'[a].serial[i] \notin Group \cup {Free}
             PROVE  block'[a].ping[i] >= calm'[a]
  BY <1>1 DEF GoneInv
<1> PICK k : k = block[a]
  OBVIOUS
<1> PICK new : new = block'[a]
  OBVIOUS
<1>2. a \in BLOCKS /\ working[a] /\ k \in Knowledge /\ calm[a] \in Nat
  BY PeriodFacts DEF Group
<1>3. k.serial \in [Slots -> Nat] /\ k.ping \in [Slots -> Nat]
  BY <1>2 DEF Knowledge
<1>4. k.serial[i] \notin Group \cup {Free} => k.ping[i] >= calm[a]
  BY DEF Period, ListsInv, GoneInv
<1>5. CASE a = n
  <2>1. /\ new.ping[i] = OneMore(k.ping[i])
        /\ new.serial[i] = IF new.ping[i] = MAX_COUNT_PING_LOST THEN Free ELSE k.serial[i]
    BY <1>2, <1>5, OwnPeriod DEF Period, ListsInv
  <2>2. new.ping[i] # MAX_COUNT_PING_LOST /\ k.serial[i] \notin Group \cup {Free}
    BY <2>1
  <2>3. new.ping[i] = k.ping[i] + 1
    BY <1>3, <2>1, <2>2, OneMoreBound
  <2>4. calm'[a] <= calm[a] + 1 /\ calm'[a] \in Nat
    BY <1>2, <1>5, PeriodFacts, Limits
  <2> QED  BY <1>2, <1>3, <1>4, <2>2, <2>3, <2>4
<1>6. CASE a # n /\ n \in Group
  <2>1. Hearing(k, new, n) /\ calm'[a] = calm[a]
    BY <1>2, <1>6, InGroup, PeriodFacts
  <2>2. CASE new.serial = k.serial /\ new.ping = k.ping
    BY <1>4, <2>1, <2>2
  <2>3. ASSUME NEW j \in Slots,
               new.serial = [k.serial EXCEPT ![j] = n], new.ping = [k.ping EXCEPT ![j] = 0]
        PROVE  new.ping[i] >= calm'[a]
    <3>1. j # i
      BY <1>3, <1>6, <2>3
    <3>2. new.serial[i] = k.serial[i] /\ new.ping[i] = k.ping[i]
      BY <1>3, <2>3, <3>1
    <3> QED  BY <1>4, <2>1, <3>2
  <2> QED  BY <2>1, <2>2, <2>3, Zenon DEF Hearing
<1>7. CASE a # n /\ n \notin Group
  BY <1>2, <1>4, <1>7, InGroup, PeriodFacts
<1> QED  BY <1>5, <1>6, <1>7

LEMMA GroupPeriod ==
  ASSUME NEW n, Period(n), ListInv', HeardInv', GoneInv'
  PROVE  GroupInv'
<1>1. Group' = Group
  BY PeriodFacts
<1> SUFFICES ASSUME NEW a \in Group, calm'[a] >= Ordering
             PROVE  Lists(a, block'[a].serial)
  BY <1>1 DEF GroupInv, Lists
<1>2. a \in BLOCKS /\ block'[a] \in Knowledge /\ calm'[a] \in Nat
  BY PeriodFacts, Limits DEF Group, Period, RoundInv
<1>3. block'[a].serial \in [Slots -> Nat] /\ block'[a].ping \in [Slots -> Nat]
  BY <1>2 DEF Knowledge
<1>4. ASSUME NEW i \in Slots  PROVE block'[a].serial[i] \in (Group \ {a}) \cup {Free}
  <2>1. /\ block'[a].serial[i] \in (BLOCKS \ {a}) \cup {Free}
        /\ block'[a].serial[i] # Free => block'[a].ping[i] < MAX_COUNT_PING_LOST
    BY <1>2 DEF ListInv
  <2>2. block'[a].serial[i] \notin Group \cup {Free} => block'[a].ping[i] >= calm'[a]
    BY <1>1 DEF GoneInv
  <2> QED  BY <1>2, <1>3, <2>1, <2>2, Limits
<1>5. ASSUME NEW b \in Group \ {a}  PROVE \E i \in Slots : block'[a].serial[i] = b
  <2>1. b \in BLOCKS /\ b # a
    BY DEF Group
  <2>2. calm'[b] \in Nat
    BY <2>1, Limits DEF Period, RoundInv
  <2>3. Ahead(a, b)' \/ Ahead(b, a)'
    <3>1. Ahead(a, b) \/ Ahead(b, a)
      BY <1>2, <2>1, Total DEF Period, ListsInv
    <3> QED  BY <1>2, <2>1, <3>1, PeriodFacts
  <2>4. calm'[b] + 1 >= calm'[a]
    BY <1>2, <2>1, <2>2, <2>3 DEF Period, RoundInv
  <2>5. calm'[b] >= 1
    BY <1>2, <2>2, <2>4, Limits
  <2> QED  BY <1>1, <2>5, Zenon DEF HeardInv
<1>6. block'[a].serial[1] = block'[a].serial[2] => block'[a].serial[1] = Free
  BY <1>2 DEF ListInv
<1> QED  BY <1>3, <1>4, <1>5, <1>6 DEF Lists

LEMMA AddressPeriod ==
  ASSUME NEW n, Period(n)
  PROVE  AddressInv'
<1>1. Group' = Group
  BY PeriodFacts
<1> SUFFICES ASSUME NEW a \in Group, calm'[a] >= Ordering
             PROVE  block'[a].adr = Address(a, block'[a].serial)
  BY <1>1 DEF AddressInv
<1> PICK k : k = block[a]
  OBVIOUS
<1> PICK new : new = block'[a]
  OBVIOUS
<1>2. a \in BLOCKS /\ working[a] /\ k \in Knowledge /\ calm[a] \in Nat /\ k.start \in Nat
  BY PeriodFacts DEF Group, Knowledge
<1>3. CASE a = n
  <2>1. new.adr = IF k.start + 1 >= ORDER_AFTER THEN Address(a, new.serial) ELSE k.adr
    BY <1>2, <1>3, OwnPeriod DEF Period, ListsInv
  <2>2. k.start = TAKE_AFTER \/ k.start >= calm[a]
    BY <1>2 DEF Period, ListsInv, StartedInv
  <2>3. calm[a] + 1 >= Ordering
    BY <1>2, <1>3, PeriodFacts, Limits
  <2> QED  BY <1>2, <2>1, <2>2, <2>3, Limits
<1>4. CASE a # n
  <2>1. calm[a] >= Ordering
    BY <1>2, <1>4, PeriodFacts
  <2>2. k.adr = Address(a, k.serial)
    BY <2>1 DEF Period, ListsInv, AddressInv
  <2>3. CASE n \in Group
    <3>1. new.serial = k.serial /\ new.adr = k.adr
      BY <1>4, <2>1, <2>3, SameList
    <3> QED  BY <2>2, <3>1
  <2>4. CASE n \notin Group
    BY <1>4, <2>2, <2>4, InGroup
  <2> QED  BY <2>3, <2>4
<1> QED  BY <1>3, <1>4

\* What board n tells is entered in place j.
Entered(k, new, n, j) ==
  /\ new.out = [k.out EXCEPT ![j] = command[n]]
  /\ new.err = [k.err EXCEPT ![j] = ErrorDAC(n)]
  /\ new.pingData = [k.pingData EXCEPT ![j] = 0]

\* If a board is calm for long enough, so is the one whose period it is.
LEMMA CalmToo ==
  ASSUME NEW n, Period(n), n \in Group, NEW a \in Group, a # n, calm[a] >= Ordering
  PROVE  calm'[n] >= Ordering /\ calm'[n] <= calm[n] + 1 /\ calm'[n] \in Nat /\ calm[n] \in Nat
<1>1. a \in BLOCKS /\ n \in BLOCKS
  BY DEF Group
<1>2. Ahead(a, n)'
  BY <1>1, PeriodFacts
<1>3. calm'[a] <= calm'[n] /\ calm'[a] = calm[a]
  BY <1>1, <1>2, PeriodFacts DEF Period, RoundInv
<1>4. calm[a] \in Nat /\ calm[n] \in Nat
  BY <1>1, PeriodFacts
<1>5. calm'[n] = IF calm[n] < Calm THEN calm[n] + 1 ELSE calm[n]
  BY PeriodFacts
<1> QED  BY <1>3, <1>4, <1>5, Limits

\* Once the addresses are given, a board is told only of its group, each under its place.
LEMMA ToldByRank ==
  ASSUME ConvergeInv, NEW n, Period(n), GroupInv', AddressInv',
         n \in Group, NEW a \in Group, a # n, calm[a] >= Ordering
  PROVE  \E j \in Slots : block[a].serial[j] = n /\ Entered(block[a], block'[a], n, j)
<1> PICK k : k = block[a]
  OBVIOUS
<1> PICK new : new = block'[a]
  OBVIOUS
<1> PICK sent : sent = block'[n].adr[0]
  OBVIOUS
<1>1. a \in BLOCKS /\ n \in BLOCKS /\ working[n] /\ Group' = Group /\ n # Free
  BY PeriodFacts, DacAssumption DEF Group, Free
<1>2. calm'[n] >= Ordering /\ calm'[n] <= calm[n] + 1 /\ calm'[n] \in Nat /\ calm[n] \in Nat
  BY CalmToo
<1>3. sent = Rank(n) /\ \A m, j \in 0 .. 2 : m # j => block'[n].adr[m] # block'[n].adr[j]
  <2>1. PICK serial : serial = block'[n].serial
    OBVIOUS
  <2>2. Lists(n, serial)
    BY <1>1, <1>2, <2>1 DEF GroupInv, Lists
  <2>3. block'[n].adr = Address(n, serial)
    BY <1>1, <1>2, <2>1 DEF AddressInv
  <2>4. PICK adr : adr = block'[n].adr
    OBVIOUS
  <2>5. adr[0] = Rank(n) /\ \A m, j \in 0 .. 2 : m # j => adr[m] # adr[j]
    BY <2>2, <2>3, <2>4, Addresses DEF Period, ConvergeInv, ListsInv
  <2> QED  BY <2>4, <2>5
<1>4. PICK i \in Slots : k.serial[i] = n
  BY SameList
<1>5. k.adr[i] = sent /\ \A m, j \in 0 .. 2 : m # j => k.adr[m] # k.adr[j]
  <2>1. PICK serial : serial = k.serial
    OBVIOUS
  <2>2. Lists(a, serial)
    BY <2>1 DEF Period, ConvergeInv, ListsInv, GroupInv
  <2>3. k.adr = Address(a, serial)
    BY <2>1 DEF Period, ConvergeInv, ListsInv, AddressInv
  <2>4. PICK adr : adr = k.adr
    OBVIOUS
  <2>5. /\ \A j \in Slots : serial[j] # Free => adr[j] = Rank(serial[j])
        /\ \A m, j \in 0 .. 2 : m # j => adr[m] # adr[j]
    BY <2>2, <2>3, <2>4, Addresses DEF Period, ConvergeInv, ListsInv
  <2> QED  BY <1>1, <1>3, <1>4, <2>1, <2>4, <2>5
<1>6. i \in 0 .. 2 /\ 0 \in 0 .. 2 /\ i # 0 /\ \A j \in Slots : j \in 0 .. 2
  BY DEF Slots
<1>7. ~(block[n].start + 1 < ORDER_AFTER) /\ ~(\A m \in 0 .. 2 : block'[n].adr[m] = 0)
  <2>1. block[n].start = TAKE_AFTER \/ block[n].start >= calm[n]
    BY <1>1 DEF Period, ConvergeInv, ListsInv, StartedInv
  <2>2. block[n].start \in Nat
    BY <1>1, PeriodFacts DEF Knowledge
  <2>3. 0 \in 0 .. 2 /\ 1 \in 0 .. 2 /\ 0 # 1
    OBVIOUS
  <2>4. ~(\A m \in 0 .. 2 : block'[n].adr[m] = 0)
    BY <1>3, <2>3, Zenon
  <2> QED  BY <1>2, <2>1, <2>2, <2>4, Limits
<1>8. Telling(k, new, n, sent)
  BY InGroup
<1>9. PICK j \in Slots : /\ k.adr[j] = sent
                        /\ new.out = [k.out EXCEPT ![j] = command[n]]
                        /\ new.err = [k.err EXCEPT ![j] = ErrorDAC(n)]
                        /\ new.pingData = [k.pingData EXCEPT ![j] = 0]
  BY <1>5, <1>6, <1>7, <1>8, Zenon DEF Telling
<1>10. i = j
  BY <1>5, <1>6, <1>9
<1>11. Entered(k, new, n, j)
  BY <1>9, Zenon DEF Entered
<1> QED  BY <1>4, <1>10, <1>11

LEMMA ToldPeriod ==
  ASSUME ConvergeInv, NEW n, Period(n), GroupInv', AddressInv'
  PROVE  ToldInv'
<1>1. Group' = Group
  BY PeriodFacts
<1> SUFFICES ASSUME NEW a \in Group, NEW b \in Group \ {a}, NEW i \in Slots,
                    block'[a].serial[i] = b, calm'[a] >= Ordering + Lag(a, b)'
             PROVE  /\ block'[a].out[i] = command'[b] /\ block'[a].err[i] = ErrorDAC(b)'
                    /\ block'[a].pingData[i] <= Lag(a, b)'
  BY <1>1 DEF ToldInv
<1> PICK k : k = block[a]
  OBVIOUS
<1> PICK new : new = block'[a]
  OBVIOUS
<1> PICK lag : lag = Lag(a, b)
  OBVIOUS
<1>2. /\ a \in BLOCKS /\ b \in BLOCKS /\ working[a] /\ b # Free /\ n \in BLOCKS
      /\ command'[b] = command[b] /\ ErrorDAC(b)' = ErrorDAC(b)
  BY DacAssumption, PeriodFacts DEF Group, Free, Period
<1>3. k \in Knowledge /\ calm[a] \in Nat
  BY <1>2, PeriodFacts
<1>4. /\ k.serial \in [Slots -> Nat] /\ k.out \in [Slots -> BOOLEAN]
      /\ k.err \in [Slots -> Errors] /\ k.pingData \in [Slots -> Nat]
  BY <1>3 DEF Knowledge
<1>5. Lag(a, b)' = IF b = n \/ (a # n /\ Ahead(a, b)) THEN 0 ELSE 1
  BY <1>2, PeriodFacts DEF Lag
<1>6. lag = IF Ahead(a, b) THEN 0 ELSE 1
  BY DEF Lag
<1>7. k.serial[i] = b /\ calm[a] >= Ordering + lag =>
        k.out[i] = command[b] /\ k.err[i] = ErrorDAC(b) /\ k.pingData[i] <= lag
  BY DEF Period, ConvergeInv, ListsInv, ToldInv
<1>8. CASE a = n
  <2>1. Ahead(a, b) /\ Lag(a, b)' = 1 /\ lag = 0
    BY <1>2, <1>5, <1>6, <1>8, PeriodFacts
  <2>2. /\ new.pingData[i] = OneMore(k.pingData[i])
        /\ new.serial[i] = IF new.ping[i] = MAX_COUNT_PING_LOST THEN Free ELSE k.serial[i]
        /\ new.out[i] <=> new.pingData[i] < MAX_COUNT_PING_LOST /\ k.out[i]
        /\ new.err[i] = k.err[i]
    <3>1. TypeOK /\ SelectMasterDAC(n) /\ working[n] /\ k = block[n] /\ new = block'[n]
      BY <1>2, <1>8 DEF Period, ConvergeInv, ListsInv
    <3> QED  BY <1>2, <3>1, OwnPeriod
  <2>3. k.serial[i] = b
    BY <1>2, <2>2
  <2>4. calm[a] >= Ordering + lag
    BY <1>3, <1>8, <2>1, PeriodFacts, Limits
  <2>5. k.pingData[i] = 0
    BY <1>4, <1>7, <2>1, <2>3, <2>4
  <2>6. new.pingData[i] = 1 /\ 1 < MAX_COUNT_PING_LOST
    BY <2>2, <2>5, Limits DEF OneMore
  <2>7. k.out[i] = command[b] /\ k.err[i] = ErrorDAC(b)
    BY <1>7, <2>3, <2>4
  <2>8. new.out[i] = k.out[i]
    <3>1. new \in Knowledge
      BY <1>2, PeriodFacts
    <3>2. new.out[i] \in BOOLEAN /\ k.out[i] \in BOOLEAN
      BY <1>3, <3>1 DEF Knowledge
    <3> QED  BY <2>2, <2>6, <3>2, Zenon
  <2>9. new.pingData[i] <= Lag(a, b)'
    BY <2>1, <2>6
  <2> QED  BY <1>2, <2>2, <2>7, <2>8, <2>9, Zenon
<1>9. CASE a # n /\ n \in Group
  <2>1. calm[a] >= Ordering
    BY <1>2, <1>3, <1>5, <1>9, PeriodFacts, Limits
  <2>2. new.serial = k.serial
    BY <1>9, <2>1, SameList
  <2>3. PICK j \in Slots : /\ k.serial[j] = n
                          /\ new.out = [k.out EXCEPT ![j] = command[n]]
                          /\ new.err = [k.err EXCEPT ![j] = ErrorDAC(n)]
                          /\ new.pingData = [k.pingData EXCEPT ![j] = 0]
    <3>1. PICK j \in Slots : k.serial[j] = n /\ Entered(k, new, n, j)
      BY <1>9, <2>1, ToldByRank
    <3> QED  BY <3>1, Zenon DEF Entered
  <2>4. CASE b = n
    <3>1. j = i
      <4>1. k.serial[1] = k.serial[2] => k.serial[1] = Free
        BY <1>2 DEF Period, ConvergeInv, ListsInv, ListInv
      <4> QED  BY <1>2, <2>2, <2>3, <2>4, <4>1, Slot12
    <3>2. new.out[i] = command[n] /\ new.err[i] = ErrorDAC(n) /\ new.pingData[i] = 0
      <4>1. i \in DOMAIN k.out /\ i \in DOMAIN k.err /\ i \in DOMAIN k.pingData
        BY <1>4
      <4> QED  BY <2>3, <3>1, <4>1, Zenon
    <3>3. Lag(a, b)' = 0
      BY <1>5, <2>4
    <3> QED  BY <1>2, <2>4, <3>2, <3>3
  <2>5. CASE b # n
    <3>1. j # i
      BY <2>2, <2>3, <2>5
    <3>2. new.out[i] = k.out[i] /\ new.err[i] = k.err[i] /\ new.pingData[i] = k.pingData[i]
      BY <1>4, <2>3, <3>1
    <3>3. Lag(a, b)' = lag /\ calm'[a] = calm[a]
      BY <1>2, <1>5, <1>6, <1>9, <2>5, PeriodFacts
    <3>4. k.out[i] = command[b] /\ k.err[i] = ErrorDAC(b) /\ k.pingData[i] <= lag
      BY <1>7, <2>2, <3>3
    <3> QED  BY <1>2, <3>2, <3>3, <3>4, Zenon
  <2> QED  BY <2>4, <2>5
<1>10. CASE a # n /\ n \notin Group
  <2>1. new = k
    BY <1>10, InGroup
  <2>2. b # n
    BY <1>10
  <2>3. Lag(a, b)' = lag /\ calm'[a] = calm[a]
    BY <1>2, <1>5, <1>6, <1>10, <2>2, PeriodFacts
  <2>4. k.out[i] = command[b] /\ k.err[i] = ErrorDAC(b) /\ k.pingData[i] <= lag
    BY <1>7, <2>1, <2>3
  <2> QED  BY <1>2, <2>1, <2>3, <2>4, Zenon
<1> QED  BY <1>8, <1>9, <1>10

LEMMA StalePeriod ==
  ASSUME ConvergeInv, NEW n, Period(n), GroupInv', AddressInv'
  PROVE  StaleInv'
<1>1. Group' = Group
  BY PeriodFacts
<1> SUFFICES ASSUME NEW a \in Group, NEW i \in Slots,
                    calm'[a] >= Ordering, block'[a].serial[i] = Free, block'[a].out[i]
             PROVE  block'[a].pingData[i] + Ordering > calm'[a]
  BY <1>1 DEF StaleInv
<1> PICK k : k = block[a]
  OBVIOUS
<1> PICK new : new = block'[a]
  OBVIOUS
<1>2. a \in BLOCKS /\ working[a] /\ k \in Knowledge /\ calm[a] \in Nat /\ n \in BLOCKS
  BY PeriodFacts DEF Group, Period
<1>3. /\ k.serial \in [Slots -> Nat] /\ k.out \in [Slots -> BOOLEAN] /\ k.pingData \in [Slots -> Nat]
  BY <1>2 DEF Knowledge
<1>4. calm[a] >= Ordering /\ k.serial[i] = Free /\ k.out[i] => k.pingData[i] + Ordering > calm[a]
  BY DEF Period, ConvergeInv, ListsInv, StaleInv
<1>5. CASE a = n
  <2>1. /\ new.pingData[i] = OneMore(k.pingData[i])
        /\ new.serial[i] = IF new.ping[i] = MAX_COUNT_PING_LOST THEN Free ELSE k.serial[i]
        /\ new.out[i] <=> new.pingData[i] < MAX_COUNT_PING_LOST /\ k.out[i]
        /\ new.ping[i] = OneMore(k.ping[i])
    <3>1. TypeOK /\ SelectMasterDAC(n) /\ working[n] /\ k = block[n] /\ new = block'[n]
      BY <1>2, <1>5 DEF Period, ConvergeInv, ListsInv
    <3> QED  BY <1>2, <3>1, OwnPeriod
  <2>2. new.pingData[i] = k.pingData[i] + 1 /\ k.out[i]
    <3>1. new.pingData[i] # MAX_COUNT_PING_LOST
      BY <2>1, Limits
    <3> QED  BY <1>3, <2>1, <3>1, OneMoreBound
  <2>3. calm'[a] = IF calm[a] < Calm THEN calm[a] + 1 ELSE calm[a]
    BY <1>5, PeriodFacts
  <2>4. CASE calm[a] < Ordering
    BY <1>2, <1>3, <2>2, <2>3, <2>4, Limits
  <2>5. CASE calm[a] >= Ordering
    <3>1. k.serial[i] = Free
      <4>1. Lists(a, k.serial) /\ Lists(a, new.serial)
        <5>1. Lists(a, k.serial)
          BY <2>5 DEF Period, ConvergeInv, ListsInv, GroupInv
        <5>2. Lists(a, new.serial)
          BY <1>1 DEF GroupInv, Lists
        <5> QED  BY <5>1, <5>2
      <4> SUFFICES ASSUME k.serial[i] # Free  PROVE FALSE
        OBVIOUS
      <4>2. k.serial[i] \in Group \ {a}
        BY <4>1 DEF Lists
      <4>3. PICK j \in Slots : new.serial[j] = k.serial[i]
        BY <4>1, <4>2 DEF Lists
      <4>4. j # i
        BY <4>3
      <4>5. k.serial[j] = k.serial[i]
        <5>1. new.serial[j] = IF new.ping[j] = MAX_COUNT_PING_LOST THEN Free ELSE k.serial[j]
          <6>1. TypeOK /\ SelectMasterDAC(n) /\ working[n] /\ k = block[n] /\ new = block'[n]
            BY <1>2, <1>5 DEF Period, ConvergeInv, ListsInv
          <6> QED  BY <1>2, <6>1, OwnPeriod
        <5> QED  BY <4>3, <5>1
      <4> QED  BY <4>1, <4>4, <4>5, Slot12 DEF Lists
    <3> QED  BY <1>2, <1>3, <1>4, <2>2, <2>3, <2>5, <3>1, Limits
  <2> QED  BY <1>2, <2>4, <2>5, Limits
<1>6. CASE a # n
  <2>1. calm'[a] = calm[a]
    BY <1>2, <1>6, PeriodFacts
  <2>2. CASE n \in Group
    <3>1. new.serial = k.serial
      BY <1>6, <2>1, <2>2, SameList
    <3>2. PICK j \in Slots : /\ k.serial[j] = n
                            /\ new.out = [k.out EXCEPT ![j] = command[n]]
                            /\ new.pingData = [k.pingData EXCEPT ![j] = 0]
      <4>1. calm[a] >= Ordering
        BY <2>1
      <4>2. PICK j \in Slots : k.serial[j] = n /\ Entered(k, new, n, j)
        BY <1>6, <2>2, <4>1, ToldByRank
      <4> QED  BY <4>2, Zenon DEF Entered
    <3>3. j # i
      BY <1>2, <3>1, <3>2, DacAssumption DEF Free
    <3>4. new.out[i] = k.out[i] /\ new.pingData[i] = k.pingData[i]
      BY <1>3, <3>2, <3>3
    <3> QED  BY <1>4, <2>1, <3>1, <3>4
  <2>3. CASE n \notin Group
    BY <1>4, <1>6, <2>1, <2>3, InGroup
  <2> QED  BY <2>2, <2>3
<1> QED  BY <1>5, <1>6

LEMMA MasterPeriod ==
  ASSUME ConvergeInv, NEW n, Period(n), GroupInv', AddressInv'
  PROVE  MasterInv'
<1>1. Group' = Group
  BY PeriodFacts
<1>2. \A b \in BLOCKS : command'[b] = command[b] /\ ErrorDAC(b)' = ErrorDAC(b)
  BY PeriodFacts
<1> SUFFICES ASSUME NEW a \in Group, calm'[a] = Calm
             PROVE  block'[a].master = Decision(a, block'[a])
  <2>1. \A a \in Group : Decision(a, block[a])' = Decision(a, block'[a])
    BY <1>2 DEF Decision, Group
  <2> QED  BY <1>1, <2>1 DEF MasterInv
<1> PICK k : k = block[a]
  OBVIOUS
<1> PICK new : new = block'[a]
  OBVIOUS
<1>3. a \in BLOCKS /\ working[a] /\ k \in Knowledge /\ calm[a] \in Nat /\ k.start \in Nat
  BY PeriodFacts DEF Group, Knowledge
<1>4. CASE a = n
  <2>1. k.start + 1 >= TAKE_AFTER => new.master = Decision(n, new)
    <3>1. TypeOK /\ SelectMasterDAC(n) /\ working[n] /\ k = block[n] /\ new = block'[n] /\ n \in BLOCKS
      BY <1>3, <1>4 DEF Period, ConvergeInv, ListsInv
    <3> QED  BY <3>1, OwnPeriod
  <2>2. k.start = TAKE_AFTER \/ k.start >= calm[a]
    BY <1>3 DEF Period, ConvergeInv, ListsInv, StartedInv
  <2>3. calm[a] + 1 >= Calm
    BY <1>3, <1>4, PeriodFacts, Limits
  <2> QED  BY <1>3, <1>4, <2>1, <2>2, <2>3, Limits
<1>5. CASE a # n
  <2>1. calm[a] = Calm
    BY <1>3, <1>5, PeriodFacts
  <2>2. k.master = Decision(a, k)
    BY <2>1 DEF Period, ConvergeInv, ListsInv, MasterInv
  <2>3. CASE n \in Group
    <3>1. new.master = k.master /\ new.adr = k.adr
      BY <1>5, <2>3, InGroup
    <3>2. calm[a] >= Ordering + Lag(a, n)
      <4>1. Lag(a, n) = 0 \/ Lag(a, n) = 1
        BY DEF Lag
      <4> QED  BY <2>1, <4>1, Limits
    <3>3. calm[a] >= Ordering
      BY <2>1, Limits
    <3>4. PICK j \in Slots : /\ k.serial[j] = n
                            /\ new.out = [k.out EXCEPT ![j] = command[n]]
                            /\ new.err = [k.err EXCEPT ![j] = ErrorDAC(n)]
      <4>1. PICK j \in Slots : k.serial[j] = n /\ Entered(k, new, n, j)
        BY <1>5, <2>3, <3>3, ToldByRank
      <4> QED  BY <4>1, Zenon DEF Entered
    <3>5. k.out[j] = command[n] /\ k.err[j] = ErrorDAC(n)
      BY <1>5, <2>3, <3>2, <3>4 DEF Period, ConvergeInv, ListsInv, ToldInv
    <3>6. k.out \in [Slots -> BOOLEAN] /\ k.err \in [Slots -> Errors]
      BY <1>3 DEF Knowledge
    <3>7. new.out = k.out /\ new.err = k.err
      BY <3>4, <3>5, <3>6
    <3>8. Decision(a, new) = Decision(a, k)
      BY <3>1, <3>7, Zenon DEF Decision
    <3> QED  BY <2>2, <3>1, <3>8
  <2>4. CASE n \notin Group
    BY <1>5, <2>2, <2>4, InGroup
  <2> QED  BY <2>3, <2>4
<1> QED  BY <1>4, <1>5

-----------------------------------------------------------------------------
(* The other steps, and the theorems.                                      *)

LEMMA ListsInit == Init => ListsInv
<1> SUFFICES ASSUME Init  PROVE ListsInv
  OBVIOUS
<1>1. /\ block = [b \in BLOCKS |-> Fresh] /\ \A b \in BLOCKS : calm[b] = 0
      /\ Group \subseteq BLOCKS
  BY DEF Init, Group
<1>2. TypeOK /\ RoundInv
  BY TypeInit, RoundInit
<1>3. \A a \in BLOCKS : block[a].start = 0 /\ \A i \in Slots :
        /\ block[a].serial[i] = Free /\ ~block[a].out[i]
  BY <1>1 DEF Fresh
<1>4. ListInv /\ StartedInv
  BY <1>1, <1>3, Limits, Slot12 DEF ListInv, StartedInv
<1>5. HeardInv /\ GroupInv /\ AddressInv
  BY <1>1, Limits DEF HeardInv, GroupInv, AddressInv
<1>6. GoneInv
  BY <1>1, <1>3 DEF GoneInv
<1> QED  BY <1>2, <1>4, <1>5, <1>6 DEF ListsInv

\* Where nobody is calm yet nothing is said of what the boards are told.
LEMMA NotYet ==
  ASSUME \A b \in BLOCKS : calm[b] = 0
  PROVE  ToldInv /\ StaleInv /\ MasterInv /\ QuietInv /\ AloneInv
<1>1. Group \subseteq BLOCKS
  BY DEF Group
<1>2. StaleInv /\ MasterInv
  BY <1>1, Limits DEF StaleInv, MasterInv
<1>3. ToldInv
  <2>1. \A a, b : Lag(a, b) = 0 \/ Lag(a, b) = 1
    BY DEF Lag
  <2> QED  BY <1>1, <2>1, Limits DEF ToldInv
<1>4. QuietInv
  BY Limits DEF QuietInv
<1> QED  BY <1>2, <1>3, <1>4 DEF AloneInv

LEMMA InitNotYet == Init => ToldInv /\ StaleInv /\ MasterInv /\ QuietInv /\ AloneInv
<1>1. Init => \A b \in BLOCKS : calm[b] = 0
  BY DEF Init
<1> QED  BY <1>1, NotYet

\* An event that takes from a board what it knows leaves its list in order.
LEMMA DisturbedLists ==
  ASSUME TypeOK, ListInv, Disturbed
  PROVE  ListInv'
<1> DEFINE Good(a, k) ==
             /\ \A i \in Slots :
                  /\ k.serial[i] \in (BLOCKS \ {a}) \cup {Free}
                  /\ k.serial[i] # Free => k.ping[i] < MAX_COUNT_PING_LOST
                  /\ k.out[i] => k.pingData[i] < MAX_COUNT_PING_LOST
             /\ k.serial[1] = k.serial[2] => k.serial[1] = Free
             /\ k.start <= TAKE_AFTER
<1>1. \A a \in BLOCKS : Good(a, block[a])
  BY DEF ListInv
<1>2. \A a \in BLOCKS : Good(a, Fresh)
  BY Limits, Slot12 DEF Fresh
<1>3. ASSUME NEW a \in BLOCKS, NEW k, k = [block[a] EXCEPT !.master = FALSE, !.start = 0]
      PROVE  Good(a, k)
  <2>1. block[a] \in Knowledge
    BY DEF TypeOK
  <2>2. /\ k.serial = block[a].serial /\ k.ping = block[a].ping /\ k.out = block[a].out
        /\ k.pingData = block[a].pingData /\ k.start = 0
    BY <1>3, <2>1 DEF Knowledge
  <2> QED  BY <1>1, <2>2, Limits
<1> HIDE DEF Good
<1>4. ASSUME NEW a \in BLOCKS  PROVE Good(a, block'[a])
  <2>1. a \in DOMAIN block
    BY DEF TypeOK
  <2>2. CASE block' = block
    BY <1>1, <2>2
  <2>3. ASSUME NEW b \in BLOCKS, block' = [block EXCEPT ![b] = Fresh]
        PROVE  Good(a, block'[a])
    BY <1>1, <1>2, <2>1, <2>3
  <2>4. ASSUME NEW b \in BLOCKS, block' = [block EXCEPT ![b].master = FALSE, ![b].start = 0]
        PROVE  Good(a, block'[a])
    <3>1. CASE a = b
      <4>1. block'[a] = [block[a] EXCEPT !.master = FALSE, !.start = 0]
        BY <2>1, <2>4, <3>1 DEF TypeOK
      <4> QED  BY <1>3, <4>1
    <3>2. CASE a # b
      BY <1>1, <2>1, <2>4, <3>2
    <3> QED  BY <3>1, <3>2
  <2> QED  BY <2>2, <2>3, <2>4 DEF Disturbed
<1> QED  BY <1>4 DEF Good, ListInv

LEMMA ListsDisturbed ==
  ASSUME ListsInv, [Next]_vars, Disturbed
  PROVE  ListsInv' /\ ToldInv' /\ StaleInv' /\ MasterInv' /\ QuietInv' /\ AloneInv'
<1>1. TypeOK' /\ RoundInv' /\ ListInv'
  BY TypeStep, RoundStep, DisturbedLists DEF ListsInv
<1>2. \A b \in BLOCKS : calm'[b] = 0
  BY DEF Disturbed
<1>3. \A a \in BLOCKS : block'[a] \in Knowledge
  BY <1>1 DEF TypeOK
<1>4. Group' \subseteq BLOCKS
  BY DEF Group
<1>5. StartedInv'
  <2>1. \A a \in BLOCKS : block'[a].start \in Nat
    BY <1>3 DEF Knowledge
  <2> QED  BY <1>2, <2>1 DEF StartedInv
<1>6. GoneInv'
  <2>1. \A a \in BLOCKS : \A i \in Slots : block'[a].ping[i] \in Nat
    BY <1>3 DEF Knowledge
  <2> QED  BY <1>2, <1>4, <2>1 DEF GoneInv
<1>7. HeardInv' /\ GroupInv' /\ AddressInv' /\ StaleInv' /\ MasterInv'
  BY <1>2, <1>4, Limits DEF HeardInv, GroupInv, AddressInv, StaleInv, MasterInv
<1>8. ToldInv'
  <2>1. \A a, b : Lag(a, b)' = 0 \/ Lag(a, b)' = 1
    BY DEF Lag
  <2> QED  BY <1>2, <1>4, <2>1, Limits DEF ToldInv
<1>9. QuietInv' /\ AloneInv'
  BY <1>2, <1>7, Limits DEF QuietInv, AloneInv
<1> QED  BY <1>1, <1>5, <1>6, <1>7, <1>8, <1>9 DEF ListsInv

LEMMA ListsStep == ListsInv /\ [Next]_vars => ListsInv'
<1> SUFFICES ASSUME ListsInv, [Next]_vars  PROVE ListsInv'
  OBVIOUS
<1>1. CASE UNCHANGED vars
  <2>1. UNCHANGED <<block, measured, order, turn, calm, command, working, online, output, chip>>
    BY <1>1 DEF vars, outside
  <2>2. Group' = Group /\ \A b : ErrorDAC(b)' = ErrorDAC(b)
    BY <2>1 DEF Group, ErrorDAC
  <2>3. \A a, b : Lag(a, b)' = Lag(a, b)
    BY <2>1 DEF Lag, Ahead
  <2>4. TypeOK' /\ RoundInv'
    BY TypeStep, RoundStep DEF ListsInv
  <2>5. ListInv' /\ StartedInv' /\ GoneInv' /\ AddressInv'
    BY <2>1, <2>2 DEF ListsInv, ListInv, StartedInv, GoneInv, AddressInv
  <2>6. HeardInv'
    BY <2>1, <2>2, <2>3 DEF ListsInv, HeardInv
  <2>7. GroupInv'
    BY <2>1, <2>2 DEF ListsInv, GroupInv, Lists
  <2> QED  BY <2>4, <2>5, <2>6, <2>7 DEF ListsInv
<1>2. CASE Disturbed
  BY <1>2, ListsDisturbed
<1>3. CASE SelectMasterDAC(order[turn]) /\ order[turn] \in BLOCKS
  <2>1. PICK n : n = order[turn]
    OBVIOUS
  <2>2. Period(n)
    BY <1>3, <2>1, TypeStep, RoundStep DEF Period, ListsInv
  <2>3. ListInv' /\ StartedInv' /\ HeardInv' /\ GoneInv' /\ AddressInv'
    BY <2>2, ListPeriod, StartedPeriod, HeardPeriod, GonePeriod, AddressPeriod
  <2>4. GroupInv'
    BY <2>2, <2>3, GroupPeriod
  <2> QED  BY <2>2, <2>3, <2>4 DEF Period, ListsInv
<1> QED  BY <1>1, <1>2, <1>3, Steps

\* What the steps of the exchange have in common.
LEMMA Exchange ==
  ASSUME ListsInv, [Next]_vars
  PROVE  /\ ListsInv'
         /\ \/ /\ UNCHANGED <<block, calm, command>> /\ Group' = Group
               /\ \A a, b : Lag(a, b)' = Lag(a, b) /\ ErrorDAC(b)' = ErrorDAC(b)
            \/ ToldInv' /\ StaleInv' /\ MasterInv' /\ QuietInv' /\ AloneInv'
            \/ \E n : Period(n)
<1>1. ListsInv'
  BY ListsStep
<1>2. CASE UNCHANGED vars
  <2>1. UNCHANGED <<block, measured, order, turn, calm, command, working, online, output, chip>>
    BY <1>2 DEF vars, outside
  <2> QED  BY <1>1, <2>1 DEF Group, ErrorDAC, Lag, Ahead
<1>3. CASE Disturbed
  BY <1>1, <1>3, ListsDisturbed
<1>4. CASE SelectMasterDAC(order[turn]) /\ order[turn] \in BLOCKS
  <2>1. PICK n : n = order[turn]
    OBVIOUS
  <2>2. Period(n)
    BY <1>1, <1>4, <2>1 DEF Period, ListsInv
  <2> QED  BY <1>1, <2>2
<1> QED  BY <1>2, <1>3, <1>4, Steps

LEMMA ConvergeStep == ConvergeInv /\ [Next]_vars => ConvergeInv'
<1> SUFFICES ASSUME ConvergeInv, [Next]_vars  PROVE ConvergeInv'
  OBVIOUS
<1>1. ListsInv /\ ListsInv' /\ Sortable
  BY Exchange DEF ConvergeInv
<1>2. CASE /\ UNCHANGED <<block, calm, command>> /\ Group' = Group
           /\ \A a, b : Lag(a, b)' = Lag(a, b) /\ ErrorDAC(b)' = ErrorDAC(b)
  <2>1. StaleInv' /\ ToldInv' /\ MasterInv'
    BY <1>2 DEF ConvergeInv, StaleInv, ToldInv, MasterInv, Decision
  <2> QED  BY <1>1, <2>1 DEF ConvergeInv
<1>3. CASE ToldInv' /\ StaleInv' /\ MasterInv'
  BY <1>1, <1>3 DEF ConvergeInv
<1>4. ASSUME NEW n, Period(n)  PROVE ConvergeInv'
  <2>1. GroupInv' /\ AddressInv'
    BY <1>1 DEF ListsInv
  <2>2. ToldInv' /\ StaleInv' /\ MasterInv'
    BY <1>4, <2>1, ToldPeriod, StalePeriod, MasterPeriod
  <2> QED  BY <1>1, <2>2 DEF ConvergeInv
<1> QED  BY <1>1, <1>2, <1>3, <1>4, Exchange

LEMMA ConvergeAgreement == ConvergeInv => Agreement
<1> SUFFICES ASSUME ConvergeInv, Settled, NEW a \in Group
             PROVE  /\ \A i, j \in 0 .. 2 : i # j => block[a].adr[i] # block[a].adr[j]
                    /\ \A b \in Group \ {a} :
                         \E i \in Slots : /\ block[a].adr[i] = block[b].adr[0]
                                         /\ block[a].out[i] = command[b]
                                         /\ block[a].err[i] = ErrorDAC(b)
                    /\ \A i \in Slots : block[a].out[i] =>
                         \E b \in Group \ {a} : block[a].adr[i] = block[b].adr[0]
                    /\ block[a].master = Decision(a, block[a])
  BY Zenon DEF Agreement
<1>1. Group \subseteq BLOCKS /\ RoundInv /\ Sortable
  BY DEF Group, ConvergeInv, ListsInv
<1>2. \A b \in Group : calm[b] = Calm /\ calm[b] >= Ordering
  BY <1>1, Limits DEF Settled
<1>3. ASSUME NEW b \in Group
      PROVE  /\ Lists(b, block[b].serial)
             /\ block[b].adr[0] = Rank(b)
             /\ \A i \in Slots : block[b].serial[i] # Free =>
                  block[b].adr[i] = Rank(block[b].serial[i])
             /\ \A i, j \in 0 .. 2 : i # j => block[b].adr[i] # block[b].adr[j]
  <2>1. PICK serial : serial = block[b].serial
    OBVIOUS
  <2>2. PICK adr : adr = block[b].adr
    OBVIOUS
  <2>3. Lists(b, serial) /\ adr = Address(b, serial)
    BY <1>2, <2>1, <2>2 DEF ConvergeInv, ListsInv, GroupInv, AddressInv
  <2> QED  BY <1>1, <2>1, <2>2, <2>3, Addresses
<1>4. ASSUME NEW b \in Group \ {a}
      PROVE  \E i \in Slots : /\ block[a].adr[i] = block[b].adr[0]
                             /\ block[a].out[i] = command[b]
                             /\ block[a].err[i] = ErrorDAC(b)
  <2>1. PICK i \in Slots : block[a].serial[i] = b
    BY <1>3 DEF Lists
  <2>2. b # Free
    BY <1>1, GroupFinite
  <2>3. block[a].adr[i] = block[b].adr[0]
    BY <1>3, <2>1, <2>2
  <2>4. calm[a] >= Ordering + Lag(a, b)
    <3>1. Lag(a, b) = 0 \/ Lag(a, b) = 1
      BY DEF Lag
    <3> QED  BY <1>2, <3>1, Limits
  <2>5. block[a].out[i] = command[b] /\ block[a].err[i] = ErrorDAC(b)
    BY <2>1, <2>4 DEF ConvergeInv, ToldInv
  <2> QED  BY <2>3, <2>5, Zenon
<1>5. ASSUME NEW i \in Slots, block[a].out[i]
      PROVE  \E b \in Group \ {a} : block[a].adr[i] = block[b].adr[0]
  <2>1. block[a].serial[i] # Free
    <3> SUFFICES ASSUME block[a].serial[i] = Free  PROVE FALSE
      OBVIOUS
    <3>1. block[a].pingData[i] + Ordering > calm[a]
      BY <1>2, <1>5 DEF ConvergeInv, StaleInv
    <3>2. block[a].pingData[i] < MAX_COUNT_PING_LOST
      BY <1>1, <1>5 DEF ConvergeInv, ListsInv, ListInv
    <3>3. block[a].pingData[i] \in Nat
      BY <1>1 DEF ConvergeInv, ListsInv, TypeOK, Knowledge
    <3> QED  BY <1>2, <3>1, <3>2, <3>3, Limits
  <2>2. block[a].serial[i] \in Group \ {a}
    BY <1>3, <2>1 DEF Lists
  <2>3. block[a].adr[i] = block[block[a].serial[i]].adr[0]
    BY <1>3, <2>1, <2>2
  <2> QED  BY <2>2, <2>3
<1>6. block[a].master = Decision(a, block[a])
  BY <1>2 DEF ConvergeInv, MasterInv
<1> QED  BY <1>3, <1>4, <1>5, <1>6

LEMMA ConvergeInit == Sortable /\ Init => ConvergeInv
BY ListsInit, InitNotYet DEF ConvergeInv

LEMMA Convergence == Sortable => (Spec => []ConvergeInv)
BY ConvergeInit, ConvergeStep, PTL DEF Spec

\* If the serial numbers can be put in order: whatever failed, returned or was commanded,
\* and however the boards' periods follow each other, Calm periods after the last event every board has the addresses, commands and
\* errors of those that are there, and nobody else's, and has decided from them.
THEOREM BoardsAgree == Sortable => (Spec => []Agreement)
BY Convergence, ConvergeAgreement, PTL

\* Then the decisions that SelectMasterDAC takes separately in each leave the output to one
\* board at most: for all commands and errors.
THEOREM Election == Sortable => (Spec => []OneDrives)
BY BoardsAgree, AgreementOneDrives, TypeCorrect, PTL

\* And the output is not left alone while a commanded board without an error is there,
\* unless a board saw ERROR_KZ.
THEOREM NeverAbandoned == Sortable => (Spec => []NotAbandoned)
BY BoardsAgree, AgreementNotAbandoned, TypeCorrect, PTL

-----------------------------------------------------------------------------
(* Serial numbers that cannot be put in order.                             *)

\* A board that lists the two others has no addresses to give.
LEMMA Silent ==
  ASSUME ~Sorted(BLOCKS), Group = BLOCKS, NEW a \in BLOCKS, NEW serial, Lists(a, serial),
         NEW adr, adr = Address(a, serial)
  PROVE  \A j \in 0 .. 2 : adr[j] = 0
<1>1. PICK x, y, z : BLOCKS = {x, y, z} /\ x # y /\ x # z /\ y # z
  BY ThreeOfThem
<1>2. PICK b, c : BLOCKS = {a, b, c} /\ b # c /\ b # a /\ c # a
  BY <1>1
<1>3. b \in Group \ {a} /\ c \in Group \ {a}
  BY <1>2
<1>4. PICK i \in Slots : serial[i] = b
  BY <1>3 DEF Lists
<1>5. PICK j \in Slots : serial[j] = c
  BY <1>3 DEF Lists
<1>6. (serial[1] = b /\ serial[2] = c) \/ (serial[1] = c /\ serial[2] = b)
  BY <1>2, <1>4, <1>5, Slot12
<1>7. serial \in [Slots -> BLOCKS]
  <2>1. \A l \in Slots : serial[l] \in BLOCKS
    BY <1>2, <1>6, Slot12
  <2> QED  BY <2>1 DEF Lists
<1>8. BLOCKS = {a, serial[1], serial[2]}
  BY <1>2, <1>6
<1> QED  BY <1>7, <1>8, NoAddresses

\* What board a knows of the others does not change in the period of another.
LEMMA Untold ==
  ASSUME NEW n, Period(n), GroupInv', AddressInv', ~Sorted(BLOCKS), Group = BLOCKS,
         NEW a \in BLOCKS, a # n, calm[a] >= Ordering
  PROVE  /\ block'[a].out = block[a].out /\ block'[a].err = block[a].err
         /\ block'[a].pingData = block[a].pingData
         /\ block'[a].adr = block[a].adr /\ block'[a].master = block[a].master
<1> PICK k : k = block[a]
  OBVIOUS
<1> PICK new : new = block'[a]
  OBVIOUS
<1> PICK own : own = block'[n]
  OBVIOUS
<1>1. n \in BLOCKS /\ n \in Group /\ a \in Group /\ Group' = Group
  BY PeriodFacts DEF Period
<1>2. calm'[n] >= Ordering
  BY <1>1, CalmToo
<1>3. \A j \in 0 .. 2 : own.adr[j] = 0
  <2>1. PICK serial : serial = own.serial
    OBVIOUS
  <2>2. PICK adr : adr = own.adr
    OBVIOUS
  <2>3. Lists(n, serial)
    BY <1>1, <1>2, <2>1 DEF GroupInv, Lists
  <2>4. adr = Address(n, serial)
    BY <1>1, <1>2, <2>1, <2>2 DEF AddressInv
  <2>5. \A j \in 0 .. 2 : adr[j] = 0
    BY <1>1, <2>3, <2>4, Silent
  <2> QED  BY <2>2, <2>5
<1>4. k.adr[0] = 0
  <2>1. PICK serial : serial = k.serial
    OBVIOUS
  <2>2. PICK adr : adr = k.adr
    OBVIOUS
  <2>3. Lists(a, serial) /\ adr = Address(a, serial)
    BY <1>1, <2>1, <2>2 DEF Period, ListsInv, GroupInv, AddressInv
  <2>4. \A j \in 0 .. 2 : adr[j] = 0
    BY <2>3, Silent
  <2> QED  BY <2>2, <2>4
<1>5. own.adr[0] = 0
  BY <1>3
<1>6. Telling(k, new, n, own.adr[0]) /\ new.adr = k.adr /\ new.master = k.master
  BY <1>1, InGroup
<1>7. new.out = k.out /\ new.err = k.err /\ new.pingData = k.pingData
  BY <1>4, <1>5, <1>6, Zenon DEF Telling
<1> QED  BY <1>6, <1>7

LEMMA QuietPeriod ==
  ASSUME TieInv, NEW n, Period(n), GroupInv', AddressInv'
  PROVE  QuietInv'
<1>1. Group' = Group
  BY PeriodFacts
<1> SUFFICES ASSUME Group = BLOCKS, NEW a \in BLOCKS, NEW i \in Slots,
                    calm'[a] >= Ordering, block'[a].out[i]
             PROVE  block'[a].pingData[i] + Ordering > calm'[a]
  BY <1>1 DEF QuietInv
<1> PICK k : k = block[a]
  OBVIOUS
<1> PICK new : new = block'[a]
  OBVIOUS
<1>2. a \in Group /\ working[a] /\ k \in Knowledge /\ calm[a] \in Nat /\ n \in BLOCKS
  BY PeriodFacts DEF Group, Period
<1>3. k.pingData[i] \in Nat
  BY <1>2 DEF Knowledge
<1>4. calm[a] >= Ordering /\ k.out[i] => k.pingData[i] + Ordering > calm[a]
  BY DEF TieInv, QuietInv
<1>5. CASE a = n
  <2>1. /\ new.pingData[i] = OneMore(k.pingData[i])
        /\ new.out[i] <=> new.pingData[i] < MAX_COUNT_PING_LOST /\ k.out[i]
    <3>1. TypeOK /\ SelectMasterDAC(n) /\ working[n] /\ k = block[n] /\ new = block'[n]
      BY <1>2, <1>5 DEF Period, ListsInv
    <3> QED  BY <1>2, <3>1, OwnPeriod
  <2>2. new.pingData[i] = k.pingData[i] + 1 /\ k.out[i]
    <3>1. new.pingData[i] # MAX_COUNT_PING_LOST
      BY <2>1, Limits
    <3> QED  BY <1>3, <2>1, <3>1, OneMoreBound
  <2>3. calm'[a] = IF calm[a] < Calm THEN calm[a] + 1 ELSE calm[a]
    BY <1>5, PeriodFacts
  <2>4. CASE calm[a] < Ordering
    BY <1>2, <1>3, <2>2, <2>3, <2>4, Limits
  <2>5. CASE calm[a] >= Ordering
    BY <1>2, <1>3, <1>4, <2>2, <2>3, <2>5, Limits
  <2> QED  BY <1>2, <2>4, <2>5, Limits
<1>6. CASE a # n
  <2>1. calm'[a] = calm[a]
    BY <1>2, <1>6, PeriodFacts
  <2>2. new.out = k.out /\ new.pingData = k.pingData
    BY <1>6, <2>1, Untold DEF TieInv
  <2> QED  BY <1>4, <2>1, <2>2
<1> QED  BY <1>5, <1>6

LEMMA AlonePeriod ==
  ASSUME TieInv, NEW n, Period(n), GroupInv', AddressInv'
  PROVE  AloneInv'
<1>1. Group' = Group
  BY PeriodFacts
<1>2. \A b \in BLOCKS : command'[b] = command[b] /\ ErrorDAC(b)' = ErrorDAC(b)
  BY PeriodFacts
<1> SUFFICES ASSUME Group = BLOCKS, NEW a \in BLOCKS, calm'[a] = Calm
             PROVE  block'[a].master = Decision(a, block'[a])
  <2>1. \A a \in BLOCKS : Decision(a, block[a])' = Decision(a, block'[a])
    BY <1>2 DEF Decision
  <2> QED  BY <1>1, <2>1 DEF AloneInv, MasterInv
<1> PICK k : k = block[a]
  OBVIOUS
<1> PICK new : new = block'[a]
  OBVIOUS
<1>3. a \in Group /\ working[a] /\ calm[a] \in Nat /\ k.start \in Nat
  BY PeriodFacts DEF Group, Knowledge
<1>4. CASE a = n
  <2>1. k.start + 1 >= TAKE_AFTER => new.master = Decision(n, new)
    <3>1. TypeOK /\ SelectMasterDAC(n) /\ working[n] /\ k = block[n] /\ new = block'[n] /\ n \in BLOCKS
      BY <1>3, <1>4 DEF Period, ListsInv
    <3> QED  BY <3>1, OwnPeriod
  <2>2. k.start = TAKE_AFTER \/ k.start >= calm[a]
    BY <1>3 DEF Period, ListsInv, StartedInv
  <2>3. calm[a] + 1 >= Calm
    BY <1>3, <1>4, PeriodFacts, Limits
  <2> QED  BY <1>3, <1>4, <2>1, <2>2, <2>3, Limits
<1>5. CASE a # n
  <2>1. calm[a] = Calm /\ calm[a] >= Ordering
    BY <1>3, <1>5, PeriodFacts, Limits
  <2>2. k.master = Decision(a, k)
    BY <1>3, <2>1 DEF TieInv, AloneInv, MasterInv
  <2>3. new.master = k.master /\ new.adr = k.adr /\ new.out = k.out /\ new.err = k.err
    BY <1>5, <2>1, Untold DEF TieInv
  <2>4. Decision(a, new) = Decision(a, k)
    BY <2>3, Zenon DEF Decision
  <2> QED  BY <2>2, <2>3, <2>4
<1> QED  BY <1>4, <1>5

LEMMA TieStep == TieInv /\ [Next]_vars => TieInv'
<1> SUFFICES ASSUME TieInv, [Next]_vars  PROVE TieInv'
  OBVIOUS
<1>1. ListsInv /\ ListsInv' /\ ~Sorted(BLOCKS)
  BY Exchange DEF TieInv
<1>2. CASE /\ UNCHANGED <<block, calm, command>> /\ Group' = Group
           /\ \A a, b : Lag(a, b)' = Lag(a, b) /\ ErrorDAC(b)' = ErrorDAC(b)
  <2>1. QuietInv' /\ AloneInv'
    BY <1>2 DEF TieInv, QuietInv, AloneInv, MasterInv, Decision
  <2> QED  BY <1>1, <2>1 DEF TieInv
<1>3. CASE QuietInv' /\ AloneInv'
  BY <1>1, <1>3 DEF TieInv
<1>4. ASSUME NEW n, Period(n)  PROVE TieInv'
  <2>1. GroupInv' /\ AddressInv'
    BY <1>1 DEF ListsInv
  <2>2. QuietInv' /\ AloneInv'
    BY <1>4, <2>1, QuietPeriod, AlonePeriod
  <2> QED  BY <1>1, <2>2 DEF TieInv
<1> QED  BY <1>1, <1>2, <1>3, <1>4, Exchange

\* Every board that has the command and no high current drives, the others do not.
AllDrive ==
  Settled /\ Group = BLOCKS =>
    \A b \in BLOCKS : Driving(b) <=> command[b] /\ ErrorDAC(b) < ERROR_KZ

LEMMA TieAllDrive == TieInv => AllDrive
<1> SUFFICES ASSUME TieInv, Settled, Group = BLOCKS, NEW b \in BLOCKS
             PROVE  Driving(b) <=> command[b] /\ ErrorDAC(b) < ERROR_KZ
  BY DEF AllDrive
<1> PICK k : k = block[b]
  OBVIOUS
<1>1. calm[b] = Calm /\ calm[b] >= Ordering
  BY Limits DEF Settled
<1>2. k \in Knowledge /\ command[b] \in BOOLEAN
  BY DEF TieInv, ListsInv, TypeOK
<1>3. ASSUME NEW i \in Slots  PROVE ~k.out[i]
  <2>1. k.out[i] => k.pingData[i] + Ordering > Calm
    BY <1>1 DEF TieInv, QuietInv
  <2>2. k.out[i] => k.pingData[i] < MAX_COUNT_PING_LOST
    BY DEF TieInv, ListsInv, ListInv
  <2>3. k.pingData[i] \in Nat
    BY <1>2 DEF Knowledge
  <2> QED  BY <2>1, <2>2, <2>3, Limits
<1>4. \A j \in 0 .. 2 : k.adr[j] = 0
  <2>1. PICK serial : serial = k.serial
    OBVIOUS
  <2>2. PICK adr : adr = k.adr
    OBVIOUS
  <2>3. Lists(b, serial) /\ adr = Address(b, serial)
    BY <1>1, <2>1, <2>2 DEF TieInv, ListsInv, GroupInv, AddressInv
  <2>4. \A j \in 0 .. 2 : adr[j] = 0
    BY <2>3, Silent DEF TieInv
  <2> QED  BY <2>2, <2>4
<1> PICK err : err = Own(ErrorDAC(b), k.err)
  OBVIOUS
<1> PICK out : out = Own(command[b], k.out)
  OBVIOUS
<1>5. err[0] = ErrorDAC(b) /\ out[0] = command[b] /\ \A i \in Slots : out[i] = k.out[i]
  BY DEF Own, Slots
<1>6. k.master = Takes(k.adr, err, out)
  <2>1. k.master = Decision(b, k)
    BY <1>1 DEF TieInv, AloneInv, MasterInv
  <2> QED  BY <2>1, Zenon DEF Decision
<1>7. {i \in Slots : out[i]} = {}
  BY <1>3, <1>5, Zenon
<1>8. command[b] /\ ErrorDAC(b) < ERROR_KZ => Takes(k.adr, err, out)
  BY <1>5, <1>7, Zenon DEF Takes
<1>9. Takes(k.adr, err, out) => ErrorDAC(b) < ERROR_KZ
  BY <1>5, Zenon DEF Takes
<1> QED  BY <1>2, <1>6, <1>8, <1>9, Zenon DEF Driving

LEMMA TieInit == ~Sorted(BLOCKS) /\ Init => TieInv
BY ListsInit, InitNotYet DEF TieInv

\* While three boards whose serial numbers cannot be put in order hear each other, each of
\* them has no addresses, tells nothing and knows of no other command: all that have the
\* command drive the same output.
THEOREM TieDrives == ~Sorted(BLOCKS) => (Spec => []AllDrive)
<1>1. ~Sorted(BLOCKS) => (Spec => []TieInv)
  BY TieInit, TieStep, PTL DEF Spec
<1> QED  BY <1>1, TieAllDrive, PTL

-----------------------------------------------------------------------------
(* The discrete inputs, for every number of pairs and all times.           *)

NddType ==
  /\ setON \in [Pairs -> BOOLEAN] /\ power \in [Pairs -> BOOLEAN]
  /\ Link \in [Chips -> BOOLEAN] /\ InitReq \in [Chips -> BOOLEAN]
  /\ valid \in [Chips -> BOOLEAN]
  /\ Reboot \in [Pairs -> BOOLEAN] /\ StatusReboot \in [Pairs -> 0 .. 2]
  /\ TimerReboot \in [Pairs -> Nat]
  /\ pc \in {"loop", "init", "decide", "reboot", "reinit", "valid", "poll"}
  /\ pc \in {"init", "reinit", "poll"} => at \in Chips
  /\ pc = "reboot" => at \in Pairs
  /\ stStartBlock \in BOOLEAN /\ stStartValid \in BOOLEAN
  /\ alive \in [Chips -> BOOLEAN] /\ configured \in [Chips -> BOOLEAN]
  /\ noticed \in [Chips -> BOOLEAN] /\ missed \in [Chips -> BOOLEAN]
  /\ off \in [Pairs -> 0 .. REBOOT_TIME]

\* Without power no chip answers, and only a chip that answered leads to a restart.
GivenUp ==
  StPwr = 3 => /\ \A p \in Pairs : ~power[p] /\ ~Reboot[p]
               /\ \A i \in Chips : ~Link[i]

\* While a pair is restarted, the setting CyclicModules copies is the pin, and the timer
\* does not run out before the supply was off for its time.
Cycling ==
  \A p \in Pairs : StatusReboot[p] = 1 =>
    /\ setON[p] <=> power[p]
    /\ ~power[p] => off[p] + TimerReboot[p] >= REBOOT_TIME

\* The chips whose registers are written, or it is known why not.
Written == {i \in Chips : configured[i] \/ missed[i] \/ ~noticed[i]}

\* Restarts that were decided have begun, except those this pass has still to come to.
Begun ==
  \A p \in Pairs : Reboot[p] /\ StatusReboot[p] = 0 =>
    \/ pc = "reboot" /\ at <= p
    \/ pc = "reinit" /\ PairOf(at) < p

\* The chips of a restarted pair are written, the first before the second.
Rewriting ==
  /\ \A p \in Pairs : Reboot[p] /\ StatusReboot[p] = 2 => ChipsOf(p) \subseteq Written
  /\ pc = "reinit" => /\ Reboot[PairOf(at)] /\ StatusReboot[PairOf(at)] = 1
                      /\ \A i \in ChipsOf(PairOf(at)) : i < at => i \in Written

\* Valid inputs are not waiting for a restart and not in one.
Marks ==
  \A i \in Chips :
    /\ valid[i] => i \in Written /\ ~InitReq[i]
    /\ Reboot[PairOf(i)] => ~valid[i] /\ ~InitReq[i]

\* Before the first poll nothing was lost, and all registers are written one by one.
Starting ==
  ~stStartValid =>
    /\ \A i \in Chips : ~Link[i] /\ ~InitReq[i]
    /\ \A p \in Pairs : ~Reboot[p]
    /\ pc \in {"loop", "init", "decide", "reboot", "valid"}
    /\ pc = "loop" => ~stStartBlock
    /\ pc = "init" => \A i \in Chips : i < at => i \in Written
    /\ pc \in {"decide", "reboot", "valid"} => Chips \subseteq Written

ValidInv == NddType /\ Begun /\ Rewriting /\ Marks /\ Starting

LEMMA ChipFacts ==
  ASSUME NEW i \in Chips
  PROVE  PairOf(i) \in Pairs /\ i \in ChipsOf(PairOf(i)) /\ i \in Nat
BY NddAssumption DEF NddAssumption, Chips, Pairs, PairOf, ChipsOf

LEMMA PairFacts ==
  ASSUME NEW p \in Pairs
  PROVE  /\ ChipsOf(p) \subseteq Chips
         /\ \A i \in ChipsOf(p) : PairOf(i) = p
         /\ \A i \in Chips : PairOf(i) = p => i \in ChipsOf(p)
         /\ 2 * p \in Chips /\ 2 * p + 1 \in Chips /\ p \in Nat
BY NddAssumption DEF NddAssumption, Chips, Pairs, PairOf, ChipsOf

LEMMA NextPairType ==
  ASSUME NddType, pc = "reboot", NextPair
  PROVE  /\ pc' \in {"reboot", "valid"} /\ (pc' = "reboot" => at' \in Pairs /\ at' = at + 1)
         /\ pc' = "valid" => at + 1 \notin Pairs
BY DEF NddType, NextPair, Goto

LEMMA NextChipType ==
  ASSUME NddType, pc = "poll", NextChip
  PROVE  pc' \in {"poll", "loop"} /\ (pc' = "poll" => at' \in Chips)
BY DEF NddType, NextChip, Goto

LEMMA InitDinRegType ==
  ASSUME NddType, NEW i \in Chips, InitDinReg(i)
  PROVE  /\ configured' \in [Chips -> BOOLEAN] /\ missed' \in [Chips -> BOOLEAN]
         /\ UNCHANGED <<alive, noticed>>
<1>1. Answers(i) \in BOOLEAN
  BY Zenon DEF Answers
<1> QED  BY <1>1, Zenon DEF InitDinReg, NddType

LEMMA NddTypeStep == NddType /\ [NddNext]_nddVars => NddType'
<1> SUFFICES ASSUME NddType, [NddNext]_nddVars  PROVE NddType'
  OBVIOUS
<1>1. /\ 0 \in Chips /\ 0 \in Pairs
      /\ REBOOT_TIME \in Nat /\ SETTLE_TIME \in Nat
  BY NddAssumption DEF NddAssumption, Chips, Pairs
<1>2. CASE CyclicModules
  BY <1>1, <1>2 DEF CyclicModules, Goto, NddType, driver, fsm, start, chips
<1>3. CASE StartBlock
  <2>1. at \in Chips
    BY <1>3 DEF StartBlock, NddType
  <2>2. /\ configured' \in [Chips -> BOOLEAN] /\ missed' \in [Chips -> BOOLEAN]
        /\ UNCHANGED <<alive, noticed>>
    BY <1>3, <2>1, InitDinRegType DEF StartBlock
  <2> QED  BY <1>1, <1>3, <2>2 DEF StartBlock, Goto, NddType, driver, fsm, supply
<1>4. CASE Decide
  BY <1>1, <1>4 DEF Decide, Goto, NddType, supply, start, chips
<1>5. CASE RebootOff
  BY <1>1, <1>5, NextPairType DEF RebootOff, NddType, driver, start
<1>6. CASE RebootOn
  <2>1. at \in Pairs
    BY <1>6 DEF RebootOn, NddType
  <2>2. 2 * at \in Chips
    BY <2>1, PairFacts
  <2> QED  BY <2>2, <1>6 DEF RebootOn, Goto, NddType, driver, fsm, start, chips
<1>7. CASE Reinit
  <2>1. at \in Chips /\ PairOf(at) \in Pairs
    BY <1>7, ChipFacts DEF Reinit, NddType
  <2>2. at = 2 * PairOf(at) => at + 1 \in Chips
    BY <2>1, PairFacts
  <2>3. /\ configured' \in [Chips -> BOOLEAN] /\ missed' \in [Chips -> BOOLEAN]
        /\ UNCHANGED <<alive, noticed>>
    BY <1>7, <2>1, InitDinRegType DEF Reinit
  <2> QED  BY <1>1, <1>7, <2>1, <2>2, <2>3
           DEF Reinit, Goto, NddType, supply, driver, fsm, start
<1>8. CASE RebootDone
  BY <1>8, NextPairType DEF RebootDone, NddType, supply, start, chips
<1>9. CASE RebootWait
  BY <1>9, NextPairType DEF RebootWait, NddType, supply, driver, fsm, start, chips
<1>10. CASE StartValid
  BY <1>1, <1>10 DEF StartValid, Goto, NddType, supply, fsm, chips
<1>11. CASE PollAnswer
  <2>1. at \in Chips
    BY <1>11 DEF PollAnswer, NddType
  <2>2. valid' \in [Chips -> BOOLEAN]
    BY <1>11, <2>1 DEF PollAnswer, NddType
  <2> QED  BY <1>11, <2>1, <2>2, NextChipType DEF PollAnswer, NddType, supply, fsm, start, chips
<1>12. CASE PollSilence
  BY <1>12, NextChipType DEF PollSilence, NddType, supply, fsm, start
<1>13. CASE PollSkip
  BY <1>13, NextChipType DEF PollSkip, NddType, supply, driver, fsm, start, chips
<1>14. CASE Tick
  <2>1. TimerReboot' \in [Pairs -> Nat]
    BY <1>14 DEF Tick, NddType
  <2>2. off' \in [Pairs -> 0 .. REBOOT_TIME]
    BY <1>1, <1>14 DEF Tick, NddType
  <2> QED  BY <1>14, <2>1, <2>2 DEF Tick, NddType, supply, driver, start, chips
<1>15. ASSUME NEW i \in Chips, ChipLost(i) \/ ChipBack(i)  PROVE NddType'
  BY <1>15 DEF ChipLost, ChipBack, NddType, supply, driver, fsm, start
<1>16. CASE UNCHANGED nddVars
  BY <1>16 DEF nddVars, NddType, supply, driver, fsm, start, chips
<1> QED
  BY <1>2, <1>3, <1>4, <1>5, <1>6, <1>7, <1>8, <1>9, <1>10, <1>11, <1>12, <1>13, <1>14,
     <1>15, <1>16 DEF NddNext, Pass

LEMMA NddTypeInit == NddInit => NddType
<1> SUFFICES ASSUME NddInit  PROVE NddType
  OBVIOUS
<1>1. 0 \in 0 .. REBOOT_TIME /\ 0 \in Nat /\ 0 \in 0 .. 2
  BY NddAssumption DEF NddAssumption
<1>2. alive \in [Chips -> BOOLEAN]
  BY DEF NddInit
<1> QED  BY <1>1, <1>2 DEF NddInit, NddType

LEMMA NddTypeCorrect == NddSpec => []NddType
BY NddTypeInit, NddTypeStep, PTL DEF NddSpec

LEMMA GivenUpStep == NddType /\ GivenUp /\ [NddNext]_nddVars => GivenUp'
<1> SUFFICES ASSUME NddType, GivenUp, [NddNext]_nddVars, StPwr' = 3
             PROVE  GivenUp'
  BY DEF GivenUp
<1>1. StPwr = 3
  BY DEF NddNext, Pass, nddVars, CyclicModules, StartBlock, Decide, RebootOff, RebootOn, Reinit,
         RebootDone, RebootWait, StartValid, PollAnswer, PollSilence, PollSkip, Tick, ChipLost,
         ChipBack, supply
<1>2. (\A p \in Pairs : ~power[p] /\ ~Reboot[p]) /\ (\A i \in Chips : ~Link[i])
  BY <1>1 DEF GivenUp
<1>3. CASE UNCHANGED <<power, Reboot, Link>>
  BY <1>2, <1>3 DEF GivenUp
<1>4. CASE CyclicModules
  BY <1>1, <1>3, <1>4 DEF CyclicModules, fsm, driver
<1>5. CASE Decide
  <2>1. ASSUME NEW p \in Pairs  PROVE ~NeedsReboot(p)
    BY <1>2, PairFacts DEF NeedsReboot
  <2> QED  BY <1>2, <1>5, <2>1 DEF Decide, supply, GivenUp
<1>6. CASE RebootOff \/ RebootOn \/ RebootDone
  BY <1>2, <1>6 DEF RebootOff, RebootOn, RebootDone, NddType
<1>7. CASE PollAnswer
  BY <1>2, <1>7, ChipFacts DEF PollAnswer, Answers, NddType
<1>8. CASE PollSilence
  BY <1>2, <1>8 DEF PollSilence, NddType, supply, fsm, GivenUp
<1>9. CASE StartBlock \/ Reinit
  BY <1>3, <1>9 DEF StartBlock, Reinit, supply, driver, fsm
<1>10. CASE RebootWait \/ StartValid \/ PollSkip \/ Tick \/ UNCHANGED nddVars
  BY <1>3, <1>10 DEF RebootWait, StartValid, PollSkip, Tick, nddVars, supply, driver, fsm
<1>11. ASSUME NEW i \in Chips, ChipLost(i) \/ ChipBack(i)  PROVE GivenUp'
  BY <1>3, <1>11 DEF ChipLost, ChipBack, supply, driver, fsm
<1> QED
  BY <1>4, <1>5, <1>6, <1>7, <1>8, <1>9, <1>10, <1>11 DEF NddNext, Pass

\* On a power block that was given up no chip answers, so that no pair is ever restarted
\* and RebootOn, which does not look at StPwr, never switches a supply on.
THEOREM NoRestartWhenGivenUp == NddSpec => []GivenUpStaysOff
<1>1. NddInit => GivenUp
  BY DEF NddInit, GivenUp
<1>2. GivenUp => GivenUpStaysOff
  BY DEF GivenUp, GivenUpStaysOff
<1> QED  BY <1>1, <1>2, GivenUpStep, NddTypeCorrect, PTL DEF NddSpec

-----------------------------------------------------------------------------

LEMMA CyclingStep == NddType /\ Cycling /\ [NddNext]_nddVars => Cycling'
<1> SUFFICES ASSUME NddType, Cycling, [NddNext]_nddVars,
                    NEW p \in Pairs, StatusReboot'[p] = 1
             PROVE  /\ setON'[p] <=> power'[p]
                    /\ ~power'[p] => off'[p] + TimerReboot'[p] >= REBOOT_TIME
  BY DEF Cycling
<1>1. REBOOT_TIME \in Nat
  BY NddAssumption
<1>2. CASE UNCHANGED <<StatusReboot, power, setON, off, TimerReboot>>
  BY <1>2 DEF Cycling
<1>3. CASE CyclicModules
  <2>1. UNCHANGED <<StatusReboot, setON, off, TimerReboot>>
    BY <1>3 DEF CyclicModules, fsm
  <2>2. CASE StPwr = 3
    BY <1>2, <1>3, <2>1, <2>2 DEF CyclicModules
  <2>3. CASE StPwr # 3
    <3>1. power' = setON
      BY <1>3, <2>3 DEF CyclicModules
    <3> QED  BY <2>1, <3>1 DEF Cycling
  <2> QED  BY <2>2, <2>3
<1>4. CASE Decide
  <2>1. StatusReboot[p] = 1 /\ UNCHANGED <<power, setON, off, TimerReboot>>
    BY <1>4 DEF Decide, supply
  <2> QED  BY <2>1 DEF Cycling
<1>5. CASE RebootOff
  <2>1. CASE p = at
    BY <1>1, <1>5, <2>1 DEF RebootOff, NddType
  <2>2. CASE p # at
    <3>1. /\ StatusReboot'[p] = StatusReboot[p] /\ power'[p] = power[p]
          /\ setON'[p] = setON[p] /\ off'[p] = off[p] /\ TimerReboot'[p] = TimerReboot[p]
      BY <1>5, <2>2 DEF RebootOff, NddType
    <3> QED  BY <3>1 DEF Cycling
  <2> QED  BY <2>1, <2>2
<1>6. CASE RebootOn
  <2>1. CASE p = at
    BY <1>6, <2>1 DEF RebootOn, NddType
  <2>2. CASE p # at
    <3>1. /\ StatusReboot'[p] = StatusReboot[p] /\ power'[p] = power[p]
          /\ setON'[p] = setON[p] /\ off'[p] = off[p] /\ TimerReboot'[p] = TimerReboot[p]
      BY <1>6, <2>2 DEF RebootOn, NddType, fsm
    <3> QED  BY <3>1 DEF Cycling
  <2> QED  BY <2>1, <2>2
<1>7. CASE Reinit
  <2>1. UNCHANGED <<power, setON, off>>
    BY <1>7 DEF Reinit, supply
  <2>2. CASE UNCHANGED fsm
    BY <1>2, <2>1, <2>2 DEF fsm
  <2>3. CASE ~UNCHANGED fsm
    <3> DEFINE q == PairOf(at)
    <3>1. /\ TimerReboot' = [TimerReboot EXCEPT ![q] = SETTLE_TIME]
          /\ StatusReboot' = [StatusReboot EXCEPT ![q] = 2]
      BY <1>7, <2>3 DEF Reinit
    <3> HIDE DEF q
    <3>2. p # q
      BY <3>1 DEF NddType
    <3>3. StatusReboot'[p] = StatusReboot[p] /\ TimerReboot'[p] = TimerReboot[p]
      BY <3>1, <3>2 DEF NddType
    <3> QED  BY <2>1, <3>3 DEF Cycling
  <2> QED  BY <2>2, <2>3
<1>8. CASE RebootDone
  <2>1. p # at
    BY <1>8 DEF RebootDone, NddType
  <2>2. StatusReboot'[p] = StatusReboot[p] /\ UNCHANGED <<power, setON, off, TimerReboot>>
    BY <1>8, <2>1 DEF RebootDone, NddType, supply
  <2> QED  BY <2>2 DEF Cycling
<1>9. CASE Tick
  <2>1. StatusReboot[p] = 1 /\ UNCHANGED <<power, setON>>
    BY <1>9 DEF Tick, supply
  <2>2. (setON[p] <=> power[p]) /\ (~power[p] => off[p] + TimerReboot[p] >= REBOOT_TIME)
    BY <2>1 DEF Cycling
  <2>3. off[p] \in 0 .. REBOOT_TIME /\ TimerReboot[p] \in Nat
    BY DEF NddType
  <2>4. /\ TimerReboot'[p] = IF TimerReboot[p] > 0 THEN TimerReboot[p] - 1 ELSE 0
        /\ off'[p] = IF power[p] \/ off[p] = REBOOT_TIME THEN off[p] ELSE off[p] + 1
    BY <1>9, <2>1 DEF Tick
  <2> QED  BY <1>1, <2>1, <2>2, <2>3, <2>4
<1>10. CASE StartBlock \/ RebootWait \/ StartValid \/ PollAnswer \/ PollSilence \/ PollSkip
  BY <1>2, <1>10 DEF StartBlock, RebootWait, StartValid, PollAnswer, PollSilence, PollSkip,
                     supply, fsm
<1>11. CASE UNCHANGED nddVars
  BY <1>2, <1>11 DEF nddVars, supply, fsm
<1>12. ASSUME NEW i \in Chips, ChipLost(i) \/ ChipBack(i)
       PROVE  /\ setON'[p] <=> power'[p]
              /\ ~power'[p] => off'[p] + TimerReboot'[p] >= REBOOT_TIME
  BY <1>2, <1>12 DEF ChipLost, ChipBack, supply, fsm
<1> QED
  BY <1>3, <1>4, <1>5, <1>6, <1>7, <1>8, <1>9, <1>10, <1>11, <1>12 DEF NddNext, Pass

\* A supply that a restart switched off is switched on again by nothing but the restart
\* itself, after its full time, although every pass of the main loop writes the pin.
THEOREM OffForTheFullTime == NddSpec => FullPowerCycle
<1>1. NddInit => Cycling
  BY DEF NddInit, Cycling
<1>2. NddType /\ Cycling /\ [NddNext]_nddVars =>
        \A p \in Pairs : StatusReboot[p] = 1 /\ ~power[p] /\ power'[p] => off[p] = REBOOT_TIME
  <2> SUFFICES ASSUME NddType, Cycling, [NddNext]_nddVars,
                      NEW p \in Pairs, StatusReboot[p] = 1, ~power[p], power'[p]
               PROVE  off[p] = REBOOT_TIME
    OBVIOUS
  <2>1. ~setON[p] /\ off[p] + TimerReboot[p] >= REBOOT_TIME
    BY DEF Cycling
  <2>2. power' # power
    OBVIOUS
  <2>3. ~CyclicModules
    BY <2>1, <2>2 DEF CyclicModules
  <2>4. ~RebootOff
    BY DEF RebootOff, NddType
  <2>5. RebootOn
    BY <2>2, <2>3, <2>4
       DEF NddNext, Pass, nddVars, StartBlock, Decide, Reinit, RebootDone, RebootWait, StartValid,
           PollAnswer, PollSilence, PollSkip, Tick, ChipLost, ChipBack, supply
  <2>6. p = at /\ TimerReboot[p] = 0
    BY <2>5 DEF RebootOn, NddType
  <2>7. off[p] \in 0 .. REBOOT_TIME /\ REBOOT_TIME \in Nat
    BY NddAssumption DEF NddType
  <2> QED  BY <2>1, <2>6, <2>7
<1> QED  BY <1>1, <1>2, CyclingStep, NddTypeCorrect, PTL DEF NddSpec, FullPowerCycle

-----------------------------------------------------------------------------

LEMMA InitWrites ==
  ASSUME NddType, NEW i \in Chips, InitDinReg(i)
  PROVE  Written \cup {i} \subseteq Written'
<1>1. Answers(i) \in BOOLEAN
  BY Zenon DEF Answers
<1>2. configured'[i] \/ missed'[i]
  BY <1>1, Zenon DEF InitDinReg, NddType
<1>3. ASSUME NEW j \in Chips, j # i
      PROVE  configured'[j] = configured[j] /\ missed'[j] = missed[j] /\ noticed' = noticed
  BY <1>3, Zenon DEF InitDinReg, NddType
<1> QED  BY <1>2, <1>3, Zenon DEF Written

\* Only a restart and a poll without answer take a chip from the written ones.
LEMMA StaysWritten ==
  ASSUME NddType, [NddNext]_nddVars, NEW i \in Written
  PROVE  \/ i \in Written'
         \/ RebootOff /\ PairOf(i) = at
         \/ PollSilence /\ i = at
<1>1. i \in Chips
  BY DEF Written
<1>2. CASE UNCHANGED <<configured, noticed, missed>>
  BY <1>2 DEF Written
<1>3. CASE StartBlock \/ Reinit
  BY <1>3, InitWrites DEF StartBlock, Reinit, NddType
<1>4. CASE RebootOff
  <2>1. CASE PairOf(i) = at
    BY <1>4, <2>1
  <2>2. CASE PairOf(i) # at
    <3>1. configured'[i] = configured[i] /\ UNCHANGED <<missed, noticed>>
      BY <1>1, <1>4, <2>2 DEF RebootOff, NddType
    <3> QED  BY <1>1, <3>1 DEF Written
  <2> QED  BY <2>1, <2>2
<1>5. CASE PollSilence
  <2>1. CASE i = at
    BY <1>5, <2>1
  <2>2. CASE i # at
    <3>1. noticed'[i] = noticed[i] /\ UNCHANGED <<missed, configured>>
      BY <1>1, <1>5, <2>2 DEF PollSilence, NddType
    <3> QED  BY <1>1, <3>1 DEF Written
  <2> QED  BY <2>1, <2>2
<1>6. ASSUME NEW j \in Chips, ChipLost(j)  PROVE i \in Written'
  <2>1. CASE i = j
    BY <1>1, <1>6, <2>1 DEF ChipLost, Written, NddType
  <2>2. CASE i # j
    <3>1. noticed'[i] = noticed[i] /\ configured'[i] = configured[i] /\ UNCHANGED missed
      BY <1>1, <1>6, <2>2 DEF ChipLost, NddType
    <3> QED  BY <1>1, <3>1 DEF Written
  <2> QED  BY <2>1, <2>2
<1>7. CASE \/ CyclicModules \/ Decide \/ RebootOn \/ RebootDone \/ RebootWait \/ StartValid
           \/ PollAnswer \/ PollSkip \/ Tick \/ (\E j \in Chips : ChipBack(j))
           \/ UNCHANGED nddVars
  BY <1>2, <1>7 DEF CyclicModules, Decide, RebootOn, RebootDone, RebootWait, StartValid,
                    PollAnswer, PollSkip, Tick, ChipBack, nddVars, chips
<1> QED
  BY <1>3, <1>4, <1>5, <1>6, <1>7 DEF NddNext, Pass

LEMMA BegunStep == ValidInv /\ [NddNext]_nddVars => Begun'
<1> SUFFICES ASSUME ValidInv, [NddNext]_nddVars,
                    NEW p \in Pairs, Reboot'[p], StatusReboot'[p] = 0
             PROVE  \/ pc' = "reboot" /\ at' <= p
                    \/ pc' = "reinit" /\ PairOf(at') < p
  BY DEF Begun
<1> USE DEF ValidInv
<1>0. p \in Nat /\ \A q \in Pairs : q \in Nat /\ (q < p => q + 1 \in Pairs)
  BY NddAssumption DEF NddAssumption, Pairs
<1>1. CASE UNCHANGED <<Reboot, StatusReboot, pc, at>>
  BY <1>1 DEF Begun
<1>2. CASE Decide
  BY <1>0, <1>2 DEF Decide, Goto
<1>3. ASSUME pc = "reboot", NextPair, Reboot[p] /\ StatusReboot[p] = 0 => p # at,
             Reboot[p] /\ StatusReboot[p] = 0
      PROVE  pc' = "reboot" /\ at' <= p
  <2>1. at \in Pairs
    BY <1>3 DEF NddType
  <2>2. at < p
    BY <1>0, <1>3, <2>1 DEF Begun
  <2> QED  BY <1>0, <1>3, <2>1, <2>2 DEF NextPair, Goto
<1>4. CASE RebootOff
  <2>1. p # at /\ Reboot[p] /\ StatusReboot[p] = 0
    BY <1>4 DEF RebootOff, NddType
  <2> QED  BY <1>3, <1>4, <2>1 DEF RebootOff
<1>5. CASE RebootOn
  <2>1. at \in Pairs /\ at # p /\ at <= p
    BY <1>5 DEF RebootOn, fsm, NddType, Begun
  <2>2. PairOf(2 * at) = at
    BY <2>1, PairFacts DEF ChipsOf
  <2> QED  BY <1>0, <1>5, <2>1, <2>2 DEF RebootOn, Goto
<1>6. CASE Reinit
  <2>1. at \in Chips /\ PairOf(at) \in Pairs /\ at \in ChipsOf(PairOf(at))
    BY <1>6, ChipFacts DEF Reinit, NddType
  <2>2. Reboot[p] /\ StatusReboot[p] = 0
    BY <1>6, <2>1 DEF Reinit, fsm, NddType
  <2>3. PairOf(at) < p
    BY <1>6, <2>2 DEF Reinit, Begun
  <2>4. CASE at = 2 * PairOf(at)
    <3>1. PairOf(at + 1) = PairOf(at)
      BY <2>1, <2>4, PairFacts DEF ChipsOf
    <3> QED  BY <1>6, <2>3, <2>4, <3>1 DEF Reinit, Goto
  <2>5. CASE at # 2 * PairOf(at)
    <3>1. pc' = "reboot" /\ at' = PairOf(at)
      BY <1>6, <2>5, Zenon DEF Reinit, Goto
    <3>2. PairOf(at) \in Nat /\ p \in Nat
      BY <1>0, <2>1
    <3>3. at' <= p
      BY <2>3, <3>1, <3>2
    <3> QED  BY <3>1, <3>3
  <2> QED  BY <2>4, <2>5
<1>7. CASE RebootDone
  <2>1. p # at /\ Reboot[p] /\ StatusReboot[p] = 0
    BY <1>7 DEF RebootDone, NddType
  <2> QED  BY <1>3, <1>7, <2>1 DEF RebootDone
<1>8. CASE RebootWait
  <2>1. Reboot[p] /\ StatusReboot[p] = 0 /\ p # at
    BY <1>8 DEF RebootWait, fsm
  <2> QED  BY <1>3, <1>8, <2>1 DEF RebootWait
<1>9. CASE CyclicModules \/ StartBlock \/ StartValid \/ PollAnswer \/ PollSilence \/ PollSkip
  BY <1>9 DEF CyclicModules, StartBlock, StartValid, PollAnswer, PollSilence, PollSkip, fsm, Begun
<1>10. CASE Tick \/ (\E i \in Chips : ChipLost(i) \/ ChipBack(i)) \/ UNCHANGED nddVars
  BY <1>1, <1>10 DEF Tick, ChipLost, ChipBack, nddVars, fsm
<1> QED
  BY <1>2, <1>4, <1>5, <1>6, <1>7, <1>8, <1>9, <1>10 DEF NddNext, Pass

LEMMA RewritingStep == ValidInv /\ [NddNext]_nddVars => Rewriting'
<1> SUFFICES ASSUME ValidInv, [NddNext]_nddVars  PROVE Rewriting'
  OBVIOUS
<1> USE DEF ValidInv
<1>1. ASSUME NEW p \in Pairs, Reboot'[p], StatusReboot'[p] = 2
      PROVE  ChipsOf(p) \subseteq Written'
  <2> SUFFICES ASSUME NEW i \in ChipsOf(p)  PROVE i \in Written'
    OBVIOUS
  <2>1. i \in Chips /\ PairOf(i) = p
    BY PairFacts
  <2>2. CASE Reboot[p] /\ StatusReboot[p] = 2
    <3>1. i \in Written
      BY <2>2 DEF Rewriting
    <3>2. ~(RebootOff /\ PairOf(i) = at)
      BY <2>1, <2>2 DEF RebootOff
    <3>3. ~(PollSilence /\ i = at)
      BY <2>1, <2>2 DEF PollSilence
    <3> QED  BY <3>1, <3>2, <3>3, StaysWritten
  <2>3. CASE ~(Reboot[p] /\ StatusReboot[p] = 2)
    <3>1. Reinit /\ p = PairOf(at) /\ at # 2 * p
      <4>1. ~Decide
        <5> SUFFICES ASSUME Decide  PROVE FALSE
          OBVIOUS
        <5>1. StatusReboot'[p] = IF NeedsReboot(p) THEN 0 ELSE StatusReboot[p]
          BY DEF Decide
        <5>2. Reboot'[p] <=> Reboot[p] \/ NeedsReboot(p)
          BY Zenon DEF Decide
        <5> QED  BY <1>1, <2>3, <5>1, <5>2
      <4>2. ~RebootOff /\ ~RebootDone
        BY <1>1, <2>3 DEF RebootOff, RebootDone, NddType
      <4>3. Reinit
        BY <1>1, <2>3, <4>1, <4>2
           DEF NddNext, Pass, nddVars, CyclicModules, StartBlock, RebootOn, RebootWait,
               StartValid, PollAnswer, PollSilence, PollSkip, Tick, ChipLost, ChipBack, fsm
      <4>4. ~UNCHANGED fsm
        BY <1>1, <2>3 DEF fsm
      <4>5. at # 2 * PairOf(at) /\ StatusReboot' = [StatusReboot EXCEPT ![PairOf(at)] = 2]
            /\ UNCHANGED Reboot
        BY <4>3, <4>4, Zenon DEF Reinit
      <4>6. p = PairOf(at)
        BY <1>1, <2>3, <4>5 DEF NddType
      <4> QED  BY <4>3, <4>5, <4>6
    <3>2. at \in Chips /\ Written \cup {at} \subseteq Written'
      BY <3>1, InitWrites DEF Reinit, NddType
    <3>3. at \in ChipsOf(p)
      BY <3>1, <3>2, ChipFacts
    <3>4. i = at \/ i < at
      BY <3>1, <3>3 DEF ChipsOf, Pairs
    <3>5. i < at => i \in Written
      BY <3>1 DEF Reinit, Rewriting
    <3> QED  BY <3>2, <3>4, <3>5
  <2> QED  BY <2>2, <2>3
<1>2. ASSUME pc' = "reinit"
      PROVE  /\ Reboot'[PairOf(at')] /\ StatusReboot'[PairOf(at')] = 1
             /\ \A i \in ChipsOf(PairOf(at')) : i < at' => i \in Written'
  <2>1. CASE RebootOn
    <3>1. at \in Pairs /\ Reboot[at] /\ StatusReboot[at] = 1 /\ at' = 2 * at /\ UNCHANGED fsm
      BY <2>1 DEF RebootOn, Goto, NddType
    <3>2. PairOf(at') = at
      BY <3>1, PairFacts DEF ChipsOf
    <3>3. \A i \in ChipsOf(at) : ~(i < 2 * at)
      BY <3>1 DEF ChipsOf, Pairs
    <3> QED  BY <3>1, <3>2, <3>3 DEF fsm
  <2>2. CASE Reinit
    <3> DEFINE p == PairOf(at)
    <3>1. at \in Chips /\ p \in Pairs /\ Written \cup {at} \subseteq Written'
      BY <2>2, InitWrites, ChipFacts DEF Reinit, NddType
    <3>2. at = 2 * p /\ at' = at + 1 /\ UNCHANGED fsm
      BY <1>2, <2>2, Zenon DEF Reinit, Goto
    <3>3. PairOf(at') = p
      BY <3>1, <3>2, PairFacts DEF ChipsOf
    <3>4. \A i \in ChipsOf(p) : i < at' => i = at
      BY <3>1, <3>2 DEF ChipsOf, Pairs
    <3>5. Reboot[p] /\ StatusReboot[p] = 1
      BY <2>2 DEF Reinit, Rewriting
    <3> HIDE DEF p
    <3> QED  BY <3>1, <3>2, <3>3, <3>4, <3>5 DEF fsm
  <2>3. CASE Tick \/ (\E i \in Chips : ChipLost(i) \/ ChipBack(i)) \/ UNCHANGED nddVars
    <3>1. UNCHANGED <<Reboot, StatusReboot, pc, at>>
      BY <2>3 DEF Tick, ChipLost, ChipBack, nddVars, fsm
    <3>2. PairOf(at) \in Pairs
      BY <1>2, <3>1, ChipFacts DEF NddType
    <3>3. ~RebootOff /\ ~PollSilence
      BY <1>2, <3>1 DEF RebootOff, PollSilence
    <3>4. Written \subseteq Written'
      BY <3>3, StaysWritten
    <3> QED  BY <1>2, <3>1, <3>4 DEF Rewriting
  <2>4. ~(\/ CyclicModules \/ StartBlock \/ Decide \/ RebootOff \/ RebootDone \/ RebootWait
          \/ StartValid \/ PollAnswer \/ PollSilence \/ PollSkip)
    BY <1>2 DEF CyclicModules, StartBlock, Decide, RebootOff, RebootDone, RebootWait,
                StartValid, PollAnswer, PollSilence, PollSkip, NextPair, NextChip, Goto
  <2> QED  BY <2>1, <2>2, <2>3, <2>4 DEF NddNext, Pass
<1> QED  BY <1>1, <1>2 DEF Rewriting

LEMMA MarksStep == ValidInv /\ [NddNext]_nddVars => Marks'
<1> SUFFICES ASSUME ValidInv, [NddNext]_nddVars, NEW i \in Chips
             PROVE  /\ valid'[i] => i \in Written' /\ ~InitReq'[i]
                    /\ Reboot'[PairOf(i)] => ~valid'[i] /\ ~InitReq'[i]
  BY DEF Marks
<1> USE DEF ValidInv
<1>1. PairOf(i) \in Pairs /\ i \in ChipsOf(PairOf(i))
  BY ChipFacts
<1>2. /\ valid[i] => i \in Written /\ ~InitReq[i]
      /\ Reboot[PairOf(i)] => ~valid[i] /\ ~InitReq[i]
  BY DEF Marks
<1>3. ASSUME valid'[i] => valid[i], InitReq'[i] => InitReq[i],
             Reboot'[PairOf(i)] => Reboot[PairOf(i)], ~(RebootOff /\ PairOf(i) = at),
             ~(PollSilence /\ i = at)
      PROVE  /\ valid'[i] => i \in Written' /\ ~InitReq'[i]
             /\ Reboot'[PairOf(i)] => ~valid'[i] /\ ~InitReq'[i]
  BY <1>2, <1>3, StaysWritten
<1>4. CASE Decide
  <2>1. valid' = valid /\ (i \in Written => i \in Written')
    BY <1>4, StaysWritten DEF Decide, RebootOff, PollSilence
  <2>2. NeedsReboot(PairOf(i)) => InitReq[i]
    BY <1>1 DEF NeedsReboot
  <2>3. InitReq'[i] => InitReq[i] /\ ~NeedsReboot(PairOf(i))
    BY <1>4, Zenon DEF Decide
  <2>4. Reboot'[PairOf(i)] => Reboot[PairOf(i)] \/ NeedsReboot(PairOf(i))
    BY <1>1, <1>4, Zenon DEF Decide
  <2> QED  BY <1>2, <2>1, <2>2, <2>3, <2>4
<1>5. CASE RebootOff
  <2>1. UNCHANGED <<valid, InitReq, Reboot>>
    BY <1>5 DEF RebootOff, driver
  <2>2. PairOf(i) = at => Reboot[PairOf(i)]
    BY <1>5 DEF RebootOff
  <2>3. PairOf(i) # at /\ i \in Written => i \in Written'
    BY <1>5, StaysWritten DEF RebootOff, PollSilence
  <2> QED  BY <1>2, <2>1, <2>2, <2>3
<1>6. CASE RebootDone
  <2>1. CASE PairOf(i) = at
    <3>1. Reboot[at] /\ StatusReboot[at] = 2 /\ InitReq' = InitReq /\ ~Reboot'[at]
      BY <1>1, <1>6, <2>1 DEF RebootDone, NddType
    <3>2. i \in Written
      BY <1>1, <2>1, <3>1 DEF Rewriting
    <3>3. i \in Written'
      BY <1>6, <3>2, StaysWritten DEF RebootDone, RebootOff, PollSilence
    <3> QED  BY <1>2, <2>1, <3>1, <3>3
  <2>2. CASE PairOf(i) # at
    <3>1. valid'[i] => valid[i]
      BY <1>6, <2>2, Zenon DEF RebootDone
    <3>2. InitReq' = InitReq /\ (Reboot'[PairOf(i)] => Reboot[PairOf(i)])
      BY <1>1, <1>6, <2>2 DEF RebootDone, NddType
    <3> QED  BY <1>3, <1>6, <2>2, <3>1, <3>2 DEF RebootDone, PollSilence
  <2> QED  BY <2>1, <2>2
<1>7. CASE StartValid
  <2>1. UNCHANGED <<InitReq, Reboot>> /\ ~RebootOff /\ ~PollSilence
    BY <1>7 DEF StartValid, fsm, RebootOff, PollSilence
  <2>2. CASE stStartValid
    <3>1. valid'[i] => valid[i]
      BY <1>7, <2>2, Zenon DEF StartValid
    <3> QED  BY <1>3, <2>1, <3>1
  <2>3. CASE ~stStartValid
    <3>1. i \in Written /\ ~InitReq[i] /\ ~Reboot[PairOf(i)]
      BY <1>1, <1>7, <2>3 DEF StartValid, Starting
    <3> QED  BY <2>1, <3>1, StaysWritten
  <2> QED  BY <2>2, <2>3
<1>8. CASE PollAnswer
  <2>1. at \in Chips /\ UNCHANGED <<InitReq, Reboot>>
    BY <1>8 DEF PollAnswer, NddType, fsm
  <2>2. PICK hot \in {FALSE, (at \in HOT)} : valid' = [valid EXCEPT ![at] = @ /\ ~hot]
    BY <1>8, Zenon DEF PollAnswer
  <2>3. valid'[i] => valid[i]
    BY <2>1, <2>2, Zenon DEF NddType
  <2> QED  BY <1>3, <1>8, <2>1, <2>3 DEF PollAnswer, RebootOff, PollSilence
<1>9. CASE PollSilence
  <2>1. at \in Chips /\ Reboot' = Reboot
    BY <1>9 DEF PollSilence, NddType, fsm
  <2>2. CASE i = at
    <3>1. ~valid'[i]
      BY <1>9, <2>1, <2>2 DEF PollSilence, NddType
    <3>2. ~Reboot[PairOf(i)]
      BY <1>1, <1>9, <2>2 DEF PollSilence, Begun
    <3> QED  BY <2>1, <3>1, <3>2
  <2>3. CASE i # at
    <3>1. valid'[i] = valid[i] /\ InitReq'[i] = InitReq[i]
      BY <1>9, <2>1, <2>3 DEF PollSilence, NddType
    <3> QED  BY <1>3, <1>9, <2>1, <2>3, <3>1 DEF PollSilence, RebootOff
  <2> QED  BY <2>2, <2>3
<1>10. CASE \/ CyclicModules \/ StartBlock \/ RebootOn \/ Reinit \/ RebootWait \/ PollSkip \/ Tick
            \/ (\E j \in Chips : ChipLost(j) \/ ChipBack(j)) \/ UNCHANGED nddVars
  <2>1. UNCHANGED <<valid, InitReq, Reboot>>
    BY <1>10 DEF CyclicModules, StartBlock, RebootOn, Reinit, RebootWait, PollSkip, Tick,
                 ChipLost, ChipBack, nddVars, driver, fsm
  <2> QED  BY <1>3, <1>5, <1>9, <2>1
<1> QED
  BY <1>4, <1>5, <1>6, <1>7, <1>8, <1>9, <1>10 DEF NddNext, Pass

LEMMA StartingStep == ValidInv /\ [NddNext]_nddVars => Starting'
<1> SUFFICES ASSUME ValidInv, [NddNext]_nddVars, ~stStartValid'  PROVE Starting'
  BY DEF Starting
<1> USE DEF ValidInv
<1>1. ~stStartValid
  BY DEF NddNext, Pass, nddVars, CyclicModules, StartBlock, Decide, RebootOff, RebootOn, Reinit,
         RebootDone, RebootWait, StartValid, PollAnswer, PollSilence, PollSkip, Tick, ChipLost,
         ChipBack, start
<1>2. /\ \A i \in Chips : ~Link[i] /\ ~InitReq[i]
      /\ \A p \in Pairs : ~Reboot[p]
      /\ pc \in {"loop", "init", "decide", "reboot", "valid"}
      /\ pc = "loop" => ~stStartBlock
      /\ pc = "init" => \A i \in Chips : i < at => i \in Written
      /\ pc \in {"decide", "reboot", "valid"} => Chips \subseteq Written
  BY <1>1 DEF Starting
<1>3. /\ ~RebootOff /\ ~RebootOn /\ ~Reinit /\ ~RebootDone
      /\ ~StartValid /\ ~PollAnswer /\ ~PollSilence /\ ~PollSkip
  BY <1>2 DEF RebootOff, RebootOn, Reinit, RebootDone, StartValid, PollAnswer, PollSilence,
              PollSkip, NddType
<1>4. Written \subseteq Written'
  BY <1>3, StaysWritten
<1>5. \A p \in Pairs : ~NeedsReboot(p)
  BY <1>2, PairFacts DEF NeedsReboot
<1>6. /\ \A i \in Chips : ~Link'[i] /\ ~InitReq'[i]
      /\ \A p \in Pairs : ~Reboot'[p]
  <2>1. CASE Decide
    BY <1>2, <1>5, <2>1, Zenon DEF Decide
  <2>2. CASE ~Decide
    <3>1. UNCHANGED <<Link, InitReq, Reboot>>
      BY <1>3, <2>2 DEF NddNext, Pass, nddVars, CyclicModules, StartBlock, RebootWait, Tick,
                        ChipLost, ChipBack, driver, fsm
    <3> QED  BY <1>2, <3>1
  <2> QED  BY <2>1, <2>2
<1>7. /\ pc' \in {"loop", "init", "decide", "reboot", "valid"}
      /\ pc' = "loop" => ~stStartBlock'
      /\ pc' = "init" => \A i \in Chips : i < at' => i \in Written'
      /\ pc' \in {"decide", "reboot", "valid"} => Chips \subseteq Written'
  <2>1. CASE CyclicModules
    BY <1>2, <2>1 DEF CyclicModules, Goto, Chips
  <2>2. CASE StartBlock
    <3>1. at \in Chips /\ Written \cup {at} \subseteq Written'
      BY <2>2, InitWrites DEF StartBlock, NddType
    <3>2. ASSUME NEW i \in Chips, i <= at  PROVE i \in Written'
      <4>1. i = at \/ i < at
        BY <3>1, <3>2 DEF Chips
      <4> QED  BY <1>2, <2>2, <3>1, <4>1 DEF StartBlock
    <3>3. CASE at + 1 \in Chips
      <4>1. pc' = "init" /\ at' = at + 1
        BY <2>2, <3>3 DEF StartBlock, Goto
      <4> QED  BY <3>1, <3>2, <4>1 DEF Chips
    <3>4. CASE at + 1 \notin Chips
      <4>1. pc' = "decide"
        BY <2>2, <3>4 DEF StartBlock, Goto
      <4>2. \A i \in Chips : i <= at
        BY <3>1, <3>4, NddAssumption DEF Chips
      <4> QED  BY <3>2, <4>1, <4>2
    <3> QED  BY <3>3, <3>4
  <2>3. CASE Decide \/ RebootWait
    BY <1>2, <1>4, <2>3 DEF Decide, RebootWait, NextPair, Goto
  <2>4. CASE Tick \/ (\E i \in Chips : ChipLost(i) \/ ChipBack(i)) \/ UNCHANGED nddVars
    <3>1. UNCHANGED <<pc, at, stStartBlock>>
      BY <2>4 DEF Tick, ChipLost, ChipBack, nddVars, start
    <3> QED  BY <1>2, <1>4, <3>1
  <2> QED  BY <1>3, <2>1, <2>2, <2>3, <2>4 DEF NddNext, Pass
<1> QED  BY <1>6, <1>7 DEF Starting

\* Inputs marked valid come from chips whose registers are written, or did not answer
\* when they were, at the end of every pass: through losses, returns and restarts.
THEOREM ValidAreWritten == NddSpec => []ValidWhenConfigured
<1>1. NddInit => ValidInv
  <2> SUFFICES ASSUME NddInit  PROVE ValidInv
    OBVIOUS
  <2>1. Begun /\ Rewriting
    BY DEF NddInit, Begun, Rewriting
  <2>2. Marks /\ Starting
    BY ChipFacts DEF NddInit, Marks, Starting
  <2> QED  BY <2>1, <2>2, NddTypeInit DEF ValidInv
<1>2. ValidInv /\ [NddNext]_nddVars => ValidInv'
  BY NddTypeStep, BegunStep, RewritingStep, MarksStep, StartingStep DEF ValidInv
<1>3. ValidInv => ValidWhenConfigured
  BY DEF ValidInv, Marks, Written, ValidWhenConfigured
<1> QED  BY <1>1, <1>2, <1>3, PTL DEF NddSpec
=============================================================================
