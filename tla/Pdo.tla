-------------------------------- MODULE Pdo ----------------------------------
(***************************************************************************)
(* The process data of a CANopen node (src/CanOpenMain/pdo.c, sync.c): the *)
(* transmit PDOs, which main.c copies from the object dictionary into a    *)
(* cache every 30 ms and which leave after every n-th SYNC of a bus or on  *)
(* request; the receive PDO, which is written to the variables it is       *)
(* mapped to; and the configuration tool, which changes transmission types *)
(* and mappings by SDO while all this goes on.  sendPDOevent and           *)
(* sendPDOrequest are not called by any board.                             *)
(*                                                                         *)
(* A mapped variable has one byte.  The board's driver gives all its       *)
(* inputs new values in one pass, the byte names the variable and the pass.*)
(* The receive PDO has been set up before; the tool switches it off and on.*)
(* "Sent" is handed to f_can_send, whose answer nobody looks at.           *)
(***************************************************************************)
EXTENDS Nmt, Naturals, Sequences, FiniteSets

CONSTANTS
  BUSES,                      \* the CAN lines
  MAX_COUNT_OF_PDO_TRANSMIT,  \* 31
  CACHED,                     \* the PDOs main.c copies into the cache, 30
  INPUTS,                     \* variables that transmit PDOs may map
  MAPPED,                     \* how many variables the tool maps to a PDO
  OUTPUTS,                    \* number of variables the receive PDO is mapped to
  FRAMES, LENGTHS,            \* contents and lengths of the received PDOs
  TYPES,                      \* transmission types the tool sets up
  LONGEST,                    \* bound of the history: no type asks for more SYNCs
  CHANGES                     \* bound: passes of the driver, SDO writes, NMT commands

TRANS_SYNC_MIN == 1
TRANS_SYNC_MAX == 240
TRANS_RTR_SYNC == 252
TRANS_RTR      == 253

OnSync(t)    == t \in TRANS_SYNC_MIN .. TRANS_SYNC_MAX
OnRequest(t) == t \in {TRANS_RTR_SYNC, TRANS_RTR}

Pdos   == 0 .. MAX_COUNT_OF_PDO_TRANSMIT - 1
Places == 1 .. 8                                  \* MAX_COUNT_OF_PDO_MAPPING

\* The mappings the tool sets up: every variable at most once.
Mappings == {map \in UNION {[1 .. n -> INPUTS] : n \in MAPPED} :
               \A i, j \in DOMAIN map : map[i] = map[j] => i = j}

ASSUME PdoAssumption ==
  /\ MAX_COUNT_OF_PDO_TRANSMIT \in Nat /\ CACHED \in 0 .. MAX_COUNT_OF_PDO_TRANSMIT
  /\ IsFiniteSet(BUSES) /\ IsFiniteSet(INPUTS) /\ IsFiniteSet(FRAMES)
  /\ MAPPED \subseteq Places
  /\ OUTPUTS \in Places /\ LENGTHS \subseteq 0 .. 8
  /\ TYPES \subseteq 0 .. 255 /\ CHANGES \in Nat
  /\ LONGEST \in Nat /\ \A t \in TYPES : OnSync(t) => t <= LONGEST

VARIABLES
  type,        \* sub-index 2 of 1800h + p
  mapCount,    \* sub-index 0 of 1A00h + p
  object,      \* sub-indices 1, 2, ... of 1A00h + p
  pass,        \* number of the driver's last pass
  cache,       \* Cash_Pdo_Data: the bytes of every PDO
  count_sync,  \* SYNCs counted for every bus and PDO
  rxCount,     \* sub-index 0 of 1600h; the other sub-indices name the OUTPUTS
  outputs,     \* the variables the receive PDO is mapped to
  buffer,      \* process_var.data, which received PDOs pass through
  sent,        \* the PDOs the last step sent: <<bus, PDO, bytes>>
  since,       \* history: SYNCs handled since the PDO left on the bus, and since its type was set
  changes      \* bound of CHANGES

config   == <<type, mapCount, object>>
transmit == <<cache, count_sync, since>>
receive  == <<rxCount, outputs, buffer>>
vars     == <<nodeState, config, pass, transmit, receive, sent, changes>>

Unset == "0000"
NeverReceived == <<"0", 0>>

Init ==
  /\ nodeState = "Pre_operational"
  /\ type = [p \in Pdos |-> 0]
  /\ mapCount = [p \in Pdos |-> 0]
  /\ object = [p \in Pdos |-> [i \in Places |-> Unset]]
  /\ pass = 0
  /\ cache = [p \in Pdos |-> <<>>]
  /\ count_sync = [b \in BUSES |-> [p \in Pdos |-> 0]]
  /\ rxCount = OUTPUTS
  /\ outputs = [i \in 1 .. OUTPUTS |-> NeverReceived]
  /\ buffer = [i \in Places |-> NeverReceived]
  /\ sent = {}
  /\ since = [b \in BUSES |-> [p \in Pdos |-> [left |-> 0, set |-> 0]]]
  /\ changes = 0

Change      == changes < CHANGES /\ changes' = changes + 1
Operational == nodeState = "Operational"

-----------------------------------------------------------------------------
(* The board and the main loop.                                            *)

Driver ==
  /\ Change /\ pass' = pass + 1 /\ sent' = {}
  /\ UNCHANGED <<nodeState, config, transmit, receive>>

\* The bytes of the first n mapped variables.
Bytes(p, n) == [i \in 1 .. n |-> <<object[p][i], pass>>]

Bug_Build(p) ==   \* the number of mapped objects is looked at after the first
  IF object[p][1] = Unset THEN cache[p]
  ELSE Bytes(p, IF mapCount[p] = 0 THEN 1 ELSE mapCount[p])

\* buildPDO_CASH leaves the cache alone when nothing is mapped, or when a sub-index
\* names no object.
Build(p) ==
  LET n == mapCount[p]
  IN  IF n = 0 \/ (\E i \in 1 .. n : object[p][i] = Unset) THEN cache[p] ELSE Bytes(p, n)

Bug_Refreshed == 1 .. CACHED - 1   \* the first PDO is skipped
Refreshed == 0 .. CACHED - 1

Refresh ==
  /\ Operational
  /\ cache' = [p \in Pdos |-> IF p \in Refreshed THEN Build(p) ELSE cache[p]]
  /\ sent' = {}
  /\ UNCHANGED <<nodeState, config, pass, count_sync, since, receive, changes>>

-----------------------------------------------------------------------------
(* What the node does with the frames it receives.                         *)

Due(b, p) == OnSync(type[p]) /\ count_sync[b][p] + 1 >= type[p]

Bug_Counted(b) ==   \* one counter for all buses
  [c \in BUSES |-> [p \in Pdos |->
    IF ~OnSync(type[p]) THEN count_sync[c][p] ELSE IF Due(b, p) THEN 0 ELSE count_sync[b][p] + 1]]

\* count_sync of bus b after a SYNC on it.
Counted(b) ==
  [count_sync EXCEPT ![b] =
    [p \in Pdos |-> IF ~OnSync(type[p]) THEN @[p] ELSE IF Due(b, p) THEN 0 ELSE @[p] + 1]]

OneMore(n) == IF n < LONGEST THEN n + 1 ELSE n
Recorded(b, pdos) ==
  [since EXCEPT ![b] =
    [p \in Pdos |-> IF p \in pdos THEN [left |-> 0, set |-> 0]
                    ELSE [left |-> OneMore(@[p].left), set |-> OneMore(@[p].set)]]]

HandleSync(b) ==
  /\ Operational
  /\ sent' = {<<b, p, cache[p]>> : p \in {q \in Pdos : Due(b, q)}}
  /\ count_sync' = Counted(b)
  /\ since' = Recorded(b, {s[2] : s \in sent'})
  /\ UNCHANGED <<nodeState, config, pass, cache, receive, changes>>

HandleRequest(b, p) ==
  /\ Operational /\ OnRequest(type[p])
  /\ sent' = {<<b, p, cache[p]>>}
  /\ UNCHANGED <<nodeState, config, pass, transmit, receive, changes>>

\* The mapped variables are looked up one by one until rxCount of them are written;
\* the first is written before rxCount is looked at.
ToWrite == 1 .. (IF rxCount = 0 THEN 1 ELSE rxCount)

HandleData(frame, len) ==
  /\ Operational
  /\ buffer' = [i \in Places |-> IF i <= len THEN <<frame, i>> ELSE buffer[i]]
  /\ outputs' = [i \in 1 .. OUTPUTS |-> IF i \in ToWrite THEN buffer'[i] ELSE outputs[i]]
  /\ sent' = {}
  /\ UNCHANGED <<nodeState, config, pass, transmit, rxCount, changes>>

SetType(p, t) ==
  /\ Serving /\ Change /\ type[p] # t
  /\ type' = [type EXCEPT ![p] = t]
  /\ since' = [b \in BUSES |-> [since[b] EXCEPT ![p].set = 0]]
  /\ sent' = {}
  /\ UNCHANGED <<nodeState, mapCount, object, pass, cache, count_sync, receive>>

\* The tool follows the order of the CANopen profile: number to zero, objects, number.
SwitchOff(p) ==
  /\ Serving /\ Change /\ mapCount[p] # 0
  /\ mapCount' = [mapCount EXCEPT ![p] = 0] /\ sent' = {}
  /\ UNCHANGED <<nodeState, type, object, pass, transmit, receive>>

SetObject(p, i, v) ==
  /\ Serving /\ Change /\ mapCount[p] = 0 /\ object[p][i] # v
  /\ object' = [object EXCEPT ![p][i] = v] /\ sent' = {}
  /\ UNCHANGED <<nodeState, type, mapCount, pass, transmit, receive>>

SwitchOn(p, map) ==
  /\ Serving /\ Change /\ mapCount[p] = 0
  /\ \A i \in DOMAIN map : object[p][i] = map[i]
  /\ mapCount' = [mapCount EXCEPT ![p] = Len(map)] /\ sent' = {}
  /\ UNCHANGED <<nodeState, type, object, pass, transmit, receive>>

SwitchReceive(n) ==
  /\ Serving /\ Change /\ rxCount # n
  /\ rxCount' = n /\ sent' = {}
  /\ UNCHANGED <<nodeState, config, pass, transmit, outputs, buffer>>

Command(state) ==
  /\ Change /\ nodeState # state
  /\ nodeState' = state /\ sent' = {}
  /\ UNCHANGED <<config, pass, transmit, receive>>

Next ==
  \/ Driver \/ Refresh
  \/ \E b \in BUSES : HandleSync(b) \/ \E p \in Pdos : HandleRequest(b, p)
  \/ \E frame \in FRAMES, len \in LENGTHS : HandleData(frame, len)
  \/ \E p \in Pdos : \/ SwitchOff(p)
                     \/ \E t \in TYPES : SetType(p, t)
                     \/ \E map \in Mappings : \/ SwitchOn(p, map)
                                              \/ \E i \in DOMAIN map : SetObject(p, i, map[i])
  \/ \E n \in {0, OUTPUTS} : SwitchReceive(n)
  \/ \E state \in {"Pre_operational", "Operational", "Stopped"} : Command(state)

\* The main loop comes to the cache again and again.
Spec == Init /\ [][Next]_vars /\ WF_vars(Refresh)

-----------------------------------------------------------------------------
(* Properties.                                                             *)

\* What the cache holds, and thus what leaves, is a mapping the tool has completed, with
\* the values of one pass of the driver, however mappings change: buildPDO_CASH takes
\* nothing from a mapping that is being written.
CacheWhole ==
  \A p \in Pdos : cache[p] # <<>> =>
    \E map \in Mappings, n \in 0 .. pass : cache[p] = [i \in DOMAIN map |-> <<map[i], n>>]

\* Whatever happens on the other buses, to the type and to the state of the node: a PDO
\* of type n leaves on a bus after n SYNCs handled there, never earlier after it last
\* left and never later after its type was set (count_sync of proceedSYNC).
EveryNth ==
  [][\A b \in BUSES, p \in Pdos : HandleSync(b) /\ OnSync(type[p]) =>
       LET leaves == \E s \in sent' : s[1] = b /\ s[2] = p
       IN  /\ leaves => since[b][p].left + 1 >= type[p]
           /\ since[b][p].set + 1 >= type[p] => leaves]_vars

\* While the node is operational the cache catches up with every change of variables and
\* mappings, so that no PDO tells the same old values for ever (main.c).
CacheFollows ==
  \A p \in 0 .. CACHED - 1 :
    []<>(~Operational \/ mapCount[p] = 0 \/ cache[p] = Bytes(p, mapCount[p]))
=============================================================================
