--------------------------- MODULE CanOpen_proofs ---------------------------
(***************************************************************************)
(* Proofs about the CANopen node.                                          *)
(*                                                                         *)
(* The process data (Pdo): for every number of buses, PDOs, variables,     *)
(* mappings and transmission types, and for histories without bound.       *)
(*                                                                         *)
(* The server of service data (SdoServer): for every dictionary, all sizes *)
(* of objects, every number of lines and upsets, and any loss of frames.   *)
(***************************************************************************)
EXTENDS Pdo, SdoServer, SequenceTheorems, TLAPS

-----------------------------------------------------------------------------
(* The cache and the mappings.                                             *)

\* The mapping PDO p has while it is switched on.
Mapped(p) == [i \in 1 .. mapCount[p] |-> object[p][i]]

\* What the tool writes one sub-index after the other is a mapping whenever the number of
\* mapped objects is not zero.
MappingInv ==
  /\ object \in [Pdos -> [Places -> INPUTS \cup {Unset}]]
  /\ mapCount \in [Pdos -> 0 .. 8]
  /\ pass \in Nat
  /\ \A p \in Pdos : mapCount[p] # 0 => Mapped(p) \in Mappings

LEMMA MappingLength ==
  ASSUME NEW map \in Mappings
  PROVE  \E n \in MAPPED : n \in Places /\ map \in [1 .. n -> INPUTS] /\ Len(map) = n
<1>1. PICK n \in MAPPED : map \in [1 .. n -> INPUTS]
  BY DEF Mappings
<1>2. n \in Places
  BY PdoAssumption
<1>3. Len(map) = n
  <2>1. map \in Seq(INPUTS) /\ DOMAIN map = 1 .. n /\ n \in Nat
    BY <1>1, <1>2 DEF Places
  <2> QED  BY <2>1
<1> QED  BY <1>1, <1>2, <1>3

LEMMA MappingInit == Init => MappingInv
BY DEF Init, MappingInv, Places

LEMMA MappingStep == MappingInv /\ [Next]_vars => MappingInv'
<1> SUFFICES ASSUME MappingInv, [Next]_vars  PROVE MappingInv'
  OBVIOUS
<1>1. CASE UNCHANGED <<object, mapCount, pass>>
  BY <1>1 DEF MappingInv, Mapped
<1>2. CASE Driver
  BY <1>2 DEF Driver, MappingInv, Mapped, config
<1>3. ASSUME NEW p \in Pdos, SwitchOff(p)  PROVE MappingInv'
  <2>1. mapCount' = [mapCount EXCEPT ![p] = 0] /\ UNCHANGED <<object, pass>>
    BY <1>3 DEF SwitchOff
  <2> QED  BY <2>1 DEF MappingInv, Mapped
<1>4. ASSUME NEW p \in Pdos, NEW map \in Mappings, NEW i \in DOMAIN map, SetObject(p, i, map[i])
      PROVE  MappingInv'
  <2>1. i \in Places /\ map[i] \in INPUTS
    BY MappingLength DEF Places
  <2>2. /\ mapCount[p] = 0
        /\ object' = [object EXCEPT ![p][i] = map[i]] /\ UNCHANGED <<mapCount, pass>>
    BY <1>4 DEF SetObject
  <2>3. object' \in [Pdos -> [Places -> INPUTS \cup {Unset}]]
    BY <2>1, <2>2 DEF MappingInv
  <2>4. \A q \in Pdos : mapCount'[q] # 0 => Mapped(q)' = Mapped(q)
    BY <2>2 DEF MappingInv, Mapped
  <2> QED  BY <2>2, <2>3, <2>4 DEF MappingInv
<1>5. ASSUME NEW p \in Pdos, NEW map \in Mappings, SwitchOn(p, map)  PROVE MappingInv'
  <2>1. PICK n \in MAPPED : n \in Places /\ map \in [1 .. n -> INPUTS] /\ Len(map) = n
    BY MappingLength
  <2>2. /\ mapCount' = [mapCount EXCEPT ![p] = n] /\ UNCHANGED <<object, pass>>
        /\ \A i \in 1 .. n : object[p][i] = map[i]
    BY <1>5, <2>1 DEF SwitchOn
  <2>3. mapCount' \in [Pdos -> 0 .. 8]
    BY <2>1, <2>2 DEF MappingInv, Places
  <2>4. Mapped(p)' = [i \in 1 .. n |-> object[p][i]]
    BY <2>2 DEF MappingInv, Mapped
  <2>5. Mapped(p)' = map
    BY <2>1, <2>2, <2>4
  <2>6. \A q \in Pdos \ {p} : mapCount'[q] = mapCount[q] /\ Mapped(q)' = Mapped(q)
    BY <2>2 DEF MappingInv, Mapped
  <2> QED  BY <2>2, <2>3, <2>5, <2>6 DEF MappingInv
<1>6. (UNCHANGED <<object, mapCount, pass>>)
      \/ Driver
      \/ \E p \in Pdos : \/ SwitchOff(p)
                         \/ \E map \in Mappings : \/ SwitchOn(p, map)
                                                  \/ \E i \in DOMAIN map : SetObject(p, i, map[i])
  BY DEF Next, vars, config, Refresh, HandleSync, HandleRequest, HandleData, SetType,
         SwitchReceive, Command
<1> QED  BY <1>1, <1>2, <1>3, <1>4, <1>5, <1>6

\* What one PDO has in the cache when the driver has passed n times.
Whole(bytes, n) ==
  bytes # <<>> =>
    \E map \in Mappings, m \in 0 .. n : bytes = [i \in DOMAIN map |-> <<map[i], m>>]

LEMMA BuildWhole ==
  ASSUME MappingInv, CacheWhole, NEW p \in Pdos
  PROVE  Whole(Build(p), pass)
<1>1. CASE mapCount[p] = 0 \/ \E i \in 1 .. mapCount[p] : object[p][i] = Unset
  BY <1>1 DEF Build, CacheWhole, Whole
<1>2. CASE ~(mapCount[p] = 0 \/ \E i \in 1 .. mapCount[p] : object[p][i] = Unset)
  <2>1. Build(p) = [i \in 1 .. mapCount[p] |-> <<object[p][i], pass>>]
    BY <1>2 DEF Build, Bytes
  <2>2. Mapped(p) \in Mappings /\ DOMAIN Mapped(p) = 1 .. mapCount[p]
    BY <1>2 DEF MappingInv, Mapped
  <2>3. Build(p) = [i \in DOMAIN Mapped(p) |-> <<Mapped(p)[i], pass>>]
    BY <2>1, <2>2 DEF Mapped
  <2>4. pass \in 0 .. pass
    BY DEF MappingInv
  <2> QED  BY <2>2, <2>3, <2>4 DEF Whole
<1> QED  BY <1>1, <1>2

LEMMA CacheInit == Init => CacheWhole
BY DEF Init, CacheWhole

LEMMA CacheStep == MappingInv /\ CacheWhole /\ [Next]_vars => CacheWhole'
<1> SUFFICES ASSUME MappingInv, CacheWhole, [Next]_vars  PROVE CacheWhole'
  OBVIOUS
<1>1. CASE UNCHANGED <<cache, pass>>
  BY <1>1 DEF CacheWhole
<1>2. CASE Driver
  <2>1. cache' = cache /\ pass' = pass + 1
    BY <1>2 DEF Driver, transmit
  <2>2. 0 .. pass \subseteq 0 .. pass'
    BY <2>1 DEF MappingInv
  <2> QED  BY <2>1, <2>2 DEF CacheWhole
<1>3. CASE Refresh
  <2>1. /\ cache' = [p \in Pdos |-> IF p \in Refreshed THEN Build(p) ELSE cache[p]]
        /\ pass' = pass
    BY <1>3 DEF Refresh
  <2>2. \A p \in Pdos : Whole(cache[p], pass)
    BY DEF CacheWhole, Whole
  <2>3. \A p \in Pdos : Whole(cache'[p], pass)
    BY <2>1, <2>2, BuildWhole
  <2> QED  BY <2>1, <2>3 DEF CacheWhole, Whole
<1>4. (UNCHANGED <<cache, pass>>) \/ Driver \/ Refresh
  BY DEF Next, vars, config, transmit, HandleSync, HandleRequest, HandleData, SetType,
         SwitchOff, SetObject, SwitchOn, SwitchReceive, Command
<1> QED  BY <1>1, <1>2, <1>3, <1>4

\* What buildPDO_CASH leaves in the cache is always a completed mapping with the values
\* of one pass of the driver, for every number of PDOs, variables and mappings.
THEOREM WholeCache == Spec => []CacheWhole
<1>1. Init => MappingInv /\ CacheWhole
  BY MappingInit, CacheInit
<1>2. MappingInv /\ CacheWhole /\ [Next]_vars => (MappingInv /\ CacheWhole)'
  BY MappingStep, CacheStep
<1> QED  BY <1>1, <1>2, PTL DEF Spec

-----------------------------------------------------------------------------
(* The counters of the SYNCs and their history.                            *)

Histories == [BUSES -> [Pdos -> [left : 0 .. LONGEST, set : 0 .. LONGEST]]]

\* A counter has seen every SYNC since the type was set, and none before the PDO left.
CountInv(count, t, h) ==
  /\ OnSync(t) => h.set <= count
  /\ h.left = LONGEST \/ count <= h.left

SyncInv ==
  /\ type \in [Pdos -> TYPES \cup {0}]
  /\ count_sync \in [BUSES -> [Pdos -> Nat]]
  /\ since \in Histories
  /\ \A b \in BUSES, p \in Pdos : CountInv(count_sync[b][p], type[p], since[b][p])

LEMMA SyncInit == Init => SyncInv
BY PdoAssumption DEF Init, SyncInv, Histories, CountInv

\* The SYNC of one bus, for one PDO: its counter, its history, and whether it leaves.
LEMMA OneSync ==
  ASSUME NEW t \in TYPES \cup {0}, NEW count \in Nat,
         NEW h \in [left : 0 .. LONGEST, set : 0 .. LONGEST], CountInv(count, t, h),
         NEW due \in BOOLEAN, due <=> OnSync(t) /\ count + 1 >= t
  PROVE  LET n == IF ~OnSync(t) THEN count ELSE IF due THEN 0 ELSE count + 1
             g == IF due THEN [left |-> 0, set |-> 0]
                  ELSE [left |-> OneMore(h.left), set |-> OneMore(h.set)]
         IN  /\ n \in Nat /\ g \in [left : 0 .. LONGEST, set : 0 .. LONGEST]
             /\ CountInv(n, t, g)
             /\ due => h.left + 1 >= t
             /\ OnSync(t) /\ h.set + 1 >= t => due
<1>1. t \in Nat /\ LONGEST \in Nat /\ (OnSync(t) => t <= LONGEST)
  BY PdoAssumption DEF OnSync, TRANS_SYNC_MIN, TRANS_SYNC_MAX
<1>2. h.left \in 0 .. LONGEST /\ h.set \in 0 .. LONGEST
  OBVIOUS
<1>3. /\ OneMore(h.left) \in 0 .. LONGEST /\ OneMore(h.set) \in 0 .. LONGEST
      /\ OneMore(h.left) = LONGEST \/ OneMore(h.left) = h.left + 1
      /\ OneMore(h.set) <= h.set + 1
      /\ h.left = LONGEST => OneMore(h.left) = LONGEST
      /\ h.left <= OneMore(h.left)
  BY <1>1, <1>2 DEF OneMore
<1>4. (OnSync(t) => h.set <= count) /\ (h.left = LONGEST \/ count <= h.left)
  BY DEF CountInv
<1>5. CASE due
  BY <1>1, <1>2, <1>4, <1>5 DEF CountInv
<1>6. CASE ~due
  BY <1>1, <1>2, <1>3, <1>4, <1>6 DEF CountInv
<1> QED  BY <1>5, <1>6

\* What a SYNC does to every bus and PDO.
LEMMA SyncParts ==
  ASSUME SyncInv, NEW b \in BUSES, HandleSync(b)
  PROVE  /\ \A p \in Pdos : (\E s \in sent' : s[1] = b /\ s[2] = p) <=> Due(b, p)
         /\ count_sync' = Counted(b)
         /\ since' = Recorded(b, {p \in Pdos : Due(b, p)})
         /\ type' = type
<1>1. sent' = {<<b, p, cache[p]>> : p \in {q \in Pdos : Due(b, q)}}
  BY DEF HandleSync
<1>2. ASSUME NEW s \in sent'  PROVE s[1] = b /\ s[2] \in Pdos /\ Due(b, s[2])
  <2>1. PICK p \in {q \in Pdos : Due(b, q)} : s = <<b, p, cache[p]>>
    BY <1>1
  <2> QED  BY <2>1
<1>3. ASSUME NEW p \in Pdos, Due(b, p)  PROVE \E s \in sent' : s[1] = b /\ s[2] = p
  <2>1. p \in {q \in Pdos : Due(b, q)}
    BY <1>3
  <2>2. <<b, p, cache[p]>> \in sent'
    BY <1>1, <2>1
  <2> QED  BY <2>2
<1>4. {s[2] : s \in sent'} = {p \in Pdos : Due(b, p)}
  BY <1>2, <1>3
<1>5. /\ count_sync' = Counted(b) /\ type' = type
      /\ since' = Recorded(b, {s[2] : s \in sent'})
  BY DEF HandleSync, config
<1> QED  BY <1>2, <1>3, <1>4, <1>5

LEMMA SyncOfPdo ==
  ASSUME SyncInv, NEW b \in BUSES, HandleSync(b), NEW p \in Pdos
  PROVE  /\ count_sync'[b][p] \in Nat
         /\ since'[b][p] \in [left : 0 .. LONGEST, set : 0 .. LONGEST]
         /\ CountInv(count_sync'[b][p], type[p], since'[b][p])
         /\ Due(b, p) => since[b][p].left + 1 >= type[p]
         /\ OnSync(type[p]) /\ since[b][p].set + 1 >= type[p] => Due(b, p)
<1> DEFINE count == count_sync[b][p]  h == since[b][p]  t == type[p]
           due == OnSync(t) /\ count + 1 >= t
<1>1. /\ t \in TYPES \cup {0} /\ count \in Nat
      /\ h \in [left : 0 .. LONGEST, set : 0 .. LONGEST] /\ CountInv(count, t, h)
  BY DEF SyncInv, Histories
<1>2. due \in BOOLEAN /\ (Due(b, p) <=> due)
  BY DEF Due
<1>3. count_sync'[b][p] = IF ~OnSync(t) THEN count ELSE IF due THEN 0 ELSE count + 1
  <2>1. count_sync' = Counted(b)
    BY SyncParts
  <2>2. count_sync'[b][p] = IF ~OnSync(t) THEN count ELSE IF Due(b, p) THEN 0 ELSE count + 1
    BY <2>1 DEF Counted, SyncInv
  <2> HIDE DEF due, count, t
  <2> QED  BY <1>2, <2>2
<1>4. since'[b][p] = IF due THEN [left |-> 0, set |-> 0]
                     ELSE [left |-> OneMore(h.left), set |-> OneMore(h.set)]
  <2>1. since' = Recorded(b, {q \in Pdos : Due(b, q)})
    BY SyncParts
  <2>2. since'[b] = [q \in Pdos |->
          IF q \in {r \in Pdos : Due(b, r)} THEN [left |-> 0, set |-> 0]
          ELSE [left |-> OneMore(since[b][q].left), set |-> OneMore(since[b][q].set)]]
    BY <2>1 DEF Recorded, SyncInv, Histories
  <2>3. since'[b][p] = IF p \in {r \in Pdos : Due(b, r)} THEN [left |-> 0, set |-> 0]
                       ELSE [left |-> OneMore(since[b][p].left), set |-> OneMore(since[b][p].set)]
    BY <2>2, Zenon
  <2>4. since'[b][p] = IF Due(b, p) THEN [left |-> 0, set |-> 0]
                       ELSE [left |-> OneMore(h.left), set |-> OneMore(h.set)]
    BY <2>3
  <2> HIDE DEF due, h
  <2> QED  BY <1>2, <2>4
<1> HIDE DEF count, h, t, due
<1>5. LET n == IF ~OnSync(t) THEN count ELSE IF due THEN 0 ELSE count + 1
          g == IF due THEN [left |-> 0, set |-> 0]
               ELSE [left |-> OneMore(h.left), set |-> OneMore(h.set)]
      IN  /\ n \in Nat /\ g \in [left : 0 .. LONGEST, set : 0 .. LONGEST]
          /\ CountInv(n, t, g)
          /\ due => h.left + 1 >= t
          /\ OnSync(t) /\ h.set + 1 >= t => due
  <2>1. due <=> OnSync(t) /\ count + 1 >= t
    BY DEF due
  <2> QED  BY <1>1, <1>2, <2>1, OneSync
<1>6. /\ count_sync'[b][p] \in Nat
      /\ since'[b][p] \in [left : 0 .. LONGEST, set : 0 .. LONGEST]
      /\ CountInv(count_sync'[b][p], t, since'[b][p])
      /\ Due(b, p) => h.left + 1 >= t
      /\ OnSync(t) /\ h.set + 1 >= t => Due(b, p)
  BY <1>2, <1>3, <1>4, <1>5
<1> QED  BY <1>6 DEF h, t

LEMMA SyncStep == SyncInv /\ [Next]_vars => SyncInv'
<1> SUFFICES ASSUME SyncInv, [Next]_vars  PROVE SyncInv'
  OBVIOUS
<1>1. CASE UNCHANGED <<type, count_sync, since>>
  BY <1>1 DEF SyncInv
<1>2. ASSUME NEW b \in BUSES, HandleSync(b)  PROVE SyncInv'
  <2>1. \A c \in BUSES \ {b} : count_sync'[c] = count_sync[c] /\ since'[c] = since[c]
    BY <1>2, SyncParts DEF Counted, Recorded, SyncInv, Histories
  <2>2. /\ count_sync' = [count_sync EXCEPT ![b] = count_sync'[b]]
        /\ since' = [since EXCEPT ![b] = since'[b]]
        /\ count_sync'[b] = [p \in Pdos |-> count_sync'[b][p]]
        /\ since'[b] = [p \in Pdos |-> since'[b][p]]
    <3>1. count_sync' = Counted(b) /\ since' = Recorded(b, {p \in Pdos : Due(b, p)})
      BY <1>2, SyncParts
    <3>2. count_sync \in [BUSES -> [Pdos -> Nat]] /\ since \in Histories
      BY DEF SyncInv
    <3>3. /\ count_sync' = [count_sync EXCEPT ![b] = count_sync'[b]]
          /\ count_sync'[b] = [p \in Pdos |-> count_sync'[b][p]]
      BY <3>1, <3>2 DEF Counted
    <3>4. /\ since' = [since EXCEPT ![b] = since'[b]]
          /\ since'[b] = [p \in Pdos |-> since'[b][p]]
      BY <3>1, <3>2 DEF Recorded, Histories
    <3> QED  BY <3>3, <3>4
  <2>3. count_sync'[b] \in [Pdos -> Nat]
    BY <1>2, <2>2, SyncOfPdo
  <2>4. since'[b] \in [Pdos -> [left : 0 .. LONGEST, set : 0 .. LONGEST]]
    BY <1>2, <2>2, SyncOfPdo
  <2>5. \A c \in BUSES, p \in Pdos : CountInv(count_sync'[c][p], type[p], since'[c][p])
    BY <1>2, <2>1, SyncOfPdo DEF SyncInv
  <2>6. type' = type
    BY <1>2, SyncParts
  <2>7. count_sync' \in [BUSES -> [Pdos -> Nat]]
    BY <2>2, <2>3 DEF SyncInv
  <2>8. since' \in Histories
    BY <2>2, <2>4 DEF SyncInv, Histories
  <2> QED  BY <2>5, <2>6, <2>7, <2>8 DEF SyncInv
<1>3. ASSUME NEW p \in Pdos, NEW t \in TYPES, SetType(p, t)  PROVE SyncInv'
  <2>1. /\ type' = [type EXCEPT ![p] = t] /\ count_sync' = count_sync
        /\ since' = [b \in BUSES |-> [since[b] EXCEPT ![p].set = 0]]
    BY <1>3 DEF SetType
  <2>2. type' \in [Pdos -> TYPES \cup {0}]
    BY <2>1 DEF SyncInv
  <2>3. since' \in Histories
    <3>1. ASSUME NEW b \in BUSES
          PROVE  [since[b] EXCEPT ![p].set = 0] \in [Pdos -> [left : 0 .. LONGEST, set : 0 .. LONGEST]]
      <4>1. since[b] \in [Pdos -> [left : 0 .. LONGEST, set : 0 .. LONGEST]]
        BY DEF SyncInv, Histories
      <4>2. [since[b][p] EXCEPT !.set = 0] \in [left : 0 .. LONGEST, set : 0 .. LONGEST]
        BY <4>1, PdoAssumption
      <4>3. [since[b] EXCEPT ![p].set = 0] = [since[b] EXCEPT ![p] = [since[b][p] EXCEPT !.set = 0]]
        OBVIOUS
      <4> QED  BY <4>1, <4>2, <4>3
    <3> QED  BY <2>1, <3>1 DEF Histories
  <2>4. ASSUME NEW b \in BUSES, NEW q \in Pdos
        PROVE  CountInv(count_sync'[b][q], type'[q], since'[b][q])
    <3>1. CountInv(count_sync[b][q], type[q], since[b][q]) /\ count_sync[b][q] \in Nat
      BY DEF SyncInv
    <3>2. CASE q = p
      <4>1. since'[b][q].set = 0 /\ since'[b][q].left = since[b][q].left
        BY <2>1, <3>2 DEF SyncInv, Histories
      <4> QED  BY <2>1, <3>1, <4>1 DEF CountInv
    <3>3. CASE q # p
      <4>1. type'[q] = type[q] /\ since'[b][q] = since[b][q]
        BY <2>1, <3>3 DEF SyncInv, Histories
      <4> QED  BY <2>1, <3>1, <4>1
    <3> QED  BY <3>2, <3>3
  <2> QED  BY <2>1, <2>2, <2>3, <2>4 DEF SyncInv
<1>4. (UNCHANGED <<type, count_sync, since>>)
      \/ (\E b \in BUSES : HandleSync(b))
      \/ \E p \in Pdos, t \in TYPES : SetType(p, t)
  BY DEF Next, vars, config, transmit, Driver, Refresh, HandleRequest, HandleData,
         SwitchOff, SetObject, SwitchOn, SwitchReceive, Command
<1> QED  BY <1>1, <1>2, <1>3, <1>4

\* count_sync of proceedSYNC keeps every transmission type on every bus: a PDO of type n
\* leaves after n SYNCs, not earlier and not later, for every set of buses and types.
THEOREM EveryNthSync == Spec => EveryNth
<1>1. SyncInv /\ [Next]_vars =>
        [\A b \in BUSES, p \in Pdos : HandleSync(b) /\ OnSync(type[p]) =>
           LET leaves == \E s \in sent' : s[1] = b /\ s[2] = p
           IN  /\ leaves => since[b][p].left + 1 >= type[p]
               /\ since[b][p].set + 1 >= type[p] => leaves]_vars
  BY SyncParts, SyncOfPdo
<1> QED  BY <1>1, SyncInit, SyncStep, PTL DEF Spec, EveryNth

-----------------------------------------------------------------------------
(* The SDO server and its client, for every number of lines, objects and   *)
(* transfers, every length of object, segment and piece, and any number of *)
(* upsets.                                                                 *)

Carried == {Zero} \cup ((0 .. TRANSFERS) \X Indices \X Nat)

Line == [own : BOOLEAN, index : Indices, count : Nat, offset : 0 .. 255,
         data : [Slots -> Carried]]

SdoRequest ==
  [t : {"idu"}, obj : Indices]
  \cup [t : {"uds"}, toggle : {0, 1}]
  \cup [t : {"idd"}, obj : Indices, size : Nat, e : BOOLEAN, bytes : Seq(Carried)]
  \cup [t : {"dds"}, toggle : {0, 1}, last : BOOLEAN, bytes : Seq(Carried)]
Request ==
  SdoRequest \cup [t : {"abort"}] \cup [t : {"nmt"}, cs : {"start", "stop", "pre", "reset"}]

Response ==
  [t : {"idu"}, obj : Indices, size : Nat, bytes : Seq(Carried)]
  \cup [t : {"uds"}, toggle : {0, 1}, bytes : Seq(Carried), last : BOOLEAN]
  \cup [t : {"idd"}, obj : Indices]
  \cup [t : {"dds"}, toggle : {0, 1}]
  \cup [t : {"abort"}, obj : Indices]

Client ==
  [st : {"idle", "initiated", "segments", "done", "refused", "failed"}, n : 0 .. TRANSFERS,
   up : BOOLEAN, obj : Indices, len : Nat, how : {"whole", "expedited", "pieces"},
   toggle : {0, 1}, pos : Nat, got : Seq(Carried)]

ServerType ==
  /\ transfers \in [Lines -> Line]
  /\ od \in [Objects -> Seq(Carried)]
  /\ \A o \in Objects : Len(od[o]) = Size(o)
  /\ rx \in Seq(Request) /\ tx \in Seq(Response)

\* A download has a length one of the objects could have, and segments left to send.
ClientType ==
  /\ client \in Client
  /\ client.st # "idle" /\ ~client.up =>
       /\ client.len \in 1 .. LARGE /\ client.pos <= client.len
       /\ client.how = "expedited" => client.len <= EXPEDITED
  /\ client.st = "initiated" => client.pos = 0 /\ client.got = <<>>
  /\ client.st = "segments" /\ ~client.up => client.how # "expedited" /\ client.pos < client.len

\* Only line 0 is ever on use: a request takes the line on use, or the first free one.
OnLineZero == \A l \in Lines \ {0} : ~transfers[l].own

SdoTypeInv == ServerType /\ ClientType /\ OnLineZero

-----------------------------------------------------------------------------
(* A client that waits for the answer.                                     *)

Asking == client.st \in {"initiated", "segments"}

\* The request the client waits to be answered.
Current == IF client.st = "initiated" THEN InitialFrame(client) ELSE NextFrame(client)

\* The numbers of bytes of the download that line 0 holds: all of them if it was lost.
Downloaded ==
  {k \in Nat :
     \/ transfers[0].index = NoObject
     \/ /\ transfers[0].index = client.obj /\ transfers[0].offset = k
        /\ \A i \in 1 .. k : transfers[0].data[i - 1] = <<client.n, client.obj, i>>}

\* The numbers of bytes of the object that have left line 0, which holds it and of which
\* the client has those it has got; any number if segments are served from a line on use.
Uploaded ==
  {k \in Nat :
     /\ client.obj \in Objects
     /\ client.st = "segments" => client.len = Size(client.obj)
     /\ ~transfers[0].own =>
          /\ k <= Size(client.obj)
          /\ transfers[0].count = Size(client.obj) /\ transfers[0].offset = k
          /\ \A i \in 1 .. Size(client.obj) : transfers[0].data[i - 1] = od[client.obj][i]
          /\ client.st = "segments" =>
               \A i \in 1 .. Len(client.got) : client.got[i] = od[client.obj][i]}

Stored ==
  /\ client.obj \in Objects
  /\ od[client.obj] = Data(client.n, client.obj, Size(client.obj))

\* The request on its way will be handled as the client means it.
RequestFits ==
  client.st = "segments" =>
    IF client.up THEN Len(client.got) \in Uploaded ELSE client.pos \in Downloaded

\* The bytes the client will have sent when the segment it has sent is acknowledged.
Sent == client.pos + Len(NextFrame(client).bytes)

\* The answers that say the truth about the server.
TrueAnswers ==
  {m \in Response :
     \/ m.t = "abort"
     \/ /\ client.st = "initiated" /\ client.up /\ m.t = "idu"
        /\ 0 \in Uploaded /\ m.size = Size(client.obj)
        /\ m.bytes # <<>> => m.bytes = od[client.obj]
     \/ /\ client.st = "initiated" /\ ~client.up /\ m.t = "idd"
        /\ IF client.how = "expedited" THEN Stored ELSE 0 \in Downloaded
     \/ /\ client.st = "segments" /\ client.up /\ m.t = "uds"
        /\ Len(client.got) + Len(m.bytes) \in Uploaded
        /\ ~transfers[0].own =>
             \A i \in 1 .. Len(m.bytes) : m.bytes[i] = od[client.obj][Len(client.got) + i]
     \/ /\ client.st = "segments" /\ ~client.up /\ m.t = "dds"
        /\ IF Sent = client.len THEN Stored ELSE Sent \in Downloaded}

\* One request or one answer is on its way, for the transfer the client is at.
InStep ==
  /\ \A i \in 1 .. Len(rx) : rx[i] \in SdoRequest =>
       Asking /\ rx[i] = Current /\ RequestFits /\ tx = <<>>
  /\ \A i, j \in 1 .. Len(rx) : rx[i] \in SdoRequest /\ rx[j] \in SdoRequest => i = j
  /\ tx # <<>> => Asking /\ Len(tx) = 1 /\ tx[1] \in TrueAnswers

\* The values in the dictionary, and the one whose download was acknowledged.
Values ==
  /\ \A o \in Objects : \E n \in 0 .. TRANSFERS : od[o] = Data(n, o, Size(o))
  /\ client.st = "done" /\ ~client.up => Stored

SdoInv == SdoTypeInv /\ (early \/ (InStep /\ Values))

-----------------------------------------------------------------------------
(* Facts about the constants and the helpers.                              *)

LEMMA SdoConstants ==
  /\ 0 \in Lines /\ 1 \in Lines /\ Lines \subseteq Nat
  /\ \A o \in Indices : Size(o) \in 1 .. LARGE
  /\ LARGE \in 1 .. SDO_MAX_DOMAIN_LEN /\ SDO_MAX_DOMAIN_LEN \in 1 .. 255
  /\ SMALL \in 1 .. EXPEDITED /\ EXPEDITED < LARGE /\ EXPEDITED \in Nat
  /\ SEGMENT \in Nat \ {0} /\ PIECE \in Nat \ {0}
  /\ TRANSFERS \in Nat
  /\ \A i \in 1 .. LARGE : i - 1 \in Slots
BY SdoAssumption DEF SdoAssumption, Lines, Slots, Size, Indices

LEMMA FunctionIsSeq ==
  ASSUME NEW S, NEW n \in Nat, NEW f \in [1 .. n -> S]
  PROVE  f \in Seq(S) /\ Len(f) = n
<1>1. f \in Seq(S) /\ DOMAIN f = 1 .. n
  OBVIOUS
<1> QED  BY <1>1

LEMMA SameSeq ==
  ASSUME NEW S, NEW s \in Seq(S), NEW t \in Seq(S), NEW n, Len(s) = n, Len(t) = n,
         \A i \in 1 .. n : s[i] = t[i]
  PROVE  s = t
BY SeqEqual

LEMMA ModType ==
  ASSUME NEW n \in Nat
  PROVE  n % 256 \in 0 .. 255
OBVIOUS

LEMMA ModSmall ==
  ASSUME NEW n \in 0 .. 255
  PROVE  n % 256 = n /\ (n + 256) % 256 = n
OBVIOUS

LEMMA MinOf ==
  ASSUME NEW S \in SUBSET Nat, NEW x \in S, \A y \in S : x <= y
  PROVE  Min(S) = x
<1>1. \E z \in S : \A y \in S : z <= y
  OBVIOUS
<1>2. Min(S) \in S /\ \A y \in S : Min(S) <= y
  BY <1>1 DEF Min
<1>3. Min(S) <= x /\ x <= Min(S) /\ Min(S) \in Nat
  BY <1>2
<1> QED  BY <1>3

LEMMA MinOfTwo ==
  ASSUME NEW a \in Nat, NEW b \in Nat
  PROVE  Min({a, b}) = IF a <= b THEN a ELSE b
<1>1. CASE a <= b
  <2>1. \A y \in {a, b} : a <= y
    BY <1>1
  <2> QED  BY <1>1, <2>1, MinOf
<1>2. CASE ~(a <= b)
  <2>1. \A y \in {a, b} : b <= y
    BY <1>2
  <2> QED  BY <1>2, <2>1, MinOf
<1> QED  BY <1>1, <1>2

\* Every request is served from line 0, and the object of an upload is copied into line 0
\* unless that line is on use.
LEMMA LineZero ==
  ASSUME OnLineZero
  PROVE  /\ OnUse = IF transfers[0].own THEN {0} ELSE {}
         /\ 1 \in Unused /\ LineOnUseElseFree = 0
         /\ Min(Unused) = IF transfers[0].own THEN 1 ELSE 0
<1> USE SdoConstants
<1>1. OnUse = IF transfers[0].own THEN {0} ELSE {}
  BY DEF OnUse, OnLineZero
<1>2. 1 \in Unused /\ Unused \subseteq Nat
  BY <1>1 DEF Unused
<1>3. CASE transfers[0].own
  <2>1. OnUse = {0} /\ \A y \in Unused : 1 <= y
    BY <1>1, <1>3 DEF Unused
  <2>2. Min(OnUse) = 0
    BY <2>1, MinOf
  <2>3. Min(Unused) = 1
    BY <1>2, <2>1, MinOf
  <2> QED  BY <1>1, <1>2, <1>3, <2>1, <2>2, <2>3 DEF LineOnUseElseFree
<1>4. CASE ~transfers[0].own
  <2>1. OnUse = {} /\ 0 \in Unused /\ \A y \in Unused : 0 <= y
    BY <1>1, <1>2, <1>4 DEF Unused
  <2>2. Min(Unused) = 0
    BY <1>2, <2>1, MinOf
  <2> QED  BY <1>1, <1>2, <1>4, <2>1, <2>2 DEF LineOnUseElseFree
<1> QED  BY <1>3, <1>4

LEMMA LineFields ==
  ASSUME NEW line \in Line
  PROVE  /\ line.own \in BOOLEAN /\ line.index \in Indices /\ line.count \in Nat
         /\ line.offset \in 0 .. 255 /\ line.data \in [Slots -> Carried]
BY DEF Line

LEMMA LineMade ==
  ASSUME NEW own \in BOOLEAN, NEW index \in Indices, NEW count \in Nat,
         NEW offset \in 0 .. 255, NEW data \in [Slots -> Carried]
  PROVE  [own |-> own, index |-> index, count |-> count, offset |-> offset, data |-> data]
           \in Line
BY DEF Line

LEMMA FreeLineType == FreeLine \in Line /\ ~FreeLine.own /\ FreeLine.index = NoObject
BY DEF FreeLine, Line, Carried, Indices

LEMMA DataType ==
  ASSUME NEW n \in 0 .. TRANSFERS, NEW o \in Indices, NEW len \in Nat
  PROVE  /\ Data(n, o, len) \in Seq(Carried) /\ Len(Data(n, o, len)) = len
         /\ \A i \in 1 .. len : Data(n, o, len)[i] = <<n, o, i>>
<1>1. \A i \in 1 .. len : <<n, o, i>> \in Carried
  BY DEF Carried
<1>2. Data(n, o, len) \in [1 .. len -> Carried]
  BY <1>1, Zenon DEF Data
<1>3. Data(n, o, len) \in Seq(Carried) /\ Len(Data(n, o, len)) = len
  BY <1>2, FunctionIsSeq
<1> QED  BY <1>3 DEF Data

LEMMA FilledType ==
  ASSUME NEW data \in [Slots -> Carried], NEW from \in Nat, NEW bytes \in Seq(Carried)
  PROVE  /\ Filled(data, from, bytes) \in [Slots -> Carried]
         /\ \A i \in Slots : Filled(data, from, bytes)[i] =
              IF i - from \in 0 .. Len(bytes) - 1 THEN bytes[i - from + 1] ELSE data[i]
<1>1. \A i \in Slots : i - from \in 0 .. Len(bytes) - 1 => bytes[i - from + 1] \in Carried
  <2> SUFFICES ASSUME NEW i \in Slots, i - from \in 0 .. Len(bytes) - 1
               PROVE  bytes[i - from + 1] \in Carried
    OBVIOUS
  <2>1. i - from + 1 \in 1 .. Len(bytes)
    BY SdoConstants DEF Slots
  <2> QED  BY <2>1
<1> QED  BY <1>1 DEF Filled

LEMMA FilledOld ==
  ASSUME NEW data \in [Slots -> Carried], NEW from \in Nat, NEW bytes \in Seq(Carried),
         NEW j \in Slots, j < from
  PROVE  Filled(data, from, bytes)[j] = data[j]
<1>1. Filled(data, from, bytes)[j] =
        IF j - from \in 0 .. Len(bytes) - 1 THEN bytes[j - from + 1] ELSE data[j]
  BY FilledType
<1>2. j \in Nat
  BY SdoConstants DEF Slots
<1> QED  BY <1>1, <1>2

LEMMA FilledNew ==
  ASSUME NEW data \in [Slots -> Carried], NEW from \in Nat, NEW bytes \in Seq(Carried),
         NEW j \in Slots, NEW i \in 1 .. Len(bytes), j = from + i - 1
  PROVE  Filled(data, from, bytes)[j] = bytes[i]
<1>1. Filled(data, from, bytes)[j] =
        IF j - from \in 0 .. Len(bytes) - 1 THEN bytes[j - from + 1] ELSE data[j]
  BY FilledType
<1>2. j \in Nat /\ Len(bytes) \in Nat
  BY SdoConstants DEF Slots
<1>3. j - from \in 0 .. Len(bytes) - 1 /\ j - from + 1 = i
  BY <1>2
<1> QED  BY <1>1, <1>3

LEMMA ReadType ==
  ASSUME NEW line \in Line, NEW k \in Nat
  PROVE  /\ Read(line, k) \in Seq(Carried) /\ Len(Read(line, k)) = k
         /\ \A i \in 1 .. k : line.offset + i - 1 \in Slots =>
              Read(line, k)[i] = line.data[line.offset + i - 1]
<1>1. Zero \in Carried
  BY DEF Carried
<1>2. \A i \in 1 .. k : (IF line.offset + i - 1 \in Slots THEN line.data[line.offset + i - 1]
                         ELSE Zero) \in Carried
  BY <1>1 DEF Line
<1>3. Read(line, k) \in [1 .. k -> Carried]
  BY <1>2, Zenon DEF Read
<1>4. Read(line, k) \in Seq(Carried) /\ Len(Read(line, k)) = k
  BY <1>3, FunctionIsSeq
<1> QED  BY <1>4 DEF Read

LEMMA RequestKinds ==
  ASSUME NEW m \in Request
  PROVE  /\ m.t = "idu" => m.obj \in Indices
         /\ m.t = "uds" => m.toggle \in {0, 1}
         /\ m.t = "idd" => /\ m.obj \in Indices /\ m.size \in Nat /\ m.e \in BOOLEAN
                           /\ m.bytes \in Seq(Carried)
         /\ m.t = "dds" => /\ m.toggle \in {0, 1} /\ m.last \in BOOLEAN
                           /\ m.bytes \in Seq(Carried)
         /\ m \in SdoRequest <=> m.t \in {"idu", "uds", "idd", "dds"}
BY DEF Request, SdoRequest

LEMMA ResponseKinds ==
  ASSUME NEW m \in Response
  PROVE  /\ m.t = "idu" => m.obj \in Indices /\ m.size \in Nat /\ m.bytes \in Seq(Carried)
         /\ m.t = "uds" => m.toggle \in {0, 1} /\ m.last \in BOOLEAN /\ m.bytes \in Seq(Carried)
         /\ m.t = "idd" => m.obj \in Indices
         /\ m.t = "dds" => m.toggle \in {0, 1}
         /\ m.t \in {"idu", "uds", "idd", "dds", "abort"}
BY DEF Response

\* What the client sends for a download.
LEMMA DownloadFrame ==
  ASSUME NEW c \in Client, ~c.up, c.len \in 1 .. LARGE, c.pos < c.len
  PROVE  \E k \in 1 .. c.len - c.pos :
           /\ NextFrame(c).t = "dds" /\ NextFrame(c).toggle = c.toggle
           /\ NextFrame(c).last <=> c.pos + k = c.len
           /\ NextFrame(c).bytes \in Seq(Carried) /\ Len(NextFrame(c).bytes) = k
           /\ \A i \in 1 .. k : NextFrame(c).bytes[i] = <<c.n, c.obj, c.pos + i>>
           /\ NextFrame(c) \in SdoRequest
<1> USE SdoConstants
<1> DEFINE piece == IF c.how = "pieces" THEN PIECE ELSE SEGMENT
           k == Min({c.len - c.pos, piece})
           bytes == SubSeq(Data(c.n, c.obj, c.len), c.pos + 1, c.pos + k)
<1>1. c.len \in Nat /\ c.pos \in Nat /\ c.n \in 0 .. TRANSFERS /\ c.obj \in Indices
      /\ c.toggle \in {0, 1}
  BY DEF Client
<1>2. piece \in Nat /\ piece > 0 /\ c.len - c.pos \in Nat /\ c.len - c.pos > 0
  BY <1>1
<1>3. k \in 1 .. c.len - c.pos
  <2>1. k = IF c.len - c.pos <= piece THEN c.len - c.pos ELSE piece
    BY <1>2, MinOfTwo, Zenon
  <2> HIDE DEF k, piece
  <2> QED  BY <1>2, <2>1
<1> DEFINE last == c.pos + k = c.len
<1>4. NextFrame(c) = [t |-> "dds", toggle |-> c.toggle, last |-> last, bytes |-> bytes]
  BY DEF NextFrame
<1> HIDE DEF piece, k
<1>5. /\ Data(c.n, c.obj, c.len) \in Seq(Carried) /\ Len(Data(c.n, c.obj, c.len)) = c.len
      /\ \A i \in 1 .. c.len : Data(c.n, c.obj, c.len)[i] = <<c.n, c.obj, i>>
  BY <1>1, DataType
<1>6. /\ bytes \in Seq(Carried) /\ Len(bytes) = k
      /\ \A i \in 1 .. k : bytes[i] = <<c.n, c.obj, c.pos + i>>
  <2> DEFINE all == Data(c.n, c.obj, c.len)
  <2>1. \A i \in c.pos + 1 .. c.pos + k : i \in 1 .. c.len
    BY <1>1, <1>3
  <2>2. \A i \in c.pos + 1 .. c.pos + k : all[i] \in Carried
    BY <1>5, <2>1
  <2> HIDE DEF all
  <2>3. /\ SubSeq(all, c.pos + 1, c.pos + k) \in Seq(Carried)
        /\ Len(SubSeq(all, c.pos + 1, c.pos + k)) = k
        /\ \A i \in 1 .. k : SubSeq(all, c.pos + 1, c.pos + k)[i] = all[c.pos + i]
    BY <1>1, <1>3, <2>2, SubSeqProperties
  <2>4. \A i \in 1 .. k : all[c.pos + i] = <<c.n, c.obj, c.pos + i>>
    BY <1>1, <1>3, <1>5 DEF all
  <2> QED  BY <2>3, <2>4 DEF all
<1> HIDE DEF bytes, last
<1>7. NextFrame(c) \in SdoRequest
  <2>1. last \in BOOLEAN
    BY DEF last
  <2> QED  BY <1>1, <1>4, <1>6, <2>1 DEF SdoRequest
<1>8. NextFrame(c).last <=> c.pos + k = c.len
  <2>1. NextFrame(c).last = last
    BY <1>4
  <2> QED  BY <2>1, Zenon DEF last
<1>9. NextFrame(c).t = "dds" /\ NextFrame(c).toggle = c.toggle /\ NextFrame(c).bytes = bytes
  BY <1>4
<1> WITNESS k \in 1 .. c.len - c.pos
<1> QED  BY <1>6, <1>7, <1>8, <1>9

LEMMA UploadFrame ==
  ASSUME NEW c \in Client, c.up
  PROVE  NextFrame(c) = [t |-> "uds", toggle |-> c.toggle] /\ NextFrame(c) \in SdoRequest
BY DEF NextFrame, SdoRequest, Client

LEMMA FirstFrame ==
  ASSUME NEW c \in Client
  PROVE  /\ InitialFrame(c) \in SdoRequest
         /\ c.up => InitialFrame(c) = [t |-> "idu", obj |-> c.obj]
         /\ ~c.up => /\ InitialFrame(c).t = "idd" /\ InitialFrame(c).obj = c.obj
                     /\ InitialFrame(c).size = c.len
                     /\ InitialFrame(c).e <=> c.how = "expedited"
                     /\ c.how = "expedited" => InitialFrame(c).bytes = Data(c.n, c.obj, c.len)
<1>1. CASE c.up
  BY <1>1 DEF InitialFrame, SdoRequest, Client
<1>2. CASE ~c.up
  <2> DEFINE bytes == IF c.how = "expedited" THEN Data(c.n, c.obj, c.len) ELSE <<>>
             e == c.how = "expedited"
  <2>1. InitialFrame(c) = [t |-> "idd", obj |-> c.obj, size |-> c.len, e |-> e,
                           bytes |-> bytes]
    BY <1>2 DEF InitialFrame
  <2>2. bytes \in Seq(Carried)
    BY DataType DEF Client
  <2>3. e \in BOOLEAN
    OBVIOUS
  <2> HIDE DEF bytes, e
  <2>4. c.how = "expedited" => bytes = Data(c.n, c.obj, c.len)
    BY DEF bytes
  <2>5. InitialFrame(c) \in SdoRequest
    BY <2>1, <2>2, <2>3 DEF SdoRequest, Client
  <2>6. InitialFrame(c).e = e
    BY <2>1
  <2>7. InitialFrame(c).e <=> c.how = "expedited"
    BY <2>6, Zenon DEF e
  <2> QED  BY <1>2, <2>1, <2>4, <2>5, <2>7
<1> QED  BY <1>1, <1>2

-----------------------------------------------------------------------------
(* Types.                                                                  *)

\* The request at the head of the ring, and the ring without it.
LEMMA Taken ==
  ASSUME ServerType, rx # <<>>
  PROVE  /\ Head(rx) \in Request /\ Tail(rx) \in Seq(Request)
         /\ Head(rx) = rx[1] /\ Len(rx) \in Nat \ {0} /\ Len(Tail(rx)) = Len(rx) - 1
         /\ \A i \in 1 .. Len(Tail(rx)) : Tail(rx)[i] = rx[i + 1]
BY DEF ServerType

LEMMA ReplyType ==
  ASSUME ServerType, NEW frame \in Response, Reply(frame)
  PROVE  tx' \in Seq(Response) /\ (tx' = tx \/ tx' = Append(tx, frame))
<1>1. tx' = tx \/ tx' = Append(tx, frame)
  BY DEF Reply, Carry
<1>2. tx \in Seq(Response)
  BY DEF ServerType
<1> QED  BY <1>1, <1>2

LEMMA RefuseType ==
  ASSUME ServerType, OnLineZero, NEW l \in Lines, NEW o \in Indices, Refuse(l, o)
  PROVE  transfers' \in [Lines -> Line] /\ tx' \in Seq(Response) /\ od' = od /\ OnLineZero'
<1>1. [t |-> "abort", obj |-> o] \in Response
  BY DEF Response
<1> QED  BY <1>1, ReplyType, FreeLineType DEF Refuse, ServerType, OnLineZero

\* The line an object is copied to.
Copied(line, o, bytes) ==
  [own |-> line.own, index |-> o, count |-> Len(bytes), offset |-> 0,
   data |-> Filled(line.data, 0, bytes)]

LEMMA InitiateUploadEffect ==
  ASSUME ServerType, OnLineZero, InitiateUpload,
         NEW o, o = Head(rx).obj, NEW l, l = IF transfers[0].own THEN 1 ELSE 0
  PROVE  /\ o \in Indices /\ Head(rx).t = "idu" /\ l \in Lines /\ rx # <<>>
         /\ rx' = Tail(rx) /\ rx' \in Seq(Request)
         /\ \/ o \notin Objects /\ Refuse(l, o)
            \/ /\ o \in Objects /\ od' = od
               /\ Copied(transfers[l], o, od[o]) \in Line
               /\ transfers' = [transfers EXCEPT ![l] = Copied(transfers[l], o, od[o])]
               /\ Reply([t |-> "idu", obj |-> o, size |-> Len(od[o]),
                         bytes |-> IF Len(od[o]) <= EXPEDITED THEN od[o] ELSE <<>>])
<1>1. rx # <<>> /\ Head(rx).t = "idu" /\ o \in Indices /\ rx' = Tail(rx)
      /\ rx' \in Seq(Request)
  BY Taken, RequestKinds DEF InitiateUpload, Take
<1>2. l \in Lines /\ l = Min(Unused)
  BY LineZero, SdoConstants
<1>3. CASE o \notin Objects
  <2>1. Refuse(l, o)
    BY <1>2, <1>3 DEF InitiateUpload
  <2> QED  BY <1>1, <1>2, <1>3, <2>1
<1>4. CASE o \in Objects
  <2> DEFINE bytes == od[o]
             line == [transfers[l] EXCEPT !.index = o, !.count = Len(bytes), !.offset = 0,
                                          !.data = Filled(@, 0, bytes)]
             frame == [t |-> "idu", obj |-> o, size |-> Len(bytes),
                       bytes |-> IF Len(bytes) <= EXPEDITED THEN bytes ELSE <<>>]
  <2>1. /\ transfers' = [transfers EXCEPT ![l].index = o, ![l].count = Len(bytes),
                            ![l].offset = 0, ![l].data = Filled(@, 0, bytes)]
        /\ Reply(frame) /\ od' = od
    BY <1>2, <1>4 DEF InitiateUpload
  <2>2. transfers[l] \in Line /\ bytes \in Seq(Carried)
    BY <1>2, <1>4 DEF ServerType
  <2>3. Filled(transfers[l].data, 0, bytes) \in [Slots -> Carried]
    BY <2>2, FilledType DEF Line
  <2> HIDE DEF bytes
  <2>4. line \in Line /\ line = Copied(transfers[l], o, bytes)
    <3>1. PICK own, index, count, offset, data : transfers[l] =
            [own |-> own, index |-> index, count |-> count, offset |-> offset, data |-> data]
      BY <2>2 DEF Line
    <3> DEFINE filled == Filled(transfers[l].data, 0, bytes)
               size == Len(bytes)
               old == transfers[l]
    <3>2. line = [old EXCEPT !.index = o, !.count = size, !.offset = 0, !.data = filled]
      OBVIOUS
    <3>3. old = [own |-> own, index |-> index, count |-> count, offset |-> offset, data |-> data]
      BY <3>1
    <3>4. size \in Nat /\ old.own \in BOOLEAN /\ filled \in [Slots -> Carried]
      BY <2>2, <2>3 DEF Line
    <3>5. Copied(transfers[l], o, bytes) =
            [own |-> own, index |-> o, count |-> size, offset |-> 0, data |-> filled]
      BY <3>1 DEF Copied
    <3> HIDE DEF line, filled, size, old
    <3>6. line = [own |-> own, index |-> o, count |-> size, offset |-> 0, data |-> filled]
      BY <3>2, <3>3
    <3>7. line \in Line
      BY <1>1, <3>3, <3>4, <3>6 DEF Line
    <3> QED  BY <3>6, <3>7, <3>5
  <2>5. transfers' = [transfers EXCEPT ![l] = line]
    BY <1>2, <2>1 DEF ServerType
  <2> HIDE DEF line
  <2> QED  BY <1>1, <1>2, <1>4, <2>1, <2>4, <2>5 DEF bytes
<1> QED  BY <1>3, <1>4

LEMMA InitiateUploadType ==
  ASSUME ServerType, OnLineZero, InitiateUpload
  PROVE  ServerType' /\ OnLineZero'
<1>1. PICK o, l : o = Head(rx).obj /\ l = IF transfers[0].own THEN 1 ELSE 0
  OBVIOUS
<1> DEFINE line == Copied(transfers[l], o, od[o])
           frame == [t |-> "idu", obj |-> o, size |-> Len(od[o]),
                     bytes |-> IF Len(od[o]) <= EXPEDITED THEN od[o] ELSE <<>>]
<1>2. /\ o \in Indices /\ l \in Lines /\ rx' \in Seq(Request)
      /\ \/ Refuse(l, o)
         \/ /\ o \in Objects /\ od' = od /\ line \in Line
            /\ transfers' = [transfers EXCEPT ![l] = line] /\ Reply(frame)
  BY <1>1, InitiateUploadEffect
<1>3. line.own = transfers[l].own
  BY DEF Copied
<1>4. o \in Objects => frame \in Response
  BY <1>2 DEF Response, ServerType
<1> HIDE DEF line, frame
<1>5. CASE Refuse(l, o)
  BY <1>2, <1>5, RefuseType DEF ServerType
<1>6. CASE /\ o \in Objects /\ od' = od /\ line \in Line
           /\ transfers' = [transfers EXCEPT ![l] = line] /\ Reply(frame)
  <2>1. transfers' \in [Lines -> Line] /\ OnLineZero'
    BY <1>2, <1>3, <1>6 DEF ServerType, OnLineZero
  <2>2. tx' \in Seq(Response)
    BY <1>4, <1>6, ReplyType
  <2> QED  BY <1>2, <1>6, <2>1, <2>2 DEF ServerType
<1> QED  BY <1>2, <1>5, <1>6

\* What a request does to line 0.
SegmentLeft(line) == (line.count + 256 - line.offset) % 256

LEMMA UploadSegmentEffect ==
  ASSUME ServerType, OnLineZero, UploadSegment,
         NEW left, left = SegmentLeft(transfers[0]),
         NEW k, k = IF left <= SEGMENT THEN left ELSE SEGMENT
  PROVE  /\ left \in 0 .. 255 /\ k \in Nat
         /\ \/ /\ left = 0 /\ NodeIsQuiet
               /\ transfers' = [transfers EXCEPT ![0] = FreeLine]
            \/ /\ left # 0
               /\ transfers' = [transfers EXCEPT ![0] =
                    [own |-> transfers[0].own, index |-> transfers[0].index,
                     count |-> transfers[0].count, offset |-> (transfers[0].offset + k) % 256,
                     data |-> transfers[0].data]]
               /\ Reply([t |-> "uds", toggle |-> Head(rx).toggle,
                         bytes |-> Read(transfers[0], k), last |-> left <= SEGMENT])
<1> USE SdoConstants
<1>1. LineOnUseElseFree = 0
  BY LineZero
<1>2. transfers[0] \in Line
  BY DEF ServerType
<1>3. left \in 0 .. 255 /\ k \in Nat
  BY <1>2 DEF SegmentLeft, Line
<1>4. k = Min({left, SEGMENT})
  BY <1>3, MinOfTwo
<1>5. CASE left = 0
  <2>1. transfers' = [transfers EXCEPT ![0] = FreeLine] /\ NodeIsQuiet
    BY <1>1, <1>5, Zenon DEF UploadSegment, SegmentLeft
  <2> QED  BY <1>3, <1>5, <2>1
<1>6. CASE left # 0
  <2>1. /\ transfers' = [transfers EXCEPT ![0].offset = (@ + k) % 256]
        /\ Reply([t |-> "uds", toggle |-> Head(rx).toggle,
                  bytes |-> Read(transfers[0], k), last |-> left <= SEGMENT])
    BY <1>1, <1>4, <1>6, Zenon DEF UploadSegment, SegmentLeft
  <2>2. PICK own, index, count, offset, data : transfers[0] =
          [own |-> own, index |-> index, count |-> count, offset |-> offset, data |-> data]
    BY <1>2 DEF Line
  <2> DEFINE new == (transfers[0].offset + k) % 256
  <2>3. transfers' = [transfers EXCEPT ![0] = [transfers[0] EXCEPT !.offset = new]]
    BY <2>1
  <2> HIDE DEF new
  <2>4. [transfers[0] EXCEPT !.offset = new] =
          [own |-> own, index |-> index, count |-> count, offset |-> new, data |-> data]
    BY <2>2
  <2>5. transfers' = [transfers EXCEPT ![0] =
          [own |-> transfers[0].own, index |-> transfers[0].index,
           count |-> transfers[0].count, offset |-> new, data |-> transfers[0].data]]
    BY <2>2, <2>3, <2>4
  <2> QED  BY <1>3, <1>6, <2>1, <2>5 DEF new
<1> QED  BY <1>5, <1>6

LEMMA UploadSegmentType ==
  ASSUME ServerType, OnLineZero, UploadSegment
  PROVE  ServerType' /\ OnLineZero'
<1> USE SdoConstants
<1> DEFINE left == SegmentLeft(transfers[0])
           k == IF left <= SEGMENT THEN left ELSE SEGMENT
           line == [own |-> transfers[0].own, index |-> transfers[0].index,
                    count |-> transfers[0].count, offset |-> (transfers[0].offset + k) % 256,
                    data |-> transfers[0].data]
           last == left <= SEGMENT
           frame == [t |-> "uds", toggle |-> Head(rx).toggle,
                     bytes |-> Read(transfers[0], k), last |-> last]
<1>1. /\ left \in 0 .. 255 /\ k \in Nat
      /\ \/ transfers' = [transfers EXCEPT ![0] = FreeLine] /\ NodeIsQuiet
         \/ transfers' = [transfers EXCEPT ![0] = line] /\ Reply(frame)
  BY UploadSegmentEffect
<1>2. Head(rx).toggle \in {0, 1} /\ rx' \in Seq(Request) /\ od' = od
  BY Taken, RequestKinds DEF UploadSegment, Take
<1>3. transfers[0] \in Line
  BY DEF ServerType
<1>4. line \in Line
  <2>1. transfers[0].offset + k \in Nat
    BY <1>1, <1>3 DEF Line
  <2>2. (transfers[0].offset + k) % 256 \in 0 .. 255
    BY <2>1, ModType
  <2> QED  BY <1>3, <2>2 DEF Line
<1>5. frame \in Response
  <2>1. Read(transfers[0], k) \in Seq(Carried)
    BY <1>1, <1>3, ReadType
  <2>2. last \in BOOLEAN
    OBVIOUS
  <2> HIDE DEF last, k
  <2> QED  BY <1>2, <2>1, <2>2 DEF Response
<1> HIDE DEF left, k, line, last, frame
<1>6. CASE transfers' = [transfers EXCEPT ![0] = FreeLine] /\ NodeIsQuiet
  BY <1>2, <1>6, FreeLineType DEF ServerType, OnLineZero, NodeIsQuiet
<1>7. CASE transfers' = [transfers EXCEPT ![0] = line] /\ Reply(frame)
  <2>1. tx' \in Seq(Response)
    BY <1>5, <1>7, ReplyType
  <2> QED  BY <1>2, <1>4, <1>7, <2>1 DEF ServerType, OnLineZero
<1> QED  BY <1>1, <1>6, <1>7

\* The object a whole line is written to.
LEMMA WriteType ==
  ASSUME ServerType, NEW line \in Line, NEW o \in Indices, Accepts(o, line.count),
         SetODentry(o, line)
  PROVE  /\ o \in WRITABLE /\ line.count = SMALL /\ od' \in [Objects -> Seq(Carried)]
         /\ \A q \in Objects : Len(od'[q]) = Size(q)
         /\ od'[o] \in Seq(Carried) /\ Len(od'[o]) = SMALL
         /\ \A i \in 1 .. SMALL : od'[o][i] = line.data[i - 1]
         /\ \A q \in Objects \ {o} : od'[q] = od[q]
<1> USE SdoConstants
<1> DEFINE value == [i \in 1 .. line.count |-> line.data[i - 1]]
<1>1. o \in WRITABLE /\ line.count = SMALL /\ o \in Objects /\ Size(o) = SMALL
  BY DEF Accepts, Size, Objects
<1>2. \A i \in 1 .. SMALL : line.data[i - 1] \in Carried
  BY DEF Line
<1>3. /\ value \in Seq(Carried) /\ Len(value) = SMALL
      /\ \A i \in 1 .. SMALL : value[i] = line.data[i - 1]
  <2>1. value \in [1 .. SMALL -> Carried] /\ SMALL \in Nat
    BY <1>1, <1>2
  <2>2. \A i \in 1 .. SMALL : value[i] = line.data[i - 1]
    BY <1>1
  <2> HIDE DEF value
  <2> QED  BY <2>1, <2>2, FunctionIsSeq
<1>4. od' = [od EXCEPT ![o] = value]
  BY DEF SetODentry
<1> HIDE DEF value
<1>5. od'[o] = value /\ \A q \in Objects \ {o} : od'[q] = od[q]
  BY <1>1, <1>4 DEF ServerType
<1> QED  BY <1>1, <1>3, <1>4, <1>5 DEF ServerType

LEMMA InitiateDownloadEffect ==
  ASSUME ServerType, OnLineZero, InitiateDownload, NEW m, m = Head(rx),
         NEW begun, begun = Begun(transfers[0], m)
  PROVE  /\ m \in Request /\ m.t = "idd" /\ m.obj \in Indices
         /\ begun \in Line /\ begun.index = m.obj /\ begun.count = m.size /\ begun.offset = 0
         /\ m.e => begun.data = Filled(transfers[0].data, 0, m.bytes)
         /\ \/ Refuse(0, m.obj)
            \/ /\ m.e /\ Accepts(m.obj, m.size) /\ SetODentry(m.obj, begun)
               /\ transfers' = [transfers EXCEPT ![0] = FreeLine]
               /\ Reply([t |-> "idd", obj |-> m.obj])
            \/ /\ ~m.e /\ od' = od
               /\ transfers' = [transfers EXCEPT ![0] = begun]
               /\ Reply([t |-> "idd", obj |-> m.obj])
<1>1. LineOnUseElseFree = 0
  BY LineZero
<1>2. transfers[0] \in Line
  BY SdoConstants DEF ServerType
<1>3. /\ m \in Request /\ m.t = "idd" /\ m.obj \in Indices /\ m.size \in Nat
      /\ m.e \in BOOLEAN /\ m.bytes \in Seq(Carried)
  BY Taken, RequestKinds DEF InitiateDownload, Take
<1>4. begun \in Line /\ begun.index = m.obj /\ begun.count = m.size /\ begun.offset = 0
      /\ (m.e => begun.data = Filled(transfers[0].data, 0, m.bytes))
  <2>1. PICK own, index, count, offset, data : transfers[0] =
          [own |-> own, index |-> index, count |-> count, offset |-> offset, data |-> data]
    BY <1>2 DEF Line
  <2> DEFINE filled == Filled(transfers[0].data, 0, m.bytes)
             new == IF m.e THEN filled ELSE data
  <2>2. data \in [Slots -> Carried] /\ filled \in [Slots -> Carried]
    BY <1>2, <1>3, <2>1, FilledType DEF Line
  <2>3. begun = [transfers[0] EXCEPT !.own = TRUE, !.index = m.obj, !.count = m.size,
                                     !.offset = 0, !.data = new]
    BY <2>1 DEF Begun
  <2>4. new \in [Slots -> Carried] /\ (m.e => new = filled)
    BY <2>2
  <2> HIDE DEF new, filled
  <2>5. begun = [own |-> TRUE, index |-> m.obj, count |-> m.size, offset |-> 0, data |-> new]
    BY <2>1, <2>3
  <2>6. begun.index = m.obj /\ begun.count = m.size /\ begun.offset = 0 /\ begun.data = new
    BY <2>5
  <2>7. begun \in Line
    <3>1. m.obj \in Indices /\ m.size \in Nat /\ new \in [Slots -> Carried]
      BY <1>3, <2>4
    <3>2. 0 \in 0 .. 255 /\ TRUE \in BOOLEAN
      OBVIOUS
    <3>3. [own |-> TRUE, index |-> m.obj, count |-> m.size, offset |-> 0, data |-> new] \in Line
      BY <3>1, <3>2, LineMade
    <3> QED  BY <2>5, <3>3
  <2> QED  BY <2>4, <2>6, <2>7 DEF filled
<1>5. CASE m.e /\ ~Accepts(m.obj, m.size)
  <2>1. Refuse(0, m.obj)
    BY <1>1, <1>5, Zenon DEF InitiateDownload
  <2> QED  BY <1>3, <1>4, <2>1
<1>6. CASE m.e /\ Accepts(m.obj, m.size)
  <2>1. /\ SetODentry(m.obj, begun) /\ transfers' = [transfers EXCEPT ![0] = FreeLine]
        /\ Reply([t |-> "idd", obj |-> m.obj])
    BY <1>1, <1>6 DEF InitiateDownload
  <2> QED  BY <1>3, <1>4, <1>6, <2>1
<1>7. CASE ~m.e
  <2>1. /\ od' = od /\ transfers' = [transfers EXCEPT ![0] = begun]
        /\ Reply([t |-> "idd", obj |-> m.obj])
    BY <1>1, <1>7 DEF InitiateDownload
  <2> QED  BY <1>3, <1>4, <1>7, <2>1
<1> QED  BY <1>3, <1>5, <1>6, <1>7

LEMMA InitiateDownloadType ==
  ASSUME ServerType, OnLineZero, InitiateDownload
  PROVE  ServerType' /\ OnLineZero'
<1> USE SdoConstants
<1> DEFINE m == Head(rx)
           begun == Begun(transfers[0], m)
           frame == [t |-> "idd", obj |-> m.obj]
<1>1. /\ m \in Request /\ m.obj \in Indices
      /\ begun \in Line /\ begun.count = m.size
      /\ \/ Refuse(0, m.obj)
         \/ /\ Accepts(m.obj, m.size) /\ SetODentry(m.obj, begun)
            /\ transfers' = [transfers EXCEPT ![0] = FreeLine] /\ Reply(frame)
         \/ od' = od /\ transfers' = [transfers EXCEPT ![0] = begun] /\ Reply(frame)
  BY InitiateDownloadEffect
<1>2. rx' \in Seq(Request)
  BY Taken DEF InitiateDownload, Take
<1>3. frame \in Response
  BY <1>1 DEF Response
<1> HIDE DEF m, begun, frame
<1>4. CASE Refuse(0, m.obj)
  BY <1>1, <1>2, <1>4, RefuseType DEF ServerType
<1>5. CASE /\ Accepts(m.obj, m.size) /\ SetODentry(m.obj, begun)
           /\ transfers' = [transfers EXCEPT ![0] = FreeLine] /\ Reply(frame)
  <2>1. od' \in [Objects -> Seq(Carried)] /\ \A q \in Objects : Len(od'[q]) = Size(q)
    BY <1>1, <1>5, WriteType
  <2>2. tx' \in Seq(Response)
    BY <1>3, <1>5, ReplyType
  <2> QED  BY <1>2, <1>5, <2>1, <2>2, FreeLineType DEF ServerType, OnLineZero
<1>6. CASE od' = od /\ transfers' = [transfers EXCEPT ![0] = begun] /\ Reply(frame)
  <2>1. tx' \in Seq(Response)
    BY <1>3, <1>6, ReplyType
  <2> QED  BY <1>1, <1>2, <1>6, <2>1 DEF ServerType, OnLineZero
<1> QED  BY <1>1, <1>4, <1>5, <1>6

\* A line after a segment of a download, and the same as a complete value.
Grown(line, bytes) ==
  [own |-> line.own, index |-> line.index, count |-> line.count,
   offset |-> (line.offset + Len(bytes)) % 256, data |-> Filled(line.data, line.offset, bytes)]
Completed(line, bytes) ==
  [own |-> line.own, index |-> line.index, count |-> (line.offset + Len(bytes)) % 256,
   offset |-> 0, data |-> Filled(line.data, line.offset, bytes)]

LEMMA GrownType ==
  ASSUME NEW line \in Line, NEW bytes \in Seq(Carried)
  PROVE  /\ Grown(line, bytes) \in Line /\ Completed(line, bytes) \in Line
         /\ [line EXCEPT !.data = Filled(@, line.offset, bytes),
                         !.offset = (@ + Len(bytes)) % 256] = Grown(line, bytes)
         /\ [Grown(line, bytes) EXCEPT !.count = Grown(line, bytes).offset, !.offset = 0]
              = Completed(line, bytes)
<1>1. PICK own, index, count, at, old : line =
        [own |-> own, index |-> index, count |-> count, offset |-> at, data |-> old]
  BY DEF Line
<1>2. line.own = own /\ line.index = index /\ line.count = count /\ line.offset = at
      /\ line.data = old
  BY <1>1
<1>3. /\ line.own \in BOOLEAN /\ line.index \in Indices /\ line.count \in Nat
      /\ line.offset \in 0 .. 255 /\ line.data \in [Slots -> Carried]
  BY LineFields
<1>4. /\ own \in BOOLEAN /\ index \in Indices /\ count \in Nat /\ at \in 0 .. 255
      /\ old \in [Slots -> Carried]
  BY <1>2, <1>3, Zenon
<1> DEFINE data == Filled(old, at, bytes)
           offset == (at + Len(bytes)) % 256
<1>5. data \in [Slots -> Carried]
  BY <1>4, FilledType
<1>6. offset \in 0 .. 255
  <2>1. at + Len(bytes) \in Nat
    BY <1>4
  <2> QED  BY <2>1, ModType
<1>7. Grown(line, bytes) = [own |-> own, index |-> index, count |-> count,
                            offset |-> offset, data |-> data]
  BY <1>2 DEF Grown
<1>8. Completed(line, bytes) = [own |-> own, index |-> index, count |-> offset,
                                offset |-> 0, data |-> data]
  BY <1>2 DEF Completed
<1>9. [line EXCEPT !.data = Filled(@, line.offset, bytes), !.offset = (@ + Len(bytes)) % 256]
        = [line EXCEPT !.data = data, !.offset = offset]
  BY <1>2
<1> HIDE DEF data, offset
<1>10. ASSUME NEW new, new = [line EXCEPT !.data = data, !.offset = offset]
       PROVE  new = Grown(line, bytes)
  <2>1. new = [own |-> own, index |-> index, count |-> count, offset |-> offset, data |-> data]
    BY <1>1, <1>10
  <2> QED  BY <1>7, <2>1
<1>11. Grown(line, bytes) \in Line /\ Completed(line, bytes) \in Line
  <2>1. 0 \in 0 .. 255 /\ offset \in Nat
    BY <1>6
  <2>2. Grown(line, bytes) \in Line
    BY <1>5, <1>6, <1>7, <1>4, LineMade
  <2>3. Completed(line, bytes) \in Line
    BY <1>5, <1>8, <1>4, <2>1, LineMade
  <2> QED  BY <2>2, <2>3
<1>12. ASSUME NEW new, new = [Grown(line, bytes) EXCEPT !.count = Grown(line, bytes).offset,
                                                        !.offset = 0]
       PROVE  new = Completed(line, bytes)
  <2>1. Grown(line, bytes).offset = offset
    BY <1>7
  <2>2. new = [Grown(line, bytes) EXCEPT !.count = offset, !.offset = 0]
    BY <1>12, <2>1
  <2>3. ASSUME NEW g, g = Grown(line, bytes)
        PROVE  new = [own |-> own, index |-> index, count |-> offset, offset |-> 0,
                      data |-> data]
    <3>1. g = [own |-> own, index |-> index, count |-> count, offset |-> offset, data |-> data]
      BY <1>7, <2>3
    <3>2. new = [g EXCEPT !.count = offset, !.offset = 0]
      BY <2>2, <2>3
    <3> QED  BY <3>1, <3>2
  <2> QED  BY <1>8, <2>3
<1> QED  BY <1>9, <1>10, <1>11, <1>12

LEMMA DownloadSegmentEffect ==
  ASSUME ServerType, OnLineZero, DownloadSegment, NEW m, m = Head(rx),
         NEW more, more = Grown(transfers[0], m.bytes),
         NEW whole, whole = Completed(transfers[0], m.bytes)
  PROVE  /\ m \in Request /\ m.t = "dds" /\ m.toggle \in {0, 1} /\ m.bytes \in Seq(Carried)
         /\ more \in Line /\ whole \in Line /\ m.last \in BOOLEAN
         /\ \/ m.last /\ Refuse(0, whole.index)
            \/ /\ m.last /\ Accepts(whole.index, whole.count) /\ SetODentry(whole.index, whole)
               /\ transfers' = [transfers EXCEPT ![0] = FreeLine]
               /\ Reply([t |-> "dds", toggle |-> m.toggle])
            \/ /\ ~m.last /\ od' = od
               /\ transfers' \in {[transfers EXCEPT ![0] = FreeLine],
                                  [transfers EXCEPT ![0] = more]}
               /\ Reply([t |-> "dds", toggle |-> m.toggle])
<1> USE SdoConstants
<1>1. LineOnUseElseFree = 0
  BY LineZero
<1>2. transfers[0] \in Line
  BY DEF ServerType
<1>3. /\ m \in Request /\ m.t = "dds" /\ m.toggle \in {0, 1} /\ m.last \in BOOLEAN
      /\ m.bytes \in Seq(Carried)
  BY Taken, RequestKinds DEF DownloadSegment, Take
<1>4. /\ more \in Line /\ whole \in Line
      /\ [transfers[0] EXCEPT !.data = Filled(@, transfers[0].offset, m.bytes),
                              !.offset = (@ + Len(m.bytes)) % 256] = more
      /\ [more EXCEPT !.count = more.offset, !.offset = 0] = whole
  BY <1>2, <1>3, GrownType
<1>5. \/ m.last /\ ~Accepts(whole.index, whole.count) /\ Refuse(0, whole.index)
      \/ /\ ~(m.last /\ ~Accepts(whole.index, whole.count))
         /\ IF m.last THEN SetODentry(whole.index, whole) ELSE UNCHANGED od
         /\ \E e \in BOOLEAN :
              transfers' = [transfers EXCEPT ![0] = IF e \/ m.last THEN FreeLine ELSE more]
         /\ Reply([t |-> "dds", toggle |-> m.toggle])
  BY <1>1, <1>4, Zenon DEF DownloadSegment
<1>6. CASE m.last /\ Refuse(0, whole.index)
  BY <1>3, <1>4, <1>6
<1>7. CASE /\ m.last /\ Accepts(whole.index, whole.count) /\ SetODentry(whole.index, whole)
           /\ \E e \in BOOLEAN :
                transfers' = [transfers EXCEPT ![0] = IF e \/ m.last THEN FreeLine ELSE more]
           /\ Reply([t |-> "dds", toggle |-> m.toggle])
  <2>1. transfers' = [transfers EXCEPT ![0] = FreeLine]
    BY <1>7
  <2> QED  BY <1>3, <1>4, <1>7, <2>1
<1>8. CASE /\ ~m.last /\ od' = od
           /\ \E e \in BOOLEAN :
                transfers' = [transfers EXCEPT ![0] = IF e \/ m.last THEN FreeLine ELSE more]
           /\ Reply([t |-> "dds", toggle |-> m.toggle])
  <2>1. transfers' \in {[transfers EXCEPT ![0] = FreeLine], [transfers EXCEPT ![0] = more]}
    BY <1>8
  <2> QED  BY <1>3, <1>4, <1>8, <2>1
<1> QED  BY <1>5, <1>6, <1>7, <1>8

LEMMA DownloadSegmentType ==
  ASSUME ServerType, OnLineZero, DownloadSegment
  PROVE  ServerType' /\ OnLineZero'
<1> USE SdoConstants
<1> DEFINE m == Head(rx)
           more == Grown(transfers[0], m.bytes)
           whole == Completed(transfers[0], m.bytes)
           frame == [t |-> "dds", toggle |-> m.toggle]
<1>1. /\ m \in Request /\ m.toggle \in {0, 1} /\ m.bytes \in Seq(Carried)
      /\ more \in Line /\ whole \in Line
      /\ \/ Refuse(0, whole.index)
         \/ /\ Accepts(whole.index, whole.count) /\ SetODentry(whole.index, whole)
            /\ transfers' = [transfers EXCEPT ![0] = FreeLine] /\ Reply(frame)
         \/ /\ od' = od /\ Reply(frame)
            /\ transfers' \in {[transfers EXCEPT ![0] = FreeLine],
                               [transfers EXCEPT ![0] = more]}
  BY DownloadSegmentEffect
<1>2. rx' \in Seq(Request)
  BY Taken DEF DownloadSegment, Take
<1>3. frame \in Response
  BY <1>1 DEF Response
<1>4. transfers[0] \in Line /\ more.own = transfers[0].own /\ whole.index \in Indices
  BY <1>1 DEF ServerType, Line, Grown, Completed
<1> HIDE DEF m, more, whole, frame
<1>5. CASE Refuse(0, whole.index)
  BY <1>2, <1>4, <1>5, RefuseType DEF ServerType
<1>6. CASE /\ Accepts(whole.index, whole.count) /\ SetODentry(whole.index, whole)
           /\ transfers' = [transfers EXCEPT ![0] = FreeLine] /\ Reply(frame)
  <2>1. od' \in [Objects -> Seq(Carried)] /\ \A q \in Objects : Len(od'[q]) = Size(q)
    BY <1>1, <1>4, <1>6, WriteType
  <2>2. tx' \in Seq(Response)
    BY <1>3, <1>6, ReplyType
  <2> QED  BY <1>2, <1>6, <2>1, <2>2, FreeLineType DEF ServerType, OnLineZero
<1>7. CASE /\ od' = od /\ Reply(frame)
           /\ transfers' \in {[transfers EXCEPT ![0] = FreeLine],
                              [transfers EXCEPT ![0] = more]}
  <2>1. tx' \in Seq(Response)
    BY <1>3, <1>7, ReplyType
  <2>2. transfers' \in [Lines -> Line] /\ OnLineZero'
    BY <1>1, <1>4, <1>7, FreeLineType DEF ServerType, OnLineZero
  <2> QED  BY <1>2, <1>7, <2>1, <2>2 DEF ServerType
<1> QED  BY <1>1, <1>5, <1>6, <1>7

\* The client.
LEMMA ClientFields ==
  ASSUME NEW c \in Client
  PROVE  /\ c.n \in 0 .. TRANSFERS /\ c.obj \in Indices /\ c.len \in Nat /\ c.pos \in Nat
         /\ c.toggle \in {0, 1} /\ c.up \in BOOLEAN /\ c.got \in Seq(Carried)
BY DEF Client

LEMMA WithState ==
  ASSUME NEW c \in Client, NEW st \in {"initiated", "segments", "done", "refused", "failed"},
         NEW d, d = [c EXCEPT !.st = st]
  PROVE  /\ d \in Client /\ d.st = st /\ d.n = c.n /\ d.up = c.up /\ d.obj = c.obj
         /\ d.len = c.len /\ d.how = c.how /\ d.toggle = c.toggle /\ d.pos = c.pos
         /\ d.got = c.got
BY DEF Client

LEMMA Restarted ==
  ASSUME NEW c \in Client,
         NEW d, d = [c EXCEPT !.st = "initiated", !.toggle = 0, !.pos = 0, !.got = <<>>]
  PROVE  /\ d \in Client /\ d.st = "initiated" /\ d.n = c.n /\ d.up = c.up /\ d.obj = c.obj
         /\ d.len = c.len /\ d.how = c.how /\ d.toggle = 0 /\ d.pos = 0 /\ d.got = <<>>
<1> DEFINE a == [c EXCEPT !.st = "initiated"]
           b == [a EXCEPT !.toggle = 0]
           e == [b EXCEPT !.pos = 0]
<1>1. d = [e EXCEPT !.got = <<>>]
  OBVIOUS
<1>2. a \in Client /\ a.st = "initiated" /\ a.n = c.n /\ a.up = c.up /\ a.obj = c.obj
      /\ a.len = c.len /\ a.how = c.how
  BY DEF Client
<1> HIDE DEF a
<1>3. b \in Client /\ b.st = "initiated" /\ b.n = c.n /\ b.up = c.up /\ b.obj = c.obj
      /\ b.len = c.len /\ b.how = c.how /\ b.toggle = 0
  BY <1>2 DEF Client
<1> HIDE DEF b
<1>4. e \in Client /\ e.st = "initiated" /\ e.n = c.n /\ e.up = c.up /\ e.obj = c.obj
      /\ e.len = c.len /\ e.how = c.how /\ e.toggle = 0 /\ e.pos = 0
  BY <1>3 DEF Client
<1> HIDE DEF e
<1>5. <<>> \in Seq(Carried)
  OBVIOUS
<1> QED  BY <1>1, <1>4, <1>5 DEF Client

LEMMA FirstFrameType ==
  ASSUME NEW c \in Client
  PROVE  InitialFrame(c) \in Request /\ InitialFrame(c) \in SdoRequest
BY FirstFrame DEF Request

LEMMA CarryType ==
  ASSUME ServerType, NEW frame \in Request, Carry(rx, rx', frame)
  PROVE  rx' \in Seq(Request) /\ (rx' = rx \/ rx' = Append(rx, frame))
<1>1. rx' = rx \/ rx' = Append(rx, frame)
  BY DEF Carry
<1>2. rx \in Seq(Request)
  BY DEF ServerType
<1> QED  BY <1>1, <1>2

LEMMA BeginType ==
  ASSUME ServerType, OnLineZero, NEW c \in Client, Begin(c),
         ~c.up => c.len \in 1 .. LARGE /\ (c.how = "expedited" => c.len <= EXPEDITED)
  PROVE  /\ ServerType' /\ ClientType' /\ OnLineZero'
         /\ client'.st = "initiated" /\ client'.n = c.n /\ client'.up = c.up
         /\ client'.obj = c.obj /\ client'.len = c.len /\ client'.how = c.how
         /\ InitialFrame(client') = InitialFrame(c)
<1>1. /\ client' \in Client /\ client'.st = "initiated" /\ client'.n = c.n /\ client'.up = c.up
      /\ client'.obj = c.obj /\ client'.len = c.len /\ client'.how = c.how
      /\ client'.pos = 0 /\ client'.got = <<>>
  <2>1. client' = [c EXCEPT !.st = "initiated", !.toggle = 0, !.pos = 0, !.got = <<>>]
    BY DEF Begin
  <2> QED  BY <2>1, Restarted
<1>2. rx' \in Seq(Request)
  BY FirstFrameType, CarryType DEF Begin
<1>3. ServerType' /\ OnLineZero'
  BY <1>2 DEF ServerType, OnLineZero, Begin, ServerIsLeft
<1>4. ClientType'
  BY <1>1, SdoConstants DEF ClientType
<1>5. InitialFrame(client') = InitialFrame(c)
  BY <1>1 DEF InitialFrame
<1> QED  BY <1>1, <1>3, <1>4, <1>5

\* The transfer that Start begins.
LEMMA StartTransfer ==
  ASSUME ClientType, Start
  PROVE  \E c \in Client :
           /\ Begin(c) /\ c.n = client.n + 1
           /\ ~c.up => c.len \in 1 .. LARGE /\ (c.how = "expedited" => c.len <= EXPEDITED)
<1>1. client.n \in 0 .. TRANSFERS /\ client.n < TRANSFERS
  BY ClientFields DEF Start, ClientType
<1> DEFINE n == client.n + 1
<1>2. n \in 0 .. TRANSFERS
  BY <1>1, SdoConstants
<1>3. PICK o \in Indices :
        \/ Begin([Idle EXCEPT !.n = n, !.obj = o, !.up = TRUE])
        \/ \E len \in {Size(o), SMALL - 1} \ {0},
              how \in {"expedited", "whole", "pieces"} :
             /\ how = "expedited" => len <= EXPEDITED
             /\ Begin([Idle EXCEPT !.n = n, !.obj = o, !.len = len, !.how = how])
  BY DEF Start
<1> HIDE DEF n
<1>4. Idle \in Client /\ ~Idle.up
  <2>1. <<>> \in Seq(Carried) /\ 0 \in 0 .. TRANSFERS /\ NoObject \in Indices
    BY SdoConstants DEF Indices
  <2> QED  BY <2>1 DEF Idle, Client
<1>5. ASSUME NEW c \in Client, NEW obj \in Indices
      PROVE  /\ [c EXCEPT !.n = n] \in Client /\ [c EXCEPT !.n = n].up = c.up
             /\ [c EXCEPT !.n = n].n = n
             /\ [c EXCEPT !.obj = obj] \in Client /\ [c EXCEPT !.obj = obj].up = c.up
             /\ [c EXCEPT !.obj = obj].n = c.n
  BY <1>2 DEF Client
<1> DEFINE a == [Idle EXCEPT !.n = n]
           b == [a EXCEPT !.obj = o]
<1>6. a \in Client /\ ~a.up /\ a.n = n
  BY <1>4, <1>5
<1> HIDE DEF a
<1>7. b \in Client /\ ~b.up /\ b.n = n
  BY <1>5, <1>6
<1> HIDE DEF b
<1>8. CASE Begin([Idle EXCEPT !.n = n, !.obj = o, !.up = TRUE])
  <2> DEFINE c == [b EXCEPT !.up = TRUE]
  <2>1. Begin(c)
    BY <1>8 DEF a, b
  <2>2. c \in Client /\ c.up /\ c.n = n
    BY <1>7 DEF Client
  <2> HIDE DEF c
  <2> QED  BY <2>1, <2>2 DEF n
<1>9. ASSUME NEW len \in {Size(o), SMALL - 1} \ {0},
             NEW how \in {"expedited", "whole", "pieces"},
             how = "expedited" => len <= EXPEDITED,
             Begin([Idle EXCEPT !.n = n, !.obj = o, !.len = len, !.how = how])
      PROVE  \E c \in Client :
               /\ Begin(c) /\ c.n = n
               /\ ~c.up => c.len \in 1 .. LARGE /\ (c.how = "expedited" => c.len <= EXPEDITED)
  <2> DEFINE d == [b EXCEPT !.len = len]
             c == [d EXCEPT !.how = how]
  <2>1. Begin(c)
    BY <1>9 DEF a, b
  <2>2. len \in 1 .. LARGE
    BY SdoConstants
  <2>3. len \in Nat
    BY <2>2, SdoConstants
  <2>4. d \in Client /\ d.len = len /\ d.n = n
    BY <1>7, <2>3 DEF Client
  <2> HIDE DEF d
  <2>5. c \in Client /\ c.len = len /\ c.how = how /\ c.n = n
    BY <2>4 DEF Client
  <2> HIDE DEF c
  <2> QED  BY <1>9, <2>1, <2>2, <2>5
<1> QED  BY <1>3, <1>8, <1>9 DEF n

LEMMA StartType ==
  ASSUME ServerType, ClientType, OnLineZero, Start
  PROVE  ServerType' /\ ClientType' /\ OnLineZero'
BY StartTransfer, BeginType

LEMMA RetryType ==
  ASSUME ServerType, ClientType, OnLineZero, Retry
  PROVE  ServerType' /\ ClientType' /\ OnLineZero'
BY BeginType DEF Retry, ClientType

LEMMA BreakOffType ==
  ASSUME ServerType, ClientType, OnLineZero, BreakOff
  PROVE  ServerType' /\ ClientType' /\ OnLineZero'
<1>1. /\ client' \in Client /\ client'.st = "failed" /\ client'.up = client.up
      /\ client'.len = client.len /\ client'.pos = client.pos /\ client'.how = client.how
  BY WithState DEF BreakOff, ClientType
<1>2. ClientType'
  BY <1>1 DEF ClientType, BreakOff
<1>3. [t |-> "abort"] \in Request
  BY DEF Request
<1>4. rx' \in Seq(Request)
  BY <1>3 DEF BreakOff, ServerType
<1> QED  BY <1>2, <1>4 DEF ServerType, OnLineZero, BreakOff, ServerIsLeft

\* What the client has after an answer that fits, and whether the transfer is over.
Advanced(m) ==
  CASE m.t = "idd" -> client
    [] m.t = "dds" -> [client EXCEPT !.pos = client.pos + Len(NextFrame(client).bytes),
                                     !.toggle = 1 - @]
    [] m.t = "idu" -> [client EXCEPT !.len = m.size, !.got = m.bytes]
    [] m.t = "uds" -> [client EXCEPT !.got = @ \o m.bytes, !.toggle = 1 - @]

Over(m) ==
  CASE m.t = "idd" -> client.how = "expedited"
    [] m.t = "dds" -> Advanced(m).pos = client.len
    [] m.t = "idu" -> m.bytes # <<>>
    [] m.t = "uds" -> m.last \/ Len(Advanced(m).got) > client.len

\* The parts of a transfer that an answer leaves alone.
SameTransfer(c) ==
  c.n = client.n /\ c.up = client.up /\ c.obj = client.obj /\ c.how = client.how

LEMMA FitsKinds ==
  ASSUME ClientType, NEW m \in Response, Fits(m)
  PROVE  /\ Asking
         /\ m.t = "idd" => client.st = "initiated" /\ ~client.up
         /\ m.t = "dds" => client.st = "segments" /\ ~client.up
         /\ m.t = "idu" => client.st = "initiated" /\ client.up
         /\ m.t = "uds" => client.st = "segments" /\ client.up
         /\ m.t \in {"idu", "uds", "idd", "dds"}
BY DEF Fits, Awaits, Asking, ClientType, Client

LEMMA SentLength ==
  ASSUME ClientType, client.st = "segments", ~client.up
  PROVE  /\ Len(NextFrame(client).bytes) \in 1 .. client.len - client.pos
         /\ client.pos \in Nat /\ client.len \in 1 .. LARGE /\ client.pos < client.len
<1>1. client \in Client /\ client.len \in 1 .. LARGE /\ client.pos < client.len
  BY DEF ClientType
<1>2. PICK k \in 1 .. client.len - client.pos : Len(NextFrame(client).bytes) = k
  BY <1>1, DownloadFrame
<1> QED  BY <1>1, <1>2, ClientFields

LEMMA AdvancedType ==
  ASSUME ClientType, NEW m \in Response, Fits(m), NEW c, c = Advanced(m)
  PROVE  /\ c \in Client /\ SameTransfer(c) /\ c.st = client.st
         /\ m.t \in {"idd", "uds", "dds"} => c.len = client.len
         /\ m.t = "idu" => c.len = m.size /\ c.got = m.bytes /\ c.toggle = client.toggle
         /\ m.t = "uds" => c.got = client.got \o m.bytes
         /\ m.t = "dds" => c.pos = client.pos + Len(NextFrame(client).bytes)
         /\ m.t = "idd" => c = client
<1>1. client \in Client
  BY DEF ClientType
<1>2. CASE m.t = "idd"
  BY <1>1, <1>2 DEF Advanced, SameTransfer
<1>3. CASE m.t = "dds"
  <2> DEFINE upto == client.pos + Len(NextFrame(client).bytes)
             toggle == 1 - client.toggle
             a == [client EXCEPT !.pos = upto]
  <2>1. upto \in Nat
    <3>1. client.st = "segments" /\ ~client.up
      BY <1>3, FitsKinds
    <3>2. /\ Len(NextFrame(client).bytes) \in 1 .. client.len - client.pos
          /\ client.pos \in Nat /\ client.len \in 1 .. LARGE
      BY <3>1, SentLength
    <3> QED  BY <3>2, SdoConstants
  <2>2. toggle \in {0, 1}
    BY <1>1, ClientFields
  <2>3. c = [a EXCEPT !.toggle = toggle]
    BY <1>1, <1>3 DEF Advanced, Client
  <2> HIDE DEF upto, toggle
  <2>4. a \in Client /\ SameTransfer(a) /\ a.st = client.st /\ a.len = client.len /\ a.pos = upto
    BY <1>1, <2>1 DEF Client, SameTransfer
  <2> HIDE DEF a
  <2>5. c \in Client /\ SameTransfer(c) /\ c.st = client.st /\ c.len = client.len /\ c.pos = upto
    BY <2>2, <2>3, <2>4 DEF Client, SameTransfer
  <2> QED  BY <1>3, <2>5 DEF upto
<1>4. CASE m.t = "idu"
  <2> DEFINE a == [client EXCEPT !.len = m.size]
  <2>1. m.size \in Nat /\ m.bytes \in Seq(Carried)
    BY <1>4, ResponseKinds
  <2>2. c = [a EXCEPT !.got = m.bytes]
    BY <1>1, <1>4 DEF Advanced, Client
  <2>3. a \in Client /\ SameTransfer(a) /\ a.st = client.st /\ a.len = m.size
        /\ a.toggle = client.toggle
    BY <1>1, <2>1 DEF Client, SameTransfer
  <2> HIDE DEF a
  <2>4. c \in Client /\ SameTransfer(c) /\ c.st = client.st /\ c.len = m.size
        /\ c.got = m.bytes /\ c.toggle = client.toggle
    BY <2>1, <2>2, <2>3 DEF Client, SameTransfer
  <2> QED  BY <1>4, <2>4
<1>5. CASE m.t = "uds"
  <2> DEFINE got == client.got \o m.bytes
             toggle == 1 - client.toggle
             a == [client EXCEPT !.got = got]
  <2>1. got \in Seq(Carried)
    BY <1>1, <1>5, ResponseKinds, ClientFields
  <2>2. toggle \in {0, 1}
    BY <1>1, ClientFields
  <2>3. c = [a EXCEPT !.toggle = toggle]
    BY <1>1, <1>5 DEF Advanced, Client
  <2> HIDE DEF got, toggle
  <2>4. a \in Client /\ SameTransfer(a) /\ a.st = client.st /\ a.len = client.len /\ a.got = got
    BY <1>1, <2>1 DEF Client, SameTransfer
  <2> HIDE DEF a
  <2>5. c \in Client /\ SameTransfer(c) /\ c.st = client.st /\ c.len = client.len /\ c.got = got
    BY <2>2, <2>3, <2>4 DEF Client, SameTransfer
  <2> QED  BY <1>5, <2>5 DEF got
<1> QED  BY <1>2, <1>3, <1>4, <1>5, FitsKinds

LEMMA AnswerEffect ==
  ASSUME ClientType, NEW m \in Response, Fits(m), Answer(m)
  PROVE  \/ /\ Over(m)
            /\ Conclude(Advanced(m), IF m.t = "uds" /\ Len(Advanced(m).got) # client.len
                                     THEN "failed" ELSE "done")
         \/ ~Over(m) /\ Continue(Advanced(m))
<1> DEFINE c == Advanced(m)
<1>1. /\ c.len = client.len \/ m.t = "idu"
      /\ m.t = "dds" => c.pos = client.pos + Len(NextFrame(client).bytes)
  <2>1. PICK d : d = Advanced(m)
    OBVIOUS
  <2>2. /\ d.len = client.len \/ m.t = "idu"
        /\ m.t = "dds" => d.pos = client.pos + Len(NextFrame(client).bytes)
    BY <2>1, AdvancedType, FitsKinds
  <2> QED  BY <2>1, <2>2
<1>2. CASE m.t = "idd"
  BY <1>2 DEF Answer, Advanced, Over
<1>3. CASE m.t = "dds"
  <2>1. IF c.pos = client.len THEN Conclude(c, "done") ELSE Continue(c)
    BY <1>1, <1>3 DEF Answer, Advanced
  <2> HIDE DEF c
  <2> QED  BY <1>3, <2>1 DEF Over, c
<1>4. CASE m.t = "idu"
  BY <1>4 DEF Answer, Advanced, Over
<1>5. CASE m.t = "uds"
  <2>1. IF m.last \/ Len(c.got) > c.len
        THEN Conclude(c, IF Len(c.got) = c.len THEN "done" ELSE "failed") ELSE Continue(c)
    BY <1>5 DEF Answer, Advanced
  <2>2. c.len = client.len
    BY <1>1, <1>5
  <2> QED  BY <1>5, <2>1, <2>2 DEF Over
<1> QED  BY <1>2, <1>3, <1>4, <1>5, FitsKinds

\* The client asks for the rest of a segmented transfer.
LEMMA ContinueType ==
  ASSUME ServerType, NEW c \in Client, Continue(c),
         ~c.up => c.len \in 1 .. LARGE /\ c.how # "expedited" /\ c.pos < c.len
  PROVE  /\ client' \in Client /\ client'.st = "segments" /\ client'.n = c.n
         /\ client'.up = c.up /\ client'.obj = c.obj /\ client'.len = c.len
         /\ client'.how = c.how /\ client'.toggle = c.toggle /\ client'.pos = c.pos
         /\ client'.got = c.got
         /\ ClientType'
         /\ NextFrame(client') = NextFrame(c) /\ NextFrame(c) \in SdoRequest
         /\ rx' \in Seq(Request) /\ rx' \in {rx, Append(rx, NextFrame(c))}
<1>1. /\ client' \in Client /\ client'.st = "segments" /\ client'.n = c.n
      /\ client'.up = c.up /\ client'.obj = c.obj /\ client'.len = c.len
      /\ client'.how = c.how /\ client'.toggle = c.toggle /\ client'.pos = c.pos
      /\ client'.got = c.got
  BY WithState DEF Continue
<1>2. ClientType'
  BY <1>1, ClientFields DEF ClientType
<1>3. NextFrame(client') = NextFrame(c)
  BY <1>1 DEF NextFrame
<1>4. NextFrame(c) \in SdoRequest
  <2>1. CASE c.up
    BY <2>1, UploadFrame
  <2>2. CASE ~c.up
    BY <2>2, DownloadFrame
  <2> QED  BY <2>1, <2>2
<1>5. NextFrame(c) \in Request
  BY <1>4 DEF Request
<1>6. rx' \in Seq(Request) /\ (rx' = rx \/ rx' = Append(rx, NextFrame(c)))
  BY <1>5, CarryType DEF Continue
<1> QED  BY <1>1, <1>2, <1>3, <1>4, <1>6

LEMMA ConcludeType ==
  ASSUME ServerType, NEW c \in Client, NEW result \in {"done", "refused", "failed"},
         Conclude(c, result),
         ~c.up => /\ c.len \in 1 .. LARGE /\ c.pos <= c.len
                  /\ c.how = "expedited" => c.len <= EXPEDITED
  PROVE  /\ client' \in Client /\ client'.st = result /\ client'.n = c.n
         /\ client'.up = c.up /\ client'.obj = c.obj /\ client'.got = c.got
         /\ ClientType'
         /\ rx' \in Seq(Request) /\ rx' \in {rx, Append(rx, [t |-> "abort"])}
<1>1. /\ client' \in Client /\ client'.st = result /\ client'.n = c.n
      /\ client'.up = c.up /\ client'.obj = c.obj /\ client'.len = c.len
      /\ client'.how = c.how /\ client'.pos = c.pos /\ client'.got = c.got
  BY WithState DEF Conclude
<1>2. ClientType'
  BY <1>1 DEF ClientType
<1>3. [t |-> "abort"] \in Request
  BY DEF Request
<1>4. rx' \in Seq(Request) /\ (rx' = rx \/ rx' = Append(rx, [t |-> "abort"]))
  <2>1. rx' = rx \/ rx' = Append(rx, [t |-> "abort"])
    BY DEF Conclude
  <2>2. rx \in Seq(Request)
    BY DEF ServerType
  <2> QED  BY <1>3, <2>1, <2>2
<1> QED  BY <1>1, <1>2, <1>4

\* Every answer moves the client on.
LEMMA ReceiveEffect ==
  ASSUME ServerType, ClientType, Receive, NEW m, m = Head(tx)
  PROVE  /\ m \in Response /\ Len(tx) \in Nat \ {0} /\ Len(tx') = Len(tx) - 1
         /\ tx' = Tail(tx) /\ tx' \in Seq(Response)
         /\ UNCHANGED <<nodeState, transfers, od, early>>
         /\ \/ m.t = "abort" /\ Asking /\ Conclude(client, "refused")
            \/ m.t # "abort" /\ Fits(m) /\ Answer(m)
            \/ /\ UNCHANGED <<rx, client>>
               /\ m.t = "abort" => ~Asking
               /\ m.t # "abort" => ~Fits(m)
<1>1. m \in Response /\ Len(tx) \in Nat \ {0} /\ tx' = Tail(tx) /\ tx' \in Seq(Response)
      /\ Len(tx') = Len(tx) - 1
  BY DEF Receive, ServerType
<1>2. UNCHANGED <<nodeState, transfers, od, early>>
  BY DEF Receive, ServerIsLeft
<1>3. \/ m.t = "abort" /\ Asking /\ Conclude(client, "refused")
      \/ m.t # "abort" /\ Fits(m) /\ Answer(m)
      \/ /\ UNCHANGED <<rx, client>>
         /\ ~(m.t = "abort" /\ Asking) /\ ~(m.t # "abort" /\ Fits(m))
  BY DEF Receive, Asking
<1> QED  BY <1>1, <1>2, <1>3

LEMMA AnswerType ==
  ASSUME ServerType, ClientType, NEW m \in Response, Fits(m), Answer(m)
  PROVE  ClientType' /\ rx' \in Seq(Request)
<1>1. PICK c : c = Advanced(m)
  OBVIOUS
<1>2. /\ c \in Client /\ SameTransfer(c) /\ c.st = client.st
      /\ m.t \in {"idd", "uds", "dds"} => c.len = client.len
      /\ m.t = "dds" => c.pos = client.pos + Len(NextFrame(client).bytes)
      /\ m.t = "idd" => c = client
  BY <1>1, AdvancedType
<1>3. client \in Client /\ client.st \in {"initiated", "segments"}
      /\ (client.up <=> m.t \in {"idu", "uds"}) /\ m.t \in {"idu", "uds", "idd", "dds"}
  BY FitsKinds DEF ClientType, Asking
<1>4. ~c.up => /\ c.len \in 1 .. LARGE /\ c.pos <= c.len
               /\ c.how = "expedited" => c.len <= EXPEDITED
  <2> SUFFICES ASSUME ~c.up
               PROVE  /\ c.len \in 1 .. LARGE /\ c.pos <= c.len
                      /\ c.how = "expedited" => c.len <= EXPEDITED
    OBVIOUS
  <2>1. CASE m.t = "idd"
    BY <1>2, <1>3, <2>1 DEF ClientType
  <2>2. CASE m.t = "dds"
    <3>1. client.st = "segments" /\ ~client.up
      BY <2>2, FitsKinds
    <3>2. /\ Len(NextFrame(client).bytes) \in 1 .. client.len - client.pos
          /\ client.pos \in Nat /\ client.len \in 1 .. LARGE
      BY <3>1, SentLength
    <3>3. c.len = client.len /\ c.pos <= client.len
      BY <1>2, <2>2, <3>2, SdoConstants
    <3>4. c.how # "expedited"
      BY <1>2, <3>1 DEF ClientType, SameTransfer
    <3> QED  BY <3>2, <3>3, <3>4
  <2> QED  BY <1>2, <1>3, <2>1, <2>2 DEF SameTransfer
<1>5. CASE Over(m)
  <2>1. PICK result \in {"done", "failed"} : Conclude(c, result)
    BY <1>1, <1>5, AnswerEffect, Zenon
  <2> QED  BY <1>2, <1>4, <2>1, ConcludeType
<1>6. CASE ~Over(m)
  <2>1. Continue(c)
    BY <1>1, <1>6, AnswerEffect, Zenon
  <2>2. ~c.up => c.len \in 1 .. LARGE /\ c.how # "expedited" /\ c.pos < c.len
    <3> SUFFICES ASSUME ~c.up  PROVE c.how # "expedited" /\ c.pos < c.len
      BY <1>4
    <3>1. CASE m.t = "idd"
      BY <1>2, <1>3, <1>4, <1>6, <3>1 DEF ClientType, Over
    <3>2. CASE m.t = "dds"
      <4>1. c.pos # client.len /\ c.len = client.len
        BY <1>1, <1>2, <1>6, <3>2 DEF Over
      <4>2. c.how # "expedited"
        BY <1>2, <3>2, FitsKinds DEF ClientType, SameTransfer
      <4> QED  BY <1>2, <1>4, <4>1, <4>2, ClientFields
    <3> QED  BY <1>2, <1>3, <3>1, <3>2 DEF SameTransfer
  <2> QED  BY <1>2, <2>1, <2>2, ContinueType
<1> QED  BY <1>5, <1>6

LEMMA ReceiveType ==
  ASSUME ServerType, ClientType, OnLineZero, Receive
  PROVE  ServerType' /\ ClientType' /\ OnLineZero'
<1>1. PICK m : m = Head(tx)
  OBVIOUS
<1>2. /\ m \in Response /\ tx' \in Seq(Response) /\ UNCHANGED <<transfers, od>>
      /\ \/ Asking /\ Conclude(client, "refused")
         \/ Fits(m) /\ Answer(m)
         \/ UNCHANGED <<rx, client>>
  BY <1>1, ReceiveEffect
<1>3. ClientType' /\ rx' \in Seq(Request)
  <2>1. CASE Asking /\ Conclude(client, "refused")
    BY <2>1, ConcludeType DEF ClientType, Asking
  <2>2. CASE Fits(m) /\ Answer(m)
    BY <1>2, <2>2, AnswerType
  <2>3. CASE UNCHANGED <<rx, client>>
    BY <2>3 DEF ClientType, ServerType
  <2> QED  BY <1>2, <2>1, <2>2, <2>3
<1> QED  BY <1>2, <1>3 DEF ServerType, OnLineZero

LEMMA SdoTypeInit == SdoInit => SdoTypeInv
<1> SUFFICES ASSUME SdoInit  PROVE SdoTypeInv
  OBVIOUS
<1>1. transfers \in [Lines -> Line] /\ OnLineZero
  BY FreeLineType DEF SdoInit, OnLineZero
<1>2. \A o \in Objects : /\ Data(0, o, Size(o)) \in Seq(Carried)
                         /\ Len(Data(0, o, Size(o))) = Size(o)
  <2> SUFFICES ASSUME NEW o \in Objects
               PROVE  /\ Data(0, o, Size(o)) \in Seq(Carried)
                      /\ Len(Data(0, o, Size(o))) = Size(o)
    OBVIOUS
  <2>1. 0 \in 0 .. TRANSFERS /\ o \in Indices /\ Size(o) \in Nat
    BY SdoConstants DEF Indices
  <2> QED  BY <2>1, DataType
<1>3. od \in [Objects -> Seq(Carried)] /\ \A o \in Objects : Len(od[o]) = Size(o)
  BY <1>2 DEF SdoInit
<1>4. client \in Client /\ client.st = "idle"
  <2>1. <<>> \in Seq(Carried) /\ 0 \in 0 .. TRANSFERS /\ NoObject \in Indices
    BY SdoConstants DEF Indices
  <2> QED  BY <2>1 DEF SdoInit, Idle, Client
<1>5. rx \in Seq(Request) /\ tx \in Seq(Response)
  BY DEF SdoInit
<1> QED  BY <1>1, <1>3, <1>4, <1>5 DEF SdoTypeInv, ServerType, ClientType

LEMMA SdoTypeStep == SdoTypeInv /\ [SdoNext]_sdoVars => SdoTypeInv'
<1> SUFFICES ASSUME SdoTypeInv, [SdoNext]_sdoVars  PROVE SdoTypeInv'
  OBVIOUS
<1> USE DEF SdoTypeInv
<1>1. ASSUME UNCHANGED client, ServerType', OnLineZero'  PROVE SdoTypeInv'
  BY <1>1 DEF ClientType
<1>2. CASE InitiateUpload
  BY <1>1, <1>2, InitiateUploadType DEF InitiateUpload
<1>3. CASE UploadSegment
  BY <1>1, <1>3, UploadSegmentType DEF UploadSegment
<1>4. CASE InitiateDownload
  BY <1>1, <1>4, InitiateDownloadType DEF InitiateDownload
<1>5. CASE DownloadSegment
  BY <1>1, <1>5, DownloadSegmentType DEF DownloadSegment
<1>6. ASSUME NEW t, Take(t), NodeIsQuiet, UNCHANGED <<transfers, od, client>>
      PROVE  SdoTypeInv'
  BY <1>1, <1>6, Taken DEF Take, NodeIsQuiet, ServerType, OnLineZero
<1>7. CASE IgnoreSdo
  BY <1>6, <1>7 DEF IgnoreSdo
<1>8. CASE ProceedNMTstateChange
  BY <1>6, <1>8 DEF ProceedNMTstateChange
<1>9. CASE Initialise
  <2>1. rx' \in Seq(Request) /\ tx' \in Seq(Response)
    BY <1>9 DEF Initialise
  <2> QED  BY <1>1, <1>9, <2>1, FreeLineType DEF Initialise, ServerType, OnLineZero
<1>10. CASE Start
  BY <1>10, StartType
<1>11. CASE Retry
  BY <1>11, RetryType
<1>12. CASE Expire \/ ExpireEarly
  BY <1>12, BreakOffType DEF Expire, ExpireEarly
<1>13. CASE Receive
  BY <1>13, ReceiveType
<1>14. CASE MasterCommands
  <2>1. PICK cs \in {"start", "stop", "pre", "reset"} :
          rx' = Append(rx, [t |-> "nmt", cs |-> cs])
    BY <1>14 DEF MasterCommands
  <2>2. [t |-> "nmt", cs |-> cs] \in Request
    BY DEF Request
  <2>3. rx' \in Seq(Request)
    BY <2>1, <2>2 DEF ServerType
  <2> QED  BY <1>1, <1>14, <2>3 DEF MasterCommands, ServerIsLeft, ServerType, OnLineZero
<1>15. CASE AddressMoved
  BY <1>1, <1>15 DEF AddressMoved, ServerType, OnLineZero
<1>16. CASE UNCHANGED sdoVars
  BY <1>1, <1>16 DEF sdoVars, ServerType, OnLineZero
<1> QED  BY <1>2, <1>3, <1>4, <1>5, <1>7, <1>8, <1>9, <1>10, <1>11, <1>12, <1>13, <1>14,
            <1>15, <1>16 DEF SdoNext, Node, Bus

\* What the lines, the wire and the tool hold has its type, for every dictionary and every
\* number of lines of the server (struct line_sdo).
THEOREM SdoTypes == SdoSpec => []SdoTypeInv
<1> QED  BY SdoTypeInit, SdoTypeStep, PTL DEF SdoSpec

\* However many downloads are broken off, a line stays free for the next upload:
\* proceedSDO uses its variable line unset when it finds neither.
THEOREM LineAlwaysLeft == SdoSpec => []LineLeft
<1>1. SdoTypeInv => LineLeft
  <2> SUFFICES ASSUME SdoTypeInv  PROVE LineLeft
    OBVIOUS
  <2>1. 1 \in Unused
    BY LineZero DEF SdoTypeInv
  <2> QED  BY <2>1 DEF LineLeft
<1> QED  BY <1>1, SdoTypes, PTL

-----------------------------------------------------------------------------
(* What a client that waits for its answers can rely on.                   *)

LEMMA CurrentKinds ==
  ASSUME ClientType, Asking
  PROVE  /\ Current \in SdoRequest
         /\ Current.t = "idu" =>
              client.st = "initiated" /\ client.up /\ Current.obj = client.obj
         /\ Current.t = "uds" => client.st = "segments" /\ client.up
         /\ Current.t = "idd" => client.st = "initiated" /\ ~client.up
         /\ Current.t = "dds" => client.st = "segments" /\ ~client.up
<1>1. client \in Client
  BY DEF ClientType
<1>2. CASE client.st = "initiated" /\ client.up
  <2>1. Current = [t |-> "idu", obj |-> client.obj] /\ Current \in SdoRequest
    BY <1>1, <1>2, FirstFrame DEF Current
  <2> QED  BY <1>2, <2>1
<1>3. CASE client.st = "initiated" /\ ~client.up
  <2>1. Current.t = "idd" /\ Current \in SdoRequest
    BY <1>1, <1>3, FirstFrame DEF Current
  <2> QED  BY <1>3, <2>1
<1>4. CASE client.st = "segments" /\ client.up
  <2>1. Current = [t |-> "uds", toggle |-> client.toggle] /\ Current \in SdoRequest
    BY <1>1, <1>4, UploadFrame DEF Current
  <2> QED  BY <1>4, <2>1
<1>5. CASE client.st = "segments" /\ ~client.up
  <2>1. Current.t = "dds" /\ Current \in SdoRequest
    BY <1>1, <1>5, DownloadFrame DEF Current, ClientType
  <2> QED  BY <1>5, <2>1
<1> QED  BY <1>1, <1>2, <1>3, <1>4, <1>5 DEF Asking

\* The node takes the request the client waits to be answered, and no other is on its way.
LEMMA RequestTaken ==
  ASSUME ServerType, InStep, NEW t \in {"idu", "uds", "idd", "dds"}, Take(t)
  PROVE  /\ Asking /\ Head(rx) = Current /\ Current.t = t /\ RequestFits /\ tx = <<>>
         /\ \A i \in 1 .. Len(rx') : rx'[i] \notin SdoRequest
<1>1. /\ Head(rx) \in Request /\ Head(rx) = rx[1] /\ Len(rx) \in Nat \ {0}
      /\ Len(rx') = Len(rx) - 1 /\ Head(rx).t = t
      /\ \A i \in 1 .. Len(rx') : rx'[i] = rx[i + 1]
  BY Taken DEF Take
<1>2. rx[1] \in SdoRequest /\ 1 \in 1 .. Len(rx)
  BY <1>1, RequestKinds
<1>3. \A i \in 1 .. Len(rx) : rx[i] \in SdoRequest => i = 1
  BY <1>2 DEF InStep
<1>4. \A i \in 1 .. Len(rx') : rx'[i] \notin SdoRequest
  <2> SUFFICES ASSUME NEW i \in 1 .. Len(rx')  PROVE rx'[i] \notin SdoRequest
    OBVIOUS
  <2>1. rx'[i] = rx[i + 1] /\ i + 1 \in 1 .. Len(rx) /\ i + 1 # 1
    BY <1>1
  <2> QED  BY <1>3, <2>1
<1>5. Asking /\ rx[1] = Current /\ RequestFits /\ tx = <<>>
  BY <1>2 DEF InStep
<1> QED  BY <1>1, <1>4, <1>5

LEMMA Answered ==
  ASSUME ServerType, InStep, NEW t \in {"idu", "uds", "idd", "dds"}, Take(t), UNCHANGED client,
         NEW frame, Reply(frame), frame \in TrueAnswers'
  PROVE  InStep'
<1>1. Asking /\ tx = <<>> /\ \A i \in 1 .. Len(rx') : rx'[i] \notin SdoRequest
  BY RequestTaken
<1>2. Asking'
  BY <1>1 DEF Asking
<1>3. tx' = <<>> \/ (Len(tx') = 1 /\ tx'[1] = frame)
  <2>1. tx' = tx \/ tx' = Append(tx, frame)
    BY DEF Reply, Carry
  <2> QED  BY <1>1, <2>1
<1> QED  BY <1>1, <1>2, <1>3 DEF InStep

LEMMA NotAnswered ==
  ASSUME ServerType, InStep, NEW t \in {"idu", "uds", "idd", "dds"}, Take(t), NodeIsQuiet
  PROVE  InStep'
<1>1. tx' = <<>> /\ \A i \in 1 .. Len(rx') : rx'[i] \notin SdoRequest
  BY RequestTaken DEF NodeIsQuiet
<1> QED  BY <1>1 DEF InStep

\* An abort never says anything untrue.
LEMMA Refused ==
  ASSUME ServerType, InStep, NEW t \in {"idu", "uds", "idd", "dds"}, Take(t), UNCHANGED client,
         NEW l, NEW o \in Indices, Refuse(l, o)
  PROVE  InStep' /\ od' = od
<1> DEFINE frame == [t |-> "abort", obj |-> o]
<1>1. Reply(frame) /\ od' = od
  BY DEF Refuse
<1>2. frame \in Response /\ frame.t = "abort"
  BY DEF Response
<1> HIDE DEF frame
<1>3. frame \in TrueAnswers'
  BY <1>2 DEF TrueAnswers
<1> QED  BY <1>1, <1>3, Answered

LEMMA InitiateUploadInStep ==
  ASSUME ServerType, ClientType, OnLineZero, InStep, InitiateUpload
  PROVE  InStep' /\ od' = od /\ client' = client
<1> USE SdoConstants
<1>1. Take("idu") /\ client' = client
  BY DEF InitiateUpload
<1>2. /\ client.st = "initiated" /\ client.up /\ Head(rx).obj = client.obj
  BY <1>1, RequestTaken, CurrentKinds
<1>3. PICK o, l : o = Head(rx).obj /\ l = IF transfers[0].own THEN 1 ELSE 0
  OBVIOUS
<1> DEFINE line == Copied(transfers[l], o, od[o])
           frame == [t |-> "idu", obj |-> o, size |-> Len(od[o]),
                     bytes |-> IF Len(od[o]) <= EXPEDITED THEN od[o] ELSE <<>>]
<1>4. /\ o \in Indices /\ l \in Lines
      /\ \/ Refuse(l, o)
         \/ /\ o \in Objects /\ od' = od /\ line \in Line
            /\ transfers' = [transfers EXCEPT ![l] = line] /\ Reply(frame)
  BY <1>3, InitiateUploadEffect
<1>5. CASE Refuse(l, o)
  BY <1>1, <1>4, <1>5, Refused
<1>6. CASE /\ o \in Objects /\ od' = od /\ line \in Line
           /\ transfers' = [transfers EXCEPT ![l] = line] /\ Reply(frame)
  <2>1. o = client.obj /\ client.obj \in Objects
    BY <1>2, <1>3, <1>6
  <2>2. od[o] \in Seq(Carried) /\ Len(od[o]) = Size(o) /\ Size(o) \in 1 .. LARGE
        /\ transfers[l] \in Line
    BY <1>4, <1>6 DEF ServerType, Indices
  <2>3. /\ frame \in Response /\ frame.t = "idu" /\ frame.size = Size(o)
        /\ frame.bytes # <<>> => frame.bytes = od[o]
    BY <1>4, <2>2 DEF Response
  <2>4. /\ line.own = transfers[l].own /\ line.count = Size(o) /\ line.offset = 0
        /\ \A i \in 1 .. Size(o) : line.data[i - 1] = od[o][i]
    <3>1. /\ line.own = transfers[l].own /\ line.count = Size(o) /\ line.offset = 0
          /\ line.data = Filled(transfers[l].data, 0, od[o])
      BY <2>2 DEF Copied
    <3>2. ASSUME NEW i \in 1 .. Size(o)
          PROVE  Filled(transfers[l].data, 0, od[o])[i - 1] = od[o][i]
      <4>1. i - 1 \in Slots /\ i \in 1 .. Len(od[o]) /\ i \in Nat
        BY <2>2
      <4>2. transfers[l].data \in [Slots -> Carried]
        BY <2>2, LineFields
      <4>3. PICK j, from, data, bytes :
              /\ j = i - 1 /\ from = 0 /\ data = transfers[l].data /\ bytes = od[o]
              /\ j = from + i - 1
        BY <4>1
      <4>4. /\ data \in [Slots -> Carried] /\ from \in Nat /\ bytes \in Seq(Carried)
            /\ j \in Slots /\ i \in 1 .. Len(bytes) /\ j = from + i - 1
        BY <2>2, <4>1, <4>2, <4>3
      <4>5. Filled(data, from, bytes)[j] = bytes[i]
        BY <4>4, FilledNew
      <4> QED  BY <4>3, <4>5
    <3> QED  BY <3>1, <3>2
  <2> HIDE DEF line, frame
  <2>5. 0 \in Uploaded'
    <3>1. /\ client'.obj \in Objects /\ client'.st # "segments" /\ client'.obj = o
      BY <1>1, <1>2, <2>1
    <3>2. ASSUME ~transfers'[0].own
          PROVE  transfers'[0] = line /\ od'[o] = od[o]
      <4>1. l = 0
        BY <1>3, <1>6, <2>4, <3>2 DEF ServerType
      <4> QED  BY <1>6, <4>1 DEF ServerType
    <3>3. 0 \in Nat /\ 0 <= Size(o)
      BY <2>2
    <3> QED  BY <2>4, <3>1, <3>2, <3>3 DEF Uploaded
  <2>6. frame \in TrueAnswers'
    BY <1>1, <1>2, <1>6, <2>1, <2>3, <2>5 DEF TrueAnswers
  <2> QED  BY <1>1, <1>6, <2>6, Answered
<1> QED  BY <1>4, <1>5, <1>6

LEMMA UploadSegmentInStep ==
  ASSUME ServerType, ClientType, OnLineZero, InStep, UploadSegment
  PROVE  InStep' /\ od' = od /\ client' = client
<1> USE SdoConstants
<1>1. Take("uds") /\ client' = client /\ od' = od
  BY DEF UploadSegment
<1>2. client.st = "segments" /\ client.up /\ Len(client.got) \in Uploaded
  BY <1>1, RequestTaken, CurrentKinds DEF RequestFits
<1>3. PICK line, left, k : /\ line = transfers[0] /\ left = SegmentLeft(line)
                           /\ k = IF left <= SEGMENT THEN left ELSE SEGMENT
  OBVIOUS
<1> DEFINE last == left <= SEGMENT
           frame == [t |-> "uds", toggle |-> Head(rx).toggle, bytes |-> Read(line, k),
                     last |-> last]
           moved == [own |-> line.own, index |-> line.index, count |-> line.count,
                     offset |-> (line.offset + k) % 256, data |-> line.data]
<1>4. /\ left \in 0 .. 255 /\ k \in Nat
      /\ \/ left = 0 /\ NodeIsQuiet
         \/ left # 0 /\ transfers' = [transfers EXCEPT ![0] = moved] /\ Reply(frame)
  BY <1>3, UploadSegmentEffect
<1>5. CASE left = 0 /\ NodeIsQuiet
  BY <1>1, <1>5, NotAnswered
<1>6. CASE left # 0 /\ transfers' = [transfers EXCEPT ![0] = moved] /\ Reply(frame)
  <2> DEFINE o == client.obj
             got == Len(client.got)
  <2>1. line \in Line /\ line.offset \in 0 .. 255 /\ line.count \in Nat
        /\ line.data \in [Slots -> Carried]
    BY <1>3, LineFields DEF ServerType
  <2>2. /\ frame \in Response /\ frame.t = "uds" /\ frame.bytes = Read(line, k)
        /\ Len(frame.bytes) = k
        /\ \A i \in 1 .. k : line.offset + i - 1 \in Slots =>
             frame.bytes[i] = line.data[line.offset + i - 1]
    <3>1. Head(rx).toggle \in {0, 1}
      BY <1>1, Taken, RequestKinds DEF Take
    <3>2. last \in BOOLEAN
      OBVIOUS
    <3> HIDE DEF last
    <3>3. /\ Read(line, k) \in Seq(Carried) /\ Len(Read(line, k)) = k
          /\ \A i \in 1 .. k : line.offset + i - 1 \in Slots =>
               Read(line, k)[i] = line.data[line.offset + i - 1]
      BY <1>4, <2>1, ReadType
    <3> QED  BY <3>1, <3>2, <3>3 DEF Response
  <2>3. transfers'[0] = moved
    BY <1>6 DEF ServerType
  <2>4. o \in Objects /\ client.len = Size(o) /\ got \in Nat
    BY <1>2 DEF Uploaded
  <2>5. Size(o) \in 1 .. LARGE /\ Size(o) \in 1 .. 255 /\ LARGE \in Nat
    <3>1. Size(o) \in 1 .. LARGE
      BY <2>4 DEF Indices
    <3>2. LARGE \in 1 .. 255
      OBVIOUS
    <3> QED  BY <3>1, <3>2
  <2> HIDE DEF frame, got, o
  <2>6. CASE line.own
    <3>1. transfers'[0].own
      BY <2>3, <2>6
    <3>2. got + k \in Uploaded'
      BY <1>1, <1>4, <2>4, <3>1 DEF Uploaded, o
    <3>3. Len(client'.got) + Len(frame.bytes) \in Uploaded'
      BY <1>1, <2>2, <3>2 DEF got
    <3>4. frame \in TrueAnswers'
      BY <1>1, <1>2, <2>2, <3>1, <3>3 DEF TrueAnswers
    <3> QED  BY <1>1, <1>6, <3>4, Answered DEF frame
  <2>7. CASE ~line.own
    <3>1. /\ got <= Size(o) /\ line.count = Size(o) /\ line.offset = got
          /\ \A i \in 1 .. Size(o) : line.data[i - 1] = od[o][i]
          /\ \A i \in 1 .. got : client.got[i] = od[o][i]
      BY <1>2, <1>3, <2>7 DEF Uploaded, got, o
    <3>2. left = Size(o) - got /\ k \in 1 .. Size(o) - got /\ got + k <= Size(o)
      <4>1. left = (Size(o) + 256 - got) % 256
        BY <1>3, <3>1 DEF SegmentLeft
      <4>2. left = Size(o) - got
        <5>1. PICK size : size = Size(o)
          OBVIOUS
        <5>2. size \in 1 .. 255 /\ got \in Nat /\ got <= size /\ left = (size + 256 - got) % 256
          BY <2>4, <2>5, <3>1, <4>1, <5>1
        <5>3. size - got \in 0 .. 255
          BY <5>2
        <5>4. size + 256 - got = (size - got) + 256
          BY <5>2
        <5> QED  BY <5>1, <5>2, <5>3, <5>4, ModSmall
      <4> QED  BY <1>3, <1>4, <1>6, <2>4, <2>5, <3>1, <4>2
    <3>3. transfers'[0].offset = got + k /\ transfers'[0].count = Size(o)
          /\ transfers'[0].data = line.data
      <4>1. (got + k) % 256 = got + k
        <5>1. got + k \in 0 .. 255
          BY <2>4, <2>5, <3>2
        <5> QED  BY <5>1, ModSmall
      <4> QED  BY <2>3, <3>1, <4>1
    <3>4. got + k \in Uploaded'
      BY <1>1, <2>4, <3>1, <3>2, <3>3 DEF Uploaded, got, o
    <3>5. \A i \in 1 .. k : frame.bytes[i] = od[o][got + i]
      <4> SUFFICES ASSUME NEW i \in 1 .. k  PROVE frame.bytes[i] = od[o][got + i]
        OBVIOUS
      <4>1. got + i \in 1 .. Size(o) /\ got + i \in 1 .. LARGE
        BY <2>4, <2>5, <3>2
      <4>2. (got + i) - 1 \in Slots /\ (got + i) - 1 = got + i - 1
        BY <2>4, <4>1
      <4> QED  BY <2>2, <3>1, <4>1, <4>2
    <3>6. Len(client'.got) + Len(frame.bytes) \in Uploaded'
      BY <1>1, <2>2, <3>4 DEF got
    <3>7. frame \in TrueAnswers'
      BY <1>1, <1>2, <2>2, <3>5, <3>6 DEF TrueAnswers, got, o
    <3> QED  BY <1>1, <1>6, <3>7, Answered DEF frame
  <2> QED  BY <2>6, <2>7
<1> QED  BY <1>4, <1>5, <1>6

LEMMA InitiateDownloadInStep ==
  ASSUME ServerType, ClientType, OnLineZero, InStep, InitiateDownload
  PROVE  /\ InStep' /\ client' = client /\ Asking
         /\ od' = od \/ (Stored' /\ \A q \in Objects \ {client.obj} : od'[q] = od[q])
<1> USE SdoConstants
<1>1. Take("idd") /\ client' = client
  BY DEF InitiateDownload
<1>2. client.st = "initiated" /\ ~client.up /\ Asking /\ client \in Client
  BY <1>1, RequestTaken, CurrentKinds DEF ClientType
<1>3. PICK m, begun : m = Head(rx) /\ begun = Begun(transfers[0], m)
  OBVIOUS
<1>4. PICK n, o : n = client.n /\ o = client.obj
  OBVIOUS
<1> DEFINE frame == [t |-> "idd", obj |-> m.obj]
<1>5. m = InitialFrame(client)
  BY <1>1, <1>2, <1>3, RequestTaken DEF Current
<1>6. /\ m.obj = o /\ m.size = client.len /\ (m.e <=> client.how = "expedited")
      /\ m.e => m.bytes = Data(n, o, client.len)
  BY <1>2, <1>5, <1>4, FirstFrame
<1>7. /\ m \in Request /\ m.obj \in Indices
      /\ begun \in Line /\ begun.index = m.obj /\ begun.count = m.size /\ begun.offset = 0
      /\ m.e => begun.data = Filled(transfers[0].data, 0, m.bytes)
      /\ \/ Refuse(0, m.obj)
         \/ /\ m.e /\ Accepts(m.obj, m.size) /\ SetODentry(m.obj, begun)
            /\ transfers' = [transfers EXCEPT ![0] = FreeLine] /\ Reply(frame)
         \/ /\ ~m.e /\ od' = od
            /\ transfers' = [transfers EXCEPT ![0] = begun] /\ Reply(frame)
  BY <1>3, InitiateDownloadEffect
<1>8. frame \in Response /\ frame.t = "idd"
  BY <1>7 DEF Response
<1> HIDE DEF frame
<1>9. CASE Refuse(0, m.obj)
  BY <1>1, <1>2, <1>7, <1>9, Refused
<1>10. CASE /\ m.e /\ Accepts(m.obj, m.size) /\ SetODentry(m.obj, begun)
            /\ transfers' = [transfers EXCEPT ![0] = FreeLine] /\ Reply(frame)
  <2>1. /\ o \in WRITABLE /\ begun.count = SMALL /\ client.len = SMALL /\ o \in Objects
        /\ Size(o) = SMALL
    BY <1>6, <1>7, <1>10 DEF Accepts, Size, Objects
  <2>2. /\ od' \in [Objects -> Seq(Carried)] /\ od'[o] \in Seq(Carried) /\ Len(od'[o]) = SMALL
        /\ \A i \in 1 .. SMALL : od'[o][i] = begun.data[i - 1]
        /\ \A q \in Objects \ {o} : od'[q] = od[q]
    BY <1>6, <1>7, <1>10, WriteType
  <2>3. n \in 0 .. TRANSFERS /\ o \in Indices /\ SMALL \in Nat
    BY <1>2, <1>4, ClientFields
  <2>4. /\ m.bytes \in Seq(Carried) /\ Len(m.bytes) = SMALL
        /\ \A i \in 1 .. SMALL : m.bytes[i] = <<n, o, i>>
    BY <1>6, <1>10, <2>1, <2>3, DataType
  <2>5. transfers[0].data \in [Slots -> Carried]
    BY LineFields DEF ServerType
  <2>6. \A i \in 1 .. SMALL : begun.data[i - 1] = <<n, o, i>>
    <3> SUFFICES ASSUME NEW i \in 1 .. SMALL  PROVE begun.data[i - 1] = <<n, o, i>>
      OBVIOUS
    <3>1. i \in 1 .. Len(m.bytes) /\ i \in Nat /\ i - 1 \in Slots
      BY <2>3, <2>4
    <3>2. PICK j, from, data, bytes :
            /\ j = i - 1 /\ from = 0 /\ data = transfers[0].data /\ bytes = m.bytes
            /\ j = from + i - 1
      BY <3>1
    <3>3. Filled(transfers[0].data, 0, m.bytes)[j] = m.bytes[i]
      <4>1. /\ data \in [Slots -> Carried] /\ from \in Nat /\ bytes \in Seq(Carried)
            /\ j \in Slots /\ i \in 1 .. Len(bytes) /\ j = from + i - 1
        BY <2>4, <2>5, <3>1, <3>2
      <4>2. Filled(data, from, bytes)[j] = bytes[i]
        BY <4>1, FilledNew
      <4> QED  BY <3>2, <4>2
    <3> QED  BY <1>7, <1>10, <2>4, <3>2, <3>3
  <2>7. od'[o] = Data(n, o, SMALL)
    <3>1. /\ Data(n, o, SMALL) \in Seq(Carried) /\ Len(Data(n, o, SMALL)) = SMALL
          /\ \A i \in 1 .. SMALL : Data(n, o, SMALL)[i] = <<n, o, i>>
      BY <2>3, DataType
    <3>2. \A i \in 1 .. SMALL : od'[o][i] = <<n, o, i>>
      BY <2>2, <2>6
    <3>3. PICK d, v : d = Data(n, o, SMALL) /\ v = od'[o]
      OBVIOUS
    <3>4. /\ d \in Seq(Carried) /\ Len(d) = SMALL /\ v \in Seq(Carried) /\ Len(v) = SMALL
          /\ \A i \in 1 .. SMALL : v[i] = d[i]
      BY <2>2, <3>1, <3>2, <3>3
    <3>5. v = d
      BY <3>4, SameSeq
    <3> QED  BY <3>3, <3>5
  <2>8. Stored'
    BY <1>1, <1>4, <2>1, <2>7 DEF Stored
  <2>9. frame \in TrueAnswers'
    BY <1>1, <1>2, <1>6, <1>8, <1>10, <2>8 DEF TrueAnswers
  <2> QED  BY <1>1, <1>2, <1>10, <1>4, <2>2, <2>8, <2>9, Answered
<1>11. CASE /\ ~m.e /\ od' = od
            /\ transfers' = [transfers EXCEPT ![0] = begun] /\ Reply(frame)
  <2>1. transfers'[0] = begun
    BY <1>11 DEF ServerType
  <2>2. 0 \in Downloaded'
    BY <1>1, <1>6, <1>7, <1>4, <2>1 DEF Downloaded
  <2>3. frame \in TrueAnswers'
    BY <1>1, <1>2, <1>6, <1>8, <1>11, <2>2 DEF TrueAnswers
  <2> QED  BY <1>1, <1>2, <1>11, <2>3, Answered
<1> QED  BY <1>7, <1>9, <1>10, <1>11

LEMMA DownloadSegmentInStep ==
  ASSUME ServerType, ClientType, OnLineZero, InStep, DownloadSegment
  PROVE  /\ InStep' /\ client' = client /\ Asking
         /\ od' = od \/ (Stored' /\ \A q \in Objects \ {client.obj} : od'[q] = od[q])
<1>1. Take("dds") /\ client' = client
  BY DEF DownloadSegment
<1>2. /\ client.st = "segments" /\ ~client.up /\ Asking /\ client \in Client
      /\ client.pos \in Downloaded /\ client.len \in 1 .. LARGE /\ client.pos < client.len
  BY <1>1, RequestTaken, CurrentKinds DEF RequestFits, ClientType
<1>3. PICK m, line : m = Head(rx) /\ line = transfers[0]
  OBVIOUS
<1>4. PICK more, whole : more = Grown(line, m.bytes) /\ whole = Completed(line, m.bytes)
  OBVIOUS
<1>5. PICK n, o, pos, len :
        n = client.n /\ o = client.obj /\ pos = client.pos /\ len = client.len
  OBVIOUS
<1> DEFINE frame == [t |-> "dds", toggle |-> m.toggle]
<1>6. m = NextFrame(client)
  BY <1>1, <1>2, <1>3, RequestTaken DEF Current
<1>7. PICK k \in 1 .. len - pos :
        /\ m.last <=> pos + k = len
        /\ m.bytes \in Seq(Carried) /\ Len(m.bytes) = k
        /\ \A i \in 1 .. k : m.bytes[i] = <<n, o, pos + i>>
  BY <1>2, <1>6, <1>5, DownloadFrame
<1>8. /\ m \in Request /\ m.toggle \in {0, 1} /\ more \in Line /\ whole \in Line
      /\ \/ Refuse(0, whole.index)
         \/ /\ m.last /\ Accepts(whole.index, whole.count) /\ SetODentry(whole.index, whole)
            /\ transfers' = [transfers EXCEPT ![0] = FreeLine] /\ Reply(frame)
         \/ /\ ~m.last /\ od' = od /\ Reply(frame)
            /\ transfers' \in {[transfers EXCEPT ![0] = FreeLine],
                               [transfers EXCEPT ![0] = more]}
  BY <1>3, <1>4, DownloadSegmentEffect
<1>9. frame \in Response /\ frame.t = "dds"
  BY <1>8 DEF Response
<1>10. /\ Sent = pos + k /\ Sent' = pos + k /\ pos \in Nat /\ k \in 1 .. len - pos
       /\ len \in 1 .. 255 /\ len \in 1 .. LARGE /\ LARGE \in 1 .. 255 /\ pos + k \in 1 .. len
  <2>1. Sent = pos + k /\ pos \in Nat
    BY <1>2, <1>6, <1>7, <1>5, ClientFields DEF Sent
  <2>2. Sent' = Sent
    BY <1>1 DEF Sent
  <2>3. len \in 1 .. LARGE /\ LARGE \in 1 .. 255 /\ pos < len
    BY <1>2, <1>5, SdoConstants
  <2>4. k \in 1 .. len - pos
    BY <1>7
  <2>5. len \in 1 .. 255 /\ pos + k \in 1 .. len
    BY <2>1, <2>3, <2>4
  <2> QED  BY <1>7, <2>1, <2>2, <2>3, <2>5
<1>11. /\ line \in Line /\ line.data \in [Slots -> Carried] /\ line.index \in Indices
       /\ line.offset \in 0 .. 255
  BY <1>3, SdoConstants, LineFields DEF ServerType
\* The line holds the bytes sent so far, those of this segment among them.
<1>12. \/ line.index = NoObject
       \/ /\ line.index = o /\ line.offset = pos
          /\ (line.offset + Len(m.bytes)) % 256 = pos + k
          /\ \A i \in 1 .. pos + k :
               Filled(line.data, line.offset, m.bytes)[i - 1] = <<n, o, i>>
  <2>1. CASE line.index # NoObject
    <3>1. /\ line.index = o /\ line.offset = pos
          /\ \A i \in 1 .. pos : line.data[i - 1] = <<n, o, i>>
      BY <1>2, <1>3, <1>5, <2>1 DEF Downloaded
    <3>2. (line.offset + Len(m.bytes)) % 256 = pos + k
      <4>1. pos + k \in 0 .. 255
        BY <1>10
      <4> QED  BY <1>7, <3>1, <4>1, ModSmall
    <3>3. ASSUME NEW i \in 1 .. pos + k
          PROVE  Filled(line.data, line.offset, m.bytes)[i - 1] = <<n, o, i>>
      <4>1. i \in 1 .. len /\ i \in Nat
        BY <1>10
      <4>2. i \in 1 .. LARGE
        BY <1>10, <4>1
      <4>3. PICK j \in Slots : j = i - 1
        BY <4>2, SdoConstants
      <4>4. CASE i <= pos
        <5>1. i \in 1 .. pos /\ j < line.offset /\ line.offset \in Nat
          BY <1>10, <1>11, <3>1, <4>1, <4>3, <4>4
        <5>2. Filled(line.data, line.offset, m.bytes)[j] = line.data[j]
          BY <1>7, <1>11, <5>1, FilledOld
        <5> QED  BY <3>1, <4>3, <5>1, <5>2
      <4>5. CASE ~(i <= pos)
        <5>1. PICK h \in 1 .. k : h = i - pos
          BY <1>7, <1>10, <4>1, <4>5
        <5>2. j = line.offset + h - 1 /\ pos + h = i /\ line.offset \in Nat
          BY <1>10, <3>1, <4>1, <4>3, <5>1
        <5>3. Filled(line.data, line.offset, m.bytes)[j] = m.bytes[h]
          BY <1>7, <1>11, <5>1, <5>2, FilledNew
        <5> QED  BY <1>7, <4>3, <5>2, <5>3
      <4> QED  BY <4>4, <4>5
    <3> QED  BY <3>1, <3>2, <3>3
  <2>2. CASE line.index = NoObject
    BY <2>2, Zenon
  <2> QED  BY <2>1, <2>2, Zenon
<1> HIDE DEF frame
<1>13. CASE Refuse(0, whole.index)
  BY <1>1, <1>2, <1>4, <1>8, <1>11, <1>13, Refused DEF Completed
<1>14. CASE /\ m.last /\ Accepts(whole.index, whole.count) /\ SetODentry(whole.index, whole)
            /\ transfers' = [transfers EXCEPT ![0] = FreeLine] /\ Reply(frame)
  <2>1. /\ whole.index = line.index /\ whole.count = (line.offset + Len(m.bytes)) % 256
        /\ whole.data = Filled(line.data, line.offset, m.bytes)
    BY <1>4 DEF Completed
  <2>2. line.index # NoObject
    BY <1>14, <2>1, SdoAssumption DEF Accepts, SdoAssumption, Objects
  <2>3. /\ o \in WRITABLE /\ SMALL = pos + k /\ o \in Objects /\ Size(o) = SMALL
        /\ whole.index = o /\ whole.count = SMALL
    BY <1>12, <1>14, <2>1, <2>2 DEF Accepts, Size, Objects
  <2>4. /\ od'[o] \in Seq(Carried) /\ Len(od'[o]) = SMALL
        /\ \A i \in 1 .. SMALL : od'[o][i] = whole.data[i - 1]
        /\ \A q \in Objects \ {o} : od'[q] = od[q]
    BY <1>8, <1>11, <1>14, <2>1, <2>3, WriteType
  <2>5. n \in 0 .. TRANSFERS /\ o \in Indices /\ SMALL \in Nat
    BY <1>2, <1>5, ClientFields, SdoConstants
  <2>6. od'[o] = Data(n, o, SMALL)
    <3>1. /\ Data(n, o, SMALL) \in Seq(Carried) /\ Len(Data(n, o, SMALL)) = SMALL
          /\ \A i \in 1 .. SMALL : Data(n, o, SMALL)[i] = <<n, o, i>>
      BY <2>5, DataType
    <3>2. \A i \in 1 .. SMALL : od'[o][i] = <<n, o, i>>
      BY <1>12, <2>1, <2>2, <2>3, <2>4
    <3>3. PICK d, v : d = Data(n, o, SMALL) /\ v = od'[o]
      OBVIOUS
    <3>4. /\ d \in Seq(Carried) /\ Len(d) = SMALL /\ v \in Seq(Carried) /\ Len(v) = SMALL
          /\ \A i \in 1 .. SMALL : v[i] = d[i]
      BY <2>4, <3>1, <3>2, <3>3
    <3>5. v = d
      BY <3>4, SameSeq
    <3> QED  BY <3>3, <3>5
  <2>7. Stored'
    BY <1>1, <1>5, <2>3, <2>6 DEF Stored
  <2>8. Sent' = client'.len
    BY <1>1, <1>7, <1>10, <1>14, <1>5
  <2>9. frame \in TrueAnswers'
    BY <1>1, <1>2, <1>9, <2>7, <2>8 DEF TrueAnswers
  <2> QED  BY <1>1, <1>2, <1>14, <2>4, <2>7, <2>9, <1>5, Answered
<1>15. CASE /\ ~m.last /\ od' = od /\ Reply(frame)
            /\ transfers' \in {[transfers EXCEPT ![0] = FreeLine],
                               [transfers EXCEPT ![0] = more]}
  <2>1. more.index = line.index /\ more.offset = (line.offset + Len(m.bytes)) % 256
        /\ more.data = Filled(line.data, line.offset, m.bytes)
    BY <1>4 DEF Grown
  <2>2. transfers'[0] \in {FreeLine, more}
    BY <1>15, SdoConstants DEF ServerType
  <2>3. pos + k \in Downloaded'
    <3>1. CASE transfers'[0].index = NoObject
      BY <1>10, <3>1 DEF Downloaded
    <3>2. CASE transfers'[0].index # NoObject
      <4>1. transfers'[0] = more /\ line.index # NoObject
        BY <2>1, <2>2, <3>2, FreeLineType
      <4>2. /\ transfers'[0].index = o /\ transfers'[0].offset = pos + k
            /\ \A i \in 1 .. pos + k : transfers'[0].data[i - 1] = <<n, o, i>>
        BY <1>12, <2>1, <4>1
      <4> QED  BY <1>1, <1>10, <1>5, <4>2 DEF Downloaded
    <3> QED  BY <3>1, <3>2
  <2>4. Sent' # client'.len
    BY <1>1, <1>7, <1>10, <1>15, <1>5
  <2>5. frame \in TrueAnswers'
    BY <1>1, <1>2, <1>9, <1>10, <2>3, <2>4 DEF TrueAnswers
  <2> QED  BY <1>1, <1>2, <1>15, <2>5, Answered
<1> QED  BY <1>8, <1>13, <1>14, <1>15

LEMMA Unmoved ==
  ASSUME UNCHANGED <<transfers, od, client>>
  PROVE  /\ Current' = Current /\ (RequestFits' <=> RequestFits) /\ TrueAnswers' = TrueAnswers
         /\ (Asking' <=> Asking) /\ (Stored' <=> Stored)
<1>1. Current' = Current
  BY DEF Current, InitialFrame, NextFrame
<1>2. Uploaded' = Uploaded /\ Downloaded' = Downloaded
  BY DEF Uploaded, Downloaded
<1>3. RequestFits' <=> RequestFits
  BY <1>2 DEF RequestFits
<1>4. Sent' = Sent /\ (Stored' <=> Stored)
  BY DEF Sent, NextFrame, Stored
<1>5. TrueAnswers' = TrueAnswers
  BY <1>2, <1>4 DEF TrueAnswers
<1> QED  BY <1>1, <1>3, <1>4, <1>5 DEF Asking

\* A frame that is not an SDO request comes, or a frame is taken and not answered.
LEMMA QuietInStep ==
  ASSUME ServerType, InStep, UNCHANGED <<transfers, od, client, tx>>,
         \/ rx' = rx
         \/ rx # <<>> /\ rx' = Tail(rx)
         \/ \E f \in Request \ SdoRequest : rx' = Append(rx, f)
  PROVE  InStep'
<1>1. rx \in Seq(Request) /\ Len(rx) \in Nat
  BY DEF ServerType
<1>2. CASE rx' = rx
  BY <1>2, Unmoved DEF InStep
<1>3. CASE rx # <<>> /\ rx' = Tail(rx)
  <2>1. Len(rx') = Len(rx) - 1 /\ \A i \in 1 .. Len(rx') : rx'[i] = rx[i + 1]
    BY <1>3, Taken
  <2>2. \A i \in 1 .. Len(rx') : i + 1 \in 1 .. Len(rx)
    BY <1>1, <2>1
  <2>3. \A i \in 1 .. Len(rx') : rx'[i] \in SdoRequest =>
          Asking' /\ rx'[i] = Current' /\ RequestFits' /\ tx' = <<>>
    BY <2>1, <2>2, Unmoved DEF InStep
  <2>4. ASSUME NEW i \in 1 .. Len(rx'), NEW j \in 1 .. Len(rx'),
               rx'[i] \in SdoRequest, rx'[j] \in SdoRequest
        PROVE  i = j
    <3>1. i + 1 = j + 1
      BY <2>1, <2>2, <2>4 DEF InStep
    <3> QED  BY <3>1
  <2>5. tx' # <<>> => Asking' /\ Len(tx') = 1 /\ tx'[1] \in TrueAnswers'
    BY Unmoved DEF InStep
  <2> QED  BY <2>3, <2>4, <2>5 DEF InStep
<1>4. CASE \E f \in Request \ SdoRequest : rx' = Append(rx, f)
  <2>1. PICK f \in Request \ SdoRequest : rx' = Append(rx, f)
    BY <1>4
  <2>2. \A i \in 1 .. Len(rx') :
          rx'[i] \in SdoRequest => i \in 1 .. Len(rx) /\ rx[i] = rx'[i]
    BY <1>1, <2>1
  <2>3. \A i \in 1 .. Len(rx') : rx'[i] \in SdoRequest =>
          Asking' /\ rx'[i] = Current' /\ RequestFits' /\ tx' = <<>>
    BY <2>2, Unmoved DEF InStep
  <2>4. \A i, j \in 1 .. Len(rx') :
          rx'[i] \in SdoRequest /\ rx'[j] \in SdoRequest => i = j
    BY <2>2 DEF InStep
  <2>5. tx' # <<>> => Asking' /\ Len(tx') = 1 /\ tx'[1] \in TrueAnswers'
    BY Unmoved DEF InStep
  <2> QED  BY <2>3, <2>4, <2>5 DEF InStep
<1> QED  BY <1>2, <1>3, <1>4

\* The client waits for nothing: no request and no answer is on its way.
LEMMA NothingOnItsWay ==
  ASSUME InStep, ~Asking
  PROVE  tx = <<>> /\ \A i \in 1 .. Len(rx) : rx[i] \notin SdoRequest
BY DEF InStep

\* The client sends its next request after the last one was answered or given up.
LEMMA AsksInStep ==
  ASSUME ServerType, \A i \in 1 .. Len(rx) : rx[i] \notin SdoRequest,
         NEW frame \in Request, rx' \in {rx, Append(rx, frame)}, tx' = <<>>,
         Asking', Current' = frame, RequestFits'
  PROVE  InStep'
<1>1. rx \in Seq(Request) /\ Len(rx) \in Nat
  BY DEF ServerType
<1>2. \A i \in 1 .. Len(rx') : rx'[i] \in SdoRequest => i = Len(rx) + 1 /\ rx'[i] = frame
  BY <1>1
<1> QED  BY <1>2 DEF InStep

LEMMA BeginInStep ==
  ASSUME ServerType, OnLineZero, InStep, ~Asking, NEW c \in Client, Begin(c),
         ~c.up => c.len \in 1 .. LARGE /\ (c.how = "expedited" => c.len <= EXPEDITED)
  PROVE  InStep' /\ od' = od /\ client'.st = "initiated"
<1>1. client'.st = "initiated" /\ InitialFrame(client') = InitialFrame(c)
  BY BeginType
<1>2. tx' = <<>> /\ \A i \in 1 .. Len(rx) : rx[i] \notin SdoRequest
  BY NothingOnItsWay DEF Begin
<1>3. rx' \in {rx, Append(rx, InitialFrame(c))} /\ InitialFrame(c) \in Request
  BY FirstFrameType, CarryType DEF Begin
<1>4. Asking' /\ Current' = InitialFrame(c) /\ RequestFits'
  BY <1>1 DEF Asking, Current, RequestFits
<1>5. od' = od
  BY DEF Begin, ServerIsLeft
<1> QED  BY <1>1, <1>2, <1>3, <1>4, <1>5, AsksInStep

\* The bytes the client has after a segment of an upload it can rely on.
LEMMA GotTogether ==
  ASSUME ServerType, ClientType, client.st = "segments", client.up,
         NEW m \in Response, m.t = "uds", m \in TrueAnswers, NEW got, got = client.got \o m.bytes
  PROVE  /\ got \in Seq(Carried) /\ Len(got) = Len(client.got) + Len(m.bytes)
         /\ Len(got) \in Uploaded /\ client.len = Size(client.obj) /\ client.obj \in Objects
         /\ ~transfers[0].own => \A i \in 1 .. Len(got) : got[i] = od[client.obj][i]
<1>1. client.got \in Seq(Carried) /\ m.bytes \in Seq(Carried)
  BY ClientFields, ResponseKinds DEF ClientType
<1>2. got \in Seq(Carried) /\ Len(got) = Len(client.got) + Len(m.bytes)
  BY <1>1
<1>3. /\ Len(client.got) + Len(m.bytes) \in Uploaded
      /\ ~transfers[0].own =>
           \A i \in 1 .. Len(m.bytes) : m.bytes[i] = od[client.obj][Len(client.got) + i]
  BY DEF TrueAnswers
<1>4. /\ client.len = Size(client.obj) /\ client.obj \in Objects
      /\ ~transfers[0].own => \A i \in 1 .. Len(client.got) : client.got[i] = od[client.obj][i]
  BY <1>3 DEF Uploaded
<1>5. ASSUME ~transfers[0].own, NEW i \in 1 .. Len(got)  PROVE got[i] = od[client.obj][i]
  <2>1. CASE i \in 1 .. Len(client.got)
    <3>1. got[i] = client.got[i]
      BY <1>1, <2>1
    <3> QED  BY <1>4, <1>5, <2>1, <3>1
  <2>2. CASE i \notin 1 .. Len(client.got)
    <3>1. PICK a, b : a = Len(client.got) /\ b = Len(m.bytes)
      OBVIOUS
    <3>2. a \in Nat /\ b \in Nat /\ i \in 1 .. a + b /\ i \notin 1 .. a
      <4>1. a \in Nat /\ b \in Nat
        BY <1>1, <3>1
      <4>2. Len(got) = a + b
        BY <1>2, <3>1
      <4>3. i \in 1 .. a + b
        BY <1>5, <4>2
      <4> QED  BY <2>2, <3>1, <4>1, <4>3
    <3>3. i - a \in 1 .. b
      BY <3>2
    <3>4. PICK j \in 1 .. Len(m.bytes) : j = i - Len(client.got)
      BY <3>1, <3>3
    <3>5. got[i] = m.bytes[j] /\ Len(client.got) + j = i
      BY <1>1, <1>2, <1>5, <2>2, <3>4
    <3> QED  BY <1>3, <1>5, <3>4, <3>5
  <2> QED  BY <2>1, <2>2
<1> QED  BY <1>2, <1>3, <1>4, <1>5

LEMMA AnswerInStep ==
  ASSUME ServerType, ClientType, NEW m \in TrueAnswers, Fits(m), Answer(m), tx' = <<>>,
         UNCHANGED <<transfers, od>>, \A i \in 1 .. Len(rx) : rx[i] \notin SdoRequest
  PROVE  /\ InStep'
         /\ client'.st = "done" /\ ~client'.up => Stored'
         /\ client'.st = "done" /\ client.up /\ ~transfers[0].own =>
              client'.got = od[client.obj]
<1>1. PICK c : c = Advanced(m)
  OBVIOUS
<1>2. m \in Response /\ m.t # "abort" /\ m.t \in {"idu", "uds", "idd", "dds"}
  BY FitsKinds DEF TrueAnswers
<1>3. /\ c \in Client /\ SameTransfer(c)
      /\ m.t \in {"idd", "uds", "dds"} => c.len = client.len
      /\ m.t = "idu" => c.len = m.size /\ c.got = m.bytes
      /\ m.t = "uds" => c.got = client.got \o m.bytes
      /\ m.t = "dds" => c.pos = Sent
      /\ m.t = "idd" => c = client
  BY <1>1, <1>2, AdvancedType DEF Sent
<1>4. client \in Client /\ ClientType'
  BY <1>2, AnswerType DEF ClientType
<1>5. /\ m.t = "idd" => client.st = "initiated" /\ ~client.up
      /\ m.t = "dds" => client.st = "segments" /\ ~client.up
      /\ m.t = "idu" => client.st = "initiated" /\ client.up
      /\ m.t = "uds" => client.st = "segments" /\ client.up
  BY <1>2, FitsKinds
<1>6. CASE Over(m)
  <2> DEFINE result == IF m.t = "uds" /\ Len(c.got) # client.len THEN "failed" ELSE "done"
  <2>1. Conclude(c, result)
    BY <1>1, <1>2, <1>6, AnswerEffect, Zenon
  <2>2. result \in {"done", "failed"} /\ result \in {"done", "refused", "failed"}
    OBVIOUS
  <2>3. /\ client'.st = result /\ client'.n = c.n /\ client'.up = c.up /\ client'.obj = c.obj
        /\ client'.got = c.got
    BY <1>3, <2>1, WithState DEF Conclude
  <2>4. rx' = rx \/ rx' = Append(rx, [t |-> "abort"])
    BY <2>1 DEF Conclude
  <2>5. \A i \in 1 .. Len(rx') : rx'[i] \notin SdoRequest
    <3>1. [t |-> "abort"] \notin SdoRequest
      BY DEF SdoRequest
    <3>2. rx \in Seq(Request)
      BY DEF ServerType
    <3> QED  BY <2>4, <3>1, <3>2
  <2>6. InStep'
    BY <2>5 DEF InStep
  <2>7. ASSUME client'.st = "done", ~client'.up  PROVE Stored'
    <3>1. m.t \in {"idd", "dds"}
      BY <1>2, <1>3, <1>5, <2>3, <2>7 DEF SameTransfer
    <3>2. CASE m.t = "idd"
      <4>1. Stored
        BY <1>2, <1>5, <1>6, <3>2 DEF TrueAnswers, Over
      <4> QED  BY <1>3, <2>3, <4>1 DEF Stored, SameTransfer
    <3>3. CASE m.t = "dds"
      <4>1. Sent = client.len
        BY <1>1, <1>3, <1>6, <3>3 DEF Over
      <4>2. Stored
        BY <1>2, <1>5, <3>3, <4>1 DEF TrueAnswers
      <4> QED  BY <1>3, <2>3, <4>2 DEF Stored, SameTransfer
    <3> QED  BY <3>1, <3>2, <3>3
  <2>8. ASSUME client'.st = "done", client.up, ~transfers[0].own
        PROVE  client'.got = od[client.obj]
    <3>1. m.t \in {"idu", "uds"}
      BY <1>2, <1>5, <2>8
    <3>2. CASE m.t = "idu"
      <4>1. m.bytes # <<>>
        BY <1>6, <3>2 DEF Over
      <4>2. m.bytes = od[client.obj]
        BY <1>2, <1>5, <3>2, <4>1 DEF TrueAnswers
      <4> QED  BY <1>3, <2>3, <3>2, <4>2
    <3>3. CASE m.t = "uds"
      <4>1. PICK got, o : got = c.got /\ o = client.obj
        OBVIOUS
      <4>2. /\ got \in Seq(Carried) /\ client.len = Size(o) /\ o \in Objects
            /\ \A i \in 1 .. Len(got) : got[i] = od[o][i]
        BY <1>2, <1>3, <1>5, <2>8, <3>3, <4>1, GotTogether
      <4>3. Len(got) = client.len
        BY <2>3, <2>8, <3>3, <4>1
      <4>4. od[o] \in Seq(Carried) /\ Len(od[o]) = Size(o)
        BY <4>2 DEF ServerType
      <4>5. got = od[o]
        BY <4>2, <4>3, <4>4, SameSeq
      <4> QED  BY <2>3, <4>1, <4>5
    <3> QED  BY <3>1, <3>2, <3>3
  <2> QED  BY <2>6, <2>7, <2>8
<1>7. CASE ~Over(m)
  <2>1. Continue(c)
    BY <1>1, <1>2, <1>7, AnswerEffect, Zenon
  <2>2. /\ client' \in Client /\ client'.st = "segments" /\ client'.n = c.n
        /\ client'.up = c.up /\ client'.obj = c.obj /\ client'.len = c.len
        /\ client'.pos = c.pos /\ client'.got = c.got /\ client'.toggle = c.toggle
        /\ client'.how = c.how
    BY <1>3, <2>1, WithState DEF Continue
  <2>3. NextFrame(client') = NextFrame(c)
    BY <2>2 DEF NextFrame
  <2>4. NextFrame(c) \in SdoRequest /\ NextFrame(c) \in Request
    <3>1. CASE client'.up
      BY <2>2, <2>3, <3>1, UploadFrame DEF Request
    <3>2. CASE ~client'.up
      <4>1. client'.len \in 1 .. LARGE /\ client'.pos < client'.len
        BY <1>4, <2>2, <3>2 DEF ClientType
      <4> QED  BY <2>2, <2>3, <3>2, <4>1, DownloadFrame DEF Request
    <3> QED  BY <3>1, <3>2
  <2>5. rx' \in {rx, Append(rx, NextFrame(c))}
    BY <2>1, <2>4, CarryType DEF Continue
  <2>6. RequestFits'
    <3>1. CASE m.t = "idd"
      <4>1. 0 \in Downloaded
        BY <1>2, <1>5, <1>7, <3>1 DEF TrueAnswers, Over
      <4>2. client'.pos = 0 /\ ~client'.up
        BY <1>3, <1>5, <2>2, <3>1 DEF ClientType
      <4>3. 0 \in Downloaded'
        BY <1>3, <2>2, <4>1 DEF Downloaded, SameTransfer
      <4> QED  BY <4>2, <4>3 DEF RequestFits
    <3>2. CASE m.t = "dds"
      <4>1. Sent # client.len
        BY <1>1, <1>3, <1>7, <3>2 DEF Over
      <4>2. Sent \in Downloaded
        BY <1>2, <1>5, <3>2, <4>1 DEF TrueAnswers
      <4>3. PICK upto : upto = Sent
        OBVIOUS
      <4>4. client'.pos = upto /\ ~client'.up
        BY <1>3, <1>5, <2>2, <3>2, <4>3 DEF SameTransfer
      <4>5. upto \in Downloaded'
        BY <1>3, <2>2, <4>2, <4>3 DEF Downloaded, SameTransfer
      <4> QED  BY <4>4, <4>5 DEF RequestFits
    <3>3. CASE m.t = "idu"
      <4>1. 0 \in Uploaded /\ m.size = Size(client.obj) /\ m.bytes = <<>>
        BY <1>2, <1>5, <1>7, <3>3 DEF TrueAnswers, Over
      <4>2. client'.up /\ client'.got = <<>> /\ client'.len = Size(client'.obj)
            /\ client'.obj = client.obj /\ Len(client'.got) = 0
        BY <1>3, <1>5, <2>2, <3>3, <4>1 DEF SameTransfer
      <4>3. 0 \in Uploaded'
        BY <4>1, <4>2 DEF Uploaded
      <4> QED  BY <4>2, <4>3 DEF RequestFits
    <3>4. CASE m.t = "uds"
      <4>1. PICK got, o : got = c.got /\ o = client.obj
        OBVIOUS
      <4>2. /\ got \in Seq(Carried) /\ client.len = Size(o) /\ o \in Objects
            /\ Len(got) \in Uploaded
            /\ ~transfers[0].own => \A i \in 1 .. Len(got) : got[i] = od[o][i]
        BY <1>2, <1>3, <1>5, <3>4, <4>1, GotTogether
      <4>3. client'.up /\ client'.got = got /\ client'.len = Size(o) /\ client'.obj = o
        BY <1>3, <1>5, <2>2, <3>4, <4>1, <4>2 DEF SameTransfer
      <4>4. Len(got) \in Uploaded'
        BY <4>1, <4>2, <4>3 DEF Uploaded
      <4> QED  BY <4>3, <4>4 DEF RequestFits
    <3> QED  BY <1>2, <3>1, <3>2, <3>3, <3>4
  <2>7. Asking' /\ Current' = NextFrame(c)
    BY <2>2, <2>3 DEF Asking, Current
  <2>8. InStep'
    BY <2>4, <2>5, <2>6, <2>7, AsksInStep
  <2> QED  BY <2>2, <2>8
<1> QED  BY <1>6, <1>7

LEMMA ReceiveInStep ==
  ASSUME ServerType, ClientType, InStep, Receive
  PROVE  /\ InStep' /\ od' = od
         /\ client'.st = "done" /\ ~client'.up => Stored'
         /\ client'.st = "done" /\ client.up /\ ~transfers[0].own =>
              client'.got = od[client.obj]
<1>1. PICK m : m = Head(tx)
  OBVIOUS
<1>2. /\ m \in Response /\ Len(tx) \in Nat \ {0} /\ Len(tx') = Len(tx) - 1
      /\ tx' \in Seq(Response) /\ UNCHANGED <<transfers, od>>
      /\ \/ m.t = "abort" /\ Asking /\ Conclude(client, "refused")
         \/ Fits(m) /\ Answer(m)
         \/ UNCHANGED <<rx, client>>
  BY <1>1, ReceiveEffect
<1>3. /\ Asking /\ tx' = <<>> /\ m \in TrueAnswers
      /\ \A i \in 1 .. Len(rx) : rx[i] \notin SdoRequest
  <2>1. tx # <<>> /\ tx \in Seq(Response)
    BY DEF Receive, ServerType
  <2>2. Asking /\ Len(tx) = 1 /\ tx[1] \in TrueAnswers /\ m = tx[1]
    BY <1>1, <2>1 DEF InStep
  <2>3. tx' = <<>>
    BY <1>2, <2>2
  <2>4. \A i \in 1 .. Len(rx) : rx[i] \notin SdoRequest
    BY <2>1 DEF InStep
  <2> QED  BY <2>2, <2>3, <2>4
<1>4. CASE m.t = "abort" /\ Asking /\ Conclude(client, "refused")
  <2>1. client'.st = "refused" /\ rx' = rx
    BY <1>4, WithState DEF Conclude, ClientType
  <2> QED  BY <1>2, <1>3, <2>1 DEF InStep
<1>5. CASE Fits(m) /\ Answer(m)
  BY <1>2, <1>3, <1>5, AnswerInStep
<1>6. CASE UNCHANGED <<rx, client>>
  <2>1. client'.st # "done"
    BY <1>3, <1>6 DEF Asking
  <2> QED  BY <1>2, <1>3, <1>6, <2>1 DEF InStep
<1> QED  BY <1>2, <1>4, <1>5, <1>6

\* One step of a run in which the client waits for its answers.
LEMMA InStepStep ==
  ASSUME SdoTypeInv, InStep, Values, [SdoNext]_sdoVars, ~early'
  PROVE  /\ InStep'
         /\ od' = od \/ (Stored' /\ client' = client /\ Asking
                         /\ \A q \in Objects \ {client.obj} : od'[q] = od[q])
         /\ client'.st = "done" /\ ~client'.up => Stored'
         /\ client.st # "done" /\ client'.st = "done" /\ client.up /\ OnUse = {} =>
              client'.got = od[client.obj]
<1> USE DEF SdoTypeInv
<1>1. ASSUME UNCHANGED <<od, client>>
      PROVE  client'.st = "done" /\ ~client'.up => Stored'
  BY <1>1 DEF Values, Stored
<1>2. ASSUME Asking, UNCHANGED client  PROVE client'.st # "done"
  BY <1>2 DEF Asking
<1>3. CASE InitiateUpload
  BY <1>1, <1>3, InitiateUploadInStep
<1>4. CASE UploadSegment
  BY <1>1, <1>4, UploadSegmentInStep
<1>5. CASE InitiateDownload
  BY <1>2, <1>5, InitiateDownloadInStep
<1>6. CASE DownloadSegment
  BY <1>2, <1>6, DownloadSegmentInStep
<1>7. ASSUME UNCHANGED <<od, client>>, InStep'
      PROVE  /\ od' = od
             /\ client'.st = "done" /\ ~client'.up => Stored'
             /\ ~(client.st # "done" /\ client'.st = "done")
  BY <1>1, <1>7
<1>8. CASE IgnoreSdo \/ ProceedNMTstateChange
  <2>1. /\ UNCHANGED <<transfers, od, client, tx>>
        /\ rx # <<>> /\ rx' = Tail(rx)
    BY <1>8 DEF IgnoreSdo, ProceedNMTstateChange, Take, NodeIsQuiet
  <2>2. InStep'
    BY <2>1, QuietInStep
  <2> QED  BY <1>7, <2>1, <2>2
<1>9. CASE Initialise
  <2>1. InStep'
    BY <1>9 DEF Initialise, InStep
  <2> QED  BY <1>7, <1>9, <2>1 DEF Initialise
<1>10. CASE Start \/ Retry
  <2>1. ~Asking
    BY <1>10 DEF Start, Retry, Asking
  <2>2. \E c \in Client :
           /\ Begin(c)
           /\ ~c.up => c.len \in 1 .. LARGE /\ (c.how = "expedited" => c.len <= EXPEDITED)
    <3>1. CASE Start
      BY <3>1, StartTransfer
    <3>2. CASE Retry
      BY <3>2 DEF Retry, ClientType
    <3> QED  BY <1>10, <3>1, <3>2
  <2>3. InStep' /\ od' = od /\ client'.st = "initiated"
    BY <2>1, <2>2, BeginInStep
  <2> QED  BY <2>3
<1>11. CASE Expire
  <2>1. client'.st = "failed" /\ od' = od
    BY <1>11, WithState DEF Expire, BreakOff, ServerIsLeft, ClientType
  <2>2. rx' = <<[t |-> "abort"]>> /\ tx' = <<>>
    BY <1>11 DEF Expire, BreakOff, NothingComes
  <2>3. [t |-> "abort"] \notin SdoRequest
    BY DEF SdoRequest
  <2>4. InStep'
    BY <2>2, <2>3 DEF InStep
  <2> QED  BY <2>1, <2>4
<1>12. CASE ExpireEarly
  BY <1>12 DEF ExpireEarly
<1>13. CASE Receive
  <2>1. OnUse = {} => ~transfers[0].own
    BY LineZero
  <2> QED  BY <1>13, <2>1, ReceiveInStep
<1>14. CASE MasterCommands
  <2>1. PICK cs \in {"start", "stop", "pre", "reset"} :
          rx' = Append(rx, [t |-> "nmt", cs |-> cs])
    BY <1>14 DEF MasterCommands
  <2>2. [t |-> "nmt", cs |-> cs] \in Request \ SdoRequest
    BY DEF Request, SdoRequest
  <2>3. UNCHANGED <<transfers, od, client, tx>>
    BY <1>14 DEF MasterCommands, ServerIsLeft
  <2>4. InStep'
    BY <2>1, <2>2, <2>3, QuietInStep
  <2> QED  BY <1>7, <2>3, <2>4
<1>15. CASE AddressMoved \/ UNCHANGED sdoVars
  <2>1. UNCHANGED <<transfers, od, client, tx, rx>>
    BY <1>15 DEF AddressMoved, sdoVars
  <2>2. InStep'
    BY <2>1, QuietInStep
  <2> QED  BY <1>7, <2>1, <2>2
<1> QED  BY <1>3, <1>4, <1>5, <1>6, <1>8, <1>9, <1>10, <1>11, <1>12, <1>13, <1>14, <1>15
            DEF SdoNext, Node, Bus

\* Once impatient, the client stays so.
LEMMA EarlyStays ==
  ASSUME [SdoNext]_sdoVars, early
  PROVE  early'
BY DEF SdoNext, Node, Bus, InitiateUpload, UploadSegment, InitiateDownload, DownloadSegment,
       IgnoreSdo, ProceedNMTstateChange, Initialise, Start, Retry, Begin, Expire, ExpireEarly,
       Receive, MasterCommands, AddressMoved, sdoVars

LEMMA SdoInvInit == SdoInit => SdoInv
<1> SUFFICES ASSUME SdoInit  PROVE SdoInv
  OBVIOUS
<1>1. SdoTypeInv
  BY SdoTypeInit
<1>2. InStep
  BY DEF SdoInit, InStep
<1>3. Values
  <2>1. 0 \in 0 .. TRANSFERS
    BY SdoConstants
  <2>2. client.st = "idle"
    BY DEF SdoInit, Idle
  <2> QED  BY <2>1, <2>2 DEF SdoInit, Values
<1> QED  BY <1>1, <1>2, <1>3 DEF SdoInv

LEMMA SdoInvStep == SdoInv /\ [SdoNext]_sdoVars => SdoInv'
<1> SUFFICES ASSUME SdoInv, [SdoNext]_sdoVars  PROVE SdoInv'
  OBVIOUS
<1>1. SdoTypeInv /\ SdoTypeInv'
  BY SdoTypeStep DEF SdoInv
<1>2. CASE early'
  BY <1>1, <1>2 DEF SdoInv
<1>3. CASE ~early'
  <2>1. InStep /\ Values
    BY <1>3, EarlyStays DEF SdoInv
  <2>2. /\ InStep' /\ (client'.st = "done" /\ ~client'.up => Stored')
        /\ od' = od \/ (Stored' /\ client' = client
                        /\ \A q \in Objects \ {client.obj} : od'[q] = od[q])
    BY <1>1, <1>3, <2>1, InStepStep
  <2>3. \A o \in Objects : \E n \in 0 .. TRANSFERS : od'[o] = Data(n, o, Size(o))
    <3>1. CASE od' = od
      BY <2>1, <3>1 DEF Values
    <3>2. CASE /\ Stored' /\ client' = client
               /\ \A q \in Objects \ {client.obj} : od'[q] = od[q]
      <4>1. client.n \in 0 .. TRANSFERS
        BY <1>1, ClientFields DEF SdoTypeInv, ClientType
      <4>2. od'[client.obj] = Data(client.n, client.obj, Size(client.obj))
        BY <3>2 DEF Stored
      <4> QED  BY <2>1, <3>2, <4>1, <4>2 DEF Values
    <3> QED  BY <2>2, <3>1, <3>2
  <2> QED  BY <1>1, <2>2, <2>3 DEF SdoInv, Values
<1> QED  BY <1>2, <1>3

LEMMA SdoInvariant == SdoSpec => []SdoInv
<1> QED  BY SdoInvInit, SdoInvStep, PTL DEF SdoSpec

\* Lost frames, transfers broken off and begun anew, resets, and the line that may be lost
\* between two segments: the dictionary holds only whole values (setODentry).
THEOREM OnlyWholeValues == SdoSpec => []DictionaryWhole
<1>1. SdoInv => DictionaryWhole
  BY DEF SdoInv, Values, DictionaryWhole
<1> QED  BY <1>1, SdoInvariant, PTL

\* What the server has acknowledged is in the dictionary.
THEOREM AcknowledgedIsStored == SdoSpec => []DownloadStored
<1>1. SdoInv => DownloadStored
  BY DEF SdoInv, Values, Stored, DownloadStored
<1> QED  BY <1>1, SdoInvariant, PTL

\* An upload that ends well is the object asked for, while no download is open.
THEOREM UploadsIntact == SdoSpec => UploadIntact
<1>1. SdoInv /\ [SdoNext]_sdoVars =>
        [client.st # "done" /\ client'.st = "done" /\ client.up /\ OnUse = {} /\ ~early =>
           client'.got = od[client.obj]]_sdoVars
  <2> SUFFICES ASSUME SdoInv, [SdoNext]_sdoVars, client.st # "done", client'.st = "done",
                      client.up, OnUse = {}, ~early
               PROVE  client'.got = od[client.obj]
    BY Zenon
  <2>1. SdoTypeInv /\ InStep /\ Values
    BY DEF SdoInv
  <2>2. CASE early'
    <3>1. ExpireEarly
      BY <2>2 DEF SdoNext, Node, Bus, InitiateUpload, UploadSegment, InitiateDownload,
                  DownloadSegment, IgnoreSdo, ProceedNMTstateChange, Initialise, Start, Retry,
                  Begin, Expire, ExpireEarly, Receive, MasterCommands, AddressMoved, sdoVars
    <3>2. client'.st = "failed"
      BY <2>1, <3>1, WithState DEF ExpireEarly, BreakOff, SdoTypeInv, ClientType
    <3> QED  BY <3>2
  <2>3. CASE ~early'
    BY <2>1, <2>3, InStepStep
  <2> QED  BY <2>2, <2>3
<1> QED  BY <1>1, SdoInvariant, PTL DEF SdoSpec, UploadIntact
=============================================================================
