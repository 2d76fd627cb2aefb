------------------------------ MODULE SdoServer ------------------------------
(***************************************************************************)
(* The CANopen node as a configuration tool sees it: the NMT state machine *)
(* (src/CanOpenMain/nmtSlave.c, appli.c, init.c) and the server half of    *)
(* the SDO protocol (src/CanOpenMain/sdo.c, objacces.c), which reads and   *)
(* writes the object dictionary in one frame or in segments.  The client   *)
(* and the master are on the bus.  The client half of sdo.c is not called  *)
(* by any board.  Bytes are named after the transfer they belong to.       *)
(***************************************************************************)
EXTENDS Nmt, Naturals, Sequences, FiniteSets, FiniteSetsExt

CONSTANTS
  WRITABLE, READONLY,   \* objects of SMALL bytes, and read-only ones of LARGE bytes
  SMALL, LARGE,
  EXPEDITED,            \* bytes that fit into the first frame, 4
  SEGMENT,              \* bytes of a segment, 7
  PIECE,                \* a client may cut a download finer than that
  SDO_MAX_NODE_ID,      \* number of transfer lines, 2
  SDO_MAX_DOMAIN_LEN,   \* bytes a line can hold, 32
  TRANSFERS,            \* bound: transfers of the client
  UPSETS                \* bound: frames lost, early timeouts, NMT commands

Objects  == WRITABLE \cup READONLY
NoObject == "index 0"         \* what a reset line holds; scanOD knows no such index
Indices  == Objects \cup {NoObject}

ASSUME SdoAssumption ==
  /\ WRITABLE \cap READONLY = {} /\ IsFiniteSet(Objects) /\ NoObject \notin Objects
  /\ EXPEDITED \in Nat \ {0} /\ SMALL \in 1 .. EXPEDITED
  /\ SDO_MAX_DOMAIN_LEN \in 1 .. 255
  /\ LARGE \in EXPEDITED + 1 .. SDO_MAX_DOMAIN_LEN
  /\ SEGMENT \in Nat \ {0} /\ PIECE \in 1 .. SEGMENT
  /\ SDO_MAX_NODE_ID \in Nat \ {0, 1}
  /\ TRANSFERS \in Nat /\ UPSETS \in Nat

Size(o) == IF o \in WRITABLE THEN SMALL ELSE LARGE

Lines == 0 .. SDO_MAX_NODE_ID - 1
Slots == 0 .. SDO_MAX_DOMAIN_LEN - 1

\* The i-th byte that transfer n carries for object o; transfer 0 is what the
\* dictionary holds at first.
Data(n, o, len) == [i \in 1 .. len |-> <<n, o, i>>]
Zero == <<>>

VARIABLES
  transfers,   \* the transfer lines of a bus
  od,          \* the object dictionary
  rx, tx,      \* frames on the way to the node and to the client
  client,      \* what the client is doing
  upsets,      \* bound of UPSETS
  early        \* history: the client once gave up although an answer was on its way

sdoVars == <<nodeState, transfers, od, rx, tx, client, upsets, early>>

FreeLine == [own |-> FALSE, index |-> NoObject, count |-> 0, offset |-> 0,
             data |-> [i \in Slots |-> Zero]]

Idle == [st |-> "idle", n |-> 0, up |-> FALSE, obj |-> NoObject, len |-> 0,
         how |-> "whole", toggle |-> 0, pos |-> 0, got |-> <<>>]

SdoInit ==
  /\ nodeState = "Initialisation"
  /\ transfers = [l \in Lines |-> FreeLine]
  /\ od = [o \in Objects |-> Data(0, o, Size(o))]
  /\ rx = <<>> /\ tx = <<>>
  /\ client = Idle
  /\ upsets = 0 /\ early = FALSE

Upset == upsets < UPSETS /\ upsets' = upsets + 1

\* A frame arrives or is dropped on its way, by a full ring for instance.
Carry(queue, new, frame) ==
  \/ new = Append(queue, frame) /\ UNCHANGED upsets
  \/ new = queue /\ Upset

-----------------------------------------------------------------------------
(* The node.                                                               *)

\* A line that holds the node's own id is in use.
OnUse == {l \in Lines : transfers[l].own}
Unused == Lines \ OnUse

\* Mistake: every initiation and every segment takes a free line.
Bug_LineOnUseElseFree == IF Unused # {} THEN Min(Unused) ELSE Min(OnUse)

LineOnUseElseFree == IF OnUse # {} THEN Min(OnUse) ELSE Min(Unused)

Reply(frame) == Carry(tx, tx', frame)

Take(type) == rx # <<>> /\ Head(rx).t = type /\ rx' = Tail(rx)

NodeIsQuiet == UNCHANGED <<tx, upsets>>

\* Mistake: every segment is copied from the beginning of the line.
Bug_Read(line, k) == [i \in 1 .. k |-> line.data[i - 1]]

\* Bytes of a line from its offset on; what lies behind the line is foreign.
Read(line, k) ==
  [i \in 1 .. k |-> IF line.offset + i - 1 \in Slots
                    THEN line.data[line.offset + i - 1] ELSE Zero]

Filled(data, from, bytes) ==
  [i \in Slots |-> IF i - from \in 0 .. Len(bytes) - 1
                   THEN bytes[i - from + 1] ELSE data[i]]

\* setODentry: the object is known, the length fits exactly, it may be written.
Accepts(o, len) == o \in WRITABLE /\ len = Size(o)

SetODentry(o, line) ==
  od' = [od EXCEPT ![o] = [i \in 1 .. line.count |-> line.data[i - 1]]]

\* Mistake: the error is not looked at and the request acknowledged.
Bug_Refuse(l, o) ==
  /\ Reply([t |-> "idd", obj |-> o])
  /\ transfers' = [transfers EXCEPT ![l] = FreeLine]
  /\ UNCHANGED od

\* The dictionary refused: abort the transfer and reset its line.
Refuse(l, o) ==
  /\ Reply([t |-> "abort", obj |-> o])
  /\ transfers' = [transfers EXCEPT ![l] = FreeLine]
  /\ UNCHANGED od

\* Initiate upload: the object is copied into a free line, which the node's id
\* is not written to.
InitiateUpload ==
  /\ Serving /\ Take("idu")
  /\ LET o == Head(rx).obj
         l == Min(Unused)
         bytes == od[o]
     IN IF o \notin Objects THEN Refuse(l, o)
        ELSE /\ transfers' = [transfers EXCEPT
                  ![l].index = o, ![l].count = Len(bytes), ![l].offset = 0,
                  ![l].data = Filled(@, 0, bytes)]
             /\ Reply([t |-> "idu", obj |-> o, size |-> Len(bytes),
                       bytes |-> IF Len(bytes) <= EXPEDITED THEN bytes ELSE <<>>])
             /\ UNCHANGED od
  /\ UNCHANGED <<nodeState, client, early>>

\* Mistake: a line that has nothing left is kept.
Bug_UploadSegment ==
  /\ Serving /\ Take("uds")
  /\ LET l == LineOnUseElseFree
         left == (transfers[l].count + 256 - transfers[l].offset) % 256
         k == Min({left, SEGMENT})
     IN IF left = 0
        THEN UNCHANGED transfers /\ NodeIsQuiet
        ELSE /\ transfers' = [transfers EXCEPT ![l].offset = (@ + k) % 256]
             /\ Reply([t |-> "uds", toggle |-> Head(rx).toggle,
                       bytes |-> Read(transfers[l], k), last |-> left <= SEGMENT])
  /\ UNCHANGED <<nodeState, od, client, early>>

\* Upload segment: the next bytes of the line on use, else of the free line.
UploadSegment ==
  /\ Serving /\ Take("uds")
  /\ LET l == LineOnUseElseFree
         left == (transfers[l].count + 256 - transfers[l].offset) % 256
         k == Min({left, SEGMENT})
     IN IF left = 0
        THEN transfers' = [transfers EXCEPT ![l] = FreeLine] /\ NodeIsQuiet
        ELSE /\ transfers' = [transfers EXCEPT ![l].offset = (@ + k) % 256]
             /\ Reply([t |-> "uds", toggle |-> Head(rx).toggle,
                       bytes |-> Read(transfers[l], k), last |-> left <= SEGMENT])
  /\ UNCHANGED <<nodeState, od, client, early>>

\* Mistake: the offset of a download that was broken off is kept.
Bug_Begun(line, m) ==
  [line EXCEPT !.own = TRUE, !.index = m.obj, !.count = m.size,
               !.data = IF m.e THEN Filled(@, 0, m.bytes) ELSE @]

\* A line at the start of a download.
Begun(line, m) ==
  [line EXCEPT !.own = TRUE, !.index = m.obj, !.count = m.size, !.offset = 0,
               !.data = IF m.e THEN Filled(@, 0, m.bytes) ELSE @]

\* Initiate download: in one frame, or the announcement of segments.
InitiateDownload ==
  /\ Serving /\ Take("idd")
  /\ LET m == Head(rx)
         l == LineOnUseElseFree
         begun == Begun(transfers[l], m)
     IN IF m.e /\ ~Accepts(m.obj, m.size) THEN Refuse(l, m.obj)
        ELSE /\ IF m.e THEN SetODentry(m.obj, begun) ELSE UNCHANGED od
             /\ transfers' = [transfers EXCEPT ![l] = IF m.e THEN FreeLine ELSE begun]
             /\ Reply([t |-> "idd", obj |-> m.obj])
  /\ UNCHANGED <<nodeState, client, early>>

\* Download segment: the bytes are appended to the line; the last one writes the
\* object.  The test "e || c" that resets the line reads an e that this branch
\* never set, so the line may also be lost before the last segment.
DownloadSegment ==
  /\ Serving /\ Take("dds")
  /\ LET m == Head(rx)
         l == LineOnUseElseFree
         more == [transfers[l] EXCEPT !.data = Filled(@, transfers[l].offset, m.bytes),
                    !.offset = (@ + Len(m.bytes)) % 256]
         whole == [more EXCEPT !.count = more.offset, !.offset = 0]
     IN IF m.last /\ ~Accepts(whole.index, whole.count) THEN Refuse(l, whole.index)
        ELSE /\ IF m.last THEN SetODentry(whole.index, whole) ELSE UNCHANGED od
             /\ \E e \in BOOLEAN :
                  transfers' = [transfers EXCEPT ![l] =
                                  IF e \/ m.last THEN FreeLine ELSE more]
             /\ Reply([t |-> "dds", toggle |-> m.toggle])
  /\ UNCHANGED <<nodeState, client, early>>

\* Any other SDO frame, the client's abort among them, marks the line's state,
\* which the server never looks at; in the other NMT states SDOs are ignored.
IgnoreSdo ==
  /\ \/ Take("abort")
     \/ ~Serving /\ \E t \in {"idu", "uds", "idd", "dds"} : Take(t)
  /\ NodeIsQuiet
  /\ UNCHANGED <<nodeState, transfers, od, client, early>>

ProceedNMTstateChange ==
  /\ Take("nmt")
  /\ LET cs == Head(rx).cs
     IN nodeState' = CASE nodeState = "Initialisation" -> nodeState
                       [] cs = "start" -> "Operational"
                       [] cs = "stop"  -> "Stopped"
                       [] cs = "pre"   -> "Pre_operational"
                       [] cs = "reset" -> "Initialisation"
  /\ NodeIsQuiet
  /\ UNCHANGED <<transfers, od, client, early>>

\* DriverCanOpen: every (re-)initialisation resets the lines and sets up the
\* CAN controllers, which empties their rings.
Initialise ==
  /\ nodeState = "Initialisation"
  /\ nodeState' = "Pre_operational"
  /\ transfers' = [l \in Lines |-> FreeLine]
  /\ rx' = <<>> /\ tx' = <<>>
  /\ UNCHANGED <<od, client, upsets, early>>

Node ==
  \/ InitiateUpload \/ UploadSegment \/ InitiateDownload \/ DownloadSegment
  \/ IgnoreSdo \/ ProceedNMTstateChange \/ Initialise

-----------------------------------------------------------------------------
(* The client: one transfer at a time, as CiA 301 asks.  It announces the  *)
(* length of a download, checks toggle bits and the announced length of an *)
(* upload, and tries again or goes on after a transfer has failed.         *)

InitialFrame(c) ==
  IF c.up THEN [t |-> "idu", obj |-> c.obj]
  ELSE [t |-> "idd", obj |-> c.obj, size |-> c.len, e |-> c.how = "expedited",
        bytes |-> IF c.how = "expedited" THEN Data(c.n, c.obj, c.len) ELSE <<>>]

\* The next frame of a segmented transfer.
NextFrame(c) ==
  IF c.up THEN [t |-> "uds", toggle |-> c.toggle]
  ELSE LET k == Min({c.len - c.pos, IF c.how = "pieces" THEN PIECE ELSE SEGMENT})
       IN [t |-> "dds", toggle |-> c.toggle, last |-> c.pos + k = c.len,
           bytes |-> SubSeq(Data(c.n, c.obj, c.len), c.pos + 1, c.pos + k)]

ServerIsLeft == UNCHANGED <<nodeState, transfers, od>>

Begin(c) ==
  /\ client' = [c EXCEPT !.st = "initiated", !.toggle = 0, !.pos = 0, !.got = <<>>]
  /\ Carry(rx, rx', InitialFrame(c))
  /\ UNCHANGED <<tx, early>> /\ ServerIsLeft

\* The next transfer: an upload, or a download of the right or a wrong length.
Start ==
  /\ client.st \in {"idle", "done", "refused", "failed"} /\ client.n < TRANSFERS
  /\ \E o \in Indices :
       \/ Begin([Idle EXCEPT !.n = client.n + 1, !.obj = o, !.up = TRUE])
       \/ \E len \in {Size(o), SMALL - 1} \ {0},
             how \in {"expedited", "whole", "pieces"} :
            /\ how = "expedited" => len <= EXPEDITED
            /\ Begin([Idle EXCEPT !.n = client.n + 1, !.obj = o, !.len = len, !.how = how])

Retry == client.st = "failed" /\ Begin(client)

\* No answer has come for a while.  If an answer was still on its way this
\* is an upset: the client's timeout is long against a pass of the main loop.
BreakOff ==
  /\ client.st \in {"initiated", "segments"}
  /\ client' = [client EXCEPT !.st = "failed"]
  /\ rx' = Append(rx, [t |-> "abort"])
  /\ UNCHANGED tx /\ ServerIsLeft

NothingComes == rx = <<>> /\ tx = <<>> /\ nodeState # "Initialisation"

Expire       == NothingComes /\ BreakOff /\ UNCHANGED <<upsets, early>>
ExpireEarly  == ~NothingComes /\ BreakOff /\ Upset /\ early' = TRUE

\* The client goes on with the segment that follows.
Continue(c) ==
  /\ client' = [c EXCEPT !.st = "segments"]
  /\ Carry(rx, rx', NextFrame(c))

Conclude(c, result) ==
  /\ client' = [c EXCEPT !.st = result]
  /\ IF result = "failed" THEN rx' = Append(rx, [t |-> "abort"]) ELSE UNCHANGED rx
  /\ UNCHANGED upsets

Awaits(type) ==
  \/ client.st = "initiated" /\ type = (IF client.up THEN "idu" ELSE "idd")
  \/ client.st = "segments"  /\ type = (IF client.up THEN "uds" ELSE "dds")

\* An answer fits if it is of the awaited kind and names the object or toggle.
Fits(m) ==
  /\ Awaits(m.t)
  /\ m.t \in {"idu", "idd"} => m.obj = client.obj
  /\ m.t \in {"uds", "dds"} => m.toggle = client.toggle

Answer(m) ==
  CASE m.t = "idd" ->
         IF client.how = "expedited" THEN Conclude(client, "done") ELSE Continue(client)
    [] m.t = "dds" ->
         LET sent == client.pos + Len(NextFrame(client).bytes)
             c == [client EXCEPT !.pos = sent, !.toggle = 1 - @]
         IN IF sent = client.len THEN Conclude(c, "done") ELSE Continue(c)
    [] m.t = "idu" ->
         LET c == [client EXCEPT !.len = m.size, !.got = m.bytes]
         IN IF m.bytes # <<>> THEN Conclude(c, "done") ELSE Continue(c)
    [] m.t = "uds" ->
         LET c == [client EXCEPT !.got = @ \o m.bytes, !.toggle = 1 - @]
         IN IF m.last \/ Len(c.got) > c.len
            THEN Conclude(c, IF Len(c.got) = c.len THEN "done" ELSE "failed")
            ELSE Continue(c)

Receive ==
  /\ tx # <<>> /\ tx' = Tail(tx)
  /\ LET m == Head(tx)
     IN IF m.t = "abort" /\ client.st \in {"initiated", "segments"}
        THEN Conclude(client, "refused")
        ELSE IF m.t # "abort" /\ Fits(m) THEN Answer(m)
        ELSE UNCHANGED <<rx, client, upsets>>
  /\ UNCHANGED early /\ ServerIsLeft

\* The master commands a state, and CyclicModules starts over when the address
\* switch was moved in the first second.
MasterCommands ==
  /\ Upset
  /\ \E cs \in {"start", "stop", "pre", "reset"} : rx' = Append(rx, [t |-> "nmt", cs |-> cs])
  /\ UNCHANGED <<tx, client, early>> /\ ServerIsLeft

AddressMoved ==
  /\ Upset
  /\ nodeState' = "Initialisation"
  /\ UNCHANGED <<transfers, od, rx, tx, client, early>>

Bus ==
  \/ Start \/ Retry \/ Expire \/ ExpireEarly \/ Receive \/ MasterCommands \/ AddressMoved

SdoNext == Node \/ Bus
SdoSpec == SdoInit /\ [][SdoNext]_sdoVars

\* The main loop runs for ever, the bus delivers, and the client neither waits
\* for ever nor gives a transfer up for good.
Fairness ==
  /\ WF_sdoVars(Node) /\ WF_sdoVars(Receive)
  /\ WF_sdoVars(Expire) /\ WF_sdoVars(Start) /\ WF_sdoVars(Retry)
SdoFairSpec == SdoSpec /\ Fairness

-----------------------------------------------------------------------------

\* The dictionary is only written with the whole data of one transfer: frames
\* lost, transfers broken off and begun anew, resets and the line that may be lost
\* between two segments never mix or truncate a value (setODentry).  This takes a
\* client that waits long enough: the server does not check the toggle bit.
DictionaryWhole ==
  \/ early
  \/ \A o \in Objects : \E n \in 0 .. TRANSFERS : od[o] = Data(n, o, Size(o))

\* An upload the client takes as complete is the object it asked for, if no line
\* is on use: segments are served from the line on use, a download broken off, and
\* only else from the free line the upload was begun in (proceedSDO, case server).
\* Of an impatient client the toggle bit may take an old segment for the new one.
UploadIntact ==
  [][client.st # "done" /\ client'.st = "done" /\ client.up /\ OnUse = {} /\ ~early =>
       client'.got = od[client.obj]]_sdoVars

\* An acknowledged download is in the dictionary.
DownloadStored ==
  ~early /\ client.st = "done" /\ ~client.up =>
    od[client.obj] = Data(client.n, client.obj, Size(client.obj))

\* However many downloads are broken off, one line stays free: proceedSDO uses
\* its variable line unset when it finds neither a line on use nor a free one.
LineLeft == Unused # {}

\* When the node is left in a state that serves SDOs, the client's last transfer
\* is carried out or refused, whatever lines earlier transfers have left behind.
Completes ==
  <>[]Serving => <>[](client.n = TRANSFERS /\ client.st \in {"done", "refused"})
=============================================================================
