----------------------------- MODULE BootUpdate ------------------------------
(***************************************************************************)
(* Renewing the flash memory over CAN.  The main program answers "BOOTUPD" *)
(* by the updater of the boot loader (ServiceBootloadUpd, src/global.c)    *)
(* and "BOOTLOAD" by the boot loader itself (src/Bootload/bootloader.c,    *)
(* copied into the RAM).  Both poll one message box, build command lines,  *)
(* read the records of the image and program their words; they differ in   *)
(* what they erase and which records they take.  The host, which sends one *)
(* message and waits for the answer, may send a record again and may send  *)
(* the updater more than its records; it is not part of the sources.       *)
(*                                                                         *)
(* Four bytes are one token: a frame carries two, a record RECORD of them  *)
(* (11 in the code).  The first token of a record is "S214", the second    *)
(* and half of the third are its address, half of the last is its          *)
(* checksum, and a word is a half of one and a half of the next.  A command *)
(* is its name and the byte 0, "END" with its 0 is a single token.         *)
(***************************************************************************)
EXTENDS Naturals, Sequences, SequencesExt

CONSTANTS
  RECORDS,           \* the image is sent as the records 1 .. RECORDS
  LOADER,            \* those from DF0000 to F80000: the boot loader's sectors
  BELOW,             \* those below DF0000; the rest is the application
  RECORD,            \* tokens of a record
  BLANK,             \* the words of a record that are FFFF in the image
  MAX_LEN_CMD_LINE,  \* tokens of a command line
  WAIT,              \* turns of the wait for a transmission, 0xFFFF
  UPSETS             \* bound: overrun frames, unsent answers, bus off, power cuts, repetitions

ASSUME BootAssumption ==
  /\ RECORDS \in Nat \ {0} /\ LOADER \subseteq 1 .. RECORDS /\ BELOW \subseteq 1 .. RECORDS
  /\ LOADER \cap BELOW = {}
  /\ RECORD \in Nat /\ RECORD > 4 /\ RECORD % 2 = 1
  /\ BLANK \subseteq 4 .. RECORD
  /\ MAX_LEN_CMD_LINE \in Nat /\ MAX_LEN_CMD_LINE > 2
  /\ WAIT \in Nat /\ UPSETS \in Nat

VARIABLES
  flash,   \* the words of the flash
  node,    \* the program that runs and where it stands
  box,     \* the message box that receives: a frame (<<>>: NEWDAT clear) and MSGLST
  tx,      \* message box 32: a frame and its transmission request
  init,    \* CTRLR.INIT: the controller went off the bus
  host,    \* the host: which area it renews, its step, the frames it still sends
  upsets,  \* bound of UPSETS
  hurt,    \* history: something went wrong while the boot loader was running
  astray,  \* history: the updater changed a word of the application
  outrun   \* history: the host sent a record again that the node had taken in part

bootVars == <<flash, node, box, tx, init, host, upsets, hurt, astray, outrun>>

-----------------------------------------------------------------------------
(* The image.                                                              *)

Erased == <<"FFFF">>
Junk   == <<"junk">>
Tokens(r) == [i \in 1 .. RECORD |-> <<r, i>>]

\* The word that ends with the first half of a token is named after it.
Words == 4 .. RECORD
Cells == ((1 .. RECORDS) \ BELOW) \X Words
InArea(area) == {c \in Cells : (c[1] \in LOADER) <=> (area = "loader")}

\* The word of the image that belongs in a cell, and what was there before.
Value(cell) == IF cell[2] \in BLANK THEN Erased ELSE cell
Old(cell)   == <<"old", cell[1], cell[2]>>

Renewed(area) == \A c \in InArea(area) : flash[c] = Value(c)
Kept(area)    == \A c \in InArea(area) : flash[c] = Old(c)
Whole(area)   == Renewed(area) \/ Kept(area)

-----------------------------------------------------------------------------
(* The host.                                                               *)

Script == << <<"ENTER">>, <<"ERASE">>, <<"WRITE">> >>
             \o [r \in 1 .. RECORDS |-> <<"RECORD", r>>] \o << <<"END">>, <<"REBOOT">> >>

\* Tokens that are not part of a record are names; "END" is followed by its 0.
Zero     == <<"0">>
BootUpd  == << <<"BOOTUPD">> >>
BootLoad == << <<"BOOTLOAD">> >>
EndFrame == << <<"END">> >>

Pairs(s) == [k \in 1 .. (Len(s) + 1) \div 2 |->
               SubSeq(s, 2 * k - 1, IF 2 * k <= Len(s) THEN 2 * k ELSE Len(s))]

Frames(job, step) ==
  CASE step[1] = "RECORD" -> Pairs(Tokens(step[2]))
    [] step[1] = "ENTER"  -> <<IF job = "loader" THEN BootUpd ELSE BootLoad>>
    [] step[1] = "END"    -> <<EndFrame>>
    [] OTHER              -> << <<step, Zero>> >>

Answers(step) ==
  CASE step[1] = "RECORD" -> {"OK_A", "OK_B"}
    [] step[1] = "WRITE"  -> {"READY"}
    [] OTHER              -> {"OK"}

Asking(job, at) == [job |-> job, at |-> at, st |-> "asks", out |-> Frames(job, Script[at])]

\* The records of the area that is renewed.
Scope == IF host.job = "app" THEN (1 .. RECORDS) \ BELOW ELSE LOADER

\* The boot loader gets the records it has erased the flash for; to the updater a host sends
\* these at least, and perhaps the whole image.
Following ==
  LET Passes(at) == Script[at][1] = "RECORD" /\ Script[at][2] \notin Scope
  IN {at \in host.at + 1 .. Len(Script) :
        /\ \A a \in host.at + 1 .. at - 1 : Passes(a)
        /\ host.job = "app" => ~Passes(at)}

-----------------------------------------------------------------------------

NoFrame == <<>>
NoBox   == [frame |-> NoFrame, lost |-> FALSE]
NoTx    == [frame |-> "", req |-> FALSE]
Home    == <<1, 0>>

Idle(prog) == [prog |-> prog, pc |-> IF prog \in {"upd", "boot"} THEN "cmd" ELSE "run",
               line |-> <<>>, buf |-> <<>>, erase |-> <<>>, word |-> 4, to |-> Home,
               answer |-> <<>>, then |-> "cmd", wait |-> 0]

BootInit ==
  /\ flash = [c \in Cells |-> Old(c)]
  /\ node = Idle("app")
  /\ box = NoBox /\ tx = NoTx /\ init = FALSE
  /\ host = Asking("loader", 1)
  /\ upsets = 0 /\ hurt = FALSE /\ astray = FALSE /\ outrun = FALSE

Mishap == upsets < UPSETS /\ upsets' = upsets + 1 /\ hurt' = (hurt \/ node.prog = "boot")
Upset  == Mishap /\ UNCHANGED <<astray, outrun>>
Calm   == UNCHANGED <<upsets, hurt, astray, outrun>>

\* After a reset the program of the application area starts, if it is there.
Reset ==
  /\ node' = Idle(IF Whole("app") THEN "app" ELSE "dead")
  /\ box' = NoBox /\ tx' = NoTx /\ init' = FALSE

PowerCut == Upset /\ Reset /\ UNCHANGED <<flash, host>>

-----------------------------------------------------------------------------
(* The bus.                                                                *)

\* The single box is overwritten by the frame that comes next; a controller
\* that is off the bus misses it, the other nodes acknowledge it.
Arrive ==
  /\ host.out # <<>>
  /\ host' = [host EXCEPT !.out = Tail(@)]
  /\ IF init \/ node.prog = "dead"
     THEN UNCHANGED box /\ Calm
     ELSE /\ box' = [frame |-> Head(host.out), lost |-> box.frame # NoFrame]
          /\ IF box.frame = NoFrame THEN Calm ELSE Upset
  /\ UNCHANGED <<flash, node, tx, init>>

\* The host goes on when it hears what it waits for, begins again with ERASE
\* when it hears an error, and lets all else pass.
Hear(answer) ==
  LET step == Script[host.at]
  IN IF host.st # "asks" \/ host.out # <<>> THEN {host}
     ELSE IF answer = "ERORR" /\ step[1] = "RECORD" THEN {Asking(host.job, 2)}
     ELSE IF answer \notin Answers(step) THEN {host}
     ELSE IF host.at < Len(Script) THEN {Asking(host.job, at) : at \in Following}
     ELSE {[host EXCEPT !.st = "finished"]}

Transmitted ==
  /\ tx.req /\ ~init
  /\ tx' = [tx EXCEPT !.req = FALSE]
  /\ host' \in Hear(tx.frame)
  /\ UNCHANGED <<flash, node, box, init>> /\ Calm

BusOff ==
  /\ ~init /\ node.prog \in {"upd", "boot"}
  /\ init' = TRUE /\ Upset
  /\ UNCHANGED <<flash, node, box, tx, host>>

NextJob ==
  /\ host.st = "finished" /\ node.pc = "run"
  /\ host' = IF host.job = "loader" THEN Asking("app", 1)
             ELSE [host EXCEPT !.st = "done"]
  /\ UNCHANGED <<flash, node, box, tx, init>> /\ Calm

\* The host's patience outlasts every answer on its way.
Unanswered ==
  /\ host.st = "asks" /\ host.out = <<>>
  /\ box.frame = NoFrame /\ ~tx.req
  /\ node.pc \in {"cmd", "write", "run"}

\* It switches the power off and on and begins again, which a node whose application is
\* erased does not survive: then it gives up.
HostTimeout ==
  /\ Unanswered
  /\ IF host.job = "loader" \/ host.at = 1
     THEN Reset /\ host' = Asking(host.job, 1)
     ELSE host' = [host EXCEPT !.st = "quit"] /\ UNCHANGED <<node, box, tx, init>>
  /\ UNCHANGED flash /\ Calm

\* Or it sends its record again, to a node that has none of it, all of it or a part.
Repeat ==
  /\ Unanswered /\ Script[host.at][1] = "RECORD"
  /\ host' = Asking(host.job, host.at)
  /\ outrun' = (outrun \/ (node.pc = "write" /\ node.buf # <<>>))
  /\ Mishap
  /\ UNCHANGED <<flash, node, box, tx, init, astray>>

-----------------------------------------------------------------------------
(* The programs' CAN driver.                                               *)

\* SendCanBuf cuts the answer into frames, sends them one after the other and
\* does not look at what the sending returns.
Say(n, frames, then) == [n EXCEPT !.pc = "load", !.answer = frames, !.then = then]

LoadFrame ==
  /\ node.pc = "load"
  /\ tx' = [frame |-> Head(node.answer), req |-> TRUE]
  /\ node' = [node EXCEPT !.pc = "wait", !.wait = 0, !.answer = Tail(@)]
  /\ UNCHANGED <<flash, box, init, host>> /\ Calm

WaitOn ==
  /\ node.pc = "wait" /\ tx.req /\ ~init /\ node.wait < WAIT
  /\ node' = [node EXCEPT !.wait = @ + 1]
  /\ UNCHANGED <<flash, box, tx, init, host>> /\ Calm

\* The condition is evaluated from left to right and counts even where it ends
\* the loop; the request is taken back if the count then stands at WAIT.
Counted == IF tx.req THEN node.wait + 1 ELSE node.wait

Sent ==
  /\ node.pc = "wait"
  /\ \/ ~tx.req /\ Calm
     \/ tx.req /\ init /\ Calm
     \/ tx.req /\ ~init /\ node.wait = WAIT /\ Upset
  /\ tx' = IF Counted = WAIT \/ init THEN [tx EXCEPT !.req = FALSE] ELSE tx
  /\ node' = [node EXCEPT !.pc = IF node.answer = <<>> THEN node.then ELSE "load"]
  /\ UNCHANGED <<flash, box, init, host>>

\* CanReciveMsg: a controller off the bus is started again; the box is read,
\* and writing MSGLST back may raise NEWDAT once more.
Poll ==
  /\ init' = FALSE
  /\ box' \in {NoBox} \cup
       (IF box.lost /\ box.frame # NoFrame THEN {[box EXCEPT !.lost = FALSE]} ELSE {})
  /\ init \/ box.frame # NoFrame

-----------------------------------------------------------------------------
(* The commands.                                                           *)

Typed(line, token) ==
  IF Len(line) + 1 >= MAX_LEN_CMD_LINE THEN <<>> ELSE Append(line, token)

Ends == {Zero, <<"END">>}

\* The tokens of a frame, one or two.
TypedFrame(line, frame) ==
  IF Len(frame) = 1 THEN Typed(line, frame[1]) ELSE Typed(Typed(line, frame[1]), frame[2])

\* The command line a frame completes; <<>> when it completes none.
Command(line, frame) ==
  IF Last(frame) \notin Ends THEN <<>>
  ELSE IF frame = EndFrame THEN line \o frame
  ELSE Typed(line, frame[1])

\* Mutant: the updater erases what the boot loader erases.
Bug_ToErase(prog) == <<"loader", "app">>

ToErase(prog) == IF prog = "upd" THEN <<"loader">> ELSE <<"loader", "app">>

Obey(n, command) ==
  CASE command = << <<"ERASE">> >>  -> [n EXCEPT !.pc = "erase", !.erase = ToErase(n.prog)]
    [] command = << <<"WRITE">> >>  -> Say([n EXCEPT !.buf = <<>>], <<"READY">>, "write")
    [] command = << <<"REBOOT">> >> -> Say(n, <<"OK">>, "reset")
    [] OTHER                  -> n

ReadCommand ==
  /\ node.pc = "cmd"
  /\ Poll
  /\ node' = IF box.frame = NoFrame THEN node
             ELSE LET line == IF Last(box.frame) \in Ends THEN <<>>
                              ELSE TypedFrame(node.line, box.frame)
                  IN Obey([node EXCEPT !.line = line], Command(node.line, box.frame))
  /\ UNCHANGED <<flash, tx, host>> /\ Calm

EraseSectors ==
  /\ node.pc = "erase"
  /\ LET area == Head(node.erase)
     IN flash' = [c \in Cells |-> IF c \in InArea(area) THEN Erased ELSE flash[c]]
  /\ node' = IF Len(node.erase) > 1 THEN [node EXCEPT !.erase = Tail(@)]
             ELSE Say([node EXCEPT !.erase = <<>>], <<"OK">>, "cmd")
  /\ UNCHANGED <<box, tx, init, host>> /\ Calm

RebootNode ==
  /\ node.pc = "reset"
  /\ Reset
  /\ UNCHANGED <<flash, host>> /\ Calm

-----------------------------------------------------------------------------
(* Reading and programming the records.                                    *)

Refused == <<"ERORR", "digits", "digits">>

\* The address is read up to the first character that is not a digit: without the right
\* third token its lower half is any, and if there is no digit the address is below DF0000.
Short(buf)  == Len(buf[3]) = 1 \/ buf[3][2] = 1
Starts(buf) ==
  IF buf[3] = <<buf[1][1], 3>> THEN {<<buf[1][1], 0>>}
  ELSE IF Short(buf) THEN {<<RECORDS + 1, 0>>}
  ELSE (0 .. RECORDS) \X (0 .. RECORD - 4)

\* Mutant: a record that is left alone stays counted.
Bug_BeginRecord(n) ==
  LET head == n.buf[1]
  IN IF ~(Len(head) = 2 /\ head[2] = 1) THEN {Say(n, Refused, "cmd")}
     ELSE IF n.prog = "upd" /\ (head[1] \in BELOW \/ Short(n.buf)) THEN {Say(n, <<"OK_B">>, "write")}
     ELSE {[n EXCEPT !.pc = "program", !.word = 4, !.to = start] : start \in Starts(n.buf)}

\* write_MHX_com up to the first word.  The updater programs from DF0000 on, the records of
\* the application too, and leaves what is below alone, whatever its checksum.
BeginRecord(n) ==
  LET head == n.buf[1]
  IN IF ~(Len(head) = 2 /\ head[2] = 1) THEN {Say(n, Refused, "cmd")}
     ELSE IF n.prog = "upd" /\ (head[1] \in BELOW \/ Short(n.buf))
          THEN {Say([n EXCEPT !.buf = <<>>], <<"OK_B">>, "write")}
     ELSE {[n EXCEPT !.pc = "program", !.word = 4, !.to = start] : start \in Starts(n.buf)}

\* Mutant: END is taken for the beginning of a record.
Bug_Gather(n) == IF Len(n.buf) = RECORD THEN BeginRecord(n) ELSE {n}

\* The records are counted, END is known by its count.
Gather(n) ==
  IF Len(n.buf) = RECORD THEN BeginRecord(n)
  ELSE IF n.buf = EndFrame THEN {Say([n EXCEPT !.buf = <<>>], <<"OK">>, "cmd")}
  ELSE {n}

ReadRecord ==
  /\ node.pc = "write"
  /\ Poll
  /\ node' \in Gather([node EXCEPT !.buf = @ \o box.frame])
  /\ UNCHANGED <<flash, tx, host>> /\ Calm

\* Nothing compares the count with the room there is: past it the memory is undefined, and
\* the node is not followed any further.
Wild == Len(node.buf) > RECORD

\* Programming clears bits only: over anything else than an erased word it
\* leaves neither the old nor the new.  The result of write is not looked at.
Programmed(old, new) ==
  IF new = Erased \/ old = new THEN old ELSE IF old = Erased THEN new ELSE Junk

\* Two halves that do not belong together make any word.
Data(buf, i) ==
  IF \E cell \in Cells : buf[i] = cell /\ buf[i - 1] = <<cell[1], cell[2] - 1>>
  THEN {Value(buf[i])} ELSE {Erased, Junk}

\* The upper half of the address is right, the record stays within its area.
Hit(n) ==
  LET i == n.word + n.to[2]
  IN IF i <= RECORD THEN <<n.to[1], i>> ELSE <<n.to[1] + 1, i - (RECORD - 3)>>

SameArea(q, r) == (q \in LOADER) <=> (r \in LOADER)

ProgramWord ==
  /\ node.pc = "program" /\ node.word <= RECORD
  /\ \E new \in Data(node.buf, node.word) :
       flash' = [c \in Cells |-> IF c = Hit(node) /\ SameArea(c[1], node.buf[1][1])
                                THEN Programmed(flash[c], new) ELSE flash[c]]
  /\ astray' = (astray \/ (node.prog = "upd" /\ \E c \in InArea("app") : flash'[c] # flash[c]))
  /\ node' = [node EXCEPT !.word = @ + 1]
  /\ UNCHANGED <<box, tx, init, host, upsets, hurt, outrun>>

\* Mutant: the sum is worked out and not compared.
Bug_SumRight(buf) == Len(buf) = RECORD

\* The checksum is taken as perfect: it is right for a record that was sent.
SumRight(buf) == buf = Tokens(buf[1][1])

CheckSum ==
  /\ node.pc = "program" /\ node.word = RECORD + 1
  /\ LET done == [node EXCEPT !.word = 4, !.to = Home]
     IN node' = IF SumRight(node.buf)
                THEN Say([done EXCEPT !.buf = <<>>], <<"OK_A">>, "write")
                ELSE Say(done, Refused, "cmd")
  /\ UNCHANGED <<flash, box, tx, init, host>> /\ Calm

\* The updater runs from the flash of the application: where that is spoilt it runs into
\* nothing, and what the watchdog starts is spoilt as well.
Derail ==
  /\ node.prog = "upd" /\ ~Whole("app")
  /\ Reset
  /\ UNCHANGED <<flash, host>> /\ Calm

-----------------------------------------------------------------------------
(* Entering the programs.                                                  *)

Enter(prog) == Say(Idle(prog), <<"OK">>, "cmd")

\* ServiceBootloadUpd: the updater runs from where it is and configures the
\* boxes anew.
EnterUpdater ==
  /\ node.prog = "app" /\ box.frame = BootUpd
  /\ node' = Enter("upd")

\* ServiceBootloadCan: the loader's sectors are copied into the RAM and entered.
EnterLoader ==
  /\ node.prog = "app" /\ box.frame = BootLoad
  /\ node' = IF Whole("loader") THEN Enter("boot") ELSE Idle("dead")

Ignore ==
  /\ node.prog = "app" /\ box.frame \notin {BootUpd, BootLoad}
  /\ UNCHANGED node

Main ==
  /\ box.frame # NoFrame
  /\ EnterUpdater \/ EnterLoader \/ Ignore
  /\ box' = NoBox
  /\ UNCHANGED <<flash, tx, init, host>> /\ Calm

-----------------------------------------------------------------------------

Node ==
  /\ ~Wild
  /\ \/ Main \/ ReadCommand \/ EraseSectors \/ RebootNode
     \/ ReadRecord \/ ProgramWord \/ CheckSum
     \/ LoadFrame \/ WaitOn \/ Sent

BootNext == \/ Node \/ Derail \/ Arrive \/ Transmitted \/ BusOff \/ PowerCut
            \/ NextJob \/ HostTimeout \/ Repeat

BootSpec == BootInit /\ [][BootNext]_bootVars

\* The node runs on, the bus carries what is given to it, the host acts.
BootFairSpec ==
  /\ BootSpec
  /\ WF_bootVars(Node) /\ WF_bootVars(Arrive) /\ WF_bootVars(Transmitted)
  /\ WF_bootVars(NextJob) /\ WF_bootVars(HostTimeout)

-----------------------------------------------------------------------------
(* Properties.                                                             *)

\* Nothing but the count of the bytes on their way keeps BufferReadCom from overflowing:
\* whatever is overrun, read twice or cut off, a record never runs past its end, unless the
\* host sends it again to a node that has a part of it already.
CountInRange == Wild => outrun

\* The records are programmed before their checksum is looked at and where a shifted address
\* sends them.  Yet while the node takes records, and once the image has ended, every record
\* the host has seen acknowledged since it erased is in the flash word for word.
AckedIsStored ==
  LET taking == node.pc = "write" \/ (node.pc \in {"load", "wait"} /\ node.then = "write")
  IN taking \/ host.at = Len(Script)
       => \A r \in Scope : host.at > r + 3
            => outrun \/ \A i \in Words : flash[<<r, i>>] = Value(<<r, i>>)

\* Only three things leave a node that does not start: a mishap while the boot loader itself
\* works, an updater that was sent records of the application, and a host that repeats.
NeverDeadBefore == node.prog = "dead" => hurt \/ astray \/ outrun

\* However often a frame is overrun, a wait ends unsent, the bus goes off, the power fails or
\* a record is repeated as a whole, the renewal comes to its end, these three apart.
Completes == <>(host.st = "done" \/ hurt \/ astray \/ outrun)

=============================================================================
