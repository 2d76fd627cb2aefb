# A formal model of the MB96F330 firmware

The repository holds the firmware of a family of I/O boards around one 16-bit
Fujitsu MB96F33x controller: discrete inputs (NDD22/NDD23), outputs (OC9/OC10,
OK6), analogue boards (ADC8/9, DAC11/12), a remote panel and a few more. Every
board has three CAN lines with a small CANopen slave, a serial service link, an
I2C EEPROM with its settings, and a boot loader. There is no operating system:
`main` runs one endless loop, and interrupt handlers (CAN, UART, the millisecond
timer) work on the same variables.

This directory models the parts of that program whose correctness depends on
order: what an interrupt may do between two statements, what a restart leaves in
the EEPROM, what a lost frame does to a transfer. TLC checks each model on a
small instance; TLAPS proves the most important results for every size.

Source paths below are relative to `src/src/`.

## 1. The system

### Who runs when

* **Main loop** (`main.c`): in every pass `CyclicModules` (pins, power block,
  CANopen), the driver of the board, the serial commands. It never blocks, apart
  from `msDelay` and from the room `AddDataToSend0` waits for.
* **Interrupts**: `CAN_0_IRQ`..`CAN_2_IRQ`, `IRQ_RX0`/`IRQ_TX0`, the reload timer
  with `TimerService`. On the single processor a handler runs to its end before
  the main loop continues; the main loop may be stopped between any two of its
  statements unless it is between `DisInterrupt` and `EnInterrupt`.
* **Hardware**: the CAN controllers, UARTs, the input chips and the EEPROM go on
  while either of them runs.

### Inventory

| Component | State | Operations | Interacts with | Hard behaviour | What makes it correct |
|---|---|---|---|---|---|
| CAN driver, reception (`can.c`) | `stackMsgRcv`, `ptrMsgRcv`, 31 message boxes | receive branch of `CAN_x_IRQ`, `CAN_ReceiveMessage`, `ClearRX_BUFF`, `SetupCAN` | CANopen reads it every pass; `SetupCAN` is called by NMT reset and the address switch | message copied without a lock; frames arrive while the chain of boxes is emptied; indices reset on a live line | a FIFO: nothing torn, overtaken, forgotten |
| CAN driver, transmission (`can.c`) | `stackMsgSend`, `ptrMsgSend`, mailbox 32, interface registers IF1 | `CAN_SendMessage`, `SendFifoCanMsg` in the interrupt, `ClearTX_BUFF`, `SetupCAN` | all of CANopen sends through it | two ways into the mailbox; only the interrupt restarts the stack; IF1 shared | a FIFO that never stalls |
| Software timers (`Timer.c`, `msDelay`) | table of addresses, the words | `add_timer`, `del_timer`, `setTimer`, `getTimer`, `TimerService` | everybody | a word changes between two readings | never early, delays end |
| Byte FIFO (`fifo.c`) | buffer, two indices over twice the size | push, pull | UART handlers on one side, main loop on the other | no lock; 8-bit count of used places | a bounded queue |
| Serial link (`PakUart.c`, `uart.c`) | both FIFOs, `sSend0Empty`, TIE, TDR0, the board's `BuffUart` | `CreateAndSend_Pkt_UART0`, `StartSend0`, `IRQ_TX0`, `IRQ_RX0`, `GetPak_Uart` | Terminal and commands | the flag is set and tested by both sides; damaged packets; data that look like a start | no byte left, none replaced; only what was sent is handled |
| Discrete inputs (`SRC_Modul/NDD22.c`) | `Ndd.Link/Init/valid`, restart machine of each pair, `TimerReboot` | `DriverNDD`, `InitDinReg` | `CyclicModules` writes the same pins; timers; power block | chips vanish and return at any step; the supply is cycled | valid means configured; full power cycle; recovery |
| Power block (`global.c`) | EEPROM word, RAM tag, `StPwr`, `TimerPwr` | `InitProgrammVar`, `CyclicModules` | EEPROM, boards' pins | the supply under test may reset the processor | bounded number of attempts, giving up is final |
| CANopen slave (`CanOpenMain/sdo.c`, `nmtSlave.c`, `appli.c`, `objacces.c`) | `nodeState`, `transfers`, the object dictionary | SDO server, NMT commands, re-initialisation | CAN driver below, board variables through the dictionary | transfers broken off, frames lost, lines left on use | values whole, acknowledged means stored, lines never run out |
| PDO, SYNC, node guarding (`pdo.c`, `sync.c`, `lifegrd.c`, the refresh in `main.c`) | PDO cache, SYNC counters of three buses, mapping table, toggle | refresh every 30 ms, `proceedSYNC`, `proceedPDO`, `proceedNODE_GUARD` | dictionary, CAN driver, a tool that writes the parameters | what leaves was copied earlier; mapping and type change between copy and SYNC; buses count separately | a sent PDO is one copy of one mapping; every n-th SYNC; the cache follows the inputs |
| Boot update (`global.c`, from `ServiceBootloadUpd`) | `BufferReadCom`, `CountReadComm` | polling copies of the CAN driver, record reader, flash writer | flash, CAN, the host | lost frame shifts all records; words programmed before the checksum, perhaps at a wrong address; records of the application programmed over the old one; answers whose wait ran out | what was acknowledged is in the flash; the record buffer is never overrun |
| Boot loader (`Bootload/`) | flash, start word | the same commands over CAN and UART, erases everything else | application | power failure while erasing | a node starts again unless its boot loader was hurt at work |
| Analogue output board (`SRC_Modul/DAC11.c`) | address, what the two other boards told, `master` | `SelectMasterDAC`, exchange over CAN and lines, check of the current | two boards like itself on the same outputs | three boards decide on old news which one drives; boards vanish and return | one drives, and none is abandoned |
| Interrupt gate (`global.c`) | counter of `DisInterrupt` | `DisInterrupt`, `EnInterrupt` | all critical sections | nesting across interrupt levels | interrupts off exactly inside sections |
| EEPROM, I2C (`i2c_Func.c`) | bus, pages | page writes | settings, power block | split at pages, cut-off writes | every byte at its address |
| 1-Wire (`D1Ware.c`) | search state | `OWSearch` | temperature | branching of the search | every device found once |
| Other boards, peripherals, tables | registers | per board | | mostly straight assignment | |

`PROJECT.json` lists every component with its status and, under `hazards`, the
line where each hard behaviour bites and the property that covers it. A hazard
that no property covers carries the reason.

## 2. The modules

```
 LossyFifo            what every software queue promises (abstract)
     ^ implemented by
 MessageRing          index arithmetic shared by the rings -- MessageRing_proofs
   |-- CanRx          CAN reception                        -- CanRx_proofs
   |-- CanTx          CAN transmission                     -- CanTx_proofs
   `-- ByteFifo       fifo.c                               -- PakUart_proofs
         |-- UartTx   sending, with ByteFifo               -- Interrupts_proofs
         `-- PakUart  receiving packets through ByteFifo   -- PakUart_proofs
 Timers               Timer.c and msDelay                  -- Interrupts_proofs
 Ndd22                inputs, supplies, CyclicModules      -- Boards_proofs
 Dac11                three DAC11 boards (MCDac11: their
                      serial numbers in the runs)          -- Boards_proofs
 PowerStart           power block and EEPROM               -- Restart_proofs
 BootUpdate           host, boot update and boot loader,
                      flash, power cuts                    -- Restart_proofs
 Nmt                  states of the node and the commands that change them
   |-- SdoServer      SDO server with a client on a lossy bus -- CanOpen_proofs
   `-- Pdo            PDO cache, SYNC, mapping             -- CanOpen_proofs
```

An action named like a C function is the whole function. Where an interrupt may
come in between, the function is cut at those points and `pc` says where it is.
Definitions whose name begins with `Bug_` are variants of the definition after
them with one plausible mistake; no specification uses them. They show that
a property notices the mistake (`mutants` in `PROJECT.json`).

**LossyFifo.** A bounded queue: accept, take the oldest, pass a message straight
to a free consumer, discard everything. `CanRx`, `CanTx` and `ByteFifo` refine it
through `Abstract == INSTANCE LossyFifo WITH queue <- ..., taken <- ...`. The queue
is the segment of the array between the indices; a message that is dropped
because the ring is full is a stutter.

**CanRx.** Frames (`FrameArrives`, external) fill the boxes: single boxes for the
NMT and SYNC identifiers, a chain for the node's own. When no box is free the
last one is overwritten and MSGLST set. `IsrRead` is one turn of the loop in
`CAN_x_IRQ`: read the box, write MSGLST back (which may raise NEWDAT again), store
the message unless the stack is full, restart the line's timer. The main loop's
`CAN_ReceiveMessage` is four steps: test, copy header, copy data, release under
the lock. `SetupCAN` resets the three indices in three steps and then every box.
The handler blocks the main loop (`isr = 0` in every main-loop guard); only the
controller works beside it.

**CanTx.** `CAN_SendMessage` runs with interrupts off: straight into the mailbox if
stack and mailbox are empty, else into the stack. The transmit branch clears
INTPND and calls `SendFifoCanMsg`. Bus-off suspends the mailbox until the status
interrupt runs `ResetCan`. `if1` records who filled the shared registers last, so
that `BoxCommit` transfers what is really in them.

**Timers.** The tick counts every registered word down; `getTimer` reads until two
readings agree, `setTimer` writes until it reads back what it wrote, `msDelay`
composes them. The tick may fall between any two steps. Histories `asked` and
`elapsed` say what was wanted and how long ago.

**ByteFifo.** Indices run to `2 * SIZE`. Push and pull are three steps each (test,
data, publish index) without any lock, and the number of used places is taken
modulo `UINT8`.

**UartTx.** The main loop fills the FIFO, waits while it is full and starts the
transmitter (`StartTest`, `StartLoad`, `StartMark`, `StartEnable`); `IRQ_TX0` and the
line run between any two of these. It instantiates `ByteFifo` for the tests
`Full`, `Empty`, `Pending`, so the 8-bit count is the code's here too. Push and pull
are atomic: a push is made with interrupts off, a pull in the handler or while
its interrupt is disabled.

**PakUart.** Extends `ByteFifo`: `IRQ_RX0` is its push, a pass of a board's main loop its
pull, both still in three unprotected steps, and what is pulled goes into the
board's buffer, where `GetPak_Uart` looks for packets. `Search` is its loop up to the next
packet, with the look at one byte behind the last; behind a packet the loop goes on at
index 1, which is a step of its own (`SearchOn`, while `searching`), so that one action handles
one packet; the main loop does nothing else meanwhile. Lengths and sums are cut to 16 bits.
The host sends packets whose data look like a start, with the sum that
`CreateAndSend_Pkt_UART0` keeps (`Crc`); the line loses, garbles or
adds a byte, and the FIFO may overflow. After a wrong checksum the code moves
`pData-nLen` bytes, an address less a length: from there on its memory is
undefined, which `wild` records and after which the board does nothing more.

**Ndd22.** One action per statement group of `DriverNDD`: decision to restart, the
three states of the restart for each pair, start-up validity, poll of each chip.
`CyclicModules` writes the pins before it. Chips lose their 27 V and get it back at
any step; registers are lost with the supply. A loss that ends before any poll
could see it is left out.

**PowerStart.** The EEPROM word is a record (tag, started bit, counter). A reset
may fall at any step; one that cuts off a page write leaves any mixture of old and
new fields. Cold starts lose the RAM tag. Any word may be found at the first
start.

**SdoServer.** The node, one client that works through transfers in the order of
CiA 301, and the bus. Bytes are named after the transfer they belong to, so that
a mixture of two values is visible. The server part keeps what the code does:
the line that holds the node's id is preferred to a free one, uploads are started
in a free line without writing the id, the toggle bit is echoed and not checked,
an abort only marks a state nobody looks at, and the segment branch tests an
uninitialised `e` (a free choice). Each upset (a lost frame, a client that gives
up although an answer is on its way, an NMT command, a moved address switch) costs
one of `UPSETS`.

**Pdo.** The main loop copies the mapped objects into the cache every 30 ms
(`Refresh`, the whole loop of `main.c` and `buildPDO`), each SYNC of each bus counts
and sends what is due from the cache (`HandleSync`), an RTR asks for it
(`HandleRequest`), a received PDO writes its mapped objects (`HandleData`), and a tool
changes type and mapping in the order CANopen asks for (`SwitchOff`, `SetObject`,
`SwitchOn`). `pass` counts the passes of the board's driver and stamps the values, so
that a frame mixed of two passes or two mappings is visible; `since` counts SYNCs.

**BootUpdate.** A host renews the boot loader and then the application: enter,
erase, write, records, end, restart, waiting for the answer to each. The node is
in the application, in the updater, in the boot loader, or dead because the
code that would start is not whole. Both updaters poll one receive box (which the
next frame overwrites), send the frames of an answer one by one with a bounded
wait, collect a record by counting tokens, program its words one by one and look
at the checksum last.

* The image has records below `DF0000` (`BELOW`), of the boot loader (`LOADER`) and of the
  application. The updater erases the boot loader's sectors, but `write_MHX_com_R` programs
  every record from `DF0000` on (`global.c:1264`) and leaves alone, with OK_B, only what is
  below (`BeginRecord`). To the updater the host sends the records of the boot loader, and of
  the others any it likes, up to the whole image (`Following`); those of the application then fall
  on flash that was not erased. `astray` records that the updater changed a word of it, and `Derail`
  that the updater, which runs from there, may go astray at any step after it.
* The address of a record is its second token and half of the third, in two frames. A record
  whose third token is not its own is programmed from any place of its area (`Starts`, `Hit`); one
  without a digit there lies below `DF0000` for the updater and outside the image for the boot
  loader (`Short`).
* Two half words that do not belong together make any word (`Data`), and programming over
  anything but an erased word spoils it (`Programmed`).
* A host that hears nothing more either begins anew or sends its record again (`Repeat`).
  If the node has a part of the record then, the buffer runs over (`Wild`): past its end the
  memory is undefined, and the node is not followed any further. `outrun` records it.

Overrun frames, waits that end unsent, bus-off, a power cut between any two steps and a
repeated record each cost one of `UPSETS`; all but the updater's own programming set `hurt`
when the boot loader is at work.

**Dac11.** Three boards, each with what it was last told by the other two. One step
of a board is one pass of `SelectMasterDAC` with its outgoing message; receiving is
part of the sender's step unless the line is cut. The addresses come from the serial
numbers, compared byte by byte: the first byte of which one of the boards that see each
other has the highest value (`Max3`) decides who comes first, and the two others are
compared from that byte on, whatever they have in the bytes before (`Before`). So who comes
first of two boards may depend on whether the third is there, and three boards may have
no order (`Sorted`): then all addresses are 0 and a board tells nothing of itself. `Precedence`
holds the whole order as a set, which TLC evaluates once. `Takes` is the decision table of
DAC11.c 973-1063 for one, two or three commanded boards. `Takes` and `Own` are separate
from the state so that the theorem can be proved about the table itself. Boards
stop, return with fresh knowledge, lose their line, their converter or their
command; currents go wrong. `calm` counts the periods each board had since the last such
event, up to `Calm`.

## 3. The runs

Times are on two workers.

| Run | Checks | Bounds and why they are enough |
|---|---|---|
| `canrx` (237 000 states, 40 s) | `NoTornMessage`, `InOrder`, `Accounted`, `ImplementsFifo`, `StoredIsDelivered` | a stack of four slots holds two messages (the limit is two below its size), so full, empty and wrapped all occur; one single box and a chain of two is the smallest chain with a second box; four frames wrap the ring and overrun the boxes; one `SetupCAN` |
| `cantx` (63 000 states, 15 s) | `NoStall`, `ImplementsFifo`, `AcceptedIsSent` | same stack, six messages: one in the mailbox, a full stack, one dropped and a wrap; one `SetupCAN` over two boxes |
| `timers` (433 000 states, 20 s) | `NeverEarly`, `DelayEnds` | three timers for three places (a fourth would find a full table, and then `msDelay` hangs: hazard list), values 0, 2 and 3 |
| `pakuart` (1 092 000 states, 70 s) | `ImplementsFifo`, `OnlySent`, `HealthyLine` | three packets of 10 or 11 bytes through a FIFO of four places (its doubled indices go round four times); a `uint8_t` of 16 values, so that a false length may be short enough to wait for, too long, or so long that it wraps; a buffer of 30 holds nearly three packets; one lost, garbled or added byte |
| `uarttx` (4 400 states) | `NoStall`, `LineInOrder`, `RegisterKept`, `SendReturns`, `AllSent` | packets of 1, 3 and 6 bytes for four places: shorter, nearly full, longer than the FIFO; the ratio of `TEST_UART_FIFO_TX_SIZE` |
| `ndd22` (164 000 states, 10 s) | `GivenUpStaysOff`, `ValidWhenConfigured`, `FullPowerCycle`, `Recovers` | both pairs of the board; one pair may lose both chips, the other one of them, one may overheat; one tick for each time |
| `powerstart` (1 500 states) | `TriesBounded`, `GivenUpStaysOff`, `Settles` | the code's limit of 3; nine restarts are more than the five attempts take |
| `sdo` (239 000 states, 15 s) | `DictionaryWhole`, `DownloadStored`, `LineLeft`, `UploadIntact`, `Completes` | two lines as in the code; an object that fits the first frame and one that needs two segments; two transfers, two upsets (three were tried once: 2.3 million states, same result) |
| `boot` (1 019 000 states, 30 s) | `CountInRange`, `AckedIsStored`, `NeverDeadBefore`, `Completes` | one record below the flash, two in the loader's sectors and one in the application's: each way a record can go in the updater, and a neighbour in the same area that a wrong address can hit; a record of 7 tokens (11 in the code): odd, so that its last frame is half empty, and long enough that one lost frame leaves a remainder; one blank word; three upsets |
| `pdo` (534 000 states, 35 s) | `CacheWhole`, `EveryNth`, `CacheFollows` | two buses, one PDO (they do not share state), two inputs mapped in either order, types 1, 3 and 253; six changes of tool, NMT and inputs are a full remapping and a change of type between two SYNCs |
| `dac` (3 808 000 states, 90 s) | `Agreement`, `OneDrives`, `NotAbandoned` | the three boards of an output; limits 3, 2 and 4 periods for 5, 3 and 6, which keeps their order, so that a silent place lasts longer than the order and the calm is longer than each of them; two events; serial numbers that tie in the first byte, whose order of two boards depends on the third. Run once with the program's own limits and the order of the numbers instead of that of their bytes: 10.6 million states, same result |
| `dac_two` | `ExactlyOneDrives` violated | the finding below |

What the properties say is written above each of them in its module. A few that
need a word:

* `ImplementsFifo` and `NoTornMessage` in `CanRx`, `ImplementsFifo` in `CanTx` hold
  until `SetupCAN` runs on the live line (`Renewed`). After it they are false,
  see the findings. `NoStall` and both `TypeCorrect` theorems hold through it.
* `CanRx!InOrder` excepts messages whose box was overrun, because the box may
  present them twice.
* `CanRx!Accounted` does not say that frames are never lost. It says that only an
  overrun, a full stack or a discard loses them.
* `CanTx!AcceptedIsSent` and `CanRx!StoredIsDelivered` end in a discard as an
  alternative: `ClearTX_BUFF` and `ClearRX_BUFF` throw messages away.
* `Ndd22!ValidWhenConfigured` excepts chips that did not answer `InitDinReg`; without
  that exception it is false, see the findings.
* `SdoServer`'s safety properties suppose that the client's time-out is longer than
  a pass of the main loop (`early` is false). With early time-outs and three upsets
  `DictionaryWhole` fails, since nobody checks the toggle bit.
* `PakUart!OnlySent` is checked with one damaged byte. With two it is false: the sum
  of the bytes cannot tell an exchange of two of them, nor two losses that make up
  for each other. `HealthyLine` needs all of the board's timing: as long as nothing is
  lost every packet is handled with its last byte.
* `Pdo!EveryNth` counts the SYNCs a bus handled: a PDO of type n never leaves earlier
  than n of them after it last left, nor later than n after its type was set, whatever
  the other buses, the tool and the NMT master do between.
* `Pdo!CacheFollows` is about the PDOs that `main.c` copies; the 31st of
  `MAX_COUNT_OF_PDO_TRANSMIT` is not (main.c:103).
* `BootUpdate!CountInRange` excepts a host that sends a record again of which the node has a
  part (`outrun`); then it is false, see below. Everything else may be lost, read twice or cut off.
* `BootUpdate!AckedIsStored` is about the records of the area that was erased (`Scope`). It holds while
  the node takes records and when the image has ended; between a refusal and the next erase it does
  not, for a record with a wrong address may have spoilt an acknowledged one, and the host
  begins with the erase again.
* `BootUpdate!NeverDeadBefore` names the ways to a dead node: trouble while the boot loader itself was
  running, an updater that was sent records of the application, a host that repeats half a
  record. What else the updater meets cannot kill the node. `Completes`: unless one of these
  happens the host comes to its end, however often frames are overrun, waits end unsent, the
  bus goes off, the power fails or a record is repeated as a whole.
* No property is about the received PDOs of `Pdo` (`HandleData`, `outputs`) but that they leave
  cache and counters alone.
* `Dac11!OneDrives` and `NotAbandoned` are about boards that hear each other, once
  nothing happened for `Calm` periods of each (`Settled`): nine with the limits of the
  code. Six, the limit after which a board takes channels, are not enough: see the
  findings. `Agreement` is what holds then of addresses, told commands and errors.
* `SdoServer!UploadIntact` supposes that no line is on use when the upload ends, and a
  patient client (`early` is false). A download that was broken off leaves its line
  on use, upload segments are then served from that line, and the client may take
  its bytes for the object when the lengths agree. With early time-outs an old
  segment may be taken for the next one, because the toggle bit is echoed and not
  checked; an object of five segments and six upsets are enough. These facts stand
  in the hazard list.

`CHECK_DEADLOCK FALSE` stands where the work is bounded (`FRAMES`, `MSGS`, `BYTES`,
`RESETS`, `TRANSFERS`, `CHANGES`, `PACKETS`, the host's script) and the system rests when it
is done. `Timers`, `Ndd22` and `Dac11` never rest and are checked for deadlock.

### Fairness

Only what the processor and the hardware do by themselves is fair. Nothing that
the outside may leave undone is: arriving frames, losses, resets, commands, chips.

* Interrupt handlers: weak fairness, since a pending interrupt is taken; in `CanTx`
  strong fairness, since the main loop locks interrupts again and again.
* Main loop: weak fairness of the steps it has begun, and of `Receive`, which
  `receiveMsgHandler` calls in every pass.
* `TransmissionDone`: strong. A controller may leave the bus any number of times;
  if it is on the bus again and again, its frame is sent some time.
* The tick and the UART's line: weak, they are clocks.
* `Refresh` of the PDO cache: weak, the main loop comes round.
* `BootUpdate`: weak fairness of the node's polling loop, of the bus that delivers a
  frame or ends a transmission, and of the host, which sends its next job and gives up
  waiting. The host is the tool of whoever updates; only `Completes` uses it.
* The SDO client: it retries a failed transfer and does not wait for ever. That is
  an assumption about the tool, not about the firmware, and only `Completes` uses it.

### Findings

One disagreement of the code with its own words is a run of its own:

* `dac_two`: `SelectMasterDAC` is "the procedure for choosing the master of 3 DACs"
  (DAC11.c:732). With two commanded boards, the one with the lower address seeing
  `ERROR_ZERO`, both drive: the other one because its error is less (DAC11.c:1041), the
  first because the `else` asks for the address only (DAC11.c:1043). With three the
  errors are cut to bit 0 (DAC11.c:1001), `ERROR_KZ` = 2 counts as none, the board that
  saw it lets go (DAC11.c:992), the others wait for it (DAC11.c:1012), and nobody drives.
  `OneDrives` and `NotAbandoned` say for which errors the choice is right.

Other behaviour a reader of the code should know of, which the models contain:

* `can.c:60`: `InitCanFifoBuf` on a live line forgets a received message; the writer stays
  one slot ahead of the reader for good. The FIFO properties hold until then.
* `can.c:225`: `CAN0_buffer` and the transmit interrupt share IF1; a receive box may be
  configured with the transmission's registers.
* `fifo.c:91`: FIFOs of 256 and 512 bytes are never seen full (`NeverSeenFull`). As long as
  this is so, `CreateAndSend_Pkt_UART0` also returns for packets that are larger than
  the free room. With a correct test it would hang, because the transmitter is started
  only after the last byte (the mutant of `SendReturns` shows it): both have to be
  repaired together.
* `PakUart.c:187`: a length from 65527 on wraps when 9 is added; for the smallest results the
  end of the packet is looked for, and its sum taken, outside the packet (`Found`).
* `PakUart.c:139`: the sum of a packet is built from the length and one more, not from the
  bytes of the length plus one. They differ if the low byte carries: the answer to a
  reading of 255 bytes of the EEPROM (`global.c:258`) has a wrong checksum. `CrcAssumption`
  keeps such lengths out of `DATA`.
* `PakUart.c:250`: one garbled data byte makes the board overwrite its memory.
* `PakUart.c:196`: after a lost byte the search may wait for a packet that does not
  exist and swallow the next ones; nothing ends the wait.
* `NDD22.c:492`: a chip that misses `InitDinReg` comes back valid with registers that
  were never written.
* `DAC11.c:781`: a board that stops sending is forgotten after five periods, by each of
  the others in its own period, and the addresses are given anew at once
  (`DAC11.c:816`). What one of the others tells with its new address before the next
  has given its own is entered in the place of the board that is gone, and lasts for
  four more periods (`DAC11.c:797`): that long a board may count a command that nobody has.
* `DAC11.c:835`: `Max3` leaves a tie to the next byte, where the third board may win, and the
  bytes before it are then not looked at for the two others. Three different serial numbers may
  so have no order, such as 2 2 0.., 2 1 0.. and 1 1 0..: byte 2 puts the first one first,
  and from there on the two others are equal. Then all addresses stay 0, no board tells
  the others its command (`DAC11.c:941`), and all that have the command drive the output
  (`Tie`, `TieDrives`). A byte in which all three differ, as byte 7 mostly is, excludes it
  (`OneByteSuffices`), and two boards alone always find their order.
* `main.c:103`: the last PDO is never copied. `pdo.c:567`: a received PDO writes its first
  mapped object although the number of mapped objects is 0.
* `global.c:1264`: the updater programs records of the application over the old application, on
  flash it did not erase, and answers OK_A. A host that sends it the whole image, as it may send
  it to the boot loader, destroys the program the updater runs from. The comment of the loop,
  "check if main app is located in bootloader section", speaks of a test that is not there.
* `global.c:1443`: nothing stops `CountReadComm` at the 44 bytes of `BufferReadCom`. One lost
  frame, and a host that then sends its record again, are enough to run past it.
* `global.c:1262`: the address is read up to the first character that is not a digit, and what
  it is then is used: too short, it is below `DF0000`, and the updater answers OK_B without
  a look at the checksum; wrong, the words are programmed there first.
* `global.c:658`: the test for the time-out comes one turn after the loop has ended, so a
  transmission is never cancelled. `bootloader.c:547` erases the boot loader's own sectors,
  although the comments beside it say it does not: a power cut then leaves a dead node.

## 4. The proofs

All proofs hold for every value of the constants that satisfies the named
assumptions of the modules (`RxAssumption`, `TxAssumption` with the `NoMsgAssumption` of
either, `FifoAssumption`, `PakAssumption`, `CrcAssumption`, `UartAssumption`, `TimersAssumption`, `NddAssumption`, `SdoAssumption`,
`PdoAssumption`, `DacAssumption`, `PowerAssumption`, `BootAssumption`): any stack size from three, any
number of boxes, timers, pairs of inputs, records, transfers and upsets.

**Rings (`MessageRing_proofs`).** `Segment` is the stored sequence. `SegmentAppend`: writing
behind it appends; `SegmentBehind`: the same write leaves the stored part alone;
`SegmentTail`: advancing the reader removes the head. Everything else cites these.

**CAN reception (`CanRx_proofs`).** `TypeOK` is not inductive: `Pop` lowers the
counter, so the main loop must know that the message it tested for is still
there (`StillThere`). `TypeInv == TypeOK /\ StillThere` gives `TypeCorrect`, also through
`SetupCAN`. The ring invariant is `RingInv == TypeInv /\ (Renewed \/ InOneStack)`, where
`InOneStack` says that writer = reader + counter, that the stored slots hold messages,
and that what the main loop has copied so far is the oldest slot (`CopyInv`). From it
follow `RingStaysConsistent`, `NeverTorn` and `RefinesFifo`. The handler writes only
behind the segment, which is why the copy without a lock is safe.
`EveryFrameAccounted` proves `Accounted` from the same invariant: no step loses a frame without
leaving the overrun, the full stack or the discard behind that explains it.

`OrderOfBusKept` proves `InOrder`. It needs to know which boxes of the chain may be
full while the handler walks up it: those it has passed fill from the bottom and
are not all full, those before it have no gap (`NoGap`), and they are read in the order
in which they came (`BusOrder`); only the last one is overrun (`LostLast`). With
`Younger`, what waits in a box is younger than all that was taken, this is inductive
(`Ordered`). The theorem supposes `BURST <= 1`: a frame on the bus takes longer than one turn
of the handler's loop, so at most one arrives meanwhile. With two, TLC finds a younger
frame in a low box that is read before an older one in a high box.

**CAN transmission (`CanTx_proofs`).** `TypeInv == TypeOK /\ ArgIsMessage` (an argument is
there while `CAN_SendMessage` is inside). `NeverStalls` is inductive with it.
`RingStaysConsistent` and `RefinesFifo` as above; the direct path is `PassThrough`, whose
guard, an empty queue, is the code's `count == 0`.

**Byte FIFO (`PakUart_proofs`).** `TypeCorrect` for every size. `NeverSeenFull`: if
`SIZE >= UINT8`, `Full` is false in every reachable state; this holds for both
FIFOs of `PakUart.c`. `FifoInv` holds at any size as long as no unread byte was overwritten: the used
places never exceed the size, a pull under way has a byte, and a stored but unpublished
byte is in its slot. From it `RefinesUnlessOverwritten`. `NoByteOverwritten` if `SIZE < UINT8`, because then a
push that passed its test has room (`PlaceLeft`), and so `RefinesFifo`.

**Serial reception (`PakUart_proofs`).** `ReceptionIsFifo` carries the refinement over to `PakUart`: every
step of the line and of the board is a step of the FIFO or leaves it alone (`FifoStep`).
`HealthyPackets` proves `HealthyLine`: at any size as long as no byte was overwritten, which is the case
of the 256 places of `PakUart.c` if the main loop is never that far behind, and without
that condition if `SIZE < UINT8`. While nothing is lost (`HealthyInv`),

* `Order`: the bytes that wait are those behind the one handed out, without a gap;
* `Hosts`: the bytes on the line and those to come are the packets of the host one behind the
  other, each with its start and its length;
* `Heard`: the board has handled the first packets, all of them, and its buffer begins with
  the first bytes of the next.

`GetPakPrefix` says what the search does with such a buffer: it finds the start at index 0,
although the data look like one too, reads the true length (`LengthRead`) as soon as that is
there, waits, and handles the packet with its last byte. The sum over the bytes in the buffer
is the host's because both add the same bytes; that the sum `CreateAndSend_Pkt_UART0` keeps is that one
is `CrcAssumption`, which TLC evaluates: an induction over the data.

**Serial transmission (`Interrupts_proofs`).** `StartInv` ties flag, interrupt enable and data
register to the step `StartSend0` is at. `NeverStalls` and the action property
`RegisterIsKept` follow. `NoByteOutOfOrder` proves `LineInOrder` from `LineInv`: as long as no byte was
overwritten, at most `SIZE` bytes wait, and the line, the data register and the segment
that waits are together what was given, in order.

**Timers (`Interrupts_proofs`).** `TimeoutsNeverEarly` proves `NeverEarly`. By itself it is not inductive: a
timer that stood in the table twice would be counted down twice in one tick.
`EnteredOnce` excludes that, because `add_timer` looks through the whole table first.

**PDO (`CanOpen_proofs`).** `WholeCache`: every cached PDO is a mapping the tool completed, with the
values of one pass, from `MappingInv` (the mapped objects of a PDO whose count is not 0
are a complete mapping; the tool writes them only while it is 0). `EveryNthSync`: the action
property `EveryNth` from `SyncInv`: the counter of each bus has seen every SYNC
since the type was set and none from before the PDO left.

**SDO (`CanOpen_proofs`).** `SdoTypes`: the types of server and client, and that only line 0 is
ever on use (`OnLineZero`): a request takes the line that holds the node's id before a
free one, and uploads never write the id. Hence `LineAlwaysLeft`, for any number of
transfers broken off. `OnlyWholeValues`, `AcknowledgedIsStored` and the action property `UploadsIntact` follow from
`SdoInv == SdoTypeInv /\ (early \/ (InStep /\ Values))`. `InStep` says of a client that waits for its
answers that one request or one answer is on its way, that the request is the one the
client is at and meets the bytes line 0 has (`Downloaded`, `Uploaded`), and that the answer
tells the truth about them (`TrueAnswers`). `Downloaded` and `Uploaded` are sets because after a
reset or a broken transfer the line may hold another object or nothing: then the
server refuses, whatever the count.

**Analogue outputs (`Boards_proofs`).** `BoardsAgree` proves `Agreement`, for every set of three serial
numbers that can be put in order (`Sortable`), every order of the periods and all limits, the
limit of silence being more than one period. `Sortable` is a premise of the theorems and no assumption of the
module, so that what happens without it can be proved as well. About it:

* `StrictOrder`: in every group the order is strict, although each group has a deciding byte
  of its own, so the ranks it gives are different.
* `OneByteSuffices`: one byte in which all three differ makes any of the groups sortable, whatever
  the bytes before it are. `PairsInOrder`: two boards with different numbers always are, and
  with `ThreeDecide` only all three together can fail.
* `Tie`: they do when the two that are not the highest in the deciding byte differ only before
  it.

The invariant comes in two parts. `ListsInv` holds whatever the serial numbers are, `ConvergeInv`
adds what the boards learn from each other if they are `Sortable`. Every part but the types is
about the number of periods since the last event:

* `RoundInv`: the boards take turns, so the counts of two boards differ by one at most, and
  who had more is known from the turn (`Ahead`). `Lag(a, b)` is what a board cannot know yet.
* `HeardInv`, `GoneInv`, `GroupInv`: after its first period a board of the group is listed by
  the others with a ping that stays below the limit; one that is not of the group has been
  silent at least as long as nothing happened. So after `Ordering` periods, the larger of the
  limit of silence and that of ordering, a board lists its group and no one else.
* `AddressInv`: then its addresses are those of that list. `Addresses`: they are the ranks of the
  boards in the order of the group (`Precedence`), hence the same on every board and all
  different.
* `ToldInv`: so a board that tells its command is entered in its own place (`ToldByRank`), and
  one period later everybody has it. `StaleInv`: nothing is entered in a free place any
  more, and what is there grows old; after `MAX_COUNT_PING_LOST - 1` more periods it counts
  for nothing.
* `MasterInv`: a board that had `Calm` periods has decided from what it knows.

`OwnPeriod` and `OtherPeriod` say what `SelectMasterDAC` does to the board itself and to those that
hear it; all steps of the proof cite them and not the code. An event sets the counts to 0,
and only `ListInv` has something to prove then.

`Election` proves `OneDrives` and `NeverAbandoned` proves `NotAbandoned` from it. The argument is about the
decision table: under `Agreement` each board's view (`View`) holds what the others really do; a
board with a lower able neighbour lets go (`Yields`), the lowest able one takes it
(`TakesIt`, `LowestAble`). `TypeCorrect` gives the ranges.

`TieDrives` is about three boards that have no order and hear each other. By `ListsInv` each lists the
two others, so its addresses are all 0 (`Silent`) and it tells nothing (`Untold`); what it was told before
grows old and is dropped (`QuietInv`), it decides as if it were alone (`AloneInv`), and drives
whenever it has the command and no high current (`AllDrive`). TLC agrees on an instance with
such numbers.

**Discrete inputs (`Boards_proofs`).** `NoRestartWhenGivenUp` from `GivenUp`: once the power block gave up no
pair is powered or in a restart and no chip answers, and only a chip that answered
leads to a restart. `OffForTheFullTime` proves the action property `FullPowerCycle` from `Cycling`: while
a pair is restarted the time its supply was off and what is left on `TimerReboot` add up
to the full time, and the pin is the setting `CyclicModules` copies. `ValidAreWritten` proves
`ValidWhenConfigured` from `ValidInv`: valid inputs wait for no restart (`Marks`), a restart that was
decided begins in the same pass (`Begun`), its chips are written one after the other
(`Rewriting`), and before the first poll nothing was lost (`Starting`).

**Power block (`Restart_proofs`).** `StartInv`: if the RAM tag is set, the EEPROM word
covers the attempts made (`Covers`: started, or counter at least attempts minus one),
and so does every word a cut-off write may leave. `AttemptsLimited`, `GivenUpIsOff`,
`EepromKnows`.

**Boot update (`Restart_proofs`).** `RecordFits` (`CountInRange`), `AcknowledgedIsWritten` (`AckedIsStored`) and
`DeadOnlyWhenHurt` (`NeverDeadBefore`) from one invariant, `UpdateInv == outrun \/ BootInv`: once the host
has repeated half a record nothing is claimed any more, until then `BootInv` holds. At every
moment of an update one of its stages
holds: entered, commanded, erasing, erased, ready, reading record r, programming it, having
acknowledged or refused it, deaf for it, ending, ended, rebooting; each says where the node's polling
loop is, what is in the box, what is on its way to the host, and what the flash
holds. The record buffer is not overrun because `Len(node.buf) + ToCome <= RECORD`: `ToCome` counts
the tokens in the box, twice if a lost frame may make the loop read it again, and
those not sent yet. A record that is repeated as a whole finds the buffer empty, or the node
no longer reading records: then it is a string of characters that is no command (`Deaf`).
One answer at most is on its way that the host could take for one
of its steps (`Speaking`), so that no late answer acknowledges the next record. `Sane(at)` is
the flash as the host may believe it when it is at step `at`: each word of its records is what it
should be, or blank and of a record not yet acknowledged, so programming makes it
what the record says. A record with a wrong address breaks that, is found by its checksum, and
makes the host erase again. An updater that was sent records of the application does not
break it: `Scope` leaves them out. The proof rests
on the model's host, whose patience outlasts the node's answers and which goes on or
repeats but never skips a record of the area, and on a checksum that finds every damage.

**Only model-checked:** all liveness properties (fairness and ENABLED are out of the
prover's reach): `StoredIsDelivered`, `AcceptedIsSent`, `DelayEnds`, `SendReturns`, `AllSent`, `Recovers`, `Settles`,
`Completes` and `CacheFollows`. Of the safety properties only `OnlySent` of `PakUart`: after a damage the
search may start inside a packet, and that none of the false packets it then sees has the
right sum is true of the packets and the damage of the run, not of all: a sum of 16 bits
cannot exclude it.

## 5. What is not modelled

* The three CAN lines are one, except in `Pdo`: their code is three copies on disjoint
  state.
* Message contents, identifiers beyond their filter group, baud rates, formatting.
* The interrupt gate itself (`DisInterrupt`, `EnInterrupt`): critical sections are taken as such.
* CANopen: the client half of `sdo.c` and the master half of NMT (no board calls them),
  object 100Bh (writing it changes the node's own id), the supervision of lines in
  `DriverCanOpen`, `sendPDOevent` and `sendPDOrequest` (no caller), the matching of cob-ids,
  node guarding.
* FIFO variants of `fifo.c` that nobody calls; what the commands of a packet do.
* Boot update: the variant over UART, `READ` and `GETBOOTVER`, a word that cannot be
  programmed, the watchdog, what happens once the record buffer has run over, a host that repeats
  a command or does not wait for an answer on its way; a wrong address stays within the area of its
  record, and is even; the checksum is perfect.
* DAC11: bench and calibration mode, boards without a serial number, single lost or
  late messages.
* Output board OC9/OC10, ADC8/ADC9, DAC12 and the smaller boards; EEPROM paging, 1-Wire,
  terminal. They are straight-line register work or lie mostly between chips outside the
  sources; `PROJECT.json` has the reason for each.
* Vendor start-up code, vector table, and the register map `mb96338us.h`, which alone is
  more than half of the repository's lines.

## 6. Plan

What would add most next:

1. `IntGate`: `DisInterrupt`/`EnInterrupt` nested across the levels of `vectors.c`, then the
   critical sections of `CanTx` and `CanRx` as instances of it.
2. `EepromPages`, `OneWireSearch`: pure algorithms against reference definitions.
