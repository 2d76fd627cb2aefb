--------------------------- MODULE Restart_proofs ---------------------------
(***************************************************************************)
(* Proofs about the start of the power block (PowerStart), for every limit *)
(* of attempts and any number of restarts, wherever they fall, and about   *)
(* the boot update (BootUpdate).                                           *)
(***************************************************************************)
EXTENDS PowerStart, BootUpdate, SequenceTheorems, TLAPS

\* The word counts as a failure every attempt that was not a success.
Covers(word, n) == IF word.started THEN n = 0 ELSE n <= word.count + 1

\* The inductive invariant.  What the RAM tag promises about the EEPROM must
\* survive a cut-off page write, so it speaks of every mixture of the bytes.
StartInv ==
  /\ TypeOK
  /\ EE_StPwr.tag
  /\ IF ram THEN eeprom.tag /\ Covers(eeprom, tries) ELSE tries = 0
  /\ pc = "store" => StPwr = 1 /\ ~EE_StPwr.started /\ tries <= EE_StPwr.count
  /\ pc = "tag" => StPwr \in {1, 3} /\ eeprom.tag /\ ~eeprom.started
  /\ pc = "tag" /\ StPwr = 1 => tries <= eeprom.count
  /\ pc = "run" => ram /\ StPwr # 0
  /\ pc = "run" /\ StPwr = 1 => ~eeprom.started
  /\ pc = "confirm" => ram /\ StPwr = 1 /\ tries = 0
  /\ StPwr = 3 => givenUp
  /\ givenUp => ram /\ ~eeprom.started /\ eeprom.count = MAX_RESTARTS + 1
  /\ givenUp => pc = "boot" \/ (pc \in {"tag", "run"} /\ StPwr = 3)
  /\ TriesBounded

LEMMA WordFields ==
  ASSUME NEW w \in Word
  PROVE  w.tag \in BOOLEAN /\ w.started \in BOOLEAN /\ w.count \in Counts
  BY DEF Word

LEMMA AttemptIsWord ==
  ASSUME NEW k \in Counts
  PROVE  /\ Attempt(k) \in Word
         /\ Attempt(k).tag /\ ~Attempt(k).started /\ Attempt(k).count = k
  BY DEF Attempt, Word

LEMMA SuccessIsWord == Success \in Word /\ Success.tag /\ Success.started
  BY PowerAssumption DEF PowerAssumption, Success, Word, Counts

LEMMA TornIsWord ==
  ASSUME NEW old \in Word, NEW new \in Word, NEW w \in Torn(old, new)
  PROVE  /\ w \in Word
         /\ w.tag \in {old.tag, new.tag}
         /\ w.started \in {old.started, new.started}
         /\ w.count \in {old.count, new.count}
  BY DEF Torn, Word

LEMMA Inductive == Spec => []StartInv
<1> USE PowerAssumption DEF PowerAssumption
<1>1. Init => StartInv
  <2> SUFFICES ASSUME Init PROVE StartInv
    OBVIOUS
  <2>1. 0 \in Counts
    BY DEF Counts
  <2>2. EE_StPwr \in Word /\ EE_StPwr.tag
    BY <2>1, AttemptIsWord DEF Init
  <2>3. TypeOK
    <3>1. ram \in BOOLEAN /\ timer \in BOOLEAN /\ givenUp \in BOOLEAN
      BY Zenon DEF Init
    <3>2. /\ StPwr \in 0 .. 3 /\ resets \in 0 .. RESETS /\ tries \in Nat
          /\ pc \in {"boot", "store", "tag", "run", "confirm"}
      BY DEF Init
    <3>3. eeprom \in Word
      BY DEF Init
    <3> QED
      BY <2>2, <3>1, <3>2, <3>3, Zenon DEF TypeOK
  <2>4. TriesBounded
    BY DEF Init, TriesBounded
  <2>5. IF ram THEN eeprom.tag /\ Covers(eeprom, tries) ELSE tries = 0
    BY DEF Init
  <2>6. ~givenUp
    BY DEF Init
  <2>7. pc \notin {"store", "tag", "run", "confirm"} /\ StPwr # 3
    BY DEF Init
  <2> QED
    BY <2>2, <2>3, <2>4, <2>5, <2>6, <2>7, Zenon DEF StartInv
<1>2. StartInv /\ [Next]_vars => StartInv'
  <2> SUFFICES ASSUME StartInv, [Next]_vars PROVE StartInv'
    OBVIOUS
  <2>0. /\ eeprom \in Word /\ EE_StPwr \in Word
        /\ eeprom.started \in BOOLEAN /\ eeprom.tag \in BOOLEAN
        /\ eeprom.count \in Counts /\ EE_StPwr.count \in Counts
        /\ tries \in Nat
    BY WordFields DEF StartInv, TypeOK
  <2>1. CASE FirstTry
    <3>1. 0 \in Counts
      BY DEF Counts
    <3>2. /\ EE_StPwr' \in Word /\ EE_StPwr'.tag /\ ~EE_StPwr'.started
          /\ EE_StPwr'.count = 0
      BY <2>1, <3>1, AttemptIsWord DEF FirstTry, Try
    <3>3. tries = 0 /\ ~givenUp
      BY <2>1 DEF FirstTry, Known, StartInv, Covers
    <3> QED
      BY <2>0, <2>1, <3>2, <3>3
         DEF FirstTry, Try, StartInv, TypeOK, TriesBounded, memory, hist
  <2>2. CASE TryAgain
    <3>1. eeprom.count + 1 \in Counts
      BY <2>0, <2>2 DEF TryAgain, Counts
    <3>2. /\ EE_StPwr' \in Word /\ EE_StPwr'.tag /\ ~EE_StPwr'.started
          /\ EE_StPwr'.count = eeprom.count + 1
      BY <2>2, <3>1, AttemptIsWord DEF TryAgain, Try
    <3>3. tries <= eeprom.count + 1 /\ ~givenUp
      BY <2>0, <2>2 DEF TryAgain, Known, StartInv, Covers, Counts
    <3> QED
      BY <2>0, <2>2, <3>2, <3>3
         DEF TryAgain, Try, StartInv, TypeOK, TriesBounded, memory, hist
  <2>3. CASE GiveUp
    <3>1. eeprom.count = MAX_RESTARTS + 1
      BY <2>0, <2>3 DEF GiveUp, Counts
    <3> QED
      BY <2>0, <2>3, <3>1
         DEF GiveUp, Known, StartInv, TypeOK, TriesBounded, memory
  <2>4. CASE Store
    <3>1. Covers(EE_StPwr, tries)
      BY <2>0, <2>4 DEF Store, StartInv, Covers, Counts
    <3>2. eeprom' = EE_StPwr /\ ~givenUp
      BY <2>4 DEF Store, StartInv
    <3> QED
      BY <2>0, <2>4, <3>1, <3>2 DEF Store, StartInv, TypeOK, TriesBounded, hist
  <2>5. CASE Tag
    <3>1. CASE StPwr = 1
      <4>1. tries' = tries + 1 /\ tries <= eeprom.count /\ ~givenUp
        BY <2>5, <3>1 DEF Tag, StartInv
      <4>2. Covers(eeprom, tries') /\ tries' <= MAX_RESTARTS + 2
        BY <2>0, <2>5, <4>1 DEF Tag, StartInv, Covers, Counts
      <4> QED
        BY <2>0, <2>5, <3>1, <4>1, <4>2 DEF Tag, StartInv, TypeOK, TriesBounded
    <3>2. CASE StPwr = 3
      BY <2>0, <2>5, <3>2 DEF Tag, StartInv, TypeOK, TriesBounded
    <3> QED
      BY <2>5, <3>1, <3>2 DEF Tag, StartInv
  <2>6. CASE Second
    BY <2>0, <2>6 DEF Second, StartInv, TypeOK, TriesBounded, memory, hist
  <2>7. CASE Succeed
    <3>1. EE_StPwr' \in Word /\ EE_StPwr'.tag
      BY <2>7, SuccessIsWord DEF Succeed
    <3>2. Covers(eeprom, 0)
      BY <2>0 DEF Covers, Counts
    <3> QED
      BY <2>0, <2>7, <3>1, <3>2 DEF Succeed, StartInv, TypeOK, TriesBounded, memory
  <2>8. CASE Confirm
    <3>1. tries = 0 /\ eeprom' = EE_StPwr /\ ~givenUp
      BY <2>8 DEF Confirm, StartInv
    <3>2. Covers(EE_StPwr, 0)
      BY <2>0 DEF Covers, Counts
    <3> QED
      BY <2>0, <2>8, <3>1, <3>2 DEF Confirm, StartInv, TypeOK, TriesBounded, hist
  <2>9. ASSUME Reboot
        PROVE  /\ eeprom' \in Word
               /\ ram => eeprom'.tag /\ Covers(eeprom', tries)
               /\ givenUp => eeprom' = eeprom
    <3>1. CASE pc \in {"store", "confirm"}
      <4>1. /\ eeprom' \in Word
            /\ eeprom'.tag \in {eeprom.tag, EE_StPwr.tag}
            /\ eeprom'.started \in {eeprom.started, EE_StPwr.started}
            /\ eeprom'.count \in {eeprom.count, EE_StPwr.count}
        BY <2>0, <2>9, <3>1, TornIsWord DEF Reboot
      <4>2. ~givenUp
        BY <3>1 DEF StartInv
      <4>3. CASE pc = "store"
        <5>1. tries <= EE_StPwr.count + 1 /\ ~EE_StPwr.started
          BY <2>0, <4>3 DEF StartInv, Counts
        <5>2. ram => eeprom'.tag
          BY <4>1 DEF StartInv
        <5>3. ASSUME ram PROVE Covers(eeprom', tries)
          <6>1. Covers(eeprom, tries)
            BY <5>3 DEF StartInv
          <6>2. CASE eeprom'.started
            BY <4>1, <5>1, <6>1, <6>2 DEF Covers
          <6>3. CASE ~eeprom'.started
            <7>1. eeprom.started => tries <= eeprom.count + 1
              BY <2>0, <6>1 DEF Covers, Counts
            <7>2. tries <= eeprom.count + 1
              BY <6>1, <7>1 DEF Covers
            <7> QED
              BY <4>1, <5>1, <6>3, <7>2 DEF Covers
          <6> QED
            BY <6>2, <6>3
        <5> QED
          BY <4>1, <4>2, <5>2, <5>3
      <4>4. CASE pc = "confirm"
        <5>1. tries = 0
          BY <4>4 DEF StartInv
        <5>2. ram => eeprom'.tag
          BY <4>1 DEF StartInv
        <5>3. eeprom'.count \in Nat
          BY <2>0, <4>1 DEF Counts
        <5>4. Covers(eeprom', tries)
          BY <5>1, <5>3 DEF Covers
        <5> QED
          BY <4>1, <4>2, <5>2, <5>4
      <4> QED
        BY <3>1, <4>3, <4>4
    <3>2. CASE pc \notin {"store", "confirm"}
      BY <2>0, <2>9, <3>2 DEF Reboot, StartInv
    <3> QED
      BY <3>1, <3>2
  <2>10. CASE WarmReset
    <3>1. /\ StPwr' = 0 /\ timer' = FALSE /\ pc' = "boot" /\ EE_StPwr' = EE_StPwr
          /\ resets' \in 0 .. RESETS
          /\ ram' = ram /\ tries' = tries /\ givenUp' = givenUp
      BY <2>10 DEF WarmReset, Reboot, hist, StartInv, TypeOK
    <3>2. /\ eeprom' \in Word
          /\ ram => eeprom'.tag /\ Covers(eeprom', tries)
          /\ givenUp => eeprom' = eeprom
      BY <2>9, <2>10 DEF WarmReset
    <3>3. TypeOK'
      <4>1. ram' \in BOOLEAN /\ timer' \in BOOLEAN /\ givenUp' \in BOOLEAN
        BY <3>1, Zenon DEF StartInv, TypeOK
      <4>2. /\ StPwr' \in 0 .. 3 /\ tries' \in Nat
            /\ pc' \in {"boot", "store", "tag", "run", "confirm"}
        BY <2>0, <3>1
      <4>3. EE_StPwr' \in Word /\ resets' \in 0 .. RESETS
        BY <2>0, <3>1
      <4> QED
        BY <3>2, <4>1, <4>2, <4>3, Zenon DEF TypeOK
    <3>4. TriesBounded'
      BY <3>1 DEF StartInv, TriesBounded
    <3>5. IF ram' THEN eeprom'.tag /\ Covers(eeprom', tries') ELSE tries' = 0
      BY <3>1, <3>2 DEF StartInv
    <3>6. givenUp' => ram' /\ ~eeprom'.started /\ eeprom'.count = MAX_RESTARTS + 1
      BY <3>1, <3>2 DEF StartInv
    <3>7. EE_StPwr'.tag
      BY <3>1 DEF StartInv
    <3> QED
      BY <3>1, <3>3, <3>4, <3>5, <3>6, <3>7 DEF StartInv
  <2>11. CASE ColdStart
    <3>1. /\ StPwr' = 0 /\ pc' = "boot" /\ EE_StPwr' = EE_StPwr
          /\ resets' \in 0 .. RESETS
          /\ tries' = 0 /\ ~ram' /\ ~givenUp'
      <4>1. /\ StPwr' = 0 /\ pc' = "boot" /\ EE_StPwr' = EE_StPwr
            /\ resets' \in 0 .. RESETS /\ tries' = 0
        BY <2>11 DEF ColdStart, Reboot, StartInv, TypeOK
      <4>2. ~ram' /\ ~givenUp'
        BY <2>11, Zenon DEF ColdStart
      <4> QED
        BY <4>1, <4>2
    <3>2. eeprom' \in Word
      BY <2>9, <2>11 DEF ColdStart
    <3>3. TypeOK'
      <4>1. ram' \in BOOLEAN /\ timer' \in BOOLEAN /\ givenUp' \in BOOLEAN
        BY <2>11, Zenon DEF ColdStart, Reboot
      <4>2. /\ StPwr' \in 0 .. 3 /\ tries' \in Nat
            /\ pc' \in {"boot", "store", "tag", "run", "confirm"}
        BY <3>1
      <4>3. EE_StPwr' \in Word /\ resets' \in 0 .. RESETS
        BY <2>0, <3>1
      <4> QED
        BY <3>2, <4>1, <4>2, <4>3, Zenon DEF TypeOK
    <3>4. TriesBounded'
      BY <3>1 DEF TriesBounded
    <3>5. IF ram' THEN eeprom'.tag /\ Covers(eeprom', tries') ELSE tries' = 0
      BY <3>1
    <3>7. EE_StPwr'.tag
      BY <3>1 DEF StartInv
    <3> QED
      BY <3>1, <3>3, <3>4, <3>5, <3>7 DEF StartInv
  <2>12. CASE UNCHANGED vars
    BY <2>12 DEF vars, memory, hist, StartInv, TypeOK, TriesBounded
  <2> QED
    BY <2>1, <2>2, <2>3, <2>4, <2>5, <2>6, <2>7, <2>8, <2>10, <2>11, <2>12
       DEF Next, Boot, Loop
<1> QED
  BY <1>1, <1>2, PTL DEF Spec

\* However the restarts fall, the supply is switched on at most
\* MAX_RESTARTS + 2 times without a success.
THEOREM AttemptsLimited == Spec => []TriesBounded
<1>1. StartInv => TriesBounded
  BY DEF StartInv
<1> QED
  BY <1>1, Inductive, PTL

\* A block that was given up stays off until a cold start.
THEOREM GivenUpIsOff == Spec => []GivenUpStaysOff
<1>1. StartInv => GivenUpStaysOff
  BY DEF StartInv, GivenUpStaysOff, Powered
<1> QED
  BY <1>1, Inductive, PTL

\* A restart at any moment finds at least as many attempts as were made.
THEOREM EepromKnows == Spec => []AttemptIsStored
<1>1. StartInv => AttemptIsStored
  BY DEF StartInv, AttemptIsStored, Covers
<1> QED
  BY <1>1, Inductive, PTL

-----------------------------------------------------------------------------
(* The boot update.                                                        *)

Live == node.prog \in {"upd", "boot"}
End  == Len(Script)

\* Where the node stands when its answer is said.
Rest == IF node.pc \in {"load", "wait"} THEN node.then ELSE node.pc

Letters  == (1 .. RECORDS) \X (1 .. RECORD)
Spoken   == {"OK", "OK_A", "OK_B", "READY", "ERORR", "digits"}
Contents == {Erased, Junk} \cup Letters \cup {Old(c) : c \in Cells}

Names    == {Zero, <<"BOOTUPD">>, <<"BOOTLOAD">>, <<"END">>, <<"ERASE">>, <<"WRITE">>, <<"REBOOT">>}

\* What frames are made of.
Signs == Letters \cup Names

Programs == {"app", "upd", "boot", "dead"}
Places   == {"run", "cmd", "write", "erase", "program", "reset", "load", "wait"}

Nodes ==
  [prog : Programs, pc : Places, line : Seq(Letters), buf : Seq(Letters),
   erase : {<<>>, <<"app">>, <<"loader">>, <<"loader", "app">>}, word : Nat, to : Nat \X Nat,
   answer : Seq(Spoken), then : {"cmd", "write", "reset"}, wait : Nat]

Hosts ==
  [job : {"loader", "app"}, at : 1 .. End, st : {"asks", "finished", "done", "quit"},
   out : Seq(Seq(Signs))]

BootTypeInv ==
  /\ flash \in [Cells -> Contents]
  /\ node \in Nodes
  /\ Len(node.buf) <= RECORD
  /\ tx \in [frame : Spoken \cup {""}, req : BOOLEAN]
  /\ init \in BOOLEAN /\ hurt \in BOOLEAN /\ astray \in BOOLEAN
  /\ box \in [frame : Seq(Signs), lost : BOOLEAN]
  /\ host \in Hosts

\* Without an answer to say the node is not at saying it.
SayInv ==
  /\ node.pc \notin {"load", "wait"} => node.answer = <<>>
  /\ node.pc = "load" => node.answer # <<>>

\* A program that is not an updater has nothing under way.
IdleInv ==
  /\ ~Live => node = Idle(node.prog) /\ tx = NoTx /\ ~init
  /\ node.prog = "upd"  => host.job = "loader"
  /\ node.prog = "boot" => host.job = "app"

-----------------------------------------------------------------------------
(* What is on its way to the node.                                         *)

RecordFrame(r, frame) == frame \in Seq({r} \X (1 .. RECORD)) /\ Len(frame) \in {1, 2}

\* Without the beginning of a record.
Plain(frame) == \A i \in 1 .. Len(frame) : frame[i][2] # 1

\* The frames of a record that are still to come: the first one alone holds its beginning,
\* the last one carries a single token.
RecordFrames(r, out) ==
  /\ out \in Seq(Seq(Letters))
  /\ \A k \in 1 .. Len(out) : /\ RecordFrame(r, out[k])
                              /\ Len(out[k]) = IF k = Len(out) THEN 1 ELSE 2
                              /\ k # 1 => Plain(out[k])

\* The single frame of any other step.
CommandFrame(job, at) == Head(Frames(job, Script[at]))

\* At the end of a record RECORD tokens have been read at most, however many frames were
\* overrun, missed, or read twice: it takes the loss of one to read another twice.
ToCome ==
  Len(box.frame) * (IF box.lost THEN 2 ELSE 1)
  + (IF host.out = <<>> THEN 0 ELSE 2 * Len(host.out) - 1)

AtRecord(r) == r \in 1 .. RECORDS /\ host.at = r + 3

OutInv ==
  /\ \A r \in 1 .. RECORDS : AtRecord(r) => RecordFrames(r, host.out)
  /\ (\A r \in 1 .. RECORDS : ~AtRecord(r))
       => host.out \in {<<>>, <<CommandFrame(host.job, host.at)>>}
  /\ host.st # "asks" => host.out = <<>>
  /\ host.st = "finished" => host.at = End
  /\ host.st \in {"done", "quit"} => host.job = "app"
  /\ host.st = "quit" => host.at # 1

\* The frames that enter an updater are on their way at the first step only.
Sending ==
  LET frame == CommandFrame(host.job, host.at)
  IN \/ host.out = <<frame>> /\ box = NoBox
     \/ host.out = <<>> /\ box \in {NoBox, [frame |-> frame, lost |-> FALSE]}

Quiet == host.out = <<>> /\ box = NoBox

BoxInv ==
  /\ box.frame = NoFrame => box = NoBox
  /\ host.at = 1 => Sending
  /\ host.at # 1 => box.frame \notin {BootUpd, BootLoad}
  /\ host.st = "finished" => Quiet

-----------------------------------------------------------------------------
(* What is on its way to the host.                                         *)

Digits(s) == \A i \in 1 .. Len(s) : s[i] = "digits"
Going     == IF tx.req THEN {tx.frame} ELSE {}

\* Of the answers the host could take for one of its steps, one of A at most is on its way.
Speaking(A) ==
  \/ Digits(node.answer) /\ Going \subseteq A \cup {"digits"}
  \/ /\ node.answer # <<>> /\ Head(node.answer) \in A /\ Digits(Tail(node.answer))
     /\ Going \subseteq {"digits"}

-----------------------------------------------------------------------------
(* The stages of an update.                                                *)

Blank(records) == \A r \in records : \A i \in Words : flash[<<r, i>>] = Erased

\* The flash as a host finds it that has had all records before a step acknowledged.
Sane(at) ==
  \A r \in Scope : \A i \in Words :
    \/ flash[<<r, i>>] = Value(<<r, i>>)
    \/ r + 3 >= at /\ flash[<<r, i>>] = Erased

Entered   == host.at = 1 /\ Rest = "cmd" /\ Quiet /\ Speaking({"OK"})
Commanded == /\ host.at \in {2, 3, End} /\ Rest = "cmd" /\ Sending /\ Speaking({})
             /\ host.at = 3 => Sane(4)
Erasing   == host.at = 2 /\ Rest = "erase" /\ Quiet /\ Speaking({})
             /\ \/ node.prog = "upd" /\ node.erase = <<"loader">>
                \/ node.prog = "boot" /\ node.erase = <<"loader", "app">>
                \/ /\ node.prog = "boot" /\ node.erase = <<"app">>
                   /\ Blank(LOADER)
AllErased == host.at = 2 /\ Rest = "cmd" /\ Quiet /\ Speaking({"OK"}) /\ Sane(4)
Readied   == /\ host.at = 3 /\ Rest = "write" /\ Quiet /\ Speaking({"READY"}) /\ node.buf = <<>>
             /\ Sane(4)

Reading(r) ==
  /\ AtRecord(r) /\ Rest = "write" /\ Speaking({}) /\ Sane(r + 3)
  /\ node.buf \in Seq({r} \X (1 .. RECORD)) /\ Len(node.buf) < RECORD
  /\ Len(node.buf) + ToCome <= RECORD
  /\ box.frame = NoFrame \/ RecordFrame(r, box.frame)
  /\ box.frame # NoFrame /\ host.out # <<>> => Len(box.frame) = 2
  /\ \A i \in 3 .. Len(node.buf) : node.buf[i][2] # 1
  /\ ~Plain(box.frame) => node.buf = <<>> /\ ~box.lost
  /\ (node.buf # <<>> \/ box.frame # NoFrame) /\ host.out # <<>> => Plain(Head(host.out))

\* What is programmed is the record, or it is going to be refused.
Programming(r) ==
  /\ AtRecord(r) /\ Rest = "program" /\ Quiet /\ Speaking({})
  /\ node.buf \in Seq({r} \X (1 .. RECORD)) /\ Len(node.buf) = RECORD
  /\ node.word \in 4 .. RECORD + 1
  /\ node.buf = Tokens(r)
       => /\ node.to = <<r, 0>> /\ Sane(r + 3)
          /\ r \in Scope => \A i \in Words : i < node.word => flash[<<r, i>>] = Value(<<r, i>>)

Acknowledged(r) ==
  /\ AtRecord(r) /\ Rest = "write" /\ Quiet /\ Speaking({"OK_A", "OK_B"}) /\ node.buf = <<>>
  /\ Sane(r + 4)

Refusal(r) == AtRecord(r) /\ Rest = "cmd" /\ Quiet /\ Speaking({"ERORR"})

\* The host repeats a record to a node that has refused it, and waits for commands.
Deaf(r) ==
  /\ AtRecord(r) /\ Rest = "cmd" /\ Speaking({})
  /\ box.frame = NoFrame \/ RecordFrame(r, box.frame)

Ending    == /\ host.at = End - 1 /\ Rest = "write" /\ Sending /\ Speaking({}) /\ node.buf = <<>>
             /\ Sane(End)
Ended     == host.at = End - 1 /\ Rest = "cmd" /\ Quiet /\ Speaking({"OK"}) /\ Sane(End)
Rebooting == host.at = End /\ Rest = "reset" /\ Quiet /\ Speaking({"OK"})

Heeding ==
  /\ node.line = <<>>
  /\ \/ Entered \/ Commanded \/ Erasing \/ AllErased \/ Readied \/ Ending \/ Ended \/ Rebooting
     \/ \E r \in 1 .. RECORDS : Reading(r) \/ Programming(r) \/ Acknowledged(r) \/ Refusal(r)

Stages == Heeding \/ \E r \in 1 .. RECORDS : Deaf(r)

StageInv == Live => Stages

-----------------------------------------------------------------------------
(* What is in the flash.                                                   *)

FlashInv ==
  /\ host.at = End => Sane(End)
  /\ host.job = "loader" => Kept("app") \/ astray
  /\ node.prog \in {"app", "upd"} => Whole("app") \/ astray
  /\ host.at = 1 => (Kept("app") \/ astray) /\ (host.job = "app" => Renewed("loader"))

DeadInv == node.prog = "dead" => hurt \/ astray

BootInv ==
  /\ BootTypeInv /\ SayInv /\ IdleInv /\ OutInv /\ BoxInv
  /\ StageInv /\ FlashInv /\ DeadInv

\* A host that repeats a record the node has in part is not followed any further.
UpdateInv == outrun \/ BootInv

-----------------------------------------------------------------------------
(* The host's script.                                                      *)

Opening == << <<"ENTER">>, <<"ERASE">>, <<"WRITE">> >>
Records == [r \in 1 .. RECORDS |-> <<"RECORD", r>>]
Closing == << <<"END">>, <<"REBOOT">> >>

LEMMA BootConstants ==
  /\ RECORDS \in Nat /\ RECORDS > 0 /\ RECORD \in Nat /\ RECORD > 4 /\ RECORD % 2 = 1
  /\ LOADER \subseteq 1 .. RECORDS /\ BELOW \subseteq 1 .. RECORDS /\ LOADER \cap BELOW = {}
  /\ MAX_LEN_CMD_LINE \in Nat /\ MAX_LEN_CMD_LINE > 2 /\ WAIT \in Nat
BY BootAssumption

LEMMA ScriptSteps ==
  /\ End = RECORDS + 5
  /\ Script[1] = <<"ENTER">> /\ Script[2] = <<"ERASE">> /\ Script[3] = <<"WRITE">>
  /\ \A r \in 1 .. RECORDS : Script[r + 3] = <<"RECORD", r>>
  /\ Script[End - 1] = <<"END">> /\ Script[End] = <<"REBOOT">>
<1> DEFINE All == {<<"ENTER">>, <<"ERASE">>, <<"WRITE">>, <<"END">>, <<"REBOOT">>}
                  \cup {<<"RECORD", r>> : r \in 1 .. RECORDS}
<1>1. Opening \in Seq(All) /\ Len(Opening) = 3
  BY DEF Opening
<1>2. Records \in Seq(All) /\ Len(Records) = RECORDS
  <2>1. \A r \in 1 .. RECORDS : <<"RECORD", r>> \in All
    OBVIOUS
  <2> HIDE DEF All
  <2>2. Records \in [1 .. RECORDS -> All]
    BY <2>1 DEF Records
  <2> QED  BY <2>2, BootConstants
<1>3. Closing \in Seq(All) /\ Len(Closing) = 2
  BY DEF Closing
<1> HIDE DEF All
<1>4. PICK two : two = Opening \o Records
  OBVIOUS
<1>5. /\ two \in Seq(All) /\ Len(two) = RECORDS + 3
      /\ \A i \in 1 .. 3 : two[i] = Opening[i]
      /\ \A r \in 1 .. RECORDS : two[r + 3] = Records[r]
  <2>1. /\ two \in Seq(All) /\ Len(two) = 3 + RECORDS
        /\ \A i \in 1 .. 3 + RECORDS : two[i] = IF i <= 3 THEN Opening[i] ELSE Records[i - 3]
    <3>1. PICK a, b : a = Opening /\ b = Records
      OBVIOUS
    <3>2. a \in Seq(All) /\ b \in Seq(All) /\ Len(a) = 3 /\ Len(b) = RECORDS /\ two = a \o b
      BY <1>1, <1>2, <1>4, <3>1
    <3>3. /\ two \in Seq(All) /\ Len(two) = Len(a) + Len(b)
          /\ \A i \in 1 .. Len(a) + Len(b) : two[i] = IF i <= Len(a) THEN a[i] ELSE b[i - Len(a)]
      BY <3>2, ConcatProperties
    <3> QED  BY <3>1, <3>2, <3>3
  <2>2. PICK n \in Nat : n = RECORDS /\ n > 0
    BY BootConstants
  <2>3. \A i \in 1 .. 3 : i \in 1 .. 3 + n /\ i <= 3
    BY <2>2
  <2>4. \A r \in 1 .. n : r + 3 \in 1 .. 3 + n /\ ~(r + 3 <= 3) /\ (r + 3) - 3 = r
    BY <2>2
  <2> QED  BY <2>1, <2>2, <2>3, <2>4
<1>6. Script = two \o Closing
  BY <1>4 DEF Script, Opening, Records, Closing
<1>7. /\ Len(Script) = RECORDS + 5
      /\ \A i \in 1 .. RECORDS + 3 : Script[i] = two[i]
      /\ Script[RECORDS + 4] = Closing[1] /\ Script[RECORDS + 5] = Closing[2]
  <2>1. PICK n \in Nat, m \in Nat : n = RECORDS /\ m = n + 3 /\ n > 0
    BY BootConstants
  <2>2. /\ Len(Script) = m + 2
        /\ \A i \in 1 .. m + 2 : Script[i] = IF i <= m THEN two[i] ELSE Closing[i - m]
    <3>1. PICK a, b : a = Script /\ b = Closing
      OBVIOUS
    <3>2. b \in Seq(All) /\ Len(b) = 2 /\ Len(two) = m /\ a = two \o b /\ two \in Seq(All)
      BY <1>3, <1>5, <1>6, <2>1, <3>1
    <3>3. /\ Len(a) = Len(two) + Len(b)
          /\ \A i \in 1 .. Len(two) + Len(b) :
               a[i] = IF i <= Len(two) THEN two[i] ELSE b[i - Len(two)]
      BY <3>2, ConcatProperties
    <3> QED  BY <3>1, <3>2, <3>3
  <2>3. /\ m + 1 \in 1 .. m + 2 /\ ~(m + 1 <= m) /\ (m + 1) - m = 1
        /\ m + 2 \in 1 .. m + 2 /\ ~(m + 2 <= m) /\ (m + 2) - m = 2
        /\ \A i \in 1 .. m : i \in 1 .. m + 2 /\ i <= m
        /\ m + 1 = n + 4 /\ m + 2 = n + 5
    BY <2>1
  <2>4. Script[m + 1] = Closing[1] /\ Script[m + 2] = Closing[2]
        /\ \A i \in 1 .. m : Script[i] = two[i]
    BY <2>2, <2>3
  <2> QED  BY <2>1, <2>2, <2>3, <2>4
<1>8. Script[RECORDS + 4] = Closing[1] /\ Script[RECORDS + 5] = Closing[2]
  BY <1>7
<1>9. Script[1] = Opening[1] /\ Script[2] = Opening[2] /\ Script[3] = Opening[3]
  BY <1>5, <1>7, BootConstants
<1>10. \A r \in 1 .. RECORDS : Script[r + 3] = <<"RECORD", r>>
  BY <1>5, <1>7, BootConstants DEF Records
<1>11. End = RECORDS + 5 /\ End - 1 = RECORDS + 4
  BY <1>7, BootConstants DEF End
<1> QED  BY <1>8, <1>9, <1>10, <1>11 DEF Opening, Closing

\* Every step is one of these.
LEMMA StepCases ==
  ASSUME NEW at \in 1 .. End
  PROVE  at \in {1, 2, 3, End - 1, End} \/ \E r \in 1 .. RECORDS : at = r + 3
<1>1. SUFFICES ASSUME at \notin {1, 2, 3, End - 1, End}
               PROVE  at - 3 \in 1 .. RECORDS /\ at = (at - 3) + 3
  BY <1>1
<1> QED  BY <1>1, ScriptSteps, BootConstants

LEMMA EntersFrame ==
  /\ CommandFrame("loader", 1) = BootUpd /\ CommandFrame("app", 1) = BootLoad
  /\ \A job \in {"loader", "app"} : Frames(job, Script[1]) = <<CommandFrame(job, 1)>>
BY ScriptSteps DEF CommandFrame, Frames

LEMMA CommandFrames ==
  ASSUME NEW job
  PROVE  /\ CommandFrame(job, 2) = << <<"ERASE">>, Zero>>
         /\ CommandFrame(job, 3) = << <<"WRITE">>, Zero>>
         /\ CommandFrame(job, End) = << <<"REBOOT">>, Zero>>
         /\ CommandFrame(job, End - 1) = EndFrame
         /\ \A at \in {2, 3, End - 1, End} : Frames(job, Script[at]) = <<CommandFrame(job, at)>>
<1>1. Frames(job, Script[2]) = << << <<"ERASE">>, Zero>> >>
  BY ScriptSteps DEF Frames
<1>2. Frames(job, Script[3]) = << << <<"WRITE">>, Zero>> >>
  BY ScriptSteps DEF Frames
<1>3. Frames(job, Script[End]) = << << <<"REBOOT">>, Zero>> >>
  BY ScriptSteps DEF Frames
<1>4. Frames(job, Script[End - 1]) = <<EndFrame>>
  BY ScriptSteps DEF Frames
<1> QED  BY <1>1, <1>2, <1>3, <1>4 DEF CommandFrame

\* A record leaves in frames of two tokens, the last one alone.
LEMMA RecordLeaves ==
  ASSUME NEW job, NEW r \in 1 .. RECORDS
  PROVE  /\ RecordFrames(r, Frames(job, Script[r + 3]))
         /\ Frames(job, Script[r + 3]) # <<>>
         /\ 2 * Len(Frames(job, Script[r + 3])) - 1 = RECORD
<1>1. Frames(job, Script[r + 3]) = Pairs(Tokens(r))
  BY ScriptSteps DEF Frames
<1>2. PICK s : s = Tokens(r)
  OBVIOUS
<1>3. s \in Seq({r} \X (1 .. RECORD)) /\ Len(s) = RECORD /\ \A i \in 1 .. RECORD : s[i][2] = i
  BY <1>2, BootConstants DEF Tokens
<1>4. PICK n : n = (RECORD + 1) \div 2
  OBVIOUS
<1>5. n \in Nat /\ n > 1 /\ 2 * n - 1 = RECORD
  BY <1>4, BootConstants
<1>6. PICK out : out = Pairs(s)
  OBVIOUS
<1>7. out = [k \in 1 .. n |-> SubSeq(s, 2 * k - 1, IF 2 * k <= RECORD THEN 2 * k ELSE RECORD)]
  BY <1>3, <1>4, <1>6 DEF Pairs
<1>8. ASSUME NEW k \in 1 .. n
      PROVE  RecordFrame(r, out[k]) /\ (Len(out[k]) = IF k = n THEN 1 ELSE 2)
             /\ (k # 1 => Plain(out[k]))
  <2>1. PICK a, b : a = 2 * k - 1 /\ b = IF 2 * k <= RECORD THEN 2 * k ELSE RECORD
    OBVIOUS
  <2>2. a \in 1 .. RECORD /\ b \in 1 .. RECORD /\ b = IF k = n THEN a ELSE a + 1
    <3>1. PICK m : m = RECORD
      OBVIOUS
    <3>2. m = 2 * n - 1 /\ n \in Nat /\ k \in Nat /\ k >= 1 /\ k <= n
      BY <1>5, <3>1
    <3>3. a = 2 * k - 1 /\ b = IF 2 * k <= m THEN 2 * k ELSE m
      BY <2>1, <3>1
    <3>4. k = n => ~(2 * k <= m) /\ m = 2 * k - 1
      BY <3>2
    <3>5. k # n => 2 * k <= m
      BY <3>2
    <3>6. a \in 1 .. m /\ b \in 1 .. m /\ b = IF k = n THEN a ELSE a + 1
      BY <3>2, <3>3, <3>4, <3>5
    <3> QED  BY <3>1, <3>6
  <2>3. out[k] = SubSeq(s, a, b)
    BY <1>7, <2>1
  <2>4. \A i \in a .. b : s[i] \in {r} \X (1 .. RECORD)
    BY <1>3, <2>2
  <2>5. SubSeq(s, a, b) \in Seq({r} \X (1 .. RECORD))
        /\ Len(SubSeq(s, a, b)) = (IF a <= b THEN b - a + 1 ELSE 0)
        /\ \A i \in 1 .. b - a + 1 : SubSeq(s, a, b)[i] = s[a + i - 1]
    BY <2>2, <2>4, SubSeqProperties
  <2>6. Len(out[k]) = IF k = n THEN 1 ELSE 2
    BY <2>2, <2>3, <2>5
  <2>7. k # 1 => Plain(out[k])
    <3> SUFFICES ASSUME k # 1, NEW i \in 1 .. Len(out[k])  PROVE out[k][i][2] # 1
      BY DEF Plain
    <3>1. a >= 3 /\ a \in Nat
      BY <1>5, <2>1
    <3>2. i \in 1 .. b - a + 1 /\ a + i - 1 \in 1 .. RECORD /\ a + i - 1 # 1
      BY <2>2, <2>6, <3>1, BootConstants
    <3>3. out[k][i] = s[a + i - 1]
      BY <2>3, <2>5, <3>2
    <3> QED  BY <1>3, <3>2, <3>3
  <2> QED  BY <2>2, <2>3, <2>5, <2>6, <2>7 DEF RecordFrame
<1>9. Len(out) = n /\ out \in Seq(Seq(Letters))
  <2>1. \A k \in 1 .. n : out[k] \in Seq(Letters)
    BY <1>8 DEF RecordFrame, Letters
  <2>2. out \in [1 .. n -> Seq(Letters)]
    BY <1>7, <2>1
  <2> QED  BY <1>5, <1>7, <2>2
<1>10. RecordFrames(r, out) /\ out # <<>> /\ 2 * Len(out) - 1 = RECORD
  BY <1>5, <1>8, <1>9 DEF RecordFrames
<1> QED  BY <1>1, <1>2, <1>6, <1>10

-----------------------------------------------------------------------------
(* Fields, frames and answers.                                             *)

LEMMA NodeFields ==
  ASSUME NEW n \in Nodes
  PROVE  /\ n.prog \in Programs /\ n.pc \in Places /\ n.line \in Seq(Letters)
         /\ n.buf \in Seq(Letters)
         /\ n.erase \in {<<>>, <<"app">>, <<"loader">>, <<"loader", "app">>}
         /\ n.word \in Nat /\ n.to \in Nat \X Nat
         /\ n.answer \in Seq(Spoken) /\ n.then \in {"cmd", "write", "reset"} /\ n.wait \in Nat
BY DEF Nodes

\* What a program takes over when it begins to say something.
Alike(n, o) ==
  /\ n.prog = o.prog /\ n.line = o.line /\ n.buf = o.buf /\ n.erase = o.erase
  /\ n.word = o.word /\ n.to = o.to

LEMMA SayEffect ==
  ASSUME NEW n \in Nodes, NEW frames \in Seq(Spoken), NEW then \in {"cmd", "write", "reset"}
  PROVE  LET m == Say(n, frames, then)
         IN m \in Nodes /\ Alike(m, n) /\ m.pc = "load" /\ m.answer = frames /\ m.then = then
BY DEF Say, Nodes, Alike, Places

LEMMA IdleType ==
  ASSUME NEW prog \in Programs
  PROVE  /\ Idle(prog) \in Nodes /\ Idle(prog).prog = prog /\ Idle(prog).buf = <<>>
         /\ Idle(prog).line = <<>> /\ Idle(prog).answer = <<>>
         /\ Idle(prog).pc = IF prog \in {"upd", "boot"} THEN "cmd" ELSE "run"
BY DEF Idle, Nodes, Places, Programs, Letters, Spoken, Home

\* The three steps of saying an answer.
Voice == LoadFrame \/ WaitOn \/ Sent

LEMMA VoiceEffect ==
  ASSUME BootTypeInv, SayInv, Voice
  PROVE  /\ node' \in Nodes /\ Alike(node', node) /\ Rest' = Rest /\ node.pc \in {"load", "wait"}
         /\ SayInv'
         /\ UNCHANGED <<flash, box, init, host>>
<1>1. node \in Nodes
  BY DEF BootTypeInv
<1>2. CASE LoadFrame
  <2>1. node.answer \in Seq(Spoken) /\ node.answer # <<>> /\ node.pc = "load"
    BY <1>1, <1>2, NodeFields DEF LoadFrame, SayInv
  <2>2. PICK t : t = Tail(node.answer)
    OBVIOUS
  <2>3. t \in Seq(Spoken)
    BY <2>1, <2>2, HeadTailProperties
  <2>4. node' = [node EXCEPT !.pc = "wait", !.wait = 0, !.answer = t]
    BY <1>2, <2>2 DEF LoadFrame
  <2>5. node' \in Nodes /\ Alike(node', node) /\ node'.pc = "wait" /\ node'.then = node.then
    BY <1>1, <2>3, <2>4 DEF Nodes, Places, Alike
  <2> QED  BY <1>2, <2>1, <2>5 DEF LoadFrame, Rest, SayInv
<1>3. CASE WaitOn
  <2>1. node' = [node EXCEPT !.wait = node.wait + 1] /\ node.pc = "wait"
    BY <1>3 DEF WaitOn
  <2>2. node.wait + 1 \in Nat
    BY <1>1, NodeFields
  <2>3. PICK w : w = node.wait + 1
    OBVIOUS
  <2>4. node' \in Nodes /\ Alike(node', node) /\ node'.pc = "wait" /\ node'.then = node.then
    BY <1>1, <2>1, <2>2, <2>3 DEF Nodes, Alike
  <2> QED  BY <1>3, <2>1, <2>4 DEF WaitOn, Rest, SayInv
<1>4. CASE Sent
  <2>1. PICK next : next = IF node.answer = <<>> THEN node.then ELSE "load"
    OBVIOUS
  <2>2. node' = [node EXCEPT !.pc = next] /\ node.pc = "wait"
    BY <1>4, <2>1 DEF Sent
  <2>3. node.then \in {"cmd", "write", "reset"}
    BY <1>1, NodeFields
  <2>4. /\ node' \in Nodes /\ Alike(node', node) /\ node'.pc = next /\ node'.then = node.then
        /\ node'.answer = node.answer
    BY <1>1, <2>1, <2>2, <2>3 DEF Nodes, Alike, Places
  <2>5. Rest' = Rest /\ SayInv'
    BY <2>1, <2>2, <2>3, <2>4 DEF Rest, SayInv
  <2> QED  BY <1>4, <2>2, <2>4, <2>5 DEF Sent
<1> QED  BY <1>2, <1>3, <1>4 DEF Voice

LEMMA VoiceTx ==
  ASSUME BootTypeInv, SayInv, Voice
  PROVE  /\ tx' \in [frame : Spoken \cup {""}, req : BOOLEAN]
         /\ \/ /\ node.answer # <<>> /\ node'.answer = Tail(node.answer)
               /\ Going' = {Head(node.answer)}
            \/ node'.answer = node.answer /\ Going' \subseteq Going
<1>1. node \in Nodes /\ tx \in [frame : Spoken \cup {""}, req : BOOLEAN]
  BY DEF BootTypeInv
<1>2. CASE LoadFrame
  <2>1. node.answer \in Seq(Spoken) /\ node.answer # <<>>
    BY <1>1, <1>2, NodeFields DEF LoadFrame, SayInv
  <2>2. PICK h, t : h = Head(node.answer) /\ t = Tail(node.answer)
    OBVIOUS
  <2>3. h \in Spoken
    BY <2>1, <2>2, HeadTailProperties
  <2>4. node' = [node EXCEPT !.pc = "wait", !.wait = 0, !.answer = t]
        /\ tx' = [frame |-> h, req |-> TRUE]
    BY <1>2, <2>2 DEF LoadFrame
  <2>5. node'.answer = t
    BY <1>1, <2>4 DEF Nodes
  <2>6. tx'.frame = h /\ tx'.req /\ tx' \in [frame : Spoken \cup {""}, req : BOOLEAN]
    BY <2>3, <2>4
  <2> QED  BY <2>1, <2>2, <2>5, <2>6 DEF Going
<1>3. CASE WaitOn
  <2>1. node'.answer = node.answer /\ tx' = tx
    BY <1>1, <1>3 DEF WaitOn, Nodes
  <2> QED  BY <1>1, <2>1 DEF Going
<1>4. CASE Sent
  <2>1. node'.answer = node.answer
    BY <1>1, <1>4 DEF Sent, Nodes
  <2>2. tx' = tx \/ tx' = [tx EXCEPT !.req = FALSE]
    BY <1>4 DEF Sent
  <2>3. tx' \in [frame : Spoken \cup {""}, req : BOOLEAN] /\ (tx' = tx \/ ~tx'.req)
    BY <1>1, <2>2
  <2> QED  BY <2>1, <2>3 DEF Going
<1> QED  BY <1>2, <1>3, <1>4 DEF Voice

LEMMA DigitsTail ==
  ASSUME NEW s \in Seq(Spoken), s # <<>>, Digits(s)
  PROVE  Head(s) = "digits" /\ Digits(Tail(s))
BY HeadTailProperties DEF Digits

LEMMA SpokenKept ==
  ASSUME BootTypeInv, SayInv, Voice, NEW A, Speaking(A)
  PROVE  Speaking(A)'
<1>1. node.answer \in Seq(Spoken)
  BY NodeFields DEF BootTypeInv
<1>2. CASE node'.answer = node.answer /\ Going' \subseteq Going
  BY <1>2 DEF Speaking
<1>3. CASE node.answer # <<>> /\ node'.answer = Tail(node.answer)
           /\ Going' = {Head(node.answer)}
  <2>1. CASE Digits(node.answer)
    BY <1>1, <1>3, <2>1, DigitsTail DEF Speaking
  <2>2. CASE Head(node.answer) \in A /\ Digits(Tail(node.answer))
    BY <1>3, <2>2 DEF Speaking
  <2> QED  BY <2>1, <2>2 DEF Speaking
<1> QED  BY <1>2, <1>3, VoiceTx

\* A new answer is all that is on its way afterwards.
LEMMA NewAnswer ==
  ASSUME NEW A, NEW a \in A, Speaking({}), node'.answer = <<a>>, tx' = tx
  PROVE  Speaking(A)'
<1>1. Going \subseteq {"digits"}
  BY DEF Speaking
<1>2. Head(<<a>>) = a /\ Tail(<<a>>) = <<>> /\ <<a>> # <<>> /\ Digits(<<>>)
  BY DEF Digits
<1> QED  BY <1>1, <1>2 DEF Speaking, Going

\* What the host hears when a transmission ends.
LEMMA HeardAnswer ==
  ASSUME BootTypeInv, Transmitted, NEW A, Speaking(A)
  PROVE  /\ Speaking(A)'
         /\ tx.frame # "digits" => tx.frame \in A /\ Speaking({})'
<1>1. tx' \in [frame : Spoken \cup {""}, req : BOOLEAN] /\ ~tx'.req /\ tx.req
  BY DEF Transmitted, BootTypeInv
<1>2. Going' = {} /\ Going = {tx.frame} /\ node' = node
  BY <1>1 DEF Going, Transmitted
<1> QED  BY <1>2 DEF Speaking

-----------------------------------------------------------------------------
(* Frames and the host.                                                    *)

\* The frames that enter an updater are no others, and none is empty.
LEMMA EnteringFrames ==
  /\ BootUpd # BootLoad /\ BootUpd # NoFrame /\ BootLoad # NoFrame /\ EndFrame # NoFrame
  /\ EndFrame # BootUpd /\ EndFrame # BootLoad
BY DEF BootUpd, BootLoad, EndFrame, NoFrame

LEMMA RecordFrameKind ==
  ASSUME NEW r, NEW frame, RecordFrame(r, frame)
  PROVE  frame \notin {BootUpd, BootLoad, EndFrame, NoFrame}
<1>1. frame \in Seq({r} \X (1 .. RECORD)) /\ Len(frame) \in {1, 2}
  BY DEF RecordFrame
<1>2. frame[1] \in {r} \X (1 .. RECORD)
  BY <1>1
<1>3. Len(frame[1]) = 2
  BY <1>2
<1>4. frame # NoFrame
  <2>1. Len(NoFrame) = 0
    BY DEF NoFrame
  <2>2. PICK n : n = Len(frame)
    OBVIOUS
  <2>3. n # 0
    BY <1>1, <2>2
  <2> QED  BY <2>1, <2>2, <2>3
<1>5. \A name : frame # << <<name>> >>
  BY <1>3
<1> QED  BY <1>4, <1>5 DEF BootUpd, BootLoad, EndFrame

LEMMA CommandFrameKind ==
  ASSUME NEW job, NEW at \in {2, 3, End - 1, End}
  PROVE  /\ CommandFrame(job, at) \notin {BootUpd, BootLoad, NoFrame}
         /\ CommandFrame(job, at) \in Seq(Signs)
<1>1. ASSUME NEW name \in {<<"ERASE">>, <<"WRITE">>, <<"REBOOT">>}
      PROVE  <<name, Zero>> \notin {BootUpd, BootLoad, NoFrame} /\ <<name, Zero>> \in Seq(Signs)
  <2>1. Len(<<name, Zero>>) = 2
    OBVIOUS
  <2>2. Len(BootUpd) = 1 /\ Len(BootLoad) = 1 /\ Len(NoFrame) = 0
    BY DEF BootUpd, BootLoad, NoFrame
  <2>3. name \in Signs /\ Zero \in Signs
    BY DEF Signs, Names
  <2>4. <<name, Zero>> \in Seq(Signs)
    BY <2>3
  <2> QED  BY <2>1, <2>2, <2>4
<1>2. EndFrame \in Seq(Signs)
  BY DEF EndFrame, Signs, Names
<1> QED  BY <1>1, <1>2, EnteringFrames, CommandFrames

LEMMA EnterFrameKind ==
  ASSUME NEW job \in {"loader", "app"}
  PROVE  /\ CommandFrame(job, 1) = IF job = "loader" THEN BootUpd ELSE BootLoad
         /\ CommandFrame(job, 1) \in Seq(Signs)
<1>1. <<"BOOTUPD">> \in Signs /\ <<"BOOTLOAD">> \in Signs
  BY DEF Signs, Names
<1>2. BootUpd \in Seq(Signs) /\ BootLoad \in Seq(Signs)
  BY <1>1 DEF BootUpd, BootLoad
<1> QED  BY <1>2, EntersFrame

LEMMA HostFields ==
  ASSUME BootTypeInv
  PROVE  /\ host.job \in {"loader", "app"} /\ host.at \in 1 .. End /\ host.out \in Seq(Seq(Signs))
         /\ host.st \in {"asks", "finished", "done", "quit"}
         /\ host.at \in {1, 2, 3, End - 1, End} \/ \E r \in 1 .. RECORDS : AtRecord(r)
<1>1. host \in Hosts
  BY DEF BootTypeInv
<1>2. /\ host.job \in {"loader", "app"} /\ host.at \in 1 .. End /\ host.out \in Seq(Seq(Signs))
      /\ host.st \in {"asks", "finished", "done", "quit"}
  BY <1>1 DEF Hosts
<1> QED  BY <1>2, StepCases DEF AtRecord

\* No step is of two kinds.
LEMMA RecordSteps ==
  ASSUME NEW r \in 1 .. RECORDS
  PROVE  r + 3 \notin {1, 2, 3, End - 1, End} /\ r + 3 \in 1 .. End
BY ScriptSteps, BootConstants

LEMMA StepNumbers ==
  /\ 1 \in 1 .. End /\ 2 \in 1 .. End /\ 3 \in 1 .. End /\ End - 1 \in 1 .. End /\ End \in 1 .. End
  /\ 1 # 2 /\ 1 # 3 /\ 2 # 3 /\ End - 1 \notin {1, 2, 3} /\ End \notin {1, 2, 3, End - 1}
  /\ End \in Nat /\ End > 3
BY ScriptSteps, BootConstants

\* What the host sends when it turns to a step.
LEMMA AskingHost ==
  ASSUME NEW job \in {"loader", "app"}, NEW at \in 1 .. End
  PROVE  LET h == Asking(job, at)
         IN /\ h \in Hosts /\ h.job = job /\ h.at = at /\ h.st = "asks"
            /\ at \in {1, 2, 3, End - 1, End} => h.out = <<CommandFrame(job, at)>>
            /\ \A r \in 1 .. RECORDS :
                 at = r + 3 => RecordFrames(r, h.out) /\ h.out # <<>> /\ 2 * Len(h.out) - 1 = RECORD
<1> DEFINE out == Frames(job, Script[at])
<1>1. CASE at \in {1, 2, 3, End - 1, End}
  <2>1. out = <<CommandFrame(job, at)>> /\ CommandFrame(job, at) \in Seq(Signs)
    BY <1>1, EntersFrame, CommandFrames, CommandFrameKind, EnterFrameKind
  <2>2. \A r \in 1 .. RECORDS : at # r + 3
    BY <1>1, RecordSteps
  <2>3. out \in Seq(Seq(Signs))
    BY <2>1
  <2> HIDE DEF out
  <2>4. Asking(job, at) = [job |-> job, at |-> at, st |-> "asks", out |-> out]
    BY DEF Asking, out
  <2> QED  BY <2>1, <2>2, <2>3, <2>4 DEF Hosts
<1>2. CASE \E r \in 1 .. RECORDS : at = r + 3
  <2>1. PICK r \in 1 .. RECORDS : at = r + 3
    BY <1>2
  <2>2. RecordFrames(r, out) /\ out # <<>> /\ 2 * Len(out) - 1 = RECORD
    BY <2>1, RecordLeaves
  <2>3. out \in Seq(Seq(Signs))
    BY <2>2 DEF RecordFrames, Signs
  <2>4. at \notin {1, 2, 3, End - 1, End} /\ \A q \in 1 .. RECORDS : at = q + 3 => q = r
    BY <2>1, RecordSteps
  <2> HIDE DEF out
  <2>5. Asking(job, at) = [job |-> job, at |-> at, st |-> "asks", out |-> out]
    BY DEF Asking, out
  <2> QED  BY <2>2, <2>3, <2>4, <2>5 DEF Hosts
<1> QED  BY <1>1, <1>2, StepCases

\* Turning to a step leaves the rest of what is known of the host as it was.
LEMMA AskingOut ==
  ASSUME NEW job \in {"loader", "app"}, NEW at \in 1 .. End, host' = Asking(job, at)
  PROVE  OutInv' /\ host' \in Hosts /\ host'.job = job /\ host'.at = at /\ host'.st = "asks"
<1>1. /\ host' \in Hosts /\ host'.job = job /\ host'.at = at /\ host'.st = "asks"
      /\ at \in {1, 2, 3, End - 1, End} => host'.out = <<CommandFrame(job, at)>>
      /\ \A r \in 1 .. RECORDS : at = r + 3 => RecordFrames(r, host'.out)
  BY AskingHost
<1>2. \A r \in 1 .. RECORDS : AtRecord(r)' => RecordFrames(r, host'.out)
  BY <1>1 DEF AtRecord
<1>3. (\A r \in 1 .. RECORDS : ~AtRecord(r)')
        => host'.out \in {<<>>, <<CommandFrame(host'.job, host'.at)>>}
  BY <1>1, StepCases DEF AtRecord
<1> QED  BY <1>1, <1>2, <1>3 DEF OutInv

-----------------------------------------------------------------------------
(* Steps that do not touch what the stages speak of.                       *)

\* The flash and the host's step as they were: what is known of the flash stays.
LEMMA SameFlash ==
  ASSUME BootInv, host'.job = host.job, host'.at = host.at, flash' = flash, node'.prog = node.prog,
         astray' = astray
  PROVE  FlashInv' /\ flash' \in [Cells -> Contents] /\ \A at : Sane(at)' = Sane(at)
<1>1. \A at : Sane(at)' = Sane(at)
  BY DEF Sane, Scope
<1>2. FlashInv'
  BY <1>1 DEF BootInv, FlashInv, Kept, Whole, Renewed
<1>3. flash' \in [Cells -> Contents]
  BY DEF BootInv, BootTypeInv
<1> QED  BY <1>1, <1>2, <1>3

\* Nothing the stages speak of is changed, and of the answers none is added.
Steady ==
  /\ node' \in Nodes /\ Alike(node', node) /\ Rest' = Rest /\ SayInv'
  /\ UNCHANGED <<flash, box>>
  /\ host'.job = host.job /\ host'.at = host.at /\ host'.out = host.out
  /\ \A A : Speaking(A) => Speaking(A)'

LEMMA SteadyStages ==
  ASSUME Steady, Stages
  PROVE  Stages'
<1>1. /\ Rest' = Rest /\ node'.buf = node.buf /\ node'.erase = node.erase
      /\ node'.word = node.word /\ node'.prog = node.prog /\ node'.line = node.line
      /\ node'.to = node.to /\ flash' = flash /\ box' = box
      /\ host'.job = host.job /\ host'.at = host.at /\ host'.out = host.out
      /\ \A A : Speaking(A) => Speaking(A)'
  BY DEF Steady, Alike
<1>2. Quiet' = Quiet /\ Sending' = Sending /\ Scope' = Scope
      /\ Blank(LOADER)' = Blank(LOADER)
  BY <1>1 DEF Quiet, Sending, Scope, Blank
<1>3. \A r : AtRecord(r)' = AtRecord(r)
  BY <1>1 DEF AtRecord
<1>4. \A at : Sane(at)' = Sane(at)
  BY <1>1, <1>2 DEF Sane
<1>5. /\ Entered => Entered'
      /\ AllErased => AllErased'
      /\ Readied => Readied'
  <2>1. Entered => Entered'
    BY <1>1, <1>2 DEF Entered
  <2>2. AllErased => AllErased'
    BY <1>1, <1>2, <1>4 DEF AllErased
  <2>3. Readied => Readied'
    BY <1>1, <1>2, <1>4 DEF Readied
  <2> QED  BY <2>1, <2>2, <2>3
<1>6. Ending => Ending'
  BY <1>1, <1>2, <1>4 DEF Ending
<1>7. Commanded => Commanded'
  BY <1>1, <1>2, <1>4 DEF Commanded
<1>8. Ended => Ended'
  BY <1>1, <1>2, <1>4 DEF Ended
<1>9. /\ Rebooting => Rebooting'
      /\ Erasing => Erasing'
  BY <1>1, <1>2 DEF Rebooting, Erasing
<1>10. ASSUME NEW r \in 1 .. RECORDS, Reading(r)  PROVE Reading(r)'
  <2>1. ToCome' = ToCome
    BY <1>1 DEF ToCome
  <2> QED  BY <1>1, <1>3, <1>4, <1>10, <2>1 DEF Reading
<1>11. ASSUME NEW r \in 1 .. RECORDS, Programming(r)  PROVE Programming(r)'
  BY <1>1, <1>2, <1>3, <1>4, <1>11 DEF Programming
<1>12. ASSUME NEW r \in 1 .. RECORDS, Acknowledged(r)  PROVE Acknowledged(r)'
  BY <1>1, <1>2, <1>3, <1>4, <1>12 DEF Acknowledged
<1>13. ASSUME NEW r \in 1 .. RECORDS, Refusal(r)  PROVE Refusal(r)'
  BY <1>1, <1>2, <1>3, <1>13 DEF Refusal
<1>14. ASSUME NEW r \in 1 .. RECORDS, Deaf(r)  PROVE Deaf(r)'
  BY <1>1, <1>3, <1>14 DEF Deaf
<1>15. CASE \E r \in 1 .. RECORDS : Deaf(r)
  BY <1>14, <1>15 DEF Stages
<1>16. CASE Heeding
  <2>1. node'.line = <<>>
    BY <1>1, <1>16 DEF Heeding
  <2> QED  BY <1>5, <1>6, <1>7, <1>8, <1>9, <1>10, <1>11, <1>12, <1>13, <1>16, <2>1
           DEF Heeding, Stages
<1> QED  BY <1>15, <1>16 DEF Stages

LEMMA SteadyStageInv ==
  ASSUME Steady, StageInv
  PROVE  StageInv'
<1>1. Live' = Live
  BY DEF Steady, Alike, Live
<1> QED  BY <1>1, SteadyStages DEF StageInv

LEMMA SteadyStep ==
  ASSUME BootInv, Steady, tx' \in [frame : Spoken \cup {""}, req : BOOLEAN],
         init' \in BOOLEAN, hurt' \in BOOLEAN, hurt => hurt', astray' = astray,
         host' \in Hosts, OutInv', BoxInv',
         ~Live => node' = node /\ tx' = tx /\ init' = init
  PROVE  BootInv'
<1>1. /\ node' \in Nodes /\ node'.buf = node.buf /\ node'.prog = node.prog
      /\ flash' = flash /\ box' = box /\ host'.job = host.job /\ host'.at = host.at /\ SayInv'
  BY DEF Steady, Alike
<1>2. BootTypeInv'
  BY <1>1 DEF BootInv, BootTypeInv
<1>3. Live' = Live
  BY <1>1 DEF Live
<1>4. IdleInv'
  BY <1>1, <1>3 DEF BootInv, IdleInv
<1>5. StageInv'
  BY SteadyStageInv DEF BootInv
<1>6. FlashInv'
  BY <1>1, SameFlash DEF BootInv
<1>7. DeadInv'
  BY <1>1 DEF BootInv, DeadInv
<1> QED  BY <1>1, <1>2, <1>4, <1>5, <1>6, <1>7 DEF BootInv

\* The host and the box untouched.
LEMMA SameHost ==
  ASSUME BootInv, UNCHANGED <<box, host>>
  PROVE  host' \in Hosts /\ OutInv' /\ BoxInv'
BY DEF BootInv, BootTypeInv, OutInv, AtRecord, BoxInv, Sending, Quiet

-----------------------------------------------------------------------------
(* The steps.                                                              *)

LEMMA Running ==
  ASSUME BootInv, node.pc # "run"
  PROVE  Live /\ Stages
<1>1. node \in Nodes /\ (~Live => node = Idle(node.prog))
  BY DEF BootInv, BootTypeInv, IdleInv
<1>2. Live
  BY <1>1, IdleType, NodeFields DEF Live
<1> QED  BY <1>2 DEF BootInv, StageInv

LEMMA NotRunning ==
  ASSUME BootInv, Live
  PROVE  node.pc # "run" /\ Rest # "run" /\ Stages
<1>1. Stages
  BY DEF BootInv, StageInv
<1>2. Rest # "run"
  BY <1>1 DEF Stages, Heeding, Entered, Commanded, Erasing, AllErased, Readied, Reading,
              Programming, Acknowledged, Refusal, Deaf, Ending, Ended, Rebooting
<1> QED  BY <1>1, <1>2 DEF Rest

LEMMA VoiceStep == BootInv /\ Voice => BootInv'
<1> SUFFICES ASSUME BootInv, Voice  PROVE BootInv'
  OBVIOUS
<1>1. BootTypeInv /\ SayInv
  BY DEF BootInv
<1>2. /\ node' \in Nodes /\ Alike(node', node) /\ Rest' = Rest /\ SayInv'
      /\ node.pc \in {"load", "wait"} /\ UNCHANGED <<flash, box, init, host>>
  BY <1>1, VoiceEffect
<1>3. \A A : Speaking(A) => Speaking(A)'
  BY <1>1, SpokenKept
<1>4. tx' \in [frame : Spoken \cup {""}, req : BOOLEAN]
  BY <1>1, VoiceTx
<1>5. hurt' \in BOOLEAN /\ (hurt => hurt') /\ astray' = astray
  BY <1>1 DEF Voice, LoadFrame, WaitOn, Sent, Calm, Upset, Mishap, BootTypeInv
<1>6. Live
  BY <1>2, Running
<1>7. Steady
  BY <1>2, <1>3 DEF Steady
<1>8. init' \in BOOLEAN
  BY <1>1, <1>2 DEF BootTypeInv
<1> QED  BY <1>2, <1>4, <1>5, <1>6, <1>7, <1>8, SteadyStep, SameHost

\* Steps that change nothing of the node, the box, the flash and the host.
LEMMA StillSteady ==
  ASSUME BootInv, UNCHANGED <<node, flash, box>>, tx' = tx \/ tx' = [tx EXCEPT !.req = FALSE],
         host'.job = host.job, host'.at = host.at, host'.out = host.out
  PROVE  Steady /\ tx' \in [frame : Spoken \cup {""}, req : BOOLEAN]
<1>1. tx \in [frame : Spoken \cup {""}, req : BOOLEAN] /\ node \in Nodes /\ SayInv
  BY DEF BootInv, BootTypeInv
<1>2. tx' \in [frame : Spoken \cup {""}, req : BOOLEAN] /\ Going' \subseteq Going
  BY <1>1 DEF Going
<1>3. Alike(node', node) /\ Rest' = Rest /\ SayInv'
  BY <1>1 DEF Alike, Rest, SayInv
<1>4. \A A : Speaking(A) => Speaking(A)'
  BY <1>2 DEF Speaking
<1> QED  BY <1>1, <1>2, <1>3, <1>4 DEF Steady

LEMMA BusOffStep == BootInv /\ BusOff => BootInv'
<1> SUFFICES ASSUME BootInv, BusOff  PROVE BootInv'
  OBVIOUS
<1>1. Live /\ UNCHANGED <<node, flash, box, host>> /\ tx' = tx /\ init' = TRUE
  BY DEF BusOff, Live
<1>2. hurt' \in BOOLEAN /\ (hurt => hurt') /\ astray' = astray
  BY DEF BusOff, Upset, Mishap, BootInv, BootTypeInv
<1> QED  BY <1>1, <1>2, StillSteady, SteadyStep, SameHost

LEMMA PollEffect ==
  ASSUME BootInv, Poll
  PROVE  /\ init' = FALSE /\ box' \in [frame : Seq(Signs), lost : BOOLEAN]
         /\ \/ box' = NoBox
            \/ /\ box.frame # NoFrame /\ box.lost
               /\ box'.frame = box.frame /\ box'.lost = FALSE
         /\ box = NoBox => box' = NoBox
<1>1. box \in [frame : Seq(Signs), lost : BOOLEAN]
  BY DEF BootInv, BootTypeInv
<1>2. box' = NoBox \/ (box.frame # NoFrame /\ box.lost /\ box' = [box EXCEPT !.lost = FALSE])
  BY DEF Poll
<1>3. NoBox \in [frame : Seq(Signs), lost : BOOLEAN] /\ NoBox.frame = NoFrame
  BY DEF NoBox, NoFrame
<1>4. PICK b : b = [box EXCEPT !.lost = FALSE]
  OBVIOUS
<1>5. b \in [frame : Seq(Signs), lost : BOOLEAN] /\ b.frame = box.frame /\ b.lost = FALSE
  BY <1>1, <1>4
<1> QED  BY <1>2, <1>3, <1>4, <1>5 DEF Poll

\* Polling an empty box changes nothing.
LEMMA PollSteady ==
  ASSUME BootInv, Poll, box.frame = NoFrame, node' = node, UNCHANGED <<flash, tx, host>>, Calm
  PROVE  BootInv'
<1>1. box = NoBox
  BY DEF BootInv, BoxInv
<1>2. box' = box /\ init' = FALSE
  BY <1>1, PollEffect
<1>3. hurt' = hurt /\ hurt \in BOOLEAN /\ astray' = astray
  BY DEF Calm, BootInv, BootTypeInv
<1>4. ~Live => ~init
  BY DEF BootInv, IdleInv
<1>5. init \in BOOLEAN
  BY DEF BootInv, BootTypeInv
<1>6. Steady /\ tx' \in [frame : Spoken \cup {""}, req : BOOLEAN]
  BY <1>2, StillSteady
<1> QED  BY <1>2, <1>3, <1>4, <1>5, <1>6, SteadyStep, SameHost

\* A step of an updater that leaves the host alone.
LEMMA LiveStep ==
  ASSUME BootInv, Live, host' = host, tx' = tx, hurt' = hurt, astray' \in BOOLEAN,
         astray => astray', init' \in BOOLEAN, flash' \in [Cells -> Contents],
         box' \in [frame : Seq(Signs), lost : BOOLEAN],
         node' \in Nodes, node'.prog = node.prog, Len(node'.buf) <= RECORD,
         SayInv', BoxInv', Stages', FlashInv'
  PROVE  BootInv'
<1>1. BootTypeInv'
  BY DEF BootInv, BootTypeInv
<1>2. IdleInv' /\ StageInv'
  BY DEF BootInv, IdleInv, Live, StageInv
<1>3. OutInv'
  BY DEF BootInv, OutInv, AtRecord
<1>4. DeadInv'
  BY DEF BootInv, DeadInv
<1> QED  BY <1>1, <1>2, <1>3, <1>4 DEF BootInv

\* A step that leaves the flash alone as well.
LEMMA CalmStep ==
  ASSUME BootInv, Live, UNCHANGED <<host, tx, flash, hurt, astray>>, init' \in BOOLEAN,
         box' \in [frame : Seq(Signs), lost : BOOLEAN],
         node' \in Nodes, node'.prog = node.prog, Len(node'.buf) <= RECORD,
         SayInv', BoxInv', Stages'
  PROVE  BootInv'
<1>1. FlashInv' /\ flash' \in [Cells -> Contents]
  BY SameFlash
<1>2. astray' \in BOOLEAN
  BY DEF BootInv, BootTypeInv
<1> QED  BY <1>1, <1>2, LiveStep

\* Nothing is on its way to the node.
LEMMA QuietBox ==
  ASSUME host'.out = <<>>, box' = NoBox
  PROVE  BoxInv' /\ Quiet' /\ box' \in [frame : Seq(Signs), lost : BOOLEAN]
<1>1. NoBox \in [frame : Seq(Signs), lost : BOOLEAN] /\ NoBox.frame = NoFrame
  BY DEF NoBox, NoFrame
<1> QED  BY <1>1, EnteringFrames DEF BoxInv, Quiet, Sending

LEMMA CommandRead ==
  ASSUME NEW name \in {<<"ERASE">>, <<"WRITE">>, <<"REBOOT">>}
  PROVE  Last(<<name, Zero>>) \in Ends /\ Command(<<>>, <<name, Zero>>) = <<name>>
<1>1. Len(<<name, Zero>>) = 2 /\ <<name, Zero>>[1] = name /\ <<name, Zero>>[2] = Zero
  OBVIOUS
<1>2. Last(<<name, Zero>>) \in Ends
  BY <1>1 DEF Last, Ends
<1>3. <<name, Zero>> # EndFrame
  BY <1>1 DEF EndFrame
<1>4. Typed(<<>>, name) = <<name>>
  <2>1. ~(Len(<<>>) + 1 >= MAX_LEN_CMD_LINE)
    BY BootConstants
  <2>2. Append(<<>>, name) = <<name>>
    OBVIOUS
  <2> QED  BY <2>1, <2>2 DEF Typed
<1> QED  BY <1>1, <1>2, <1>3, <1>4 DEF Command

LEMMA ObeyCases ==
  ASSUME NEW n
  PROVE  /\ Obey(n, << <<"ERASE">> >>) = [n EXCEPT !.pc = "erase", !.erase = ToErase(n.prog)]
         /\ Obey(n, << <<"WRITE">> >>) = Say([n EXCEPT !.buf = <<>>], <<"READY">>, "write")
         /\ Obey(n, << <<"REBOOT">> >>) = Say(n, <<"OK">>, "reset")
<1>1. << <<"ERASE">> >> # << <<"WRITE">> >> /\ << <<"ERASE">> >> # << <<"REBOOT">> >>
      /\ << <<"WRITE">> >> # << <<"REBOOT">> >>
  OBVIOUS
<1> QED  BY <1>1 DEF Obey

\* A command in the box finds the node waiting for it; or it is a record the node is deaf to.
LEMMA CommandArrived ==
  ASSUME BootInv, node.pc = "cmd", box.frame # NoFrame
  PROVE  /\ Live /\ Speaking({})
         /\ \/ \E r \in 1 .. RECORDS : Deaf(r) /\ RecordFrame(r, box.frame)
            \/ /\ Commanded /\ node.line = <<>> /\ host.out = <<>> /\ box.lost = FALSE
               /\ host.at \in {2, 3, End} /\ box.frame = << Script[host.at], Zero >>
<1>1. Live /\ Stages
  BY Running
<1>2. Rest = "cmd" /\ ~Quiet /\ box # NoBox
  BY DEF Rest, Quiet, NoBox
<1>3. CASE \E r \in 1 .. RECORDS : Deaf(r)
  BY <1>1, <1>3 DEF Deaf
<1>4. CASE Heeding
  <2>1. Commanded /\ node.line = <<>>
    BY <1>2, <1>4 DEF Heeding, Entered, Erasing, AllErased, Readied, Reading, Programming,
                      Acknowledged, Refusal, Ending, Ended, Rebooting
  <2>2. host.at \in {2, 3, End} /\ Speaking({}) /\ Sending
    BY <2>1 DEF Commanded
  <2>3. host.out = <<>> /\ box = [frame |-> CommandFrame(host.job, host.at), lost |-> FALSE]
    BY <1>2, <2>2 DEF Sending, Quiet
  <2>4. box.frame = CommandFrame(host.job, host.at) /\ box.lost = FALSE
    BY <2>3
  <2>5. CommandFrame(host.job, host.at) = <<Script[host.at], Zero>>
    BY <2>2, CommandFrames, ScriptSteps
  <2> QED  BY <1>1, <2>1, <2>2, <2>3, <2>4, <2>5
<1> QED  BY <1>1, <1>3, <1>4 DEF Stages

\* Frames of a record add to the line and make no command.
LEMMA RecordTyped ==
  ASSUME NEW r \in 1 .. RECORDS, NEW frame, RecordFrame(r, frame), NEW line \in Seq(Letters)
  PROVE  /\ Last(frame) \notin Ends /\ Command(line, frame) = <<>>
         /\ TypedFrame(line, frame) \in Seq(Letters)
<1>1. frame \in Seq({r} \X (1 .. RECORD)) /\ Len(frame) \in {1, 2}
  BY DEF RecordFrame
<1>2. \A i \in 1 .. Len(frame) : frame[i] \in Letters /\ Len(frame[i]) = 2
  BY <1>1 DEF Letters
<1>3. Last(frame) \notin Ends
  <2>1. PICK k : k = Len(frame)
    OBVIOUS
  <2>2. k \in 1 .. Len(frame) /\ Last(frame) = frame[k]
    BY <1>1, <2>1 DEF Last
  <2>3. Len(Last(frame)) = 2
    BY <1>2, <2>2
  <2>4. PICK l : l = Last(frame)
    OBVIOUS
  <2>5. Len(l) = 2
    BY <2>3, <2>4
  <2>6. \A name : l # <<name>>
    BY <2>5
  <2> QED  BY <2>4, <2>6 DEF Ends, Zero
<1>4. \A token \in Letters, l \in Seq(Letters) : Typed(l, token) \in Seq(Letters)
  BY DEF Typed
<1>5. TypedFrame(line, frame) \in Seq(Letters)
  BY <1>1, <1>2, <1>4 DEF TypedFrame
<1> QED  BY <1>3, <1>5 DEF Command

\* A node that is deaf to the records stays so.
LEMMA DeafStep ==
  ASSUME BootInv, ReadCommand, box.frame # NoFrame,
         NEW r \in 1 .. RECORDS, Deaf(r), RecordFrame(r, box.frame)
  PROVE  BootInv'
<1>1. /\ node.pc = "cmd" /\ Poll /\ UNCHANGED <<flash, tx, host, hurt, astray>>
      /\ init' = FALSE /\ init' \in BOOLEAN
  BY PollEffect DEF ReadCommand, Calm
<1>2. Live /\ node \in Nodes /\ node.line \in Seq(Letters) /\ node.answer = <<>>
      /\ Len(node.buf) <= RECORD
  BY <1>1, CommandArrived, NodeFields DEF BootInv, BootTypeInv, SayInv
<1>3. PICK line : line = TypedFrame(node.line, box.frame)
  OBVIOUS
<1>4. /\ line \in Seq(Letters) /\ Last(box.frame) \notin Ends
      /\ Command(node.line, box.frame) = <<>>
  BY <1>2, <1>3, RecordTyped
<1>5. node' = [node EXCEPT !.line = line]
  <2>1. node' = Obey([node EXCEPT !.line = line], <<>>)
    BY <1>3, <1>4 DEF ReadCommand
  <2>2. <<>> # << <<"ERASE">> >> /\ <<>> # << <<"WRITE">> >> /\ <<>> # << <<"REBOOT">> >>
    OBVIOUS
  <2> QED  BY <2>1, <2>2 DEF Obey
<1>6. /\ node' \in Nodes /\ node'.prog = node.prog /\ node'.buf = node.buf /\ node'.pc = "cmd"
      /\ node'.answer = <<>>
  BY <1>1, <1>2, <1>4, <1>5 DEF Nodes
<1>7. Speaking({})' /\ Rest' = "cmd" /\ SayInv'
  BY <1>1, <1>2, <1>6 DEF Deaf, Speaking, Going, Rest, SayInv
<1>8. box' \in [frame : Seq(Signs), lost : BOOLEAN] /\ (box' = NoBox \/ box'.frame = box.frame)
  BY <1>1, PollEffect
<1>9. NoBox.frame = NoFrame
  BY DEF NoBox
<1>10. Deaf(r)'
  BY <1>1, <1>7, <1>8, <1>9 DEF Deaf, AtRecord
<1>11. BoxInv'
  <2>1. host.at # 1 /\ host.st # "finished"
    <3>1. host.at = r + 3 /\ host.at # 1 /\ host.at # End
      BY RecordSteps DEF Deaf, AtRecord
    <3> QED  BY <3>1 DEF BootInv, OutInv
  <2> QED  BY <1>1, <1>8, <1>9, <2>1, EnteringFrames DEF BootInv, BoxInv
<1> QED  BY <1>1, <1>2, <1>6, <1>7, <1>8, <1>10, <1>11, CalmStep DEF Stages

\* A command is obeyed.
LEMMA CommandStep ==
  ASSUME BootInv, ReadCommand, box.frame # NoFrame, Commanded, node.line = <<>>, host.out = <<>>,
         box.lost = FALSE, host.at \in {2, 3, End}, box.frame = << Script[host.at], Zero >>
  PROVE  BootInv'
<1>1. Live /\ Speaking({})
  BY CommandArrived DEF ReadCommand
<1>2. /\ box' = NoBox /\ init' = FALSE /\ UNCHANGED <<flash, tx, host, hurt, astray>>
      /\ node.pc = "cmd" /\ init' \in BOOLEAN
  BY PollEffect DEF ReadCommand, Calm
<1>3. PICK n : n = [node EXCEPT !.line = <<>>]
  OBVIOUS
<1>4. node \in Nodes /\ Len(node.buf) <= RECORD /\ node.answer = <<>>
  BY <1>2, NodeFields DEF BootInv, BootTypeInv, SayInv
<1>5. n \in Nodes /\ Alike(n, node) /\ n.pc = "cmd" /\ n.answer = <<>>
  BY <1>2, <1>3, <1>4 DEF Nodes, Alike
<1>6. PICK name : name = Script[host.at]
  OBVIOUS
<1>7. /\ host.at = 2 => name = <<"ERASE">>
      /\ host.at = 3 => name = <<"WRITE">>
      /\ host.at = End => name = <<"REBOOT">>
  BY <1>6, ScriptSteps
<1>8. node' = Obey(n, <<name>>)
  <2>1. Last(box.frame) \in Ends /\ Command(node.line, box.frame) = <<name>>
    BY <1>6, <1>7, CommandRead
  <2> QED  BY <1>3, <2>1 DEF ReadCommand
<1>9. BoxInv' /\ Quiet' /\ box' \in [frame : Seq(Signs), lost : BOOLEAN]
  BY <1>2, QuietBox
<1>10. \A at : Sane(at)' = Sane(at)
  BY <1>2 DEF Sane, Scope
<1>11. CASE host.at = 2
  <2>1. node' = [n EXCEPT !.pc = "erase", !.erase = ToErase(n.prog)]
    BY <1>7, <1>8, <1>11, ObeyCases
  <2>2. ToErase(n.prog) \in {<<"loader">>, <<"loader", "app">>}
    BY DEF ToErase
  <2>3. /\ node' \in Nodes /\ node'.prog = n.prog /\ node'.buf = n.buf /\ node'.pc = "erase"
        /\ node'.erase = ToErase(n.prog) /\ node'.answer = <<>> /\ node'.line = n.line
    BY <1>5, <2>1, <2>2 DEF Nodes, Places
  <2>4. Speaking({})' /\ Rest' = "erase" /\ SayInv'
    BY <1>1, <1>2, <1>4, <2>3 DEF Speaking, Going, Rest, SayInv
  <2>5. Erasing' /\ node'.line = <<>>
    BY <1>1, <1>2, <1>5, <1>9, <1>11, <2>3, <2>4 DEF Erasing, Live, ToErase, Alike
  <2> QED  BY <1>1, <1>2, <1>4, <1>5, <1>9, <2>3, <2>4, <2>5, CalmStep DEF Stages, Heeding, Alike
<1>12. CASE host.at = 3
  <2>1. PICK m : m = [n EXCEPT !.buf = <<>>]
    OBVIOUS
  <2>2. m \in Nodes /\ m.prog = n.prog /\ m.buf = <<>> /\ m.line = n.line
    <3>1. <<>> \in Seq(Letters)
      OBVIOUS
    <3> QED  BY <1>5, <2>1, <3>1 DEF Nodes
  <2>3. node' = Say(m, <<"READY">>, "write")
    BY <1>7, <1>8, <1>12, <2>1, ObeyCases
  <2>4. <<"READY">> \in Seq(Spoken)
    BY DEF Spoken
  <2>5. /\ node' \in Nodes /\ Alike(node', m) /\ node'.pc = "load" /\ node'.then = "write"
        /\ node'.answer = <<"READY">>
    BY <2>2, <2>3, <2>4, SayEffect
  <2>6. Speaking({"READY"})' /\ Rest' = "write" /\ SayInv'
    BY <1>1, <1>2, <2>5, NewAnswer DEF Rest, SayInv
  <2>7. Readied' /\ node'.line = <<>>
    BY <1>2, <1>5, <1>9, <1>10, <1>12, <2>2, <2>5, <2>6 DEF Readied, Alike, Commanded
  <2>8. node'.prog = node.prog /\ Len(node'.buf) <= RECORD
    BY <1>5, <2>2, <2>5, BootConstants DEF Alike
  <2> QED  BY <1>1, <1>2, <1>9, <2>5, <2>6, <2>7, <2>8, CalmStep DEF Stages, Heeding
<1>13. CASE host.at = End
  <2>1. node' = Say(n, <<"OK">>, "reset")
    BY <1>7, <1>8, <1>13, ObeyCases
  <2>2. <<"OK">> \in Seq(Spoken)
    BY DEF Spoken
  <2>3. /\ node' \in Nodes /\ Alike(node', n) /\ node'.pc = "load" /\ node'.then = "reset"
        /\ node'.answer = <<"OK">>
    BY <1>5, <2>1, <2>2, SayEffect
  <2>4. Speaking({"OK"})' /\ Rest' = "reset" /\ SayInv'
    BY <1>1, <1>2, <2>3, NewAnswer DEF Rest, SayInv
  <2>5. Rebooting' /\ node'.line = <<>>
    BY <1>2, <1>5, <1>9, <1>13, <2>3, <2>4 DEF Rebooting, Alike
  <2>6. node'.prog = node.prog /\ Len(node'.buf) <= RECORD
    BY <1>4, <1>5, <2>3 DEF Alike
  <2> QED  BY <1>1, <1>2, <1>9, <2>3, <2>4, <2>5, <2>6, CalmStep DEF Stages, Heeding
<1> QED  BY <1>11, <1>12, <1>13

LEMMA ReadCommandStep == BootInv /\ ReadCommand => BootInv'
<1> SUFFICES ASSUME BootInv, ReadCommand  PROVE BootInv'
  OBVIOUS
<1>1. CASE box.frame = NoFrame
  BY <1>1, PollSteady DEF ReadCommand
<1>2. CASE box.frame # NoFrame
  BY <1>2, CommandArrived, DeafStep, CommandStep DEF ReadCommand
<1> QED  BY <1>1, <1>2

-----------------------------------------------------------------------------
(* Erasing and restarting.                                                 *)

LEMMA CellFacts ==
  /\ \A area : InArea(area) \subseteq Cells
  /\ \A r, i : <<r, i>> \in Cells <=> r \in (1 .. RECORDS) \ BELOW /\ i \in Words
  /\ \A r, i : <<r, i>> \in InArea("loader") <=> <<r, i>> \in Cells /\ r \in LOADER
  /\ \A r, i : <<r, i>> \in InArea("app") <=> <<r, i>> \in Cells /\ r \notin LOADER
BY DEF Cells, InArea

LEMMA ScopeCells ==
  ASSUME NEW r \in Scope
  PROVE  r \in 1 .. RECORDS /\ \A i \in Words : <<r, i>> \in Cells
BY CellFacts, BootConstants DEF Scope

LEMMA EraseStep == BootInv /\ EraseSectors => BootInv'
<1> SUFFICES ASSUME BootInv, EraseSectors  PROVE BootInv'
  OBVIOUS
<1>1. /\ node.pc = "erase" /\ box' = box /\ tx' = tx /\ init' = init /\ host' = host
      /\ hurt' = hurt /\ astray' = astray
  BY DEF EraseSectors, Calm
<1>2. Live /\ Stages
  BY <1>1, Running
<1>3. Rest = "erase"
  BY <1>1 DEF Rest
<1>4. Erasing /\ node.line = <<>>
  BY <1>2, <1>3 DEF Stages, Heeding, Deaf, Entered, Commanded, AllErased, Readied, Reading,
                    Programming, Acknowledged, Refusal, Ending, Ended, Rebooting
<1>5. host.at = 2 /\ Quiet /\ Speaking({})
  BY <1>4 DEF Erasing
<1>6. node \in Nodes /\ flash \in [Cells -> Contents] /\ Len(node.buf) <= RECORD
      /\ node.answer = <<>> /\ init \in BOOLEAN /\ astray \in BOOLEAN
  BY <1>1 DEF BootInv, BootTypeInv, SayInv
<1>7. BoxInv' /\ Quiet' /\ box' \in [frame : Seq(Signs), lost : BOOLEAN]
  BY <1>1, <1>5, QuietBox DEF Quiet
<1>8. PICK area : area = Head(node.erase)
  OBVIOUS
<1>9. flash' = [c \in Cells |-> IF c \in InArea(area) THEN Erased ELSE flash[c]]
  BY <1>8 DEF EraseSectors
<1>10. flash' \in [Cells -> Contents]
  BY <1>6, <1>9 DEF Contents
<1>11. /\ node.prog = "upd" => area = "loader"
       /\ area \in {"loader", "app"}
       /\ area = "app" => node.prog = "boot" /\ Blank(LOADER)
       /\ Len(node.erase) > 1
            => area = "loader" /\ node.prog = "boot" /\ Tail(node.erase) = <<"app">>
       /\ ~(Len(node.erase) > 1) => (node.prog = "upd" /\ area = "loader")
                                    \/ (node.prog = "boot" /\ area = "app")
  <2>1. CASE node.prog = "upd" /\ node.erase = <<"loader">>
    BY <1>8, <2>1
  <2>2. CASE node.prog = "boot" /\ node.erase = <<"loader", "app">>
    <3>1. Head(<<"loader", "app">>) = "loader" /\ Tail(<<"loader", "app">>) = <<"app">>
          /\ Len(<<"loader", "app">>) = 2
      OBVIOUS
    <3> QED  BY <1>8, <2>2, <3>1
  <2>3. CASE node.prog = "boot" /\ node.erase = <<"app">> /\ Blank(LOADER)
    BY <1>8, <2>3
  <2> QED  BY <1>4, <2>1, <2>2, <2>3 DEF Erasing
<1>12. area = "loader" => Blank(LOADER)'
  BY <1>9, CellFacts, BootConstants DEF Blank
<1>13. area = "app" => Blank((1 .. RECORDS) \ BELOW)'
  <2> SUFFICES ASSUME area = "app", NEW r \in (1 .. RECORDS) \ BELOW, NEW i \in Words
               PROVE  flash'[<<r, i>>] = Erased
    BY DEF Blank
  <2>1. <<r, i>> \in Cells
    BY CellFacts
  <2>2. CASE r \in LOADER
    <3>1. flash[<<r, i>>] = Erased
      BY <1>11, <2>2 DEF Blank
    <3> QED  BY <1>9, <2>1, <3>1
  <2>3. CASE r \notin LOADER
    BY <1>9, <2>1, <2>3, CellFacts
  <2> QED  BY <2>2, <2>3
<1>14. /\ node' \in Nodes /\ node'.prog = node.prog /\ node'.buf = node.buf /\ SayInv'
       /\ Stages'
  <2>1. CASE Len(node.erase) > 1
    <3>1. node' = [node EXCEPT !.erase = <<"app">>]
      BY <1>11, <2>1 DEF EraseSectors
    <3>2. /\ node' \in Nodes
          /\ node'.prog = node.prog /\ node'.buf = node.buf /\ node'.pc = "erase"
          /\ node'.answer = <<>> /\ node'.erase = <<"app">> /\ node'.line = node.line
      BY <1>1, <1>6, <3>1 DEF Nodes
    <3>3. Speaking({})' /\ Rest' = "erase" /\ SayInv'
      BY <1>1, <1>5, <1>6, <3>2 DEF Speaking, Going, Rest, SayInv
    <3>4. Erasing'
      BY <1>1, <1>5, <1>7, <1>11, <1>12, <2>1, <3>2, <3>3 DEF Erasing
    <3> QED  BY <1>4, <3>2, <3>3, <3>4 DEF Stages, Heeding
  <2>2. CASE ~(Len(node.erase) > 1)
    <3>1. PICK m : m = [node EXCEPT !.erase = <<>>]
      OBVIOUS
    <3>2. m \in Nodes /\ m.prog = node.prog /\ m.buf = node.buf /\ m.line = node.line
      BY <1>6, <3>1 DEF Nodes
    <3>3. node' = Say(m, <<"OK">>, "cmd")
      BY <2>2, <3>1 DEF EraseSectors
    <3>4. <<"OK">> \in Seq(Spoken)
      BY DEF Spoken
    <3>5. /\ node' \in Nodes /\ Alike(node', m) /\ node'.pc = "load" /\ node'.then = "cmd"
          /\ node'.answer = <<"OK">>
      BY <3>2, <3>3, <3>4, SayEffect
    <3>6. Speaking({"OK"})' /\ Rest' = "cmd" /\ SayInv'
      BY <1>1, <1>5, <3>5, NewAnswer DEF Rest, SayInv
    <3>7. Sane(4)'
      <4>1. node.prog = "upd" => host.job = "loader"
        BY DEF BootInv, IdleInv
      <4>2. node.prog = "boot" => host.job = "app"
        BY DEF BootInv, IdleInv
      <4>3. \A r \in Scope' : r \in 1 .. RECORDS /\ r + 3 >= 4
        BY BootConstants DEF Scope
      <4>4. \A r \in Scope', i \in Words : flash'[<<r, i>>] = Erased
        BY <1>1, <1>11, <1>12, <1>13, <2>2, <4>1, <4>2 DEF Blank, Scope
      <4> QED  BY <4>3, <4>4 DEF Sane
    <3>8. AllErased'
      BY <1>1, <1>5, <1>7, <3>6, <3>7 DEF AllErased
    <3> QED  BY <1>4, <3>2, <3>5, <3>6, <3>8 DEF Stages, Heeding, Alike
  <2> QED  BY <2>1, <2>2
<1>15. FlashInv'
  <2>1. host'.at # End /\ host'.at # 1
    BY <1>1, <1>5, StepNumbers
  <2>2. host'.job = "loader" => node.prog = "upd" /\ area = "loader"
    BY <1>1, <1>2, <1>11 DEF BootInv, IdleInv, Live
  <2>3. node'.prog \in {"app", "upd"} => host.job = "loader"
    BY <1>2, <1>14 DEF BootInv, IdleInv, Live
  <2>4. area = "loader" => \A c \in InArea("app") : flash'[c] = flash[c]
    BY <1>9 DEF InArea
  <2>5. host'.job = "loader" => Kept("app")' \/ astray'
    BY <1>1, <2>2, <2>4 DEF BootInv, FlashInv, Kept
  <2>6. node'.prog \in {"app", "upd"} => Whole("app")' \/ astray'
    BY <1>1, <2>3, <2>5 DEF Whole
  <2> QED  BY <2>1, <2>5, <2>6 DEF FlashInv
<1> QED  BY <1>1, <1>2, <1>6, <1>7, <1>10, <1>14, <1>15, LiveStep

\* After the last step of the script all the records of the job are in the flash.
LEMMA AllStored ==
  ASSUME BootInv, host.at = End
  PROVE  /\ Renewed("loader")
         /\ host.job = "app" => Renewed("app")
<1>1. \A r \in 1 .. RECORDS : ~(r + 3 >= End)
  BY ScriptSteps, BootConstants
<1>2. \A r \in Scope : \A i \in Words : flash[<<r, i>>] = Value(<<r, i>>)
  BY <1>1, ScopeCells DEF BootInv, FlashInv, Sane
<1>3. /\ LOADER \subseteq Scope
      /\ host.job = "app" => \A r \in 1 .. RECORDS : r \notin BELOW => r \in Scope
  BY BootConstants DEF Scope
<1>4. \A c \in Cells : /\ c = <<c[1], c[2]>> /\ c[1] \in 1 .. RECORDS /\ c[1] \notin BELOW
                       /\ c[2] \in Words
  BY DEF Cells
<1>5. \A c \in InArea("loader") : c \in Cells /\ c[1] \in LOADER
  BY DEF InArea
<1>6. \A c \in InArea("app") : c \in Cells
  BY DEF InArea
<1> QED  BY <1>2, <1>3, <1>4, <1>5, <1>6 DEF Renewed

\* A reset finds the application whole, or something went wrong before.
LEMMA ResetStep ==
  ASSUME BootInv, Reset, UNCHANGED flash, Whole("app") \/ hurt' \/ astray', OutInv',
         host' \in Hosts, hurt' \in BOOLEAN, astray' \in BOOLEAN, BoxInv', FlashInv'
  PROVE  BootInv'
<1>1. PICK prog \in {"app", "dead"} : prog = IF Whole("app") THEN "app" ELSE "dead"
  OBVIOUS
<1>2. node' = Idle(prog) /\ box' = NoBox /\ tx' = NoTx /\ init' = FALSE
  BY <1>1 DEF Reset
<1>3. /\ node' \in Nodes /\ node'.prog = prog /\ node'.buf = <<>> /\ node'.answer = <<>>
      /\ node'.pc = "run"
  BY <1>2, IdleType DEF Programs
<1>4. tx' \in [frame : Spoken \cup {""}, req : BOOLEAN]
  BY <1>2 DEF NoTx
<1>5. box' \in [frame : Seq(Signs), lost : BOOLEAN]
  BY <1>2 DEF NoBox, NoFrame
<1>6. BootTypeInv'
  <2>1. Len(node'.buf) <= RECORD
    BY <1>3, BootConstants
  <2>2. flash' \in [Cells -> Contents] /\ init' \in BOOLEAN
    BY <1>2 DEF BootInv, BootTypeInv
  <2> QED  BY <1>3, <1>4, <1>5, <2>1, <2>2 DEF BootTypeInv
<1>7. SayInv' /\ IdleInv' /\ StageInv' /\ DeadInv'
  BY <1>1, <1>2, <1>3 DEF SayInv, IdleInv, StageInv, Live, DeadInv
<1> QED  BY <1>6, <1>7 DEF BootInv

\* A reset that leaves the host where it is, once what was on its way to the node is gone.
LEMMA ResetOnly ==
  ASSUME BootInv, Reset, UNCHANGED <<flash, host>>, Whole("app") \/ hurt' \/ astray,
         hurt' \in BOOLEAN, astray' = astray
  PROVE  BootInv'
<1>1. host' \in Hosts /\ astray' \in BOOLEAN /\ OutInv'
  BY DEF BootInv, BootTypeInv, OutInv, AtRecord
<1>2. box' = NoBox /\ NoBox.frame = NoFrame
  BY DEF Reset, NoBox
<1>3. BoxInv'
  BY <1>2, EnteringFrames DEF BootInv, BoxInv, Sending, Quiet
<1>4. node'.prog = IF Whole("app") THEN "app" ELSE "dead"
  BY IdleType DEF Reset, Programs
<1>5. node'.prog \in {"app", "upd"} => Whole("app")
  BY <1>4
<1>6. FlashInv'
  <2>1. Sane(End)' = Sane(End)
    BY DEF Sane, Scope
  <2>2. Kept("app")' = Kept("app") /\ Renewed("loader")' = Renewed("loader")
        /\ Whole("app")' = Whole("app")
    BY DEF Kept, Whole, Renewed
  <2> QED  BY <1>5, <2>1, <2>2 DEF BootInv, FlashInv
<1> QED  BY <1>1, <1>3, <1>6, ResetStep

LEMMA RebootStep == BootInv /\ RebootNode => BootInv'
<1> SUFFICES ASSUME BootInv, RebootNode  PROVE BootInv'
  OBVIOUS
<1>1. /\ node.pc = "reset" /\ Reset /\ UNCHANGED <<flash, host>> /\ hurt' = hurt
      /\ astray' = astray
  BY DEF RebootNode, Calm
<1>2. Live /\ Stages
  BY <1>1, Running
<1>3. Rest = "reset"
  BY <1>1 DEF Rest
<1>4. host.at = End
  BY <1>2, <1>3 DEF Stages, Heeding, Deaf, Entered, Commanded, Erasing, AllErased, Readied,
                    Reading, Programming, Acknowledged, Refusal, Ending, Ended, Rebooting
<1>5. Whole("app") \/ astray
  <2>1. CASE node.prog = "upd"
    BY <2>1 DEF BootInv, FlashInv
  <2>2. CASE node.prog = "boot"
    BY <1>4, <2>2, AllStored DEF BootInv, IdleInv, Whole
  <2> QED  BY <1>2, <2>1, <2>2 DEF Live
<1>6. hurt' \in BOOLEAN
  BY <1>1 DEF BootInv, BootTypeInv
<1> QED  BY <1>1, <1>5, <1>6, ResetOnly

\* An updater that runs into nothing: its application was changed before.
LEMMA DerailStep == BootInv /\ Derail => BootInv'
<1> SUFFICES ASSUME BootInv, Derail  PROVE BootInv'
  OBVIOUS
<1>1. /\ Reset /\ UNCHANGED <<flash, host>> /\ hurt' = hurt /\ astray' = astray
      /\ node.prog = "upd"
  BY DEF Derail, Calm
<1>2. Whole("app") \/ astray
  BY <1>1 DEF BootInv, FlashInv
<1>3. hurt' \in BOOLEAN
  BY <1>1 DEF BootInv, BootTypeInv
<1> QED  BY <1>1, <1>2, <1>3, ResetOnly

-----------------------------------------------------------------------------
(* Reading and programming the records.                                    *)

\* Where a record or its end is read.
LEMMA WriteStages ==
  ASSUME BootInv, node.pc = "write"
  PROVE  /\ Live /\ node.answer = <<>> /\ node \in Nodes /\ node.line = <<>>
         /\ \/ Quiet /\ node.buf = <<>>
            \/ \E r \in 1 .. RECORDS : Reading(r)
            \/ Ending
<1>1. Live /\ Stages
  BY Running
<1>2. Rest = "write"
  BY DEF Rest
<1>3. node.answer = <<>> /\ node \in Nodes
  BY DEF BootInv, SayInv, BootTypeInv
<1> QED  BY <1>1, <1>2, <1>3 DEF Stages, Heeding, Deaf, Entered, Commanded, Erasing, AllErased,
                    Readied, Programming, Acknowledged, Refusal, Ended, Rebooting

\* An unfinished record is read on.
LEMMA GatherIdle ==
  ASSUME NEW n, n.buf \in Seq(Letters), Len(n.buf) # RECORD
  PROVE  Gather(n) = {n}
<1>1. n.buf # EndFrame
  <2> SUFFICES ASSUME n.buf = << <<"END">> >>  PROVE FALSE
    BY DEF EndFrame
  <2>1. <<"END">> \in Letters
    OBVIOUS
  <2> QED  BY <2>1 DEF Letters
<1> QED  BY <1>1 DEF Gather

\* Nothing in the box: nothing is read.
LEMMA ReadNothing ==
  ASSUME BootInv, ReadRecord, box.frame = NoFrame
  PROVE  BootInv'
<1>1. /\ node.pc = "write" /\ Poll /\ UNCHANGED <<flash, tx, host>> /\ Calm
      /\ node' \in Gather([node EXCEPT !.buf = @ \o box.frame])
  BY DEF ReadRecord
<1>2. node \in Nodes /\ node.buf \in Seq(Letters) /\ Len(node.buf) # RECORD
  <2>1. node \in Nodes /\ node.buf \in Seq(Letters)
    BY NodeFields DEF BootInv, BootTypeInv
  <2>2. CASE node.buf = <<>>
    BY <2>1, <2>2, BootConstants
  <2>3. ASSUME NEW r \in 1 .. RECORDS, Reading(r)  PROVE Len(node.buf) # RECORD
    BY <2>1, <2>3, BootConstants DEF Reading
  <2> QED  BY <1>1, <2>1, <2>2, <2>3, WriteStages DEF Ending
<1>3. node.buf \o box.frame = node.buf
  BY <1>2 DEF NoFrame
<1>4. [node EXCEPT !.buf = @ \o box.frame] = node
  BY <1>2, <1>3 DEF Nodes
<1>5. node' = node
  BY <1>1, <1>2, <1>4, GatherIdle
<1> QED  BY <1>1, <1>5, PollSteady

LEMMA JoinTogether ==
  ASSUME NEW S, NEW s \in Seq(S), NEW t \in Seq(S)
  PROVE  s \o t \in Seq(S) /\ Len(s \o t) = Len(s) + Len(t)
BY ConcatProperties

\* The end of the image is read.
LEMMA EndStep ==
  ASSUME BootInv, ReadRecord, box.frame # NoFrame, Ending
  PROVE  BootInv'
<1>1. /\ node.pc = "write" /\ Poll /\ UNCHANGED <<flash, tx, host, hurt, astray>>
      /\ node' \in Gather([node EXCEPT !.buf = @ \o box.frame])
  BY DEF ReadRecord, Calm
<1>2. host.at = End - 1 /\ Sending /\ Speaking({}) /\ node.buf = <<>> /\ Sane(End)
  BY DEF Ending
<1>3. box # NoBox
  BY DEF NoBox
<1>4. host.out = <<>> /\ box = [frame |-> CommandFrame(host.job, host.at), lost |-> FALSE]
  BY <1>2, <1>3 DEF Sending
<1>5. box.frame = EndFrame /\ box.lost = FALSE
  BY <1>2, <1>4, CommandFrames
<1>6. box' = NoBox /\ init' = FALSE /\ init' \in BOOLEAN
  BY <1>1, <1>5, PollEffect
<1>7. Live /\ node \in Nodes /\ node.answer = <<>> /\ node.line = <<>>
  BY <1>1, WriteStages
<1>8. BoxInv' /\ Quiet' /\ box' \in [frame : Seq(Signs), lost : BOOLEAN]
  BY <1>1, <1>4, <1>6, QuietBox
<1>9. PICK n : n = [node EXCEPT !.buf = EndFrame]
  OBVIOUS
<1>10. n.buf = EndFrame /\ [node EXCEPT !.buf = @ \o box.frame] = n
  <2>1. node.buf \o box.frame = EndFrame
    BY <1>2, <1>5 DEF EndFrame
  <2> QED  BY <1>7, <1>9, <2>1 DEF Nodes
<1>11. PICK m : m = [n EXCEPT !.buf = <<>>]
  OBVIOUS
<1>12. m \in Nodes /\ m.prog = node.prog /\ m.buf = <<>> /\ m.line = <<>>
  <2>1. m = [node EXCEPT !.buf = <<>>]
    BY <1>7, <1>9, <1>11 DEF Nodes
  <2> QED  BY <1>7, <2>1 DEF Nodes
<1>13. node' = Say(m, <<"OK">>, "cmd")
  <2>1. Len(EndFrame) # RECORD
    BY BootConstants DEF EndFrame
  <2> QED  BY <1>1, <1>10, <1>11, <2>1 DEF Gather
<1>14. <<"OK">> \in Seq(Spoken)
  BY DEF Spoken
<1>15. /\ node' \in Nodes /\ Alike(node', m) /\ node'.pc = "load" /\ node'.then = "cmd"
       /\ node'.answer = <<"OK">>
  BY <1>12, <1>13, <1>14, SayEffect
<1>16. Speaking({"OK"})' /\ Rest' = "cmd" /\ SayInv'
  BY <1>1, <1>2, <1>15, NewAnswer DEF Rest, SayInv
<1>17. Sane(End)'
  BY <1>1, <1>2 DEF Sane, Scope
<1>18. Ended'
  BY <1>1, <1>2, <1>8, <1>16, <1>17 DEF Ended
<1>19. node'.prog = node.prog /\ Len(node'.buf) <= RECORD /\ node'.line = <<>>
  BY <1>12, <1>15, BootConstants DEF Alike
<1> QED  BY <1>1, <1>6, <1>7, <1>8, <1>15, <1>16, <1>18, <1>19, CalmStep DEF Stages, Heeding

LEMMA RefusedAnswer ==
  /\ Refused \in Seq(Spoken) /\ Refused # <<>> /\ Head(Refused) = "ERORR" /\ Digits(Tail(Refused))
<1>1. Refused \in Seq(Spoken) /\ Refused # <<>> /\ Len(Refused) = 3
  BY DEF Refused, Spoken
<1>2. Head(Refused) = "ERORR" /\ Tail(Refused) = <<"digits", "digits">>
  BY DEF Refused
<1>3. Digits(<<"digits", "digits">>)
  BY DEF Digits
<1> QED  BY <1>1, <1>2, <1>3

\* A record is refused: an error and two numbers.
LEMMA RefuseStage ==
  ASSUME BootInv, Live, NEW r \in 1 .. RECORDS, AtRecord(r), Speaking({}), Quiet', host' = host,
         tx' = tx, NEW n \in Nodes, n.prog = node.prog, n.line = <<>>, Len(n.buf) <= RECORD,
         node' = Say(n, Refused, "cmd")
  PROVE  /\ node' \in Nodes /\ node'.prog = node.prog /\ Len(node'.buf) <= RECORD /\ SayInv'
         /\ Stages'
<1>1. /\ node' \in Nodes /\ Alike(node', n) /\ node'.pc = "load" /\ node'.then = "cmd"
      /\ node'.answer = Refused
  BY RefusedAnswer, SayEffect
<1>2. Going' \subseteq {"digits"}
  BY DEF Speaking, Going
<1>3. Speaking({"ERORR"})' /\ Rest' = "cmd" /\ SayInv'
  BY <1>1, <1>2, RefusedAnswer DEF Speaking, Rest, SayInv
<1>4. Refusal(r)'
  BY <1>3 DEF Refusal, AtRecord
<1> QED  BY <1>1, <1>3, <1>4 DEF Stages, Heeding, Alike

\* A record is acknowledged, and the buffer empty for the next one.
LEMMA AcknowledgeStage ==
  ASSUME BootInv, Live, NEW r \in 1 .. RECORDS, AtRecord(r), Speaking({}), Quiet', host' = host,
         tx' = tx, NEW n \in Nodes, n.prog = node.prog, n.buf = <<>>, n.line = <<>>,
         NEW said \in {"OK_A", "OK_B"}, node' = Say(n, <<said>>, "write"), Sane(r + 4)'
  PROVE  /\ node' \in Nodes /\ node'.prog = node.prog /\ Len(node'.buf) <= RECORD /\ SayInv'
         /\ Stages'
<1>1. <<said>> \in Seq(Spoken)
  <2>1. said \in Spoken
    BY DEF Spoken
  <2> QED  BY <2>1
<1>2. /\ node' \in Nodes /\ Alike(node', n) /\ node'.pc = "load" /\ node'.then = "write"
      /\ node'.answer = <<said>>
  BY <1>1, SayEffect
<1>3. Speaking({"OK_A", "OK_B"})' /\ Rest' = "write" /\ SayInv'
  <2>1. PICK A : A = {"OK_A", "OK_B"}
    OBVIOUS
  <2>2. Speaking(A)'
    BY <1>2, <2>1, NewAnswer
  <2>3. node'.answer # <<>>
    <3>1. <<said>> # <<>>
      OBVIOUS
    <3> QED  BY <1>2, <3>1
  <2>4. Rest' = "write" /\ SayInv'
    BY <1>2, <2>3 DEF Rest, SayInv
  <2> QED  BY <2>1, <2>2, <2>4
<1>4. Acknowledged(r)' /\ node'.line = <<>>
  BY <1>2, <1>3 DEF Acknowledged, AtRecord, Alike
<1>5. Len(node'.buf) <= RECORD
  <2>1. node'.buf = <<>>
    BY <1>2 DEF Alike
  <2> QED  BY <2>1, BootConstants
<1> QED  BY <1>2, <1>3, <1>4, <1>5 DEF Stages, Heeding, Alike

\* The frame of a record that is read, and what may still come after it.
LEMMA FrameRead ==
  ASSUME BootInv, NEW r \in 1 .. RECORDS, Reading(r), Poll, box.frame # NoFrame, host' = host,
         NEW b, b = node.buf \o box.frame
  PROVE  /\ b \in Seq({r} \X (1 .. RECORD)) /\ Len(b) > 0
         /\ Len(b) + ToCome' <= RECORD
         /\ Len(b) = RECORD => host.out = <<>> /\ box' = NoBox
         /\ box'.frame \in {NoFrame, box.frame} /\ BoxInv'
         /\ box'.frame = NoFrame \/ RecordFrame(r, box'.frame)
         /\ box' \in [frame : Seq(Signs), lost : BOOLEAN]
         /\ \A i \in 3 .. Len(b) : b[i][2] # 1
         /\ Plain(box'.frame)
         /\ host.out # <<>> => Plain(Head(host.out))
<1>1. /\ node.buf \in Seq({r} \X (1 .. RECORD)) /\ Len(node.buf) + ToCome <= RECORD
      /\ RecordFrame(r, box.frame) /\ AtRecord(r)
  BY DEF Reading
<1>2. PICK f, s : f = box.frame /\ s = node.buf
  OBVIOUS
<1>3. /\ f \in Seq({r} \X (1 .. RECORD)) /\ s \in Seq({r} \X (1 .. RECORD)) /\ b = s \o f
      /\ Len(f) \in {1, 2}
  BY <1>1, <1>2 DEF RecordFrame
<1>4. b \in Seq({r} \X (1 .. RECORD)) /\ Len(b) = Len(s) + Len(f)
  BY <1>3, JoinTogether
<1>5. PICK rest : rest = IF host.out = <<>> THEN 0 ELSE 2 * Len(host.out) - 1
  OBVIOUS
<1>6. rest \in Nat /\ (host.out # <<>> => rest > 0)
  <2>1. host.out \in Seq(Seq(Signs))
    BY HostFields DEF BootInv
  <2> QED  BY <1>5, <2>1
<1>7. ToCome = Len(f) * (IF box.lost THEN 2 ELSE 1) + rest
  BY <1>2, <1>5 DEF ToCome
<1>8. ToCome' = Len(box'.frame) * (IF box'.lost THEN 2 ELSE 1) + rest
  BY <1>5 DEF ToCome
<1>9. /\ box' \in [frame : Seq(Signs), lost : BOOLEAN]
      /\ \/ box' = NoBox
         \/ box.lost /\ box'.frame = f /\ box'.lost = FALSE
  BY <1>2, PollEffect
<1>10. NoBox.frame = NoFrame /\ NoBox.lost = FALSE /\ Len(NoFrame) = 0
  BY DEF NoBox, NoFrame
<1>11. PICK m, k, t, u : m = Len(s) /\ k = Len(f) /\ t = ToCome /\ u = ToCome'
  OBVIOUS
<1>12. m \in Nat /\ k \in {1, 2} /\ Len(b) = m + k /\ m + t <= RECORD
  BY <1>1, <1>2, <1>3, <1>4, <1>11
<1>13. m + k + u <= RECORD /\ (box' # NoBox => u > 0) /\ (host.out # <<>> => u > 0) /\ u \in Nat
  <2>1. CASE box' = NoBox
    <3>1. u = rest
      <4>1. box'.frame = NoFrame /\ Len(box'.frame) = 0 /\ box'.lost = FALSE
        BY <1>10, <2>1
      <4> QED  BY <1>6, <1>8, <1>11, <4>1
    <3>2. t >= k + rest
      BY <1>6, <1>7, <1>11, <1>12
    <3> QED  BY <1>6, <1>7, <1>11, <1>12, <2>1, <3>1, <3>2, BootConstants
  <2>2. CASE box.lost /\ box'.frame = f /\ box'.lost = FALSE
    <3>1. u = k + rest /\ t = 2 * k + rest
      BY <1>6, <1>7, <1>8, <1>11, <1>12, <2>2
    <3> QED  BY <1>6, <1>12, <3>1, BootConstants
  <2> QED  BY <1>9, <2>1, <2>2
<1>14. Len(b) + ToCome' <= RECORD /\ Len(b) > 0
       /\ (Len(b) = RECORD => host.out = <<>> /\ box' = NoBox)
  BY <1>11, <1>12, <1>13, BootConstants
<1>15. box'.frame \in {NoFrame, f} /\ (box'.frame = NoFrame => box' = NoBox)
  BY <1>1, <1>2, <1>9, <1>10, RecordFrameKind
<1>16. BoxInv'
  <2>1. host.at # 1 /\ host.at # End
    BY <1>1, RecordSteps DEF AtRecord
  <2>2. host.st # "finished"
    BY <2>1 DEF BootInv, OutInv
  <2> QED  BY <1>1, <1>2, <1>15, <2>1, <2>2, RecordFrameKind, EnteringFrames DEF BoxInv
<1>17. \A i \in 3 .. Len(b) : b[i][2] # 1
  <2> SUFFICES ASSUME NEW i \in 3 .. Len(b)  PROVE b[i][2] # 1
    OBVIOUS
  <2>1. /\ \A j \in 3 .. Len(s) : s[j][2] # 1
        /\ Plain(f) \/ s = <<>>
    BY <1>2 DEF Reading
  <2>2. i \in 1 .. m + k /\ b[i] = IF i <= m THEN s[i] ELSE f[i - m]
    <3>1. i \in 1 .. m + k /\ m = Len(s) /\ k = Len(f)
      BY <1>11, <1>12
    <3> QED  BY <1>3, <3>1, ConcatProperties
  <2>3. CASE i <= m
    BY <1>11, <1>12, <2>1, <2>2, <2>3
  <2>4. CASE ~(i <= m)
    <3>1. i - m \in 1 .. Len(f) /\ b[i] = f[i - m]
      BY <1>11, <1>12, <2>2, <2>4
    <3>2. m # 0
      <4>1. m = 0 => i - m >= 3
        BY <1>12
      <4>2. i - m \in 1 .. k
        BY <1>11, <3>1
      <4> QED  BY <1>12, <4>1, <4>2
    <3>3. Plain(f)
      BY <1>11, <2>1, <3>2
    <3> QED  BY <3>1, <3>3 DEF Plain
  <2> QED  BY <2>3, <2>4
<1>18. Plain(NoFrame) /\ (~Plain(f) => ~box.lost)
  BY <1>2 DEF Reading, Plain, NoFrame
<1>19. Plain(box'.frame)
  BY <1>9, <1>10, <1>18
<1>20. host.out # <<>> => Plain(Head(host.out))
  BY DEF Reading
<1> QED  BY <1>1, <1>2, <1>4, <1>9, <1>14, <1>15, <1>16, <1>17, <1>19, <1>20

\* The record that is complete begins in order: the beginning of no other follows it.
LEMMA RecordBegins ==
  ASSUME NEW r \in 1 .. RECORDS, NEW n, n.buf \in Seq({r} \X (1 .. RECORD)),
         Len(n.buf) = RECORD, \A i \in 3 .. Len(n.buf) : n.buf[i][2] # 1,
         NEW m \in BeginRecord(n)
  PROVE  \/ m = Say(n, Refused, "cmd")
         \/ /\ n.prog = "upd" /\ r \in BELOW
            /\ m = Say([n EXCEPT !.buf = <<>>], <<"OK_B">>, "write")
         \/ \E to \in Nat \X Nat : /\ m = [n EXCEPT !.pc = "program", !.word = 4, !.to = to]
                                   /\ n.buf = Tokens(r) => to = <<r, 0>>
<1>1. 1 \in 1 .. Len(n.buf) /\ 3 \in 1 .. Len(n.buf) /\ 3 \in 3 .. Len(n.buf)
  BY BootConstants
<1>2. n.buf[1] \in {r} \X (1 .. RECORD) /\ n.buf[3] \in {r} \X (1 .. RECORD) /\ n.buf[3][2] # 1
  BY <1>1
<1>3. n.buf[1][1] = r /\ Len(n.buf[3]) = 2
  BY <1>2
<1>4. ~Short(n.buf)
  BY <1>2, <1>3 DEF Short
<1>5. ASSUME NEW to \in Starts(n.buf)
      PROVE  to \in Nat \X Nat /\ (n.buf = Tokens(r) => to = <<r, 0>>)
  <2>1. CASE n.buf[3] = <<r, 3>>
    <3>1. to = <<r, 0>>
      BY <1>3, <2>1 DEF Starts
    <3> QED  BY <3>1
  <2>2. CASE n.buf[3] # <<r, 3>>
    <3>1. to \in (0 .. RECORDS) \X (0 .. RECORD - 4)
      BY <1>3, <1>4, <2>2 DEF Starts
    <3>2. to \in Nat \X Nat
      BY <3>1, BootConstants
    <3>3. n.buf # Tokens(r)
      <4>1. Tokens(r)[3] = <<r, 3>>
        BY BootConstants DEF Tokens
      <4> QED  BY <2>2, <4>1
    <3> QED  BY <3>2, <3>3
  <2> QED  BY <2>1, <2>2
<1>6. CASE ~(Len(n.buf[1]) = 2 /\ n.buf[1][2] = 1)
  BY <1>6 DEF BeginRecord
<1>7. CASE Len(n.buf[1]) = 2 /\ n.buf[1][2] = 1 /\ n.prog = "upd" /\ r \in BELOW
  BY <1>3, <1>7 DEF BeginRecord
<1>8. CASE Len(n.buf[1]) = 2 /\ n.buf[1][2] = 1 /\ ~(n.prog = "upd" /\ r \in BELOW)
  <2>1. PICK to \in Starts(n.buf) : m = [n EXCEPT !.pc = "program", !.word = 4, !.to = to]
    BY <1>3, <1>4, <1>8 DEF BeginRecord
  <2> QED  BY <1>5, <2>1
<1> QED  BY <1>6, <1>7, <1>8

\* The next stage when a record is complete.
LEMMA RecordComplete ==
  ASSUME BootInv, Live, NEW r \in 1 .. RECORDS, AtRecord(r), Speaking({}), Sane(r + 3), Quiet',
         UNCHANGED <<host, tx, flash>>, NEW n \in Nodes, n.prog = node.prog, n.line = <<>>,
         n.answer = <<>>, node.answer = <<>>,
         n.buf \in Seq({r} \X (1 .. RECORD)), Len(n.buf) = RECORD,
         \A i \in 3 .. Len(n.buf) : n.buf[i][2] # 1, node' \in BeginRecord(n)
  PROVE  /\ node' \in Nodes /\ node'.prog = node.prog /\ Len(node'.buf) <= RECORD /\ SayInv'
         /\ Stages'
<1>1. Len(n.buf) <= RECORD /\ \A at : Sane(at)' = Sane(at)
  BY BootConstants DEF Sane, Scope
<1>2. CASE node' = Say(n, Refused, "cmd")
  BY <1>1, <1>2, RefuseStage
<1>3. CASE /\ n.prog = "upd" /\ r \in BELOW
           /\ node' = Say([n EXCEPT !.buf = <<>>], <<"OK_B">>, "write")
  <2>1. PICK m : m = [n EXCEPT !.buf = <<>>]
    OBVIOUS
  <2>2. m \in Nodes /\ m.prog = node.prog /\ m.buf = <<>> /\ m.line = <<>>
    <3>1. <<>> \in Seq(Letters)
      OBVIOUS
    <3> QED  BY <2>1, <3>1 DEF Nodes
  <2>3. node' = Say(m, <<"OK_B">>, "write")
    BY <1>3, <2>1
  <2>4. Sane(r + 4)'
    <3>1. \A q \in Scope : q \in Nat /\ q # r
      BY <1>3, BootConstants DEF BootInv, IdleInv, Scope
    <3>2. \A q \in Scope : q + 3 >= r + 3 => q + 3 >= r + 4
      BY <3>1
    <3> QED  BY <1>1, <3>2 DEF Sane
  <2>5. "OK_B" \in {"OK_A", "OK_B"}
    OBVIOUS
  <2> QED  BY <2>2, <2>3, <2>4, <2>5, AcknowledgeStage
<1>4. ASSUME NEW to \in Nat \X Nat, node' = [n EXCEPT !.pc = "program", !.word = 4, !.to = to],
             n.buf = Tokens(r) => to = <<r, 0>>
      PROVE  /\ node' \in Nodes /\ node'.prog = node.prog /\ Len(node'.buf) <= RECORD /\ SayInv'
             /\ Stages'
  <2>1. /\ node' \in Nodes /\ node'.prog = node.prog /\ node'.buf = n.buf /\ node'.pc = "program"
        /\ node'.word = 4 /\ node'.to = to /\ node'.answer = <<>> /\ node'.line = <<>>
    BY <1>4 DEF Nodes, Places
  <2>2. Speaking({})' /\ Rest' = "program" /\ SayInv'
    BY <2>1 DEF Speaking, Going, Rest, SayInv, Digits
  <2>3. \A i \in Words : ~(i < 4)
    BY BootConstants DEF Words
  <2>4. node'.word \in 4 .. RECORD + 1
    BY <2>1, BootConstants
  <2>5. Programming(r)'
    BY <1>1, <1>4, <2>1, <2>2, <2>3, <2>4 DEF Programming, AtRecord
  <2> QED  BY <1>1, <2>1, <2>2, <2>5 DEF Stages, Heeding
<1> QED  BY <1>2, <1>3, <1>4, RecordBegins

\* A frame of a record is read.
LEMMA RecordStep ==
  ASSUME BootInv, ReadRecord, box.frame # NoFrame, NEW r \in 1 .. RECORDS, Reading(r)
  PROVE  BootInv'
<1>1. /\ node.pc = "write" /\ Poll /\ UNCHANGED <<flash, tx, host, hurt, astray>>
      /\ node' \in Gather([node EXCEPT !.buf = @ \o box.frame])
  BY DEF ReadRecord, Calm
<1>2. Live /\ node \in Nodes /\ node.answer = <<>> /\ node.line = <<>>
  BY <1>1, WriteStages
<1>3. AtRecord(r) /\ Speaking({}) /\ Sane(r + 3)
  BY DEF Reading
<1>4. PICK b : b = node.buf \o box.frame
  OBVIOUS
<1>5. /\ b \in Seq({r} \X (1 .. RECORD)) /\ Len(b) > 0
      /\ Len(b) + ToCome' <= RECORD
      /\ Len(b) = RECORD => host.out = <<>> /\ box' = NoBox
      /\ box'.frame \in {NoFrame, box.frame} /\ BoxInv'
      /\ box'.frame = NoFrame \/ RecordFrame(r, box'.frame)
      /\ box' \in [frame : Seq(Signs), lost : BOOLEAN]
      /\ \A i \in 3 .. Len(b) : b[i][2] # 1
      /\ Plain(box'.frame)
      /\ host.out # <<>> => Plain(Head(host.out))
  BY <1>1, <1>4, FrameRead
<1>6. init' = FALSE /\ init' \in BOOLEAN
  BY <1>1, PollEffect
<1>7. b \in Seq(Letters) /\ Len(b) \in Nat
  BY <1>5 DEF Letters
<1>8. PICK n : n = [node EXCEPT !.buf = b]
  OBVIOUS
<1>9. /\ n \in Nodes /\ n.prog = node.prog /\ n.buf = b /\ n.pc = "write" /\ n.answer = <<>>
      /\ n.line = <<>>
  BY <1>1, <1>2, <1>7, <1>8 DEF Nodes
<1>10. node' \in Gather(n)
  BY <1>1, <1>4, <1>8
<1>11. Len(b) <= RECORD
  <2>1. Len(box'.frame) \in Nat /\ (host.out = <<>> \/ Len(host.out) \in Nat \ {0})
    <3>1. host.out \in Seq(Seq(Signs))
      BY HostFields DEF BootInv
    <3> QED  BY <1>5, <3>1
  <2>2. ToCome' \in Nat
    <3>1. PICK k, rest : k = Len(box'.frame)
                         /\ rest = IF host.out = <<>> THEN 0 ELSE 2 * Len(host.out) - 1
      OBVIOUS
    <3>2. k \in Nat /\ rest \in Nat
      BY <2>1, <3>1
    <3>3. ToCome' = k * (IF box'.lost THEN 2 ELSE 1) + rest
      BY <1>1, <3>1 DEF ToCome
    <3> QED  BY <3>2, <3>3
  <2> QED  BY <1>5, <1>7, <2>2, BootConstants
<1>12. CASE Len(b) # RECORD
  <2>1. node' = n
    BY <1>7, <1>9, <1>10, <1>12, GatherIdle
  <2>2. Speaking({})' /\ Rest' = "write" /\ SayInv'
    BY <1>1, <1>3, <1>9, <2>1 DEF Speaking, Going, Rest, SayInv, Digits
  <2>3. Sane(r + 3)' /\ AtRecord(r)'
    BY <1>1, <1>3 DEF Sane, Scope, AtRecord
  <2>4. box'.frame # NoFrame /\ host'.out # <<>> => Len(box'.frame) = 2
    BY <1>1, <1>5 DEF Reading
  <2>5. Len(b) < RECORD
    BY <1>7, <1>11, <1>12, BootConstants
  <2>6. Reading(r)'
    BY <1>1, <1>5, <1>9, <2>1, <2>2, <2>3, <2>4, <2>5 DEF Reading
  <2> QED  BY <1>1, <1>2, <1>5, <1>6, <1>9, <1>11, <2>1, <2>2, <2>6, CalmStep DEF Stages, Heeding
<1>13. CASE Len(b) = RECORD
  <2>1. Quiet'
    BY <1>1, <1>5, <1>13 DEF Quiet
  <2>2. node' \in BeginRecord(n)
    BY <1>9, <1>10, <1>13 DEF Gather
  <2>3. /\ node' \in Nodes /\ node'.prog = node.prog /\ Len(node'.buf) <= RECORD /\ SayInv'
        /\ Stages'
    BY <1>1, <1>2, <1>3, <1>5, <1>9, <1>13, <2>1, <2>2, RecordComplete
  <2> QED  BY <1>1, <1>2, <1>5, <1>6, <2>3, CalmStep
<1> QED  BY <1>12, <1>13

LEMMA ReadRecordStep == BootInv /\ ReadRecord => BootInv'
<1> SUFFICES ASSUME BootInv, ReadRecord  PROVE BootInv'
  OBVIOUS
<1>1. CASE box.frame = NoFrame
  BY <1>1, ReadNothing
<1>2. CASE box.frame # NoFrame
  <2>1. ~Quiet
    BY <1>2 DEF Quiet, NoBox
  <2>2. Ending \/ \E r \in 1 .. RECORDS : Reading(r)
    BY <2>1, WriteStages DEF ReadRecord
  <2> QED  BY <1>2, <2>2, EndStep, RecordStep
<1> QED  BY <1>1, <1>2

LEMMA ProgramFacts ==
  ASSUME BootInv, node.pc = "program"
  PROVE  /\ Live /\ node \in Nodes /\ node.answer = <<>> /\ node.line = <<>>
         /\ \E r \in 1 .. RECORDS : Programming(r) /\ node.buf[1][1] = r
<1>1. Live /\ Stages
  BY Running
<1>2. Rest = "program"
  BY DEF Rest
<1>3. Heeding
  BY <1>1, <1>2 DEF Stages, Deaf
<1>4. PICK r \in 1 .. RECORDS : Programming(r)
  BY <1>2, <1>3 DEF Heeding, Entered, Commanded, Erasing, AllErased, Readied, Reading,
                    Acknowledged, Refusal, Ending, Ended, Rebooting
<1>5. node.buf[1] \in {r} \X (1 .. RECORD)
  BY <1>4, BootConstants DEF Programming
<1>6. node.buf[1][1] = r
  BY <1>5
<1>7. node.answer = <<>> /\ node \in Nodes
  BY DEF BootInv, SayInv, BootTypeInv
<1>8. node.line = <<>>
  BY <1>3 DEF Heeding
<1> QED  BY <1>1, <1>4, <1>6, <1>7, <1>8

\* What programming leaves in the flash, wherever it hits.
LEMMA ProgrammedFlash ==
  ASSUME BootInv, ProgramWord
  PROVE  /\ flash' \in [Cells -> Contents]
         /\ \A c \in Cells : c # Hit(node) => flash'[c] = flash[c]
         /\ astray' \in BOOLEAN /\ (astray => astray')
         /\ node.prog = "upd" => astray' \/ \A c \in InArea("app") : flash'[c] = flash[c]
<1>1. PICK new \in Data(node.buf, node.word) :
        flash' = [c \in Cells |-> IF c = Hit(node) /\ SameArea(c[1], node.buf[1][1])
                                 THEN Programmed(flash[c], new) ELSE flash[c]]
  BY DEF ProgramWord
<1>2. flash \in [Cells -> Contents] /\ astray \in BOOLEAN
  BY DEF BootInv, BootTypeInv
<1>3. new \in Contents
  <2>1. Erased \in Contents /\ Junk \in Contents
    BY DEF Contents
  <2>2. Cells \subseteq Letters
    BY BootConstants DEF Cells, Letters, Words
  <2>3. \A cell \in Cells : Value(cell) \in Contents
    BY <2>1, <2>2 DEF Value, Contents
  <2> QED  BY <2>1, <2>3 DEF Data
<1>4. \A old \in Contents : Programmed(old, new) \in Contents
  BY <1>3 DEF Programmed, Contents
<1>5. flash' \in [Cells -> Contents]
  BY <1>1, <1>2, <1>4
<1>6. \A c \in Cells : c # Hit(node) => flash'[c] = flash[c]
  BY <1>1
<1>7. astray' = (astray \/ (node.prog = "upd" /\ \E c \in InArea("app") : flash'[c] # flash[c]))
  BY DEF ProgramWord
<1> QED  BY <1>2, <1>5, <1>6, <1>7

\* The words of a record that came whole go where they belong.
LEMMA WordInPlace ==
  ASSUME BootInv, ProgramWord, NEW r \in 1 .. RECORDS, Programming(r), node.buf = Tokens(r),
         NEW w \in Words, w = node.word
  PROVE  /\ Hit(node) = <<r, w>>
         /\ r \in Scope => flash'[<<r, w>>] = Value(<<r, w>>)
<1>1. node.to = <<r, 0>> /\ Sane(r + 3) /\ AtRecord(r)
  BY DEF Programming
<1>2. w \in 4 .. RECORD /\ w + 0 = w /\ w <= RECORD /\ w \in 1 .. RECORD /\ w - 1 \in 1 .. RECORD
      /\ 1 \in 1 .. RECORD
  BY BootConstants DEF Words
<1>3. Hit(node) = <<r, w>>
  <2>1. node.to[1] = r /\ node.to[2] = 0
    BY <1>1
  <2>2. node.word + node.to[2] = w
    BY <1>2, <2>1
  <2> QED  BY <1>2, <2>1, <2>2 DEF Hit
<1>4. ASSUME r \in Scope  PROVE flash'[<<r, w>>] = Value(<<r, w>>)
  <2>1. <<r, w>> \in Cells
    BY <1>4, ScopeCells
  <2>2. node.buf[w] = <<r, w>> /\ node.buf[w - 1] = <<r, w - 1>> /\ node.buf[1] = <<r, 1>>
    BY <1>2 DEF Tokens
  <2>3. PICK v : v = Value(<<r, w>>)
    OBVIOUS
  <2>4. Data(node.buf, w) = {v}
    <3>1. \E cell \in Cells : node.buf[w] = cell /\ node.buf[w - 1] = <<cell[1], cell[2] - 1>>
      <4>1. PICK cell \in Cells : cell = <<r, w>>
        BY <2>1
      <4>2. cell[1] = r /\ cell[2] = w
        BY <4>1
      <4> QED  BY <2>2, <4>1, <4>2
    <3> QED  BY <2>2, <2>3, <3>1 DEF Data
  <2>5. flash' = [c \in Cells |-> IF c = <<r, w>> /\ SameArea(c[1], node.buf[1][1])
                                 THEN Programmed(flash[c], v) ELSE flash[c]]
    BY <1>3, <2>4 DEF ProgramWord
  <2>6. SameArea(r, node.buf[1][1])
    BY <2>2 DEF SameArea
  <2>7. PICK c \in Cells : c = <<r, w>>
    BY <2>1
  <2>8. c[1] = r
    BY <2>7
  <2>9. flash'[c] = Programmed(flash[c], v)
    BY <2>5, <2>6, <2>7, <2>8
  <2>10. flash[c] \in {v, Erased}
    BY <1>1, <1>4, <2>3, <2>7 DEF Sane
  <2>11. Programmed(flash[c], v) = v
    BY <2>10 DEF Programmed
  <2> QED  BY <2>3, <2>7, <2>9, <2>11
<1> QED  BY <1>3, <1>4

\* A record that came whole is programmed, what any other does is not looked at again.
LEMMA ProgramStep == BootInv /\ ProgramWord => BootInv'
<1> SUFFICES ASSUME BootInv, ProgramWord  PROVE BootInv'
  OBVIOUS
<1>1. /\ node.pc = "program" /\ node.word <= RECORD /\ UNCHANGED <<box, tx, init, host>>
      /\ hurt' = hurt /\ node' = [node EXCEPT !.word = node.word + 1]
  BY DEF ProgramWord
<1>2. Live /\ node \in Nodes /\ node.answer = <<>> /\ node.line = <<>>
  BY <1>1, ProgramFacts
<1>3. PICK r \in 1 .. RECORDS : Programming(r) /\ node.buf[1][1] = r
  BY <1>1, ProgramFacts
<1>4. /\ AtRecord(r) /\ Quiet /\ Speaking({})
      /\ node.buf \in Seq({r} \X (1 .. RECORD)) /\ Len(node.buf) = RECORD
      /\ node.word \in 4 .. RECORD + 1
  BY <1>3 DEF Programming
<1>5. PICK w : w = node.word
  OBVIOUS
<1>6. w \in Words /\ w + 1 \in 4 .. RECORD + 1 /\ w + 1 \in Nat
  BY <1>1, <1>4, <1>5, BootConstants DEF Words
<1>7. /\ flash' \in [Cells -> Contents]
      /\ \A c \in Cells : c # Hit(node) => flash'[c] = flash[c]
      /\ astray' \in BOOLEAN /\ (astray => astray')
      /\ node.prog = "upd" => astray' \/ \A c \in InArea("app") : flash'[c] = flash[c]
  BY ProgrammedFlash
<1>8. /\ node' \in Nodes /\ node'.prog = node.prog /\ node'.buf = node.buf /\ node'.word = w + 1
      /\ node'.pc = "program" /\ node'.answer = <<>> /\ node'.to = node.to /\ node'.line = <<>>
  <2>1. PICK m : m = w + 1
    OBVIOUS
  <2>2. node' = [node EXCEPT !.word = m] /\ m \in Nat
    BY <1>1, <1>5, <1>6, <2>1
  <2> QED  BY <1>1, <1>2, <2>1, <2>2 DEF Nodes
<1>9. Speaking({})' /\ Rest' = "program" /\ SayInv'
  BY <1>1, <1>4, <1>8 DEF Speaking, Going, Rest, SayInv, Digits
<1>10. AtRecord(r)' /\ Quiet' /\ Scope' = Scope
  BY <1>1, <1>4 DEF AtRecord, Quiet, Scope
<1>11. ASSUME node.buf = Tokens(r)
       PROVE  /\ node.to = <<r, 0>> /\ Sane(r + 3)'
              /\ r \in Scope => \A i \in Words : i < w + 1 => flash'[<<r, i>>] = Value(<<r, i>>)
  <2>1. /\ node.to = <<r, 0>> /\ Sane(r + 3)
        /\ r \in Scope => \A i \in Words : i < w => flash[<<r, i>>] = Value(<<r, i>>)
    BY <1>3, <1>5, <1>11 DEF Programming
  <2>2. Hit(node) = <<r, w>> /\ (r \in Scope => flash'[<<r, w>>] = Value(<<r, w>>))
    BY <1>3, <1>5, <1>6, <1>11, WordInPlace
  <2>3. ASSUME NEW q \in Scope, NEW i \in Words, q # r \/ i # w
        PROVE  flash'[<<q, i>>] = flash[<<q, i>>]
    <3>1. <<q, i>> \in Cells /\ <<q, i>> # <<r, w>>
      BY <2>3, ScopeCells
    <3> QED  BY <1>7, <2>2, <3>1
  <2>4. ASSUME NEW q \in Scope, NEW i \in Words
        PROVE  \/ flash'[<<q, i>>] = Value(<<q, i>>)
               \/ q + 3 >= r + 3 /\ flash'[<<q, i>>] = Erased
    <3>1. CASE q # r \/ i # w
      BY <2>1, <2>3, <3>1 DEF Sane
    <3>2. CASE q = r /\ i = w
      BY <2>2, <3>2
    <3> QED  BY <3>1, <3>2
  <2>5. Sane(r + 3)'
    BY <1>10, <2>4 DEF Sane
  <2>6. ASSUME r \in Scope, NEW i \in Words, i < w + 1  PROVE flash'[<<r, i>>] = Value(<<r, i>>)
    <3>1. CASE i = w
      BY <2>2, <2>6, <3>1
    <3>2. CASE i # w
      <4>1. i < w
        BY <1>6, <2>6, <3>2, BootConstants DEF Words
      <4> QED  BY <2>1, <2>3, <2>6, <3>2, <4>1
    <3> QED  BY <3>1, <3>2
  <2> QED  BY <2>1, <2>5, <2>6
<1>12. Programming(r)'
  BY <1>4, <1>6, <1>8, <1>9, <1>10, <1>11 DEF Programming
<1>13. FlashInv'
  <2>1. host'.at # End /\ host'.at # 1
    BY <1>1, <1>4, RecordSteps DEF AtRecord
  <2>2. host.job = "loader" => node.prog = "upd"
    BY <1>2 DEF BootInv, IdleInv, Live
  <2>3. node.prog = "upd" => astray' \/ (Kept("app") <=> Kept("app")')
    BY <1>7 DEF Kept
  <2>4. host.job = "loader" => Kept("app")' \/ astray'
    BY <1>7, <2>2, <2>3 DEF BootInv, FlashInv
  <2>5. node.prog \in {"app", "upd"} => host.job = "loader"
    BY <1>2 DEF BootInv, IdleInv, Live
  <2>6. node'.prog \in {"app", "upd"} => Whole("app")' \/ astray'
    BY <1>8, <2>4, <2>5 DEF Whole
  <2> QED  BY <1>1, <2>1, <2>4, <2>6 DEF FlashInv
<1>14. BoxInv' /\ box' \in [frame : Seq(Signs), lost : BOOLEAN]
  BY <1>1, <1>4, QuietBox DEF Quiet
<1>15. init' \in BOOLEAN /\ Len(node'.buf) <= RECORD
  BY <1>1, <1>8 DEF BootInv, BootTypeInv
<1>16. Stages'
  BY <1>8, <1>12 DEF Stages, Heeding
<1> QED  BY <1>1, <1>2, <1>7, <1>8, <1>9, <1>13, <1>14, <1>15, <1>16, LiveStep

\* The words of a record are programmed before its sum is looked at.
LEMMA CheckStep == BootInv /\ CheckSum => BootInv'
<1> SUFFICES ASSUME BootInv, CheckSum  PROVE BootInv'
  OBVIOUS
<1>1. /\ node.pc = "program" /\ node.word = RECORD + 1
      /\ UNCHANGED <<flash, box, tx, init, host, hurt, astray>>
  BY DEF CheckSum, Calm
<1>2. Live /\ node \in Nodes /\ node.answer = <<>> /\ node.line = <<>>
  BY <1>1, ProgramFacts
<1>3. PICK r \in 1 .. RECORDS : Programming(r) /\ node.buf[1][1] = r
  BY <1>1, ProgramFacts
<1>4. AtRecord(r) /\ Quiet /\ Speaking({}) /\ Len(node.buf) = RECORD
  BY <1>3 DEF Programming
<1>5. Quiet' /\ BoxInv' /\ box' \in [frame : Seq(Signs), lost : BOOLEAN]
  BY <1>1, <1>4, QuietBox DEF Quiet
<1>6. PICK done : done = [node EXCEPT !.word = 4, !.to = Home]
  OBVIOUS
<1>7. /\ done \in Nodes /\ done.prog = node.prog /\ done.line = <<>> /\ done.buf = node.buf
  BY <1>2, <1>6 DEF Nodes, Home
<1>8. node' = IF SumRight(node.buf) THEN Say([done EXCEPT !.buf = <<>>], <<"OK_A">>, "write")
              ELSE Say(done, Refused, "cmd")
  BY <1>6 DEF CheckSum
<1>9. node' \in Nodes /\ node'.prog = node.prog /\ Len(node'.buf) <= RECORD /\ SayInv' /\ Stages'
  <2>1. CASE SumRight(node.buf)
    <3>1. PICK m : m = [done EXCEPT !.buf = <<>>]
      OBVIOUS
    <3>2. m \in Nodes /\ m.prog = node.prog /\ m.buf = <<>> /\ m.line = <<>>
      <4>1. <<>> \in Seq(Letters)
        OBVIOUS
      <4> QED  BY <1>7, <3>1, <4>1 DEF Nodes
    <3>3. node' = Say(m, <<"OK_A">>, "write")
      BY <1>8, <2>1, <3>1
    <3>4. node.buf = Tokens(r)
      BY <1>3, <2>1 DEF SumRight
    <3>5. /\ Sane(r + 3)
          /\ r \in Scope => \A i \in Words : i < RECORD + 1 => flash[<<r, i>>] = Value(<<r, i>>)
      BY <1>1, <1>3, <3>4 DEF Programming
    <3>6. \A i \in Words : i < RECORD + 1
      BY BootConstants DEF Words
    <3>7. ASSUME NEW q \in Scope, NEW i \in Words
          PROVE  \/ flash[<<q, i>>] = Value(<<q, i>>)
                 \/ q + 3 >= r + 4 /\ flash[<<q, i>>] = Erased
      <4>1. CASE q = r
        BY <3>5, <3>6, <4>1
      <4>2. CASE q # r
        <5>1. q \in Nat
          BY ScopeCells, BootConstants
        <5>2. q + 3 >= r + 3 => q + 3 >= r + 4
          BY <4>2, <5>1
        <5> QED  BY <3>5, <5>2 DEF Sane
      <4> QED  BY <4>1, <4>2
    <3>8. Sane(r + 4)'
      BY <1>1, <3>7 DEF Sane, Scope
    <3>9. "OK_A" \in {"OK_A", "OK_B"}
      OBVIOUS
    <3> QED  BY <1>1, <1>2, <1>4, <1>5, <3>2, <3>3, <3>8, <3>9, AcknowledgeStage
  <2>2. CASE ~SumRight(node.buf)
    <3>1. node' = Say(done, Refused, "cmd") /\ Len(done.buf) <= RECORD
      BY <1>7, <1>8, <2>2 DEF BootInv, BootTypeInv
    <3> QED  BY <1>1, <1>2, <1>4, <1>5, <1>7, <3>1, RefuseStage
  <2> QED  BY <2>1, <2>2
<1>10. init' \in BOOLEAN
  BY <1>1 DEF BootInv, BootTypeInv
<1> QED  BY <1>1, <1>2, <1>5, <1>9, <1>10, CalmStep

-----------------------------------------------------------------------------
(* Entering the programs.                                                  *)

\* An updater is entered: it says so to the host, which is at its first step.
LEMMA EnterStage ==
  ASSUME BootInv, ~Live, NEW prog \in {"upd", "boot"}, host.at = 1, host.out = <<>>,
         prog = IF host.job = "loader" THEN "upd" ELSE "boot", node' = Enter(prog),
         box' = NoBox, UNCHANGED <<flash, tx, init, host, hurt, astray>>
  PROVE  BootInv'
<1>1. /\ Idle(prog) \in Nodes /\ Idle(prog).prog = prog
      /\ Idle(prog).buf = <<>> /\ Idle(prog).line = <<>>
  BY IdleType DEF Programs
<1>2. <<"OK">> \in Seq(Spoken)
  BY DEF Spoken
<1>3. /\ node' \in Nodes /\ node'.prog = prog /\ node'.buf = <<>> /\ node'.pc = "load"
      /\ node'.then = "cmd" /\ node'.answer = <<"OK">> /\ node'.line = <<>>
  <2>1. PICK n : n = Idle(prog)
    OBVIOUS
  <2>2. node' = Say(n, <<"OK">>, "cmd")
    BY <2>1 DEF Enter
  <2>3. n \in Nodes /\ n.prog = prog /\ n.buf = <<>> /\ n.line = <<>>
    BY <1>1, <2>1
  <2>4. PICK m : m = Say(n, <<"OK">>, "cmd")
    OBVIOUS
  <2>5. m \in Nodes /\ Alike(m, n) /\ m.pc = "load" /\ m.then = "cmd" /\ m.answer = <<"OK">>
    BY <1>2, <2>3, <2>4, SayEffect
  <2>6. node' = m
    BY <2>2, <2>4
  <2> QED  BY <2>3, <2>5, <2>6 DEF Alike
<1>4. tx = NoTx /\ ~init
  BY DEF BootInv, IdleInv
<1>5. Speaking({"OK"})' /\ Rest' = "cmd" /\ SayInv'
  <2>1. Going' = {}
    BY <1>4 DEF Going, NoTx
  <2>2. Head(<<"OK">>) = "OK" /\ Tail(<<"OK">>) = <<>> /\ <<"OK">> # <<>> /\ Digits(<<>>)
    BY DEF Digits
  <2> QED  BY <1>3, <2>1, <2>2 DEF Speaking, Rest, SayInv
<1>6. BoxInv' /\ Quiet' /\ box' \in [frame : Seq(Signs), lost : BOOLEAN]
  BY QuietBox
<1>7. BootTypeInv'
  <2>1. Len(node'.buf) <= RECORD
    BY <1>3, BootConstants
  <2> QED  BY <1>3, <1>6, <2>1 DEF BootInv, BootTypeInv
<1>8. OutInv'
  BY DEF BootInv, OutInv, AtRecord
<1>9. IdleInv' /\ DeadInv'
  <2>1. host.job \in {"loader", "app"}
    BY HostFields DEF BootInv
  <2>2. node'.prog = "upd" => host'.job = "loader"
    BY <1>3
  <2>3. node'.prog = "boot" => host'.job = "app"
    BY <1>3, <2>1
  <2> QED  BY <1>3, <2>2, <2>3 DEF IdleInv, Live, DeadInv
<1>10. Entered'
  BY <1>5, <1>6 DEF Entered
<1>11. StageInv'
  BY <1>3, <1>10 DEF StageInv, Stages, Heeding
<1>12. FlashInv'
  <2>1. host.job \in {"loader", "app"}
    BY HostFields DEF BootInv
  <2>2. host'.at # End
    BY StepNumbers
  <2>3. (Kept("app")' \/ astray') /\ (host.job = "app" => Renewed("loader")')
    BY DEF BootInv, FlashInv, Kept, Renewed
  <2> QED  BY <1>3, <2>1, <2>2, <2>3 DEF FlashInv, Whole
<1> QED  BY <1>5, <1>6, <1>7, <1>8, <1>9, <1>11, <1>12 DEF BootInv

LEMMA MainStep == BootInv /\ Main => BootInv'
<1> SUFFICES ASSUME BootInv, Main  PROVE BootInv'
  OBVIOUS
<1>1. /\ box.frame # NoFrame /\ box' = NoBox /\ UNCHANGED <<flash, tx, init, host, hurt, astray>>
      /\ node.prog = "app"
  BY DEF Main, EnterUpdater, EnterLoader, Ignore, Calm
<1>2. ~Live
  BY <1>1 DEF Live
<1>3. box # NoBox
  BY <1>1 DEF NoBox
<1>4. host.at = 1 => /\ host.out = <<>> /\ box.frame = CommandFrame(host.job, 1)
                     /\ box.frame = IF host.job = "loader" THEN BootUpd ELSE BootLoad
  <2> SUFFICES ASSUME host.at = 1
               PROVE  host.out = <<>> /\ box.frame = CommandFrame(host.job, 1)
    BY HostFields, EnterFrameKind DEF BootInv
  <2>1. Sending
    BY DEF BootInv, BoxInv
  <2>2. host.out = <<>> /\ box = [frame |-> CommandFrame(host.job, 1), lost |-> FALSE]
    BY <1>3, <2>1 DEF Sending
  <2> QED  BY <2>2
<1>5. host.at # 1 => box.frame \notin {BootUpd, BootLoad}
  BY DEF BootInv, BoxInv
<1>6. CASE EnterUpdater
  <2>1. box.frame = BootUpd /\ node' = Enter("upd")
    BY <1>6 DEF EnterUpdater
  <2>2. host.at = 1 /\ host.out = <<>> /\ host.job = "loader"
    BY <1>4, <1>5, <2>1, EnteringFrames
  <2> QED  BY <1>1, <1>2, <2>1, <2>2, EnterStage
<1>7. CASE EnterLoader
  <2>1. box.frame = BootLoad /\ node' = IF Whole("loader") THEN Enter("boot") ELSE Idle("dead")
    BY <1>7 DEF EnterLoader
  <2>2. host.at = 1 /\ host.out = <<>> /\ host.job # "loader" /\ host.job \in {"loader", "app"}
    BY <1>4, <1>5, <2>1, EnteringFrames, HostFields DEF BootInv
  <2>3. Whole("loader")
    BY <2>2 DEF BootInv, FlashInv, Whole
  <2> QED  BY <1>1, <1>2, <2>1, <2>2, <2>3, EnterStage
<1>8. CASE Ignore
  <2>1. node' = node /\ box.frame \notin {BootUpd, BootLoad}
    BY <1>8 DEF Ignore
  <2>2. host.at # 1 /\ host.st # "finished"
    BY <1>3, <1>4, <2>1 DEF BootInv, BoxInv, Quiet
  <2>3. NoBox \in [frame : Seq(Signs), lost : BOOLEAN] /\ NoBox.frame = NoFrame
    BY DEF NoBox, NoFrame
  <2>4. BoxInv'
    BY <1>1, <2>2, <2>3, EnteringFrames DEF BoxInv
  <2>5. BootTypeInv'
    BY <1>1, <2>1, <2>3 DEF BootInv, BootTypeInv
  <2>6. SayInv' /\ IdleInv' /\ OutInv' /\ DeadInv'
    BY <1>1, <2>1 DEF BootInv, SayInv, IdleInv, Live, OutInv, AtRecord, DeadInv
  <2>7. StageInv'
    BY <1>1, <1>2, <2>1 DEF StageInv, Live
  <2>8. FlashInv'
    BY <1>1, <2>1, SameFlash
  <2> QED  BY <2>4, <2>5, <2>6, <2>7, <2>8 DEF BootInv
<1> QED  BY <1>6, <1>7, <1>8 DEF Main

-----------------------------------------------------------------------------
(* The power and the host's patience.                                      *)

LEMMA PowerCutStep == BootInv /\ PowerCut => BootInv'
<1> SUFFICES ASSUME BootInv, PowerCut  PROVE BootInv'
  OBVIOUS
<1>1. /\ Reset /\ UNCHANGED <<flash, host>> /\ hurt' = (hurt \/ node.prog = "boot")
      /\ astray' = astray
  BY DEF PowerCut, Upset, Mishap
<1>2. node \in Nodes /\ hurt \in BOOLEAN
  BY DEF BootInv, BootTypeInv
<1>3. node.prog \in Programs
  BY <1>2, NodeFields
<1>4. Whole("app") \/ hurt' \/ astray
  BY <1>1, <1>3 DEF BootInv, FlashInv, DeadInv, Programs
<1> QED  BY <1>1, <1>2, <1>4, ResetOnly

LEMMA HostTimeoutStep == BootInv /\ HostTimeout => BootInv'
<1> SUFFICES ASSUME BootInv, HostTimeout  PROVE BootInv'
  OBVIOUS
<1>1. /\ host.st = "asks" /\ host.out = <<>> /\ box.frame = NoFrame /\ flash' = flash
      /\ hurt' = hurt /\ astray' = astray
  BY DEF HostTimeout, Unanswered, Calm
<1>2. box = NoBox /\ host \in Hosts /\ hurt \in BOOLEAN /\ host.job \in {"loader", "app"}
      /\ init \in BOOLEAN /\ astray \in BOOLEAN
  BY <1>1, HostFields DEF BootInv, BoxInv, BootTypeInv
<1>3. CASE host.job = "loader" \/ host.at = 1
  <2>1. Reset /\ host' = Asking(host.job, 1)
    BY <1>3 DEF HostTimeout
  <2>2. (Kept("app") \/ astray) /\ (host.job = "app" => Renewed("loader"))
    BY <1>3, <1>2 DEF BootInv, FlashInv
  <2>3. /\ OutInv' /\ host' \in Hosts /\ host'.job = host.job /\ host'.at = 1
        /\ host'.st = "asks"
    BY <1>2, <2>1, StepNumbers, AskingOut
  <2>4. host'.out = <<CommandFrame(host.job, 1)>>
    BY <1>2, <2>1, StepNumbers, AskingHost
  <2>5. box' = NoBox /\ NoBox.frame = NoFrame
    BY <2>1 DEF Reset, NoBox
  <2>6. BoxInv'
    BY <2>3, <2>4, <2>5 DEF BoxInv, Sending
  <2>7. node'.prog = "app" => Whole("app")
    BY <2>1, IdleType DEF Reset, Programs
  <2>8. node'.prog # "upd"
    BY <2>1, IdleType DEF Reset, Programs
  <2>9. FlashInv'
    <3>1. host'.at # End
      BY <2>3, StepNumbers
    <3>2. (Kept("app")' \/ astray') /\ (host.job = "app" => Renewed("loader")')
      BY <1>1, <2>2 DEF Kept, Renewed
    <3>3. Whole("app")' = Whole("app")
      BY <1>1 DEF Whole, Kept, Renewed
    <3> QED  BY <2>3, <2>7, <2>8, <3>1, <3>2, <3>3 DEF FlashInv
  <2> QED  BY <1>1, <1>2, <2>1, <2>2, <2>3, <2>6, <2>9, ResetStep DEF Whole
<1>4. CASE ~(host.job = "loader" \/ host.at = 1)
  <2>1. host' = [host EXCEPT !.st = "quit"] /\ UNCHANGED <<node, box, tx, init>>
    BY <1>4 DEF HostTimeout
  <2>2. /\ host' \in Hosts /\ host'.job = host.job /\ host'.at = host.at
        /\ host'.out = host.out /\ host'.st = "quit"
    BY <1>2, <2>1 DEF Hosts
  <2>3. OutInv'
    BY <1>1, <1>2, <1>4, <2>2 DEF BootInv, OutInv, AtRecord
  <2>4. BoxInv'
    BY <1>1, <1>2, <1>4, <2>1, <2>2, EnteringFrames DEF BootInv, BoxInv
  <2>5. Steady /\ tx' \in [frame : Spoken \cup {""}, req : BOOLEAN]
    BY <1>1, <2>1, <2>2, StillSteady
  <2> QED  BY <1>1, <1>2, <2>1, <2>2, <2>3, <2>4, <2>5, SteadyStep
<1> QED  BY <1>3, <1>4

LEMMA NextJobStep == BootInv /\ NextJob => BootInv'
<1> SUFFICES ASSUME BootInv, NextJob  PROVE BootInv'
  OBVIOUS
<1>1. /\ host.st = "finished" /\ node.pc = "run"
      /\ UNCHANGED <<flash, node, box, tx, init, hurt, astray>>
  BY DEF NextJob, Calm
<1>2. ~Live
  BY <1>1, NotRunning
<1>3. host.at = End /\ Quiet /\ host \in Hosts /\ host.job \in {"loader", "app"}
  BY <1>1, HostFields DEF BootInv, OutInv, BoxInv, BootTypeInv
<1>4. SayInv' /\ DeadInv' /\ StageInv'
  BY <1>1, <1>2 DEF BootInv, SayInv, DeadInv, StageInv, Live
<1>5. IdleInv'
  BY <1>1, <1>2 DEF BootInv, IdleInv, Live
<1>6. Kept("app")' = Kept("app") /\ Renewed("loader")' = Renewed("loader")
      /\ Whole("app")' = Whole("app")
  BY <1>1 DEF Kept, Renewed, Whole
<1>7. CASE host.job = "loader"
  <2>1. host' = Asking("app", 1)
    BY <1>7 DEF NextJob
  <2>2. OutInv' /\ host' \in Hosts /\ host'.job = "app" /\ host'.at = 1 /\ host'.st = "asks"
    BY <2>1, StepNumbers, AskingOut
  <2>3. host'.out = <<CommandFrame("app", 1)>>
    BY <2>1, StepNumbers, AskingHost
  <2>4. NoBox.frame = NoFrame /\ box' = NoBox
    BY <1>1, <1>3 DEF Quiet, NoBox
  <2>5. BoxInv'
    BY <2>2, <2>3, <2>4 DEF BoxInv, Sending
  <2>6. BootTypeInv'
    BY <1>1, <2>2 DEF BootInv, BootTypeInv
  <2>7. FlashInv'
    <3>1. host'.at # End
      BY <2>2, StepNumbers
    <3>2. Renewed("loader") /\ (Kept("app") \/ astray)
      BY <1>3, <1>7, AllStored DEF BootInv, FlashInv
    <3> QED  BY <1>1, <1>6, <2>2, <3>1, <3>2 DEF BootInv, FlashInv, Whole
  <2> QED  BY <1>4, <1>5, <2>2, <2>5, <2>6, <2>7 DEF BootInv
<1>8. CASE host.job # "loader"
  <2>1. host' = [host EXCEPT !.st = "done"]
    BY <1>8 DEF NextJob
  <2>2. /\ host' \in Hosts /\ host'.job = host.job /\ host'.at = host.at
        /\ host'.out = host.out /\ host'.st = "done"
    BY <1>3, <2>1 DEF Hosts
  <2>3. host.at # 1
    BY <1>3, StepNumbers
  <2>4. OutInv'
    BY <1>3, <1>8, <2>2, <2>3 DEF BootInv, OutInv, AtRecord, Quiet
  <2>5. BoxInv'
    BY <1>1, <2>2, <2>3 DEF BootInv, BoxInv
  <2>6. BootTypeInv'
    BY <1>1, <2>2 DEF BootInv, BootTypeInv
  <2>7. FlashInv'
    BY <1>1, <2>2, SameFlash
  <2> QED  BY <1>4, <1>5, <2>4, <2>5, <2>6, <2>7 DEF BootInv
<1> QED  BY <1>7, <1>8

-----------------------------------------------------------------------------
(* The frames of the host.                                                 *)

\* What is left of the frames of a record.
LEMMA RecordRest ==
  ASSUME NEW r, NEW out, RecordFrames(r, out), out # <<>>
  PROVE  /\ RecordFrames(r, Tail(out)) /\ RecordFrame(r, Head(out))
         /\ Len(out) \in Nat \ {0}
         /\ Tail(out) = <<>> <=> Len(out) = 1
         /\ Len(Tail(out)) = Len(out) - 1
         /\ Len(Head(out)) = IF Tail(out) = <<>> THEN 1 ELSE 2
         /\ Tail(out) # <<>> => Plain(Head(Tail(out)))
<1>1. out \in Seq(Seq(Letters))
  BY DEF RecordFrames
<1>2. PICK t, n : t = Tail(out) /\ n = Len(out)
  OBVIOUS
<1>3. /\ t \in Seq(Seq(Letters)) /\ n \in Nat /\ n > 0 /\ Len(t) = n - 1
      /\ \A k \in 1 .. n - 1 : t[k] = out[k + 1]
  BY <1>1, <1>2, HeadTailProperties
<1>4. Head(out) = out[1]
  BY <1>1, HeadTailProperties
<1>5. \A k \in 1 .. n : RecordFrame(r, out[k]) /\ Len(out[k]) = IF k = n THEN 1 ELSE 2
  BY <1>2 DEF RecordFrames
<1>6. t = <<>> <=> n = 1
  <2>1. t = <<>> <=> Len(t) = 0
    BY <1>3
  <2> QED  BY <1>3, <2>1
<1>7. \A k \in 1 .. n - 1 : k + 1 \in 1 .. n /\ (k + 1 = n <=> k = n - 1)
  BY <1>3
<1>8. \A k \in 1 .. Len(t) : RecordFrame(r, t[k]) /\ Len(t[k]) = IF k = Len(t) THEN 1 ELSE 2
  <2> SUFFICES ASSUME NEW k \in 1 .. n - 1
               PROVE  RecordFrame(r, t[k]) /\ Len(t[k]) = IF k = n - 1 THEN 1 ELSE 2
    BY <1>3
  <2>1. k + 1 \in 1 .. n /\ (k + 1 = n <=> k = n - 1) /\ t[k] = out[k + 1]
    BY <1>3, <1>7
  <2>2. RecordFrame(r, out[k + 1]) /\ Len(out[k + 1]) = IF k + 1 = n THEN 1 ELSE 2
    BY <1>5, <2>1
  <2> QED  BY <2>1, <2>2
<1>9. RecordFrame(r, out[1]) /\ Len(out[1]) = IF n = 1 THEN 1 ELSE 2
  BY <1>3, <1>5
<1>10. \A k \in 1 .. n - 1 : Plain(t[k])
  <2> SUFFICES ASSUME NEW k \in 1 .. n - 1  PROVE Plain(t[k])
    OBVIOUS
  <2>1. k + 1 \in 1 .. n /\ k + 1 # 1 /\ t[k] = out[k + 1]
    BY <1>3
  <2>2. Plain(out[k + 1])
    BY <1>2, <2>1 DEF RecordFrames
  <2> QED  BY <2>1, <2>2
<1>11. RecordFrames(r, t)
  BY <1>3, <1>8, <1>10 DEF RecordFrames
<1>12. Len(Head(out)) = IF t = <<>> THEN 1 ELSE 2
  BY <1>4, <1>6, <1>9
<1>13. t # <<>> => Plain(Head(t))
  <2>1. t # <<>> => 1 \in 1 .. n - 1 /\ Head(t) = t[1]
    BY <1>3, <1>6, HeadTailProperties
  <2> QED  BY <1>10, <2>1
<1>14. t # <<>> => Plain(Head(Tail(out)))
  BY <1>2, <1>13
<1> QED  BY <1>2, <1>3, <1>4, <1>6, <1>9, <1>11, <1>12, <1>14

\* What can come and how much of it: an arriving frame adds nothing to it.
LEMMA ComingFrame ==
  ASSUME BootInv, NEW r \in 1 .. RECORDS, Reading(r), host.out # <<>>, host'.out = Tail(host.out),
         \/ box' = box
         \/ box' = [frame |-> Head(host.out), lost |-> box.frame # NoFrame]
  PROVE  /\ Len(node.buf) + ToCome' <= RECORD
         /\ box'.frame = NoFrame \/ RecordFrame(r, box'.frame)
         /\ box'.frame # NoFrame /\ host'.out # <<>> => Len(box'.frame) = 2
         /\ ~Plain(box'.frame) => node.buf = <<>> /\ ~box'.lost
         /\ host'.out # <<>> => Plain(Head(host'.out))
<1>1. /\ AtRecord(r) /\ Len(node.buf) + ToCome <= RECORD
      /\ box.frame = NoFrame \/ RecordFrame(r, box.frame)
      /\ box.frame # NoFrame => Len(box.frame) = 2
      /\ node.buf \in Seq({r} \X (1 .. RECORD))
  BY DEF Reading
<1>2. RecordFrames(r, host.out)
  BY <1>1 DEF BootInv, OutInv
<1>3. PICK n, f, t : n = Len(host.out) /\ f = Head(host.out) /\ t = Tail(host.out)
  OBVIOUS
<1>4. /\ n \in Nat /\ n > 0 /\ (t = <<>> <=> n = 1) /\ Len(t) = n - 1 /\ RecordFrame(r, f)
      /\ Len(f) = IF t = <<>> THEN 1 ELSE 2
  <2>1. PICK o : o = host.out
    OBVIOUS
  <2>2. /\ Len(o) \in Nat \ {0} /\ (Tail(o) = <<>> <=> Len(o) = 1) /\ Len(Tail(o)) = Len(o) - 1
        /\ RecordFrame(r, Head(o)) /\ Len(Head(o)) = IF Tail(o) = <<>> THEN 1 ELSE 2
    BY <1>2, <2>1, RecordRest
  <2> QED  BY <1>3, <2>1, <2>2
<1>5. PICK rest : rest = IF t = <<>> THEN 0 ELSE 2 * Len(t) - 1
  OBVIOUS
<1>6. rest = IF n = 1 THEN 0 ELSE 2 * n - 3
  BY <1>4, <1>5
<1>7. PICK l : l = IF box.lost THEN 2 ELSE 1
  OBVIOUS
<1>8. ToCome = Len(box.frame) * l + (2 * n - 1)
  BY <1>3, <1>7 DEF ToCome
<1>9. PICK k, m : k = Len(box.frame) /\ m = Len(node.buf)
  OBVIOUS
<1>10. m \in Nat /\ k \in {0, 2} /\ (box.frame # NoFrame => k = 2) /\ l \in {1, 2}
  <2>1. Len(NoFrame) = 0
    BY DEF NoFrame
  <2> QED  BY <1>1, <1>7, <1>9, <2>1
<1>11. m + (k * l + (2 * n - 1)) <= RECORD
  BY <1>1, <1>8, <1>9
<1>12. ~Plain(box'.frame) => node.buf = <<>> /\ ~box'.lost
  <2>1. /\ ~Plain(box.frame) => node.buf = <<>> /\ ~box.lost
        /\ node.buf # <<>> \/ box.frame # NoFrame => Plain(f)
    BY <1>3 DEF Reading
  <2>2. CASE box' = box
    BY <2>1, <2>2
  <2>3. CASE box' = [frame |-> f, lost |-> box.frame # NoFrame]
    <3>1. box'.frame = f /\ box'.lost = (box.frame # NoFrame)
      BY <2>3
    <3> QED  BY <2>1, <3>1
  <2> QED  BY <1>3, <2>2, <2>3
<1>13. host'.out # <<>> => Plain(Head(host'.out))
  <2>1. PICK o : o = host.out
    OBVIOUS
  <2>2. Tail(o) # <<>> => Plain(Head(Tail(o)))
    BY <1>2, <2>1, RecordRest
  <2> QED  BY <2>1, <2>2
<1>14. CASE box' = box
  <2>1. ToCome' = k * l + rest
    BY <1>3, <1>5, <1>7, <1>9, <1>14 DEF ToCome
  <2>2. k * l \in Nat
    BY <1>10
  <2>3. PICK q \in Nat : q = k * l
    BY <2>2
  <2>4. m + (q + rest) <= RECORD
    <3>1. m + (q + (2 * n - 1)) <= RECORD
      BY <1>11, <2>3
    <3>2. n \in Nat /\ n > 0 /\ m \in Nat /\ RECORD \in Nat
      BY <1>4, <1>10, BootConstants
    <3>3. CASE n = 1
      <4>1. rest = 0
        BY <1>6, <3>3
      <4> QED  BY <3>1, <3>2, <3>3, <4>1
    <3>4. CASE n # 1
      <4>1. rest = 2 * n - 3
        BY <1>6, <3>4
      <4> QED  BY <3>1, <3>2, <4>1
    <3> QED  BY <3>3, <3>4
  <2>5. host'.out # <<>> => host.out # <<>>
    OBVIOUS
  <2> QED  BY <1>1, <1>9, <1>12, <1>13, <1>14, <2>1, <2>3, <2>4
<1>15. CASE box' = [frame |-> f, lost |-> box.frame # NoFrame]
  <2>1. box'.frame = f /\ box'.lost = (box.frame # NoFrame)
    BY <1>15
  <2>2. ToCome' = Len(f) * (IF box.frame # NoFrame THEN 2 ELSE 1) + rest
    BY <1>3, <1>5, <2>1 DEF ToCome
  <2>3. m + ToCome' <= RECORD
    <3>1. CASE box.frame # NoFrame
      <4>1. k = 2 /\ ToCome' = 2 * Len(f) + rest
        BY <1>4, <1>10, <2>2, <3>1
      <4>2. m + (2 * l + (2 * n - 1)) <= RECORD /\ 2 * l >= 2
        BY <1>10, <1>11, <4>1
      <4>3. PICK u : u = ToCome'
        OBVIOUS
      <4>4. u = IF n = 1 THEN 2 ELSE 4 + (2 * n - 3)
        BY <1>4, <1>6, <4>1, <4>3
      <4>5. m + u <= RECORD
        BY <1>4, <1>10, <4>2, <4>4, BootConstants
      <4> QED  BY <4>3, <4>5
    <3>2. CASE ~(box.frame # NoFrame)
      <4>1. k = 0
        BY <1>9, <3>2 DEF NoFrame
      <4>2. k * l = 0
        BY <1>10, <4>1
      <4>3. m + (2 * n - 1) <= RECORD
        BY <1>4, <1>10, <1>11, <4>2, BootConstants
      <4>4. PICK u : u = ToCome'
        OBVIOUS
      <4>5. u = IF n = 1 THEN 1 ELSE 2 + (2 * n - 3)
        BY <1>4, <1>6, <2>2, <3>2, <4>4
      <4>6. m + u <= RECORD
        BY <1>4, <1>10, <4>3, <4>5, BootConstants
      <4> QED  BY <4>4, <4>6
    <3> QED  BY <3>1, <3>2
  <2> QED  BY <1>3, <1>4, <1>9, <1>12, <1>13, <2>1, <2>3
<1> QED  BY <1>3, <1>14, <1>15

LEMMA ArriveStep == BootInv /\ Arrive => BootInv'
<1> SUFFICES ASSUME BootInv, Arrive  PROVE BootInv'
  OBVIOUS
<1>1. /\ host.out # <<>> /\ host' = [host EXCEPT !.out = Tail(host.out)]
      /\ UNCHANGED <<flash, node, tx, init>>
  BY DEF Arrive
<1>2. PICK t, f : t = Tail(host.out) /\ f = Head(host.out)
  OBVIOUS
<1>3. host \in Hosts /\ host.out \in Seq(Seq(Signs))
  BY HostFields DEF BootInv, BootTypeInv
<1>4. t \in Seq(Seq(Signs)) /\ f \in Seq(Signs)
  BY <1>1, <1>2, <1>3, HeadTailProperties
<1>5. /\ host' \in Hosts /\ host'.job = host.job /\ host'.at = host.at /\ host'.st = host.st
      /\ host'.out = t
  BY <1>1, <1>2, <1>3, <1>4 DEF Hosts
<1>6. host.st = "asks"
  BY <1>1, HostFields DEF BootInv, OutInv
<1>7. hurt' \in BOOLEAN /\ (hurt => hurt') /\ astray' = astray /\ astray \in BOOLEAN
  BY DEF Arrive, Calm, Upset, Mishap, BootInv, BootTypeInv
<1>8. PICK taken : taken = [frame |-> f, lost |-> box.frame # NoFrame]
  OBVIOUS
<1>9. /\ box' = box \/ box' = taken
      /\ taken.frame = f /\ taken.lost = (box.frame # NoFrame)
      /\ taken \in [frame : Seq(Signs), lost : BOOLEAN]
      /\ ~init /\ node.prog # "dead" => box' = taken
  BY <1>2, <1>4, <1>8 DEF Arrive
<1>10. ASSUME NEW r \in 1 .. RECORDS, AtRecord(r)
       PROVE  RecordFrames(r, t) /\ RecordFrame(r, f)
  <2>1. RecordFrames(r, host.out)
    BY <1>10 DEF BootInv, OutInv
  <2> QED  BY <1>1, <1>2, <2>1, RecordRest
<1>11. ASSUME \A r \in 1 .. RECORDS : ~AtRecord(r)
       PROVE  t = <<>> /\ f = CommandFrame(host.job, host.at)
              /\ host.out = <<CommandFrame(host.job, host.at)>>
  <2>1. host.out = <<CommandFrame(host.job, host.at)>>
    BY <1>1, <1>11 DEF BootInv, OutInv
  <2> QED  BY <1>2, <2>1
<1>12. OutInv'
  <2>1. \A r \in 1 .. RECORDS : AtRecord(r)' <=> AtRecord(r)
    BY <1>5 DEF AtRecord
  <2>2. \A r \in 1 .. RECORDS : AtRecord(r)' => RecordFrames(r, host'.out)
    BY <1>5, <1>10, <2>1
  <2>3. (\A r \in 1 .. RECORDS : ~AtRecord(r)') => host'.out = <<>>
    BY <1>5, <1>11, <2>1
  <2> QED  BY <1>5, <1>6, <2>2, <2>3 DEF OutInv
<1>13. f # NoFrame /\ (host.at # 1 => f \notin {BootUpd, BootLoad})
  <2>1. CASE \E r \in 1 .. RECORDS : AtRecord(r)
    BY <1>10, <2>1, RecordFrameKind
  <2>2. CASE \A r \in 1 .. RECORDS : ~AtRecord(r)
    <3>1. host.at \in {1, 2, 3, End - 1, End} /\ host.job \in {"loader", "app"}
      BY <2>2, HostFields DEF BootInv
    <3>2. f = CommandFrame(host.job, host.at)
      BY <1>11, <2>2
    <3>3. CASE host.at = 1
      BY <3>1, <3>2, <3>3, EnterFrameKind, EnteringFrames
    <3>4. CASE host.at # 1
      BY <3>1, <3>2, <3>4, CommandFrameKind
    <3> QED  BY <3>3, <3>4
  <2> QED  BY <2>1, <2>2
<1>14. Sending => Sending'
  <2> SUFFICES ASSUME Sending  PROVE Sending'
    OBVIOUS
  <2>1. host.out = <<CommandFrame(host.job, host.at)>> /\ box = NoBox
    BY <1>1 DEF Sending
  <2>2. t = <<>> /\ f = CommandFrame(host.job, host.at)
    BY <1>2, <2>1
  <2>3. taken = [frame |-> f, lost |-> FALSE]
    BY <1>8, <2>1 DEF NoBox
  <2> QED  BY <1>5, <1>9, <2>1, <2>2, <2>3 DEF Sending
<1>15. BoxInv'
  BY <1>5, <1>6, <1>9, <1>13, <1>14 DEF BootInv, BoxInv
<1>16. BootTypeInv'
  BY <1>1, <1>5, <1>7, <1>9 DEF BootInv, BootTypeInv
<1>17. SayInv' /\ IdleInv' /\ DeadInv'
  BY <1>1, <1>5, <1>7 DEF BootInv, SayInv, IdleInv, Live, DeadInv
<1>18. FlashInv' /\ \A at : Sane(at)' = Sane(at)
  BY <1>1, <1>5, <1>7, SameFlash
<1>19. StageInv'
  <2> SUFFICES ASSUME Live  PROVE Stages'
    BY <1>1 DEF StageInv, Live
  <2>1. Stages /\ ~Quiet
    BY <1>1 DEF BootInv, StageInv, Quiet
  <2>2. Rest' = Rest /\ node' = node /\ \A A : Speaking(A) => Speaking(A)'
    BY <1>1 DEF Rest, Speaking, Going, Digits
  <2>3. CASE node.line = <<>> /\ Commanded
    BY <1>5, <1>14, <1>18, <2>2, <2>3 DEF Commanded, Stages, Heeding
  <2>4. CASE node.line = <<>> /\ Ending
    BY <1>5, <1>14, <1>18, <2>2, <2>4 DEF Ending, Stages, Heeding
  <2>5. ASSUME node.line = <<>>, NEW r \in 1 .. RECORDS, Reading(r)  PROVE Stages'
    <3>1. /\ Len(node.buf) + ToCome' <= RECORD
          /\ box'.frame = NoFrame \/ RecordFrame(r, box'.frame)
          /\ box'.frame # NoFrame /\ host'.out # <<>> => Len(box'.frame) = 2
          /\ ~Plain(box'.frame) => node.buf = <<>> /\ ~box'.lost
          /\ host'.out # <<>> => Plain(Head(host'.out))
      BY <1>1, <1>2, <1>5, <1>8, <1>9, <2>5, ComingFrame
    <3>2. AtRecord(r)' /\ Sane(r + 3)'
      BY <1>5, <1>18, <2>5 DEF Reading, AtRecord
    <3>3. Reading(r)'
      BY <2>2, <2>5, <3>1, <3>2 DEF Reading
    <3> QED  BY <2>2, <2>5, <3>3 DEF Stages, Heeding
  <2>6. ASSUME NEW r \in 1 .. RECORDS, Deaf(r)  PROVE Stages'
    <3>1. AtRecord(r)' /\ (box'.frame = NoFrame \/ RecordFrame(r, box'.frame))
      BY <1>5, <1>9, <1>10, <2>6 DEF Deaf, AtRecord
    <3>2. Deaf(r)'
      BY <2>2, <2>6, <3>1 DEF Deaf
    <3> QED  BY <3>2 DEF Stages
  <2> QED  BY <2>1, <2>3, <2>4, <2>5, <2>6 DEF Stages, Heeding, Entered, Erasing, AllErased,
                    Readied,
                    Programming, Acknowledged, Refusal, Ended, Rebooting
<1> QED  BY <1>12, <1>15, <1>16, <1>17, <1>18, <1>19 DEF BootInv

-----------------------------------------------------------------------------
(* What the host hears.                                                    *)

\* Turning from step to step leaves the flash as the host finds it.
LEMMA SaneKept ==
  ASSUME flash' = flash, host'.job = host.job
  PROVE  \A at : Sane(at)' = Sane(at)
BY DEF Sane, Scope

\* The host turns to a next step, or back to erasing.
LEMMA HeardStep ==
  ASSUME BootInv, Live, Transmitted, Quiet, NEW at \in 2 .. End, host' = Asking(host.job, at),
         Stages', at = End => Sane(End)
  PROVE  BootInv'
<1>1. UNCHANGED <<flash, node, box, init, hurt, astray>>
      /\ tx' \in [frame : Spoken \cup {""}, req : BOOLEAN]
  BY DEF Transmitted, Calm, BootInv, BootTypeInv
<1>2. host.job \in {"loader", "app"} /\ at \in 1 .. End /\ at # 1
  BY HostFields, StepNumbers DEF BootInv
<1>3. OutInv' /\ host' \in Hosts /\ host'.job = host.job /\ host'.at = at /\ host'.st = "asks"
  BY <1>2, AskingOut
<1>4. box' = NoBox /\ NoBox.frame = NoFrame
  BY <1>1 DEF Quiet, NoBox
<1>5. BoxInv'
  BY <1>2, <1>3, <1>4, EnteringFrames DEF BoxInv
<1>6. BootTypeInv' /\ SayInv' /\ DeadInv'
  BY <1>1, <1>3 DEF BootInv, BootTypeInv, SayInv, DeadInv
<1>7. IdleInv' /\ Live'
  BY <1>1, <1>3 DEF BootInv, IdleInv, Live
<1>8. StageInv'
  BY <1>3 DEF StageInv
<1>9. FlashInv'
  <2>1. Kept("app")' = Kept("app") /\ Whole("app")' = Whole("app")
    BY <1>1 DEF Kept, Whole, Renewed
  <2>2. Sane(End)' = Sane(End)
    BY <1>1, <1>3, SaneKept DEF Sane, Scope, End
  <2> QED  BY <1>1, <1>2, <1>3, <2>1, <2>2 DEF BootInv, FlashInv
<1> QED  BY <1>3, <1>5, <1>6, <1>7, <1>8, <1>9 DEF BootInv

\* The record in a step, none but this one.
LEMMA OnlyRecord ==
  ASSUME NEW r \in 1 .. RECORDS, NEW q \in 1 .. RECORDS, AtRecord(r), AtRecord(q)
  PROVE  q = r
BY DEF AtRecord

\* What the host takes for an answer is the answer of the stage.
LEMMA HeardStage ==
  ASSUME BootInv, Live, Transmitted, tx.frame # "digits", NEW A, Speaking(A), tx.frame \notin A
  PROVE  FALSE
BY HeardAnswer DEF BootInv

\* The host turns to a step whose command the node waits for.
LEMMA ToCommand ==
  ASSUME BootInv, Live, Transmitted, Quiet, Rest = "cmd", Speaking({})', node.line = <<>>,
         NEW at \in {2, 3, End}, host' = Asking(host.job, at),
         at = 3 => Sane(4), at = End => Sane(End)
  PROVE  BootInv'
<1>1. host.job \in {"loader", "app"} /\ at \in 1 .. End /\ at \in 2 .. End
  BY HostFields, StepNumbers DEF BootInv
<1>2. host'.job = host.job /\ host'.at = at /\ host'.out = <<CommandFrame(host.job, at)>>
  BY <1>1, AskingHost
<1>3. node' = node /\ box' = box /\ flash' = flash
  BY DEF Transmitted
<1>4. Commanded'
  <2>1. Sending'
    BY <1>2, <1>3 DEF Sending, Quiet
  <2>2. Rest' = "cmd"
    BY <1>3 DEF Rest
  <2>3. at = 3 => Sane(4)'
    BY <1>2, <1>3, SaneKept
  <2> QED  BY <1>2, <2>1, <2>2, <2>3 DEF Commanded
<1>5. Stages'
  BY <1>3, <1>4 DEF Stages, Heeding
<1> QED  BY <1>1, <1>5, HeardStep

\* A refused record sends the host back to erasing.
LEMMA HeardRefusal ==
  ASSUME BootInv, Live, Transmitted, tx.frame = "ERORR",
         NEW r \in 1 .. RECORDS, AtRecord(r), host' = Asking(host.job, 2)
  PROVE  BootInv'
<1>1. Stages /\ tx.frame # "digits" /\ "ERORR" \notin {} /\ "ERORR" \notin {"OK_A", "OK_B"}
  BY NotRunning
<1>2. Heeding /\ Refusal(r)
  <2>1. host.at \notin {1, 2, 3, End - 1, End}
    BY RecordSteps DEF AtRecord
  <2>2. Heeding
    BY <1>1, HeardStage DEF Stages, Deaf
  <2>3. PICK q \in 1 .. RECORDS : Reading(q) \/ Programming(q) \/ Acknowledged(q) \/ Refusal(q)
    BY <2>1, <2>2 DEF Heeding, Entered, Commanded, Erasing, Ending, Ended, Rebooting, AllErased,
                      Readied
  <2>4. q = r
    BY <2>3, OnlyRecord DEF Reading, Programming, Acknowledged, Refusal
  <2>5. ~Reading(q) /\ ~Programming(q)
    BY <1>1, HeardStage DEF Reading, Programming
  <2>6. ~Acknowledged(q)
    BY <1>1, HeardStage DEF Acknowledged
  <2> QED  BY <2>2, <2>3, <2>4, <2>5, <2>6
<1>3. Quiet /\ Rest = "cmd" /\ Speaking({})' /\ node.line = <<>>
  BY <1>1, <1>2, HeardAnswer DEF Refusal, Heeding, BootInv
<1> QED  BY <1>3, StepNumbers, ToCommand

LEMMA AnswersOf ==
  /\ \A at \in {1, 2, End - 1, End} : Answers(Script[at]) = {"OK"}
  /\ Answers(Script[3]) = {"READY"}
  /\ \A r \in 1 .. RECORDS : Answers(Script[r + 3]) = {"OK_A", "OK_B"}
  /\ \A at \in {1, 2, 3, End - 1, End} : Script[at][1] # "RECORD"
<1>1. Answers(<<"ENTER">>) = {"OK"} /\ <<"ENTER">>[1] # "RECORD"
  BY DEF Answers
<1>2. Answers(<<"ERASE">>) = {"OK"} /\ <<"ERASE">>[1] # "RECORD"
  BY DEF Answers
<1>3. Answers(<<"END">>) = {"OK"} /\ <<"END">>[1] # "RECORD"
  BY DEF Answers
<1>4. Answers(<<"REBOOT">>) = {"OK"} /\ <<"REBOOT">>[1] # "RECORD"
  BY DEF Answers
<1>5. Answers(<<"WRITE">>) = {"READY"} /\ <<"WRITE">>[1] # "RECORD"
  BY DEF Answers
<1>6. \A r \in 1 .. RECORDS : Answers(<<"RECORD", r>>) = {"OK_A", "OK_B"}
  BY DEF Answers
<1> QED  BY <1>1, <1>2, <1>3, <1>4, <1>5, <1>6, ScriptSteps

\* Where the host goes on: only records that are not its own are left out.
LEMMA FollowingSteps ==
  ASSUME BootTypeInv, NEW at \in Following
  PROVE  /\ at \in 1 .. End
         /\ host.at \in {1, 2, End - 1} => at = host.at + 1
         /\ host.at = 3 \/ (\E r \in 1 .. RECORDS : AtRecord(r))
              => at = End - 1 \/ \E q \in 1 .. RECORDS : at = q + 3
         /\ \A q \in Scope : q + 3 >= host.at + 1 => q + 3 >= at
<1>1. host.at \in 1 .. End /\ End \in Nat /\ End - 1 \in Nat /\ End = RECORDS + 5
      /\ RECORDS \in Nat /\ RECORDS > 0
  BY HostFields, StepNumbers, ScriptSteps, BootConstants
<1>2. /\ at \in host.at + 1 .. End
      /\ \A a \in host.at + 1 .. at - 1 : Script[a][1] = "RECORD" /\ Script[a][2] \notin Scope
  BY DEF Following, End
<1>3. \A a \in {1, 2, 3, End - 1, End} : a \notin host.at + 1 .. at - 1
  BY <1>2, AnswersOf
<1>4. PICK h \in Nat : h = host.at
  BY <1>1
<1>5. h \in 1 .. End /\ at \in h + 1 .. End /\ at \in 1 .. End /\ at \in Nat
  BY <1>1, <1>2, <1>4
<1>6. ASSUME host.at \in {1, 2, End - 1}  PROVE at = host.at + 1
  <2>1. h + 1 \in {1, 2, 3, End - 1, End}
    BY <1>1, <1>4, <1>6
  <2>2. h + 1 \notin h + 1 .. at - 1
    BY <1>3, <1>4, <2>1
  <2> QED  BY <1>4, <1>5, <2>2
<1>7. ASSUME host.at = 3 \/ \E r \in 1 .. RECORDS : AtRecord(r)
      PROVE  at = End - 1 \/ \E q \in 1 .. RECORDS : at = q + 3
  <2>1. h >= 3 /\ h < End - 1
    BY <1>1, <1>4, <1>7 DEF AtRecord
  <2>2. End - 1 \notin h + 1 .. at - 1
    BY <1>3, <1>4
  <2>3. at # End
    BY <1>1, <1>5, <2>1, <2>2
  <2>4. at \notin {1, 2, 3}
    BY <1>5, <2>1
  <2> QED  BY <1>5, <2>3, <2>4, StepCases
<1>8. ASSUME NEW q \in Scope, q + 3 >= host.at + 1  PROVE q + 3 >= at
  <2>1. q \in 1 .. RECORDS /\ q \in Nat /\ q + 3 \in Nat
    BY ScopeCells, BootConstants
  <2>2. Script[q + 3] = <<"RECORD", q>>
    BY <2>1, ScriptSteps
  <2>3. Script[q + 3][2] = q
    BY <2>2
  <2>4. q + 3 \notin host.at + 1 .. at - 1
    BY <1>2, <2>3
  <2> QED  BY <1>4, <1>5, <1>8, <2>1, <2>4
<1> QED  BY <1>5, <1>6, <1>7, <1>8

\* Entering and erasing are answered, and the end of the image.
LEMMA HeardOk ==
  ASSUME BootInv, Live, Transmitted, tx.frame = "OK", host.at \in {1, 2, End - 1},
         host' = Asking(host.job, host.at + 1)
  PROVE  BootInv'
<1>1. Stages /\ tx.frame # "digits" /\ "OK" \notin {} /\ BootTypeInv
  BY NotRunning DEF BootInv
<1>2. ~Commanded /\ ~Erasing /\ ~Ending
  BY <1>1, HeardStage DEF Commanded, Erasing, Ending
<1>3. \A r \in 1 .. RECORDS : ~AtRecord(r)
  BY RecordSteps DEF AtRecord
<1>4. Heeding /\ node.line = <<>>
  BY <1>1, <1>3 DEF Stages, Deaf, Heeding
<1>5. CASE host.at = 1
  <2>1. Entered
    BY <1>2, <1>3, <1>4, <1>5, StepNumbers DEF Heeding, AllErased, Readied, Reading, Programming,
                      Acknowledged, Refusal, Ended, Rebooting
  <2>2. Quiet /\ Rest = "cmd" /\ Speaking({})'
    BY <1>1, <2>1, HeardAnswer DEF Entered
  <2>3. host.at + 1 = 2
    BY <1>5
  <2> QED  BY <1>4, <2>2, <2>3, StepNumbers, ToCommand
<1>6. CASE host.at = 2
  <2>1. AllErased /\ Sane(4)
    BY <1>2, <1>3, <1>4, <1>6, StepNumbers DEF Heeding, Entered, AllErased, Readied, Reading,
                      Programming, Acknowledged, Refusal, Ended, Rebooting
  <2>2. Quiet /\ Rest = "cmd" /\ Speaking({})'
    BY <1>1, <2>1, HeardAnswer DEF AllErased
  <2>3. host.at + 1 = 3
    BY <1>6
  <2> QED  BY <1>4, <2>1, <2>2, <2>3, StepNumbers, ToCommand
<1>7. CASE host.at = End - 1
  <2>1. Ended /\ Sane(End)
    BY <1>2, <1>3, <1>4, <1>7, StepNumbers DEF Heeding, Entered, AllErased, Readied, Reading,
                      Programming, Acknowledged, Refusal, Ended, Rebooting
  <2>2. Quiet /\ Rest = "cmd" /\ Speaking({})'
    BY <1>1, <2>1, HeardAnswer DEF Ended
  <2>3. host.at + 1 = End
    BY <1>7, StepNumbers
  <2> QED  BY <1>4, <2>1, <2>2, <2>3, StepNumbers, ToCommand
<1> QED  BY <1>5, <1>6, <1>7

\* What is in the flash after the records acknowledged so far, whichever is sent next.
LEMMA SaneOn ==
  ASSUME BootTypeInv, NEW at \in Following, Sane(host.at + 1)
  PROVE  Sane(at) /\ (at = End - 1 => Sane(End))
<1>1. Sane(at)
  BY FollowingSteps DEF Sane
<1>2. ASSUME at = End - 1  PROVE Sane(End)
  <2>1. \A q \in Scope : ~(q + 3 >= End - 1)
    BY ScopeCells, ScriptSteps, BootConstants
  <2> QED  BY <1>1, <1>2, <2>1 DEF Sane
<1> QED  BY <1>1, <1>2

\* A record is on its way to a node that waits for it.
LEMMA RecordSent ==
  ASSUME BootTypeInv, Quiet, Rest = "write", Speaking({})', node.buf = <<>>,
         UNCHANGED <<node, box, flash>>,
         NEW r \in 1 .. RECORDS, host' = Asking(host.job, r + 3), Sane(r + 3)
  PROVE  Reading(r)'
<1>1. r + 3 \in 1 .. End /\ host.job \in {"loader", "app"}
  BY HostFields, RecordSteps
<1>2. /\ host'.job = host.job /\ host'.at = r + 3
      /\ RecordFrames(r, host'.out) /\ host'.out # <<>> /\ 2 * Len(host'.out) - 1 = RECORD
  BY <1>1, AskingHost
<1>3. Rest' = "write" /\ node'.buf = <<>> /\ box' = NoBox
  BY DEF Rest, Quiet
<1>4. box'.frame = NoFrame /\ box'.lost = FALSE /\ Len(NoFrame) = 0
  BY <1>3 DEF NoBox, NoFrame
<1>5. ToCome' = RECORD
  <2>1. ToCome' = Len(box'.frame) * (IF box'.lost THEN 2 ELSE 1) + (2 * Len(host'.out) - 1)
    BY <1>2 DEF ToCome
  <2> QED  BY <1>2, <1>4, <2>1, BootConstants
<1>6. Len(node'.buf) + ToCome' <= RECORD /\ Len(node'.buf) < RECORD
  BY <1>3, <1>5, BootConstants
<1>7. node'.buf \in Seq({r} \X (1 .. RECORD)) /\ \A i \in 3 .. Len(node'.buf) : node'.buf[i][2] # 1
  <2>1. <<>> \in Seq({r} \X (1 .. RECORD)) /\ \A i \in 3 .. Len(<<>>) : <<>>[i][2] # 1
    OBVIOUS
  <2> QED  BY <1>3, <2>1
<1>8. Plain(box'.frame)
  BY <1>4 DEF Plain
<1>9. AtRecord(r)' /\ Sane(r + 3)'
  BY <1>2, SaneKept DEF AtRecord
<1> QED  BY <1>3, <1>4, <1>6, <1>7, <1>8, <1>9 DEF Reading

\* A record is sent, the first or a later one, or the end of the image.
LEMMA ToImage ==
  ASSUME BootInv, Live, Transmitted, Quiet, Rest = "write", Speaking({})', node.buf = <<>>,
         node.line = <<>>, Sane(host.at + 1), host.at = 3 \/ \E r \in 1 .. RECORDS : AtRecord(r),
         NEW at \in Following, host' = Asking(host.job, at)
  PROVE  BootInv'
<1>1. /\ at \in 1 .. End /\ host.job \in {"loader", "app"} /\ BootTypeInv
      /\ at = End - 1 \/ \E q \in 1 .. RECORDS : at = q + 3
  BY HostFields, FollowingSteps DEF BootInv
<1>2. host'.job = host.job /\ host'.at = at
  BY <1>1, AskingHost
<1>3. node' = node /\ box' = box /\ flash' = flash
  BY DEF Transmitted
<1>4. Sane(at) /\ (at = End - 1 => Sane(End)) /\ \A a : Sane(a)' = Sane(a)
  BY <1>1, <1>2, <1>3, SaneOn, SaneKept
<1>5. Rest' = "write" /\ node'.buf = <<>> /\ node'.line = <<>> /\ box' = NoBox
  BY <1>3 DEF Rest, Quiet
<1>6. CASE at = End - 1
  <2>1. host'.out = <<CommandFrame(host.job, at)>>
    BY <1>1, <1>6, AskingHost
  <2>2. Sending'
    BY <1>2, <1>5, <2>1 DEF Sending
  <2>3. Ending'
    BY <1>2, <1>4, <1>5, <1>6, <2>2 DEF Ending, End
  <2>4. Stages'
    BY <1>5, <2>3 DEF Stages, Heeding
  <2> QED  BY <1>6, <2>4, StepNumbers, HeardStep
<1>7. ASSUME NEW q \in 1 .. RECORDS, at = q + 3  PROVE BootInv'
  <2>1. Reading(q)'
    BY <1>1, <1>3, <1>4, <1>7, RecordSent DEF BootInv
  <2>2. Stages'
    BY <1>5, <2>1 DEF Stages, Heeding
  <2>3. at \in 2 .. End /\ at # End
    BY <1>7, RecordSteps, BootConstants
  <2> QED  BY <2>2, <2>3, HeardStep
<1> QED  BY <1>1, <1>6, <1>7

LEMMA HeardReady ==
  ASSUME BootInv, Live, Transmitted, tx.frame = "READY", host.at = 3,
         NEW at \in Following, host' = Asking(host.job, at)
  PROVE  BootInv'
<1>1. Stages /\ tx.frame # "digits" /\ "READY" \notin {} /\ BootTypeInv
  BY NotRunning DEF BootInv
<1>2. ~Commanded
  BY <1>1, HeardStage DEF Commanded
<1>3. \A r \in 1 .. RECORDS : ~AtRecord(r)
  BY RecordSteps DEF AtRecord
<1>4. node.line = <<>> /\ Readied
  BY <1>1, <1>2, <1>3, StepNumbers DEF Stages, Deaf, Heeding, Entered, Erasing, AllErased, Reading,
                    Programming, Acknowledged, Refusal, Ending, Ended, Rebooting
<1>5. Quiet /\ Rest = "write" /\ Speaking({})' /\ node.buf = <<>>
  BY <1>1, <1>4, HeardAnswer DEF Readied
<1>6. Sane(host.at + 1)
  <2>1. host.at + 1 = 4
    OBVIOUS
  <2> QED  BY <1>4, <2>1 DEF Readied
<1> QED  BY <1>4, <1>5, <1>6, ToImage

LEMMA HeardRecord ==
  ASSUME BootInv, Live, Transmitted, tx.frame \in {"OK_A", "OK_B"},
         NEW r \in 1 .. RECORDS, AtRecord(r), NEW at \in Following, host' = Asking(host.job, at)
  PROVE  BootInv'
<1>1. Stages /\ tx.frame # "digits" /\ tx.frame \notin {} /\ tx.frame \notin {"ERORR"}
      /\ BootTypeInv
  BY NotRunning DEF BootInv
<1>2. node.line = <<>> /\ Acknowledged(r)
  <2>1. host.at \notin {1, 2, 3, End - 1, End}
    BY RecordSteps DEF AtRecord
  <2>2. Heeding
    BY <1>1, HeardStage DEF Stages, Deaf
  <2>3. PICK q \in 1 .. RECORDS : Reading(q) \/ Programming(q) \/ Acknowledged(q) \/ Refusal(q)
    BY <2>1, <2>2 DEF Heeding, Entered, Commanded, Erasing, Ending, Ended, Rebooting, AllErased,
                      Readied
  <2>4. q = r
    BY <2>3, OnlyRecord DEF Reading, Programming, Acknowledged, Refusal
  <2>5. ~Reading(q) /\ ~Programming(q) /\ ~Refusal(q)
    BY <1>1, HeardStage DEF Reading, Programming, Refusal
  <2> QED  BY <2>2, <2>3, <2>4, <2>5 DEF Heeding
<1>3. Quiet /\ Rest = "write" /\ Speaking({})' /\ node.buf = <<>>
  BY <1>1, <1>2, HeardAnswer DEF Acknowledged
<1>4. Sane(host.at + 1)
  <2>1. host.at + 1 = r + 4
    BY BootConstants DEF AtRecord
  <2> QED  BY <1>2, <2>1 DEF Acknowledged
<1> QED  BY <1>2, <1>3, <1>4, ToImage

\* Rebooting is the last step.
LEMMA HeardLast ==
  ASSUME BootInv, Live, Transmitted, tx.frame = "OK", host.at = End, host.out = <<>>,
         host' = [host EXCEPT !.st = "finished"]
  PROVE  BootInv'
<1>1. Stages /\ tx.frame # "digits" /\ "OK" \notin {} /\ BootTypeInv /\ host \in Hosts
  BY NotRunning DEF BootInv, BootTypeInv
<1>2. ~Commanded
  BY <1>1, HeardStage DEF Commanded
<1>3. \A r \in 1 .. RECORDS : ~AtRecord(r)
  BY RecordSteps DEF AtRecord
<1>4. Rebooting
  BY <1>1, <1>2, <1>3, StepNumbers DEF Stages, Deaf, Heeding, Entered, Erasing, AllErased, Readied,
                    Reading, Programming, Acknowledged, Refusal, Ending, Ended
<1>5. /\ host' \in Hosts /\ host'.job = host.job /\ host'.at = host.at /\ host'.out = host.out
      /\ host'.st = "finished"
  BY <1>1 DEF Hosts
<1>6. /\ UNCHANGED <<flash, node, box, init, hurt, astray>>
      /\ tx' = tx \/ tx' = [tx EXCEPT !.req = FALSE]
  BY DEF Transmitted, Calm
<1>7. Steady /\ tx' \in [frame : Spoken \cup {""}, req : BOOLEAN]
  BY <1>5, <1>6, StillSteady
<1>8. OutInv'
  BY <1>5, StepNumbers DEF BootInv, OutInv, AtRecord
<1>9. BoxInv'
  <2>1. host.at # 1
    BY StepNumbers
  <2>2. Quiet'
    BY <1>4, <1>5, <1>6 DEF Rebooting, Quiet
  <2>3. NoBox.frame = NoFrame
    BY DEF NoBox
  <2> QED  BY <1>5, <2>1, <2>2, <2>3, EnteringFrames DEF BoxInv, Quiet
<1>10. init' \in BOOLEAN /\ hurt' \in BOOLEAN /\ (hurt => hurt')
  BY <1>6 DEF BootInv, BootTypeInv
<1> QED  BY <1>5, <1>6, <1>7, <1>8, <1>9, <1>10, SteadyStep

LEMMA TransmittedStep == BootInv /\ Transmitted => BootInv'
<1> SUFFICES ASSUME BootInv, Transmitted  PROVE BootInv'
  OBVIOUS
<1>1. /\ tx.req /\ tx' = [tx EXCEPT !.req = FALSE] /\ host' \in Hear(tx.frame)
      /\ UNCHANGED <<node, flash, box, init, hurt, astray>>
  BY DEF Transmitted, Calm
<1>2. Live
  <2>1. NoTx.req = FALSE
    BY DEF NoTx
  <2>2. ~Live => tx = NoTx
    BY DEF BootInv, IdleInv
  <2> QED  BY <1>1, <2>1, <2>2
<1>3. host.at \in {1, 2, 3, End - 1, End} \/ \E r \in 1 .. RECORDS : AtRecord(r)
  BY HostFields DEF BootInv
<1>4. CASE host' = host
  <2>1. Steady /\ tx' \in [frame : Spoken \cup {""}, req : BOOLEAN]
    BY <1>1, <1>4, StillSteady
  <2>2. init' \in BOOLEAN /\ hurt' \in BOOLEAN /\ (hurt => hurt')
    BY <1>1 DEF BootInv, BootTypeInv
  <2> QED  BY <1>1, <1>2, <1>4, <2>1, <2>2, SameHost, SteadyStep
<1>5. CASE host' # host
  <2>1. /\ host.st = "asks" /\ host.out = <<>>
        /\ \/ /\ tx.frame = "ERORR" /\ Script[host.at][1] = "RECORD"
              /\ host' = Asking(host.job, 2)
           \/ /\ tx.frame \in Answers(Script[host.at])
              /\ IF host.at < Len(Script) THEN \E at \in Following : host' = Asking(host.job, at)
                 ELSE host' = [host EXCEPT !.st = "finished"]
    BY <1>1, <1>5 DEF Hear
  <2>2. CASE tx.frame = "ERORR" /\ Script[host.at][1] = "RECORD" /\ host' = Asking(host.job, 2)
    <3>1. PICK r \in 1 .. RECORDS : AtRecord(r)
      BY <1>3, <2>2, AnswersOf
    <3> QED  BY <1>2, <2>2, <3>1, HeardRefusal
  <2>3. CASE tx.frame \in Answers(Script[host.at]) /\ host.at = End
             /\ host' = [host EXCEPT !.st = "finished"]
    <3>1. tx.frame = "OK"
      BY <2>3, AnswersOf
    <3> QED  BY <1>2, <2>1, <2>3, <3>1, HeardLast
  <2>4. ASSUME tx.frame \in Answers(Script[host.at]), host.at # End,
               NEW at \in Following, host' = Asking(host.job, at)
        PROVE  BootInv'
    <3>1. CASE host.at \in {1, 2, End - 1}
      <4>1. tx.frame = "OK"
        BY <2>4, <3>1, AnswersOf
      <4>2. at = host.at + 1
        BY <2>4, <3>1, FollowingSteps DEF BootInv
      <4> QED  BY <1>2, <2>4, <3>1, <4>1, <4>2, HeardOk
    <3>2. CASE host.at = 3
      <4>1. tx.frame = "READY"
        BY <2>4, <3>2, AnswersOf
      <4> QED  BY <1>2, <2>4, <3>2, <4>1, HeardReady
    <3>3. CASE \E r \in 1 .. RECORDS : AtRecord(r)
      <4>1. PICK r \in 1 .. RECORDS : AtRecord(r)
        BY <3>3
      <4>2. tx.frame \in {"OK_A", "OK_B"}
        BY <2>4, <4>1, AnswersOf DEF AtRecord
      <4> QED  BY <1>2, <2>4, <4>1, <4>2, HeardRecord
    <3> QED  BY <1>3, <2>4, <3>1, <3>2, <3>3
  <2>5. host.at < Len(Script) <=> host.at # End
    <3>1. host.at \in 1 .. End /\ End \in Nat
      BY HostFields, StepNumbers DEF BootInv
    <3>2. PICK n : n = End
      OBVIOUS
    <3>3. Len(Script) = n
      BY <3>2 DEF End
    <3>4. host.at < n <=> host.at # n
      BY <3>1, <3>2
    <3> QED  BY <3>2, <3>3, <3>4
  <2> QED  BY <2>1, <2>2, <2>3, <2>4, <2>5
<1> QED  BY <1>4, <1>5

-----------------------------------------------------------------------------
(* The host sends a record again.                                          *)

\* A node that has nothing of the record, all of it, or has refused it, takes it as new or
\* waits for commands.
LEMMA RepeatStages ==
  ASSUME BootInv, Live, Repeat, ~outrun'
  PROVE  Stages'
<1>1. /\ host.out = <<>> /\ box.frame = NoFrame /\ ~tx.req /\ node.pc \in {"cmd", "write", "run"}
      /\ host' = Asking(host.job, host.at) /\ UNCHANGED <<flash, node, box, tx, init>>
  BY DEF Repeat, Unanswered
<1>2. PICK r \in 1 .. RECORDS : AtRecord(r)
  <2>1. Script[host.at][1] = "RECORD"
    BY DEF Repeat
  <2> QED  BY <2>1, HostFields, AnswersOf DEF BootInv
<1>3. Quiet /\ host.at = r + 3 /\ BootTypeInv
  BY <1>1, <1>2 DEF BootInv, BoxInv, Quiet, AtRecord
<1>4. Stages /\ node.pc \in {"cmd", "write"} /\ Rest = node.pc
  BY <1>1, NotRunning DEF Rest
<1>5. node.answer = <<>> /\ Speaking({})'
  <2>1. node.answer = <<>>
    BY <1>4 DEF BootInv, SayInv
  <2> QED  BY <1>1, <2>1 DEF Speaking, Going, Digits
<1>6. AtRecord(r)' /\ Rest' = Rest /\ box'.frame = NoFrame
  <2>1. r + 3 \in 1 .. End /\ host.job \in {"loader", "app"}
    BY <1>3, RecordSteps, HostFields
  <2>2. host'.at = r + 3
    BY <1>1, <1>3, <2>1, AskingHost
  <2> QED  BY <1>1, <2>2 DEF AtRecord, Rest
<1>7. CASE node.pc = "cmd"
  <2>1. Deaf(r)'
    BY <1>4, <1>5, <1>6, <1>7 DEF Deaf
  <2> QED  BY <2>1 DEF Stages
<1>8. CASE node.pc = "write"
  <2>1. node.buf = <<>>
    BY <1>8 DEF Repeat
  <2>2. Heeding
    BY <1>4, <1>8 DEF Stages, Deaf
  <2>3. host.at \notin {1, 2, 3, End - 1, End}
    BY <1>2, RecordSteps DEF AtRecord
  <2>4. PICK q \in 1 .. RECORDS : Reading(q) \/ Acknowledged(q)
    BY <1>4, <1>8, <2>2, <2>3 DEF Heeding, Entered, Commanded, Erasing, Ending, Ended, Rebooting,
                                  AllErased, Readied, Programming, Refusal
  <2>5. q = r
    BY <1>2, <2>4, OnlyRecord DEF Reading, Acknowledged
  <2>6. Sane(r + 3)
    <3>1. CASE Reading(r)
      BY <3>1 DEF Reading
    <3>2. CASE Acknowledged(r)
      <4>1. \A p \in Scope : p + 3 >= r + 4 => p + 3 >= r + 3
        BY ScopeCells, BootConstants
      <4> QED  BY <3>2, <4>1 DEF Acknowledged, Sane
    <3> QED  BY <2>4, <2>5, <3>1, <3>2
  <2>7. Reading(r)'
    BY <1>1, <1>3, <1>4, <1>5, <1>8, <2>1, <2>6, RecordSent
  <2>8. node'.line = <<>>
    BY <1>1, <2>2 DEF Heeding
  <2> QED  BY <2>7, <2>8 DEF Stages, Heeding
<1> QED  BY <1>4, <1>7, <1>8

LEMMA RepeatStep == BootInv /\ Repeat => outrun' \/ BootInv'
<1> SUFFICES ASSUME BootInv, Repeat, ~outrun'  PROVE BootInv'
  OBVIOUS
<1>1. /\ host' = Asking(host.job, host.at) /\ box.frame = NoFrame
      /\ UNCHANGED <<flash, node, box, tx, init, astray>> /\ hurt' = (hurt \/ node.prog = "boot")
  BY DEF Repeat, Unanswered, Mishap
<1>2. host.job \in {"loader", "app"} /\ host.at \in 1 .. End /\ hurt \in BOOLEAN
  BY HostFields DEF BootInv, BootTypeInv
<1>3. /\ OutInv' /\ host' \in Hosts /\ host'.job = host.job /\ host'.at = host.at
      /\ host'.st = "asks"
  BY <1>1, <1>2, AskingOut
<1>4. host.at # 1
  BY StepNumbers, AnswersOf DEF Repeat
<1>5. BoxInv'
  BY <1>1, <1>3, <1>4 DEF BootInv, BoxInv
<1>6. BootTypeInv' /\ SayInv' /\ DeadInv'
  BY <1>1, <1>2, <1>3 DEF BootInv, BootTypeInv, SayInv, DeadInv
<1>7. IdleInv' /\ (Live' <=> Live)
  BY <1>1, <1>3 DEF BootInv, IdleInv, Live
<1>8. StageInv'
  BY <1>7, RepeatStages DEF StageInv
<1>9. FlashInv'
  BY <1>1, <1>3, SameFlash
<1> QED  BY <1>3, <1>5, <1>6, <1>7, <1>8, <1>9 DEF BootInv

-----------------------------------------------------------------------------
(* The invariant.                                                          *)

LEMMA BootStart == BootInit => BootInv
<1> SUFFICES ASSUME BootInit  PROVE BootInv
  OBVIOUS
<1>1. /\ flash = [c \in Cells |-> Old(c)] /\ node = Idle("app") /\ box = NoBox /\ tx = NoTx
      /\ init = FALSE /\ host = Asking("loader", 1) /\ hurt = FALSE /\ astray = FALSE
  BY DEF BootInit
<1>2. /\ host \in Hosts /\ host.job = "loader" /\ host.at = 1 /\ host.st = "asks"
      /\ host.out = <<CommandFrame("loader", 1)>>
  BY <1>1, StepNumbers, AskingHost
<1>3. node \in Nodes /\ node.prog = "app" /\ node.buf = <<>> /\ node.answer = <<>>
      /\ node.pc = "run"
  BY <1>1, IdleType DEF Programs
<1>4. flash \in [Cells -> Contents]
  BY <1>1 DEF Contents
<1>5. NoBox \in [frame : Seq(Signs), lost : BOOLEAN] /\ NoBox.frame = NoFrame
      /\ NoTx \in [frame : Spoken \cup {""}, req : BOOLEAN]
  BY DEF NoBox, NoFrame, NoTx
<1>6. BootTypeInv
  <2>1. Len(node.buf) <= RECORD
    BY <1>3, BootConstants
  <2> QED  BY <1>1, <1>2, <1>3, <1>4, <1>5, <2>1 DEF BootTypeInv
<1>7. SayInv /\ IdleInv /\ StageInv /\ DeadInv
  BY <1>1, <1>3 DEF SayInv, IdleInv, StageInv, Live, DeadInv
<1>8. OutInv
  <2>1. \A r \in 1 .. RECORDS : ~AtRecord(r)
    BY <1>2, RecordSteps DEF AtRecord
  <2> QED  BY <1>2, <2>1 DEF OutInv
<1>9. BoxInv
  BY <1>1, <1>2, <1>5 DEF BoxInv, Sending
<1>10. FlashInv
  <2>1. host.at # End
    BY <1>2, StepNumbers
  <2>2. Kept("app")
    BY <1>1, CellFacts DEF Kept
  <2> QED  BY <1>2, <1>3, <2>1, <2>2 DEF FlashInv, Whole
<1> QED  BY <1>6, <1>7, <1>8, <1>9, <1>10 DEF BootInv

LEMMA BootInvariant == BootSpec => []UpdateInv
<1>1. BootInit => UpdateInv
  BY BootStart DEF UpdateInv
<1>2. UpdateInv /\ [BootNext]_bootVars => UpdateInv'
  <2> SUFFICES ASSUME UpdateInv, [BootNext]_bootVars  PROVE UpdateInv'
    OBVIOUS
  <2>1. outrun => outrun'
    BY DEF BootNext, Node, Main, ReadCommand, EraseSectors, RebootNode, ReadRecord, ProgramWord,
           CheckSum, LoadFrame, WaitOn, Sent, Derail, Arrive, Transmitted, BusOff, PowerCut,
           NextJob, HostTimeout, Repeat, Calm, Upset, bootVars
  <2>2. CASE outrun
    BY <2>1, <2>2 DEF UpdateInv
  <2>3. ASSUME BootInv  PROVE outrun' \/ BootInv'
    <3>1. CASE Node
      BY <2>3, <3>1, MainStep, ReadCommandStep, EraseStep, RebootStep, ReadRecordStep, ProgramStep,
         CheckStep, VoiceStep DEF Node, Voice
    <3>2. CASE Arrive \/ BusOff
      BY <2>3, <3>2, ArriveStep, BusOffStep
    <3>3. CASE Transmitted
      BY <2>3, <3>3, TransmittedStep
    <3>4. CASE NextJob \/ HostTimeout \/ PowerCut \/ Derail
      BY <2>3, <3>4, NextJobStep, HostTimeoutStep, PowerCutStep, DerailStep
    <3>5. CASE Repeat
      BY <2>3, <3>5, RepeatStep
    <3>6. CASE UNCHANGED bootVars
      <4>1. UNCHANGED <<node, flash, box, host, tx, init, hurt, astray>>
        BY <3>6 DEF bootVars
      <4>2. Steady /\ tx' \in [frame : Spoken \cup {""}, req : BOOLEAN]
        BY <2>3, <4>1, StillSteady
      <4>3. init' \in BOOLEAN /\ hurt' \in BOOLEAN /\ (hurt => hurt')
        BY <2>3, <4>1 DEF BootInv, BootTypeInv
      <4> QED  BY <2>3, <4>1, <4>2, <4>3, SameHost, SteadyStep
    <3> QED  BY <3>1, <3>2, <3>3, <3>4, <3>5, <3>6 DEF BootNext
  <2> QED  BY <2>2, <2>3 DEF UpdateInv
<1> QED  BY <1>1, <1>2, PTL DEF BootSpec

\* BufferReadCom holds what is read into it: for every image and every loss on the bus the
\* count stops at the length of a record, unless the host sends a record again that the node
\* has in part.
THEOREM RecordFits == BootSpec => []CountInRange
<1>1. UpdateInv => CountInRange
  <2> SUFFICES ASSUME BootInv, Wild  PROVE FALSE
    BY DEF UpdateInv, CountInRange
  <2>1. Len(node.buf) <= RECORD /\ node \in Nodes
    BY DEF BootInv, BootTypeInv
  <2>2. node.buf \in Seq(Letters)
    BY <2>1, NodeFields
  <2>3. Len(node.buf) \in Nat
    BY <2>2
  <2> QED  BY <2>1, <2>3, BootConstants DEF Wild
<1> QED  BY <1>1, BootInvariant, PTL

\* A record the host has seen acknowledged is in the flash word for word while the node takes
\* records and once the image has ended, through every record refused before it, every record
\* programmed at a wrong address, every restart and every reset.
THEOREM AcknowledgedIsWritten == BootSpec => []AckedIsStored
<1>1. UpdateInv => AckedIsStored
  <2> SUFFICES ASSUME BootInv, NEW r \in Scope, host.at > r + 3, NEW i \in Words,
                      host.at = End \/ Rest = "write"
               PROVE  flash[<<r, i>>] = Value(<<r, i>>)
    BY DEF UpdateInv, AckedIsStored, Rest, End
  <2>1. /\ host.at \in 1 .. End /\ End \in Nat /\ r \in Nat /\ r + 3 < End
        /\ host.at \in {1, 2, 3, End - 1, End} \/ \E q \in 1 .. RECORDS : AtRecord(q)
    BY HostFields, StepNumbers, ScopeCells, ScriptSteps, BootConstants DEF BootInv
  <2>2. \A at \in Nat : Sane(at) /\ r + 3 < at => flash[<<r, i>>] = Value(<<r, i>>)
    BY <2>1 DEF Sane
  <2>3. CASE host.at = End
    BY <2>1, <2>2, <2>3 DEF BootInv, FlashInv
  <2>4. CASE host.at # End
    <3>1. Live
      <4>1. ~Live => Rest \in {"cmd", "run"}
        BY DEF BootInv, IdleInv, Rest, Idle
      <4> QED  BY <2>4, <4>1
    <3>2. Heeding
      BY <2>4, <3>1 DEF BootInv, StageInv, Stages, Deaf
    <3>3. Readied \/ Ending \/ \E q \in 1 .. RECORDS : Reading(q) \/ Acknowledged(q)
      BY <2>4, <3>2 DEF Heeding, Entered, Commanded, Erasing, AllErased, Programming, Refusal,
                        Ended, Rebooting
    <3>4. CASE Readied
      BY <2>1, <3>4, ScopeCells DEF Readied
    <3>5. CASE Ending
      BY <2>1, <2>2, <3>5 DEF Ending
    <3>6. ASSUME NEW q \in 1 .. RECORDS, Reading(q) \/ Acknowledged(q)
          PROVE  flash[<<r, i>>] = Value(<<r, i>>)
      <4>1. q + 3 \in Nat /\ q + 4 \in Nat /\ r + 3 < q + 3 /\ r + 3 < q + 4
        BY <2>1, <3>6, BootConstants DEF Reading, Acknowledged, AtRecord
      <4> QED  BY <2>2, <3>6, <4>1 DEF Reading, Acknowledged
    <3> QED  BY <3>3, <3>4, <3>5, <3>6
  <2> QED  BY <2>3, <2>4
<1> QED  BY <1>1, BootInvariant, PTL

\* A node dies of a mishap that hits its boot loader at work, of an updater that was sent
\* records of the application, or of a host that repeats, and of nothing else.
THEOREM DeadOnlyWhenHurt == BootSpec => []NeverDeadBefore
<1>1. UpdateInv => NeverDeadBefore
  BY DEF UpdateInv, BootInv, DeadInv, NeverDeadBefore
<1> QED  BY <1>1, BootInvariant, PTL

=============================================================================
