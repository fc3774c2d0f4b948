------------------------- MODULE ConsoleRead_proofs --------------------------
(***************************************************************************)
(* For every ring size, key set, line length and number of strokes: the    *)
(* variables keep their types, the ring that the IRQ1 handler and the      *)
(* reader share implements the queue of KeyFifo, the line that             *)
(* read(0, ...) assembles fits where it goes, and the modifier flags       *)
(* follow the keys.                                                        *)
(*                                                                         *)
(* TypeOK is inductive by itself.  The refinement needs one more fact,     *)
(* ReaderInv: from the moment the reader has seen an event until it        *)
(* advances key_tail, the ring is not empty, and the event copied to its   *)
(* local variable is still the one in the slot at key_tail.  The line      *)
(* needs LineInv: before each event there is room for one character more.  *)
(* The modifier flags need ModInv, about the bytes still under way.        *)
(***************************************************************************)
EXTENDS ConsoleRead, SequenceTheorems, TLAPS

LEMMA NextIndexValue ==
  ASSUME NEW i \in 0..(KEY_BUF_SIZE - 1)
  PROVE  /\ NextIndex(i) = IF i + 1 = KEY_BUF_SIZE THEN 0 ELSE i + 1
         /\ NextIndex(i) \in 0..(KEY_BUF_SIZE - 1)
BY KeyBufAssumption DEF NextIndex

LEMMA EmptyEventIsEvent == EmptyEvent \in Event
BY DEF EmptyEvent, Event, Keycode, Ascii

LEMMA ScancodesType ==
  ASSUME NEW k, NEW up \in BOOLEAN
  PROVE  Scancodes(k, up) \in Seq(Byte)
<1> DEFINE b == [code |-> CodeOf(k), up |-> up]
<1>1. CodeOf(k) \in Code
  BY DEF CodeOf, Code
<1>2. b \in Byte /\ [code |-> "E0", up |-> FALSE] \in Byte
  BY <1>1 DEF Byte, Code
<1> HIDE DEF b
<1>3. <<b>> \in Seq(Byte) /\ <<[code |-> "E0", up |-> FALSE], b>> \in Seq(Byte)
  BY <1>2
<1> QED
  BY <1>3 DEF Scancodes, b

LEMMA MakeEventType ==
  ASSUME TypeOK, NEW b \in Byte
  PROVE  MakeEvent(b) \in Event
<1>1. Translate(b.code) \in Ascii
  BY DEF Translate, Ascii
<1>2. KeycodeOf(b.code) \in Keycode
  BY DEF KeycodeOf, Keycode
<1>3. b.up \in BOOLEAN
  BY DEF Byte
<1> QED
  BY <1>1, <1>2, <1>3 DEF MakeEvent, Event, TypeOK, Ascii

------------------------------------------------------------------------------
\* Type correctness.

LEMMA EnqueueType ==
  ASSUME TypeOK, NEW e \in Event, Enqueue(e)
  PROVE  /\ key_buf' \in [0..(KEY_BUF_SIZE - 1) -> Event]
         /\ key_head' \in 0..(KEY_BUF_SIZE - 1)
         /\ key_tail' = key_tail
BY NextIndexValue DEF TypeOK, Enqueue, ringVars

LEMMA InitType == Init => TypeOK
<1> SUFFICES ASSUME Init PROVE TypeOK
  OBVIOUS
<1>1. 0 \in 0..(KEY_BUF_SIZE - 1)
  BY KeyBufAssumption
<1>2. 0 \in 0..MAX_STROKES
  BY StrokesAssumption
<1>3. key_buf \in [0..(KEY_BUF_SIZE - 1) -> Event]
  BY EmptyEventIsEvent DEF Init, KeyboardInit
<1>4. <<>> \in Seq(Byte) /\ <<>> \in Seq(Ascii)
  OBVIOUS
<1> QED
  BY <1>1, <1>2, <1>3, <1>4, EmptyEventIsEvent DEF Init, KeyboardInit, TypeOK

LEMMA EditedType ==
  ASSUME NEW line \in Seq(Ascii), NEW ev \in Event
  PROVE  Edited(line, ev) \in Seq(Ascii)
<1>1. ev.ascii \in Ascii
  BY DEF Event
<1>2. line # <<>> => SubSeq(line, 1, Len(line) - 1) \in Seq(Ascii)
  OBVIOUS
<1> QED
  BY <1>1, <1>2 DEF Edited

\* The steps of keyboard.c, its devices and its readers.
LEMMA KeyboardNextType ==
  ASSUME TypeOK, KeyboardNext, UNCHANGED consoleVars
  PROVE  TypeOK'
<1> USE DEF TypeOK, consoleVars
<1>1. ASSUME NEW k \in PhysKey, Press(k)
      PROVE  TypeOK'
  <2>1. Scancodes(k, FALSE) \in Seq(Byte)
    BY ScancodesType
  <2>2. wire' \in Seq(Byte)
    BY <1>1, <2>1, ConcatProperties DEF Press
  <2>3. strokes' \in 0..MAX_STROKES /\ down' \subseteq PhysKey
    BY <1>1, StrokesAssumption DEF Press
  <2>4. offered' \in {0, 1}
    BY <1>1 DEF Press
  <2> QED
    BY <1>1, <2>2, <2>3, <2>4 DEF Press, ringVars, modVars, readerVars, cpuVars
<1>2. ASSUME NEW k \in PhysKey, Release(k)
      PROVE  TypeOK'
  <2>1. Scancodes(k, TRUE) \in Seq(Byte)
    BY ScancodesType
  <2>2. wire' \in Seq(Byte)
    BY <1>2, <2>1, ConcatProperties DEF Release
  <2>3. strokes' \in 0..MAX_STROKES /\ down' \subseteq PhysKey /\ offered' \in {0, 1}
    BY <1>2 DEF Release
  <2> QED
    BY <1>2, <2>2, <2>3 DEF Release, ringVars, modVars, readerVars, cpuVars
<1>3. CASE Interrupt
  <2>1. ASSUME TakeByte
        PROVE  Head(wire) \in Byte /\ wire' \in Seq(Byte) /\ halted' = FALSE
    BY <2>1 DEF TakeByte, TakeInterrupt
  <2>2. CASE HandlePrefix
    BY <2>1, <2>2 DEF HandlePrefix, TakeByte, TakeInterrupt, ringVars, modVars, readerVars
  <2>3. CASE HandleModifier
    <3>1. Head(wire).up \in BOOLEAN
      BY <2>1, <2>3 DEF HandleModifier, Byte
    <3>2. shift_held' \in BOOLEAN /\ ctrl_held' \in BOOLEAN /\ alt_held' \in BOOLEAN
          /\ caps_lock' \in BOOLEAN /\ extended' \in BOOLEAN
      BY <2>3, <3>1 DEF HandleModifier
    <3> QED
      BY <2>1, <2>3, <3>2 DEF HandleModifier, TakeByte, TakeInterrupt, ringVars, readerVars
  <2>4. CASE HandleKey
    <3>1. MakeEvent(Head(wire)) \in Event
      BY <2>1, <2>4, MakeEventType DEF HandleKey
    <3>2. /\ key_buf' \in [0..(KEY_BUF_SIZE - 1) -> Event]
          /\ key_head' \in 0..(KEY_BUF_SIZE - 1)
          /\ key_tail' = key_tail
      <4>1. Enqueue(MakeEvent(Head(wire))) \/ UNCHANGED ringVars
        BY <2>4 DEF HandleKey
      <4> QED
        BY <3>1, <4>1, EnqueueType DEF ringVars
    <3>3. offered' \in {0, 1} /\ extended' = FALSE
      BY <2>4 DEF HandleKey
    <3> QED
      BY <2>1, <2>4, <3>2, <3>3 DEF HandleKey, TakeByte, TakeInterrupt, modVars, readerVars
  <2>5. CASE TimerTick
    BY <2>5 DEF TimerTick, TakeInterrupt, kbdVars, ringVars, modVars, readerVars
  <2> QED
    BY <1>3, <2>2, <2>3, <2>4, <2>5 DEF Interrupt
<1>4. ASSUME NEW caller \in {"poll", "wait", "getchar"}, StartRead(caller)
      PROVE  TypeOK'
  BY <1>4 DEF StartRead, ReaderStep, kbdVars, ringVars, modVars
<1>5. CASE Reader
  <2> USE DEF ReaderStep, kbdVars, ringVars, modVars
  <2>1. CASE TestHasEvent
    BY <2>1 DEF TestHasEvent
  <2>2. CASE Hlt
    BY <2>2 DEF Hlt
  <2>3. CASE GetTest
    BY <2>3, EmptyEventIsEvent DEF GetTest
  <2>4. CASE GetCopy
    BY <2>4 DEF GetCopy
  <2>5. CASE GetAdvance
    BY <2>5, EmptyEventIsEvent, NextIndexValue DEF GetAdvance
  <2>6. CASE FinishRead
    BY <2>6 DEF FinishRead
  <2> QED
    BY <1>5, <2>1, <2>2, <2>3, <2>4, <2>5, <2>6 DEF Reader
<1> QED
  BY <1>1, <1>2, <1>3, <1>4, <1>5 DEF KeyboardNext

LEMMA NextType == TypeOK /\ [Next]_vars => TypeOK'
<1> SUFFICES ASSUME TypeOK, [Next]_vars PROVE TypeOK'
  OBVIOUS
<1>1. CASE KeyboardNext /\ UNCHANGED consoleVars
  BY <1>1, KeyboardNextType
<1>2. ASSUME NEW len \in ReadLen, SysRead(len)
      PROVE  TypeOK'
  <2>1. Smaller(len, KBUF) \in Nat
    BY ConsoleAssumption DEF Smaller
  <2> QED
    BY <1>2, <2>1 DEF SysRead, ReaderStep, TypeOK, kbdVars, ringVars, modVars
<1>3. CASE EnterGate
  BY <1>3 DEF EnterGate, GateIF, TypeOK, kbdVars, ringVars, modVars, consoleVars
<1>4. CASE ConsumeEvent
  <2>1. Edited(kbuf, last) \in Seq(Ascii)
    BY EditedType DEF TypeOK
  <2>2. kbuf' \in Seq(Ascii) /\ ret' \in Seq(Ascii) /\ room' \in Nat
        /\ intr' \in BOOLEAN /\ rpc' \in {"idle", "test"}
    <3>1. kbuf' \in {<<>>, Edited(kbuf, last)} /\ ret' \in {ret, Edited(kbuf, last)}
      BY <1>4 DEF ConsumeEvent
    <3>2. room' \in {0, room} /\ intr' \in {TRUE, intr} /\ rpc' \in {"idle", "test"}
      BY <1>4 DEF ConsumeEvent
    <3>3. kbuf \in Seq(Ascii) /\ ret \in Seq(Ascii) /\ room \in Nat /\ intr \in BOOLEAN
          /\ <<>> \in Seq(Ascii)
      BY DEF TypeOK
    <3>4. kbuf' \in Seq(Ascii) /\ ret' \in Seq(Ascii)
      BY <2>1, <3>1, <3>3
    <3>5. room' \in Nat
      BY <3>2, <3>3
    <3>6. intr' \in BOOLEAN
      BY <3>2, <3>3
    <3> QED
      BY <3>2, <3>4, <3>5, <3>6
  <2> QED
    BY <1>4, <2>2 DEF ConsumeEvent, TypeOK, kbdVars, ringVars, modVars
<1>5. CASE UNCHANGED vars
  BY <1>5 DEF vars, keyboardVars, consoleVars, TypeOK, kbdVars, ringVars, modVars,
     readerVars, cpuVars
<1> QED
  BY <1>1, <1>2, <1>3, <1>4, <1>5 DEF Next

\* Every variable of the driver, its reader and the line discipline keeps its
\* type: the ring indices stay inside the ring, kbuf holds characters.
THEOREM TypeCorrect == Spec => []TypeOK
BY InitType, NextType, PTL DEF Spec

------------------------------------------------------------------------------
\* The ring is a queue.

\* What the reader relies on between its accesses to the ring.
ReaderInv ==
  /\ rpc \in {"get", "copy", "advance"} => has_event
  /\ rpc = "advance" => slot = key_buf[key_tail]

Inv == TypeOK /\ ReaderInv

LEMMA IndexType ==
  ASSUME TypeOK
  PROVE  /\ KEY_BUF_SIZE \in Nat /\ KEY_BUF_SIZE >= 2
         /\ key_head \in 0..(KEY_BUF_SIZE - 1)
         /\ key_tail \in 0..(KEY_BUF_SIZE - 1)
         /\ key_buf \in [0..(KEY_BUF_SIZE - 1) -> Event]
BY KeyBufAssumption DEF TypeOK

\* The occupied slots are distinct from the one the handler fills next.
LEMMA SlotRange ==
  ASSUME TypeOK
  PROVE  /\ Occupied \in 0..(KEY_BUF_SIZE - 1)
         /\ \A i \in 0..(KEY_BUF_SIZE - 1) : SlotAt(i) \in 0..(KEY_BUF_SIZE - 1)
         /\ \A i \in 0..(Occupied - 1) : SlotAt(i) # key_head
         /\ SlotAt(Occupied) = key_head
         /\ SlotAt(0) = key_tail
         /\ Occupied = 0 <=> ~has_event
<1>1. Occupied \in 0..(KEY_BUF_SIZE - 1)
  BY IndexType DEF Occupied
<1>2. \A i \in 0..(KEY_BUF_SIZE - 1) : SlotAt(i) \in 0..(KEY_BUF_SIZE - 1)
  BY IndexType DEF SlotAt
<1>3. \A i \in 0..(Occupied - 1) : SlotAt(i) # key_head
  BY IndexType DEF Occupied, SlotAt
<1>4. SlotAt(Occupied) = key_head /\ SlotAt(0) = key_tail
  BY IndexType DEF Occupied, SlotAt
<1>5. Occupied = 0 <=> ~has_event
  BY IndexType DEF Occupied, has_event
<1> QED
  BY <1>1, <1>2, <1>3, <1>4, <1>5

LEMMA QueuedType ==
  ASSUME TypeOK
  PROVE  /\ Queued \in Seq(Event)
         /\ Len(Queued) = Occupied
         /\ \A i \in 1..Occupied : Queued[i] = key_buf[SlotAt(i - 1)]
<1>1. Occupied \in Nat
  BY SlotRange, IndexType
<1>2. \A i \in 1..Occupied : key_buf[SlotAt(i - 1)] \in Event
  <2> SUFFICES ASSUME NEW i \in 1..Occupied PROVE key_buf[SlotAt(i - 1)] \in Event
    OBVIOUS
  <2>1. i - 1 \in 0..(KEY_BUF_SIZE - 1)
    BY SlotRange, IndexType
  <2>2. SlotAt(i - 1) \in 0..(KEY_BUF_SIZE - 1)
    BY <2>1, SlotRange
  <2> QED
    BY <2>2, IndexType
<1> QED
  BY <1>1, <1>2 DEF Queued

\* The handler's side: an event is refused if the ring is full, and otherwise
\* goes behind the ones already there.
LEMMA EnqueueIsAccept ==
  ASSUME TypeOK, TypeOK', NEW e \in Event, Enqueue(e), UNCHANGED last,
         offered' = 1 - offered
  PROVE  Fifo!Accept \/ Fifo!Refuse
<1>1. CASE NextIndex(key_head) = key_tail
  <2>1. UNCHANGED ringVars
    BY <1>1 DEF Enqueue
  <2>2. Queued' = Queued
    BY <2>1 DEF Queued, Occupied, SlotAt, ringVars
  <2>3. NextIndex(key_head) = IF key_head + 1 = KEY_BUF_SIZE THEN 0 ELSE key_head + 1
    BY NextIndexValue, IndexType
  <2>4. Occupied = KEY_BUF_SIZE - 1
    BY <1>1, <2>3, IndexType DEF Occupied
  <2>5. Len(Queued) = KEY_BUF_SIZE - 1
    BY <2>4, QueuedType
  <2> QED
    BY <2>2, <2>5 DEF Fifo!Refuse
<1>2. CASE NextIndex(key_head) # key_tail
  <2>1. /\ key_buf' = [key_buf EXCEPT ![key_head] = e]
        /\ key_head' = NextIndex(key_head)
        /\ key_tail' = key_tail
    BY <1>2 DEF Enqueue
  <2>2. NextIndex(key_head) = IF key_head + 1 = KEY_BUF_SIZE THEN 0 ELSE key_head + 1
    BY NextIndexValue, IndexType
  <2>3. Occupied < KEY_BUF_SIZE - 1 /\ Occupied' = Occupied + 1
    BY <1>2, <2>1, <2>2, IndexType DEF Occupied
  <2>4. \A i : SlotAt(i)' = SlotAt(i)
    BY <2>1 DEF SlotAt
  <2>5. /\ Queued' \in Seq(Event)
        /\ Len(Queued') = Occupied + 1
        /\ \A i \in 1..(Occupied + 1) : Queued'[i] = key_buf'[SlotAt(i - 1)]
    <3>1. Queued' = [i \in 1..(Occupied + 1) |-> key_buf'[SlotAt(i - 1)]]
      BY <2>3, <2>4 DEF Queued
    <3>2. \A i \in 1..(Occupied + 1) : SlotAt(i - 1) \in 0..(KEY_BUF_SIZE - 1)
      <4> SUFFICES ASSUME NEW i \in 1..(Occupied + 1)
                   PROVE  i - 1 \in 0..(KEY_BUF_SIZE - 1)
        BY SlotRange
      <4> QED
        BY <2>3, SlotRange, IndexType
    <3>3. \A i \in 1..(Occupied + 1) : key_buf'[SlotAt(i - 1)] \in Event
      BY <2>1, <3>2, IndexType
    <3>4. Occupied + 1 \in Nat
      BY SlotRange
    <3> QED
      BY <3>1, <3>3, <3>4
  <2>6. ASSUME NEW i \in 1..Occupied
        PROVE  Queued'[i] = Queued[i]
    <3>1. i - 1 \in 0..(Occupied - 1) /\ i - 1 \in 0..(KEY_BUF_SIZE - 1)
      BY SlotRange, IndexType
    <3>2. SlotAt(i - 1) # key_head /\ SlotAt(i - 1) \in 0..(KEY_BUF_SIZE - 1)
      BY <3>1, SlotRange
    <3>3. key_buf'[SlotAt(i - 1)] = key_buf[SlotAt(i - 1)]
      BY <2>1, <3>2, IndexType
    <3>4. i \in 1..(Occupied + 1)
      BY SlotRange
    <3> QED
      BY <2>5, <3>3, <3>4, QueuedType
  <2>7. Queued'[Occupied + 1] = e
    <3>1. key_buf'[key_head] = e
      BY <2>1, IndexType
    <3>2. Occupied + 1 \in 1..(Occupied + 1) /\ (Occupied + 1) - 1 = Occupied
      BY SlotRange
    <3> QED
      BY <2>5, <3>1, <3>2, SlotRange
  <2>8. Queued' = Append(Queued, e)
    <3>1. /\ Append(Queued, e) \in Seq(Event)
          /\ Len(Append(Queued, e)) = Occupied + 1
          /\ \A i \in 1..Occupied : Append(Queued, e)[i] = Queued[i]
          /\ Append(Queued, e)[Occupied + 1] = e
      BY QueuedType, SlotRange
    <3>2. \A i \in 1..(Occupied + 1) : i \in 1..Occupied \/ i = Occupied + 1
      BY SlotRange
    <3>3. \A i \in 1..(Occupied + 1) : Queued'[i] = Append(Queued, e)[i]
      BY <2>6, <2>7, <3>1, <3>2
    <3> QED
      BY <2>5, <3>1, <3>3, SeqEqual
  <2>9. Fifo!Accept
    <3>1. Len(Queued) < KEY_BUF_SIZE - 1 /\ Len(Queued') = Len(Queued) + 1
      BY <2>3, <2>5, QueuedType
    <3> QED
      BY <2>8, <3>1 DEF Fifo!Accept
  <2> QED
    BY <2>9
<1> QED
  BY <1>1, <1>2

\* The reader's side: advancing key_tail takes the oldest event.
LEMMA AdvanceIsTake ==
  ASSUME Inv, TypeOK', GetAdvance
  PROVE  Fifo!Take
<1>1. TypeOK
  BY DEF Inv
<1>2. /\ key_buf' = key_buf /\ key_head' = key_head
      /\ key_tail' = NextIndex(key_tail) /\ last' = key_buf[key_tail]
      /\ has_event /\ offered' = offered
  BY DEF Inv, GetAdvance, ReaderStep, ReaderInv
<1>3. NextIndex(key_tail) = IF key_tail + 1 = KEY_BUF_SIZE THEN 0 ELSE key_tail + 1
  BY <1>1, NextIndexValue, IndexType
<1>4. Occupied > 0 /\ Occupied' = Occupied - 1
  BY <1>1, <1>2, <1>3, IndexType DEF Occupied, has_event
<1>5. ASSUME NEW i \in 1..(Occupied - 1)
      PROVE  SlotAt(i - 1)' = SlotAt(i)
  BY <1>1, <1>2, <1>3, IndexType, SlotRange DEF SlotAt
<1>6. /\ Queued' \in Seq(Event)
      /\ Len(Queued') = Occupied - 1
      /\ \A i \in 1..(Occupied - 1) : Queued'[i] = key_buf[SlotAt(i)]
  <2>1. Queued' = [i \in 1..(Occupied - 1) |-> key_buf[SlotAt(i)]]
    BY <1>2, <1>4, <1>5 DEF Queued
  <2>2. \A i \in 1..(Occupied - 1) : key_buf[SlotAt(i)] \in Event
    <3> SUFFICES ASSUME NEW i \in 1..(Occupied - 1)
                 PROVE  key_buf[SlotAt(i)] \in Event
      OBVIOUS
    <3>1. i \in 0..(KEY_BUF_SIZE - 1)
      BY <1>1, SlotRange, IndexType
    <3> QED
      BY <1>1, <3>1, SlotRange, IndexType
  <2>3. Occupied - 1 \in Nat
    BY <1>1, <1>4, SlotRange
  <2> QED
    BY <2>1, <2>2, <2>3
<1>7. Queued # <<>> /\ Head(Queued) = key_buf[key_tail]
  <2>1. Queued # <<>>
    BY <1>1, <1>4, QueuedType
  <2>2. Head(Queued) = Queued[1]
    BY <1>1, <2>1, QueuedType
  <2>3. 1 \in 1..Occupied /\ 1 - 1 = 0
    BY <1>1, <1>4, SlotRange
  <2> QED
    BY <1>1, <2>1, <2>2, <2>3, QueuedType, SlotRange
<1>8. Queued' = Tail(Queued)
  <2>1. /\ Tail(Queued) \in Seq(Event)
        /\ Len(Tail(Queued)) = Occupied - 1
        /\ \A i \in 1..(Occupied - 1) : Tail(Queued)[i] = Queued[i + 1]
    BY <1>1, <1>7, QueuedType, HeadTailProperties
  <2>2. ASSUME NEW i \in 1..(Occupied - 1)
        PROVE  Queued'[i] = Tail(Queued)[i]
    <3>1. i + 1 \in 1..Occupied /\ (i + 1) - 1 = i
      BY <1>1, SlotRange
    <3>2. Queued[i + 1] = key_buf[SlotAt(i)]
      BY <1>1, <3>1, QueuedType
    <3> QED
      BY <1>6, <2>1, <3>2
  <2> QED
    BY <1>6, <2>1, <2>2, SeqEqual
<1> QED
  BY <1>2, <1>7, <1>8 DEF Fifo!Take

------------------------------------------------------------------------------
\* ReaderInv is inductive with the types.

LEMMA InitReaderInv == Init => ReaderInv
BY DEF Init, KeyboardInit, ReaderInv

\* The handler leaves the slots the reader is looking at alone.
LEMMA EnqueueReaderInv ==
  ASSUME Inv, NEW e \in Event, Enqueue(e), UNCHANGED readerVars
  PROVE  ReaderInv'
<1>1. CASE UNCHANGED ringVars
  BY <1>1 DEF Inv, ReaderInv, readerVars, ringVars, has_event
<1>2. CASE NextIndex(key_head) # key_tail
  <2>1. /\ key_buf' = [key_buf EXCEPT ![key_head] = e]
        /\ key_head' # key_tail' /\ key_tail' = key_tail
    BY <1>2 DEF Enqueue
  <2>2. key_head # key_tail => key_buf'[key_tail'] = key_buf[key_tail]
    BY <2>1, IndexType DEF Inv
  <2> QED
    BY <2>1, <2>2 DEF Inv, ReaderInv, readerVars, has_event
<1> QED
  BY <1>1, <1>2 DEF Enqueue

LEMMA NextReaderInv == Inv /\ [Next]_vars => ReaderInv'
<1> SUFFICES ASSUME Inv, [Next]_vars PROVE ReaderInv'
  OBVIOUS
<1> USE DEF ReaderInv, has_event
<1>0. ASSUME UNCHANGED <<ringVars, readerVars>>
      PROVE  ReaderInv'
  BY <1>0 DEF Inv, ringVars, readerVars
<1>1. ASSUME NEW k \in PhysKey, Press(k) \/ Release(k)
      PROVE  ReaderInv'
  BY <1>0, <1>1 DEF Press, Release
<1>2. CASE HandlePrefix \/ HandleModifier \/ TimerTick
  BY <1>0, <1>2 DEF HandlePrefix, HandleModifier, TimerTick, TakeByte
<1>3. CASE HandleKey
  <2>1. Head(wire) \in Byte
    BY <1>3 DEF HandleKey, TakeByte, Inv, TypeOK
  <2>2. MakeEvent(Head(wire)) \in Event
    BY <2>1, MakeEventType DEF Inv
  <2>3. UNCHANGED readerVars /\ (Enqueue(MakeEvent(Head(wire))) \/ UNCHANGED ringVars)
    BY <1>3 DEF HandleKey, TakeByte
  <2> QED
    BY <1>0, <2>2, <2>3, EnqueueReaderInv
<1>4. ASSUME NEW caller \in {"poll", "wait", "getchar"}, StartRead(caller)
      PROVE  ReaderInv'
  BY <1>4 DEF StartRead, ReaderStep
<1>5. CASE Reader
  BY <1>5 DEF Inv, Reader, TestHasEvent, Hlt, GetTest, GetCopy, GetAdvance, FinishRead,
     ReaderStep, ringVars
<1>6. ASSUME NEW len \in ReadLen, SysRead(len)
      PROVE  ReaderInv'
  BY <1>6 DEF SysRead, ReaderStep
<1>7. CASE EnterGate \/ ConsumeEvent
  BY <1>7 DEF EnterGate, ConsumeEvent
<1>8. CASE UNCHANGED vars
  BY <1>0, <1>8 DEF vars, keyboardVars
<1> QED
  BY <1>1, <1>2, <1>3, <1>4, <1>5, <1>6, <1>7, <1>8 DEF Next, KeyboardNext, Interrupt

LEMMA InvInvariant == Spec => []Inv
<1>1. Init => Inv
  BY InitType, InitReaderInv DEF Inv
<1>2. Inv /\ [Next]_vars => Inv'
  BY NextType, NextReaderInv DEF Inv
<1> QED
  BY <1>1, <1>2, PTL DEF Spec

\* keyboard.c:153-161.  What keyboard_has_event saw is still there when
\* keyboard_get_event looks again, whatever the handler did in between.
THEOREM NeverEmptyHanded == Spec => []ReaderNeverEmptyHanded
<1>1. Inv => ReaderNeverEmptyHanded
  BY DEF Inv, ReaderInv, ReaderNeverEmptyHanded
<1> QED
  BY <1>1, InvInvariant, PTL

------------------------------------------------------------------------------
\* Refinement.

LEMMA InitIsFifoInit == Init => Fifo!FifoInit
<1> SUFFICES ASSUME Init PROVE Fifo!FifoInit
  OBVIOUS
<1>1. Occupied = 0 /\ last = EmptyEvent
  BY KeyBufAssumption DEF Init, KeyboardInit, Occupied
<1>3. offered = 0
  BY DEF Init, KeyboardInit
<1>2. Queued = <<>>
  <2>1. TypeOK
    BY InitType
  <2> QED
    BY <1>1, <2>1, QueuedType
<1> QED
  BY <1>1, <1>2, <1>3 DEF Fifo!FifoInit

LEMMA NextIsFifoNext ==
  Inv /\ TypeOK' /\ [Next]_vars => [Fifo!FifoNext]_<<Queued, last, offered>>
<1> SUFFICES ASSUME Inv, TypeOK', [Next]_vars
             PROVE  Fifo!FifoNext \/ UNCHANGED <<Queued, last, offered>>
  BY DEF Fifo!fifoVars
<1>0. ASSUME UNCHANGED <<ringVars, last, offered>>
      PROVE  UNCHANGED <<Queued, last, offered>>
  BY <1>0 DEF Queued, Occupied, SlotAt, ringVars
<1>1. ASSUME NEW k \in PhysKey, Press(k) \/ Release(k)
      PROVE  UNCHANGED <<Queued, last, offered>>
  BY <1>0, <1>1 DEF Press, Release, readerVars
<1>2. CASE HandlePrefix \/ HandleModifier \/ TimerTick
  BY <1>0, <1>2 DEF HandlePrefix, HandleModifier, TimerTick, TakeByte, readerVars
<1>3. CASE HandleKey
  <2>1. Head(wire) \in Byte
    BY <1>3 DEF HandleKey, TakeByte, Inv, TypeOK
  <2>2. MakeEvent(Head(wire)) \in Event
    BY <2>1, MakeEventType DEF Inv
  <2>3. /\ UNCHANGED last
        /\ \/ Enqueue(MakeEvent(Head(wire))) /\ offered' = 1 - offered
           \/ UNCHANGED <<ringVars, offered>>
    BY <1>3 DEF HandleKey, TakeByte, readerVars
  <2> QED
    BY <1>0, <2>2, <2>3, EnqueueIsAccept DEF Inv, Fifo!FifoNext
<1>4. ASSUME NEW caller \in {"poll", "wait", "getchar"}, StartRead(caller)
      PROVE  UNCHANGED <<Queued, last, offered>>
  BY <1>0, <1>4 DEF StartRead, ReaderStep
<1>5. CASE GetAdvance
  BY <1>5, AdvanceIsTake DEF Fifo!FifoNext
<1>6. CASE TestHasEvent \/ Hlt \/ GetTest \/ GetCopy \/ FinishRead
  <2>1. UNCHANGED <<ringVars, last, offered>>
    BY <1>6 DEF TestHasEvent, Hlt, GetTest, GetCopy, FinishRead, ReaderStep, Inv, ReaderInv
  <2> QED
    BY <1>0, <2>1
<1>7. ASSUME NEW len \in ReadLen, SysRead(len)
      PROVE  UNCHANGED <<Queued, last, offered>>
  BY <1>0, <1>7 DEF SysRead, ReaderStep
<1>8. CASE EnterGate \/ ConsumeEvent
  BY <1>0, <1>8 DEF EnterGate, ConsumeEvent
<1>9. CASE UNCHANGED vars
  BY <1>0, <1>9 DEF vars, keyboardVars, readerVars
<1> QED
  BY <1>1, <1>2, <1>3, <1>4, <1>5, <1>6, <1>7, <1>8, <1>9
     DEF Next, KeyboardNext, Interrupt, Reader

\* keyboard.c:129-161.  The ring shared with the interrupt handler implements
\* the queue of KeyFifo: events come out once, unaltered and in order, and one
\* is refused only when KEY_BUF_SIZE - 1 are waiting.
THEOREM RingImplementsFifo == Spec => RingIsFifo
<1>1. TypeOK /\ [Next]_vars => TypeOK'
  BY NextType
<1>2. Inv => TypeOK
  BY DEF Inv
<1>3. [Fifo!FifoNext]_<<Queued, last, offered>> => [Fifo!FifoNext]_(Fifo!fifoVars)
  BY DEF Fifo!fifoVars
<1> QED
  BY <1>1, <1>2, <1>3, InvInvariant, InitIsFifoInit, NextIsFifoNext, PTL
     DEF Spec, RingIsFifo, Fifo!FifoSpec

------------------------------------------------------------------------------
\* The line of sys_read.

\* While a read is under way its line has room for one character more and no
\* newline in it, because the newline is the character that ends the read.
LineInv ==
  /\ op = "sys_read" /\ rpc # "idle" =>
       /\ room \in 0..KBUF
       /\ Len(kbuf) < room
       /\ \A i \in DOMAIN kbuf : kbuf[i] # "newline"
  /\ Len(ret) <= KBUF
  /\ \A i \in DOMAIN ret : ret[i] = "newline" => i = Len(ret)

\* What one event does to a line without newlines.
LEMMA EditedLine ==
  ASSUME NEW line \in Seq(Ascii), NEW ev \in Event,
         \A i \in DOMAIN line : line[i] # "newline"
  PROVE  /\ Len(Edited(line, ev)) <= Len(line) + 1
         /\ \A i \in DOMAIN Edited(line, ev) :
              Edited(line, ev)[i] = "newline" => EndsLine(ev) /\ i = Len(Edited(line, ev))
<1> DEFINE new == Edited(line, ev)
<1>1. CASE new = line
  BY <1>1
<1>2. CASE line # <<>> /\ new = SubSeq(line, 1, Len(line) - 1)
  <2>1. Len(line) \in Nat /\ Len(line) >= 1
    BY <1>2
  <2> DEFINE n == Len(line) - 1
  <2>2. n \in Int /\ \A i \in 1..n : line[i] \in Ascii
    BY <2>1
  <2>3. /\ Len(SubSeq(line, 1, n)) = IF 1 <= n THEN n - 1 + 1 ELSE 0
        /\ \A i \in 1..(n - 1 + 1) : SubSeq(line, 1, n)[i] = line[1 + i - 1]
    <3> HIDE DEF n
    <3> QED
      BY <2>2, SubSeqProperties
  <2>4. Len(SubSeq(line, 1, n)) = n /\ \A i \in 1..n : SubSeq(line, 1, n)[i] = line[i]
    <3>1. n \in Nat
      BY <2>1
    <3> HIDE DEF n
    <3>2. n - 1 + 1 = n /\ (1 <= n \/ n = 0)
      BY <3>1
    <3>3. \A i \in 1..n : 1 + i - 1 = i
      BY <3>1
    <3> QED
      BY <2>3, <3>1, <3>2, <3>3
  <2>5. Len(new) = n /\ \A i \in 1..n : new[i] = line[i]
    <3> HIDE DEF n, new
    <3> QED
      BY <1>2, <2>4 DEF n
  <2>6. DOMAIN new = 1..(Len(line) - 1)
    BY <1>2, <2>1, SubSeqProperties
  <2> QED
    BY <2>1, <2>5, <2>6
<1>3. CASE /\ new = Append(line, ev.ascii)
           /\ ~(ev.released \/ ev.keycode # "ASCII")
  <2>1. ev.ascii \in Ascii
    BY DEF Event
  <2>2. /\ Len(new) = Len(line) + 1
        /\ DOMAIN new = 1..(Len(line) + 1)
        /\ \A i \in 1..Len(line) : new[i] = line[i]
        /\ new[Len(line) + 1] = ev.ascii
    BY <1>3, <2>1
  <2> QED
    BY <1>3, <2>2 DEF EndsLine
<1>4. new = line \/ (line # <<>> /\ new = SubSeq(line, 1, Len(line) - 1))
      \/ (new = Append(line, ev.ascii) /\ ~(ev.released \/ ev.keycode # "ASCII"))
  BY DEF Edited, IsText
<1> QED
  BY <1>1, <1>2, <1>3, <1>4

LEMMA InitLineInv == Init => LineInv
BY ConsoleAssumption DEF Init, KeyboardInit, LineInv

LEMMA NextLineInv == TypeOK /\ LineInv /\ [Next]_vars => LineInv'
<1> SUFFICES ASSUME TypeOK, LineInv, [Next]_vars PROVE LineInv'
  OBVIOUS
<1>0. ASSUME UNCHANGED consoleVars,
             op' = "sys_read" /\ rpc' # "idle" => op = "sys_read" /\ rpc # "idle"
      PROVE  LineInv'
  BY <1>0 DEF LineInv, consoleVars
<1>1. CASE KeyboardNext /\ UNCHANGED consoleVars
  <2>1. CASE Interrupt
    <3>1. UNCHANGED <<rpc, op>>
      BY <2>1 DEF Interrupt, HandlePrefix, HandleModifier, HandleKey, TimerTick,
                  TakeByte, readerVars
    <3> QED
      BY <1>0, <1>1, <3>1
  <2>2. CASE Reader
    <3>1. UNCHANGED op /\ rpc # "idle"
      BY <2>2 DEF Reader, TestHasEvent, Hlt, GetTest, GetCopy, GetAdvance, FinishRead,
                  ReaderStep
    <3> QED
      BY <1>0, <1>1, <3>1
  <2>3. ASSUME NEW k \in PhysKey, Press(k) \/ Release(k)
        PROVE  LineInv'
    BY <1>0, <1>1, <2>3 DEF Press, Release, readerVars
  <2>4. ASSUME NEW caller \in {"poll", "wait", "getchar"}, StartRead(caller)
        PROVE  LineInv'
    BY <1>0, <1>1, <2>4 DEF StartRead
  <2> QED
    BY <1>1, <2>1, <2>2, <2>3, <2>4 DEF KeyboardNext
<1>2. ASSUME NEW len \in ReadLen, SysRead(len)
      PROVE  LineInv'
  <2>1. len \in Nat /\ KBUF \in Nat \ {0}
    BY ConsoleAssumption
  <2>2. len # 0 => room' \in 0..KBUF /\ 0 < room'
    BY <1>2, <2>1 DEF SysRead, Smaller
  <2>3. kbuf' = <<>> /\ (ret' = ret \/ ret' = <<>>) /\ (len = 0 => rpc' = "idle")
    BY <1>2 DEF SysRead, ReaderStep
  <2> QED
    BY <2>1, <2>2, <2>3 DEF LineInv
<1>3. CASE EnterGate
  BY <1>0, <1>3 DEF EnterGate
<1>4. CASE ConsumeEvent
  <2> DEFINE line == Edited(kbuf, last)
             done == EndsLine(last) \/ Len(line) >= room
  <2>1. op = "sys_read" /\ op' = op /\ rpc = "got"
    BY <1>4 DEF ConsumeEvent
  <2>2. /\ kbuf \in Seq(Ascii) /\ last \in Event
        /\ room \in 0..KBUF /\ Len(kbuf) < room
        /\ \A i \in DOMAIN kbuf : kbuf[i] # "newline"
    BY <2>1 DEF TypeOK, LineInv
  <2>3. /\ Len(line) <= Len(kbuf) + 1
        /\ \A i \in DOMAIN line : line[i] = "newline" => EndsLine(last) /\ i = Len(line)
    BY <2>2, EditedLine
  <2>4. line \in Seq(Ascii) /\ Len(line) \in Nat /\ KBUF \in Nat
    BY <2>2, EditedType, ConsoleAssumption
  <2>5. CASE done
    <3>1. rpc' = "idle" /\ ret' = line
      BY <1>4, <2>5 DEF ConsumeEvent
    <3> QED
      BY <2>2, <2>3, <2>4, <3>1 DEF LineInv
  <2>6. CASE ~done
    <3>1. kbuf' = line /\ room' = room /\ ret' = ret
      BY <1>4, <2>6 DEF ConsumeEvent
    <3>2. Len(line) < room /\ \A i \in DOMAIN line : line[i] # "newline"
      BY <2>2, <2>3, <2>4, <2>6
    <3> QED
      BY <2>2, <3>1, <3>2 DEF LineInv
  <2> QED
    BY <2>5, <2>6
<1>5. CASE UNCHANGED vars
  BY <1>0, <1>5 DEF vars, keyboardVars, readerVars
<1> QED
  BY <1>1, <1>2, <1>3, <1>4, <1>5 DEF Next

\* syscall.c:71-105.  Whatever is typed and edited, a line has room in the
\* application's buffer and in kbuf, and a newline is its last character.
THEOREM LineAlwaysFits == Spec => []LineFits
<1>1. TypeOK /\ [Next]_vars => TypeOK'
  BY NextType
<1>2. LineInv => LineFits
  BY DEF LineInv, LineFits
<1> QED
  BY <1>1, <1>2, InitType, InitLineInv, NextLineInv, PTL DEF Spec

------------------------------------------------------------------------------
\* Modifier flags.

ShiftKeys == {"LShift", "RShift"}
CtrlKeys == {"LCtrl", "RCtrl"}
AltKeys == {"LAlt", "RAlt"}
ShiftCodes == {"shift_l", "shift_r"}
PrefixedCodes == {"ctrl", "alt", "nav"}

\* The bytes w under way will leave a flag off that now is h, C being the codes
\* that set it: the last of them is a release, or there is none and h is off.
Settled(w, C, h) ==
  \/ ~h /\ \A i \in 1..Len(w) : w[i].code \notin C
  \/ \E i \in 1..Len(w) : /\ w[i].code \in C /\ w[i].up
                          /\ \A j \in 1..Len(w) : j > i => w[j].code \notin C

\* A prefix is followed by a byte of a key that sends it, also when the handler
\* has already taken the prefix (x).
Prefixed(w, x) ==
  /\ \A i \in 1..Len(w) : w[i].code = "E0" =>
       i + 1 \in 1..Len(w) /\ w[i + 1].code \in PrefixedCodes
  /\ x => 1 \in 1..Len(w) /\ w[1].code \in PrefixedCodes

ModInv ==
  /\ Prefixed(wire, extended)
  /\ down \cap ShiftKeys = {} => Settled(wire, ShiftCodes, shift_held)
  /\ down \cap CtrlKeys = {} => Settled(wire, {"ctrl"}, ctrl_held)
  /\ down \cap AltKeys = {} => Settled(wire, {"alt"}, alt_held)

\* The handler takes the first byte; g is the flag it leaves.
LEMMA SettledTail ==
  ASSUME NEW w \in Seq(Byte), w # <<>>, NEW C, NEW h \in BOOLEAN, NEW g \in BOOLEAN,
         Settled(w, C, h),
         w[1].code \in C => g = ~w[1].up,
         w[1].code \notin C => g = h
  PROVE  Settled(Tail(w), C, g)
<1> DEFINE v == Tail(w)
<1>1. /\ Len(w) \in Nat /\ Len(w) >= 1
      /\ Len(v) = Len(w) - 1
      /\ \A i \in 1..Len(v) : v[i] = w[i + 1]
  OBVIOUS
<1> HIDE DEF v
<1>2. CASE ~h /\ \A i \in 1..Len(w) : w[i].code \notin C
  BY <1>1, <1>2 DEF Settled, v
<1>3. CASE \E i \in 1..Len(w) : /\ w[i].code \in C /\ w[i].up
                                /\ \A j \in 1..Len(w) : j > i => w[j].code \notin C
  <2>1. PICK i \in 1..Len(w) : /\ w[i].code \in C /\ w[i].up
                               /\ \A j \in 1..Len(w) : j > i => w[j].code \notin C
    BY <1>3
  <2>2. CASE i = 1
    <3>1. ~g
      BY <2>1, <2>2
    <3>2. \A j \in 1..Len(v) : v[j].code \notin C
      BY <1>1, <2>1, <2>2
    <3> QED
      BY <3>1, <3>2 DEF Settled, v
  <2>3. CASE i # 1
    <3>1. i - 1 \in 1..Len(v) /\ v[i - 1] = w[i]
      BY <1>1, <2>3
    <3>2. \A j \in 1..Len(v) : j > i - 1 => v[j].code \notin C
      BY <1>1, <2>1
    <3> QED
      BY <2>1, <3>1, <3>2 DEF Settled, v
  <2> QED
    BY <2>2, <2>3
<1> QED
  BY <1>2, <1>3 DEF Settled

LEMMA PrefixedTail ==
  ASSUME NEW w \in Seq(Byte), w # <<>>, NEW x, NEW y \in BOOLEAN,
         Prefixed(w, x), y => w[1].code = "E0"
  PROVE  Prefixed(Tail(w), y)
<1> DEFINE v == Tail(w)
<1>1. /\ Len(w) \in Nat /\ Len(w) >= 1
      /\ Len(v) = Len(w) - 1
      /\ \A i \in 1..Len(v) : v[i] = w[i + 1]
  OBVIOUS
<1> HIDE DEF v
<1>2. ASSUME NEW i \in 1..Len(v), v[i].code = "E0"
      PROVE  i + 1 \in 1..Len(v) /\ v[i + 1].code \in PrefixedCodes
  BY <1>1, <1>2 DEF Prefixed
<1>3. y => 1 \in 1..Len(v) /\ v[1].code \in PrefixedCodes
  BY <1>1 DEF Prefixed
<1> QED
  BY <1>2, <1>3 DEF Prefixed, v

\* What a key sends, at the end of what is under way.
LEMMA WireAppend ==
  ASSUME NEW w \in Seq(Byte), NEW k, NEW up \in BOOLEAN
  PROVE  LET v == w \o Scancodes(k, up)
         IN  /\ Len(v) \in Nat /\ Len(v) \in {Len(w) + 1, Len(w) + 2}
             /\ \A i \in 1..Len(w) : v[i] = w[i]
             /\ v[Len(v)] = [code |-> CodeOf(k), up |-> up]
             /\ Len(v) = Len(w) + 2 =>
                  v[Len(w) + 1].code = "E0" /\ CodeOf(k) \in PrefixedCodes
<1> DEFINE b == [code |-> CodeOf(k), up |-> up]
           e == [code |-> "E0", up |-> FALSE]
           s == Scancodes(k, up)
           v == w \o s
<1>1. s \in Seq(Byte)
  BY ScancodesType
<1>2. /\ Len(v) = Len(w) + Len(s)
      /\ \A i \in 1..Len(w) : v[i] = w[i]
      /\ \A i \in 1..Len(s) : v[Len(w) + i] = s[i]
  <2> HIDE DEF s
  <2>1. \A i \in 1..(Len(w) + Len(s)) :
          v[i] = IF i <= Len(w) THEN w[i] ELSE s[i - Len(w)]
    BY <1>1
  <2>2. Len(w) \in Nat /\ Len(s) \in Nat /\ Len(v) = Len(w) + Len(s)
    BY <1>1
  <2>3. \A i \in 1..Len(s) :
          Len(w) + i \in 1..(Len(w) + Len(s)) /\ ~(Len(w) + i <= Len(w)) /\ Len(w) + i - Len(w) = i
    BY <2>2
  <2>4. \A i \in 1..Len(w) : i \in 1..(Len(w) + Len(s)) /\ i <= Len(w)
    BY <2>2
  <2> QED
    BY <2>1, <2>2, <2>3, <2>4
<1>3. Len(w) \in Nat
  OBVIOUS
<1>4. CASE Extended(k)
  <2>1. s = <<e, b>>
    BY <1>4 DEF Scancodes
  <2>2. Len(s) = 2 /\ s[1] = e /\ s[2] = b
    BY <2>1
  <2>3. e.code = "E0" /\ CodeOf(k) \in PrefixedCodes
    BY <1>4 DEF Extended, CodeOf, PrefixedCodes
  <2> HIDE DEF s, e, b
  <2>4. v[Len(w) + 1] = e /\ v[Len(w) + 2] = b /\ Len(v) = Len(w) + 2
    BY <1>2, <2>2
  <2> HIDE DEF v
  <2> QED
    BY <1>2, <1>3, <2>3, <2>4 DEF v, s, b
<1>5. CASE ~Extended(k)
  <2>1. s = <<b>>
    BY <1>5 DEF Scancodes
  <2>2. Len(s) = 1 /\ s[1] = b
    BY <2>1
  <2> HIDE DEF s, e, b
  <2>3. v[Len(w) + 1] = b /\ Len(v) = Len(w) + 1
    BY <1>2, <2>2
  <2> HIDE DEF v
  <2> QED
    BY <1>2, <1>3, <2>3 DEF v, s, b
<1> QED
  BY <1>4, <1>5

LEMMA SettledKept ==
  ASSUME NEW w \in Seq(Byte), NEW k, NEW up \in BOOLEAN, NEW C, NEW h,
         Settled(w, C, h), CodeOf(k) \notin C, "E0" \notin C
  PROVE  Settled(w \o Scancodes(k, up), C, h)
<1> DEFINE v == w \o Scancodes(k, up)
<1>1. /\ Len(v) \in Nat /\ Len(v) \in {Len(w) + 1, Len(w) + 2}
      /\ \A i \in 1..Len(w) : v[i] = w[i]
      /\ v[Len(v)] = [code |-> CodeOf(k), up |-> up]
      /\ Len(v) = Len(w) + 2 => v[Len(w) + 1].code = "E0"
  BY WireAppend
<1>2. Len(w) \in Nat
  OBVIOUS
<1> HIDE DEF v
<1>3. v[Len(v)].code \notin C
  BY <1>1
<1>4. \A i \in 1..Len(v) : i \in 1..Len(w) \/ v[i].code \notin C
  BY <1>1, <1>2, <1>3
<1>5. 1..Len(w) \subseteq 1..Len(v)
  BY <1>1, <1>2
<1>6. CASE ~h /\ \A i \in 1..Len(w) : w[i].code \notin C
  BY <1>1, <1>4, <1>6 DEF Settled, v
<1>7. CASE \E i \in 1..Len(w) : /\ w[i].code \in C /\ w[i].up
                                /\ \A j \in 1..Len(w) : j > i => w[j].code \notin C
  <2>1. PICK i \in 1..Len(w) : /\ w[i].code \in C /\ w[i].up
                               /\ \A j \in 1..Len(w) : j > i => w[j].code \notin C
    BY <1>7
  <2>2. i \in 1..Len(v) /\ v[i] = w[i]
    BY <1>1, <1>5
  <2>3. \A j \in 1..Len(v) : j > i => v[j].code \notin C
    BY <1>1, <1>4, <2>1
  <2> QED
    BY <2>1, <2>2, <2>3 DEF Settled, v
<1> QED
  BY <1>6, <1>7 DEF Settled

LEMMA SettledRelease ==
  ASSUME NEW w \in Seq(Byte), NEW k, NEW C, NEW h, CodeOf(k) \in C
  PROVE  Settled(w \o Scancodes(k, TRUE), C, h)
<1> DEFINE v == w \o Scancodes(k, TRUE)
<1>1. /\ Len(v) \in Nat /\ Len(v) \in {Len(w) + 1, Len(w) + 2}
      /\ v[Len(v)] = [code |-> CodeOf(k), up |-> TRUE]
  BY WireAppend
<1>2. Len(w) \in Nat
  OBVIOUS
<1> HIDE DEF v
<1>3. Len(v) \in 1..Len(v) /\ \A j \in 1..Len(v) : ~(j > Len(v))
  BY <1>1, <1>2
<1>4. v[Len(v)].code \in C /\ v[Len(v)].up
  BY <1>1
<1> QED
  BY <1>3, <1>4 DEF Settled, v

LEMMA PrefixedAppend ==
  ASSUME NEW w \in Seq(Byte), NEW k, NEW up \in BOOLEAN, NEW x, Prefixed(w, x)
  PROVE  Prefixed(w \o Scancodes(k, up), x)
<1> DEFINE v == w \o Scancodes(k, up)
<1>1. /\ Len(v) \in Nat /\ Len(v) \in {Len(w) + 1, Len(w) + 2}
      /\ \A i \in 1..Len(w) : v[i] = w[i]
      /\ v[Len(v)] = [code |-> CodeOf(k), up |-> up]
      /\ Len(v) = Len(w) + 2 =>
           v[Len(w) + 1].code = "E0" /\ CodeOf(k) \in PrefixedCodes
  BY WireAppend
<1>2. Len(w) \in Nat /\ CodeOf(k) # "E0"
  BY DEF CodeOf
<1> HIDE DEF v
<1>3. v[Len(v)].code = CodeOf(k)
  BY <1>1
<1>4. ASSUME NEW i \in 1..Len(v), v[i].code = "E0"
      PROVE  i + 1 \in 1..Len(v) /\ v[i + 1].code \in PrefixedCodes
  <2>1. CASE i \in 1..Len(w)
    <3>1. i + 1 \in 1..Len(w) /\ w[i + 1].code \in PrefixedCodes
      BY <1>1, <1>4, <2>1 DEF Prefixed
    <3> QED
      BY <1>1, <1>2, <3>1
  <2>2. CASE i \notin 1..Len(w)
    <3>1. i # Len(v)
      BY <1>2, <1>3, <1>4
    <3>2. i = Len(w) + 1 /\ Len(v) = i + 1
      BY <1>1, <1>2, <2>2, <3>1
    <3> QED
      BY <1>1, <1>3, <3>2
  <2> QED
    BY <2>1, <2>2
<1>5. x => 1 \in 1..Len(v) /\ v[1].code \in PrefixedCodes
  BY <1>1, <1>2 DEF Prefixed
<1> QED
  BY <1>4, <1>5 DEF Prefixed, v

\* One modifier: K its keys, C the codes they send, h its flag before a key
\* goes down or up.
LEMMA KeyStep ==
  ASSUME NEW w \in Seq(Byte), NEW k, NEW up \in BOOLEAN, NEW K, NEW C, NEW h, NEW d,
         NEW e, e = IF up THEN d \ {k} ELSE d \cup {k},
         k \in K <=> CodeOf(k) \in C, "E0" \notin C,
         d \cap K = {} => Settled(w, C, h),
         e \cap K = {}
  PROVE  Settled(w \o Scancodes(k, up), C, h)
<1>1. CASE k \in K
  <2>1. up = TRUE
    BY <1>1
  <2> QED
    BY <1>1, <2>1, SettledRelease
<1>2. CASE k \notin K
  <2>1. d \cap K = {}
    BY <1>2
  <2> QED
    BY <1>2, <2>1, SettledKept
<1> QED
  BY <1>1, <1>2

LEMMA ModInvKey ==
  ASSUME TypeOK, ModInv, NEW k, NEW up \in BOOLEAN,
         down' = IF up THEN down \ {k} ELSE down \cup {k},
         wire' = wire \o Scancodes(k, up), UNCHANGED <<modVars, extended>>
  PROVE  ModInv'
<1>1. /\ k \in ShiftKeys <=> CodeOf(k) \in ShiftCodes
      /\ k \in CtrlKeys <=> CodeOf(k) \in {"ctrl"}
      /\ k \in AltKeys <=> CodeOf(k) \in {"alt"}
  BY DEF CodeOf, ShiftKeys, CtrlKeys, AltKeys, ShiftCodes
<1>2. wire \in Seq(Byte)
  BY DEF TypeOK
<1>3. "E0" \notin ShiftCodes /\ "E0" \notin {"ctrl"} /\ "E0" \notin {"alt"}
  BY DEF ShiftCodes
<1>4. Prefixed(wire', extended')
  BY <1>2, PrefixedAppend DEF ModInv
<1>5. down' \cap ShiftKeys = {} => Settled(wire', ShiftCodes, shift_held')
  BY <1>1, <1>2, <1>3, KeyStep DEF ModInv, modVars
<1>6. down' \cap CtrlKeys = {} => Settled(wire', {"ctrl"}, ctrl_held')
  BY <1>1, <1>2, <1>3, KeyStep DEF ModInv, modVars
<1>7. down' \cap AltKeys = {} => Settled(wire', {"alt"}, alt_held')
  BY <1>1, <1>2, <1>3, KeyStep DEF ModInv, modVars
<1> QED
  BY <1>4, <1>5, <1>6, <1>7 DEF ModInv

LEMMA ModInvByte ==
  ASSUME TypeOK, ModInv, HandlePrefix \/ HandleModifier \/ HandleKey
  PROVE  ModInv'
<1> DEFINE b == Head(wire)
<1>1. /\ wire \in Seq(Byte) /\ wire # <<>> /\ wire' = Tail(wire) /\ down' = down
      /\ b = wire[1] /\ b \in Byte
  BY DEF HandlePrefix, HandleModifier, HandleKey, TakeByte, TypeOK
<1>2. b.up \in BOOLEAN /\ b.code = wire[1].code /\ b.up = wire[1].up
  BY <1>1 DEF Byte
<1>3. extended => b.code \in PrefixedCodes
  BY <1>1 DEF ModInv, Prefixed
<1> HIDE DEF b
<1>4. extended' \in BOOLEAN /\ (extended' => b.code = "E0")
  BY DEF HandlePrefix, HandleModifier, HandleKey, b
<1>5. /\ b.code \in ShiftCodes => shift_held' = ~b.up
      /\ b.code \notin ShiftCodes => shift_held' = shift_held
      /\ b.code \in {"ctrl"} => ctrl_held' = ~b.up
      /\ b.code \notin {"ctrl"} => ctrl_held' = ctrl_held
      /\ b.code \in {"alt"} => alt_held' = ~b.up
      /\ b.code \notin {"alt"} => alt_held' = alt_held
  <2>1. CASE HandlePrefix
    BY <2>1 DEF HandlePrefix, modVars, b, ShiftCodes
  <2>2. CASE HandleModifier
    BY <1>2, <2>2 DEF HandleModifier, b, ShiftCodes
  <2>3. CASE HandleKey
    BY <1>3, <2>3 DEF HandleKey, IsModifier, modVars, b, ShiftCodes, PrefixedCodes
  <2> QED
    BY <2>1, <2>2, <2>3
<1>6. /\ shift_held \in BOOLEAN /\ ctrl_held \in BOOLEAN /\ alt_held \in BOOLEAN
      /\ shift_held' \in BOOLEAN /\ ctrl_held' \in BOOLEAN /\ alt_held' \in BOOLEAN
  BY <1>2, <1>5 DEF TypeOK
<1>7. Prefixed(wire', extended')
  BY <1>1, <1>2, <1>4, PrefixedTail DEF ModInv
<1>8. down' \cap ShiftKeys = {} => Settled(wire', ShiftCodes, shift_held')
  BY <1>1, <1>2, <1>5, <1>6, SettledTail DEF ModInv
<1>9. down' \cap CtrlKeys = {} => Settled(wire', {"ctrl"}, ctrl_held')
  BY <1>1, <1>2, <1>5, <1>6, SettledTail DEF ModInv
<1>10. down' \cap AltKeys = {} => Settled(wire', {"alt"}, alt_held')
  BY <1>1, <1>2, <1>5, <1>6, SettledTail DEF ModInv
<1> QED
  BY <1>7, <1>8, <1>9, <1>10 DEF ModInv

LEMMA InitModInv == Init => ModInv
<1> SUFFICES ASSUME Init PROVE ModInv
  OBVIOUS
<1>1. Len(wire) = 0 /\ 1..0 = {} /\ ~extended
  BY DEF Init, KeyboardInit
<1>2. ~shift_held /\ ~ctrl_held /\ ~alt_held
  BY DEF Init, KeyboardInit
<1> QED
  BY <1>1, <1>2 DEF ModInv, Prefixed, Settled

LEMMA NextModInv == TypeOK /\ ModInv /\ [Next]_vars => ModInv'
<1> SUFFICES ASSUME TypeOK, ModInv, [Next]_vars PROVE ModInv'
  OBVIOUS
<1>0. ASSUME UNCHANGED <<down, wire, modVars, extended>>
      PROVE  ModInv'
  BY <1>0 DEF ModInv, modVars
<1>1. ASSUME NEW k \in PhysKey, Press(k)
      PROVE  ModInv'
  <2>1. down' = down \cup {k} /\ wire' = wire \o Scancodes(k, FALSE)
        /\ UNCHANGED <<modVars, extended>>
    BY <1>1 DEF Press
  <2> QED
    BY <2>1, ModInvKey
<1>2. ASSUME NEW k \in PhysKey, Release(k)
      PROVE  ModInv'
  <2>1. down' = down \ {k} /\ wire' = wire \o Scancodes(k, TRUE)
        /\ UNCHANGED <<modVars, extended>>
    BY <1>2 DEF Release
  <2> QED
    BY <2>1, ModInvKey
<1>3. CASE HandlePrefix \/ HandleModifier \/ HandleKey
  BY <1>3, ModInvByte
<1>4. CASE TimerTick \/ Reader
  BY <1>0, <1>4 DEF TimerTick, Reader, TestHasEvent, Hlt, GetTest, GetCopy, GetAdvance,
     FinishRead, ReaderStep, kbdVars
<1>5. ASSUME NEW caller \in {"poll", "wait", "getchar"}, StartRead(caller)
      PROVE  ModInv'
  BY <1>0, <1>5 DEF StartRead, ReaderStep, kbdVars
<1>6. ASSUME NEW len \in ReadLen, SysRead(len)
      PROVE  ModInv'
  BY <1>0, <1>6 DEF SysRead, ReaderStep, kbdVars
<1>7. CASE EnterGate \/ ConsumeEvent
  BY <1>0, <1>7 DEF EnterGate, ConsumeEvent, kbdVars
<1>8. CASE UNCHANGED vars
  BY <1>0, <1>8 DEF vars, keyboardVars, kbdVars
<1> QED
  BY <1>1, <1>2, <1>3, <1>4, <1>5, <1>6, <1>7, <1>8
     DEF Next, KeyboardNext, Interrupt

\* keyboard.c:92-105.  Whatever is typed on whatever keys, with both keys of a
\* modifier in any order and prefixes in between: when every byte is handled
\* and the keys of a modifier are up, the modifier is off.
THEOREM ModifiersAlwaysFollow == Spec => []ModifiersFollowKeys
<1>1. TypeOK /\ [Next]_vars => TypeOK'
  BY NextType
<1>2. TypeOK /\ ModInv => ModifiersFollowKeys
  <2> SUFFICES ASSUME TypeOK, ModInv, wire = <<>>
               PROVE  /\ extended = FALSE
                      /\ down \cap ShiftKeys = {} => ~shift_held
                      /\ down \cap CtrlKeys = {} => ~ctrl_held
                      /\ down \cap AltKeys = {} => ~alt_held
    BY DEF ModifiersFollowKeys, ShiftKeys, CtrlKeys, AltKeys
  <2>1. 1..Len(wire) = {}
    OBVIOUS
  <2> QED
    BY <2>1 DEF ModInv, Prefixed, Settled, TypeOK
<1> QED
  BY <1>1, <1>2, InitType, InitModInv, NextModInv, PTL DEF Spec

==============================================================================
