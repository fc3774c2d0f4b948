----------------------------- MODULE ConsoleRead -----------------------------
(***************************************************************************)
(* read(0, buf, len) of an application: int 0x80 through the gate that     *)
(* idt_init installs, the line discipline of sys_read_impl on top of the   *)
(* keyboard driver, and the return to the application.  Between two system *)
(* calls the CPU runs other readers of the same driver.                    *)
(***************************************************************************)
EXTENDS Keyboard

CONSTANTS
  KBUF,         \* sizeof(kbuf): 512 in the source
  ReadLen       \* lengths the application asks for

ASSUME ConsoleAssumption == KBUF \in Nat \ {0} /\ ReadLen \subseteq Nat

VARIABLES
  kbuf,    \* the characters of the line so far
  room,    \* max = min(len, sizeof kbuf)
  ret      \* what the latest read() answered, <<>> before the first

consoleVars == <<kbuf, room, ret>>
vars == <<keyboardVars, consoleVars>>

\* Mutant: the clamp to the kernel's buffer the wrong way round.
Larger(m, n) == IF m < n THEN n ELSE m

Smaller(m, n) == IF m < n THEN m ELSE n

\* Mutant: an interrupt gate, which clears IF.
GateIFInterrupt(flag) == FALSE

\* The IF that a handler entered through gate 0xEF runs with: a trap gate
\* leaves it alone.
GateIF(flag) == flag

\* len = 0 answers 0 at once.
SysRead(len) ==
  /\ ReaderStep("idle", IF len = 0 THEN "idle" ELSE "syscall")
  /\ op' = "sys_read"
  /\ kbuf' = <<>>
  /\ room' = Smaller(len, KBUF)
  /\ ret' = IF len = 0 THEN <<>> ELSE ret
  /\ UNCHANGED <<ringVars, slot, last, halted>>

\* The int instruction.
EnterGate ==
  /\ rpc = "syscall"
  /\ rpc' = "test"
  /\ intr' = GateIF(intr)
  /\ UNCHANGED <<kbdVars, ringVars, modVars, extended, offered, op, slot, last, halted, consoleVars>>

IsText(ev) == ev.ascii \in {"lower", "upper"}

\* What one event does to the line: c == '\r' counts as a newline.
Edited(line, ev) ==
  IF ev.released \/ ev.keycode # "ASCII" THEN line
  ELSE CASE ev.ascii = "backspace" /\ line # <<>> -> SubSeq(line, 1, Len(line) - 1)
         [] ev.ascii = "newline" \/ IsText(ev) -> Append(line, ev.ascii)
         [] OTHER -> line

EndsLine(ev) == ~ev.released /\ ev.keycode = "ASCII" /\ ev.ascii = "newline"

\* One turn of the loop after keyboard_wait_event: the call goes on waiting,
\* or copies the line out and returns through iret.
ConsumeEvent ==
  LET line == Edited(kbuf, last)
      done == EndsLine(last) \/ Len(line) >= room
  IN  /\ op = "sys_read"
      /\ rpc = "got"
      /\ rpc' = IF done THEN "idle" ELSE "test"
      /\ kbuf' = IF done THEN <<>> ELSE line
      /\ room' = IF done THEN 0 ELSE room
      /\ ret' = IF done THEN line ELSE ret
      /\ intr' = IF done THEN TRUE ELSE intr
      /\ UNCHANGED <<kbdVars, ringVars, modVars, extended, offered, op, slot, last, halted>>

------------------------------------------------------------------------------
Init ==
  /\ KeyboardInit
  /\ kbuf = <<>> /\ room = 0 /\ ret = <<>>

Next ==
  \/ KeyboardNext /\ UNCHANGED consoleVars
  \/ \E len \in ReadLen : SysRead(len)
  \/ EnterGate
  \/ ConsumeEvent

Spec == Init /\ [][Next]_vars

\* IRQ1 and IRQ0 are unmasked in keyboard_init and pit_init and the CPU runs:
\* a pending interrupt is taken, the timer ticks, code that can run runs.
\* The user and the choice of the next call are not fair.
Fairness ==
  /\ WF_vars((HandlePrefix \/ HandleModifier \/ HandleKey) /\ UNCHANGED consoleVars)
  /\ WF_vars(TimerTick /\ UNCHANGED consoleVars)
  /\ WF_vars(Reader /\ UNCHANGED consoleVars)
  /\ WF_vars(EnterGate)
  /\ WF_vars(ConsumeEvent)

FairSpec == Spec /\ Fairness


------------------------------------------------------------------------------
\* Properties.

TypeOK ==
  /\ down \subseteq PhysKey /\ strokes \in 0..MAX_STROKES /\ wire \in Seq(Byte)
  /\ key_buf \in [0..(KEY_BUF_SIZE - 1) -> Event]
  /\ key_head \in 0..(KEY_BUF_SIZE - 1) /\ key_tail \in 0..(KEY_BUF_SIZE - 1)
  /\ shift_held \in BOOLEAN /\ ctrl_held \in BOOLEAN /\ alt_held \in BOOLEAN
  /\ caps_lock \in BOOLEAN /\ extended \in BOOLEAN /\ offered \in {0, 1}
  /\ intr \in BOOLEAN /\ halted \in BOOLEAN
  /\ rpc \in {"idle", "syscall", "test", "hlt", "get", "copy", "advance", "got"}
  /\ op \in {"poll", "wait", "getchar", "sys_read"}
  /\ slot \in Event /\ last \in Event
  /\ kbuf \in Seq(Ascii) /\ room \in Nat /\ ret \in Seq(Ascii)

\* keyboard.c:149-161.  The ring as the queue it stands for: the slots from
\* key_tail up to key_head, cyclically.
Occupied ==
  IF key_head >= key_tail THEN key_head - key_tail
  ELSE key_head + KEY_BUF_SIZE - key_tail

SlotAt(i) ==
  IF key_tail + i < KEY_BUF_SIZE THEN key_tail + i ELSE key_tail + i - KEY_BUF_SIZE

Queued == [i \in 1..Occupied |-> key_buf[SlotAt(i - 1)]]

Fifo == INSTANCE KeyFifo
          WITH Capacity <- KEY_BUF_SIZE - 1, queue <- Queued, offer <- offered

\* With the handler running between any two accesses of the reader, events are
\* still delivered once, unaltered and in order, and an event the handler means
\* to queue is dropped only while KEY_BUF_SIZE - 1 are waiting.
RingIsFifo == Fifo!FifoSpec

\* keyboard_wait_event and keyboard_getchar never answer the empty event: what
\* keyboard_has_event saw cannot be gone when keyboard_get_event looks again.
ReaderNeverEmptyHanded == rpc \in {"copy", "advance"} \/ rpc = "get" => has_event

\* keyboard.c:92-105.  Once every key of a modifier is up and its bytes have
\* been handled, the modifier is off, whatever was typed meanwhile, with or
\* without E0 prefixes, and even when events were dropped.
ModifiersFollowKeys ==
  wire = <<>> =>
    /\ extended = FALSE
    /\ down \cap {"LShift", "RShift"} = {} => ~shift_held
    /\ down \cap {"LCtrl", "RCtrl"} = {} => ~ctrl_held
    /\ down \cap {"LAlt", "RAlt"} = {} => ~alt_held

\* syscall.c:71-105.  A line never outgrows the application's buffer or kbuf,
\* and a newline in it is its last character.
LineFits ==
  /\ op = "sys_read" /\ rpc # "idle" => Len(kbuf) < room
  /\ Len(ret) <= KBUF
  /\ \A i \in DOMAIN ret : ret[i] = "newline" => i = Len(ret)

Reading == op = "sys_read" /\ rpc # "idle"

EnterQueued ==
  \E i \in DOMAIN Queued : Queued[i].ascii = "newline" /\ ~Queued[i].released

\* keyboard.c:175-179.  The test and the hlt are not atomic: a key that arrives
\* between them finds nobody to wake, yet an Enter in the queue ends the read.
EnterEndsRead == (Reading /\ EnterQueued) ~> ~Reading

\* idt.c:58-62.  A blocking read keeps interrupts on, so that the keys it waits
\* for can arrive.
KeysArrive == (wire # <<>>) ~> (wire = <<>>)

==============================================================================
