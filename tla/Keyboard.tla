------------------------------ MODULE Keyboard -------------------------------
(***************************************************************************)
(* The PS/2 keyboard driver, kernel/drivers/keyboard/keyboard.c, together  *)
(* with what it runs against: the keyboard controller that raises IRQ1,    *)
(* the timer that raises IRQ0, and the one reader the kernel runs, which   *)
(* the handler interrupts between any two of its memory accesses.          *)
(*                                                                         *)
(* An IRQ handler is one atomic action: its gate (0x8E, idt.c:55) clears   *)
(* IF until iret, so nothing interleaves with it on the single CPU.  The   *)
(* reader is split wherever it touches key_head, key_tail or key_buf.      *)
(*                                                                         *)
(* Scancodes are abstracted to one code per behaviour of the handler's     *)
(* switch; a byte is a code and its release bit (0x80).                    *)
(***************************************************************************)
EXTENDS Naturals, Sequences

CONSTANTS
  KEY_BUF_SIZE,   \* slots of the ring; the source has 256
  PhysKey,        \* the keys of the attached keyboard that the user works
  MAX_STROKES     \* bound: presses and releases the user makes

ASSUME KeyBufAssumption == KEY_BUF_SIZE \in Nat /\ KEY_BUF_SIZE >= 2
ASSUME StrokesAssumption == MAX_STROKES \in Nat

VARIABLES
  down, strokes, wire,                                \* the keyboard itself
  key_buf, key_head, key_tail,                        \* the event ring
  shift_held, ctrl_held, alt_held, caps_lock, extended,  \* decoder state
  offered,                 \* history: flips with every event meant for the ring
  rpc, op, slot, last,   \* reader: where it stands, its caller, ev, its result
  intr, halted           \* CPU: EFLAGS.IF, stopped in hlt

kbdVars == <<down, strokes, wire>>
ringVars == <<key_buf, key_head, key_tail>>
modVars == <<shift_held, ctrl_held, alt_held, caps_lock>>
readerVars == <<rpc, op, slot, last>>
cpuVars == <<intr, halted>>
keyboardVars == <<kbdVars, ringVars, modVars, extended, offered, readerVars, cpuVars>>

------------------------------------------------------------------------------
\* Scancodes and events.

\* keyboard.c:24-68 and the cases of the switch, one code per behaviour.  The
\* letters H, and J and M, are apart for what Ctrl makes of them: 8, 10 and 13.
Code == {"E0", "shift_l", "shift_r", "ctrl", "alt", "caps", "fkey", "nav",
         "letter", "h", "jm", "enter", "bksp"}

Byte == [code : Code, up : BOOLEAN]

\* The keys that send an E0 prefix, and the code each key sends.
Extended(k) == k \in {"RCtrl", "RAlt", "Up"}

CodeOf(k) ==
  CASE k = "LShift" -> "shift_l"
    [] k = "RShift" -> "shift_r"
    [] k \in {"LCtrl", "RCtrl"} -> "ctrl"
    [] k \in {"LAlt", "RAlt"} -> "alt"
    [] k = "Caps" -> "caps"
    [] k = "F1" -> "fkey"
    [] k \in {"Up", "Keypad8"} -> "nav"
    [] k = "Enter" -> "enter"
    [] k = "Backspace" -> "bksp"
    [] k = "H" -> "h"
    [] k \in {"J", "M"} -> "jm"
    [] OTHER -> "letter"

Scancodes(k, up) ==
  LET b == [code |-> CodeOf(k), up |-> up]
  IN  IF Extended(k) THEN <<[code |-> "E0", up |-> FALSE], b>> ELSE <<b>>

Keycode == {"UNKNOWN", "ASCII", "NAV", "FKEY"}
Ascii == {"NUL", "lower", "upper", "control", "newline", "backspace"}

Event == [keycode : Keycode, ascii : Ascii, released : BOOLEAN,
          shift : BOOLEAN, ctrl : BOOLEAN, alt : BOOLEAN, caps : BOOLEAN]

\* key_event_t empty = {0}
EmptyEvent == [keycode |-> "UNKNOWN", ascii |-> "NUL", released |-> FALSE,
               shift |-> FALSE, ctrl |-> FALSE, alt |-> FALSE, caps |-> FALSE]

\* sc_normal / sc_shifted and the Ctrl adjustment.  Only letters are moved by
\* Ctrl, three of them onto characters that other keys have; the keypad codes
\* without E0 have no character in either table.
Translate(code) ==
  CASE code \in {"letter", "h", "jm"} /\ ~ctrl_held ->
         IF shift_held # caps_lock THEN "upper" ELSE "lower"
    [] code = "letter" /\ ctrl_held -> "control"
    [] code = "enter" \/ (code = "jm" /\ ctrl_held) -> "newline"
    [] code = "bksp" \/ (code = "h" /\ ctrl_held) -> "backspace"
    [] OTHER -> "NUL"

KeycodeOf(code) ==
  IF extended THEN IF code = "nav" THEN "NAV" ELSE "UNKNOWN"
  ELSE IF code = "fkey" THEN "FKEY" ELSE "ASCII"

MakeEvent(b) ==
  [keycode |-> KeycodeOf(b.code),
   ascii |-> IF KeycodeOf(b.code) = "ASCII" THEN Translate(b.code) ELSE "NUL",
   released |-> b.up,
   shift |-> shift_held, ctrl |-> ctrl_held, alt |-> alt_held, caps |-> caps_lock]

------------------------------------------------------------------------------
\* The ring.

\* Mutant: the index runs off the end of the ring.
NextIndexNoWrap(i) == i + 1

\* (i + 1) % KEY_BUF_SIZE
NextIndex(i) == (i + 1) % KEY_BUF_SIZE

has_event == key_head # key_tail

\* Mutant: the full test is forgotten.
EnqueueUnchecked(e) ==
  /\ key_buf' = [key_buf EXCEPT ![key_head] = e]
  /\ key_head' = NextIndex(key_head)
  /\ UNCHANGED key_tail

\* Mutant: the test is one slot too careful, a key is lost while there is room.
EnqueueTooCareful(e) ==
  IF NextIndex(NextIndex(key_head)) # key_tail
  THEN /\ key_buf' = [key_buf EXCEPT ![key_head] = e]
       /\ key_head' = NextIndex(key_head)
       /\ UNCHANGED key_tail
  ELSE UNCHANGED ringVars

\* keyboard.c:129-135: one slot always stays empty; a full ring drops e.
Enqueue(e) ==
  IF NextIndex(key_head) # key_tail
  THEN /\ key_buf' = [key_buf EXCEPT ![key_head] = e]
       /\ key_head' = NextIndex(key_head)
       /\ UNCHANGED key_tail
  ELSE UNCHANGED ringVars

------------------------------------------------------------------------------
\* The keyboard and its user.

Press(k) ==
  /\ strokes < MAX_STROKES
  /\ strokes' = strokes + 1
  /\ down' = down \cup {k}
  /\ wire' = wire \o Scancodes(k, FALSE)
  /\ UNCHANGED <<ringVars, modVars, extended, offered, readerVars, cpuVars>>

Release(k) ==
  /\ k \in down
  /\ down' = down \ {k}
  /\ wire' = wire \o Scancodes(k, TRUE)
  /\ UNCHANGED <<strokes, ringVars, modVars, extended, offered, readerVars, cpuVars>>

------------------------------------------------------------------------------
\* Interrupts.  Taking one ends a hlt.

TakeInterrupt ==
  /\ intr
  /\ halted' = FALSE
  /\ UNCHANGED intr

\* keyboard_handler takes the byte out of the controller.
TakeByte ==
  /\ wire # <<>>
  /\ TakeInterrupt
  /\ wire' = Tail(wire)
  /\ UNCHANGED <<down, strokes, readerVars>>

IsModifier(code) ==
  \/ code \in {"ctrl", "alt"}
  \/ ~extended /\ code \in {"shift_l", "shift_r", "caps"}

HandlePrefix ==
  /\ TakeByte
  /\ Head(wire).code = "E0"
  /\ extended' = TRUE
  /\ UNCHANGED <<ringVars, modVars, offered>>

\* Mutant: a modifier's return leaves the E0 prefix pending.
HandleModifierKeepsPrefix ==
  LET b == Head(wire)
      pressed == ~b.up
  IN  /\ TakeByte
      /\ IsModifier(b.code)
      /\ UNCHANGED extended
      /\ shift_held' = IF b.code \in {"shift_l", "shift_r"} THEN pressed ELSE shift_held
      /\ ctrl_held' = IF b.code = "ctrl" THEN pressed ELSE ctrl_held
      /\ alt_held' = IF b.code = "alt" THEN pressed ELSE alt_held
      /\ caps_lock' = IF b.code = "caps" /\ pressed THEN ~caps_lock ELSE caps_lock
      /\ UNCHANGED <<ringVars, offered>>

HandleModifier ==
  LET b == Head(wire)
      pressed == ~b.up
  IN  /\ TakeByte
      /\ IsModifier(b.code)
      /\ extended' = FALSE
      /\ shift_held' = IF b.code \in {"shift_l", "shift_r"} THEN pressed ELSE shift_held
      /\ ctrl_held' = IF b.code = "ctrl" THEN pressed ELSE ctrl_held
      /\ alt_held' = IF b.code = "alt" THEN pressed ELSE alt_held
      /\ caps_lock' = IF b.code = "caps" /\ pressed THEN ~caps_lock ELSE caps_lock
      /\ UNCHANGED <<ringVars, offered>>

\* Releases of character keys are not queued; those of other keys are.  Every
\* event that is to be queued is recorded in offered, whatever the ring does.
HandleKey ==
  LET b == Head(wire)
  IN  /\ TakeByte
      /\ b.code # "E0" /\ ~IsModifier(b.code)
      /\ extended' = FALSE
      /\ IF ~b.up \/ KeycodeOf(b.code) # "ASCII"
         THEN Enqueue(MakeEvent(b)) /\ offered' = 1 - offered
         ELSE UNCHANGED <<ringVars, offered>>
      /\ UNCHANGED modVars

\* Mutant: the timer's line stays masked.
TimerTickMasked == FALSE

\* pit_handler; the tick count itself is not needed here.
TimerTick ==
  /\ TakeInterrupt
  /\ UNCHANGED <<kbdVars, ringVars, modVars, extended, offered, readerVars>>

Interrupt == HandlePrefix \/ HandleModifier \/ HandleKey \/ TimerTick

------------------------------------------------------------------------------
\* The reader.  "poll" is kb_getchar_nowait of the desktop, "wait" is
\* keyboard_wait_event, "getchar" is keyboard_getchar.

ReaderStep(from, to) ==
  /\ ~halted
  /\ rpc = from
  /\ rpc' = to
  /\ UNCHANGED <<kbdVars, modVars, extended, offered, intr>>

StartRead(caller) ==
  /\ ReaderStep("idle", IF caller = "getchar" THEN "hlt" ELSE "test")
  /\ op' = caller
  /\ UNCHANGED <<ringVars, slot, last, halted>>

\* keyboard_has_event
TestHasEvent ==
  /\ ReaderStep("test",
       CASE has_event -> "get"
         [] ~has_event /\ op = "poll" -> "idle"
         [] OTHER -> "hlt")
  /\ UNCHANGED <<ringVars, op, slot, last, halted>>

\* Mutant: any wakeup is taken for a key.
HltNoRetest ==
  /\ ReaderStep("hlt", "get")
  /\ halted' = TRUE
  /\ UNCHANGED <<ringVars, op, slot, last>>

\* An interrupt may be taken after the test and before this instruction.
Hlt ==
  /\ ReaderStep("hlt", "test")
  /\ halted' = TRUE
  /\ UNCHANGED <<ringVars, op, slot, last>>

\* keyboard_get_event: the empty test, the copy out of the slot, the advance.
GetTest ==
  /\ ReaderStep("get", IF has_event THEN "copy" ELSE "got")
  /\ last' = IF has_event THEN last ELSE EmptyEvent
  /\ UNCHANGED <<ringVars, op, slot, halted>>

GetCopy ==
  /\ ReaderStep("copy", "advance")
  /\ slot' = key_buf[key_tail]
  /\ UNCHANGED <<ringVars, op, last, halted>>

GetAdvance ==
  /\ ReaderStep("advance", "got")
  /\ key_tail' = NextIndex(key_tail)
  /\ last' = slot
  /\ slot' = EmptyEvent        \* the local ev is dead from here
  /\ UNCHANGED <<key_buf, key_head, op, halted>>

\* keyboard_getchar skips everything but a pressed key with a character.
FinishRead ==
  /\ op # "sys_read"
  /\ ReaderStep("got",
       IF op = "getchar" /\ (last.released \/ last.keycode # "ASCII" \/ last.ascii = "NUL")
       THEN "hlt" ELSE "idle")
  /\ UNCHANGED <<ringVars, op, slot, last, halted>>

Reader == TestHasEvent \/ Hlt \/ GetTest \/ GetCopy \/ GetAdvance \/ FinishRead

------------------------------------------------------------------------------
\* The state keyboard_init leaves, with no key down and nothing in flight.
KeyboardInit ==
  /\ down = {} /\ strokes = 0 /\ wire = <<>>
  /\ key_buf = [i \in 0..(KEY_BUF_SIZE - 1) |-> EmptyEvent]
  /\ key_head = 0 /\ key_tail = 0
  /\ shift_held = FALSE /\ ctrl_held = FALSE /\ alt_held = FALSE
  /\ caps_lock = FALSE /\ extended = FALSE /\ offered = 0
  /\ rpc = "idle" /\ op = "poll" /\ slot = EmptyEvent /\ last = EmptyEvent
  /\ intr = TRUE /\ halted = FALSE

KeyboardNext ==
  \/ \E k \in PhysKey : Press(k) \/ Release(k)
  \/ Interrupt
  \/ \E caller \in {"poll", "wait", "getchar"} : StartRead(caller)
  \/ Reader

==============================================================================
