-------------------------------- MODULE Mouse ---------------------------------
(***************************************************************************)
(* The PS/2 mouse driver, kernel/drivers/mouse/mouse.c, with the mouse and *)
(* its line on one side and sync_mouse, the desktop's once-a-frame sample  *)
(* (kernel/gui/gui_desktop.c), on the other.                               *)
(*                                                                         *)
(* IRQ12 runs with interrupts off and is one action.  sync_mouse is split  *)
(* wherever it reads what the handler writes.  Bytes are the real ones; a  *)
(* byte may be lost on the line, which is what the test of bit 3 is for.   *)
(***************************************************************************)
EXTENDS Integers, Sequences

CONSTANTS
  MOUSE_QUEUE_SIZE,         \* slots of the event ring; the source has 64
  g_screen_w, g_screen_h,   \* 1024 and 768
  Delta,                    \* the movements a packet may carry
  Held,                     \* the sets of buttons the user may hold
  MAX_PACKETS,              \* bound: packets the mouse sends
  MAX_LOST                  \* bound: bytes lost on the line

ASSUME QueueAssumption == MOUSE_QUEUE_SIZE \in Nat /\ MOUSE_QUEUE_SIZE >= 2
ASSUME ScreenAssumption == g_screen_w \in Nat \ {0} /\ g_screen_h \in Nat \ {0}
ASSUME DeltaAssumption == Delta \subseteq -128..127
ASSUME HeldAssumption == Held \subseteq SUBSET {"left", "right"}
ASSUME BoundsAssumption == MAX_PACKETS \in Nat /\ MAX_LOST \in Nat

VARIABLES
  wire, packets, lost,         \* bytes on the line, and what the bounds count
  aligned,                     \* history: the driver should know where packets start
  reported,                    \* history: buttons of the last packet it should use
  g_packet, g_byte_idx,        \* the packet accumulator
  g_mouse_x, g_mouse_y, g_btn, \* the driver's state; g_btn holds left and right
  g_queue, g_q_head, g_q_tail, \* the ring of events
  offered,                     \* history: flips with every event meant for the ring
  last,                        \* what the latest mouse_get_event returned
  pc, g_sampled                \* sync_mouse: its next step and the sample it
                               \* fills, the desktop's g_mouse

lineVars == <<wire, packets, lost, aligned, reported>>
stateVars == <<g_mouse_x, g_mouse_y, g_btn>>
ringVars == <<g_queue, g_q_head, g_q_tail>>
syncVars == <<last, pc, g_sampled>>
mouseVars == <<lineVars, g_packet, g_byte_idx, stateVars, ringVars, offered, syncVars>>

------------------------------------------------------------------------------
\* Bytes, packets and events.

Button == {"left", "right"}

HasBit(b, weight) == (b \div weight) % 2 = 1

\* (int8_t)b
Signed(b) == IF b >= 128 THEN b - 256 ELSE b

ButtonsOf(flags) == {n \in Button : HasBit(flags, IF n = "left" THEN 1 ELSE 2)}

\* What the mouse sends: bit 3 set, the buttons, the overflow bits, dx and dy.
FlagsByte(held, overflow) ==
  8 + (IF "left" \in held THEN 1 ELSE 0) + (IF "right" \in held THEN 2 ELSE 0)
    + (IF overflow THEN 64 ELSE 0)

\* A packet whose movement bytes cannot be taken for a first byte.
Unmistakable(p) == ~HasBit(p[2], 8) /\ ~HasBit(p[3], 8)

\* Every byte the line may carry; out of step, any of them may be a movement.
Byte == {FlagsByte(h, o) : h \in Held, o \in BOOLEAN} \cup {d % 256 : d \in Delta}

Event == [dx : {0} \cup {Signed(b) : b \in Byte},
          dy : {0} \cup {-Signed(b) : b \in Byte}, btn : SUBSET Button]
EmptyEvent == [dx |-> 0, dy |-> 0, btn |-> {}]

------------------------------------------------------------------------------
\* The mouse and its line.

Send(dx, dy, held, overflow) ==
  LET p == <<FlagsByte(held, overflow), dx % 256, dy % 256>>
  IN  /\ wire = <<>>
      /\ packets < MAX_PACKETS
      /\ packets' = packets + 1
      /\ wire' = p
      /\ aligned' = (aligned \/ Unmistakable(p))
      /\ reported' = IF overflow THEN reported ELSE held
      /\ UNCHANGED <<lost, g_packet, g_byte_idx, stateVars, ringVars, offered, syncVars>>

\* The byte at the front never reaches the driver.
LoseByte ==
  /\ wire # <<>>
  /\ lost < MAX_LOST
  /\ lost' = lost + 1
  /\ wire' = Tail(wire)
  /\ aligned' = FALSE
  /\ UNCHANGED <<packets, reported, g_packet, g_byte_idx, stateVars, ringVars,
                 offered, syncVars>>

------------------------------------------------------------------------------
\* mouse_irq_handler.

NextSlot(i) == (i + 1) % MOUSE_QUEUE_SIZE

\* Mutant: the pointer may stand one column right of the screen.
ClampLoose(v, size) == IF v < 0 THEN 0 ELSE IF v > size THEN size ELSE v

Clamp(v, size) == IF v < 0 THEN 0 ELSE IF v >= size THEN size - 1 ELSE v

\* Mutant: a full ring overwrites its oldest event.
EnqueueOverwriting(e) ==
  /\ g_queue' = [g_queue EXCEPT ![g_q_tail] = e]
  /\ g_q_tail' = NextSlot(g_q_tail)
  /\ UNCHANGED g_q_head

\* A full ring drops the event; the state it would report has moved on.
Enqueue(e) ==
  IF NextSlot(g_q_tail) # g_q_head
  THEN /\ g_queue' = [g_queue EXCEPT ![g_q_tail] = e]
       /\ g_q_tail' = NextSlot(g_q_tail)
       /\ UNCHANGED g_q_head
  ELSE UNCHANGED ringVars

TakeByte ==
  /\ wire # <<>>
  /\ wire' = Tail(wire)
  /\ UNCHANGED <<packets, lost, aligned, reported, syncVars>>

SkipByte ==
  /\ TakeByte
  /\ g_byte_idx = 0 /\ ~HasBit(Head(wire), 8)
  /\ UNCHANGED <<g_packet, g_byte_idx, stateVars, ringVars, offered>>

\* Mutant: any byte is taken for a first one.
StoreAnyByte ==
  /\ TakeByte
  /\ g_byte_idx < 2
  /\ g_packet' = [g_packet EXCEPT ![g_byte_idx] = Head(wire)]
  /\ g_byte_idx' = g_byte_idx + 1
  /\ UNCHANGED <<stateVars, ringVars, offered>>

StoreByte ==
  /\ TakeByte
  /\ g_byte_idx < 2
  /\ g_byte_idx = 0 => HasBit(Head(wire), 8)
  /\ g_packet' = [g_packet EXCEPT ![g_byte_idx] = Head(wire)]
  /\ g_byte_idx' = g_byte_idx + 1
  /\ UNCHANGED <<stateVars, ringVars, offered>>

\* The third byte: the packet is discarded on overflow, otherwise applied.
UsePacket ==
  LET flags == g_packet[0]
      dx == Signed(g_packet[1])
      dy == -Signed(Head(wire))
  IN  /\ TakeByte
      /\ g_byte_idx = 2
      /\ g_packet' = [g_packet EXCEPT ![2] = Head(wire)]
      /\ g_byte_idx' = 0
      /\ IF HasBit(flags, 64) \/ HasBit(flags, 128)
         THEN UNCHANGED <<stateVars, ringVars, offered>>
         ELSE /\ g_mouse_x' = Clamp(g_mouse_x + dx, g_screen_w)
              /\ g_mouse_y' = Clamp(g_mouse_y + dy, g_screen_h)
              /\ g_btn' = ButtonsOf(flags)
              /\ Enqueue([dx |-> dx, dy |-> dy, btn |-> ButtonsOf(flags)])
              /\ offered' = 1 - offered

Irq12 == SkipByte \/ StoreByte \/ UsePacket

------------------------------------------------------------------------------
\* sync_mouse, once a frame.

mouse_has_event == g_q_head # g_q_tail

SyncStep(from, to) == pc = from /\ pc' = to

SyncOnly == UNCHANGED <<lineVars, g_packet, g_byte_idx, stateVars, offered>>

\* while (mouse_has_event()) mouse_get_event();
Drain ==
  /\ mouse_has_event
  /\ SyncStep("drain", "drain")
  /\ last' = g_queue[g_q_head]
  /\ g_q_head' = NextSlot(g_q_head)
  /\ SyncOnly /\ UNCHANGED <<g_queue, g_q_tail, g_sampled>>

Drained ==
  /\ ~mouse_has_event
  /\ SyncStep("drain", "x")
  /\ SyncOnly /\ UNCHANGED <<ringVars, last, g_sampled>>

\* Mutant: the row of the pointer is not sampled.
SampleNoY ==
  /\ SyncOnly /\ UNCHANGED <<ringVars, last>>
  /\ \/ SyncStep("x", "y") /\ g_sampled' = [g_sampled EXCEPT !.x = g_mouse_x]
     \/ SyncStep("y", "buttons") /\ UNCHANGED g_sampled
     \/ SyncStep("buttons", "drain") /\ g_sampled' = [g_sampled EXCEPT !.buttons = g_btn]

\* Three reads, the handler free to run between them; then the next frame.
Sample ==
  /\ SyncOnly /\ UNCHANGED <<ringVars, last>>
  /\ \/ SyncStep("x", "y") /\ g_sampled' = [g_sampled EXCEPT !.x = g_mouse_x]
     \/ SyncStep("y", "buttons") /\ g_sampled' = [g_sampled EXCEPT !.y = g_mouse_y]
     \/ SyncStep("buttons", "drain") /\ g_sampled' = [g_sampled EXCEPT !.buttons = g_btn]

------------------------------------------------------------------------------
MouseInit ==
  /\ wire = <<>> /\ packets = 0 /\ lost = 0
  /\ aligned = TRUE /\ reported = {}
  /\ g_packet = [i \in 0..2 |-> 0] /\ g_byte_idx = 0
  /\ g_mouse_x = g_screen_w \div 2 /\ g_mouse_y = g_screen_h \div 2 /\ g_btn = {}
  /\ g_queue = [i \in 0..MOUSE_QUEUE_SIZE - 1 |-> EmptyEvent]
  /\ g_q_head = 0 /\ g_q_tail = 0
  /\ offered = 0
  /\ last = EmptyEvent
  /\ pc = "drain"
  /\ g_sampled = [x |-> 0, y |-> 0, buttons |-> {}]

MouseNext ==
  \/ \E dx, dy \in Delta, held \in Held, overflow \in BOOLEAN :
       Send(dx, dy, held, overflow)
  \/ LoseByte
  \/ Irq12
  \/ Drain
  \/ Drained
  \/ Sample

\* The line delivers what is on it, and the desktop's loop goes on: what a turn
\* does returns, a program that the terminal runs included.
Fairness == WF_mouseVars(Irq12) /\ WF_mouseVars(Drain \/ Drained \/ Sample)

MouseSpec == MouseInit /\ [][MouseNext]_mouseVars /\ Fairness

------------------------------------------------------------------------------
\* Types; the pointer never leaves the driver's screen.
MouseTypeOK ==
  /\ wire \in Seq(Byte) /\ Len(wire) <= 3
  /\ packets \in 0..MAX_PACKETS /\ lost \in 0..MAX_LOST
  /\ aligned \in BOOLEAN /\ reported \subseteq Button
  /\ g_packet \in [0..2 -> Byte \cup {0}] /\ g_byte_idx \in 0..2
  /\ g_mouse_x \in 0..g_screen_w - 1 /\ g_mouse_y \in 0..g_screen_h - 1
  /\ g_btn \subseteq Button
  /\ g_queue \in [0..MOUSE_QUEUE_SIZE - 1 -> Event]
  /\ {g_q_head, g_q_tail} \subseteq 0..MOUSE_QUEUE_SIZE - 1
  /\ offered \in {0, 1}
  /\ last \in Event
  /\ pc \in {"drain", "x", "y", "buttons"}
  /\ g_sampled \in [x : 0..g_screen_w - 1, y : 0..g_screen_h - 1, buttons : SUBSET Button]

\* Framing (mouse.c:69).  While no byte is lost the driver stands at the byte
\* of the packet that the mouse stands at, overflowed packets included, and its
\* buttons are those of the last packet it may use.  After a loss the test of
\* bit 3 brings it back within one packet, if neither movement byte of that
\* packet has bit 3 set; nothing else would.
FramesAligned ==
  aligned /\ wire = <<>> => /\ g_byte_idx = 0
                            /\ lost = 0 => g_btn = reported

\* The ring's events, oldest first.
QueueContents ==
  LET len == (g_q_tail - g_q_head) % MOUSE_QUEUE_SIZE
  IN  [i \in 1..len |-> g_queue[(g_q_head + i - 1) % MOUSE_QUEUE_SIZE]]

Fifo == INSTANCE KeyFifo WITH
  queue <- QueueContents,
  offer <- offered,
  Capacity <- MOUSE_QUEUE_SIZE - 1

\* mouse_get_event hands out the events the handler accepted, in order, each
\* once, with the handler running between any two steps of the drain; only a
\* full ring refuses an event, and it keeps the old ones (mouse.c:103-113).
QueueIsFifo == Fifo!FifoSpec

\* sync_mouse may tear a sample between two packets (gui_desktop.c:50-53), but
\* when the mouse rests the sample comes to be the driver's state and stays so:
\* no final position or button is lost, whatever the ring dropped.
SampleCatchesUp ==
  <>[](g_sampled = [x |-> g_mouse_x, y |-> g_mouse_y, buttons |-> g_btn])

==============================================================================
