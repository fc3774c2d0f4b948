------------------------------- MODULE KeyFifo -------------------------------
(***************************************************************************)
(* What the keyboard driver promises its readers: key events come out in   *)
(* the order in which the interrupt handler accepted them, each one once   *)
(* and unaltered.  An event is refused only when the queue is full, and a  *)
(* read of an empty queue answers the all-zero event and changes nothing.  *)
(* Every event the handler has is either accepted or refused: offer flips  *)
(* with each, so that losing one is a step and not a stutter.              *)
(***************************************************************************)
EXTENDS Naturals, Sequences

CONSTANTS
  Event,        \* every value a key_event_t can take
  EmptyEvent,   \* the all-zero event
  Capacity      \* events the queue can hold

VARIABLES
  queue,   \* accepted events no reader has taken yet
  last,    \* what the latest keyboard_get_event returned
  offer    \* flips with every event the handler has for the queue

fifoVars == <<queue, last, offer>>

FifoInit ==
  /\ queue = <<>>
  /\ last = EmptyEvent
  /\ offer = 0

\* The second conjunct follows from the third; it spares TLC the search for e.
Accept ==
  /\ Len(queue) < Capacity
  /\ Len(queue') = Len(queue) + 1
  /\ \E e \in Event : queue' = Append(queue, e)
  /\ offer' = 1 - offer
  /\ UNCHANGED last

Refuse ==
  /\ Len(queue) = Capacity
  /\ offer' = 1 - offer
  /\ UNCHANGED <<queue, last>>

Take ==
  /\ queue # <<>>
  /\ queue' = Tail(queue)
  /\ last' = Head(queue)
  /\ UNCHANGED offer

TakeNothing ==
  /\ queue = <<>>
  /\ last' = EmptyEvent
  /\ UNCHANGED <<queue, offer>>

FifoNext ==
  \/ Accept
  \/ Refuse
  \/ Take
  \/ TakeNothing

FifoSpec == FifoInit /\ [][FifoNext]_fifoVars

==============================================================================
