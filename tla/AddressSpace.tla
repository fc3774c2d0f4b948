----------------------------- MODULE AddressSpace -----------------------------
(***************************************************************************)
(* What the page tables promise: a partial map of virtual pages to frames. *)
(* A call changes the entry of the page it is given, to the frame it is    *)
(* given; it may be refused, silently, where nothing was mapped and no     *)
(* page is left for a table.  Everything else leaves the map alone.        *)
(***************************************************************************)
CONSTANTS Virt, Frame, NONE

VARIABLES
  mapping,   \* virtual page -> frame or NONE
  call,      \* the call that the latest step was, <<>> if it was none
  room       \* there is a free page

SpaceInit ==
  /\ mapping = [v \in Virt |-> NONE]
  /\ call = <<>>

Map(v, frame) ==
  /\ call' = <<"map", v, frame>>
  /\ \/ mapping' = [mapping EXCEPT ![v] = frame]
     \/ ~room /\ mapping[v] = NONE /\ UNCHANGED mapping

Unmap(v) ==
  /\ call' = <<"unmap", v>>
  /\ mapping' = [mapping EXCEPT ![v] = NONE]

SomethingElse ==
  /\ call' = <<>>
  /\ UNCHANGED mapping

SpaceNext ==
  \/ \E v \in Virt : Unmap(v) \/ \E frame \in Frame : Map(v, frame)
  \/ SomethingElse

\* The same call twice in a row, with the same outcome, is a stuttering step.
SpaceSpec == SpaceInit /\ [][SpaceNext]_<<mapping, call>>
==============================================================================
