------------------------------ MODULE AudioQueue ------------------------------
(***************************************************************************)
(* What the ring between the client's audio thread and the sound device      *)
(* promises (core/src/audio.c): it is a bounded queue of sample frames.       *)
(* Frames come out in the order in which they went in, none is lost or         *)
(* repeated, and the device's request is cut short, its rest filled with       *)
(* silence, only when the queue is empty.  Every request is answered.          *)
(* There are no offsets, no loop flags and no copies in flight here; AudioPath *)
(* is shown to implement this module.                                          *)
(***************************************************************************)
EXTENDS Naturals, Sequences

CONSTANTS
  Capacity,   \* frames that the queue holds at most
  Requests    \* numbers of frames that the device may ask for at once

VARIABLES
  queue,      \* the frames that have been put in and not been taken out
  produced,   \* how many have been put in
  played,     \* the frames taken out, in order
  demand      \* what is left of the device's request; 0: it waits for nothing

vars == <<queue, produced, played, demand>>

Init == queue = <<>> /\ produced = 0 /\ played = <<>> /\ demand = 0

(* The producer puts the next n frames in. *)
Produce(n) ==
  /\ n + Len(queue) <= Capacity
  /\ queue' = queue \o [i \in 1 .. n |-> produced + i]
  /\ produced' = produced + n
  /\ UNCHANGED <<played, demand>>

Ask(n) ==
  /\ demand = 0 /\ demand' = n
  /\ UNCHANGED <<queue, produced, played>>

(* The device gets the n oldest frames. *)
Play(n) ==
  /\ n <= demand /\ n <= Len(queue)
  /\ played' = played \o SubSeq(queue, 1, n)
  /\ queue' = SubSeq(queue, n + 1, Len(queue))
  /\ demand' = demand - n
  /\ UNCHANGED produced

(* There is nothing to play: silence for the rest. *)
Silence ==
  /\ demand > 0 /\ queue = <<>> /\ demand' = 0
  /\ UNCHANGED <<queue, produced, played>>

Next ==
  \/ \E n \in 1 .. Capacity : Produce(n) \/ Play(n)
  \/ \E n \in Requests : Ask(n)
  \/ Silence

Spec == Init /\ [][Next]_vars

(* Every request is answered in the end. *)
Answered == demand > 0 ~> demand = 0
===============================================================================
