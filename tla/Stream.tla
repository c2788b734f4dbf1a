------------------------------- MODULE Stream -------------------------------
(***************************************************************************)
(* What a relayed WebSocket promises in one direction: the receiver gets   *)
(* what the sender said, in order, nothing else, and is told of the end    *)
(* only when the sender has ended and everything it said has arrived.  A   *)
(* connection that breaks simply stops.  WsRelay implements one of these   *)
(* per direction.                                                          *)
(***************************************************************************)
EXTENDS Naturals, Sequences

CONSTANT Byte

VARIABLES
  said,     \* everything the sender has said
  heard,    \* everything the receiver has been given
  closed,   \* the sender has ended its side
  fin       \* the receiver has been told so

Init == said = <<>> /\ heard = <<>> /\ closed = FALSE /\ fin = FALSE

Say ==
  /\ ~closed
  /\ \E b \in Byte : said' = Append(said, b)
  /\ UNCHANGED <<heard, closed, fin>>

Hear ==
  /\ ~fin
  /\ \E n \in 1..(Len(said) - Len(heard)) : heard' = SubSeq(said, 1, Len(heard) + n)
  /\ UNCHANGED <<said, closed, fin>>

Close ==
  /\ ~closed /\ closed' = TRUE
  /\ UNCHANGED <<said, heard, fin>>

Finish ==
  /\ closed /\ ~fin /\ heard = said
  /\ fin' = TRUE
  /\ UNCHANGED <<said, heard, closed>>

Next == Say \/ Hear \/ Close \/ Finish

Spec == Init /\ [][Next]_<<said, heard, closed, fin>>
=============================================================================
