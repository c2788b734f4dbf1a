----------------------------- MODULE MCWsRelay -----------------------------
(* Reads of at most three bytes and a head limit of six: heads that end     *)
(* before, at and past the limit, a blank line that falls across chunks, a  *)
(* payload with a blank line of its own, a refusal, an empty head, a 101    *)
(* outside the first line, and a head without an end.                       *)
EXTENDS WsRelay

CONSTANTS cr, lf, sw, x, y

MCByte == {cr, lf, sw, x, y}

Blank == <<cr, lf, cr, lf>>

MCScript ==
  [d \in Dir |->
     IF d = "up" THEN {<<x, y>>}
     ELSE {<<sw>> \o Blank \o <<x, y>>,
           <<sw>> \o Blank \o Blank,
           <<sw, x, y>> \o Blank \o <<x>>,
           <<sw, cr, lf, x>> \o Blank,
           <<x>> \o Blank \o <<y>>,
           Blank \o <<sw>>,
           <<x, lf, sw>> \o Blank,
           <<x, x, x, x, x, x, x, x, x, x>>}]

(* Every byte either side has said once the upgrade was answered reaches   *)
(* the other one, or the connection breaks: no side's end, no leftover and *)
(* no split of the reads strands it (pipe_after_upgrade).                  *)
Delivered == \A d \in Dir : \A n \in 1..4 : SpokenArrives(d, n)
=============================================================================
