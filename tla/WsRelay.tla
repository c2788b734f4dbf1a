------------------------------ MODULE WsRelay ------------------------------
(***************************************************************************)
(* One relayed WebSocket (src/relay.rs, relay_websocket and                *)
(* pipe_after_upgrade): the gateway dials the device's tunnel, writes the  *)
(* upgrade request by hand, reads the answer chunk by chunk until the      *)
(* blank line, and, when the status line says 101, answers the client,     *)
(* hands it what came with the head and copies both ways until both sides  *)
(* have ended.  DeviceGate has the tokens that let a request come here and *)
(* the presence count; here the presence guard is held until the           *)
(* connection is over (Over).                                              *)
(*                                                                         *)
(* A direction is named by where its bytes go: "down" from the upstream to *)
(* the client, "up" from the client to the upstream.  A byte is a value    *)
(* told apart from CR, LF and Switching, which stands for "101"; the three *)
(* header fields the code copies or drops are not followed.                *)
(***************************************************************************)
EXTENDS Integers, Sequences

CONSTANTS
  Byte, CR, LF, Switching,
  Script,     \* direction -> what its sender may come to say
  Chunk,      \* bytes of a read of the handshake (2048)
  MaxHead,    \* a head longer than this is given up (64 * 1024)
  CopyCap     \* buffer of copy_bidirectional, per direction

Dir == {"down", "up"}

ASSUME RelayAssumption ==
  /\ {CR, LF, Switching} \subseteq Byte
  /\ Chunk \in Nat \ {0} /\ MaxHead \in Nat /\ CopyCap \in Nat \ {0}
  /\ Script \in [Dir -> SUBSET Seq(Byte)]

VARIABLES
  pc,      \* where the gateway is
  answer,  \* what the client was answered
  sent,    \* Dir -> all its sender has said, the upstream's head included
  closed,  \* Dir -> its sender has ended its side
  got,     \* Dir -> how much of sent the gateway has read
  held,    \* Dir -> bytes read and neither delivered nor dropped: buf, then
           \*        leftover, then the copy's buffer
  out,     \* Dir -> bytes delivered; "down" counts from the end of the 101
  fin      \* Dir -> the copy has shut its receiver's side down

vars == <<pc, answer, sent, closed, got, held, out, fin>>

Over == pc \in {"refused", "closed", "broken"}

Init ==
  /\ pc = "dialing" /\ answer = "none"
  /\ sent = [d \in Dir |-> <<>>] /\ closed = [d \in Dir |-> FALSE]
  /\ got = [d \in Dir |-> 0] /\ held = [d \in Dir |-> <<>>]
  /\ out = [d \in Dir |-> <<>>] /\ fin = [d \in Dir |-> FALSE]

-----------------------------------------------------------------------------
(* The head of the upstream's answer. *)

BlankAt(s, e) ==
  s[e] = CR /\ s[e + 1] = LF /\ s[e + 2] = CR /\ s[e + 3] = LF

\* find_head_end: the first place of CR LF CR LF.
IsHeadEnd(s, e) ==
  /\ e \in 1..(Len(s) - 3) /\ BlankAt(s, e)
  /\ \A i \in 1..(e - 1) : ~BlankAt(s, i)

HasHead(s) == \E e \in 1..Len(s) : IsHeadEnd(s, e)

HeadEnd(s) == CHOOSE e \in 1..Len(s) : IsHeadEnd(s, e)

\* The first line of the head says 101.
Accepts(s) ==
  \E i \in 1..(HeadEnd(s) - 1) : s[i] = Switching /\ \A j \in 1..(i - 1) : s[j] # LF

SlipAfterHead(s) ==            \* slip: what came with the head is forgotten
  <<>>

AfterHead(s) == SubSeq(s, HeadEnd(s) + 4, Len(s))

SlipTooLarge(s) ==             \* slip: off by one
  Len(s) >= MaxHead

SlipNoLimit(s) ==              \* slip: no limit
  FALSE

TooLarge(s) == Len(s) > MaxHead

-----------------------------------------------------------------------------
(* The two peers.  One that has ended its side still receives. *)

Saying(d) ==
  {b \in Byte : \E s \in Script[d] : Len(s) > Len(sent[d])
                  /\ SubSeq(s, 1, Len(sent[d]) + 1) = Append(sent[d], b)}

Send(d) ==
  /\ ~Over /\ ~closed[d]
  /\ d = "down" => pc \notin {"dialing", "asking"}
  /\ \E b \in Saying(d) : sent' = [sent EXCEPT ![d] = Append(@, b)]
  /\ UNCHANGED <<pc, answer, closed, got, held, out, fin>>

Close(d) ==
  /\ ~Over /\ ~closed[d]
  /\ d = "down" => pc # "dialing"
  /\ closed' = [closed EXCEPT ![d] = TRUE]
  /\ UNCHANGED <<pc, answer, sent, got, held, out, fin>>

\* The client's connection goes while the handler runs: the server drops the
\* handler, and with it the upstream socket and the guard.
ClientGone ==
  /\ pc \in {"dialing", "asking", "reading"}
  /\ pc' = "broken"
  /\ UNCHANGED <<answer, sent, closed, got, held, out, fin>>

-----------------------------------------------------------------------------
(* The handshake. *)

Refuse(a) ==
  /\ pc' = "refused" /\ answer' = a
  /\ UNCHANGED <<sent, closed, out, fin>>

\* connect_target.
Dial ==
  /\ pc = "dialing"
  /\ \/ /\ pc' = "asking"
        /\ UNCHANGED <<answer, sent, closed, got, held, out, fin>>
     \/ Refuse("error") /\ UNCHANGED <<got, held>>

SlipAskAgain ==                \* slip: after a failed write the upstream is dialed again
  /\ pc = "asking"
  /\ pc' \in {"reading", "dialing"}
  /\ UNCHANGED <<answer, sent, closed, got, held, out, fin>>

\* write_all of the upgrade request.
Ask ==
  /\ pc = "asking"
  /\ \/ /\ pc' = "reading"
        /\ UNCHANGED <<answer, sent, closed, got, held, out, fin>>
     \/ Refuse("error") /\ UNCHANGED <<got, held>>

\* What the next read of d may return: the next n bytes of what was sent.
Part(d, n) == SubSeq(sent[d], got[d] + 1, got[d] + n)

\* One read that returns bytes; then the search, over all that was read so far.
ReadHead(n) ==
  LET buf == held["down"] \o Part("down", n) IN
  /\ pc = "reading" /\ got["down"] + n <= Len(sent["down"])
  /\ got' = [got EXCEPT !["down"] = @ + n]
  /\ \/ /\ HasHead(buf) /\ Accepts(buf)
        /\ pc' = "upgrading" /\ answer' = "101"
        /\ held' = [held EXCEPT !["down"] = AfterHead(buf)]
        /\ UNCHANGED <<sent, closed, out, fin>>
     \/ /\ HasHead(buf) /\ ~Accepts(buf)
        /\ held' = [held EXCEPT !["down"] = buf]
        /\ Refuse("status")
     \/ /\ ~HasHead(buf) /\ TooLarge(buf)
        /\ held' = [held EXCEPT !["down"] = buf]
        /\ Refuse("toolarge")
     \/ /\ ~HasHead(buf) /\ ~TooLarge(buf)
        /\ held' = [held EXCEPT !["down"] = buf]
        /\ UNCHANGED <<pc, answer, sent, closed, out, fin>>

SlipReadNone ==                \* slip: an empty read is tried again
  /\ pc = "reading" /\ closed["down"] /\ got["down"] = Len(sent["down"])
  /\ UNCHANGED vars

\* A read of nothing (the upstream closed) or an error.
ReadNone ==
  /\ pc = "reading" /\ closed["down"] /\ got["down"] = Len(sent["down"])
  /\ Refuse("error") /\ UNCHANGED <<got, held>>

ReadError ==
  /\ pc = "reading"
  /\ Refuse("error") /\ UNCHANGED <<got, held>>

-----------------------------------------------------------------------------
(* The pipe. *)

Break ==
  /\ pc' = "broken"
  /\ UNCHANGED <<answer, sent, closed, got, held, out, fin>>

\* on_upgrade.await: the 101 is out and the client's socket is ours, or not.
Upgrade ==
  /\ pc = "upgrading"
  /\ \/ /\ pc' = "flushing"
        /\ UNCHANGED <<answer, sent, closed, got, held, out, fin>>
     \/ Break

\* The receiver of d takes the first n bytes held for it.
Pass(d, n) ==
  /\ n \in 1..Len(held[d])
  /\ out' = [out EXCEPT ![d] = @ \o SubSeq(held[d], 1, n)]
  /\ held' = [held EXCEPT ![d] = SubSeq(@, n + 1, Len(@))]
  /\ UNCHANGED <<pc, answer, sent, closed, got, fin>>

\* write_all of the leftover, in as many writes as it takes.
Flush(n) == pc = "flushing" /\ Pass("down", n)

Flushed == held["down"] = <<>>

SlipStartCopy ==               \* slip: one write, and what it did not take is lost
  /\ pc = "flushing"
  /\ pc' = "copying" /\ held' = [held EXCEPT !["down"] = <<>>]
  /\ UNCHANGED <<answer, sent, closed, got, out, fin>>

StartCopy ==
  /\ pc = "flushing" /\ Flushed
  /\ pc' = "copying"
  /\ UNCHANGED <<answer, sent, closed, got, held, out, fin>>

\* An error of either socket, in either direction, ends both and drops what
\* is held.
PipeError == pc \in {"flushing", "copying"} /\ Break

CopyRead(d, n) ==
  /\ pc = "copying" /\ ~fin[d]
  /\ got[d] + n <= Len(sent[d]) /\ Len(held[d]) + n <= CopyCap
  /\ held' = [held EXCEPT ![d] = @ \o Part(d, n)]
  /\ got' = [got EXCEPT ![d] = @ + n]
  /\ UNCHANGED <<pc, answer, sent, closed, out, fin>>

CopyWrite(d, n) == pc = "copying" /\ Pass(d, n)

SlipCopyDone(f) ==             \* slip: the first direction to end ends both
  \E d \in Dir : f[d]

CopyDone(f) == \A d \in Dir : f[d]

SlipDrained(d) ==              \* slip: what is still in the buffer is dropped
  closed[d] /\ got[d] = Len(sent[d])

Drained(d) == closed[d] /\ got[d] = Len(sent[d]) /\ held[d] = <<>>

\* A direction whose sender has ended and whose buffer is empty is shut down;
\* the copy returns when both are.
CopyEnd(d) ==
  /\ pc = "copying" /\ ~fin[d] /\ Drained(d)
  /\ fin' = [fin EXCEPT ![d] = TRUE]
  /\ pc' = IF CopyDone(fin') THEN "closed" ELSE pc
  /\ UNCHANGED <<answer, sent, closed, got, held, out>>

-----------------------------------------------------------------------------
Copy(d) ==
  \/ \E n \in 1..CopyCap : CopyRead(d, n)
  \/ \E n \in 1..CopyCap : CopyWrite(d, n)
  \/ CopyEnd(d)

Reading == \E n \in 1..Chunk : ReadHead(n)

Flushing == \E n \in 1..Chunk : Flush(n)

Next ==
  \/ \E d \in Dir : Send(d) \/ Close(d) \/ Copy(d)
  \/ ClientGone \/ Dial \/ Ask \/ Reading \/ ReadNone \/ ReadError
  \/ Upgrade \/ Flushing \/ StartCopy \/ PipeError

Spec == Init /\ [][Next]_vars

(* The gateway's task runs whenever a socket lets it; a dial ends one way  *)
(* or the other and the server always resolves the upgrade; the two        *)
(* directions of the copy are polled together, and a peer that has not     *)
(* broken off keeps taking bytes.  No peer has to send or to end.          *)
Fairness ==
  /\ WF_vars(Dial) /\ WF_vars(Ask) /\ WF_vars(Reading) /\ WF_vars(ReadNone)
  /\ WF_vars(Upgrade) /\ WF_vars(Flushing) /\ WF_vars(StartCopy)
  /\ \A d \in Dir : WF_vars(Copy(d))

FairSpec == Spec /\ Fairness

-----------------------------------------------------------------------------
(* What the upstream says to the client: all that follows its head. *)
Payload == IF HasHead(sent["down"]) THEN AfterHead(sent["down"]) ELSE <<>>

Spoken(d) == IF d = "down" THEN Payload ELSE sent[d]

(* Every buffer stays within its bound, whatever the upstream sends: the   *)
(* head it makes the gateway keep, and what is left over of a chunk.       *)
WsTypeOK ==
  /\ pc \in {"dialing", "asking", "reading", "upgrading", "flushing", "copying",
             "refused", "closed", "broken"}
  /\ answer \in {"none", "101", "status", "toolarge", "error"}
  /\ sent \in [Dir -> Seq(Byte)] /\ closed \in [Dir -> BOOLEAN]
  /\ got \in [Dir -> Nat] /\ held \in [Dir -> Seq(Byte)]
  /\ out \in [Dir -> Seq(Byte)] /\ fin \in [Dir -> BOOLEAN]
  /\ Len(held["up"]) <= CopyCap
  /\ pc = "reading" => Len(held["down"]) <= MaxHead
  /\ pc = "refused" => Len(held["down"]) <= MaxHead + Chunk
  /\ pc \in {"upgrading", "flushing"} => Len(held["down"]) < Chunk
  /\ pc = "copying" => Len(held["down"]) <= CopyCap

(* The size limit is on the head, not on what came with it: an answer is   *)
(* given up as too large only when its head does not end within the limit, *)
(* and no accepted head is more than a chunk longer.                       *)
HeadLimit ==
  /\ answer = "toolarge" =>
       Len(sent["down"]) > MaxHead /\ ~HasHead(SubSeq(sent["down"], 1, MaxHead + 1))
  /\ answer = "101" => HeadEnd(sent["down"]) + 3 <= MaxHead + Chunk

(* A pipe that ends without an error has delivered everything both sides   *)
(* said: the side that ends first does not cut the other one off.          *)
OrderlyEndLosesNothing ==
  pc = "closed" => \A d \in Dir : closed[d] /\ out[d] = Spoken(d)

(* What the client receives after the 101 is what the upstream said after  *)
(* its head, and what the upstream receives after the request is what the  *)
(* client said: in order, from the first byte, wherever the chunks fell,   *)
(* and shut down only once all of it has arrived.                          *)
Down == INSTANCE Stream WITH said <- Payload, heard <- out["down"],
          closed <- closed["down"], fin <- fin["down"]

Up == INSTANCE Stream WITH said <- sent["up"], heard <- out["up"],
        closed <- closed["up"], fin <- fin["up"]

DownStream == Down!Spec

UpStream == Up!Spec

(* Once both sides have ended, the connection is over and its presence     *)
(* guard dropped, in whatever phase it was.                                *)
BothEnded == \A d \in Dir : closed[d]
BothEndedIsOver == BothEnded ~> Over

\* The work that is left: the phases to come, and for each direction the
\* bytes to read and to deliver and the end to pass on.
Stage ==
  CASE pc = "dialing" -> 6 [] pc = "asking" -> 5 [] pc = "reading" -> 4
    [] pc = "upgrading" -> 3 [] pc = "flushing" -> 2 [] pc = "copying" -> 1 [] OTHER -> 0

Todo(d) == 2 * (Len(sent[d]) - got[d]) + Len(held[d]) + (IF fin[d] THEN 0 ELSE 1)

Remaining == Stage + Todo("down") + Todo("up")

(* ... after a bounded number of steps: every one, of whatever phase and   *)
(* direction, uses up some of what is left, and none makes new work (the   *)
(* loops of relay_websocket, write_all and copy_bidirectional).            *)
WindsDown ==
  [][BothEnded => 0 <= Remaining' /\ Remaining' < Remaining]_vars

(* Once the upgrade is answered, whatever either side says is delivered,   *)
(* whichever of them ends first, unless the connection breaks.             *)
SpokenArrives(d, n) ==
  (answer = "101" /\ Len(Spoken(d)) >= n) ~> (Len(out[d]) >= n \/ pc = "broken")
=============================================================================
