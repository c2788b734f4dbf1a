--------------------------- MODULE WsRelayProofs ---------------------------
(***************************************************************************)
(* Proofs about WsRelay: the buffers' bounds and the head limit, that an   *)
(* orderly end loses nothing, and that each direction implements Stream.   *)
(*                                                                         *)
(* The inductive invariant says where the bytes are (Flow): past Base, the *)
(* head's length once it is accepted, what was delivered followed by what  *)
(* is held is exactly what was read, element by element; and which         *)
(* variables each phase has settled (Phase).  The facts about heads say    *)
(* that more bytes never move the end of a head already complete.          *)
(***************************************************************************)
EXTENDS WsRelay, TLAPS, SequenceTheorems

Base(d) == IF d = "down" /\ answer = "101" THEN HeadEnd(sent["down"]) + 3 ELSE 0

Flow(d) ==
  /\ Base(d) \in Nat
  /\ got[d] <= Len(sent[d])
  /\ Base(d) + Len(out[d]) + Len(held[d]) = got[d]
  /\ \A i \in 1..Len(out[d]) : out[d][i] = sent[d][Base(d) + i]
  /\ \A i \in 1..Len(held[d]) : held[d][i] = sent[d][Base(d) + Len(out[d]) + i]

Phase ==
  /\ answer = "101" => HasHead(sent["down"])
  /\ pc \in {"dialing", "asking", "reading"} => answer = "none"
  /\ pc \in {"upgrading", "flushing", "copying", "closed"} => answer = "101"
  /\ answer \in {"status", "toolarge", "error"} => pc = "refused"
  /\ pc = "refused" => answer # "101"
  /\ pc \in {"dialing", "asking"} => got["down"] = 0
  /\ pc = "reading" => ~HasHead(held["down"])
  /\ \A d \in Dir :
       /\ fin[d] => closed[d] /\ got[d] = Len(sent[d]) /\ held[d] = <<>>
       /\ answer # "101" => out[d] = <<>> /\ ~fin[d]
  /\ pc = "closed" => \A d \in Dir : fin[d]

IInv == WsTypeOK /\ Phase /\ HeadLimit /\ \A d \in Dir : Flow(d)

-----------------------------------------------------------------------------
(* The end of a head. *)

(* There is one first place: what find_head_end returns is determined. *)
LEMMA HeadEndFact ==
  ASSUME NEW s \in Seq(Byte), HasHead(s)
  PROVE  /\ HeadEnd(s) \in 1..(Len(s) - 3) /\ IsHeadEnd(s, HeadEnd(s))
         /\ \A e \in 1..Len(s) : IsHeadEnd(s, e) => e = HeadEnd(s)
<1>1. PICK f \in 1..Len(s) : IsHeadEnd(s, f)
  BY DEF HasHead
<1>2. HeadEnd(s) \in 1..Len(s) /\ IsHeadEnd(s, HeadEnd(s))
  BY <1>1 DEF HeadEnd
<1>3. ASSUME NEW e \in 1..Len(s), IsHeadEnd(s, e) PROVE e = HeadEnd(s)
  <2> DEFINE h == HeadEnd(s)
  <2>1. h \in 1..Len(s) /\ IsHeadEnd(s, h)
    BY <1>2
  <2> HIDE DEF h
  <2>2. Len(s) \in Nat
    OBVIOUS
  <2>3. ~(e < h) /\ ~(h < e)
    BY <1>3, <2>1, <2>2 DEF IsHeadEnd
  <2>4. e = h
    BY <2>1, <2>2, <2>3
  <2> QED BY <2>4 DEF h
<1> QED BY <1>2, <1>3 DEF IsHeadEnd

(* A head complete in what was read so far ends at the same place in all   *)
(* that is ever read.                                                      *)
LEMMA HeadStays ==
  ASSUME NEW s \in Seq(Byte), NEW t \in Seq(Byte), Len(s) <= Len(t),
         \A i \in 1..Len(s) : s[i] = t[i], HasHead(s)
  PROVE  HasHead(t) /\ HeadEnd(t) = HeadEnd(s)
<1> DEFINE h == HeadEnd(s)
<1>1. h \in 1..(Len(s) - 3) /\ IsHeadEnd(s, h)
  BY HeadEndFact
<1> HIDE DEF h
<1>2. Len(s) \in Nat /\ Len(t) \in Nat
  OBVIOUS
<1>3. ASSUME NEW i \in 1..(Len(s) - 3) PROVE BlankAt(s, i) <=> BlankAt(t, i)
  <2>1. {i, i + 1, i + 2, i + 3} \subseteq 1..Len(s)
    BY <1>2
  <2>2. s[i] = t[i] /\ s[i + 1] = t[i + 1] /\ s[i + 2] = t[i + 2] /\ s[i + 3] = t[i + 3]
    BY <2>1
  <2> QED BY <2>2 DEF BlankAt
<1>4. BlankAt(t, h) /\ \A i \in 1..(h - 1) : ~BlankAt(t, i)
  BY <1>1, <1>2, <1>3 DEF IsHeadEnd
<1>5. h \in 1..Len(t) /\ IsHeadEnd(t, h)
  BY <1>1, <1>2, <1>4 DEF IsHeadEnd
<1>6. HasHead(t)
  BY <1>5 DEF HasHead
<1>7. h = HeadEnd(t)
  BY <1>5, <1>6, HeadEndFact
<1> QED BY <1>6, <1>7 DEF h

(* A head that ends within a prefix is complete in the prefix. *)
LEMMA HeadWithin ==
  ASSUME NEW s \in Seq(Byte), NEW t \in Seq(Byte), Len(s) <= Len(t),
         \A i \in 1..Len(s) : s[i] = t[i], HasHead(t), HeadEnd(t) + 3 <= Len(s)
  PROVE  HasHead(s)
<1> DEFINE h == HeadEnd(t)
<1>1. h \in 1..(Len(t) - 3) /\ IsHeadEnd(t, h) /\ h + 3 <= Len(s)
  BY HeadEndFact
<1> HIDE DEF h
<1>2. Len(s) \in Nat /\ Len(t) \in Nat
  OBVIOUS
<1>3. ASSUME NEW i \in 1..(Len(s) - 3) PROVE BlankAt(s, i) <=> BlankAt(t, i)
  <2>1. {i, i + 1, i + 2, i + 3} \subseteq 1..Len(s)
    BY <1>2
  <2>2. s[i] = t[i] /\ s[i + 1] = t[i + 1] /\ s[i + 2] = t[i + 2] /\ s[i + 3] = t[i + 3]
    BY <2>1
  <2> QED BY <2>2 DEF BlankAt
<1>4. BlankAt(s, h) /\ \A i \in 1..(h - 1) : ~BlankAt(s, i)
  BY <1>1, <1>2, <1>3 DEF IsHeadEnd
<1>5. h \in 1..Len(s) /\ IsHeadEnd(s, h)
  BY <1>1, <1>2, <1>4 DEF IsHeadEnd
<1> QED BY <1>5 DEF HasHead

(* A slice of n elements after the first m. *)
LEMMA Slice ==
  ASSUME NEW s \in Seq(Byte), NEW m \in Nat, NEW n \in Nat, m + n <= Len(s)
  PROVE  /\ SubSeq(s, m + 1, m + n) \in Seq(Byte)
         /\ Len(SubSeq(s, m + 1, m + n)) = n
         /\ \A i \in 1..n : SubSeq(s, m + 1, m + n)[i] = s[m + i]
<1>1. SubSeq(s, m + 1, m + n) \in Seq(Byte)
  OBVIOUS
<1>2. Len(SubSeq(s, m + 1, m + n)) = n
  OBVIOUS
<1>3. \A i \in 1..n : SubSeq(s, m + 1, m + n)[i] = s[m + i]
  OBVIOUS
<1> QED BY <1>1, <1>2, <1>3

(* What follows a head. *)
LEMMA AfterHeadFact ==
  ASSUME NEW s \in Seq(Byte), HasHead(s)
  PROVE  /\ AfterHead(s) \in Seq(Byte)
         /\ Len(AfterHead(s)) = Len(s) - (HeadEnd(s) + 3)
         /\ \A i \in 1..Len(AfterHead(s)) : AfterHead(s)[i] = s[HeadEnd(s) + 3 + i]
<1> DEFINE h == HeadEnd(s)
<1>1. h \in 1..(Len(s) - 3)
  BY HeadEndFact
<1>2. AfterHead(s) = SubSeq(s, h + 4, Len(s))
  BY DEF AfterHead
<1> HIDE DEF h
<1> DEFINE m == h + 3
           n == Len(s) - (h + 3)
<1>3. m \in Nat /\ n \in Nat /\ m + n = Len(s) /\ m + 1 = h + 4
  BY <1>1
<1>4. AfterHead(s) = SubSeq(s, m + 1, m + n)
  BY <1>2, <1>3
<1> HIDE DEF m, n
<1>5. /\ SubSeq(s, m + 1, m + n) \in Seq(Byte)
      /\ Len(SubSeq(s, m + 1, m + n)) = n
      /\ \A i \in 1..n : SubSeq(s, m + 1, m + n)[i] = s[m + i]
  BY <1>3, Slice
<1>6. /\ AfterHead(s) \in Seq(Byte)
      /\ Len(AfterHead(s)) = n
      /\ \A i \in 1..Len(AfterHead(s)) : AfterHead(s)[i] = s[m + i]
  BY <1>4, <1>5, Zenon
<1> QED BY <1>6 DEF h, m, n

-----------------------------------------------------------------------------
(* The inductive invariant. *)

LEMMA InitInv == Init => IInv
<1> SUFFICES ASSUME Init PROVE IInv
  OBVIOUS
<1> USE RelayAssumption DEF Init, Dir
<1>1. WsTypeOK
  BY DEF WsTypeOK
<1>2. Phase
  BY DEF Phase
<1>3. HeadLimit
  BY DEF HeadLimit
<1>4. \A d \in Dir : Flow(d)
  BY DEF Flow, Base
<1> QED BY <1>1, <1>2, <1>3, <1>4 DEF IInv

(* A step of the gateway that reads, delivers and accepts nothing.         *)
Settles ==
  /\ UNCHANGED <<sent, closed, got, held, out, fin>>
  /\ pc \in {"dialing", "asking", "reading", "upgrading", "flushing", "copying"}
  /\ \/ pc \in {"dialing", "asking", "reading"} /\ pc' = "refused" /\ answer' = "error"
     \/ pc' = "broken" /\ UNCHANGED answer
     \/ pc = "dialing" /\ pc' = "asking" /\ UNCHANGED answer
     \/ pc = "asking" /\ pc' = "reading" /\ UNCHANGED answer
     \/ pc = "upgrading" /\ pc' = "flushing" /\ UNCHANGED answer
     \/ pc = "flushing" /\ Flushed /\ pc' = "copying" /\ UNCHANGED answer

LEMMA SettlesInv == IInv /\ Settles => IInv'
<1> SUFFICES ASSUME IInv, Settles PROVE IInv'
  OBVIOUS
<1> USE RelayAssumption
<1>1. /\ UNCHANGED <<sent, closed, got, held, out, fin>>
      /\ (answer = "101") <=> (answer' = "101")
      /\ answer' # "toolarge"
  BY DEF IInv, Phase, WsTypeOK, Settles
<1>2. \A d \in Dir : Flow(d)'
  BY <1>1 DEF IInv, Flow, Base
<1>3. HeadLimit'
  BY <1>1 DEF IInv, HeadLimit
<1>4. held["down"] \in Seq(Byte) /\ Flow("down")
  BY DEF IInv, WsTypeOK, Dir
<1>5. got["down"] = 0 => held["down"] = <<>>
  BY <1>4, EmptySeq DEF Flow, IInv, WsTypeOK, Dir
<1>6. ~HasHead(<<>>)
  BY DEF HasHead
<1>7. Phase'
  <2>1. CASE pc = "asking" /\ pc' = "reading"
    BY <1>1, <1>5, <1>6, <2>1 DEF IInv, Phase, Settles
  <2>2. CASE ~(pc = "asking" /\ pc' = "reading")
    BY <1>1, <2>2 DEF IInv, Phase, Settles, WsTypeOK
  <2> QED BY <2>1, <2>2
<1>8. WsTypeOK'
  <2>1. CASE pc = "asking" /\ pc' = "reading"
    <3>1. Len(held["down"]) = 0
      BY <1>5, <2>1 DEF IInv, Phase
    <3> QED BY <1>1, <2>1, <3>1 DEF IInv, WsTypeOK, Settles
  <2>2. CASE pc = "dialing" /\ pc' = "refused"
    <3>1. Len(held["down"]) = 0
      BY <1>5, <2>2 DEF IInv, Phase
    <3> QED BY <1>1, <2>2, <3>1 DEF IInv, WsTypeOK, Settles
  <2>3. CASE pc = "asking" /\ pc' = "refused"
    <3>1. Len(held["down"]) = 0
      BY <1>5, <2>3 DEF IInv, Phase
    <3> QED BY <1>1, <2>3, <3>1 DEF IInv, WsTypeOK, Settles
  <2>4. CASE pc = "reading" /\ pc' = "refused"
    <3>1. Len(held["down"]) <= MaxHead /\ Len(held["down"]) \in Nat
      BY <1>4, <2>4 DEF IInv, WsTypeOK
    <3>2. Len(held["down"]) <= MaxHead + Chunk
      BY <3>1
    <3> QED BY <1>1, <2>4, <3>2 DEF IInv, WsTypeOK, Settles
  <2>5. CASE pc = "flushing" /\ pc' = "copying"
    <3>1. held["down"] = <<>> /\ Len(<<>>) = 0
      BY <2>5 DEF Settles, Flushed
    <3>2. Len(held["down"]) <= CopyCap
      BY <3>1
    <3> QED BY <1>1, <2>5, <3>2 DEF IInv, WsTypeOK, Settles
  <2>6. CASE pc' \in {"asking", "broken", "flushing"}
    BY <1>1, <2>6 DEF IInv, WsTypeOK, Settles
  <2> QED BY <2>1, <2>2, <2>3, <2>4, <2>5, <2>6 DEF Settles
<1> QED BY <1>2, <1>3, <1>7, <1>8 DEF IInv

(* More bytes from a peer leave a head already accepted where it was.      *)
LEMMA SendInv ==
  ASSUME IInv, NEW d \in Dir, Send(d)
  PROVE  IInv'
<1> USE RelayAssumption
<1>1. PICK said \in Byte : sent' = [sent EXCEPT ![d] = Append(@, said)]
  BY DEF Send, Saying
<1>2. /\ UNCHANGED <<pc, answer, closed, got, held, out, fin>>
      /\ ~closed[d] /\ ~Over
  BY DEF Send
<1>3. /\ sent' \in [Dir -> Seq(Byte)]
      /\ \A e \in Dir :
           /\ Len(sent[e]) \in Nat /\ Len(sent[e]) <= Len(sent'[e])
           /\ \A i \in 1..Len(sent[e]) : sent'[e][i] = sent[e][i]
           /\ e # d => sent'[e] = sent[e]
  BY <1>1 DEF IInv, WsTypeOK, Dir
<1>4. answer = "101" => /\ HasHead(sent'["down"])
                        /\ HeadEnd(sent'["down"]) = HeadEnd(sent["down"])
  BY <1>3, HeadStays DEF IInv, Phase, WsTypeOK, Dir
<1>5. WsTypeOK'
  BY <1>2, <1>3 DEF IInv, WsTypeOK
<1>6. Phase'
  <2>1. \A e \in Dir : fin[e] => sent'[e] = sent[e]
    BY <1>2, <1>3 DEF IInv, Phase
  <2> QED BY <1>2, <1>4, <2>1 DEF IInv, Phase
<1>7. HeadLimit'
  <2>1. answer # "toolarge"
    BY <1>2 DEF IInv, Phase, Over
  <2> QED BY <1>2, <1>4, <2>1 DEF IInv, HeadLimit
<1>8. ASSUME NEW e \in Dir PROVE Flow(e)'
  <2>1. Base(e)' = Base(e)
    BY <1>2, <1>4 DEF Base
  <2>2. Flow(e) /\ Base(e) \in Nat /\ out[e] \in Seq(Byte) /\ held[e] \in Seq(Byte)
        /\ got[e] \in Nat
    BY DEF IInv, Flow, WsTypeOK
  <2>3. Len(out[e]) \in Nat /\ Len(held[e]) \in Nat
    BY <2>2
  <2>4. /\ \A i \in 1..Len(out[e]) : Base(e) + i \in 1..Len(sent[e])
        /\ \A i \in 1..Len(held[e]) : Base(e) + Len(out[e]) + i \in 1..Len(sent[e])
    <3> DEFINE b == Base(e)
               p == Len(out[e])
               q == Len(held[e])
               l == Len(sent[e])
    <3>1. b \in Nat /\ p \in Nat /\ q \in Nat /\ l \in Nat /\ b + p + q <= l
      BY <1>3, <2>2, <2>3 DEF Flow
    <3> HIDE DEF b, p, q, l
    <3>2. (\A i \in 1..p : b + i \in 1..l) /\ (\A i \in 1..q : b + p + i \in 1..l)
      BY <3>1
    <3> QED BY <3>2 DEF b, p, q, l
  <2>5. /\ \A i \in 1..Len(out[e]) : out[e][i] = sent'[e][Base(e) + i]
        /\ \A i \in 1..Len(held[e]) : held[e][i] = sent'[e][Base(e) + Len(out[e]) + i]
    BY <1>3, <2>2, <2>4 DEF Flow
  <2>6. got[e] <= Len(sent'[e])
    BY <1>3, <2>2 DEF Flow
  <2> QED BY <1>2, <2>1, <2>2, <2>5, <2>6 DEF Flow
<1> QED BY <1>5, <1>6, <1>7, <1>8 DEF IInv

LEMMA CloseInv ==
  ASSUME IInv, NEW d \in Dir, Close(d)
  PROVE  IInv'
<1>1. /\ UNCHANGED <<pc, answer, sent, got, held, out, fin>>
      /\ closed' = [closed EXCEPT ![d] = TRUE]
  BY DEF Close
<1>2. closed' \in [Dir -> BOOLEAN] /\ \A e \in Dir : closed[e] => closed'[e]
  BY <1>1 DEF IInv, WsTypeOK
<1>3. WsTypeOK'
  BY <1>1, <1>2 DEF IInv, WsTypeOK
<1>4. Phase'
  BY <1>1, <1>2 DEF IInv, Phase
<1>5. HeadLimit' /\ \A e \in Dir : Flow(e)'
  BY <1>1 DEF IInv, HeadLimit, Flow, Base
<1> QED BY <1>3, <1>4, <1>5 DEF IInv

(* A read of the handshake appends what comes next of the upstream's bytes *)
(* to those kept so far, so the search sees all of them.                   *)
LEMMA ReadHeadInv ==
  ASSUME IInv, NEW n \in 1..Chunk, ReadHead(n)
  PROVE  IInv'
<1> USE RelayAssumption
<1> DEFINE hd == held["down"]
           up == sent["down"]
           part == Part("down", n)
           buf == hd \o part
<1>1. /\ n \in Nat /\ 1 <= n /\ n <= Chunk
      /\ hd \in Seq(Byte) /\ up \in Seq(Byte) /\ Len(hd) \in Nat /\ Len(up) \in Nat
      /\ got["down"] \in Nat /\ "down" \in Dir /\ "up" \in Dir
  BY DEF IInv, WsTypeOK, Dir
<1>2. /\ pc = "reading" /\ answer = "none" /\ out["down"] = <<>> /\ ~HasHead(hd)
      /\ Len(hd) <= MaxHead /\ got["down"] + n <= Len(up)
      /\ \A d \in Dir : out[d] = <<>> /\ ~fin[d]
  BY <1>1 DEF ReadHead, IInv, Phase, WsTypeOK
<1>3. Len(hd) = got["down"] /\ \A i \in 1..Len(hd) : hd[i] = up[i]
  <2>1. Base("down") = 0 /\ Len(out["down"]) = 0 /\ Flow("down")
    BY <1>1, <1>2 DEF Base, IInv
  <2>2. /\ 0 + 0 + Len(hd) = got["down"]
        /\ \A i \in 1..Len(hd) : hd[i] = up[0 + 0 + i]
    BY <2>1, Zenon DEF Flow
  <2> HIDE DEF hd, up
  <2>3. \A i \in 1..Len(hd) : 0 + 0 + i = i
    BY <1>1
  <2> QED BY <1>1, <2>2, <2>3
<1>4. /\ part \in Seq(Byte) /\ Len(part) = n
      /\ \A i \in 1..n : part[i] = up[got["down"] + i]
  <2> DEFINE m == got["down"]
  <2>1. part = SubSeq(up, m + 1, m + n)
    BY DEF Part
  <2>2. m \in Nat /\ n \in Nat /\ up \in Seq(Byte) /\ m + n <= Len(up)
    BY <1>1, <1>2
  <2> HIDE DEF m, up, part
  <2>3. /\ SubSeq(up, m + 1, m + n) \in Seq(Byte) /\ Len(SubSeq(up, m + 1, m + n)) = n
        /\ \A i \in 1..n : SubSeq(up, m + 1, m + n)[i] = up[m + i]
    BY <2>2, Slice
  <2> QED BY <2>1, <2>3, Zenon DEF m
<1> HIDE DEF hd, up, part
<1>5. /\ buf \in Seq(Byte) /\ Len(buf) = Len(hd) + n
      /\ \A i \in 1..Len(hd) : buf[i] = hd[i]
      /\ \A i \in 1..Len(buf) : buf[i] = up[i]
  <2>1. buf \in Seq(Byte) /\ Len(buf) = Len(hd) + n
    <3>1. hd \in Seq(Byte) /\ part \in Seq(Byte) /\ Len(part) = n
      BY <1>1, <1>4
    <3> QED BY <3>1
  <2>2. \A i \in 1..Len(hd) : buf[i] = hd[i]
    BY <1>1, <1>4
  <2>3. ASSUME NEW i \in 1..Len(buf) PROVE buf[i] = up[i]
    <3>1. CASE i <= Len(hd)
      BY <1>1, <1>3, <2>1, <2>2, <3>1
    <3>2. CASE ~(i <= Len(hd))
      <4>1. i - Len(hd) \in 1..n
        BY <1>1, <2>1, <3>2
      <4>2. buf[i] = part[i - Len(hd)]
        BY <1>1, <1>4, <4>1
      <4>3. got["down"] + (i - Len(hd)) = i
        BY <1>1, <1>3
      <4> QED BY <1>4, <4>1, <4>2, <4>3
    <3> QED BY <3>1, <3>2
  <2> QED BY <2>1, <2>2, <2>3
<1> HIDE DEF buf
<1>6. Len(buf) \in Nat /\ Len(buf) <= Len(up) /\ Len(hd) <= Len(buf)
      /\ Len(buf) <= MaxHead + Chunk
  BY <1>1, <1>2, <1>3, <1>5
<1>7. ASSUME HasHead(buf)
      PROVE  /\ HasHead(up) /\ HeadEnd(up) = HeadEnd(buf)
             /\ HeadEnd(buf) \in Nat /\ HeadEnd(buf) + 3 <= Len(buf)
             /\ HeadEnd(buf) + 3 > Len(hd)
  <2>1. HasHead(up) /\ HeadEnd(up) = HeadEnd(buf)
    BY <1>1, <1>5, <1>6, <1>7, HeadStays
  <2>2. HeadEnd(buf) \in 1..(Len(buf) - 3)
    BY <1>5, <1>7, HeadEndFact
  <2>3. ~(HeadEnd(buf) + 3 <= Len(hd))
    <3>1. \A i \in 1..Len(hd) : hd[i] = buf[i]
      BY <1>5
    <3> QED BY <1>1, <1>2, <1>5, <1>6, <1>7, <3>1, HeadWithin
  <2> QED BY <1>1, <1>6, <2>1, <2>2, <2>3
<1>8. /\ got' = [got EXCEPT !["down"] = @ + n]
      /\ UNCHANGED <<sent, closed, out, fin>>
      /\ \/ /\ HasHead(buf) /\ pc' = "upgrading" /\ answer' = "101"
            /\ held' = [held EXCEPT !["down"] = AfterHead(buf)]
         \/ /\ held' = [held EXCEPT !["down"] = buf]
            /\ \/ HasHead(buf) /\ pc' = "refused" /\ answer' = "status"
               \/ /\ ~HasHead(buf) /\ Len(buf) > MaxHead
                  /\ pc' = "refused" /\ answer' = "toolarge"
               \/ /\ ~HasHead(buf) /\ Len(buf) <= MaxHead
                  /\ UNCHANGED <<pc, answer>>
  BY <1>6 DEF ReadHead, Refuse, TooLarge, buf, hd, part
<1>9. /\ got' \in [Dir -> Nat] /\ got'["down"] = Len(buf) /\ got'["up"] = got["up"]
  BY <1>1, <1>3, <1>5, <1>8 DEF IInv, WsTypeOK, Dir
<1>10. Flow("up")'
  <2>1. held'["up"] = held["up"] /\ Base("up")' = 0 /\ Base("up") = 0 /\ Flow("up")
    BY <1>1, <1>8 DEF Base, IInv, WsTypeOK
  <2> QED BY <1>8, <1>9, <2>1 DEF Flow
<1>11. CASE answer' = "101"
  <2>1. /\ HasHead(buf) /\ pc' = "upgrading"
        /\ held' = [held EXCEPT !["down"] = AfterHead(buf)]
    BY <1>2, <1>8, <1>11
  <2> DEFINE h == HeadEnd(buf) + 3
  <2>2. /\ AfterHead(buf) \in Seq(Byte) /\ Len(AfterHead(buf)) = Len(buf) - h
        /\ \A i \in 1..Len(AfterHead(buf)) : AfterHead(buf)[i] = buf[h + i]
    BY <1>5, <2>1, AfterHeadFact
  <2>3. h \in Nat /\ h <= Len(buf) /\ h > Len(hd)
    BY <1>7, <2>1
  <2>4. held' \in [Dir -> Seq(Byte)] /\ held'["down"] = AfterHead(buf)
        /\ held'["up"] = held["up"]
    BY <2>1, <2>2 DEF IInv, WsTypeOK, Dir
  <2>5. Base("down")' = h
    BY <1>7, <1>8, <1>11, <2>1 DEF Base, up
  <2> HIDE DEF h
  <2>6. Flow("down")'
    <3>1. \A i \in 1..Len(AfterHead(buf)) : AfterHead(buf)[i] = up[h + i]
      <4>1. \A i \in 1..Len(AfterHead(buf)) : h + i \in 1..Len(buf)
        BY <1>6, <2>2, <2>3
      <4> QED BY <1>5, <2>2, <4>1
    <3>2. Len(out'["down"]) = 0 /\ sent'["down"] = up
      BY <1>2, <1>8 DEF up
    <3>3. h + 0 + Len(AfterHead(buf)) = Len(buf) /\ h + 0 = h
      BY <1>6, <2>2, <2>3
    <3>4. \A i \in 1..Len(held'["down"]) : held'["down"][i] = up[h + 0 + i]
      BY <3>1, <3>3, <2>4
    <3> QED BY <1>6, <1>9, <2>3, <2>4, <2>5, <3>2, <3>3, <3>4 DEF Flow
  <2>7. Len(held'["down"]) < Chunk
    BY <1>1, <1>5, <1>6, <2>2, <2>3, <2>4
  <2>8. WsTypeOK'
    BY <1>8, <1>9, <1>11, <2>1, <2>4, <2>7 DEF IInv, WsTypeOK
  <2>9. Phase'
    BY <1>2, <1>7, <1>8, <1>11, <2>1 DEF IInv, Phase, up
  <2>10. HeadLimit'
    <3>1. HeadEnd(sent'["down"]) + 3 <= MaxHead + Chunk
      BY <1>6, <1>7, <1>8, <2>1 DEF up
    <3> QED BY <1>11, <3>1 DEF HeadLimit
  <2> QED BY <1>10, <2>6, <2>8, <2>9, <2>10 DEF IInv, Dir
<1>12. CASE answer' # "101"
  <2>1. /\ held' = [held EXCEPT !["down"] = buf]
        /\ \/ HasHead(buf) /\ pc' = "refused" /\ answer' = "status"
           \/ /\ ~HasHead(buf) /\ Len(buf) > MaxHead
              /\ pc' = "refused" /\ answer' = "toolarge"
           \/ ~HasHead(buf) /\ Len(buf) <= MaxHead /\ UNCHANGED <<pc, answer>>
    BY <1>8, <1>12
  <2>2. held' \in [Dir -> Seq(Byte)] /\ held'["down"] = buf /\ held'["up"] = held["up"]
    BY <1>5, <2>1 DEF IInv, WsTypeOK, Dir
  <2>3. Base("down")' = 0
    BY <1>12 DEF Base
  <2>4. Flow("down")'
    <3>1. Len(out'["down"]) = 0 /\ sent'["down"] = up
      BY <1>2, <1>8 DEF up
    <3>2. 0 + 0 + Len(buf) = Len(buf) /\ \A i \in 1..Len(buf) : buf[i] = up[0 + 0 + i]
      BY <1>5, <1>6
    <3> QED BY <1>6, <1>9, <2>2, <2>3, <3>1, <3>2 DEF Flow
  <2>5. WsTypeOK'
    BY <1>2, <1>6, <1>8, <1>9, <2>1, <2>2 DEF IInv, WsTypeOK
  <2>6. Phase'
    BY <1>2, <1>8, <2>1, <2>2 DEF IInv, Phase
  <2>7. HeadLimit'
    <3>1. CASE answer' = "toolarge"
      <4> DEFINE first == SubSeq(up, 1, MaxHead + 1)
      <4>1. ~HasHead(buf) /\ MaxHead + 1 <= Len(buf)
        BY <1>2, <1>6, <2>1, <3>1
      <4>2. /\ first \in Seq(Byte) /\ Len(first) = MaxHead + 1
            /\ \A i \in 1..(MaxHead + 1) : first[i] = up[0 + i]
        <5>1. 0 \in Nat /\ MaxHead + 1 \in Nat /\ 0 + (MaxHead + 1) <= Len(up)
              /\ 0 + 1 = 1 /\ 0 + (MaxHead + 1) = MaxHead + 1
          BY <1>1, <1>6, <4>1
        <5> QED BY <1>1, <5>1, Slice
      <4> HIDE DEF first
      <4>3. \A i \in 1..Len(first) : first[i] = buf[i]
        BY <1>5, <1>6, <4>1, <4>2
      <4>4. ~HasHead(first)
        BY <1>5, <4>1, <4>2, <4>3, HeadStays
      <4>5. Len(up) > MaxHead
        BY <1>1, <1>6, <4>1
      <4> QED BY <1>8, <3>1, <4>4, <4>5 DEF HeadLimit, first, up
    <3>2. CASE answer' # "toolarge"
      BY <1>12, <3>2 DEF HeadLimit
    <3> QED BY <3>1, <3>2
  <2> QED BY <1>10, <2>4, <2>5, <2>6, <2>7 DEF IInv, Dir
<1> QED BY <1>11, <1>12

(* What a receiver takes is the first of what is held for it. *)
LEMMA PassFlow ==
  ASSUME IInv, NEW d \in Dir, NEW n \in 1..Len(held[d]), Pass(d, n)
  PROVE  /\ Flow(d)'
         /\ held' \in [Dir -> Seq(Byte)] /\ out' \in [Dir -> Seq(Byte)]
         /\ Len(held'[d]) \in Nat /\ Len(held'[d]) < Len(held[d])
<1> DEFINE h == held[d]
           o == out[d]
           s == sent[d]
           b == Base(d)
           taken == SubSeq(h, 0 + 1, 0 + n)
           rest == SubSeq(h, n + 1, n + (Len(h) - n))
<1>1. /\ h \in Seq(Byte) /\ o \in Seq(Byte) /\ b \in Nat
      /\ Len(h) \in Nat /\ Len(o) \in Nat /\ n \in Nat /\ 1 <= n /\ n <= Len(h)
      /\ got[d] \in Nat
  BY DEF IInv, WsTypeOK, Flow
<1>2. /\ got[d] <= Len(s) /\ b + Len(o) + Len(h) = got[d]
      /\ \A i \in 1..Len(o) : o[i] = s[b + i]
      /\ \A i \in 1..Len(h) : h[i] = s[b + Len(o) + i]
  BY DEF IInv, Flow
<1>3. 0 \in Nat /\ 0 + n <= Len(h) /\ Len(h) - n \in Nat /\ n + (Len(h) - n) <= Len(h)
  BY <1>1
<1>4. /\ out' = [out EXCEPT ![d] = @ \o SubSeq(h, 1, n)]
      /\ held' = [held EXCEPT ![d] = SubSeq(@, n + 1, Len(@))]
      /\ UNCHANGED <<pc, answer, sent, closed, got, fin>>
  BY DEF Pass
<1>5. SubSeq(h, 1, n) = taken /\ SubSeq(h, n + 1, Len(h)) = rest
  <2>1. 0 + 1 = 1 /\ 0 + n = n /\ n + (Len(h) - n) = Len(h)
    BY <1>1
  <2> QED BY <2>1
<1>6. out'[d] = o \o taken /\ held'[d] = rest
  BY <1>4, <1>5 DEF IInv, WsTypeOK
<1>7. b' = b /\ s' = s
  BY <1>4 DEF Base
<1> HIDE DEF h, s, b, taken, rest, o
<1>8. /\ taken \in Seq(Byte) /\ Len(taken) = n
      /\ \A i \in 1..n : taken[i] = h[0 + i]
  BY <1>1, <1>3, Slice DEF taken
<1>9. /\ rest \in Seq(Byte) /\ Len(rest) = Len(h) - n
      /\ \A i \in 1..(Len(h) - n) : rest[i] = h[n + i]
  BY <1>1, <1>3, Slice DEF rest
<1>10. o \o taken \in Seq(Byte) /\ Len(o \o taken) = Len(o) + n
  BY <1>1, <1>8
<1>11. ASSUME NEW i \in 1..Len(o \o taken) PROVE (o \o taken)[i] = s[b + i]
  <2>1. CASE i <= Len(o)
    <3>1. i \in 1..Len(o)
      BY <1>1, <1>10, <2>1
    <3>2. (o \o taken)[i] = o[i]
      BY <1>1, <1>8, <3>1
    <3> QED BY <1>2, <3>1, <3>2
  <2>2. CASE ~(i <= Len(o))
    <3>1. i - Len(o) \in 1..n /\ i - Len(o) \in 1..Len(h) /\ 0 + (i - Len(o)) = i - Len(o)
      BY <1>1, <1>10, <2>2
    <3>2. (o \o taken)[i] = taken[i - Len(o)]
      BY <1>1, <1>8, <1>10, <3>1
    <3>3. b + Len(o) + (i - Len(o)) = b + i
      BY <1>1, <1>10
    <3> QED BY <1>2, <1>8, <3>1, <3>2, <3>3
  <2> QED BY <2>1, <2>2
<1>12. ASSUME NEW i \in 1..Len(rest) PROVE rest[i] = s[b + Len(o \o taken) + i]
  <2>1. i \in 1..(Len(h) - n) /\ n + i \in 1..Len(h)
    BY <1>1, <1>9
  <2>2. b + Len(o) + (n + i) = b + Len(o \o taken) + i
    BY <1>1, <1>9, <1>10
  <2> QED BY <1>2, <1>9, <2>1, <2>2
<1>13. b + Len(o \o taken) + Len(rest) = got[d]
  BY <1>1, <1>2, <1>9, <1>10
<1>14. Flow(d)'
  <2>1. /\ b' \in Nat /\ got'[d] <= Len(sent'[d])
        /\ b' + Len(out'[d]) + Len(held'[d]) = got'[d]
        /\ \A i \in 1..Len(out'[d]) : out'[d][i] = sent'[d][b' + i]
        /\ \A i \in 1..Len(held'[d]) : held'[d][i] = sent'[d][b' + Len(out'[d]) + i]
    BY <1>1, <1>2, <1>4, <1>6, <1>7, <1>11, <1>12, <1>13, Zenon DEF s
  <2> QED BY <2>1, Zenon DEF Flow, b
<1>15. held' \in [Dir -> Seq(Byte)] /\ out' \in [Dir -> Seq(Byte)]
  <2>1. SubSeq(held[d], n + 1, Len(held[d])) \in Seq(Byte)
        /\ out[d] \o SubSeq(held[d], 1, n) \in Seq(Byte)
    BY <1>5, <1>9, <1>10, Zenon DEF h, o
  <2> QED BY <1>4, <2>1 DEF IInv, WsTypeOK, h
<1> QED BY <1>1, <1>6, <1>9, <1>14, <1>15 DEF h

LEMMA PassInv ==
  ASSUME IInv, NEW d \in Dir, NEW n, Pass(d, n), 
         pc = "copying" \/ (pc = "flushing" /\ d = "down")
  PROVE  IInv'
<1> USE RelayAssumption
<1>1. n \in 1..Len(held[d])
  BY DEF Pass
<1>2. /\ Flow(d)'
      /\ held' \in [Dir -> Seq(Byte)] /\ out' \in [Dir -> Seq(Byte)]
      /\ Len(held'[d]) \in Nat /\ Len(held'[d]) < Len(held[d])
  BY <1>1, PassFlow
<1>3. /\ \A e \in Dir : e # d => out'[e] = out[e] /\ held'[e] = held[e]
      /\ UNCHANGED <<pc, answer, sent, closed, got, fin>>
  BY DEF Pass, IInv, WsTypeOK
<1>4. \A e \in Dir : Flow(e)'
  <2>1. ASSUME NEW e \in Dir, e # d PROVE Flow(e)'
    <3>1. Base(e)' = Base(e)
      BY <1>3 DEF Base
    <3>2. Flow(e) /\ out'[e] = out[e] /\ held'[e] = held[e] /\ got' = got /\ sent' = sent
      BY <1>3, <2>1 DEF IInv
    <3> QED BY <3>1, <3>2, Zenon DEF Flow
  <2> QED BY <1>2, <2>1
<1>5. WsTypeOK'
  <2>1. held[d] \in Seq(Byte) /\ Len(held[d]) \in Nat
    BY DEF IInv, WsTypeOK
  <2>2. CASE d = "down"
    <3>1. held'["up"] = held["up"]
      BY <1>3, <2>2 DEF Dir
    <3> QED BY <1>2, <1>3, <2>1, <2>2, <3>1 DEF IInv, WsTypeOK
  <2>3. CASE d = "up"
    <3>1. held'["down"] = held["down"]
      BY <1>3, <2>3 DEF Dir
    <3> QED BY <1>2, <1>3, <2>1, <2>3, <3>1 DEF IInv, WsTypeOK
  <2> QED BY <2>2, <2>3 DEF Dir
<1>6. Phase'
  <2>1. answer = "101" /\ pc # "reading" /\ pc # "closed"
    BY DEF IInv, Phase
  <2>2. ~fin[d]
    BY <1>1 DEF IInv, Phase
  <2> QED BY <1>3, <2>1, <2>2 DEF IInv, Phase
<1>7. HeadLimit'
  BY <1>3 DEF IInv, HeadLimit
<1> QED BY <1>4, <1>5, <1>6, <1>7 DEF IInv

(* A read of the copy appends what comes next. *)
LEMMA CopyReadInv ==
  ASSUME IInv, NEW d \in Dir, NEW n \in 1..CopyCap, CopyRead(d, n)
  PROVE  IInv'
<1> USE RelayAssumption
<1> DEFINE h == held[d]
           p == Len(out[d])
           s == sent[d]
           b == Base(d)
           m == got[d]
           part == SubSeq(s, m + 1, m + n)
<1>1. /\ h \in Seq(Byte) /\ s \in Seq(Byte) /\ Len(h) \in Nat /\ p \in Nat
      /\ b \in Nat /\ m \in Nat /\ n \in Nat /\ 1 <= n
  BY DEF IInv, WsTypeOK, Flow
<1>2. /\ m <= Len(s) /\ b + p + Len(h) = m
      /\ \A i \in 1..p : out[d][i] = s[b + i]
      /\ \A i \in 1..Len(h) : h[i] = s[b + p + i]
  BY DEF IInv, Flow
<1>3. /\ pc = "copying" /\ ~fin[d] /\ m + n <= Len(s) /\ Len(h) + n <= CopyCap
      /\ held' = [held EXCEPT ![d] = h \o part]
      /\ got' = [got EXCEPT ![d] = m + n]
      /\ UNCHANGED <<pc, answer, sent, closed, out, fin>>
  BY DEF CopyRead, Part
<1>4. held'[d] = h \o part /\ got'[d] = m + n /\ Base(d)' = b
      /\ \A e \in Dir : e # d => held'[e] = held[e] /\ got'[e] = got[e]
  BY <1>3 DEF IInv, WsTypeOK, Base
<1> HIDE DEF s, b, m, part
<1>5. part \in Seq(Byte) /\ Len(part) = n /\ \A i \in 1..n : part[i] = s[m + i]
  BY <1>1, <1>3, Slice DEF part
<1> HIDE DEF h, p
<1>6. h \o part \in Seq(Byte) /\ Len(h \o part) = Len(h) + n
  <2>1. h \in Seq(Byte) /\ part \in Seq(Byte) /\ Len(part) = n
    BY <1>1, <1>5
  <2> QED BY <2>1
<1>7. ASSUME NEW i \in 1..Len(h \o part) PROVE (h \o part)[i] = s[b + p + i]
  <2>1. CASE i <= Len(h)
    <3>1. i \in 1..Len(h)
      BY <1>1, <1>6, <2>1
    <3>2. (h \o part)[i] = h[i]
      BY <1>1, <1>5, <3>1
    <3> QED BY <1>2, <3>1, <3>2
  <2>2. CASE ~(i <= Len(h))
    <3>1. i - Len(h) \in 1..n
      BY <1>1, <1>6, <2>2
    <3>2. (h \o part)[i] = part[i - Len(h)]
      BY <1>1, <1>5, <1>6, <3>1
    <3>3. m + (i - Len(h)) = b + p + i
      <4>1. m = b + p + Len(h) /\ i \in Nat
        BY <1>2
      <4> QED BY <1>1, <4>1
    <3> QED BY <1>5, <3>1, <3>2, <3>3
  <2> QED BY <2>1, <2>2
<1>8. b + p + Len(h \o part) = m + n
  <2>1. m = b + p + Len(h) /\ Len(h \o part) = Len(h) + n
    BY <1>2, <1>6
  <2> QED BY <1>1, <2>1
<1>9. Flow(d)'
  <2>1. /\ b \in Nat /\ m + n <= Len(s) /\ b + p + Len(h \o part) = m + n
        /\ \A i \in 1..p : out[d][i] = s[b + i]
        /\ \A i \in 1..Len(h \o part) : (h \o part)[i] = s[b + p + i]
    BY <1>1, <1>2, <1>3, <1>7, <1>8
  <2>2. out' = out /\ sent' = sent
    BY <1>3
  <2> QED BY <1>4, <2>1, <2>2, Zenon DEF Flow, s, p
<1>10. \A e \in Dir : Flow(e)'
  <2>1. ASSUME NEW e \in Dir, e # d PROVE Flow(e)'
    <3>1. Base(e)' = Base(e)
      BY <1>3 DEF Base
    <3>2. /\ Flow(e) /\ out' = out /\ sent' = sent
          /\ held'[e] = held[e] /\ got'[e] = got[e]
      BY <1>3, <1>4, <2>1 DEF IInv
    <3> QED BY <3>1, <3>2, Zenon DEF Flow
  <2> QED BY <1>9, <2>1
<1>11. WsTypeOK'
  <2>1. held' \in [Dir -> Seq(Byte)] /\ got' \in [Dir -> Nat]
    <3>1. m + n \in Nat
      BY <1>1
    <3> QED BY <1>3, <1>6, <3>1 DEF IInv, WsTypeOK
  <2>2. \A e \in Dir : Len(held'[e]) <= CopyCap
    BY <1>3, <1>4, <1>6 DEF IInv, WsTypeOK, Dir
  <2> QED BY <1>3, <2>1, <2>2 DEF IInv, WsTypeOK, Dir
<1>12. Phase'
  BY <1>3, <1>4 DEF IInv, Phase
<1>13. HeadLimit'
  BY <1>3 DEF IInv, HeadLimit
<1> QED BY <1>10, <1>11, <1>12, <1>13 DEF IInv

LEMMA CopyEndInv ==
  ASSUME IInv, NEW d \in Dir, CopyEnd(d)
  PROVE  IInv'
<1>1. /\ pc = "copying" /\ ~fin[d] /\ Drained(d)
      /\ fin' = [fin EXCEPT ![d] = TRUE]
      /\ pc' = IF CopyDone(fin') THEN "closed" ELSE pc
      /\ UNCHANGED <<answer, sent, closed, got, held, out>>
  BY DEF CopyEnd
<1>2. fin' \in [Dir -> BOOLEAN] /\ fin'[d] /\ \A e \in Dir : e # d => fin'[e] = fin[e]
  BY <1>1 DEF IInv, WsTypeOK
<1>3. WsTypeOK'
  BY <1>1, <1>2 DEF IInv, WsTypeOK
<1>4. Phase'
  <2>1. \A e \in Dir : fin'[e] => closed[e] /\ got[e] = Len(sent[e]) /\ held[e] = <<>>
    BY <1>1, <1>2 DEF IInv, Phase, Drained
  <2>2. answer = "101"
    BY <1>1 DEF IInv, Phase
  <2> QED BY <1>1, <1>2, <2>1, <2>2 DEF IInv, Phase, CopyDone
<1>5. HeadLimit' /\ \A e \in Dir : Flow(e)'
  BY <1>1 DEF IInv, HeadLimit, Flow, Base
<1> QED BY <1>3, <1>4, <1>5 DEF IInv

LEMMA StepInv == IInv /\ [Next]_vars => IInv'
<1> SUFFICES ASSUME IInv, [Next]_vars PROVE IInv'
  OBVIOUS
<1>1. ASSUME NEW d \in Dir, Send(d) PROVE IInv'
  BY <1>1, SendInv
<1>2. ASSUME NEW d \in Dir, Close(d) PROVE IInv'
  BY <1>2, CloseInv
<1>3. ASSUME NEW d \in Dir, Copy(d) PROVE IInv'
  <2>1. ASSUME NEW n \in 1..CopyCap, CopyRead(d, n) PROVE IInv'
    BY <2>1, CopyReadInv
  <2>2. ASSUME NEW n \in 1..CopyCap, CopyWrite(d, n) PROVE IInv'
    BY <2>2, PassInv DEF CopyWrite
  <2>3. CASE CopyEnd(d)
    BY <2>3, CopyEndInv
  <2> QED BY <1>3, <2>1, <2>2, <2>3 DEF Copy
<1>4. CASE ClientGone
  BY <1>4, SettlesInv DEF ClientGone, Settles
<1>5. CASE Dial
  BY <1>5, SettlesInv DEF Dial, Refuse, Settles
<1>6. CASE Ask
  BY <1>6, SettlesInv DEF Ask, Refuse, Settles
<1>7. CASE Reading
  BY <1>7, ReadHeadInv DEF Reading
<1>8. CASE ReadNone
  BY <1>8, SettlesInv DEF ReadNone, Refuse, Settles
<1>9. CASE ReadError
  BY <1>9, SettlesInv DEF ReadError, Refuse, Settles
<1>10. CASE Upgrade
  BY <1>10, SettlesInv DEF Upgrade, Break, Settles
<1>11. CASE Flushing
  <2>1. PICK n \in 1..Chunk : Flush(n)
    BY <1>11 DEF Flushing
  <2> QED BY <2>1, PassInv DEF Flush, Dir
<1>12. CASE StartCopy
  BY <1>12, SettlesInv DEF StartCopy, Settles
<1>13. CASE PipeError
  BY <1>13, SettlesInv DEF PipeError, Break, Settles
<1>14. CASE UNCHANGED vars
  BY <1>14 DEF vars, IInv, WsTypeOK, Phase, HeadLimit, Flow, Base
<1> QED BY <1>1, <1>2, <1>3, <1>4, <1>5, <1>6, <1>7, <1>8, <1>9, <1>10, <1>11,
           <1>12, <1>13, <1>14 DEF Next

-----------------------------------------------------------------------------
(* What was delivered, against what was spoken. *)

LEMMA SpokenFact ==
  ASSUME IInv, NEW d \in Dir
  PROVE  /\ Spoken(d) \in Seq(Byte)
         /\ (d = "up" \/ answer = "101") =>
              /\ Len(Spoken(d)) = Len(sent[d]) - Base(d)
              /\ \A i \in 1..Len(Spoken(d)) : Spoken(d)[i] = sent[d][Base(d) + i]
<1>1. sent[d] \in Seq(Byte) /\ Len(sent[d]) \in Nat
  BY DEF IInv, WsTypeOK
<1>2. CASE d = "up"
  <2>1. Spoken(d) = sent[d] /\ Base(d) = 0
    BY <1>2 DEF Spoken, Base
  <2>2. Len(sent[d]) = Len(sent[d]) - 0 /\ \A i \in 1..Len(sent[d]) : 0 + i = i
    BY <1>1
  <2> QED BY <1>1, <2>1, <2>2
<1>3. CASE d = "down" /\ HasHead(sent["down"])
  <2>1. Spoken(d) = AfterHead(sent["down"])
    BY <1>3 DEF Spoken, Payload
  <2>2. /\ AfterHead(sent[d]) \in Seq(Byte)
        /\ Len(AfterHead(sent[d])) = Len(sent[d]) - (HeadEnd(sent[d]) + 3)
        /\ \A i \in 1..Len(AfterHead(sent[d])) :
             AfterHead(sent[d])[i] = sent[d][HeadEnd(sent[d]) + 3 + i]
    BY <1>1, <1>3, AfterHeadFact
  <2>3. answer = "101" => Base(d) = HeadEnd(sent[d]) + 3
    BY <1>3 DEF Base
  <2> QED BY <1>3, <2>1, <2>2, <2>3, Zenon
<1>4. CASE d = "down" /\ ~HasHead(sent["down"])
  <2>1. Spoken(d) = <<>> /\ answer # "101"
    BY <1>4 DEF Spoken, Payload, IInv, Phase
  <2>2. d # "up" /\ <<>> \in Seq(Byte)
    BY <1>4, EmptySeq
  <2> QED BY <2>1, <2>2, Zenon
<1> QED BY <1>2, <1>3, <1>4 DEF Dir

LEMMA OutPrefix ==
  ASSUME IInv, NEW d \in Dir
  PROVE  /\ out[d] \in Seq(Byte) /\ Len(out[d]) \in Nat /\ Len(Spoken(d)) \in Nat
         /\ Len(out[d]) <= Len(Spoken(d))
         /\ \A i \in 1..Len(out[d]) : out[d][i] = Spoken(d)[i]
<1>1. /\ out[d] \in Seq(Byte) /\ Len(out[d]) \in Nat /\ held[d] \in Seq(Byte)
      /\ Len(held[d]) \in Nat /\ got[d] \in Nat /\ Len(sent[d]) \in Nat
  BY DEF IInv, WsTypeOK
<1>2. Spoken(d) \in Seq(Byte) /\ Len(Spoken(d)) \in Nat
  BY SpokenFact
<1>3. CASE d = "up" \/ answer = "101"
  <2>1. /\ Len(Spoken(d)) = Len(sent[d]) - Base(d)
        /\ \A i \in 1..Len(Spoken(d)) : Spoken(d)[i] = sent[d][Base(d) + i]
    BY <1>3, SpokenFact
  <2>2. /\ Base(d) \in Nat /\ got[d] <= Len(sent[d])
        /\ Base(d) + Len(out[d]) + Len(held[d]) = got[d]
        /\ \A i \in 1..Len(out[d]) : out[d][i] = sent[d][Base(d) + i]
    BY DEF IInv, Flow
  <2>3. Len(out[d]) <= Len(Spoken(d))
    BY <1>1, <1>2, <2>1, <2>2
  <2>4. \A i \in 1..Len(out[d]) : i \in 1..Len(Spoken(d))
    BY <1>1, <1>2, <2>3
  <2> QED BY <1>1, <1>2, <2>1, <2>2, <2>3, <2>4
<1>4. CASE d = "down" /\ answer # "101"
  <2>1. out[d] = <<>> /\ Len(<<>>) = 0
    BY <1>4 DEF IInv, Phase
  <2> QED BY <1>1, <1>2, <2>1
<1> QED BY <1>3, <1>4 DEF Dir

(* A direction that is shut down has delivered all of it. *)
LEMMA DrainedDelivered ==
  ASSUME IInv, NEW d \in Dir, closed[d], got[d] = Len(sent[d]), held[d] = <<>>,
         answer = "101"
  PROVE  out[d] = Spoken(d)
<1>1. Spoken(d) \in Seq(Byte) /\ Len(Spoken(d)) = Len(sent[d]) - Base(d)
  BY SpokenFact
<1>2. /\ out[d] \in Seq(Byte) /\ Len(out[d]) \in Nat /\ Len(sent[d]) \in Nat
      /\ Base(d) \in Nat /\ Base(d) + Len(out[d]) + Len(held[d]) = got[d]
  BY DEF IInv, WsTypeOK, Flow
<1>3. Len(held[d]) = 0
  OBVIOUS
<1>4. Len(out[d]) = Len(Spoken(d))
  BY <1>1, <1>2, <1>3
<1>5. \A i \in 1..Len(out[d]) : out[d][i] = Spoken(d)[i]
  BY OutPrefix
<1> QED BY <1>1, <1>2, <1>4, <1>5, SeqEqual

(* What a peer says is appended to what it has spoken, unless it belongs   *)
(* to the head.                                                            *)
LEMMA SpokenGrows ==
  ASSUME IInv, IInv', NEW d \in Dir, Send(d)
  PROVE  Spoken(d)' = Spoken(d) \/ \E b \in Byte : Spoken(d)' = Append(Spoken(d), b)
<1> DEFINE s == sent[d]
           t == sent'[d]
<1>1. PICK b \in Byte : sent' = [sent EXCEPT ![d] = Append(@, b)]
  BY DEF Send, Saying
<1>2. s \in Seq(Byte) /\ t = Append(s, b) /\ t \in Seq(Byte)
  BY <1>1 DEF IInv, WsTypeOK
<1>3. CASE d = "up"
  BY <1>2, <1>3 DEF Spoken
<1>4. CASE d = "down"
  <2>1. /\ Spoken(d) = IF HasHead(s) THEN AfterHead(s) ELSE <<>>
        /\ Spoken(d)' = IF HasHead(t) THEN AfterHead(t) ELSE <<>>
    BY <1>4 DEF Spoken, Payload
  <2> HIDE DEF s, t
  <2>2. /\ Len(s) \in Nat /\ Len(t) = Len(s) + 1 /\ Len(s) <= Len(t)
        /\ \A i \in 1..Len(s) : s[i] = t[i]
        /\ t[Len(s) + 1] = b
    BY <1>2
  <2>3. CASE HasHead(s)
    <3> DEFINE u == AfterHead(s)
               v == AfterHead(t)
               h == HeadEnd(s) + 3
    <3>1. HasHead(t) /\ HeadEnd(t) = HeadEnd(s)
      BY <1>2, <2>2, <2>3, HeadStays
    <3>2. h \in Nat /\ h <= Len(s)
      BY <1>2, <2>2, <2>3, HeadEndFact
    <3>3. /\ u \in Seq(Byte) /\ Len(u) = Len(s) - h
          /\ \A i \in 1..Len(u) : u[i] = s[h + i]
      BY <1>2, <2>3, AfterHeadFact, Zenon
    <3>4. /\ v \in Seq(Byte) /\ Len(v) = Len(t) - h
          /\ \A i \in 1..Len(v) : v[i] = t[h + i]
      <4>1. /\ v \in Seq(Byte) /\ Len(v) = Len(t) - (HeadEnd(t) + 3)
            /\ \A i \in 1..Len(v) : v[i] = t[HeadEnd(t) + 3 + i]
        BY <1>2, <3>1, AfterHeadFact, Zenon
      <4> QED BY <3>1, <4>1, Zenon
    <3> HIDE DEF u, v, h
    <3>a. Len(u) \in Nat /\ Len(v) = Len(u) + 1 /\ h + Len(u) = Len(s)
      <4>1. Len(u) = Len(s) - h /\ Len(v) = Len(t) - h /\ Len(t) = Len(s) + 1
        BY <2>2, <3>3, <3>4
      <4> QED BY <2>2, <3>2, <4>1
    <3>5. Append(u, b) \in Seq(Byte) /\ Len(Append(u, b)) = Len(v)
      <4>1. u \in Seq(Byte) /\ b \in Byte
        BY <3>3
      <4> QED BY <3>a, <4>1
    <3>6. ASSUME NEW i \in 1..Len(v) PROVE v[i] = Append(u, b)[i]
      <4>1. CASE i <= Len(u)
        <5>1. i \in 1..Len(u) /\ h + i \in 1..Len(s)
          BY <2>2, <3>2, <3>3, <3>4, <4>1
        <5>2. Append(u, b)[i] = u[i]
          BY <3>3, <5>1
        <5>3. u[i] = s[h + i] /\ v[i] = t[h + i] /\ s[h + i] = t[h + i]
          BY <2>2, <3>3, <3>4, <5>1
        <5> QED BY <5>2, <5>3
      <4>2. CASE ~(i <= Len(u))
        <5>1. i = Len(u) + 1 /\ h + i = Len(s) + 1
          BY <3>2, <3>a, <4>2
        <5> QED BY <2>2, <3>3, <3>4, <5>1
      <4> QED BY <4>1, <4>2
    <3>7. v = Append(u, b)
      BY <3>4, <3>5, <3>6, SeqEqual
    <3> QED BY <2>1, <2>3, <3>1, <3>7 DEF u, v
  <2>4. CASE ~HasHead(s) /\ HasHead(t)
    <3>1. ~(HeadEnd(t) + 3 <= Len(s))
      BY <1>2, <2>2, <2>4, HeadWithin
    <3>2. HeadEnd(t) \in 1..(Len(t) - 3)
      BY <1>2, <2>4, HeadEndFact
    <3>3. AfterHead(t) \in Seq(Byte) /\ Len(AfterHead(t)) = Len(t) - (HeadEnd(t) + 3)
      BY <1>2, <2>4, AfterHeadFact
    <3>4. Len(AfterHead(t)) = 0
      BY <2>2, <3>1, <3>2, <3>3
    <3>5. AfterHead(t) = <<>>
      BY <3>3, <3>4, EmptySeq
    <3> QED BY <2>1, <2>4, <3>5
  <2>5. CASE ~HasHead(s) /\ ~HasHead(t)
    BY <2>1, <2>5
  <2> QED BY <2>3, <2>4, <2>5
<1> QED BY <1>3, <1>4 DEF Dir

-----------------------------------------------------------------------------
(* Each direction implements Stream. *)

StreamStep(d) ==
  \/ /\ ~closed[d] /\ \E b \in Byte : Spoken(d)' = Append(Spoken(d), b)
     /\ out'[d] = out[d] /\ closed'[d] = closed[d] /\ fin'[d] = fin[d]
  \/ /\ ~fin[d]
     /\ \E n \in 1..(Len(Spoken(d)) - Len(out[d])) :
          out'[d] = SubSeq(Spoken(d), 1, Len(out[d]) + n)
     /\ Spoken(d)' = Spoken(d) /\ closed'[d] = closed[d] /\ fin'[d] = fin[d]
  \/ /\ ~closed[d] /\ closed'[d] = TRUE
     /\ Spoken(d)' = Spoken(d) /\ out'[d] = out[d] /\ fin'[d] = fin[d]
  \/ /\ closed[d] /\ ~fin[d] /\ out[d] = Spoken(d) /\ fin'[d] = TRUE
     /\ Spoken(d)' = Spoken(d) /\ out'[d] = out[d] /\ closed'[d] = closed[d]
  \/ /\ Spoken(d)' = Spoken(d) /\ out'[d] = out[d]
     /\ closed'[d] = closed[d] /\ fin'[d] = fin[d]

LEMMA SpokenSame ==
  ASSUME NEW d \in Dir, sent' = sent
  PROVE  Spoken(d)' = Spoken(d)
BY DEF Spoken, Payload

(* What is held is what follows, in what was spoken, all that was delivered. *)
LEMMA HeldNext ==
  ASSUME IInv, NEW d \in Dir, answer = "101"
  PROVE  /\ Len(out[d]) + Len(held[d]) <= Len(Spoken(d))
         /\ \A i \in 1..Len(held[d]) : held[d][i] = Spoken(d)[Len(out[d]) + i]
<1>1. /\ Len(out[d]) \in Nat /\ Len(held[d]) \in Nat /\ got[d] \in Nat
      /\ Len(sent[d]) \in Nat /\ Len(Spoken(d)) \in Nat
  BY OutPrefix DEF IInv, WsTypeOK
<1>2. /\ Len(Spoken(d)) = Len(sent[d]) - Base(d)
      /\ \A i \in 1..Len(Spoken(d)) : Spoken(d)[i] = sent[d][Base(d) + i]
  BY SpokenFact
<1>3. /\ Base(d) \in Nat /\ got[d] <= Len(sent[d])
      /\ Base(d) + Len(out[d]) + Len(held[d]) = got[d]
      /\ \A i \in 1..Len(held[d]) : held[d][i] = sent[d][Base(d) + Len(out[d]) + i]
  BY DEF IInv, Flow
<1> DEFINE b == Base(d)
           p == Len(out[d])
           q == Len(held[d])
           l == Len(Spoken(d))
<1>4. p + q <= l
  <2>1. l = Len(sent[d]) - b /\ b \in Nat /\ got[d] <= Len(sent[d]) /\ b + p + q = got[d]
    BY <1>2, <1>3
  <2> HIDE DEF b, p, q, l
  <2>2. p \in Nat /\ q \in Nat /\ l \in Nat
    BY <1>1 DEF p, q, l
  <2> QED BY <1>1, <2>1, <2>2
<1>5. b \in Nat /\ p \in Nat /\ q \in Nat /\ l \in Nat
  BY <1>1, <1>3
<1> HIDE DEF b, p, q, l
<1>6. ASSUME NEW i \in 1..q
      PROVE  p + i \in 1..l /\ b + (p + i) = b + p + i
  BY <1>4, <1>5
<1> QED BY <1>2, <1>3, <1>4, <1>6, Zenon DEF b, p, q, l

LEMMA PassStream ==
  ASSUME IInv, NEW d \in Dir, NEW n, Pass(d, n), answer = "101"
  PROVE  StreamStep(d)
<1>1. /\ n \in 1..Len(held[d]) /\ out' = [out EXCEPT ![d] = @ \o SubSeq(held[d], 1, n)]
      /\ UNCHANGED <<pc, answer, sent, closed, got, fin>>
  BY DEF Pass
<1>2. ~fin[d]
  BY <1>1 DEF IInv, Phase
<1>3. Spoken(d)' = Spoken(d)
  BY <1>1, SpokenSame
<1> DEFINE o == out[d]
           h == held[d]
           sp == Spoken(d)
           taken == SubSeq(h, 1, n)
           said == SubSeq(sp, 1, Len(o) + n)
<1>4. /\ o \in Seq(Byte) /\ Len(o) \in Nat /\ h \in Seq(Byte) /\ n \in Nat
      /\ 1 <= n /\ n <= Len(h) /\ sp \in Seq(Byte) /\ Len(sp) \in Nat
      /\ Len(h) \in Nat
  BY <1>1, SpokenFact DEF IInv, WsTypeOK
<1>5. /\ Len(o) + Len(h) <= Len(sp)
      /\ \A i \in 1..Len(h) : h[i] = sp[Len(o) + i]
      /\ \A i \in 1..Len(o) : o[i] = sp[i]
  BY HeldNext, OutPrefix
<1>6. out'[d] = o \o taken
  BY <1>1 DEF IInv, WsTypeOK
<1> HIDE DEF o, h, sp, taken, said
<1>7. taken \in Seq(Byte) /\ Len(taken) = n /\ \A i \in 1..n : taken[i] = h[i]
  <2>1. h \in Seq(Byte) /\ n \in 1..Len(h)
    BY <1>4
  <2>2. taken \in Seq(Byte)
    BY <2>1 DEF taken
  <2>3. Len(taken) = n
    BY <2>1 DEF taken
  <2>4. \A i \in 1..n : taken[i] = h[i]
    BY <2>1 DEF taken
  <2> QED BY <2>2, <2>3, <2>4
<1>8. o \o taken \in Seq(Byte) /\ Len(o \o taken) = Len(o) + n
  <2>1. o \in Seq(Byte) /\ taken \in Seq(Byte) /\ Len(taken) = n
    BY <1>4, <1>7
  <2> QED BY <2>1
<1>9. /\ said \in Seq(Byte) /\ Len(said) = Len(o) + n
      /\ \A i \in 1..(Len(o) + n) : said[i] = sp[i]
  <2>1. 1 <= Len(o) + n /\ Len(o) + n <= Len(sp)
    BY <1>4, <1>5
  <2> QED BY <1>4, <2>1 DEF said
<1>10. ASSUME NEW i \in 1..(Len(o) + n) PROVE (o \o taken)[i] = said[i]
  <2>1. CASE i <= Len(o)
    <3>1. i \in 1..Len(o)
      BY <1>4, <2>1
    <3>2. (o \o taken)[i] = o[i]
      BY <1>4, <1>7, <3>1
    <3> QED BY <1>5, <1>9, <3>1, <3>2
  <2>2. CASE ~(i <= Len(o))
    <3>1. /\ i - Len(o) \in 1..n /\ i - Len(o) \in 1..Len(h)
          /\ Len(o) + (i - Len(o)) = i
      BY <1>4, <2>2
    <3>2. (o \o taken)[i] = taken[i - Len(o)]
      BY <1>4, <1>7, <3>1
    <3> QED BY <1>5, <1>7, <1>9, <3>1, <3>2
  <2> QED BY <2>1, <2>2
<1>11. o \o taken = said
  BY <1>8, <1>9, <1>10, SeqEqual
<1>12. n \in 1..(Len(sp) - Len(o))
  BY <1>4, <1>5
<1>13. /\ ~fin[d] /\ Spoken(d)' = Spoken(d) /\ closed'[d] = closed[d] /\ fin'[d] = fin[d]
       /\ n \in 1..(Len(Spoken(d)) - Len(out[d]))
       /\ out'[d] = SubSeq(Spoken(d), 1, Len(out[d]) + n)
  BY <1>1, <1>2, <1>3, <1>6, <1>11, <1>12 DEF o, sp, said
<1> QED BY <1>13 DEF StreamStep

LEMMA PassOther ==
  ASSUME IInv, NEW d \in Dir, NEW e \in Dir, e # d, NEW n, Pass(e, n)
  PROVE  StreamStep(d)
<1>1. Spoken(d)' = Spoken(d)
  BY SpokenSame DEF Pass
<1>2. out'[d] = out[d] /\ closed'[d] = closed[d] /\ fin'[d] = fin[d]
  BY DEF Pass, IInv, WsTypeOK
<1> QED BY <1>1, <1>2 DEF StreamStep

LEMMA StepStream ==
  ASSUME IInv, IInv', NEW d \in Dir, [Next]_vars
  PROVE  StreamStep(d)
<1>1. ASSUME sent' = sent, out'[d] = out[d], closed'[d] = closed[d], fin'[d] = fin[d]
      PROVE  StreamStep(d)
  BY <1>1, SpokenSame DEF StreamStep
<1>2. ASSUME NEW e \in Dir, Send(e) PROVE StreamStep(d)
  <2>1. ~closed[e] /\ UNCHANGED <<out, closed, fin>>
    BY <1>2 DEF Send
  <2>2. CASE e = d
    BY <1>2, <2>1, <2>2, SpokenGrows DEF StreamStep
  <2>3. CASE e # d
    <3>1. sent'[d] = sent[d]
      BY <1>2, <2>3 DEF Send, Saying, IInv, WsTypeOK
    <3>2. Spoken(d)' = Spoken(d)
      BY <3>1 DEF Spoken, Payload, Dir
    <3> QED BY <2>1, <3>2 DEF StreamStep
  <2> QED BY <2>2, <2>3
<1>3. ASSUME NEW e \in Dir, Close(e) PROVE StreamStep(d)
  <2>1. Spoken(d)' = Spoken(d)
    BY <1>3, SpokenSame DEF Close
  <2>2. /\ closed' = [closed EXCEPT ![e] = TRUE] /\ ~closed[e]
        /\ UNCHANGED <<out, fin>>
    BY <1>3 DEF Close
  <2> QED BY <2>1, <2>2 DEF StreamStep, IInv, WsTypeOK
<1>4. ASSUME NEW e \in Dir, Copy(e) PROVE StreamStep(d)
  <2>1. answer = "101"
    BY <1>4 DEF Copy, CopyRead, CopyWrite, CopyEnd, IInv, Phase
  <2>2. ASSUME NEW n \in 1..CopyCap, CopyRead(e, n) PROVE StreamStep(d)
    BY <1>1, <2>2 DEF CopyRead
  <2>3. ASSUME NEW n \in 1..CopyCap, CopyWrite(e, n) PROVE StreamStep(d)
    BY <2>1, <2>3, PassStream, PassOther DEF CopyWrite
  <2>4. CASE CopyEnd(e)
    <3>1. /\ ~fin[e] /\ Drained(e) /\ fin' = [fin EXCEPT ![e] = TRUE]
          /\ UNCHANGED <<sent, closed, out>>
      BY <2>4 DEF CopyEnd
    <3>2. CASE e = d
      <4>1. out[d] = Spoken(d)
        BY <2>1, <3>1, <3>2, DrainedDelivered DEF Drained
      <4>2. Spoken(d)' = Spoken(d)
        BY <3>1, SpokenSame
      <4>3. fin'[d] = TRUE
        BY <3>1, <3>2 DEF IInv, WsTypeOK
      <4> QED BY <3>1, <3>2, <4>1, <4>2, <4>3 DEF StreamStep, Drained
    <3>3. CASE e # d
      <4>1. fin'[d] = fin[d]
        BY <3>1, <3>3 DEF IInv, WsTypeOK
      <4> QED BY <1>1, <3>1, <4>1
    <3> QED BY <3>2, <3>3
  <2> QED BY <1>4, <2>2, <2>3, <2>4 DEF Copy
<1>5. CASE Flushing
  <2>1. PICK n \in 1..Chunk : Flush(n)
    BY <1>5 DEF Flushing
  <2>2. answer = "101" /\ Pass("down", n) /\ "down" \in Dir
    BY <2>1 DEF Flush, IInv, Phase, Dir
  <2> QED BY <2>2, PassStream, PassOther
<1>6. CASE ClientGone \/ StartCopy \/ PipeError \/ UNCHANGED vars
  BY <1>1, <1>6 DEF ClientGone, StartCopy, PipeError, Break, vars
<1>7. CASE Dial \/ Ask \/ ReadNone \/ ReadError \/ Upgrade
  BY <1>1, <1>7 DEF Dial, Ask, ReadNone, ReadError, Upgrade, Break, Refuse
<1>8. CASE Reading
  BY <1>1, <1>8 DEF Reading, ReadHead, Refuse
<1> QED BY <1>2, <1>3, <1>4, <1>5, <1>6, <1>7, <1>8 DEF Next

-----------------------------------------------------------------------------
(* What is read, held and delivered always adds up to what was sent, and   *)
(* each phase of relay_websocket and pipe_after_upgrade holds what it      *)
(* should.                                                                 *)
THEOREM WsInvariant == Spec => []IInv
<1> QED BY InitInv, StepInv, PTL DEF Spec

(* Whatever the upstream sends as its head, every buffer of the relay      *)
(* (relay.rs:303, 371) stays within its bound.                             *)
THEOREM WsTypeInvariant == Spec => []WsTypeOK
<1>1. IInv => WsTypeOK
  BY DEF IInv
<1> QED BY <1>1, WsInvariant, PTL

(* The limit of relay.rs:321 is on the head, and is off by less than a chunk. *)
THEOREM HeadLimitHolds == Spec => []HeadLimit
<1>1. IInv => HeadLimit
  BY DEF IInv
<1> QED BY <1>1, WsInvariant, PTL

(* A copy that returns Ok (relay.rs:400) has delivered both streams whole. *)
THEOREM OrderlyEnd == Spec => []OrderlyEndLosesNothing
<1>1. IInv => OrderlyEndLosesNothing
  <2> SUFFICES ASSUME IInv, pc = "closed", NEW d \in Dir
               PROVE  closed[d] /\ out[d] = Spoken(d)
    BY DEF OrderlyEndLosesNothing
  <2>1. answer = "101" /\ closed[d] /\ got[d] = Len(sent[d]) /\ held[d] = <<>>
    BY DEF IInv, Phase
  <2> QED BY <2>1, DrainedDelivered
<1> QED BY <1>1, WsInvariant, PTL

(* What the client gets after its 101 is the upstream's stream: the leftover *)
(* of the head first, then the copy (relay.rs:371, 393, 399).                *)
THEOREM DownImplementsStream == Spec => DownStream
<1>1. Init => Down!Init
  <2> SUFFICES ASSUME Init PROVE Down!Init
    OBVIOUS
  <2>1. sent["down"] = <<>> /\ out["down"] = <<>> /\ closed["down"] = FALSE
        /\ fin["down"] = FALSE
    BY DEF Init, Dir
  <2>2. Payload = <<>>
    BY <2>1 DEF Payload, HasHead
  <2> QED BY <2>1, <2>2 DEF Down!Init
<1>2. IInv /\ IInv' /\ [Next]_vars
        => [Down!Next]_<<Payload, out["down"], closed["down"], fin["down"]>>
  <2> SUFFICES ASSUME IInv, IInv', [Next]_vars
               PROVE  [Down!Next]_<<Payload, out["down"], closed["down"], fin["down"]>>
    OBVIOUS
  <2>1. StreamStep("down")
    BY StepStream DEF Dir
  <2>2. Spoken("down") = Payload /\ Spoken("down")' = Payload'
    BY DEF Spoken
  <2> QED BY <2>1, <2>2 DEF StreamStep, Down!Next, Down!Say, Down!Hear, Down!Close,
            Down!Finish
<1> QED BY <1>1, <1>2, WsInvariant, PTL DEF Spec, DownStream, Down!Spec

(* And what the upstream gets after the request is the client's stream. *)
THEOREM UpImplementsStream == Spec => UpStream
<1>1. Init => Up!Init
  BY DEF Init, Dir, Up!Init
<1>2. IInv /\ IInv' /\ [Next]_vars
        => [Up!Next]_<<sent["up"], out["up"], closed["up"], fin["up"]>>
  <2> SUFFICES ASSUME IInv, IInv', [Next]_vars
               PROVE  [Up!Next]_<<sent["up"], out["up"], closed["up"], fin["up"]>>
    OBVIOUS
  <2>1. StreamStep("up")
    BY StepStream DEF Dir
  <2>2. Spoken("up") = sent["up"] /\ Spoken("up")' = sent'["up"]
    BY DEF Spoken
  <2> QED BY <2>1, <2>2 DEF StreamStep, Up!Next, Up!Say, Up!Hear, Up!Close, Up!Finish
<1> QED BY <1>1, <1>2, WsInvariant, PTL DEF Spec, UpStream, Up!Spec

-----------------------------------------------------------------------------
(* The end of the connection: the part of BothEndedIsOver that is safety.  *)

LEMMA TodoTypes ==
  ASSUME IInv, NEW d \in Dir
  PROVE  /\ Len(sent[d]) \in Nat /\ Len(held[d]) \in Nat /\ got[d] \in Nat
         /\ got[d] <= Len(sent[d]) /\ Todo(d) \in Nat
<1>1. /\ Len(sent[d]) \in Nat /\ Len(held[d]) \in Nat /\ got[d] \in Nat
      /\ got[d] <= Len(sent[d])
  BY DEF IInv, WsTypeOK, Flow
<1> QED BY <1>1 DEF Todo

LEMMA StageTypes == Stage \in 0..6
  BY DEF Stage

\* A step that uses up work of direction d and makes none.
Uses(d) ==
  /\ Todo(d)' < Todo(d) /\ Stage' <= Stage
  /\ \A e \in Dir : e # d => Todo(e)' = Todo(e)

\* k bytes are read, and what is held is at most k longer.
LEMMA Moved ==
  ASSUME IInv, IInv', NEW d \in Dir, NEW k \in Nat,
         UNCHANGED <<sent, fin>>, Stage' <= Stage,
         \A e \in Dir : e # d => got'[e] = got[e] /\ held'[e] = held[e],
         got'[d] = got[d] + k, Len(held'[d]) <= Len(held[d]) + k,
         k = 0 => Len(held'[d]) < Len(held[d])
  PROVE  Uses(d)
<1>1. /\ Len(sent[d]) \in Nat /\ Len(held[d]) \in Nat /\ got[d] \in Nat
      /\ got[d] <= Len(sent[d])
  BY TodoTypes
<1>2. Len(held'[d]) \in Nat
  BY DEF IInv, WsTypeOK
<1>3. Todo(d)' < Todo(d)
  <2> DEFINE f == IF fin[d] THEN 0 ELSE 1
  <2>1. /\ Todo(d) = 2 * (Len(sent[d]) - got[d]) + Len(held[d]) + f
        /\ Todo(d)' = 2 * (Len(sent[d]) - got'[d]) + Len(held'[d]) + f
    BY DEF Todo
  <2>2. f \in Nat
    OBVIOUS
  <2> DEFINE l == Len(sent[d])
             g == got[d]
             h == Len(held[d])
             i == Len(held'[d])
  <2>3. Todo(d) = 2 * (l - g) + h + f /\ Todo(d)' = 2 * (l - (g + k)) + i + f
    BY <2>1
  <2>4. /\ l \in Nat /\ g \in Nat /\ h \in Nat /\ i \in Nat /\ i <= h + k
        /\ k = 0 => i < h
    BY <1>1, <1>2
  <2> HIDE DEF f, l, g, h, i
  <2>5. 2 * (l - (g + k)) + i + f < 2 * (l - g) + h + f
    BY <2>2, <2>4
  <2> QED BY <2>3, <2>5
<1>4. \A e \in Dir : e # d => Todo(e)' = Todo(e)
  BY DEF Todo
<1> QED BY <1>3, <1>4 DEF Uses

LEMMA SettlesUses ==
  Settles => Stage' < Stage /\ \A d \in Dir : Todo(d)' = Todo(d)
  BY DEF Settles, Stage, Todo

LEMMA ReadHeadUses ==
  ASSUME IInv, IInv', NEW n \in 1..Chunk, ReadHead(n)
  PROVE  Uses("down")
<1> USE DEF Dir
<1>1. /\ pc = "reading" /\ got' = [got EXCEPT !["down"] = @ + n] /\ n \in Nat /\ n >= 1
      /\ \E h : held' = [held EXCEPT !["down"] = h]
      /\ UNCHANGED <<sent, fin, out>>
      /\ pc' \in {"upgrading", "refused", "reading"}
  BY RelayAssumption DEF ReadHead, Refuse
<1>2. /\ got'["down"] = got["down"] + n
      /\ \A e \in Dir : e # "down" => got'[e] = got[e] /\ held'[e] = held[e]
  BY <1>1 DEF IInv, WsTypeOK
<1>3. answer = "none" /\ out["down"] = <<>>
  BY <1>1 DEF IInv, Phase
<1>4. Len(held'["down"]) <= got'["down"] /\ Len(held["down"]) = got["down"]
  <2>1. Base("down") = 0 /\ Len(out["down"]) = 0 /\ Len(out'["down"]) = 0
    BY <1>1, <1>3 DEF Base
  <2>2. /\ Base("down") + Len(out["down"]) + Len(held["down"]) = got["down"]
        /\ Base("down")' \in Nat
        /\ Base("down")' + Len(out'["down"]) + Len(held'["down"]) = got'["down"]
    BY DEF IInv, Flow
  <2>3. Len(held["down"]) \in Nat /\ Len(held'["down"]) \in Nat
    BY DEF IInv, WsTypeOK
  <2> QED BY <2>1, <2>2, <2>3
<1>5. Len(held'["down"]) <= Len(held["down"]) + n
  BY <1>2, <1>4
<1>6. Stage' <= Stage
  BY <1>1 DEF Stage
<1> QED BY <1>1, <1>2, <1>5, <1>6, Moved

LEMMA PassUses ==
  ASSUME IInv, IInv', NEW d \in Dir, NEW n, Pass(d, n)
  PROVE  Uses(d)
<1>1. n \in 1..Len(held[d]) /\ UNCHANGED <<pc, sent, got, fin>>
  BY DEF Pass
<1>2. Len(held'[d]) \in Nat /\ Len(held'[d]) < Len(held[d])
  BY <1>1, PassFlow
<1>3. \A e \in Dir : e # d => held'[e] = held[e]
  BY DEF Pass, IInv, WsTypeOK
<1>4. got[d] + 0 = got[d] /\ Len(held[d]) + 0 = Len(held[d]) /\ Len(held[d]) \in Nat
  BY TodoTypes
<1>5. Stage' <= Stage
  BY <1>1, StageTypes DEF Stage
<1>6. got'[d] = got[d] + 0 /\ Len(held'[d]) <= Len(held[d]) + 0
  BY <1>1, <1>2, <1>4
<1> QED BY <1>1, <1>2, <1>3, <1>5, <1>6, Moved

LEMMA CopyReadUses ==
  ASSUME IInv, IInv', NEW d \in Dir, NEW n \in 1..CopyCap, CopyRead(d, n)
  PROVE  Uses(d)
<1>1. /\ UNCHANGED <<pc, answer, sent, out, fin>> /\ n \in Nat /\ n >= 1
      /\ got'[d] = got[d] + n
      /\ \A e \in Dir : e # d => got'[e] = got[e] /\ held'[e] = held[e]
  BY RelayAssumption DEF CopyRead, IInv, WsTypeOK
<1>2. Len(held'[d]) = Len(held[d]) + n
  <2>1. Base(d)' = Base(d)
    BY <1>1 DEF Base
  <2>2. /\ Base(d) \in Nat /\ Base(d) + Len(out[d]) + Len(held[d]) = got[d]
        /\ Base(d)' + Len(out'[d]) + Len(held'[d]) = got'[d]
    BY DEF IInv, Flow
  <2>3. Len(out[d]) \in Nat /\ Len(held[d]) \in Nat /\ Len(held'[d]) \in Nat /\ out' = out
    BY <1>1 DEF IInv, WsTypeOK
  <2> DEFINE b == Base(d)
             o == Len(out[d])
             h == Len(held[d])
             i == Len(held'[d])
  <2>4. b \in Nat /\ o \in Nat /\ h \in Nat /\ i \in Nat /\ b + o + i = (b + o + h) + n
    BY <1>1, <2>1, <2>2, <2>3
  <2> HIDE DEF b, o, h, i
  <2>5. i = h + n
    BY <1>1, <2>4
  <2> QED BY <2>5 DEF h, i
<1>3. Stage' <= Stage
  BY <1>1, StageTypes DEF Stage
<1>4. Len(held'[d]) <= Len(held[d]) + n
  BY <1>2, TodoTypes, <1>1
<1> QED BY <1>1, <1>3, <1>4, Moved

LEMMA CopyEndUses ==
  ASSUME IInv, NEW d \in Dir, CopyEnd(d)
  PROVE  Uses(d)
<1>1. /\ pc = "copying" /\ ~fin[d] /\ UNCHANGED <<sent, got, held>>
      /\ fin' = [fin EXCEPT ![d] = TRUE] /\ pc' \in {"closed", "copying"}
  BY DEF CopyEnd
<1>2. fin'[d] /\ \A e \in Dir : e # d => fin'[e] = fin[e]
  BY <1>1 DEF IInv, WsTypeOK
<1>3. Stage' <= Stage
  BY <1>1 DEF Stage
<1>4. Todo(d)' < Todo(d)
  <2> DEFINE x == 2 * (Len(sent[d]) - got[d]) + Len(held[d])
  <2>1. Todo(d) = x + 1 /\ Todo(d)' = x + 0
    BY <1>1, <1>2 DEF Todo
  <2>2. x \in Nat
    BY TodoTypes
  <2> HIDE DEF x
  <2> QED BY <2>1, <2>2
<1> QED BY <1>1, <1>2, <1>3, <1>4 DEF Uses, Todo

LEMMA RemainingShrinks ==
  ASSUME IInv, IInv', Next, BothEnded
  PROVE  0 <= Remaining' /\ Remaining' < Remaining
<1>1. Settles \/ \E d \in Dir : Uses(d)
  <2>1. \A d \in Dir : ~Send(d) /\ ~Close(d)
    BY DEF Send, Close, BothEnded
  <2>2. ASSUME NEW d \in Dir, Copy(d) PROVE Uses(d)
    BY <2>2, CopyReadUses, PassUses, CopyEndUses DEF Copy, CopyWrite
  <2>3. CASE ClientGone \/ Dial \/ Ask \/ ReadNone \/ ReadError \/ Upgrade \/ StartCopy
               \/ PipeError
    BY <2>3 DEF ClientGone, Dial, Ask, ReadNone, ReadError, Upgrade, StartCopy, PipeError,
                Refuse, Break, Settles
  <2>4. CASE Reading
    BY <2>4, ReadHeadUses DEF Reading, Dir
  <2>5. CASE Flushing
    BY <2>5, PassUses DEF Flushing, Flush, Dir
  <2> QED BY <2>1, <2>2, <2>3, <2>4, <2>5 DEF Next
<1>2. /\ \A d \in Dir : Todo(d) \in Nat /\ Todo(d)' \in Nat
      /\ Stage \in Nat /\ Stage' \in Nat
  <2>1. (\A d \in Dir : Todo(d) \in Nat) /\ Stage \in Nat
    BY TodoTypes, StageTypes
  <2>2. ASSUME NEW d \in Dir PROVE Todo(d)' \in Nat
    <3>0. sent'[d] \in Seq(Byte) /\ held'[d] \in Seq(Byte) /\ got'[d] \in Nat
      BY DEF IInv, WsTypeOK
    <3>1. /\ Len(sent'[d]) \in Nat /\ Len(held'[d]) \in Nat /\ got'[d] \in Nat
          /\ got'[d] <= Len(sent'[d])
      BY <3>0 DEF IInv, Flow
    <3> DEFINE f == IF fin'[d] THEN 0 ELSE 1
    <3>2. Todo(d)' = 2 * (Len(sent'[d]) - got'[d]) + Len(held'[d]) + f /\ f \in Nat
      BY DEF Todo
    <3> DEFINE l == Len(sent'[d])
               g == got'[d]
               h == Len(held'[d])
    <3>3. l \in Nat /\ g \in Nat /\ h \in Nat /\ g <= l /\ f \in Nat
      BY <3>1
    <3>4. Todo(d)' = 2 * (l - g) + h + f
      BY <3>2
    <3> HIDE DEF f, l, g, h
    <3> QED BY <3>3, <3>4
  <2>3. Stage' \in Nat
    BY DEF Stage
  <2> QED BY <2>1, <2>2, <2>3
<1>3. CASE Settles
  BY <1>2, <1>3, SettlesUses DEF Remaining, Dir
<1>4. ASSUME NEW d \in Dir, Uses(d) PROVE 0 <= Remaining' /\ Remaining' < Remaining
  BY <1>2, <1>4 DEF Uses, Remaining, Dir
<1> QED BY <1>1, <1>3, <1>4

(* Once both sides have ended the connection has a number of steps left    *)
(* that no step can raise: no phase comes back, nothing is read twice, and *)
(* no buffer is filled again (relay_websocket, pipe_after_upgrade).        *)
THEOREM EndIsBounded == Spec => WindsDown
<1>1. IInv /\ IInv' /\ [Next]_vars
        => [BothEnded => 0 <= Remaining' /\ Remaining' < Remaining]_vars
  BY RemainingShrinks
<1> QED BY <1>1, WsInvariant, PTL DEF Spec, WindsDown
=============================================================================
