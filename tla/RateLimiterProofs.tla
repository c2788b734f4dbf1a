------------------------- MODULE RateLimiterProofs -------------------------
(***************************************************************************)
(* Proofs about RateLimiter for any set of keys, any window, any maximum   *)
(* and any length of the history.                                          *)
(***************************************************************************)
EXTENDS RateLimiter, FiniteSetTheorems, TLAPS

USE LimiterAssumption

-----------------------------------------------------------------------------
(* The inductive invariant.  What makes the bound hold is that the code    *)
(* never forgets an admission that is still in the window (NoneLost), so   *)
(* the entry it counts is the whole window, and that every earlier window  *)
(* was full at most (WindowsFull).                                         *)

IdsBelow == \A k \in Key : /\ IsFiniteSet(admitted[k])
                           /\ \A a \in admitted[k] : a.id < Cardinality(admitted[k])
NoneLost == \A k \in Key : \A a \in admitted[k] : now < a.at + Window => a \in attempts[k]
WindowsFull ==
  \A k \in Key : \A t \in Nat : Cardinality(Between(k, t, t + Window)) <= MaxAttempts

IInv == LimiterTypeOK /\ IdsBelow /\ NoneLost /\ WindowsFull /\ RefusedOnlyWhenFull

LEMMA InitInv == Init => IInv
<1> SUFFICES ASSUME Init PROVE IInv
  OBVIOUS
<1>1. \A t \in Nat, k \in Key : Between(k, t, t + Window) = {}
  BY DEF Init, Between
<1> QED BY <1>1, FS_EmptySet
        DEF Init, IInv, LimiterTypeOK, IdsBelow, NoneLost, WindowsFull, RefusedOnlyWhenFull

-----------------------------------------------------------------------------
(* The entry after retain is exactly what the window holds.                *)
LEMMA KeptIsTheWindow ==
  ASSUME IInv, NEW k \in Key
  PROVE  /\ Kept(k) = {a \in admitted[k] : now < a.at + Window}
         /\ Kept(k) \subseteq attempts[k]
         /\ Kept(k) \subseteq admitted[k]
         /\ IsFiniteSet(Kept(k)) /\ IsFiniteSet(admitted[k])
         /\ Cardinality(Kept(k)) \in Nat /\ Cardinality(admitted[k]) \in Nat
         /\ Cardinality(Kept(k)) <= MaxAttempts
<1>1. /\ now \in Nat /\ attempts[k] \subseteq admitted[k] /\ admitted[k] \subseteq Admission
      /\ \A a \in admitted[k] : a.at <= now
      /\ Cardinality(attempts[k]) <= MaxAttempts
  BY DEF IInv, LimiterTypeOK
<1>2. \A a \in admitted[k] : a.at \in Nat /\ (now - a.at < Window <=> now < a.at + Window)
  BY <1>1 DEF Admission
<1>3. Kept(k) = {a \in admitted[k] : now < a.at + Window}
  BY <1>1, <1>2 DEF Kept, InWindow, IInv, NoneLost
<1>4. Kept(k) \subseteq attempts[k]
  BY DEF Kept
<1>5. IsFiniteSet(admitted[k]) /\ IsFiniteSet(attempts[k])
  BY <1>1, FS_Subset DEF IInv, IdsBelow
<1>6. IsFiniteSet(Kept(k)) /\ Cardinality(Kept(k)) <= Cardinality(attempts[k])
  BY <1>4, <1>5, FS_Subset
<1>7. /\ Cardinality(Kept(k)) \in Nat /\ Cardinality(admitted[k]) \in Nat
      /\ Cardinality(attempts[k]) \in Nat
  BY <1>5, <1>6, FS_CardinalityType
<1>8. Cardinality(Kept(k)) <= MaxAttempts
  BY <1>1, <1>6, <1>7
<1> QED BY <1>1, <1>3, <1>4, <1>5, <1>6, <1>7, <1>8

LEMMA FreshCall ==
  ASSUME IInv, NEW k \in Key
  PROVE  ThisCall(k) \in Admission /\ ThisCall(k) \notin admitted[k]
<1>1. Cardinality(admitted[k]) \in Nat /\ now \in Nat
  BY KeptIsTheWindow DEF IInv, LimiterTypeOK
<1>2. \A a \in admitted[k] : a.id < Cardinality(admitted[k])
  BY DEF IInv, IdsBelow
<1> QED BY <1>1, <1>2 DEF ThisCall, Admission

-----------------------------------------------------------------------------
(* A refused call only drops what has left the window.                     *)
LEMMA RefusedStep ==
  ASSUME IInv, NEW k \in Key, Full(Kept(k)), UNCHANGED <<now, admitted>>,
         attempts' = [attempts EXCEPT ![k] = Kept(k)], refused' = refused \cup {k}
  PROVE  IInv'
<1>1. LimiterTypeOK'
  <2>1. Kept(k) \in SUBSET Admission
    BY KeptIsTheWindow DEF IInv, LimiterTypeOK
  <2>2. attempts' \in [Key -> SUBSET Admission]
    BY <2>1 DEF IInv, LimiterTypeOK
  <2>3. \A j \in Key : /\ attempts'[j] \subseteq admitted[j]
                       /\ Cardinality(attempts'[j]) <= MaxAttempts
    BY KeptIsTheWindow DEF IInv, LimiterTypeOK
  <2> QED BY <2>2, <2>3 DEF IInv, LimiterTypeOK
<1>2. NoneLost'
  BY KeptIsTheWindow DEF IInv, NoneLost, LimiterTypeOK
<1>3. RefusedOnlyWhenFull'
  <2>1. Cardinality({a \in admitted[k] : now < a.at + Window}) = MaxAttempts
    BY KeptIsTheWindow DEF Full
  <2> QED BY <2>1 DEF IInv, RefusedOnlyWhenFull
<1> QED BY <1>1, <1>2, <1>3 DEF IInv, IdsBelow, WindowsFull, Between

-----------------------------------------------------------------------------
(* An admitted call adds itself to the entry and to the history.           *)
Admit(k) ==
  /\ ~Full(Kept(k))
  /\ attempts' = [attempts EXCEPT ![k] = Kept(k) \cup {ThisCall(k)}]
  /\ admitted' = [admitted EXCEPT ![k] = @ \cup {ThisCall(k)}]
  /\ refused' = refused \ {k}
  /\ UNCHANGED now

LEMMA AdmitGrows ==
  ASSUME IInv, NEW k \in Key, Admit(k)
  PROVE  /\ admitted'[k] = admitted[k] \cup {ThisCall(k)}
         /\ attempts'[k] = Kept(k) \cup {ThisCall(k)}
         /\ \A j \in Key \ {k} : admitted'[j] = admitted[j] /\ attempts'[j] = attempts[j]
         /\ IsFiniteSet(admitted'[k])
         /\ Cardinality(admitted'[k]) = Cardinality(admitted[k]) + 1
         /\ IsFiniteSet(attempts'[k])
         /\ Cardinality(attempts'[k]) <= MaxAttempts
<1>1. /\ admitted'[k] = admitted[k] \cup {ThisCall(k)}
      /\ attempts'[k] = Kept(k) \cup {ThisCall(k)}
      /\ \A j \in Key \ {k} : admitted'[j] = admitted[j] /\ attempts'[j] = attempts[j]
  BY DEF Admit, IInv, LimiterTypeOK
<1>2. ThisCall(k) \notin admitted[k] /\ ThisCall(k) \notin Kept(k)
  BY FreshCall, KeptIsTheWindow
<1>3. /\ IsFiniteSet(admitted'[k])
      /\ Cardinality(admitted'[k]) = Cardinality(admitted[k]) + 1
  BY <1>1, <1>2, KeptIsTheWindow, FS_AddElement
<1>4. /\ IsFiniteSet(attempts'[k])
      /\ Cardinality(attempts'[k]) = Cardinality(Kept(k)) + 1
  BY <1>1, <1>2, KeptIsTheWindow, FS_AddElement
<1>5. Cardinality(Kept(k)) + 1 <= MaxAttempts
  BY KeptIsTheWindow DEF Admit, Full
<1> QED BY <1>1, <1>3, <1>4, <1>5

(* A window that contains the call lies within the entry, because whatever *)
(* it contains is less than one window old; any other window is untouched. *)
LEMMA AdmitWindows ==
  ASSUME IInv, NEW k \in Key, Admit(k)
  PROVE  WindowsFull'
<1> SUFFICES ASSUME NEW j \in Key, NEW t \in Nat
             PROVE  Cardinality(Between(j, t, t + Window)') <= MaxAttempts
  BY DEF WindowsFull, Between
<1> DEFINE W == {a \in admitted'[j] : t <= a.at /\ a.at < t + Window}
<1>0. Between(j, t, t + Window)' = W
  BY DEF Between
<1>1. now \in Nat /\ ThisCall(k).at = now
  BY DEF IInv, LimiterTypeOK, ThisCall
<1>2. Cardinality(Between(j, t, t + Window)) <= MaxAttempts
  BY DEF IInv, WindowsFull
<1>3. CASE j = k /\ t <= now /\ now < t + Window
  <2>1. \A a \in admitted[k] : a.at \in Nat
    BY DEF IInv, LimiterTypeOK, Admission
  <2>2. \A a \in admitted[k] : t <= a.at => now < a.at + Window
    BY <1>1, <1>3, <2>1
  <2>3. W \subseteq attempts'[k]
    <3>1. ASSUME NEW a \in W PROVE a \in attempts'[k]
      <4>1. a \in admitted[k] \cup {ThisCall(k)} /\ t <= a.at
        BY <1>3, AdmitGrows
      <4>2. a \in admitted[k] => a \in Kept(k)
        BY <2>2, <4>1, KeptIsTheWindow
      <4> QED BY <4>1, <4>2, AdmitGrows
    <3> HIDE DEF W
    <3> QED BY <3>1
  <2>4. IsFiniteSet(W) /\ Cardinality(W) <= Cardinality(attempts'[k])
    BY <2>3, AdmitGrows, FS_Subset
  <2>5. Cardinality(W) \in Nat /\ Cardinality(attempts'[k]) \in Nat
    BY <2>4, AdmitGrows, FS_CardinalityType
  <2>6. Cardinality(attempts'[k]) <= MaxAttempts
    BY AdmitGrows
  <2> HIDE DEF W
  <2>7. Cardinality(W) <= MaxAttempts
    BY <2>4, <2>5, <2>6
  <2> QED BY <1>0, <2>7
<1>4. CASE ~(j = k /\ t <= now /\ now < t + Window)
  <2>1. W = Between(j, t, t + Window)
    BY <1>1, <1>4, AdmitGrows DEF Between
  <2> QED BY <1>0, <1>2, <2>1
<1> QED BY <1>3, <1>4

LEMMA AdmitStep ==
  ASSUME IInv, NEW k \in Key, Admit(k)
  PROVE  IInv'
<1>1. ThisCall(k) \in Admission /\ ThisCall(k).at = now /\ now' = now /\ now \in Nat
  BY FreshCall DEF ThisCall, Admit, IInv, LimiterTypeOK
<1>2. LimiterTypeOK'
  <2>1. Kept(k) \subseteq admitted[k] /\ admitted[k] \in SUBSET Admission
    BY KeptIsTheWindow DEF IInv, LimiterTypeOK
  <2>2. attempts' \in [Key -> SUBSET Admission] /\ admitted' \in [Key -> SUBSET Admission]
    BY <1>1, <2>1 DEF Admit, IInv, LimiterTypeOK
  <2>3. \A j \in Key : /\ attempts'[j] \subseteq admitted'[j]
                       /\ Cardinality(attempts'[j]) <= MaxAttempts
    BY <2>1, AdmitGrows DEF IInv, LimiterTypeOK
  <2>4. \A j \in Key : \A a \in admitted'[j] : a.at <= now
    BY <1>1, AdmitGrows DEF IInv, LimiterTypeOK
  <2>5. refused' \subseteq Key
    BY DEF Admit, IInv, LimiterTypeOK
  <2> QED BY <1>1, <2>2, <2>3, <2>4, <2>5 DEF LimiterTypeOK
<1>3. IdsBelow'
  <2> SUFFICES ASSUME NEW j \in Key
               PROVE  /\ IsFiniteSet(admitted'[j])
                      /\ \A a \in admitted'[j] : a.id < Cardinality(admitted'[j])
    BY DEF IdsBelow
  <2>1. CASE j = k
    <3>1. Cardinality(admitted[k]) \in Nat
      BY KeptIsTheWindow
    <3>2. \A a \in admitted[k] : a.id \in Nat /\ a.id < Cardinality(admitted[k])
      BY DEF IInv, IdsBelow, LimiterTypeOK, Admission
    <3>3. ThisCall(k).id = Cardinality(admitted[k])
      BY DEF ThisCall
    <3> QED BY <2>1, <3>1, <3>2, <3>3, AdmitGrows
  <2>2. CASE j # k
    BY <2>2, AdmitGrows DEF IInv, IdsBelow
  <2> QED BY <2>1, <2>2
<1>4. NoneLost'
  BY <1>1, AdmitGrows, KeptIsTheWindow DEF IInv, NoneLost
<1>5. RefusedOnlyWhenFull'
  <2>1. \A j \in refused' : j \in refused /\ j \in Key \ {k}
    BY DEF Admit, IInv, LimiterTypeOK
  <2> QED BY <1>1, <2>1, AdmitGrows DEF IInv, RefusedOnlyWhenFull
<1> QED BY <1>2, <1>3, <1>4, <1>5, AdmitWindows DEF IInv

-----------------------------------------------------------------------------
LEMMA TickStep == ASSUME IInv, Tick PROVE IInv'
<1>1. now \in Nat /\ now' = now + 1 /\ admitted' = admitted /\ attempts' = attempts
  BY DEF IInv, LimiterTypeOK, Tick
<1>2. \A k \in Key : \A a \in admitted[k] : a.at \in Nat /\ a.at <= now
  BY DEF IInv, LimiterTypeOK, Admission
<1>3. LimiterTypeOK'
  <2>1. \A k \in Key : \A a \in admitted[k] : a.at <= now'
    BY <1>1, <1>2
  <2> QED BY <1>1, <2>1 DEF IInv, LimiterTypeOK, Tick
<1>4. NoneLost'
  <2>1. \A k \in Key : \A a \in admitted[k] : now' < a.at + Window => now < a.at + Window
    BY <1>1, <1>2
  <2> QED BY <1>1, <2>1 DEF IInv, NoneLost
<1>5. IdsBelow' /\ WindowsFull' /\ RefusedOnlyWhenFull'
  BY <1>1 DEF IInv, IdsBelow, WindowsFull, Between, RefusedOnlyWhenFull, Tick
<1> QED BY <1>3, <1>4, <1>5 DEF IInv

LEMMA RestartStep == ASSUME IInv, Restart PROVE IInv'
<1>1. \A k \in Key : admitted'[k] = {} /\ attempts'[k] = {}
  BY DEF Restart
<1>2. \A k \in Key, t \in Nat : Between(k, t, t + Window)' = {}
  BY <1>1 DEF Between
<1>3. WindowsFull'
  BY <1>2, FS_EmptySet DEF WindowsFull
<1>4. LimiterTypeOK' /\ IdsBelow' /\ NoneLost' /\ RefusedOnlyWhenFull'
  BY <1>1, FS_EmptySet
     DEF Restart, IInv, LimiterTypeOK, IdsBelow, NoneLost, RefusedOnlyWhenFull
<1> QED BY <1>3, <1>4 DEF IInv

LEMMA NextInv == IInv /\ [Next]_vars => IInv'
<1> SUFFICES ASSUME IInv, [Next]_vars PROVE IInv'
  OBVIOUS
<1>1. ASSUME NEW k \in Key, Allow(k) PROVE IInv'
  BY <1>1, RefusedStep, AdmitStep DEF Allow, Admit
<1>2. CASE UNCHANGED vars
  BY <1>2 DEF vars, IInv, LimiterTypeOK, IdsBelow, NoneLost, WindowsFull, Between,
              RefusedOnlyWhenFull
<1> QED BY <1>1, <1>2, TickStep, RestartStep DEF Next

(* The entry LoginRateLimiter::allow counts is the whole window, at every  *)
(* instant and for every key.                                              *)
THEOREM LimiterInvariant == Spec => []IInv
  BY InitInv, NextInv, PTL DEF Spec

(* An entry never grows past the maximum, however often a key calls, and   *)
(* holds nothing but admissions that happened (LoginRateLimiter::allow).   *)
THEOREM LimiterTypeCorrect == Spec => []LimiterTypeOK
<1>1. IInv => LimiterTypeOK
  BY DEF IInv
<1> QED BY <1>1, LimiterInvariant, PTL

(* No window, wherever it begins, admits more than the maximum.            *)
THEOREM WindowBounded == Spec => []WindowBound
<1>1. IInv => WindowBound
  BY DEF IInv, LimiterTypeOK, WindowsFull, WindowBound
<1> QED BY <1>1, LimiterInvariant, PTL

(* A refusal means that the key has used its whole window up: refused      *)
(* calls, other keys and attempts one window old never count.              *)
THEOREM NeverRefusedEarly == Spec => []RefusedOnlyWhenFull
<1>1. IInv => RefusedOnlyWhenFull
  BY DEF IInv
<1> QED BY <1>1, LimiterInvariant, PTL
=============================================================================
