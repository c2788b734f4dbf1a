---------------------------- MODULE RateLimiter ----------------------------
(***************************************************************************)
(* The sliding-window limiter of src/auth.rs (LoginRateLimiter), of which  *)
(* the gateway has three: logins (8 in 300 s), pairing (20 in 300 s) and   *)
(* the tenants' admin face (its own limits).  allow runs under one lock    *)
(* and reads the clock inside it, so a call is one step and the instants   *)
(* of an entry never run backwards.  The Vec of an entry is modelled as    *)
(* the set of its admissions, each with a number of its own (two may fall  *)
(* on the same instant); the code never looks at their order.              *)
(***************************************************************************)
EXTENDS Naturals, FiniteSets

CONSTANTS
  Key,           \* client addresses ("web:" ones are keys of their own)
  Window,        \* length of the window
  MaxAttempts,   \* admissions in a window
  MaxTime,       \* bound on the clock
  MaxTotal       \* bound on the admissions of one key that the history keeps

ASSUME LimiterAssumption ==
  Window \in Nat \ {0} /\ MaxAttempts \in Nat /\ MaxTime \in Nat /\ MaxTotal \in Nat

VARIABLES
  now,
  attempts,   \* Key -> the admissions kept for it
  admitted,   \* history: Key -> every admission since the start
  refused     \* history: the keys whose last call was refused, at this instant

vars == <<now, attempts, admitted, refused>>

Admission == [id : Nat, at : Nat]

(* An entry holds admissions that really happened, none in the future, and *)
(* no more of them than a window admits, however often the key calls.      *)
LimiterTypeOK ==
  /\ now \in Nat
  /\ admitted \in [Key -> SUBSET Admission]
  /\ attempts \in [Key -> SUBSET Admission]
  /\ refused \subseteq Key
  /\ \A k \in Key :
       /\ attempts[k] \subseteq admitted[k]
       /\ \A a \in admitted[k] : a.at <= now
       /\ Cardinality(attempts[k]) <= MaxAttempts

Init ==
  /\ now = 0
  /\ attempts = [k \in Key |-> {}]
  /\ admitted = [k \in Key |-> {}]
  /\ refused = {}

SlipInWindow(a) == now - a.at <= Window     \* slip: the window is one instant too long

InWindow(a) == now - a.at < Window

SlipFull(s) == Cardinality(s) > MaxAttempts \* slip: one more than the maximum

Full(s) == Cardinality(s) >= MaxAttempts

Kept(k) == {a \in attempts[k] : InWindow(a)}

ThisCall(k) == [id |-> Cardinality(admitted[k]), at |-> now]

\* allow: drop what has left the window; refuse without counting, or count.
Allow(k) ==
  /\ \/ /\ Full(Kept(k))
        /\ attempts' = [attempts EXCEPT ![k] = Kept(k)]
        /\ refused' = refused \cup {k}
        /\ UNCHANGED admitted
     \/ /\ ~Full(Kept(k)) /\ Cardinality(admitted[k]) < MaxTotal
        /\ attempts' = [attempts EXCEPT ![k] = Kept(k) \cup {ThisCall(k)}]
        /\ admitted' = [admitted EXCEPT ![k] = @ \cup {ThisCall(k)}]
        /\ refused' = refused \ {k}
  /\ UNCHANGED now

Tick ==
  /\ now < MaxTime
  /\ now' = now + 1
  /\ refused' = {}
  /\ UNCHANGED <<attempts, admitted>>

\* A restart forgets: the table is in memory.
Restart ==
  /\ attempts' = [k \in Key |-> {}]
  /\ admitted' = [k \in Key |-> {}]
  /\ refused' = {}
  /\ UNCHANGED now

Next == (\E k \in Key : Allow(k)) \/ Tick \/ Restart

Spec == Init /\ [][Next]_vars

-----------------------------------------------------------------------------
Between(k, from, to) == {a \in admitted[k] : from <= a.at /\ a.at < to}

(* No window of that length, wherever it begins, holds more admissions of  *)
(* one key than the maximum: not only the windows that end at a call.      *)
WindowBound ==
  \A k \in Key : \A t \in 0..now :
    Cardinality(Between(k, t, t + Window)) <= MaxAttempts

(* A key is only refused when the last window really is full of its own    *)
(* admissions: refused calls do not count, other keys do not count, and an *)
(* attempt exactly one window old does not either.                         *)
RefusedOnlyWhenFull ==
  \A k \in refused :
    Cardinality({a \in admitted[k] : now < a.at + Window}) = MaxAttempts
=============================================================================
