-------------------------------- MODULE Quota --------------------------------
(***************************************************************************)
(* What a rate limiter promises its callers, whatever its strategy: a call *)
(* is let through only while its key has a free slot and room in its       *)
(* window, the calls that hold a slot give it back, and room comes back    *)
(* with time.                                                              *)
(***************************************************************************)
EXTENDS Integers, FiniteSets

CONSTANTS
  Keys,          \* what quotas are kept per
  MaxConcurrent, \* slots of a key
  MaxCalls       \* room of a key's window

VARIABLES
  used,   \* room taken in each key's window
  slots   \* calls holding a slot of each key, as the limiter counts them

quota == <<used, slots>>

Init ==
  /\ used \in [Keys -> 0 .. MaxCalls]
  /\ slots = [k \in Keys |-> 0]

(* One call takes a slot, and one call's room.                             *)
Take(k) ==
  /\ slots[k] < MaxConcurrent
  /\ used[k] < MaxCalls
  /\ used' = [used EXCEPT ![k] = @ + 1]
  /\ slots' = [slots EXCEPT ![k] = @ + 1]

Give(k) ==
  /\ slots' = [slots EXCEPT ![k] = IF @ > 0 THEN @ - 1 ELSE 0]
  /\ UNCHANGED used

(* Time passes: windows only gain room.                                    *)
Slide ==
  /\ used' \in [Keys -> 0 .. MaxCalls]
  /\ \A k \in Keys : used'[k] <= used[k]
  /\ UNCHANGED slots

(* An operator clears the counters of some keys.                           *)
Clear ==
  \E cleared \in SUBSET Keys :
    /\ used' \in [Keys -> 0 .. MaxCalls]
    /\ \A k \in Keys \ cleared : used'[k] = used[k]
    /\ slots' = [k \in Keys |-> IF k \in cleared THEN 0 ELSE slots[k]]

Next == (\E k \in Keys : Take(k) \/ Give(k)) \/ Slide \/ Clear

Spec == Init /\ [][Next]_quota
=============================================================================
