---------------------------- MODULE NonceLedger ----------------------------
(***************************************************************************)
(* What an account's nonce bookkeeping promises its callers, without the   *)
(* counter and the free list that implement it: a set of nonces that are   *)
(* taken, everything else being available, and a ticket per reservation.   *)
(* NonceAccount implements this module (NonceAccount!Ledger).              *)
(***************************************************************************)
EXTENDS Integers

CONSTANTS
  Tickets,              \* reservations, the *Nonce objects of the code
  MaxNonce              \* bound: nonces are below MaxNonce

VARIABLES
  taken,                \* nonces handed out, used up or skipped
  holder                \* holder[t] is the nonce ticket t still has to settle

vars == <<taken, holder>>

NoNonce == -1

Nonces == 0..(MaxNonce - 1)

Init ==
  /\ taken = {}
  /\ holder = [t \in Tickets |-> NoNonce]

(* The lowest available nonce is handed out, so that a gap is filled       *)
(* before the account moves on.                                            *)
Reserve(t) ==
  /\ holder[t] = NoNonce
  /\ \E n \in Nonces \ taken :
       /\ \A m \in Nonces \ taken : n <= m
       /\ taken' = taken \cup {n}
       /\ holder' = [holder EXCEPT ![t] = n]

(* A rolled back reservation makes its nonce available again.              *)
Return(t) ==
  /\ holder[t] # NoNonce
  /\ taken' = taken \ {holder[t]}
  /\ holder' = [holder EXCEPT ![t] = NoNonce]

(* A committed reservation, or one whose worker left, keeps it taken.      *)
Keep(t) ==
  /\ holder[t] # NoNonce
  /\ holder' = [holder EXCEPT ![t] = NoNonce]
  /\ UNCHANGED taken

(* Everything below v was used on the chain: no longer available.          *)
Retire(v) ==
  /\ taken' = taken \cup 0..(v - 1)
  /\ UNCHANGED holder

(* Between two runs the chain's count replaces the local one.              *)
Restart(v) ==
  /\ \A t \in Tickets : holder[t] = NoNonce
  /\ taken' = 0..(v - 1)
  /\ UNCHANGED holder

Next ==
  \/ \E t \in Tickets : Reserve(t) \/ Return(t) \/ Keep(t)
  \/ \E v \in 0..MaxNonce : Retire(v) \/ Restart(v)

Spec == Init /\ [][Next]_vars
=============================================================================
