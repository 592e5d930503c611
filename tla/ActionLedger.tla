---------------------------- MODULE ActionLedger ----------------------------
(***************************************************************************)
(* What an idempotency ledger promises the callers of the action gate,     *)
(* whatever store holds it.  A key is free, or it is held by exactly one   *)
(* reservation; a reservation is pending until it is completed or          *)
(* withdrawn; a completed reservation holds its key for ever.  The SQLite  *)
(* and the PostgreSQL store are both meant to implement this module.       *)
(***************************************************************************)
EXTENDS Naturals

CONSTANTS
  Keys,          \* idempotency keys, as the HMAC that the stores index by
  Fingerprints   \* execution fingerprints: the bound content of an action

VARIABLES
  entries,  \* the set of reservations that hold a key
  issued    \* how many reservation identifiers have been handed out

vars == <<entries, issued>>

Entry == [key         : Keys,
          fingerprint : Fingerprints,
          state       : {"pending", "completed"},
          id          : Nat]

TypeOK == entries \subseteq Entry /\ issued \in Nat

Free(k) == \A e \in entries : e.key # k

Init == entries = {} /\ issued = 0

(* A caller is admitted: the key was free and gets a reservation of its    *)
(* own, under an identifier nobody had before.                             *)
Admit(k, f) ==
  /\ Free(k)
  /\ issued' = issued + 1
  /\ entries' = entries \cup
       {[key |-> k, fingerprint |-> f, state |-> "pending", id |-> issued']}

(* The reserved action is known to have been executed.                     *)
Settle(e) ==
  /\ e.state = "pending"
  /\ entries' = (entries \ {e}) \cup {[e EXCEPT !.state = "completed"]}
  /\ UNCHANGED issued

(* The reserved action is known not to have been executed.                 *)
Withdraw(e) ==
  /\ e.state = "pending"
  /\ entries' = entries \ {e}
  /\ UNCHANGED issued

Next ==
  \/ \E k \in Keys, f \in Fingerprints : Admit(k, f)
  \/ \E e \in entries : Settle(e) \/ Withdraw(e)

Spec == Init /\ [][Next]_vars
=============================================================================
