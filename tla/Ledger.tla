------------------------------- MODULE Ledger -------------------------------
(***************************************************************************)
(* What the blockchain promises its callers, with no sessions and no       *)
(* transactions: an append-only log numbered from 0 whose first entry is   *)
(* the genesis entry, and receipts that name entries of the log.           *)
(***************************************************************************)
EXTENDS Naturals

CONSTANTS Data,     \* the payloads a caller may append
          Genesis   \* the payload of entry 0

VARIABLES entries,  \* function from 0..n-1 to payloads
          receipts  \* the (index, data) pairs handed back to callers

vars == <<entries, receipts>>

\* The log with payload d at number n.
Extended(n, d) == [i \in 0..n |-> IF i = n THEN d ELSE entries[i]]

Init ==
    /\ entries = [i \in {} |-> Genesis]
    /\ receipts = {}

\* The log starts with the genesis entry, once.
Start ==
    /\ DOMAIN entries = {}
    /\ entries' = Extended(0, Genesis)
    /\ UNCHANGED receipts

\* A payload goes to the first free number and nothing else changes.
Append(d) ==
    /\ \E last \in DOMAIN entries :
          /\ DOMAIN entries = 0..last
          /\ entries' = Extended(last + 1, d)
    /\ UNCHANGED receipts

\* A caller learns the number of an entry that is in the log.
Acknowledge(i) ==
    /\ receipts' = receipts \union {[index |-> i, data |-> entries[i]]}
    /\ UNCHANGED entries

Next ==
    \/ Start
    \/ \E d \in Data : Append(d)
    \/ \E i \in DOMAIN entries : Acknowledge(i)

Spec == Init /\ [][Next]_vars
=============================================================================
