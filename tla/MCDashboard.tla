---------------------------- MODULE MCDashboard -----------------------------
(***************************************************************************)
(* Two tabs; the administrator's login and two registrants of one email    *)
(* who type different passwords.                                           *)
(***************************************************************************)
EXTENDS Dashboard, TLC

CONSTANTS root, user, secret, other, earlier

MCForm == {[email |-> root, password |-> secret],
           [email |-> user, password |-> secret],
           [email |-> user, password |-> other]}
MCToken == Slot \union {earlier}
Interchangeable == Permutations(Tab)
=============================================================================
