----------------------------- MODULE MCAccounts -----------------------------
(* An instance of Accounts for TLC. *)
EXTENDS Accounts, TLC

CONSTANTS a, A, b, u, w1, w2, h1, h2

(* Google spells the address a with a capital.                             *)
Spelling == [e \in Emails |-> IF e = A THEN a ELSE e]

(* Two people who want the same username.                                  *)
SignUps ==
  {r \in {[email |-> a, username |-> u, password |-> w1],
          [email |-> b, username |-> u, password |-> w2]} : r.email \in Emails}

(* Handlers are alike.                                                     *)
Symmetry == Permutations(Handlers)
=============================================================================
