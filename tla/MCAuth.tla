------------------------------- MODULE MCAuth -------------------------------
(* Auth on small instances: requests, link tokens, session tokens and      *)
(* passwords are names without an order.                                   *)
EXTENDS Auth, TLC

AuthSymmetry ==
    Permutations(Handlers) \cup Permutations(Tokens) \cup Permutations(Sessions)
        \cup Permutations(Passwords)
=============================================================================
