-------------------------- MODULE MCClientSession --------------------------
(* ClientSession with two browsers and two calls at a time.  Browsers, calls *)
(* and tokens can each be exchanged for one another.                         *)
EXTENDS ClientSession, TLC

Symmetry ==
    Permutations(Token) \cup Permutations(Browser) \cup Permutations(Call)

=============================================================================
