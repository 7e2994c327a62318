--------------------------- MODULE MCClientStart ---------------------------
(* A prime of two digits, some of whose residues have one digit only; two  *)
(* draws; texts that end before, at and after the end of a block; two key  *)
(* pairs, so that the files may be of different ones; two games.           *)
(* Accounts: two callers; two names, one of them in two spellings; two     *)
(* passwords.  The callers are alike.                                      *)
EXTENDS ClientStart, Accounts, TLC

MCPlain == {<<1>>, <<0, 1>>, <<1, 1, 0>>}

MCUser ==
  {[name |-> "ab", spelling |-> s] : s \in {"ab", "AB"}}
    \cup {[name |-> "cd", spelling |-> "cd"]}

MCSymmetry == Permutations(Caller)

(* The client and the account database share nothing (the launcher's login *)
(* is not checked against it): a behaviour is one of the one or the other, *)
(* while the other stays as it was at first.                               *)
MCInit == Init /\ AccountsInit

MCNext ==
  \/ AccountsInit /\ Next /\ UNCHANGED accountVars
  \/ Init /\ AccountsNext /\ UNCHANGED vars

MCSpec == MCInit /\ [][MCNext]_<<vars, accountVars>>
=============================================================================
