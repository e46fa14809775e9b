------------------------------ MODULE MCWebApi ------------------------------
(* Instances of Accounts and of BodyLimit for TLC.  The two share no state *)
(* and no property is about both, so one of them moves and the other rests *)
(* in an initial state.                                                    *)
EXTENDS Accounts, BodyLimit, TLC

Symmetry == Permutations(Clients) \cup Permutations(Names) \cup Permutations(Passwords)

\* Lengths and chunks below, at and above a limit of three bytes.
MCLengths == {2, 3, 4}
MCSizes == {0, 1, 3, 4}

VARIABLE part

ApiInit ==
  /\ part \in {"accounts", "body"}
  /\ Init /\ BodyInit
  /\ part = "accounts" => declared = None

ApiNext ==
  /\ \/ part = "accounts" /\ Next /\ UNCHANGED bodyVars
     \/ part = "body" /\ BodyNext /\ UNCHANGED vars
  /\ UNCHANGED part

ApiSpec == ApiInit /\ [][ApiNext]_<<part, vars, bodyVars>>
=============================================================================
