----------------------------- MODULE MCSession ------------------------------
(***************************************************************************)
(* The sessions of the authentication service, for TLC.  Whether a login   *)
(* updates lastLogin matters only to HeldTokenWorks, which is about steady *)
(* users: those who are not are all past their first time.                 *)
(***************************************************************************)
EXTENDS Session, TLC

PasswordSymmetry == Permutations(Password)

MCInit == Init /\ firstTime \subseteq steady
MCSpec == MCInit /\ [][Next]_vars

=============================================================================
