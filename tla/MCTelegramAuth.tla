--------------------------- MODULE MCTelegramAuth ---------------------------
(* The instance of TelegramAuth: two users of the same phone.              *)
EXTENDS TelegramAuth, TLC

CONSTANTS u1, u2
TwoUsers == {u1, u2}
UserSymmetry == Permutations(TwoUsers)
=============================================================================
