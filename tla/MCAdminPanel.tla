---------------------------- MODULE MCAdminPanel ----------------------------
(* The instance of AdminPanel: the owner and two other accounts.           *)
EXTENDS AdminPanel, TLC

CONSTANTS o, a1, a2
ThreeAccounts == {o, a1, a2}
AccountSymmetry == Permutations({a1, a2})

\* The buttons that change something, and one that does not.
ChangingButtons ==
    {"admin_id", "del_admin", "plan_price", "pay_settings", "card", "ticket_reply",
     "ticket_close", "monitor"}
=============================================================================
