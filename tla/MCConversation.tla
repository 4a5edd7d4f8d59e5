--------------------------- MODULE MCConversation ---------------------------
(* The questions of the runs of Conversation.                              *)
EXTENDS Conversation

\* One question of each kind of dialogue.
OneOfEach == {"awaiting_receipt", "awaiting_support", "auto_conds", "sched_text",
              "awaiting_admin_id", "awaiting_ticket_reply", "awaiting_broadcast"}
=============================================================================
