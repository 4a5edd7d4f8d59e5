---------------------------- MODULE Conversation ----------------------------
(***************************************************************************)
(* The dialogues of one Telegram account with the central bot: the Redis   *)
(* key bot_state:<id> (src/app/bot/state.py) and the handlers of bot.py    *)
(* and admin_panel.py that read and write it.                              *)
(*                                                                         *)
(* Telethon runs one task for each update, and in it the handlers one      *)
(* after the other, AdminPanel's first (bot/__main__.py registers it       *)
(* first).  A step is the code between two awaits; a set or clear and the  *)
(* answer to the user right after it are one step.  The states             *)
(* awaiting_phone, awaiting_code and awaiting_2fa are left out: no handler *)
(* leads to them since the login moved to the web page.                    *)
(***************************************************************************)
EXTENDS Naturals, FiniteSets

CONSTANTS
    MaxUpdates,  \* bound: messages and buttons of the account
    MaxOpen,     \* bound: updates handled at the same time
    MaxEvents,   \* bound: failures, crashes and changes of the permission
    Asked,       \* the questions the account's buttons may ask
    Patient      \* does the user wait for the bot's answer before going on

Updates == 1..MaxUpdates

\* States whose answer CentralBot.on_message takes and saves at once.
SingleQuestions == {"awaiting_receipt", "mod_setting", "kw_setting", "awaiting_support"}

\* States of AdminPanel.on_admin_message.
AdminQuestions == {"awaiting_admin_id", "awaiting_ticket_reply", "awaiting_plan_price",
                   "awaiting_broadcast", "awaiting_card"}

Questions == SingleQuestions \cup AdminQuestions
               \cup {"auto_conds", "auto_actions", "sched_text", "sched_time"}

ASSUME ConversationAssumption ==
    /\ MaxUpdates \in Nat
    /\ MaxOpen \in Nat
    /\ MaxEvents \in Nat
    /\ Patient \in BOOLEAN
    /\ Asked \subseteq Questions \ {"auto_actions", "sched_time"}

VARIABLES
    conv,        \* the Redis key
    h,           \* what handles each update
    arrived,     \* updates so far
    allowed,     \* has the account the administrator's permission
    registered,  \* has the account a row in users
    effects,     \* what messages were saved or sent, and as the answer to what
    confirmed,   \* history: the messages the bot said it added to a dialogue
    shown,       \* history: the dialogue whose question the user sees
    events       \* failures, crashes and changes of the permission so far

tables == <<allowed, registered, effects>>
rest == <<tables, confirmed, events>>
vars == <<conv, h, arrived, shown, rest>>

-----------------------------------------------------------------------------

\* A value of the key: the state, the button that began the dialogue, and the
\* messages its data holds: conditions or text, and actions.
Conv(q, d, parts, acts) == [q |-> q, dialog |-> d, parts |-> parts, acts |-> acts]
NoConv == Conv("none", 0, {}, {})

Handler(pc, input) ==
    [pc |-> pc, input |-> input, cur |-> NoConv, about |-> shown, replied |-> FALSE,
     took |-> FALSE, had |-> allowed]
NoHandler ==
    [pc |-> "none", input |-> "none", cur |-> NoConv, about |-> 0, replied |-> FALSE,
     took |-> FALSE, had |-> FALSE]

Open == {u \in Updates : h[u].pc \notin {"none", "done"}}

\* The next update.  A patient user has seen an answer to the last one, or its
\* handlers have ended.
Arrives(u) ==
    /\ arrived < MaxUpdates
    /\ u = arrived + 1
    /\ Cardinality(Open) < MaxOpen
    /\ Patient => \A v \in Open : h[v].replied
    /\ arrived' = u

Goes(u, pc) == h' = [h EXCEPT ![u].pc = pc]
Replies(u, pc) == h' = [h EXCEPT ![u].pc = pc, ![u].replied = TRUE]
Finished(r) == [r EXCEPT !.pc = "done", !.input = "none", !.cur = NoConv, !.replied = TRUE]
Ends(u) == h' = [h EXCEPT ![u] = Finished(@)]

\* One of the bounded events happens.
Event == events < MaxEvents /\ events' = events + 1

\* Mutant of Effect: the loop over the actions is left out.
EffectNoActs(u, c) == [msg |-> u, q |-> c.q, dialog |-> c.dialog, parts |-> c.parts]

\* What a message was taken for: the dialogue and the messages that make it up.
Effect(u, c) == [msg |-> u, q |-> c.q, dialog |-> c.dialog, parts |-> c.parts \cup c.acts]

-----------------------------------------------------------------------------
(* Buttons and commands                                                    *)

\* The _ask_... methods and on_support: state.set and the question.  Only
\* _ask_broadcast looks at the permission.
Ask(q, u) ==
    /\ q = "awaiting_broadcast" => allowed
    /\ conv' = Conv(q, u, {}, {})
    /\ shown' = u

\* on_callback of either class, with a button that asks a question.
PressAsk(u, q) ==
    /\ q \in Asked \ {"awaiting_receipt"}
    /\ Arrives(u)
    /\ Ask(q, u)
    /\ UNCHANGED <<h, rest>>

\* _start_payment: get_or_create, purchase and the commit.  A purchase that
\* is refused changes nothing.
Purchase(u) ==
    /\ "awaiting_receipt" \in Asked
    /\ Arrives(u)
    /\ h' = [h EXCEPT ![u] = Handler("bought", "none")]
    /\ registered' = TRUE
    /\ UNCHANGED <<conv, shown, allowed, effects, confirmed, events>>

AskReceipt(u) ==
    /\ h[u].pc = "bought"
    /\ Ask("awaiting_receipt", u)
    /\ Ends(u)
    /\ UNCHANGED <<arrived, rest>>

\* The buttons cancel and cancel_admin.
Cancel(u) ==
    /\ Arrives(u)
    /\ conv' = NoConv
    /\ shown' = 0
    /\ UNCHANGED <<h, rest>>

\* on_start: the answer goes out before state.clear.  The user it creates is
\* not committed.
Start(u) ==
    /\ Arrives(u)
    /\ h' = [h EXCEPT ![u] = [Handler("lateClear", "none") EXCEPT !.replied = TRUE]]
    /\ UNCHANGED <<conv, shown, rest>>

\* state.clear after the answer: on_start and the error path of on_message.
LateClear(u) ==
    /\ h[u].pc = "lateClear"
    /\ conv' = NoConv
    /\ Ends(u)
    /\ UNCHANGED <<arrived, shown, rest>>

-----------------------------------------------------------------------------
(* Messages: AdminPanel.on_admin_message                                   *)

SendMessage(u, text) ==
    /\ Arrives(u)
    /\ h' = [h EXCEPT ![u] = Handler("admin", text)]
    /\ UNCHANGED <<conv, shown, rest>>

\* state.get: a state of the panel, or on to CentralBot.on_message.
AdminGet(u) ==
    /\ h[u].pc = "admin"
    /\ h' = IF conv.q \in AdminQuestions
            THEN [h EXCEPT ![u].pc = "check", ![u].cur = conv, ![u].took = TRUE]
            ELSE [h EXCEPT ![u].pc = "bot"]
    /\ UNCHANGED <<conv, arrived, shown, rest>>

\* The text does not parse, or _require refuses: the dialogue stays open.
AdminRefuses(u) ==
    /\ h[u].pc = "check"
    /\ Replies(u, "bot")
    /\ UNCHANGED <<conv, arrived, shown, rest>>

\* Mutant of AdminAllowed: the permission is not asked for again.
AdminAllowedUnchecked(u) ==
    /\ h[u].pc = "check"
    /\ Goes(u, IF h[u].cur.q = "awaiting_broadcast" THEN "adminClear" ELSE "act")
    /\ UNCHANGED <<conv, arrived, shown, rest>>

\* _require grants the permission.  A broadcast clears the state first.
AdminAllowed(u) ==
    /\ h[u].pc = "check"
    /\ allowed
    /\ Goes(u, IF h[u].cur.q = "awaiting_broadcast" THEN "adminClear" ELSE "act")
    /\ UNCHANGED <<conv, arrived, shown, rest>>

\* Mutant of SecondGet: the second state is not looked at.
SecondGetBlind(u) ==
    /\ h[u].pc = "act"
    /\ h[u].cur.q \in {"awaiting_ticket_reply", "awaiting_plan_price"}
    /\ h' = [h EXCEPT ![u].pc = "save", ![u].cur = conv]
    /\ UNCHANGED <<conv, arrived, shown, rest>>

\* The ticket or the plan is taken from a second state.get.
SecondGet(u) ==
    /\ h[u].pc = "act"
    /\ h[u].cur.q \in {"awaiting_ticket_reply", "awaiting_plan_price"}
    /\ IF conv.q = h[u].cur.q
       THEN h' = [h EXCEPT ![u].pc = "save", ![u].cur = conv]
       ELSE Replies(u, "bot")
    /\ UNCHANGED <<conv, arrived, shown, rest>>

\* The reply is sent and committed; the price, the card or the new
\* administrator is committed.  (A reply that is sent and then not committed
\* is this step and AdminFails.)
AdminSaves(u) ==
    /\ \/ h[u].pc = "save"
       \/ h[u].pc = "act" /\ h[u].cur.q \in {"awaiting_admin_id", "awaiting_card"}
    /\ effects' = effects \cup {Effect(u, h[u].cur)}
    /\ Goes(u, "adminClear")
    /\ UNCHANGED <<conv, arrived, shown, allowed, registered, confirmed, events>>

\* _handle_admin_id: the account is an administrator already.
AdminExists(u) ==
    /\ h[u].pc = "act"
    /\ h[u].cur.q = "awaiting_admin_id"
    /\ Goes(u, "adminClear")
    /\ UNCHANGED <<conv, arrived, shown, rest>>

AdminClears(u) ==
    /\ h[u].pc = "adminClear"
    /\ conv' = NoConv
    /\ shown' = 0
    /\ Replies(u, IF h[u].cur.q = "awaiting_broadcast" THEN "send" ELSE "bot")
    /\ UNCHANGED <<arrived, rest>>

\* The loop of _handle_broadcast, which sleeps 0.3 s for each user.
Broadcast(u) ==
    /\ h[u].pc = "send"
    /\ effects' = effects \cup {Effect(u, h[u].cur)}
    /\ Goes(u, "bot")
    /\ UNCHANGED <<conv, arrived, shown, allowed, registered, confirmed, events>>

\* The database or Redis fails: Telethon logs it and calls the next handler.
AdminFails(u) ==
    /\ h[u].pc \in {"admin", "check", "act", "save", "adminClear", "send"}
    /\ Event
    /\ Goes(u, "bot")
    /\ UNCHANGED <<conv, arrived, shown, tables, confirmed>>

-----------------------------------------------------------------------------
(* Messages: CentralBot.on_message                                         *)

BotGet(u) ==
    /\ h[u].pc = "bot"
    /\ h' = IF conv.q \in Questions \ AdminQuestions
            THEN [h EXCEPT ![u].pc = "answer", ![u].cur = conv]
            ELSE [h EXCEPT ![u] = Finished(@)]
    /\ UNCHANGED <<conv, arrived, shown, rest>>

\* No media, no "|", a wrong condition, action or time, or done without an
\* action; _save_automation_rule and _handle_sched_time without a row in users.
\* The dialogue stays open.
BotRefuses(u) ==
    LET c == h[u].cur
    IN  /\ h[u].pc = "answer"
        /\ c.q \notin {"awaiting_support", "mod_setting", "sched_text"}
        /\ c.q = "auto_conds" => h[u].input # "done"
        /\ c.q = "auto_actions" /\ h[u].input = "done" => c.acts = {} \/ ~registered
        /\ Ends(u)
        /\ UNCHANGED <<conv, arrived, shown, rest>>

\* The state _handle_auto_cond, _handle_auto_reply and _handle_sched_text set,
\* from the data that on_message loaded.
NextState(u, c) ==
    CASE c.q = "auto_conds" /\ h[u].input # "done" -> [c EXCEPT !.parts = @ \cup {u}]
      [] c.q = "auto_conds" /\ h[u].input = "done" -> [c EXCEPT !.q = "auto_actions"]
      [] c.q = "auto_actions" -> [c EXCEPT !.acts = @ \cup {u}]
      [] c.q = "sched_text" -> [c EXCEPT !.q = "sched_time", !.parts = {u}]

\* state.set with the next state, and the answer that confirms it.
Continues(u) ==
    LET c == h[u].cur
    IN  /\ h[u].pc = "answer"
        /\ \/ c.q \in {"auto_conds", "sched_text"}
           \/ c.q = "auto_actions" /\ h[u].input # "done"
        /\ conv' = NextState(u, c)
        /\ confirmed' = IF c.q = "auto_conds" /\ h[u].input = "done" THEN confirmed
                        ELSE [confirmed EXCEPT ![c.dialog] = @ \cup {u}]
        /\ Ends(u)
        /\ UNCHANGED <<arrived, shown, allowed, registered, effects, events>>

\* The receipt, setting, keyword, ticket, rule or task is committed.
\* _handle_support creates the user's row in the same transaction.
Saves(u) ==
    LET c == h[u].cur
    IN  /\ h[u].pc = "answer"
        /\ \/ c.q \in SingleQuestions
           \/ c.q = "auto_actions" /\ h[u].input = "done" /\ c.acts # {} /\ registered
           \/ c.q = "sched_time" /\ registered
        /\ effects' = effects \cup {Effect(u, c)}
        /\ registered' = (registered \/ c.q = "awaiting_support")
        /\ Goes(u, "clear")
        /\ UNCHANGED <<conv, arrived, shown, allowed, confirmed, events>>

\* Mutant of Clears: the dialogue is not closed.
ClearsNothing(u) ==
    /\ h[u].pc = "clear"
    /\ shown' = 0
    /\ Replies(u, "show")
    /\ UNCHANGED <<conv, arrived, rest>>

\* state.clear and the answer.
Clears(u) ==
    /\ h[u].pc = "clear"
    /\ conv' = NoConv
    /\ shown' = 0
    /\ Replies(u, "show")
    /\ UNCHANGED <<arrived, rest>>

\* The list that is shown afterwards.
Shows(u) ==
    /\ h[u].pc = "show"
    /\ Ends(u)
    /\ UNCHANGED <<conv, arrived, shown, rest>>

\* The except clause of on_message answers, then clears (LateClear).
BotFails(u) ==
    /\ h[u].pc \in {"answer", "clear", "show"}
    /\ Event
    /\ Replies(u, "lateClear")
    /\ UNCHANGED <<conv, arrived, shown, tables, confirmed>>

-----------------------------------------------------------------------------

\* The key's TTL of 15 minutes.
Expire ==
    /\ conv # NoConv
    /\ conv' = NoConv
    /\ UNCHANGED <<h, arrived, shown, rest>>

\* Another administrator adds or deletes this one (_handle_admin_id,
\* _del_admin).
PermissionChanges ==
    /\ Event
    /\ allowed' = ~allowed
    /\ h' = [u \in Updates |-> [h[u] EXCEPT !.had = @ \/ (~allowed /\ u \in Open)]]
    /\ UNCHANGED <<conv, arrived, shown, registered, effects, confirmed>>

\* The process ends with all its tasks; the key stays.
Crash ==
    /\ Open # {}
    /\ Event
    /\ h' = [u \in Updates |-> IF u \in Open THEN Finished(h[u]) ELSE h[u]]
    /\ UNCHANGED <<conv, arrived, shown, tables, confirmed>>

Init ==
    /\ conv = NoConv
    /\ h = [u \in Updates |-> NoHandler]
    /\ arrived = 0
    /\ allowed \in BOOLEAN
    /\ registered \in BOOLEAN
    /\ effects = {}
    /\ confirmed = [u \in Updates |-> {}]
    /\ shown = 0
    /\ events = 0

User(u) ==
    \/ \E q \in Asked : PressAsk(u, q)
    \/ \E text \in {"done", "other"} : SendMessage(u, text)
    \/ Purchase(u) \/ AskReceipt(u) \/ Cancel(u) \/ Start(u) \/ LateClear(u)

Admin(u) ==
    \/ AdminGet(u) \/ AdminRefuses(u) \/ AdminAllowed(u) \/ SecondGet(u) \/ AdminSaves(u)
    \/ AdminExists(u) \/ AdminClears(u) \/ Broadcast(u) \/ AdminFails(u)

Bot(u) ==
    \/ BotGet(u) \/ BotRefuses(u) \/ Continues(u) \/ Saves(u) \/ Clears(u) \/ Shows(u)
    \/ BotFails(u)

Next ==
    \/ \E u \in Updates : User(u) \/ Admin(u) \/ Bot(u)
    \/ Expire \/ PermissionChanges \/ Crash

Spec == Init /\ [][Next]_vars

-----------------------------------------------------------------------------
(* Properties                                                              *)

ConvType ==
    [q : Questions \cup {"none"}, dialog : 0..MaxUpdates, parts : SUBSET Updates,
     acts : SUBSET Updates]

HandlerType ==
    [pc : {"none", "bought", "lateClear", "admin", "check", "act", "save", "adminClear", "send",
           "bot", "answer", "clear", "show", "done"},
     input : {"none", "done", "other"}, cur : ConvType, about : 0..MaxUpdates,
     replied : BOOLEAN, took : BOOLEAN, had : BOOLEAN]

\* Type invariant of the key, the handlers and what they saved.
TypeOK ==
    /\ conv \in ConvType
    /\ h \in [Updates -> HandlerType]
    /\ arrived \in 0..MaxUpdates
    /\ allowed \in BOOLEAN
    /\ registered \in BOOLEAN
    /\ effects \subseteq [msg : Updates, q : Questions, dialog : Updates, parts : SUBSET Updates]
    /\ confirmed \in [Updates -> SUBSET Updates]
    /\ shown \in 0..MaxUpdates
    /\ events \in Nat

\* The user waits for answers, and no message went to the panel: after the
\* panel's answer on_message goes on with the same message.
OneAtATime == Patient /\ \A u \in Updates : ~h[u].took

\* A patient user's message is taken as the answer to the question on the
\* screen when it was sent, and a rule or a task is made of messages of its
\* own dialogue, whatever expires, fails, crashes or is cleared late
\* (on_message, on_admin_message).
AnswersItsQuestion ==
    \A e \in effects :
        OneAtATime \/ (Patient /\ e.q \in AdminQuestions)
            => \A m \in e.parts \cup {e.msg} : h[m].about = e.dialog

NewRuleIsComplete ==
    \A e \in effects' \ effects :
        e.q = "auto_actions" => confirmed[e.dialog] \subseteq e.parts

\* What the bot said it added to a rule is in the rule it saves, for a user
\* who waits for the answers (_handle_auto_cond, _handle_auto_reply,
\* _save_automation_rule).
PatientRuleIsComplete == [][OneAtATime => NewRuleIsComplete]_vars

\* An administrator who was deleted between the question and the answer has
\* no effect any more: the permission was there at some time since the
\* message came (_require in the _handle_... methods).
PermissionAtAnswer ==
    \A e \in effects : e.q \in AdminQuestions => h[e.msg].had

-----------------------------------------------------------------------------
(* The inductive invariant behind TypeOK and PermissionAtAnswer.           *)

PanelSteps == {"check", "act", "save", "adminClear", "send"}

\* What a handler has loaded belongs to a dialogue of its class.
LoadedShape ==
    /\ conv.q # "none" => conv.dialog \in Updates
    /\ \A u \in Updates :
        /\ h[u].pc \in PanelSteps \cup {"answer"} => h[u].cur.dialog \in Updates
        /\ h[u].pc \in PanelSteps => h[u].cur.q \in AdminQuestions
        /\ h[u].pc = "answer" => h[u].cur.q \in Questions \ AdminQuestions

\* A permission is remembered: by what is under way while it is there, and
\* by what passed _require.
PermissionSeen ==
    \A u \in Updates :
        /\ u \in Open /\ allowed => h[u].had
        /\ h[u].pc \in PanelSteps \ {"check"} => h[u].had

\* What has not arrived has no handler and no effect.
NotYetArrived ==
    /\ \A u \in Updates : u > arrived => h[u] = NoHandler
    /\ \A e \in effects : e.msg <= arrived

IInv ==
    /\ TypeOK
    /\ LoadedShape
    /\ PermissionSeen
    /\ NotYetArrived
    /\ PermissionAtAnswer

-----------------------------------------------------------------------------
(* The inductive invariant behind AnswersItsQuestion and                   *)
(* PatientRuleIsComplete: a patient user waits for one handler at most.    *)

Awaited == {u \in Open : ~h[u].replied}
OneAwaited == Patient => \A u, v \in Awaited : u = v

\* A dialogue has begun, and nothing was added to one that has not.
DialogueBegan ==
    /\ conv.dialog <= arrived
    /\ \A u \in Updates : h[u].cur.dialog <= arrived /\ (u > arrived => confirmed[u] = {})

\* A state of the panel belongs to the question on the screen, and who loads it
\* has seen that question.
PanelDialogue ==
    /\ conv.q \in AdminQuestions => conv.dialog = shown /\ conv.parts = {} /\ conv.acts = {}
    /\ \A u \in Updates :
        /\ h[u].pc \in {"admin", "check", "act", "save", "adminClear"} => ~h[u].replied
        /\ h[u].pc \in PanelSteps => h[u].cur.parts = {} /\ h[u].cur.acts = {} /\ h[u].took
        /\ Patient /\ u \in Awaited /\ conv.q \in AdminQuestions => h[u].about = shown
        /\ Patient /\ h[u].pc \in PanelSteps => h[u].cur.dialog = h[u].about

\* The data of a dialogue are messages that answered its questions, all of
\* those that the bot confirmed.
OwnMessages(c) ==
    /\ \A m \in c.parts \cup c.acts : h[m].about = c.dialog
    /\ c.q \in {"auto_conds", "auto_actions"} => confirmed[c.dialog] \subseteq c.parts \cup c.acts

OwnDialogue ==
    OneAtATime =>
        /\ conv.q # "none" => conv.dialog = shown /\ OwnMessages(conv)
        /\ \A u \in Updates :
            /\ h[u].pc \in {"bought", "bot", "answer", "clear"} => ~h[u].replied
            /\ u \in Awaited => h[u].about = shown
            /\ h[u].pc = "answer" => h[u].cur.dialog = h[u].about /\ OwnMessages(h[u].cur)

DInv == OneAwaited /\ DialogueBegan /\ PanelDialogue /\ OwnDialogue /\ AnswersItsQuestion
=============================================================================
