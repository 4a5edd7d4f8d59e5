----------------------------- MODULE AdminPanel -----------------------------
(***************************************************************************)
(* The administrators and what their buttons change: AdminPanel            *)
(* (bot/admin_panel.py), the roles and permissions of auth/permissions.py   *)
(* and auth/rbac.py, and the seeding of database/seed.py.                   *)
(*                                                                         *)
(* A handler reads the administrator's row, then the permissions of that    *)
(* row's id, then what it changes, and commits: other handlers run between  *)
(* these statements, among them the ones that add and remove                *)
(* administrators.  The dialogue that carries the typed answer is in        *)
(* Conversation, what approve and reject do to a payment in Billing, what   *)
(* ub_start and ub_stop do in WorkerManager.                                *)
(***************************************************************************)
EXTENDS Naturals, Sequences, FiniteSets

CONSTANTS
    Accounts,   \* Telegram accounts that use the panel
    Owner,      \* settings.owner_telegram_id
    Buttons,    \* the buttons and answers that are used
    MaxOps,     \* bound: buttons and answers
    MaxOpen,    \* bound: buttons and answers handled at the same time
    MaxEvents   \* bound: failures

VARIABLES
    seeded,     \* are the roles and their permissions in the database
    admins,     \* the row of each account: its id (0: no row) and its roles
    nextId,     \* the sequence of admins.id
    cards,      \* rows of payment_settings by id; 0 is an empty card number
    price,      \* the price of a plan
    ticket,     \* the status of a support ticket
    delivered,  \* did Telegram deliver the answer to the ticket
    h,          \* what handles each button and answer
    arrived,    \* buttons and answers so far
    events,     \* failures so far
    saved,      \* history: the card that was last saved
    raced       \* history: did two handlers find no row of payment_settings

access == <<seeded, admins, nextId>>
money == <<cards, price, saved, raced>>
support == <<ticket, delivered>>
vars == <<access, money, support, h, arrived, events>>

Ops == 1..MaxOps

-----------------------------------------------------------------------------
(* Roles and permissions                                                   *)

AllPermissions ==
    {"users.view", "users.edit", "users.suspend", "payments.view", "payments.approve",
     "payments.reject", "subscriptions.view", "subscriptions.edit", "userbots.view",
     "userbots.start", "userbots.stop", "userbots.restart", "modules.view", "modules.manage",
     "logs.view", "settings.view", "settings.edit", "broadcast.send", "admins.manage",
     "support.manage", "messages.view"}

\* Mutant of DefaultRolePermissions: ADMIN has the permissions of SUPER_ADMIN.
DefaultRolePermissionsWide(role) ==
    IF role \in {"ADMIN", "OWNER", "SUPER_ADMIN"} THEN AllPermissions \ {"messages.view"} ELSE {}

DefaultRolePermissions(role) ==
    CASE role = "OWNER" -> AllPermissions
      [] role = "SUPER_ADMIN" -> AllPermissions \ {"messages.view"}
      [] role = "ADMIN" ->
            AllPermissions \ {"users.suspend", "subscriptions.edit", "modules.manage",
                              "settings.edit", "broadcast.send", "admins.manage",
                              "messages.view"}
      [] role = "MODERATOR" -> {"users.view", "support.manage"}
      [] role = "SUPPORT" -> {"subscriptions.view", "support.manage"}

RoleNames == {"OWNER", "SUPER_ADMIN", "ADMIN", "MODERATOR", "SUPPORT"}

\* The permission each button or answer asks for.
PlatformNeeds ==
    {<<"payments", "payments.view">>, <<"approve", "payments.approve">>,
     <<"reject", "payments.reject">>, <<"userbots", "userbots.view">>,
     <<"users", "users.view">>, <<"stats", "users.view">>, <<"ub_start", "userbots.start">>,
     <<"ub_stop", "userbots.stop">>}
AdminNeeds ==
    {<<"admins", "admins.manage">>, <<"admin_id", "admins.manage">>,
     <<"del_admin", "admins.manage">>}
TicketNeeds ==
    {<<"tickets", "support.manage">>, <<"ticket_reply", "support.manage">>,
     <<"ticket_close", "support.manage">>}
SettingsNeeds ==
    {<<"plans", "settings.edit">>, <<"plan_price", "settings.edit">>,
     <<"broadcast", "broadcast.send">>, <<"pay_settings", "settings.edit">>,
     <<"card", "settings.edit">>}
MonitorNeeds == {<<"monitor", "logs.view">>}

Needs == PlatformNeeds \cup AdminNeeds \cup TicketNeeds \cup SettingsNeeds \cup MonitorNeeds

\* Buttons that only show something, or whose effect is in another module.
Views == {"payments", "approve", "reject", "userbots", "users", "stats", "ub_start", "ub_stop",
          "admins", "tickets", "plans", "broadcast", "monitor"}

ASSUME AdminAssumption ==
    /\ Owner \in Accounts
    /\ 0 \notin Accounts
    /\ MaxOps \in Nat /\ MaxOpen \in Nat /\ MaxEvents \in Nat
    /\ \A b \in Buttons : \E p \in AllPermissions : <<b, p>> \in Needs

\* get_admin_permissions: by the id of the row, over its roles.
PermissionsOf(adm, isSeeded, id) ==
    UNION {UNION {DefaultRolePermissions(role) : role \in adm[a].roles} :
              a \in {b \in Accounts : isSeeded /\ id # 0 /\ adm[b].id = id}}

\* May the account use the button, by the tables given: the owner always.
Allowed(adm, isSeeded, a, button) ==
    \/ a = Owner
    \/ \E p \in PermissionsOf(adm, isSeeded, adm[a].id) : <<button, p>> \in Needs

\* Accounts that can add and remove administrators.
Managers == {a \in Accounts : Allowed(admins, seeded, a, "admin_id")}

-----------------------------------------------------------------------------

NoRow == [id |-> 0, roles |-> {}]

\* The rows a transaction read: the administrator's id, and whether what the
\* handler looks for was found.  had: has the account been allowed since it began.
Handler(pc, button, actor, arg, had) ==
    [pc |-> pc, button |-> button, actor |-> actor, arg |-> arg, id |-> 0, found |-> FALSE,
     had |-> had]
NoHandler == Handler("none", "none", Owner, 0, FALSE)
Done == Handler("done", "none", Owner, 0, FALSE)

Open == {u \in Ops : h[u].pc \notin {"none", "done"}}

Goes(u, pc) == h' = [h EXCEPT ![u].pc = pc]
Ends(u) == h' = [h EXCEPT ![u] = Done]
Event == events < MaxEvents /\ events' = events + 1

\* u ends, and the others take note of the tables it leaves behind.
EndsNoting(u, adm, isSeeded) ==
    h' = [v \in Ops |->
            IF v = u THEN Done
            ELSE [h[v] EXCEPT !.had = @ \/ (v \in Open /\ Allowed(adm, isSeeded, h[v].actor, h[v].button))]]

\* on_callback and on_admin_message hand over to the button's handler.  arg is
\* the account an answer or a button names, or the number of a card.
Press(u, b, a, arg) ==
    /\ arrived < MaxOps
    /\ u = arrived + 1
    /\ Cardinality(Open) < MaxOpen
    /\ arrived' = u
    /\ h' = [h EXCEPT ![u] = Handler("resolve", b, a, arg, Allowed(admins, seeded, a, b))]
    /\ UNCHANGED <<access, money, support, events>>

\* _resolve: the owner by the settings, another account by its row; is_active is
\* never changed.
Resolve(u) ==
    /\ h[u].pc = "resolve"
    /\ h' = [h EXCEPT ![u] =
                IF h[u].actor # Owner /\ admins[h[u].actor].id = 0 THEN Done
                ELSE [@ EXCEPT !.pc = "require", !.id = admins[h[u].actor].id]]
    /\ UNCHANGED <<access, money, support, arrived, events>>

\* Mutant of Passes: a row in admins is enough.
PassesAny(u) == TRUE

\* admin_has_permission, for the id that was read before.
Passes(u) ==
    \/ h[u].actor = Owner
    \/ \E p \in PermissionsOf(admins, seeded, h[u].id) : <<h[u].button, p>> \in Needs

\* _require.
Require(u) ==
    /\ h[u].pc = "require"
    /\ h' = [h EXCEPT ![u] = IF Passes(u) THEN [@ EXCEPT !.pc = "act"] ELSE Done]
    /\ UNCHANGED <<access, money, support, arrived, events>>

\* An exception after the check: the session is rolled back, on_callback answers.
Fail(u) ==
    /\ h[u].pc \in {"act", "write", "answer"}
    /\ Event
    /\ Ends(u)
    /\ UNCHANGED <<access, money, support, arrived>>

View(u) ==
    /\ h[u].pc = "act" /\ h[u].button \in Views
    /\ Ends(u)
    /\ UNCHANGED <<access, money, support, arrived, events>>

-----------------------------------------------------------------------------
(* Administrators                                                          *)

\* _handle_admin_id looks for the row; _del_admin reads it by the button's id
\* and refuses the owner's.
ReadAdmin(u) ==
    /\ h[u].pc = "act" /\ h[u].button \in {"admin_id", "del_admin"}
    /\ h' = [h EXCEPT ![u] =
                IF \/ h[u].button = "admin_id" /\ admins[h[u].arg].id # 0
                   \/ h[u].button = "del_admin" /\ (admins[h[u].arg].id = 0 \/ h[u].arg = Owner)
                THEN Done
                ELSE [@ EXCEPT !.pc = "write", !.id = admins[h[u].arg].id]]
    /\ UNCHANGED <<access, money, support, arrived, events>>

\* Mutant of NewAdmin: the row is committed before its role is looked for.
NewAdminEarly == [id |-> nextId, roles |-> {"ADMIN"} \cap (IF seeded THEN RoleNames ELSE {})]

\* A row with the role ADMIN; without roles in the database scalar_one raises.
NewAdmin == IF seeded THEN [id |-> nextId, roles |-> {"ADMIN"}] ELSE NoRow

\* The rest of _handle_admin_id: a row that is there by now fails the unique
\* telegram_id, and the transaction leaves nothing.
AddAdmin(u) ==
    LET row == IF admins[h[u].arg].id # 0 THEN admins[h[u].arg] ELSE NewAdmin
        after == [admins EXCEPT ![h[u].arg] = row]
    IN  /\ h[u].pc = "write" /\ h[u].button = "admin_id"
        /\ admins' = after
        /\ nextId' = nextId + 1
        /\ EndsNoting(u, after, seeded)
        /\ UNCHANGED <<seeded, money, support, arrived, events>>

\* session.delete with the row's roles.  The row is the one that was read: an
\* account that was removed and added again since has another id.
RemoveAdmin(u) ==
    LET after == [a \in Accounts |-> IF admins[a].id = h[u].id THEN NoRow ELSE admins[a]]
    IN  /\ h[u].pc = "write" /\ h[u].button = "del_admin"
        /\ admins' = after
        /\ EndsNoting(u, after, seeded)
        /\ UNCHANGED <<seeded, nextId, money, support, arrived, events>>

\* seed_all, in one transaction: roles, permissions and the owner's row.  What
\* is there stays as it is.
Seed ==
    LET after == IF admins[Owner].id # 0 THEN admins
                 ELSE [admins EXCEPT ![Owner] = [id |-> nextId, roles |-> {"OWNER"}]]
    IN  /\ ~seeded
        /\ seeded' = TRUE
        /\ admins' = after
        /\ nextId' = nextId + 1
        /\ EndsNoting(0, after, TRUE)
        /\ UNCHANGED <<money, support, arrived, events>>

-----------------------------------------------------------------------------
(* Plans, the card and the tickets                                         *)

\* _handle_plan_price: the last one wins.
PlanPrice(u) ==
    /\ h[u].pc = "act" /\ h[u].button = "plan_price"
    /\ price' = u
    /\ Ends(u)
    /\ UNCHANGED <<access, cards, saved, raced, support, arrived, events>>

\* _show_pay_settings and _handle_card select the first row.
ReadCard(u) ==
    /\ h[u].pc = "act" /\ h[u].button \in {"pay_settings", "card"}
    /\ h' = [h EXCEPT ![u].pc = "write", ![u].found = cards # << >>]
    /\ raced' = (raced \/ (cards = << >> /\ \E v \in Ops : /\ h[v].pc = "write"
                                                          /\ h[v].button \in {"pay_settings", "card"}))
    /\ UNCHANGED <<access, cards, price, saved, support, arrived, events>>

\* Mutant of WriteCard: a new row every time.
WriteCardNew(u) ==
    /\ h[u].pc = "write" /\ h[u].button = "card"
    /\ cards' = Append(cards, h[u].arg)
    /\ saved' = h[u].arg
    /\ Ends(u)
    /\ UNCHANGED <<access, price, raced, support, arrived, events>>

\* The rest of _handle_card: the row that was found, or a new one.
WriteCard(u) ==
    /\ h[u].pc = "write" /\ h[u].button = "card"
    /\ cards' = IF h[u].found THEN [cards EXCEPT ![1] = h[u].arg] ELSE Append(cards, h[u].arg)
    /\ saved' = h[u].arg
    /\ Ends(u)
    /\ UNCHANGED <<access, price, raced, support, arrived, events>>

\* The rest of _show_pay_settings: an empty row when there was none.
ShowCard(u) ==
    /\ h[u].pc = "write" /\ h[u].button = "pay_settings"
    /\ cards' = IF h[u].found THEN cards ELSE Append(cards, 0)
    /\ Ends(u)
    /\ UNCHANGED <<access, price, saved, raced, support, arrived, events>>

\* The card number _start_payment shows to a buyer.
CardShown == IF cards = << >> THEN 0 ELSE cards[1]

\* _handle_ticket_reply: the message to the user, whose failure is logged.
ReplyTicket(u) ==
    /\ h[u].pc = "act" /\ h[u].button = "ticket_reply"
    /\ \/ delivered' = TRUE /\ UNCHANGED events
       \/ Event /\ UNCHANGED delivered
    /\ Goes(u, "answer")
    /\ UNCHANGED <<access, money, ticket, arrived>>

\* The new status and the commit, whatever became of the message.
AnswerTicket(u) ==
    /\ h[u].pc = "answer"
    /\ ticket' = "answered"
    /\ Ends(u)
    /\ UNCHANGED <<access, money, delivered, arrived, events>>

\* Mutant of CloseTicket: a status that nothing else knows.
CloseTicketSolved(u) ==
    /\ h[u].pc = "act" /\ h[u].button = "ticket_close"
    /\ ticket' = "solved"
    /\ Ends(u)
    /\ UNCHANGED <<access, money, delivered, arrived, events>>

CloseTicket(u) ==
    /\ h[u].pc = "act" /\ h[u].button = "ticket_close"
    /\ ticket' = "closed"
    /\ Ends(u)
    /\ UNCHANGED <<access, money, delivered, arrived, events>>

-----------------------------------------------------------------------------

\* The database before seeding, or after it with an administrator of each role
\* that an operator may have inserted.
Init ==
    /\ \/ /\ seeded = FALSE
          /\ admins = [a \in Accounts |-> NoRow]
          /\ nextId = 1
       \/ /\ seeded = TRUE
          /\ \E a \in Accounts \ {Owner}, role \in RoleNames \ {"OWNER"} :
                admins = [b \in Accounts |-> CASE b = Owner -> [id |-> 1, roles |-> {"OWNER"}]
                                               [] b = a -> [id |-> 2, roles |-> {role}]
                                               [] OTHER -> NoRow]
          /\ nextId = 3
    /\ cards = << >> /\ price = 0 /\ saved = 0 /\ raced = FALSE
    /\ ticket = "open" /\ delivered = FALSE
    /\ h = [u \in Ops |-> NoHandler]
    /\ arrived = 0 /\ events = 0

Handle(u) ==
    \/ Resolve(u) \/ Require(u) \/ Fail(u) \/ View(u) \/ ReadAdmin(u) \/ AddAdmin(u)
    \/ RemoveAdmin(u) \/ PlanPrice(u) \/ ReadCard(u) \/ WriteCard(u) \/ ShowCard(u)
    \/ ReplyTicket(u) \/ AnswerTicket(u) \/ CloseTicket(u)

\* What a button or an answer names.
Argument(u, b) ==
    CASE b \in {"admin_id", "del_admin"} -> Accounts [] b = "card" -> {u} [] OTHER -> {0}

Next ==
    \/ \E u \in Ops : \/ Handle(u)
                      \/ \E b \in Buttons, a \in Accounts : \E arg \in Argument(u, b) : Press(u, b, a, arg)
    \/ Seed

Spec == Init /\ [][Next]_vars

-----------------------------------------------------------------------------
(* Properties                                                              *)

HandlerRecords ==
    [pc : {"none", "resolve", "require", "act", "write", "answer", "done"},
     button : Buttons \cup {"none"}, actor : Accounts, arg : Accounts \cup 0..MaxOps, id : Nat,
     found : BOOLEAN, had : BOOLEAN]

TypeOK ==
    /\ seeded \in BOOLEAN
    /\ admins \in [Accounts -> [id : Nat, roles : SUBSET RoleNames]]
    /\ nextId \in Nat
    /\ cards \in Seq(0..MaxOps) /\ price \in 0..MaxOps /\ saved \in 0..MaxOps /\ raced \in BOOLEAN
    /\ ticket \in {"open", "answered", "closed"} /\ delivered \in BOOLEAN
    /\ h \in [Ops -> HandlerRecords]
    /\ arrived \in 0..MaxOps /\ events \in 0..MaxEvents

\* No step of the panel or of the seeding makes an account able to manage
\* administrators that was not: a removed manager who is added again, two managers
\* who add and remove each other at once, and the owner's seeding included.
NoNewManager == [][Managers' \subseteq Managers]_vars

\* A handler reaches its effect only if its account was allowed to use the button
\* at some moment since the press, though the row and the permissions are read in
\* two statements between which the account can be removed and added again.
EffectWasAllowed == \A u \in Ops : h[u].pc \in {"act", "write", "answer"} => h[u].had

\* Every administrator has a role: adding one is two INSERTs and a SELECT that
\* fails on an unseeded database, and leaves both rows or none.
AdminHasRole == \A a \in Accounts : admins[a].id # 0 => admins[a].roles # {}

\* Buyers are shown the card that was last saved, which sits in the row with the
\* lowest id, unless two handlers found the table empty at the same time.
CardIsLastSaved == ~raced => CardShown = saved

-----------------------------------------------------------------------------
(* The inductive invariant behind these properties.                        *)

\* An answer names an account or a card.
ArgumentShape ==
    \A u \in Ops :
        /\ h[u].button \in {"admin_id", "del_admin"} => h[u].arg \in Accounts
        /\ h[u].button = "card" => h[u].arg \in Ops

\* Ids are never given twice, and roles come before administrators.
IdsUnique ==
    /\ nextId > 0
    /\ \A a \in Accounts : admins[a].id < nextId
    /\ \A a, b \in Accounts : admins[a].id # 0 /\ admins[a].id = admins[b].id => a = b
    /\ ~seeded => \A a \in Accounts : admins[a].id = 0

\* The id that _resolve read belongs to the account, or to nobody any more.
ResolvedId ==
    \A u \in Ops : h[u].pc = "require" /\ h[u].actor # Owner =>
        /\ h[u].id # 0 /\ h[u].id < nextId
        /\ \A a \in Accounts : admins[a].id = h[u].id => a = h[u].actor

Noted == \A u \in Open : Allowed(admins, seeded, h[u].actor, h[u].button) => h[u].had

\* The handlers between the SELECT of payment_settings and their write: without a
\* race what they found is still so, and one at most found nothing.
CardHandlers == {u \in Ops : h[u].pc = "write" /\ h[u].button \in {"pay_settings", "card"}}
CardRow ==
    ~raced => /\ \A u \in CardHandlers : h[u].found = (cards # << >>)
              /\ cards = << >> => \A u, v \in CardHandlers : u = v

IInv ==
    /\ TypeOK /\ ArgumentShape /\ IdsUnique /\ ResolvedId /\ Noted /\ CardRow
    /\ EffectWasAllowed /\ AdminHasRole /\ CardIsLastSaved
=============================================================================
