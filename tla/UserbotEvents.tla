---------------------------- MODULE UserbotEvents ---------------------------
(***************************************************************************)
(* What a running userbot does with the messages of one group: the handlers *)
(* of its modules, registered by UserbotRuntime.start, and the automation   *)
(* rules, registered last by _run_userbot (workers/manager.py).             *)
(*                                                                         *)
(* Telethon (external) gives every message a task of its own and calls the  *)
(* handlers that match it one after the other; a handler that raises is     *)
(* logged and the next one is called.  Tasks interleave at every await.     *)
(* Modules are loaded by a SELECT without an order: a message may meet      *)
(* their handlers in any order, the rules come last.                        *)
(*                                                                         *)
(* The modules modelled are the ones that change something: moderation.py,  *)
(* the filters that delete what they match (link_filter stands for them),   *)
(* auto_delete, and the warnings with their setting.  Commands are the      *)
(* owner's messages, the others come from members.  (A pattern matches what *)
(* members send as well: such a command does to rights and warnings what    *)
(* the owner's does, and meets the filters and rules as a plain text does.) *)
(***************************************************************************)
EXTENDS Naturals, FiniteSets, FiniteSetsExt

CONSTANTS
    Members,     \* members of the group
    NoOne,       \* a command without a reply and without an argument
    Enabled,     \* handlers of the user's enabled modules
    Commands,    \* commands the owner sends
    Fields,      \* fields that the conditions of the user's rules name
    MaxMessages, \* bound: messages
    MaxOpen,     \* bound: messages handled at the same time
    MaxRules,    \* bound: automation rules
    MaxEvents    \* bound: failed calls and restarts

Moderation == {"mute", "unmute", "ban", "unban", "kick"}
Warnings == {"warn", "warns"}

ASSUME EventsAssumption ==
    /\ IsFiniteSet(Members) /\ NoOne \notin Members
    /\ Commands \subseteq Moderation \cup Warnings
    /\ Fields \subseteq {"text", "chat"}
    /\ Enabled \subseteq Moderation \cup Warnings \cup {"link_filter", "auto_delete"}
    /\ {MaxMessages, MaxOpen, MaxRules, MaxEvents} \subseteq Nat

VARIABLES
    msgs,      \* the messages and what their tasks do
    arrived,   \* messages so far
    deleted,   \* messages deleted from the chat
    rights,    \* rights of the members in the chat
    warns,     \* the setting "warns" in the memory of the module
    row,       \* the setting "warns" in the database
    rules,     \* rules in the database, with their conditions
    created,   \* rules created so far
    events,    \* failures and restarts so far
    asked,     \* history: commands about a member that were open together
    answered,  \* history: warnings of a member that were answered
    crowded,   \* history: did two writes of "warns" overlap
    acted,     \* history: rules that acted on a message
    owes,      \* history: rules there from a message's arrival on
    may        \* history: rules there at some time since a message's arrival

chat == <<deleted, rights>>
setting == <<warns, row>>
history == <<asked, answered, crowded>>
ruleHistory == <<acted, owes, may>>
vars == <<msgs, arrived, chat, setting, rules, created, events, history, ruleHistory>>

Ids == 1..MaxMessages
RuleIds == 1..MaxRules
Texts == {"plain", "link"}

Unset == [m \in Members |-> 0]
Message(kind, who, todo) ==
    [kind |-> kind, who |-> who, todo |-> todo, doing |-> "none", pc |-> "next",
     value |-> Unset, picked |-> {}, failed |-> {}]
NoMessage == Message("none", NoOne, {})
Ended == Message("done", NoOne, {})

Open(u) == msgs[u].todo # {} \/ msgs[u].doing # "none"
OpenOf(kinds) == {u \in Ids : Open(u) /\ msgs[u].kind \in kinds}
Handled(u) == msgs[u].kind # "none" /\ ~Open(u)

Fault == events < MaxEvents /\ events' = events + 1

\* The handler in progress returns; a command's task that was the last one is gone.
Return(m) ==
    IF m.todo = {} /\ m.kind \notin Texts THEN Ended
    ELSE [m EXCEPT !.doing = "none", !.pc = "next", !.value = Unset, !.picked = {}]
\* The handler in progress raises, or swallows a failed call.
Raise(m) == Return([m EXCEPT !.failed = @ \cup {m.doing}])

-----------------------------------------------------------------------------
(* Messages                                                                *)

\* The handlers a message matches.  A pattern matches the start of the text:
\* the text of /warns also matches /warn.  auto_delete takes both directions,
\* the filters and the rules only what members send.
Matching(kind) ==
    (Enabled \cap ({"auto_delete"} \cup (IF kind = "warns" THEN Warnings ELSE {kind})
                   \cup (IF kind \in Texts THEN {"link_filter"} ELSE {})))
    \cup (IF kind \in Texts THEN {"rules"} ELSE {})

Arrive(u, kind, who) ==
    /\ arrived < MaxMessages
    /\ u = arrived + 1
    /\ Cardinality(OpenOf(Commands \cup Texts)) < MaxOpen
    /\ kind \in Texts => who # NoOne
    /\ arrived' = u
    /\ msgs' = [msgs EXCEPT ![u] = Message(kind, who, Matching(kind))]
    /\ asked' = IF kind \in Moderation \cap Enabled /\ who # NoOne
                THEN [asked EXCEPT ![who] =
                        IF \E v \in OpenOf(Moderation) : msgs[v].who = who
                        THEN @ \cup {kind} ELSE {kind}]
                ELSE asked
    /\ owes' = [owes EXCEPT ![u] = IF kind \in Texts THEN DOMAIN rules ELSE {}]
    /\ may' = [may EXCEPT ![u] = owes'[u]]
    /\ UNCHANGED <<chat, setting, rules, created, events, answered, crowded, acted>>

\* The next handler that the task calls: on_warn is registered before on_warns,
\* which follow each other in handlers(), and the rules after all modules.
Calls(u, handler) ==
    /\ msgs[u].doing = "none"
    /\ handler \in msgs[u].todo
    /\ handler = "warns" => "warn" \notin msgs[u].todo
    /\ handler = "rules" => msgs[u].todo = {"rules"}

Starts(u, handler, pc) ==
    [msgs[u] EXCEPT !.todo = @ \ {handler}, !.doing = handler, !.pc = pc]

\* link_filter, and with it the other filters of group_features.py.
LinkFilter(u) ==
    /\ Calls(u, "link_filter")
    /\ msgs' = [msgs EXCEPT ![u] =
                  IF @.kind = "link" THEN Starts(u, "link_filter", "delete")
                  ELSE Return(Starts(u, "link_filter", "next"))]
    /\ UNCHANGED <<arrived, chat, setting, rules, created, events, history, ruleHistory>>

\* auto_delete sleeps inside the handler: what is registered after it waits.
AutoDelete(u) ==
    /\ Calls(u, "auto_delete")
    /\ msgs' = [msgs EXCEPT ![u] = Starts(u, "auto_delete", "delete")]
    /\ UNCHANGED <<arrived, chat, setting, rules, created, events, history, ruleHistory>>

\* event.delete() of a filter, or of auto_delete at some time later.
Delete(u) ==
    /\ msgs[u].pc = "delete"
    /\ deleted' = deleted \cup {u}
    /\ msgs' = [msgs EXCEPT ![u] = Return(@)]
    /\ UNCHANGED <<arrived, rights, setting, rules, created, events, history, ruleHistory>>

-----------------------------------------------------------------------------
(* Moderation                                                              *)

\* A command begins with _resolve_target, which asks Telegram.
Command(u, handler) ==
    /\ handler \in Moderation \cup Warnings
    /\ Calls(u, handler)
    /\ msgs' = [msgs EXCEPT ![u] = Starts(u, handler, "resolve")]
    /\ UNCHANGED <<arrived, chat, setting, rules, created, events, history, ruleHistory>>

\* Mutant of Count: the count is read from the database.
CountFromRow(u) ==
    /\ msgs[u].doing = "warn"
    /\ warns' = [row EXCEPT ![msgs[u].who] = @ + 1]
    /\ msgs' = [msgs EXCEPT ![u].pc = "persist", ![u].value = warns']
    /\ crowded' = (crowded \/ \E v \in Ids : msgs[v].pc = "persist")

\* The code that goes on without an await once the target is known: on_warn
\* reads the setting, counts and has persist_setting change it in memory.
Count(u) ==
    /\ msgs[u].doing = "warn"
    /\ warns' = [warns EXCEPT ![msgs[u].who] = @ + 1]
    /\ msgs' = [msgs EXCEPT ![u].pc = "persist", ![u].value = warns']
    /\ crowded' = (crowded \/ \E v \in Ids : msgs[v].pc = "persist")

\* Mutant of Resolve: a command without a target goes on.
ResolveAnyone(u) ==
    /\ msgs[u].pc = "resolve"
    /\ msgs' = [msgs EXCEPT ![u] = IF @.doing \in Warnings THEN Return(@)
                                   ELSE [@ EXCEPT !.pc = "edit"]]
    /\ UNCHANGED <<arrived, chat, setting, rules, created, events, history, ruleHistory>>

\* Without a target a command answers how it is used; on_warns only answers.
Resolve(u) ==
    /\ msgs[u].pc = "resolve"
    /\ \/ /\ msgs[u].who # NoOne
          /\ Count(u)
       \/ /\ msgs[u].who = NoOne \/ msgs[u].doing = "warns"
          /\ msgs' = [msgs EXCEPT ![u] = Return(@)]
          /\ UNCHANGED <<warns, crowded>>
       \/ /\ msgs[u].who # NoOne /\ msgs[u].doing \in Moderation
          /\ msgs' = [msgs EXCEPT ![u].pc = "edit"]
          /\ UNCHANGED <<warns, crowded>>
    /\ UNCHANGED <<arrived, chat, row, rules, created, events, asked, answered, ruleHistory>>

\* ChatBannedRights of a command: the call replaces all rights of the member.
Rights(command) ==
    CASE command = "mute" -> "muted"
      [] command \in {"ban", "kick"} -> "banned"
      [] OTHER -> "free"

\* Mutant of EditBanned: on_kick forgets the call that lifts the ban.
EditBannedOnce(u) ==
    /\ msgs[u].pc = "edit"
    /\ rights' = [rights EXCEPT ![msgs[u].who] = Rights(msgs[u].doing)]
    /\ msgs' = [msgs EXCEPT ![u] = Return(@)]
    /\ UNCHANGED <<arrived, deleted, setting, rules, created, events, history, ruleHistory>>

\* EditBannedRequest and the answer; on_kick makes a second call first.
EditBanned(u) ==
    /\ msgs[u].pc = "edit"
    /\ rights' = [rights EXCEPT ![msgs[u].who] = Rights(msgs[u].doing)]
    /\ msgs' = [msgs EXCEPT ![u] = IF @.doing = "kick" THEN [@ EXCEPT !.pc = "lift"]
                                   ELSE Return(@)]
    /\ UNCHANGED <<arrived, deleted, setting, rules, created, events, history, ruleHistory>>

Lift(u) ==
    /\ msgs[u].pc = "lift"
    /\ rights' = [rights EXCEPT ![msgs[u].who] = "free"]
    /\ msgs' = [msgs EXCEPT ![u] = Return(@)]
    /\ UNCHANGED <<arrived, deleted, setting, rules, created, events, history, ruleHistory>>

\* The commit of persist_setting, and the answer with the new count.
PersistWarns(u) ==
    /\ msgs[u].pc = "persist"
    /\ row' = msgs[u].value
    /\ answered' = [answered EXCEPT ![msgs[u].who] = @ + 1]
    /\ msgs' = [msgs EXCEPT ![u] = Return(@)]
    /\ UNCHANGED <<arrived, chat, warns, rules, created, events, asked, crowded, ruleHistory>>

-----------------------------------------------------------------------------
(* Automation rules                                                        *)

\* What the bot lets a user ask of a message: nothing, a text, or its chat.
Condition(field, expected) == [field |-> field, expected |-> expected]
OnText == {Condition("text", "link")}
OnChat == {Condition("chat", "group")}
Conditions == {{}} \cup {cs \in {OnText, OnChat} : \A c \in cs : c.field \in Fields}

\* _save_automation_rule and _del_rule of the bot, as their commits.
CreateRule(r, conditions) ==
    /\ created < MaxRules /\ r = created + 1
    /\ created' = r
    /\ rules' = [i \in DOMAIN rules \cup {r} |-> IF i = r THEN conditions ELSE rules[i]]
    /\ may' = [u \in Ids |-> IF msgs[u].kind \in Texts THEN may[u] \cup {r} ELSE may[u]]
    /\ UNCHANGED <<msgs, arrived, chat, setting, events, history, acted, owes>>

DeleteRule(r) ==
    /\ r \in DOMAIN rules
    /\ rules' = [i \in DOMAIN rules \ {r} |-> rules[i]]
    /\ owes' = [u \in Ids |-> owes[u] \ {r}]
    /\ UNCHANGED <<msgs, arrived, chat, setting, created, events, history, acted, may>>

\* build_context, as far as the bot's conditions could ask for it.
Context(kind) == [text |-> kind, chat_id |-> "group"]

\* A field that the context does not have makes a condition false.
EvaluateCondition(c, context) ==
    c.field \in DOMAIN context /\ context[c.field] = c.expected

\* Mutant of EvaluateAll: one condition is enough.
EvaluateAny(conditions, context) == \E c \in conditions : EvaluateCondition(c, context)

\* evaluate_all: the bot joins all conditions with AND.
EvaluateAll(conditions, context) == \A c \in conditions : EvaluateCondition(c, context)

\* list_enabled_for, and evaluate_all for each rule of the result.
HandleEvent(u) ==
    /\ Calls(u, "rules")
    /\ LET matching == {r \in DOMAIN rules : EvaluateAll(rules[r], Context(msgs[u].kind))} IN
       msgs' = [msgs EXCEPT ![u] = IF matching = {} THEN Return(Starts(u, "rules", "next"))
                                   ELSE [Starts(u, "rules", "act") EXCEPT !.picked = matching]]
    /\ UNCHANGED <<arrived, chat, setting, rules, created, events, history, ruleHistory>>

\* The task is done with the first rule of its list.
RuleDone(u) ==
    LET rest == msgs[u].picked \ {Min(msgs[u].picked)} IN
    [msgs EXCEPT ![u] = IF rest = {} THEN Return(@) ELSE [@ EXCEPT !.picked = rest]]

\* execute_actions of the next rule, in the order of the ids: the action is a
\* reply or a forward, which leave the chat's messages, or delete.
ExecuteActions(u) ==
    /\ msgs[u].pc = "act"
    /\ acted' = [acted EXCEPT ![u] = @ \cup {Min(msgs[u].picked)}]
    /\ deleted' \in {deleted, deleted \cup {u}}
    /\ msgs' = RuleDone(u)
    /\ UNCHANGED <<arrived, rights, setting, rules, created, events, history, owes, may>>

-----------------------------------------------------------------------------
(* Failures                                                                *)

\* A call to Telegram or the database fails, and may have had its effect.  The
\* commands answer or raise, the filters swallow the exception: either way the
\* handler is over.
CallFails(u) ==
    /\ Fault
    /\ msgs[u].pc \in {"resolve", "delete", "edit", "lift", "persist"}
    /\ rights' \in IF msgs[u].pc \in {"edit", "lift"}
                   THEN {rights, [rights EXCEPT ![msgs[u].who] =
                                    IF msgs[u].pc = "lift" THEN "free" ELSE Rights(msgs[u].doing)]}
                   ELSE {rights}
    /\ msgs' = [msgs EXCEPT ![u] = Raise(@)]
    /\ asked' = IF msgs[u].pc \in {"edit", "lift", "resolve"} /\ msgs[u].doing \in Moderation
                   /\ msgs[u].who # NoOne
                THEN [asked EXCEPT ![msgs[u].who] = Moderation] ELSE asked
    /\ UNCHANGED <<arrived, deleted, setting, rules, created, answered, crowded, ruleHistory>>

\* execute_action logs what fails and goes on with the next rule.
ActionFails(u) ==
    /\ Fault
    /\ msgs[u].pc = "act"
    /\ owes' = [owes EXCEPT ![u] = @ \ {Min(msgs[u].picked)}]
    /\ msgs' = RuleDone(u)
    /\ UNCHANGED <<arrived, chat, setting, rules, created, history, acted, may>>

\* The worker restarts: the tasks are gone and the module loads its setting.
Restart ==
    /\ Fault
    /\ warns' = row
    /\ asked' = [m \in Members |->
                   IF \E u \in OpenOf(Moderation) : msgs[u].who = m THEN Moderation ELSE asked[m]]
    /\ msgs' = [u \in Ids |-> IF Open(u)
                  THEN Return([msgs[u] EXCEPT !.todo = {}, !.failed = Matching(msgs[u].kind)])
                  ELSE msgs[u]]
    /\ owes' = [u \in Ids |-> IF Open(u) THEN {} ELSE owes[u]]
    /\ UNCHANGED <<arrived, chat, row, rules, created, answered, crowded, acted, may>>

-----------------------------------------------------------------------------
(* The userbot                                                             *)

Init ==
    /\ msgs = [u \in Ids |-> NoMessage]
    /\ arrived = 0 /\ created = 0 /\ events = 0
    /\ deleted = {}
    /\ rights = [m \in Members |-> "free"]
    /\ warns = [m \in Members |-> 0]
    /\ row = [m \in Members |-> 0]
    /\ rules = [r \in {} |-> {}]
    /\ asked = [m \in Members |-> {}]
    /\ answered = [m \in Members |-> 0]
    /\ crowded = FALSE
    /\ acted = [u \in Ids |-> {}]
    /\ owes = [u \in Ids |-> {}]
    /\ may = [u \in Ids |-> {}]

Task(u) ==
    \/ LinkFilter(u) \/ AutoDelete(u) \/ Delete(u)
    \/ \E handler \in Enabled : Command(u, handler)
    \/ Resolve(u) \/ EditBanned(u) \/ Lift(u) \/ PersistWarns(u)
    \/ HandleEvent(u) \/ ExecuteActions(u)

Next ==
    \/ \E u \in Ids :
         \/ \E kind \in Commands \cup Texts, who \in Members \cup {NoOne} : Arrive(u, kind, who)
         \/ Task(u)
         \/ CallFails(u) \/ ActionFails(u)
    \/ \E r \in RuleIds :
         \/ \E conditions \in Conditions : CreateRule(r, conditions)
         \/ DeleteRule(r)
    \/ Restart

Spec == Init /\ [][Next]_vars

-----------------------------------------------------------------------------
(* Properties                                                              *)

Handlers == Enabled \cup {"rules"}
Counts == [Members -> 0..MaxMessages]
Messages ==
    [kind: Commands \cup Texts \cup {"none", "done"}, who: Members \cup {NoOne},
     todo: SUBSET Handlers, doing: Handlers \cup {"none"},
     pc: {"next", "delete", "resolve", "edit", "lift", "persist", "act"},
     value: Counts, picked: SUBSET RuleIds, failed: SUBSET Handlers]

AwaitShape(m) ==
    /\ m.pc \in {"edit", "lift", "persist"} => m.who \in Members
    /\ m.pc = "next" <=> m.doing = "none"
    /\ m.pc = "act" <=> m.picked # {}

\* Types, and what a handler that awaits something has: a member whose rights
\* or warnings it changes, the rules it has still to carry out.
TypeOK ==
    /\ msgs \in [Ids -> Messages]
    /\ arrived \in 0..MaxMessages /\ created \in 0..MaxRules /\ events \in 0..MaxEvents
    /\ deleted \subseteq 1..arrived
    /\ rights \in [Members -> {"free", "muted", "banned"}]
    /\ warns \in Counts /\ row \in Counts /\ answered \in Counts
    /\ DOMAIN rules \subseteq 1..created
    /\ \A r \in DOMAIN rules : rules[r] \in Conditions
    /\ asked \in [Members -> SUBSET Moderation]
    /\ crowded \in BOOLEAN
    /\ acted \in [Ids -> SUBSET RuleIds]
    /\ owes \in [Ids -> SUBSET RuleIds]
    /\ may \in [Ids -> SUBSET RuleIds]
    /\ \A u \in Ids : AwaitShape(msgs[u])

\* on_kick bans and then lifts the ban in two calls, and commands overlap at
\* each of them: once no command about a member is open and no call failed, the
\* member has the rights one of the last, overlapping commands asked for.  A
\* member who was only kicked, or kicked and muted, is not left banned.
RightsAsAsked ==
    \A m \in Members :
        asked[m] # {} /\ (\A u \in OpenOf(Moderation) : msgs[u].who # m) =>
            rights[m] \in {IF c = "kick" THEN "free" ELSE Rights(c) : c \in asked[m]}
            \/ asked[m] = Moderation

\* A warning that was answered with its number is never forgotten: the count in
\* memory has every answered warning, however commands overlap, until a restart
\* loads the row, and the row has them too unless two writes overlapped.
WarnsAreKept ==
    \A m \in Members :
        /\ ~crowded => answered[m] <= row[m]
        /\ events = 0 => answered[m] <= warns[m]

\* When a message has been handled, a handler that did not fail itself has had
\* its effect, whatever the others did: a link is deleted, a rule that was there
\* all along and whose conditions hold has acted, and none has acted that was
\* deleted before the message came.  (Conditions on the chat: see ChatRuleActs.)
HandlersApply ==
    \A u \in Ids :
        /\ acted[u] \subseteq may[u]
        /\ Handled(u) /\ msgs[u].kind \in Texts =>
             /\ "link_filter" \in Enabled \ msgs[u].failed /\ msgs[u].kind = "link" =>
                  u \in deleted
             /\ \A r \in owes[u] \cap DOMAIN rules :
                  rules[r] = {} \/ (rules[r] = OnText /\ msgs[u].kind = "link") => r \in acted[u]

\* The bot asks for conditions on the fields text, chat and sender: a rule with
\* a condition on this chat acts on the messages of this chat.
ChatRuleActs ==
    \A u \in Ids :
        Handled(u) /\ msgs[u].kind \in Texts =>
            \A r \in owes[u] \cap DOMAIN rules : rules[r] = OnChat => r \in acted[u]

-----------------------------------------------------------------------------
(* The inductive invariant behind these properties.                        *)

NotYetArrived ==
    \A u \in Ids : u > arrived => msgs[u] = NoMessage /\ acted[u] = {}

\* Which handler awaits what, and which messages it is called for.
HandlerShape(m) ==
    /\ m.doing \notin m.todo
    /\ m.todo \cap Moderation \subseteq {m.kind}
    /\ m.doing \in Moderation => m.doing = m.kind /\ m.pc \in {"resolve", "edit", "lift"}
    /\ m.pc \in {"edit", "lift"} => m.doing \in Moderation
    /\ m.pc = "lift" => m.doing = "kick"
    /\ m.pc = "persist" => m.doing = "warn"
    /\ m.pc = "act" => m.doing = "rules"
    /\ "rules" \in m.todo \cup {m.doing} => m.kind \in Texts
TaskShape == \A u \in Ids : HandlerShape(msgs[u])

\* A message counts one warning at most.
Writing(m) == {u \in Ids : msgs[u].pc = "persist" /\ msgs[u].who = m}
Counted ==
    {u \in 1..arrived : "warn" \notin msgs[u].todo
                       /\ ~(msgs[u].doing = "warn" /\ msgs[u].pc = "resolve")}
WarnsCounted ==
    \A m \in Members :
        /\ warns[m] <= Cardinality(Counted) /\ row[m] <= Cardinality(Counted)
        /\ \A u \in Ids : msgs[u].value[m] <= Cardinality(Counted)
        /\ answered[m] + Cardinality(Writing(m)) <= Cardinality(Counted)

\* Until a restart the memory is ahead of the answers by the writes under way.
\* A write that overlaps no other writes what is in memory.
WarnsAhead ==
    events = 0 => \A m \in Members : answered[m] + Cardinality(Writing(m)) <= warns[m]
WritesOneByOne ==
    ~crowded =>
        /\ \A m \in Members : answered[m] <= row[m] /\ answered[m] <= warns[m]
        /\ \A u \in Ids : msgs[u].pc = "persist" =>
             /\ msgs[u].value = warns /\ answered[msgs[u].who] < warns[msgs[u].who]
             /\ \A v \in Ids : msgs[v].pc = "persist" => u = v

\* A command that has still to give a member the rights it asks for.
Pending(u) ==
    /\ msgs[u].kind \in Moderation \cap Enabled
    /\ msgs[u].kind \in msgs[u].todo \cup {msgs[u].doing}
RightsPending ==
    \A m \in Members :
        /\ \A u \in OpenOf(Moderation \cap Enabled) : msgs[u].who = m => msgs[u].kind \in asked[m]
        /\ asked[m] # {} =>
             \/ asked[m] = Moderation
             \/ \E u \in Ids : Pending(u) /\ msgs[u].who = m
             \/ rights[m] \in {IF c = "kick" THEN "free" ELSE Rights(c) : c \in asked[m]}

\* A link that is not deleted has the filter ahead, in progress or failed.
LinkPending ==
    \A u \in Ids : "link_filter" \in Enabled /\ msgs[u].kind = "link" =>
        \/ "link_filter" \in msgs[u].todo \cup msgs[u].failed
        \/ msgs[u].doing = "link_filter" /\ msgs[u].pc = "delete"
        \/ u \in deleted

\* A rule that owes its action has it ahead, and only rules that may act do.
RulesPending ==
    \A u \in Ids :
        /\ acted[u] \subseteq may[u] /\ msgs[u].picked \subseteq may[u]
        /\ owes[u] \subseteq DOMAIN rules
        /\ msgs[u].kind \in Texts =>
             /\ DOMAIN rules \subseteq may[u]
             /\ \A r \in owes[u] : EvaluateAll(rules[r], Context(msgs[u].kind)) =>
                  "rules" \in msgs[u].todo \/ r \in msgs[u].picked \cup acted[u]

IInv ==
    /\ TypeOK /\ NotYetArrived /\ TaskShape
    /\ WarnsCounted /\ WarnsAhead /\ WritesOneByOne
    /\ RightsPending /\ LinkPending /\ RulesPending
=============================================================================
