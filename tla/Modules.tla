------------------------------- MODULE Modules ------------------------------
(***************************************************************************)
(* One user's modules and their settings: ModuleManager                    *)
(* (modules/manager.py), the buttons of bot.py and of the runtime's own     *)
(* panel that switch modules and edit keywords, the commands that call      *)
(* persist_setting (modules/base.py), and the restarts that make a worker   *)
(* load both again (_load_modules of workers/manager.py).                   *)
(*                                                                         *)
(* Two settings stand for all: the keywords of keyword_reply, which the bot *)
(* reads, changes and writes back, and the templates of post_templates,     *)
(* which a command changes in the runtime's memory and then writes to the   *)
(* database.  Buttons and commands are handled concurrently, in the bot and *)
(* in the worker; a step is the code between two awaits that the others     *)
(* can tell apart.  Keywords are numbers, in the order JSONB gives keys.    *)
(***************************************************************************)
EXTENDS Naturals, FiniteSets

CONSTANTS
    Modules,    \* the catalogue
    Limit,      \* max_modules of the user's plan
    Items,      \* keywords and names of templates
    MaxOps,     \* bound: buttons and commands
    MaxOpen,    \* bound: buttons and commands handled at the same time
    MaxEvents   \* bound: failures, crashes and changes of the subscription

ASSUME ModulesAssumption ==
    /\ IsFiniteSet(Modules)
    /\ Limit \in Nat /\ MaxOps \in Nat /\ MaxOpen \in Nat /\ MaxEvents \in Nat
    /\ Items \subseteq Nat /\ IsFiniteSet(Items)

VARIABLES
    on,        \* rows of user_modules that are enabled
    known,     \* rows of user_modules
    subscribed,\* has the user an active subscription
    keywords,  \* the row "keywords" of keyword_reply
    templates, \* the row "templates" of post_templates
    rt,        \* the runtime: is it up, its modules, its copy of the templates
    restarts,  \* restart commands in the queue
    h,         \* what handles each button and command
    arrived,   \* buttons and commands so far
    events,    \* failures, crashes and changes of the subscription so far
    width,     \* history: the most switches handled at the same time
    lost,      \* history: was a restart command lost
    disturbed, \* history: did settings change concurrently, or a change fail
    confirmed  \* history: keywords and templates the user was told are saved

tables == <<on, known, subscribed, keywords, templates>>
history == <<width, lost, disturbed, confirmed>>
vars == <<tables, rt, restarts, h, arrived, events, history>>

Ops == 1..MaxOps

Handler(kind, arg, pc, value) == [pc |-> pc, kind |-> kind, arg |-> arg, value |-> value]
NoHandler == Handler("none", 0, "none", {})
Done == Handler("none", 0, "done", {})

OpenOf(kinds) == {u \in Ops : h[u].kind \in kinds}
Settings == {"add", "delete", "template"}

Arrives(u) ==
    /\ arrived < MaxOps
    /\ u = arrived + 1
    /\ Cardinality(OpenOf({"switch"} \cup Settings)) < MaxOpen
    /\ arrived' = u

\* A change of a setting that begins while another one is under way.
Disturbs == disturbed' = (disturbed \/ OpenOf(Settings) # {})

Event == events < MaxEvents /\ events' = events + 1

-----------------------------------------------------------------------------
(* Switching a module on or off                                            *)

\* _toggle_module of the bot.
PressSwitch(u, m) ==
    /\ Arrives(u)
    /\ h' = [h EXCEPT ![u] = Handler("switch", m, "read", {})]
    /\ width' = IF Cardinality(OpenOf({"switch"})) >= width
                THEN Cardinality(OpenOf({"switch"})) + 1 ELSE width
    /\ UNCHANGED <<tables, rt, restarts, events, lost, disturbed, confirmed>>

\* The same button in the runtime's own panel, which is answered while it is up.
PressPanel(u, m) == rt.up /\ PressSwitch(u, m)

\* The SELECT that decides between enable and disable.
ReadModule(u) ==
    /\ h[u].kind = "switch" /\ h[u].pc = "read"
    /\ h' = [h EXCEPT ![u].pc = IF h[u].arg \in on THEN "disable" ELSE "check"]
    /\ UNCHANGED <<tables, rt, restarts, arrived, events, history>>

\* Mutant of Room: one more than the plan allows.
RoomOneMore == Cardinality(on) <= Limit

\* _enabled_count against max_modules.
Room == Cardinality(on) < Limit

\* _check_limit: without a subscription or without room enable raises.
CheckLimit(u) ==
    /\ h[u].kind = "switch" /\ h[u].pc = "check"
    /\ h' = [h EXCEPT ![u] = IF subscribed /\ Room THEN [@ EXCEPT !.pc = "enable"] ELSE Done]
    /\ UNCHANGED <<tables, rt, restarts, arrived, events, history>>

\* Mutant of WriteModule: the new row is not added to the session.
WriteModuleNoRow(u) ==
    /\ h[u].pc \in {"enable", "disable"}
    /\ on' = IF h[u].pc = "enable" THEN on \cup {h[u].arg} ELSE on \ {h[u].arg}
    /\ h' = [h EXCEPT ![u].pc = "send"]
    /\ UNCHANGED <<known, subscribed, keywords, templates, rt, restarts, arrived, events, history>>

\* enable and disable up to the commit, with the SELECT of the row they change.
\* An INSERT that loses the race fails on uq_user_module, which is Fail.
WriteModule(u) ==
    /\ \/ /\ h[u].pc = "enable"
          /\ on' = on \cup {h[u].arg}
          /\ known' = known \cup {h[u].arg}
       \/ /\ h[u].pc = "disable"
          /\ on' = on \ {h[u].arg}
          /\ UNCHANGED known
    /\ h' = [h EXCEPT ![u].pc = "send"]
    /\ UNCHANGED <<subscribed, keywords, templates, rt, restarts, arrived, events, history>>

\* request_restart or command_bus.send, after the commit.
SendRestart(u) ==
    /\ h[u].pc = "send"
    /\ restarts' = restarts + 1
    /\ h' = [h EXCEPT ![u] = Done]
    /\ UNCHANGED <<tables, rt, arrived, events, history>>

-----------------------------------------------------------------------------
(* Settings                                                                *)

\* _handle_keyword, or _del_keyword with the index of a button of some earlier
\* _show_module_config.  Both read the row of the module and the whole setting.
PressKeyword(u, kind, arg) ==
    /\ kind \in {"add", "delete"}
    /\ Arrives(u)
    /\ h' = [h EXCEPT ![u] = Handler(kind, arg, "read", {})]
    /\ Disturbs
    /\ UNCHANGED <<tables, rt, restarts, events, width, lost, confirmed>>

\* set_setting raises when the module was not enabled.
ReadKeywords(u) ==
    /\ h[u].kind \in {"add", "delete"} /\ h[u].pc = "read"
    /\ h' = [h EXCEPT ![u] = IF "keyword_reply" \in on
                             THEN Handler(@.kind, @.arg, "write", keywords) ELSE Done]
    /\ UNCHANGED <<tables, rt, restarts, arrived, events, history>>

\* The keyword at an index of list(keywords.items()).
At(set, index) == {k \in set : Cardinality({j \in set : j < k}) = index}

\* Mutant of NewKeywords: the new keyword replaces the others.
NewKeywordsOnly(u) == IF h[u].kind = "add" THEN {h[u].arg} ELSE h[u].value \ At(h[u].value, h[u].arg)

\* The dict that is written back; an index past the end changes nothing.
NewKeywords(u) ==
    IF h[u].kind = "add" THEN h[u].value \cup {h[u].arg}
    ELSE h[u].value \ At(h[u].value, h[u].arg)

\* The write, the commit and the answer.
WriteKeywords(u) ==
    /\ h[u].kind \in {"add", "delete"} /\ h[u].pc = "write"
    /\ keywords' = NewKeywords(u)
    /\ confirmed' = IF h[u].kind = "add"
                    THEN confirmed \cup {<<"keyword", h[u].arg>>}
                    ELSE confirmed \ {<<"keyword", k>> : k \in At(h[u].value, h[u].arg)}
    /\ h' = [h EXCEPT ![u] = Done]
    /\ UNCHANGED <<on, known, subscribed, templates, rt, restarts, arrived, events, width,
                   lost, disturbed>>

\* on_tmpl up to the first await of persist_setting: the copy in memory has the
\* new template at once.
Template(u, name) ==
    /\ Arrives(u)
    /\ rt.up /\ "post_templates" \in rt.modules
    /\ rt' = [rt EXCEPT !.templates = @ \cup {name}]
    /\ h' = [h EXCEPT ![u] = Handler("template", name, "write", rt.templates \cup {name})]
    /\ Disturbs
    /\ UNCHANGED <<tables, restarts, events, width, lost, confirmed>>

\* The rest of persist_setting, which writes the value it was called with, and
\* the answer.
Persist(u) ==
    /\ h[u].kind = "template" /\ h[u].pc = "write"
    /\ templates' = h[u].value
    /\ confirmed' = confirmed \cup {<<"template", h[u].arg>>}
    /\ h' = [h EXCEPT ![u] = Done]
    /\ UNCHANGED <<on, known, subscribed, keywords, rt, restarts, arrived, events, width, lost,
                   disturbed>>

-----------------------------------------------------------------------------
(* The worker and the environment                                          *)

\* Mutant of LoadModules: rows that are not enabled are loaded too.
LoadModulesAll == known

\* _load_modules: what is enabled, with its settings.
LoadModules == on

\* A restart command: the runtime is stopped, its modules' on_stop included.
\* A command that is still writing goes on or is cancelled, which is Fail.
HandleRestart ==
    /\ restarts > 0
    /\ restarts' = restarts - 1
    /\ rt' = [rt EXCEPT !.up = FALSE]
    /\ disturbed' = (disturbed \/ OpenOf({"template"}) # {})
    /\ UNCHANGED <<tables, h, arrived, events, width, lost, confirmed>>

\* _start_userbot and runtime.start(): every module gets its settings and its
\* handlers.
StartRuntime ==
    /\ ~rt.up
    /\ rt' = [up |-> TRUE, modules |-> LoadModules, templates |-> templates]
    /\ disturbed' = (disturbed \/ OpenOf({"template"}) # {})
    /\ UNCHANGED <<tables, restarts, h, arrived, events, width, lost, confirmed>>

\* The runtime ends for another reason: the worker dies or Telegram disconnects.
Crash ==
    /\ Event
    /\ rt.up
    /\ rt' = [rt EXCEPT !.up = FALSE]
    /\ disturbed' = (disturbed \/ OpenOf({"template"}) # {})
    /\ UNCHANGED <<tables, restarts, h, arrived, width, lost, confirmed>>

\* A database or Redis error, a unique constraint, or a cancelled task.
Fail(u) ==
    /\ Event
    /\ h[u].kind # "none"
    /\ h' = [h EXCEPT ![u] = Done]
    /\ lost' = (lost \/ h[u].pc = "send")
    /\ disturbed' = (disturbed \/ h[u].kind \in Settings)
    /\ UNCHANGED <<tables, rt, restarts, arrived, width, confirmed>>

\* A restart command outlives COMMAND_TTL before a worker pops it.
CommandExpires ==
    /\ Event
    /\ restarts > 0
    /\ restarts' = restarts - 1
    /\ lost' = TRUE
    /\ UNCHANGED <<tables, rt, h, arrived, width, disturbed, confirmed>>

\* A payment is approved, or the subscription expires: modules stay enabled.
SubscriptionChanges ==
    /\ Event
    /\ subscribed' = ~subscribed
    /\ UNCHANGED <<on, known, keywords, templates, rt, restarts, h, arrived, history>>

-----------------------------------------------------------------------------

Init ==
    /\ on \in {S \in SUBSET Modules : Cardinality(S) <= Limit}
    /\ known = on
    /\ subscribed = TRUE
    /\ keywords = {} /\ templates = {}
    /\ rt = [up |-> TRUE, modules |-> on, templates |-> {}]
    /\ restarts = 0
    /\ h = [u \in Ops |-> NoHandler]
    /\ arrived = 0 /\ events = 0 /\ width = 0
    /\ lost = FALSE /\ disturbed = FALSE
    /\ confirmed = {}

Handle(u) ==
    \/ ReadModule(u) \/ CheckLimit(u) \/ WriteModule(u) \/ SendRestart(u)
    \/ ReadKeywords(u) \/ WriteKeywords(u) \/ Persist(u) \/ Fail(u)

Next ==
    \/ \E u \in Ops : \/ Handle(u)
                      \/ \E m \in Modules : PressSwitch(u, m) \/ PressPanel(u, m)
                      \/ \E k \in Items : PressKeyword(u, "add", k) \/ Template(u, k)
                      \/ \E i \in 0..(Cardinality(Items) - 1) : PressKeyword(u, "delete", i)
    \/ HandleRestart \/ StartRuntime \/ Crash \/ CommandExpires \/ SubscriptionChanges

Spec == Init /\ [][Next]_vars

-----------------------------------------------------------------------------
(* Properties                                                              *)

\* What a handler has: a button names a module, a keyword or an index.
HandlerOK(x) ==
    /\ x = Handler(x.kind, x.arg, x.pc, x.value)
    /\ x.value \subseteq Items
    /\ \/ x \in {NoHandler, Done}
       \/ /\ x.kind = "switch" /\ x.arg \in Modules
          /\ x.pc \in {"read", "check", "enable", "disable", "send"}
       \/ x.kind \in {"add", "template"} /\ x.arg \in Items /\ x.pc \in {"read", "write"}
       \/ x.kind = "delete" /\ x.arg \in Nat /\ x.pc \in {"read", "write"}

TypeOK ==
    /\ on \subseteq known /\ known \subseteq Modules
    /\ subscribed \in BOOLEAN
    /\ keywords \subseteq Items /\ templates \subseteq Items
    /\ rt \in [up : BOOLEAN, modules : SUBSET Modules, templates : SUBSET Items]
    /\ restarts \in 0..MaxOps
    /\ h = [u \in Ops |-> h[u]] /\ \A u \in Ops : HandlerOK(h[u])
    /\ arrived \in 0..MaxOps /\ events \in 0..MaxEvents /\ width \in 0..MaxOps
    /\ lost \in BOOLEAN /\ disturbed \in BOOLEAN
    /\ confirmed \subseteq {"keyword", "template"} \X Items

\* The most switches that ran beside another one.
Excess == IF width = 0 THEN 0 ELSE width - 1

\* The plan's limit: _check_limit counts before concurrent enables commit, so the
\* limit can be passed, but never by more than the number of switches that ran
\* beside another one; handled one at a time they keep to it.
LimitHolds == Cardinality(on) <= Limit + Excess

\* Once every switch has sent its restart and the worker has taken it, the runtime
\* that is up has exactly the modules that are enabled, unless a restart command
\* was lost: concurrent switches, crashes and starts in any order included.
RuntimeIsCurrent ==
    rt.up /\ restarts = 0 /\ OpenOf({"switch"}) = {} /\ ~lost => rt.modules = on

\* What the user was told is saved is in the database, when changes of settings
\* did not overlap and none of them failed: the bot rewrites the whole dict and
\* persist_setting the whole value, across restarts in between.
ConfirmedIsSaved ==
    ~disturbed => /\ \A k \in Items : <<"keyword", k>> \in confirmed => k \in keywords
                  /\ \A k \in Items : <<"template", k>> \in confirmed => k \in templates

-----------------------------------------------------------------------------
(* The inductive invariant behind these properties.                        *)

NotYetArrived == \A u \in Ops : u > arrived => h[u] = NoHandler

\* Every restart in the queue was sent by a switch that is over.
RestartsCounted == restarts + Cardinality(OpenOf({"switch"})) <= arrived

\* A switch that passed _check_limit takes its place in advance: the ones that
\* have still to commit count like enabled modules.
Enabling == {u \in Ops : h[u].pc = "enable"}
PlacesCounted ==
    /\ Cardinality(OpenOf({"switch"})) <= width
    /\ Cardinality(on) + Cardinality(Enabling) <= Limit + Excess

\* A runtime that is behind the rows has a restart before it.
RestartOnItsWay ==
    rt.up /\ ~lost /\ rt.modules # on => restarts > 0 \/ \E u \in Ops : h[u].pc = "send"

\* Without disturbance one change of a setting is under way at most, and it knows
\* what is saved; the copy in memory is never behind the row.
ChangeIsCurrent ==
    ~disturbed =>
        /\ \A u, v \in OpenOf(Settings) : u = v
        /\ templates \subseteq rt.templates
        /\ \A u \in Ops :
              /\ h[u].kind \in {"add", "delete"} /\ h[u].pc = "write" => h[u].value = keywords
              /\ h[u].kind = "template" =>
                    /\ h[u].arg \in h[u].value /\ templates \subseteq h[u].value
                    /\ h[u].value \subseteq rt.templates

IInv ==
    /\ TypeOK /\ NotYetArrived /\ RestartsCounted /\ PlacesCounted
    /\ RestartOnItsWay /\ ChangeIsCurrent /\ ConfirmedIsSaved
=============================================================================
