------------------------- MODULE UserbotEventsProofs ------------------------
(***************************************************************************)
(* TLAPS proofs about UserbotEvents, for any members, enabled modules,      *)
(* commands and rules, any number of messages and of them at the same time. *)
(***************************************************************************)
EXTENDS UserbotEvents, FiniteSetTheorems, WellFoundedInduction, TLAPS

USE DEF chat, setting, history, ruleHistory

-----------------------------------------------------------------------------
(* Messages                                                                *)

LEMMA UnsetType == Unset \in Counts /\ \A m \in Members : Unset[m] = 0
BY EventsAssumption DEF Unset, Counts

LEMMA HandlerNames ==
    /\ "none" \notin Handlers /\ "rules" \in Handlers /\ "rules" \notin Enabled
    /\ Texts \cap Moderation = {} /\ Texts \cap Commands = {}
    /\ {"warn", "warns", "link_filter", "auto_delete", "rules", "done", "none"} \cap Moderation = {}
    /\ {"done", "none"} \cap Texts = {}
BY EventsAssumption DEF Handlers, Texts, Moderation, Warnings

LEMMA MessageType ==
    ASSUME NEW kind \in Commands \cup Texts \cup {"none", "done"}, NEW who \in Members \cup {NoOne},
           NEW todo \in SUBSET Handlers
    PROVE  LET m == Message(kind, who, todo) IN
           /\ m \in Messages
           /\ m.kind = kind /\ m.who = who /\ m.todo = todo
           /\ m.doing = "none" /\ m.pc = "next" /\ m.value = Unset /\ m.picked = {}
           /\ m.failed = {}
BY UnsetType DEF Message, Messages

LEMMA EndedType ==
    /\ NoMessage \in Messages /\ Ended \in Messages
    /\ NoMessage.kind = "none" /\ Ended.kind = "done"
    /\ NoMessage.who = NoOne /\ Ended.who = NoOne
    /\ NoMessage.todo = {} /\ Ended.todo = {}
    /\ NoMessage.doing = "none" /\ Ended.doing = "none"
    /\ NoMessage.pc = "next" /\ Ended.pc = "next"
    /\ NoMessage.value = Unset /\ Ended.value = Unset
    /\ NoMessage.picked = {} /\ Ended.picked = {}
    /\ NoMessage.failed = {} /\ Ended.failed = {}
BY MessageType DEF NoMessage, Ended

\* A handler that returns leaves the task as it was, or was the last one.
LEMMA ReturnType ==
    ASSUME NEW x \in Messages
    PROVE  LET m == Return(x) IN
           /\ m \in Messages
           /\ m.doing = "none" /\ m.pc = "next" /\ m.value = Unset /\ m.picked = {}
           /\ m.todo = x.todo
           /\ \/ m.kind = x.kind /\ m.who = x.who /\ m.failed = x.failed
              \/ m = Ended /\ x.kind \notin Texts /\ x.todo = {}
<1>1. CASE x.todo = {} /\ x.kind \notin Texts
  BY <1>1, EndedType DEF Return
<1>2. CASE ~(x.todo = {} /\ x.kind \notin Texts)
  <2> DEFINE m == [x EXCEPT !.doing = "none", !.pc = "next", !.value = Unset, !.picked = {}]
  <2>1. Return(x) = m
    BY <1>2 DEF Return
  <2>2. /\ m \in Messages
        /\ m.doing = "none" /\ m.pc = "next" /\ m.value = Unset /\ m.picked = {}
        /\ m.kind = x.kind /\ m.who = x.who /\ m.todo = x.todo /\ m.failed = x.failed
    BY UnsetType DEF Messages
  <2>3. QED
    BY <2>1, <2>2
<1>3. QED
  BY <1>1, <1>2

-----------------------------------------------------------------------------
(* What a step does to the messages                                        *)

\* Only the task of message u moves.
Moved(u) ==
    /\ msgs' \in [Ids -> Messages]
    /\ \A v \in Ids \ {u} : msgs'[v] = msgs[v]

\* The task of u goes on with its message, or ends.
Progress(u) ==
    /\ Moved(u) /\ u \in 1..arrived /\ arrived' = arrived
    /\ AwaitShape(msgs'[u]) /\ HandlerShape(msgs'[u])
    /\ msgs'[u].todo \subseteq msgs[u].todo
    /\ \/ msgs'[u].kind = msgs[u].kind /\ msgs'[u].who = msgs[u].who
       \/ msgs'[u] = Ended /\ msgs[u].kind \notin Texts

LEMMA Parts == IInv <=> /\ TypeOK /\ NotYetArrived /\ TaskShape
                        /\ WarnsCounted /\ WarnsAhead /\ WritesOneByOne
                        /\ RightsPending /\ LinkPending /\ RulesPending
BY DEF IInv

LEMMA MessageOf ==
    ASSUME IInv, NEW u \in Ids
    PROVE  /\ msgs[u] \in Messages /\ AwaitShape(msgs[u]) /\ HandlerShape(msgs[u])
           /\ msgs[u].todo \subseteq Handlers /\ msgs[u].doing \in Handlers \cup {"none"}
           /\ msgs[u].who \in Members \cup {NoOne}
           /\ msgs[u].picked \subseteq RuleIds
           /\ msgs = [v \in Ids |-> msgs[v]]
<1>1. msgs \in [Ids -> Messages] /\ (\A v \in Ids : AwaitShape(msgs[v])) /\ TaskShape
  BY Parts DEF TypeOK
<1>2. msgs[u] \in Messages /\ AwaitShape(msgs[u]) /\ HandlerShape(msgs[u])
  BY <1>1 DEF TaskShape
<1>3. QED
  BY <1>1, <1>2 DEF Messages

\* A task that has something to do has a message.
LEMMA TaskArrived ==
    ASSUME IInv, NEW u \in Ids, msgs[u].todo # {} \/ msgs[u].doing # "none"
    PROVE  u \in 1..arrived
<1>1. ~(u > arrived)
  BY Parts, EndedType DEF NotYetArrived
<1>2. QED
  BY <1>1, Parts, EventsAssumption DEF TypeOK, Ids

LEMMA SetMessage ==
    ASSUME IInv, NEW u \in Ids, NEW x \in Messages, msgs' = [msgs EXCEPT ![u] = x]
    PROVE  Moved(u) /\ msgs'[u] = x
BY Parts DEF TypeOK, Moved

\* The handler of u returns, with x the message before that.
LEMMA ReturnMoves ==
    ASSUME IInv, NEW u \in Ids, Open(u), arrived' = arrived,
           NEW x \in Messages, msgs' = [msgs EXCEPT ![u] = Return(x)],
           x.kind = msgs[u].kind, x.who = msgs[u].who, x.todo \subseteq msgs[u].todo
    PROVE  /\ Progress(u)
           /\ msgs'[u].doing = "none" /\ msgs'[u].pc = "next"
           /\ msgs'[u].value = Unset /\ msgs'[u].picked = {}
           /\ msgs'[u].todo = x.todo
           /\ \/ msgs'[u].kind = x.kind /\ msgs'[u].who = x.who /\ msgs'[u].failed = x.failed
              \/ msgs'[u] = Ended /\ x.kind \notin Texts /\ x.todo = {}
<1>1. Moved(u) /\ msgs'[u] = Return(x)
  BY ReturnType, SetMessage
<1>2. u \in 1..arrived
  BY TaskArrived DEF Open
<1>3. /\ msgs'[u].doing = "none" /\ msgs'[u].pc = "next"
      /\ msgs'[u].value = Unset /\ msgs'[u].picked = {}
      /\ msgs'[u].todo = x.todo
      /\ \/ msgs'[u].kind = x.kind /\ msgs'[u].who = x.who /\ msgs'[u].failed = x.failed
         \/ msgs'[u] = Ended /\ x.kind \notin Texts /\ x.todo = {}
  BY <1>1, ReturnType
<1>4. AwaitShape(msgs'[u])
  BY <1>3 DEF AwaitShape
<1>5. HandlerShape(msgs'[u])
  <2>1. HandlerShape(msgs[u]) /\ "none" \notin msgs[u].todo
    BY MessageOf, HandlerNames
  <2>2. CASE msgs'[u].kind = msgs[u].kind
    BY <1>3, <2>1, <2>2, HandlerNames DEF HandlerShape
  <2>3. CASE msgs'[u].todo = {}
    BY <1>3, <2>3, HandlerNames DEF HandlerShape
  <2>4. QED
    BY <1>3, <2>2, <2>3
<1>6. QED
  BY <1>1, <1>2, <1>3, <1>4, <1>5 DEF Progress

-----------------------------------------------------------------------------
(* Steps of a task that leave a part of the state alone                    *)

LEMMA ShapesKept ==
    ASSUME IInv, NEW u \in Ids, Progress(u), \A v \in Ids \ {u} : acted'[v] = acted[v]
    PROVE  NotYetArrived' /\ TaskShape' /\ \A v \in Ids : AwaitShape(msgs'[v])
<1>1. \A v \in Ids : AwaitShape(msgs[v]) /\ HandlerShape(msgs[v])
  BY MessageOf
<1>2. \A v \in Ids : AwaitShape(msgs'[v]) /\ HandlerShape(msgs'[v])
  BY <1>1 DEF Progress, Moved
<1>3. NotYetArrived'
  BY Parts, EventsAssumption DEF TypeOK, NotYetArrived, Progress, Moved, Ids
<1>4. QED
  BY <1>2, <1>3 DEF TaskShape

LEMMA TypeQuiet ==
    ASSUME IInv, NEW u \in Ids, Progress(u), events' \in 0..MaxEvents,
           deleted' \subseteq deleted \cup {u},
           rights' \in [Members -> {"free", "muted", "banned"}],
           asked' \in [Members -> SUBSET Moderation],
           UNCHANGED <<setting, rules, created, answered, crowded, ruleHistory>>
    PROVE  TypeOK' /\ NotYetArrived' /\ TaskShape'
<1>1. NotYetArrived' /\ TaskShape' /\ \A v \in Ids : AwaitShape(msgs'[v])
  BY ShapesKept
<1>2. deleted' \subseteq 1..arrived /\ arrived' = arrived /\ msgs' \in [Ids -> Messages]
  BY Parts DEF TypeOK, Progress, Moved
<1>3. QED
  BY <1>1, <1>2, Parts DEF TypeOK

\* The warnings of a member that are counted stay counted.
LEMMA CountedFinite ==
    ASSUME IInv
    PROVE  /\ IsFiniteSet(Ids) /\ Cardinality(Ids) = MaxMessages
           /\ Counted \in SUBSET Ids /\ IsFiniteSet(Counted) /\ Cardinality(Counted) \in Nat
           /\ \A m \in Members : /\ Writing(m) \in SUBSET Ids /\ IsFiniteSet(Writing(m))
                                 /\ Cardinality(Writing(m)) \in Nat
<1>1. IsFiniteSet(Ids) /\ Cardinality(Ids) = MaxMessages
  BY FS_Interval, EventsAssumption DEF Ids
<1>2. Counted \in SUBSET Ids
  BY Parts, EventsAssumption DEF TypeOK, Counted, Ids
<1>3. \A m \in Members : Writing(m) \in SUBSET Ids
  BY DEF Writing
<1>4. QED
  BY <1>1, <1>2, <1>3, FS_Subset, FS_CardinalityType

LEMMA CountedGrows ==
    ASSUME IInv, NEW u \in Ids, Progress(u),
           msgs'[u].doing = "warn" /\ msgs'[u].pc = "resolve" => "warn" \in msgs[u].todo
    PROVE  /\ Counted \subseteq Counted' /\ Counted' \subseteq Ids
           /\ Counted' \subseteq Counted \cup {u}
           /\ IsFiniteSet(Counted') /\ Cardinality(Counted') \in Nat
           /\ Cardinality(Counted) <= Cardinality(Counted')
<1>1. ASSUME NEW v \in Counted PROVE v \in Counted'
  <2>1. /\ v \in Ids /\ v \in 1..arrived' /\ "warn" \notin msgs[v].todo
        /\ ~(msgs[v].doing = "warn" /\ msgs[v].pc = "resolve")
    BY <1>1, CountedFinite DEF Counted, Progress
  <2>2. CASE v = u
    BY <2>1, <2>2 DEF Counted, Progress
  <2>3. CASE v # u
    BY <2>1, <2>3 DEF Counted, Progress, Moved
  <2>4. QED
    BY <2>2, <2>3
<1>2. Counted' \in SUBSET Ids
  BY Parts, EventsAssumption DEF TypeOK, Counted, Ids, Progress
<1>3. Counted' \subseteq Counted \cup {u}
  <2>1. ASSUME NEW v \in Counted', v # u PROVE v \in Counted
    BY <1>2, <2>1 DEF Counted, Progress, Moved
  <2>2. QED
    BY <2>1
<1>4. IsFiniteSet(Counted')
  BY <1>2, CountedFinite, FS_Subset
<1>5. QED
  BY <1>1, <1>2, <1>3, <1>4, FS_Subset, FS_CardinalityType

LEMMA WarnsQuiet ==
    ASSUME IInv, NEW u \in Ids, Progress(u), UNCHANGED <<setting, answered, crowded>>,
           msgs'[u].doing = "warn" /\ msgs'[u].pc = "resolve" => "warn" \in msgs[u].todo,
           msgs'[u].value \in {Unset, msgs[u].value}, msgs'[u].pc # "persist",
           events' = 0 => events = 0
    PROVE  WarnsCounted' /\ WarnsAhead' /\ WritesOneByOne'
<1>1. \A v \in Ids : /\ msgs'[v].pc = "persist" => v # u /\ msgs'[v] = msgs[v]
                     /\ v # u => msgs'[v] = msgs[v]
  BY DEF Progress, Moved
<1>2. \A m \in Members : Writing(m)' \in SUBSET Writing(m)
  BY <1>1 DEF Writing
<1>3. \A m \in Members : /\ Cardinality(Writing(m)') \in Nat /\ Cardinality(Writing(m)) \in Nat
                         /\ Cardinality(Writing(m)') <= Cardinality(Writing(m))
  BY <1>2, CountedFinite, FS_Subset, FS_CardinalityType
<1>4. /\ Cardinality(Counted') \in Nat /\ Cardinality(Counted) \in Nat
      /\ Cardinality(Counted) <= Cardinality(Counted')
  BY CountedGrows, CountedFinite
<1>5. \A m \in Members : warns[m] \in Nat /\ row[m] \in Nat /\ answered[m] \in Nat
  BY Parts, EventsAssumption DEF TypeOK, Counts
<1>6. \A v \in Ids, m \in Members : msgs[v].value[m] \in Nat
  BY MessageOf, EventsAssumption DEF Messages, Counts
<1>7. WarnsCounted'
  <2> SUFFICES ASSUME NEW m \in Members
               PROVE  /\ warns[m] <= Cardinality(Counted') /\ row[m] <= Cardinality(Counted')
                      /\ \A v \in Ids : msgs'[v].value[m] <= Cardinality(Counted')
                      /\ answered[m] + Cardinality(Writing(m)') <= Cardinality(Counted')
    BY DEF WarnsCounted
  <2>1. /\ warns[m] <= Cardinality(Counted) /\ row[m] <= Cardinality(Counted)
        /\ \A v \in Ids : msgs[v].value[m] <= Cardinality(Counted)
        /\ answered[m] + Cardinality(Writing(m)) <= Cardinality(Counted)
    BY Parts DEF WarnsCounted
  <2>2. ASSUME NEW v \in Ids PROVE msgs'[v].value[m] <= Cardinality(Counted')
    <3>1. msgs'[v].value[m] = 0 \/ msgs'[v].value[m] = msgs[v].value[m]
      BY <1>1, UnsetType
    <3>2. QED
      BY <1>4, <1>6, <2>1, <3>1
  <2>3. QED
    BY <1>3, <1>4, <1>5, <2>1, <2>2
<1>8. WarnsAhead'
  BY <1>3, <1>5, Parts DEF WarnsAhead
<1>9. WritesOneByOne'
  BY <1>1, Parts DEF WritesOneByOne
<1>10. QED
  BY <1>7, <1>8, <1>9

\* No right changes, and a command that has something to ask for still has.
LEMMA RightsQuiet ==
    ASSUME IInv, NEW u \in Ids, Progress(u), Open(u), UNCHANGED <<rights, asked>>,
           Pending(u) /\ msgs[u].who \in Members => Pending(u)' /\ msgs'[u].who = msgs[u].who
    PROVE  RightsPending'
<1> SUFFICES ASSUME NEW m \in Members
             PROVE  /\ \A v \in OpenOf(Moderation \cap Enabled)' :
                          msgs'[v].who = m => msgs'[v].kind \in asked[m]
                    /\ asked[m] # {} =>
                         \/ asked[m] = Moderation
                         \/ \E v \in Ids : Pending(v)' /\ msgs'[v].who = m
                         \/ rights[m] \in {IF c = "kick" THEN "free" ELSE Rights(c) : c \in asked[m]}
  BY DEF RightsPending
<1>1. /\ \A v \in OpenOf(Moderation \cap Enabled) : msgs[v].who = m => msgs[v].kind \in asked[m]
      /\ asked[m] # {} =>
           \/ asked[m] = Moderation
           \/ \E v \in Ids : Pending(v) /\ msgs[v].who = m
           \/ rights[m] \in {IF c = "kick" THEN "free" ELSE Rights(c) : c \in asked[m]}
  BY Parts DEF RightsPending
<1>2. ASSUME NEW v \in OpenOf(Moderation \cap Enabled)', msgs'[v].who = m
      PROVE  msgs'[v].kind \in asked[m]
  <2>1. v \in Ids /\ msgs'[v].kind \in Moderation \cap Enabled /\ Open(v)'
    BY <1>2 DEF OpenOf
  <2>2. CASE v = u
    <3>1. msgs'[u].kind = msgs[u].kind /\ msgs'[u].who = msgs[u].who
      BY <2>1, <2>2, EndedType, HandlerNames DEF Progress
    <3>2. u \in OpenOf(Moderation \cap Enabled)
      BY <2>1, <2>2, <3>1 DEF OpenOf
    <3>3. QED
      BY <1>1, <1>2, <2>2, <3>1, <3>2
  <2>3. CASE v # u
    <3>1. msgs'[v] = msgs[v]
      BY <2>1, <2>3 DEF Progress, Moved
    <3>2. v \in OpenOf(Moderation \cap Enabled)
      BY <2>1, <3>1 DEF OpenOf, Open
    <3>3. QED
      BY <1>1, <1>2, <3>1, <3>2
  <2>4. QED
    BY <2>2, <2>3
<1>3. ASSUME NEW v \in Ids, Pending(v), msgs[v].who = m
      PROVE  Pending(v)' /\ msgs'[v].who = m
  <2>1. CASE v = u
    BY <1>3, <2>1
  <2>2. CASE v # u
    BY <1>3, <2>2 DEF Pending, Progress, Moved
  <2>3. QED
    BY <2>1, <2>2
<1>4. QED
  BY <1>1, <1>2, <1>3

LEMMA LinkQuiet ==
    ASSUME IInv, NEW u \in Ids, Progress(u), deleted \subseteq deleted',
           "link_filter" \in Enabled /\ msgs[u].kind = "link" =>
               \/ "link_filter" \in msgs'[u].todo \cup msgs'[u].failed
               \/ msgs'[u].doing = "link_filter" /\ msgs'[u].pc = "delete"
               \/ u \in deleted'
    PROVE  LinkPending'
<1>1. msgs'[u].kind = "link" => msgs[u].kind = "link"
  BY EndedType DEF Progress
<1>2. ASSUME NEW v \in Ids, v # u PROVE msgs'[v] = msgs[v]
  BY <1>2 DEF Progress, Moved
<1>3. QED
  BY <1>1, <1>2, Parts DEF LinkPending

LEMMA RulesQuiet ==
    ASSUME IInv, NEW u \in Ids, Progress(u), UNCHANGED <<rules, ruleHistory>>,
           msgs[u].picked = {}, msgs'[u].picked = {},
           "rules" \in msgs[u].todo => "rules" \in msgs'[u].todo
    PROVE  RulesPending'
<1> SUFFICES ASSUME NEW v \in Ids
             PROVE  /\ acted[v] \subseteq may[v] /\ msgs'[v].picked \subseteq may[v]
                    /\ owes[v] \subseteq DOMAIN rules
                    /\ msgs'[v].kind \in Texts =>
                         /\ DOMAIN rules \subseteq may[v]
                         /\ \A r \in owes[v] : EvaluateAll(rules[r], Context(msgs'[v].kind)) =>
                              "rules" \in msgs'[v].todo \/ r \in msgs'[v].picked \cup acted[v]
  BY DEF RulesPending
<1>1. /\ acted[v] \subseteq may[v] /\ msgs[v].picked \subseteq may[v]
      /\ owes[v] \subseteq DOMAIN rules
      /\ msgs[v].kind \in Texts =>
           /\ DOMAIN rules \subseteq may[v]
           /\ \A r \in owes[v] : EvaluateAll(rules[r], Context(msgs[v].kind)) =>
                "rules" \in msgs[v].todo \/ r \in msgs[v].picked \cup acted[v]
  BY Parts DEF RulesPending
<1>2. CASE v = u
  <2>1. msgs'[u].kind \in Texts => msgs'[u].kind = msgs[u].kind
    BY EndedType, HandlerNames DEF Progress
  <2>2. QED
    BY <1>1, <1>2, <2>1
<1>3. CASE v # u
  <2>1. msgs'[v] = msgs[v]
    BY <1>3 DEF Progress, Moved
  <2>2. QED
    BY <1>1, <2>1
<1>4. QED
  BY <1>2, <1>3

LEMMA QuietStep ==
    ASSUME IInv, NEW u \in Ids, Progress(u), Open(u),
           events' \in 0..MaxEvents, events' = 0 => events = 0,
           deleted \subseteq deleted', deleted' \subseteq deleted \cup {u},
           UNCHANGED <<rights, setting, rules, created, history, ruleHistory>>,
           msgs'[u].doing = "warn" /\ msgs'[u].pc = "resolve" => "warn" \in msgs[u].todo,
           msgs'[u].value \in {Unset, msgs[u].value}, msgs'[u].pc # "persist",
           Pending(u) /\ msgs[u].who \in Members => Pending(u)' /\ msgs'[u].who = msgs[u].who,
           "link_filter" \in Enabled /\ msgs[u].kind = "link" =>
               \/ "link_filter" \in msgs'[u].todo \cup msgs'[u].failed
               \/ msgs'[u].doing = "link_filter" /\ msgs'[u].pc = "delete"
               \/ u \in deleted',
           msgs[u].picked = {}, msgs'[u].picked = {},
           "rules" \in msgs[u].todo => "rules" \in msgs'[u].todo
    PROVE  IInv'
<1>1. TypeOK' /\ NotYetArrived' /\ TaskShape'
  <2>1. /\ rights' \in [Members -> {"free", "muted", "banned"}]
        /\ asked' \in [Members -> SUBSET Moderation]
    BY Parts DEF TypeOK
  <2>2. QED
    BY <2>1, TypeQuiet
<1>2. WarnsCounted' /\ WarnsAhead' /\ WritesOneByOne'
  BY WarnsQuiet
<1>3. RightsPending' /\ LinkPending' /\ RulesPending'
  BY RightsQuiet, LinkQuiet, RulesQuiet
<1>4. QED
  BY <1>1, <1>2, <1>3 DEF IInv

-----------------------------------------------------------------------------
(* Tasks of messages                                                       *)

LEMMA StartsType ==
    ASSUME IInv, NEW u \in Ids, NEW handler, Calls(u, handler),
           NEW pc \in {"next", "delete", "resolve", "act"}
    PROVE  /\ Starts(u, handler, pc) \in Messages
           /\ Starts(u, handler, pc).kind = msgs[u].kind
           /\ Starts(u, handler, pc).who = msgs[u].who
           /\ Starts(u, handler, pc).todo = msgs[u].todo \ {handler}
           /\ Starts(u, handler, pc).doing = handler /\ handler \in Handlers
           /\ Starts(u, handler, pc).pc = pc
           /\ Starts(u, handler, pc).value = msgs[u].value
           /\ Starts(u, handler, pc).failed = msgs[u].failed
           /\ Starts(u, handler, pc).picked = {}
           /\ msgs[u].picked = {} /\ msgs[u].pc = "next" /\ Open(u)
<1>1. msgs[u] \in Messages /\ AwaitShape(msgs[u]) /\ handler \in Handlers
  BY MessageOf DEF Calls
<1>2. msgs[u].picked = {} /\ msgs[u].pc = "next" /\ Open(u)
  BY <1>1 DEF AwaitShape, Calls, Open
<1>3. /\ Starts(u, handler, pc) \in Messages
      /\ Starts(u, handler, pc).kind = msgs[u].kind
      /\ Starts(u, handler, pc).who = msgs[u].who
      /\ Starts(u, handler, pc).todo = msgs[u].todo \ {handler}
      /\ Starts(u, handler, pc).doing = handler
      /\ Starts(u, handler, pc).pc = pc
      /\ Starts(u, handler, pc).value = msgs[u].value
      /\ Starts(u, handler, pc).failed = msgs[u].failed
      /\ Starts(u, handler, pc).picked = msgs[u].picked
  BY <1>1 DEF Starts, Messages
<1>4. QED
  BY <1>1, <1>2, <1>3

\* A handler that begins by awaiting something.
LEMMA StartsStep ==
    ASSUME IInv, NEW u \in Ids, NEW handler \in Enabled, Calls(u, handler),
           NEW pc \in {"delete", "resolve"},
           handler \in Moderation => pc = "resolve",
           handler = "link_filter" => pc = "delete",
           msgs' = [msgs EXCEPT ![u] = Starts(u, handler, pc)],
           UNCHANGED <<arrived, chat, setting, rules, created, events, history, ruleHistory>>
    PROVE  IInv'
<1> DEFINE x == Starts(u, handler, pc)
<1>1. Moved(u) /\ msgs'[u] = x /\ u \in 1..arrived /\ Open(u)
  <2>1. x \in Messages /\ Open(u)
    BY StartsType
  <2>2. u \in 1..arrived
    BY <2>1, TaskArrived DEF Open
  <2>3. QED
    BY <2>1, <2>2, SetMessage
<1>2. /\ x.kind = msgs[u].kind /\ x.who = msgs[u].who /\ x.todo = msgs[u].todo \ {handler}
      /\ x.doing = handler /\ x.pc = pc /\ x.value = msgs[u].value
      /\ x.failed = msgs[u].failed /\ x.picked = {} /\ msgs[u].picked = {}
  BY StartsType
<1>3. handler \in msgs[u].todo /\ msgs[u].doing = "none" /\ handler \notin {"none", "rules"}
  BY HandlerNames, EventsAssumption DEF Calls, Moderation, Warnings
<1>4. AwaitShape(x)
  BY <1>2, <1>3 DEF AwaitShape
<1>5. HandlerShape(x)
  <2>1. HandlerShape(msgs[u])
    BY MessageOf
  <2>2. QED
    BY <1>2, <1>3, <2>1 DEF HandlerShape
<1>6. Progress(u)
  BY <1>1, <1>2, <1>4, <1>5 DEF Progress
<1>7. Pending(u) /\ msgs[u].who \in Members => Pending(u)' /\ msgs'[u].who = msgs[u].who
  BY <1>1, <1>2, <1>3, HandlerNames DEF Pending
<1>8. "link_filter" \in Enabled /\ msgs[u].kind = "link" =>
               \/ "link_filter" \in msgs'[u].todo \cup msgs'[u].failed
               \/ msgs'[u].doing = "link_filter" /\ msgs'[u].pc = "delete"
               \/ u \in deleted'
  BY <1>1, <1>2, <1>3, Parts DEF LinkPending
<1>9. events' \in 0..MaxEvents /\ events' = events /\ deleted' = deleted
  BY Parts DEF TypeOK
<1>10. /\ msgs'[u].doing = "warn" /\ msgs'[u].pc = "resolve" => "warn" \in msgs[u].todo
       /\ msgs'[u].value \in {Unset, msgs[u].value} /\ msgs'[u].pc # "persist"
       /\ msgs'[u].picked = {}
       /\ "rules" \in msgs[u].todo => "rules" \in msgs'[u].todo
  BY <1>1, <1>2, <1>3
<1>11. QED
  BY <1>1, <1>2, <1>6, <1>7, <1>8, <1>9, <1>10, QuietStep

\* A handler that returns without an effect on rights, warnings or rules.
LEMMA ReturnStep ==
    ASSUME IInv, NEW u \in Ids, Open(u),
           NEW x \in Messages, msgs' = [msgs EXCEPT ![u] = Return(x)],
           x.kind = msgs[u].kind, x.who = msgs[u].who, x.todo \subseteq msgs[u].todo,
           msgs[u].failed \subseteq x.failed,
           msgs[u].picked = {}, "rules" \in msgs[u].todo => "rules" \in x.todo,
           Pending(u) /\ msgs[u].who \in Members => msgs[u].kind \in x.todo,
           "link_filter" \in Enabled /\ msgs[u].kind = "link" =>
               "link_filter" \in x.todo \cup x.failed \/ u \in deleted',
           events' \in 0..MaxEvents, events' = 0 => events = 0,
           deleted \subseteq deleted', deleted' \subseteq deleted \cup {u},
           UNCHANGED <<arrived, rights, setting, rules, created, history, ruleHistory>>
    PROVE  IInv'
<1>1. /\ Progress(u)
      /\ msgs'[u].doing = "none" /\ msgs'[u].pc = "next"
      /\ msgs'[u].value = Unset /\ msgs'[u].picked = {}
      /\ msgs'[u].todo = x.todo
      /\ \/ msgs'[u].kind = x.kind /\ msgs'[u].who = x.who /\ msgs'[u].failed = x.failed
         \/ msgs'[u] = Ended /\ x.kind \notin Texts /\ x.todo = {}
  BY ReturnMoves
<1>2. Pending(u) /\ msgs[u].who \in Members => Pending(u)' /\ msgs'[u].who = msgs[u].who
  BY <1>1 DEF Pending
<1>3. "link_filter" \in Enabled /\ msgs[u].kind = "link" =>
          "link_filter" \in msgs'[u].todo \cup msgs'[u].failed \/ u \in deleted'
  BY <1>1 DEF Texts
<1>4. QED
  BY <1>1, <1>2, <1>3, QuietStep

LEMMA LinkFilterStep ==
    ASSUME IInv, NEW u \in Ids, LinkFilter(u)
    PROVE  IInv'
<1>1. Calls(u, "link_filter") /\ "link_filter" \in Enabled
  BY MessageOf, HandlerNames DEF LinkFilter, Calls, Handlers
<1>2. CASE msgs[u].kind = "link"
  <2>1. msgs' = [msgs EXCEPT ![u] = Starts(u, "link_filter", "delete")]
    BY <1>2 DEF LinkFilter
  <2>2. QED
    BY <1>1, <2>1, HandlerNames, StartsStep DEF LinkFilter
<1>3. CASE msgs[u].kind # "link"
  <2> DEFINE x == Starts(u, "link_filter", "next")
  <2>1. msgs' = [msgs EXCEPT ![u] = Return(x)]
    BY <1>3 DEF LinkFilter
  <2>2. /\ x \in Messages /\ Open(u) /\ x.kind = msgs[u].kind /\ x.who = msgs[u].who
        /\ x.todo = msgs[u].todo \ {"link_filter"} /\ x.failed = msgs[u].failed
        /\ msgs[u].picked = {}
    BY <1>1, StartsType
  <2>3. Pending(u) => msgs[u].kind \in x.todo
    BY <1>1, <2>2, HandlerNames DEF Pending, Calls
  <2>4. events' \in 0..MaxEvents /\ UNCHANGED <<arrived, chat, setting, rules, created, events, history, ruleHistory>>
    BY Parts DEF TypeOK, LinkFilter
  <2> HIDE DEF x
  <2>5. QED
    BY <1>3, <2>1, <2>2, <2>3, <2>4, ReturnStep
<1>4. QED
  BY <1>2, <1>3

LEMMA AutoDeleteStep ==
    ASSUME IInv, NEW u \in Ids, AutoDelete(u)
    PROVE  IInv'
<1>1. Calls(u, "auto_delete") /\ "auto_delete" \in Enabled
  BY MessageOf DEF AutoDelete, Calls, Handlers
<1>2. QED
  BY <1>1, HandlerNames, StartsStep DEF AutoDelete

LEMMA CommandStep ==
    ASSUME IInv, NEW u \in Ids, NEW handler \in Enabled, Command(u, handler)
    PROVE  IInv'
<1>1. handler # "link_filter"
  BY DEF Command, Moderation, Warnings
<1>2. QED
  BY <1>1, StartsStep DEF Command

\* A handler in progress that is none of a moderation command.
LEMMA NotPending ==
    ASSUME IInv, NEW u \in Ids, msgs[u].pc # "next"
    PROVE  /\ Open(u) /\ msgs[u].doing # "none"
           /\ msgs[u].doing \notin Moderation /\ Pending(u) => msgs[u].kind \in msgs[u].todo
           /\ msgs[u].pc # "act" => msgs[u].picked = {}
BY MessageOf DEF AwaitShape, Pending, Open

LEMMA DeleteStep ==
    ASSUME IInv, NEW u \in Ids, Delete(u)
    PROVE  IInv'
<1>1. /\ Open(u) /\ msgs[u].picked = {} /\ msgs[u] \in Messages
      /\ Pending(u) => msgs[u].kind \in msgs[u].todo
  <2>1. msgs[u].doing \notin Moderation
    BY MessageOf DEF HandlerShape, Delete
  <2>2. QED
    BY <2>1, NotPending, MessageOf DEF Delete
<1>2. /\ msgs' = [msgs EXCEPT ![u] = Return(msgs[u])] /\ deleted' = deleted \cup {u}
      /\ events' \in 0..MaxEvents
      /\ UNCHANGED <<arrived, rights, setting, rules, created, events, history, ruleHistory>>
  BY Parts DEF Delete, TypeOK
<1>3. QED
  BY <1>1, <1>2, ReturnStep

-----------------------------------------------------------------------------
(* Warnings                                                                *)

\* A command without a target, or one that only answers.
LEMMA AnswerStep ==
    ASSUME IInv, NEW u \in Ids, msgs[u].pc = "resolve", msgs' = [msgs EXCEPT ![u] = Return(@)],
           msgs[u].who = NoOne \/ msgs[u].doing = "warns",
           UNCHANGED <<arrived, chat, setting, rules, created, events, history, ruleHistory>>
    PROVE  IInv'
<1>1. Open(u) /\ msgs[u].picked = {} /\ msgs[u] \in Messages
  BY NotPending, MessageOf
<1>2. Pending(u) /\ msgs[u].who \in Members => msgs[u].kind \in msgs[u].todo
  <2>1. CASE msgs[u].who = NoOne
    BY <2>1, EventsAssumption
  <2>2. CASE msgs[u].doing = "warns"
    BY <2>2, NotPending, HandlerNames
  <2>3. QED
    BY <2>1, <2>2
<1>3. "link_filter" \in Enabled /\ msgs[u].kind = "link" =>
          "link_filter" \in msgs[u].todo \cup msgs[u].failed \/ u \in deleted'
  BY Parts DEF LinkPending
<1>4. msgs' = [msgs EXCEPT ![u] = Return(msgs[u])] /\ events' \in 0..MaxEvents
  BY Parts DEF TypeOK
<1>5. QED
  BY <1>1, <1>2, <1>3, <1>4, ReturnStep

\* on_warn counts in memory: one more message has counted its warning.
LEMMA CountMoves ==
    ASSUME IInv, NEW u \in Ids, msgs[u].pc = "resolve", msgs[u].who \in Members, Count(u),
           arrived' = arrived
    PROVE  /\ Progress(u) /\ Open(u)
           /\ msgs'[u] = [msgs[u] EXCEPT !.pc = "persist", !.value = warns']
           /\ Counted' = Counted \cup {u} /\ u \notin Counted
           /\ warns' \in Counts
           /\ \A m \in Members : warns'[m] = IF m = msgs[u].who THEN warns[m] + 1 ELSE warns[m]
<1> DEFINE x == [msgs[u] EXCEPT !.pc = "persist", !.value = warns']
<1>1. /\ Open(u) /\ u \in 1..arrived /\ msgs[u] \in Messages
      /\ HandlerShape(msgs[u]) /\ msgs[u].picked = {} /\ msgs[u].doing = "warn"
  BY NotPending, MessageOf, TaskArrived DEF Count, Open
<1>2. msgs' = [msgs EXCEPT ![u] = x]
  BY <1>1, MessageOf DEF Count
<1>3. \A v \in Ids : msgs'[v] = IF v = u THEN x ELSE msgs[v]
  BY <1>2, MessageOf
<1>4. /\ x.kind = msgs[u].kind /\ x.who = msgs[u].who /\ x.todo = msgs[u].todo
      /\ x.doing = msgs[u].doing /\ x.pc = "persist" /\ x.value = warns'
      /\ x.picked = msgs[u].picked /\ x.failed = msgs[u].failed
  BY <1>1 DEF Messages
<1>5. "warn" \notin msgs[u].todo
  BY <1>1 DEF HandlerShape
<1>6. u \notin Counted
  BY <1>1 DEF Counted
<1>7. Counted' = Counted \cup {u}
  <2>1. ASSUME NEW v PROVE v \in Counted' <=> v \in Counted \cup {u}
    <3>1. CASE v = u
      BY <1>1, <1>3, <1>4, <1>5, <3>1 DEF Counted
    <3>2. CASE v # u
      <4>1. v \in 1..arrived => msgs'[v] = msgs[v]
        BY <1>3, <3>2, Parts, EventsAssumption DEF TypeOK, Ids
      <4>2. QED
        BY <3>2, <4>1 DEF Counted
    <3>3. QED
      BY <3>1, <3>2
  <2>2. QED
    BY <2>1
<1>8. /\ Cardinality(Counted') = Cardinality(Counted) + 1
      /\ Cardinality(Counted') <= MaxMessages /\ Cardinality(Counted) \in Nat
  <2>1. Counted \cup {u} \in SUBSET Ids
    BY CountedFinite
  <2>2. Cardinality(Counted \cup {u}) = Cardinality(Counted) + 1
    BY <1>6, CountedFinite, FS_AddElement
  <2>3. Cardinality(Counted \cup {u}) <= Cardinality(Ids)
    BY <2>1, CountedFinite, FS_Subset
  <2>4. QED
    BY <1>7, <2>2, <2>3, CountedFinite
<1>9. warns \in Counts /\ \A m \in Members : warns[m] \in Nat /\ warns[m] <= Cardinality(Counted)
  BY Parts, EventsAssumption DEF TypeOK, Counts, WarnsCounted
<1>10. \A m \in Members : warns'[m] = IF m = msgs[u].who THEN warns[m] + 1 ELSE warns[m]
  BY <1>9 DEF Count, Counts
<1>11. warns' \in Counts
  <2>1. \A m \in Members : warns'[m] \in 0..MaxMessages
    BY <1>8, <1>9, <1>10, EventsAssumption
  <2>2. warns' = [m \in Members |-> warns'[m]]
    BY <1>9 DEF Count, Counts
  <2>3. QED
    BY <2>1, <2>2 DEF Counts
<1>12. x \in Messages
  BY <1>1, <1>11 DEF Messages
<1>13. AwaitShape(x)
  BY <1>1, <1>4 DEF AwaitShape
<1>14. HandlerShape(x)
  BY <1>1, <1>4, HandlerNames DEF HandlerShape
<1>15. Progress(u)
  <2>1. Moved(u) /\ msgs'[u] = x
    BY <1>2, <1>12, SetMessage
  <2>2. QED
    BY <1>1, <1>4, <1>13, <1>14, <2>1 DEF Progress
<1>16. QED
  BY <1>1, <1>3, <1>6, <1>7, <1>10, <1>11, <1>15

LEMMA CountStep ==
    ASSUME IInv, NEW u \in Ids, msgs[u].pc = "resolve", msgs[u].who \in Members, Count(u),
           UNCHANGED <<arrived, chat, row, rules, created, events, asked, answered, ruleHistory>>
    PROVE  IInv'
<1> DEFINE x == [msgs[u] EXCEPT !.pc = "persist", !.value = warns']
<1>1. /\ Progress(u) /\ Open(u) /\ msgs'[u] = x /\ warns' \in Counts
      /\ \A m \in Members : warns'[m] = IF m = msgs[u].who THEN warns[m] + 1 ELSE warns[m]
  BY CountMoves
<1>2. /\ x.kind = msgs[u].kind /\ x.who = msgs[u].who /\ x.todo = msgs[u].todo
      /\ x.doing = "warn" /\ msgs[u].doing = "warn" /\ x.pc = "persist" /\ x.value = warns'
      /\ x.picked = {} /\ msgs[u].picked = {} /\ x.failed = msgs[u].failed
  BY NotPending, MessageOf DEF Messages, Count
<1>3. \A v \in Ids : v # u => msgs'[v] = msgs[v]
  BY <1>1 DEF Progress, Moved
<1> HIDE DEF x
<1>4. TypeOK' /\ NotYetArrived' /\ TaskShape'
  <2>1. NotYetArrived' /\ TaskShape' /\ \A v \in Ids : AwaitShape(msgs'[v])
    BY <1>1, ShapesKept
  <2>2. crowded' \in BOOLEAN
    BY Parts DEF TypeOK, Count
  <2>3. msgs' \in [Ids -> Messages]
    BY <1>1 DEF Progress, Moved
  <2>4. QED
    BY <1>1, <2>1, <2>2, <2>3, Parts DEF TypeOK
<1>5. RightsPending' /\ LinkPending' /\ RulesPending'
  <2>1. Pending(u) => Pending(u)' /\ msgs'[u].who = msgs[u].who
    BY <1>1, <1>2 DEF Pending
  <2>2. "link_filter" \in Enabled /\ msgs[u].kind = "link" =>
            "link_filter" \in msgs'[u].todo \cup msgs'[u].failed \/ u \in deleted'
    BY <1>1, <1>2, Parts DEF LinkPending
  <2>3. QED
    BY <1>1, <1>2, <2>1, <2>2, RightsQuiet, LinkQuiet, RulesQuiet
<1>6. \A m \in Members : Writing(m)' = IF m = msgs[u].who THEN Writing(m) \cup {u} ELSE Writing(m)
  <2>1. ASSUME NEW m \in Members, NEW v \in Ids
        PROVE  msgs'[v].pc = "persist" /\ msgs'[v].who = m <=>
                 (msgs[v].pc = "persist" /\ msgs[v].who = m) \/ (v = u /\ m = msgs[u].who)
    BY <1>1, <1>2, <1>3
  <2>2. QED
    BY <2>1 DEF Writing
<1>7. \A m \in Members :
          /\ Cardinality(Writing(m)) \in Nat
          /\ Cardinality(Writing(m)') =
               IF m = msgs[u].who THEN Cardinality(Writing(m)) + 1 ELSE Cardinality(Writing(m))
  <2>1. \A m \in Members : u \notin Writing(m) /\ IsFiniteSet(Writing(m)) /\ Cardinality(Writing(m)) \in Nat
    BY CountedFinite DEF Writing
  <2>2. QED
    BY <1>6, <2>1, FS_AddElement
<1>8. Cardinality(Counted') = Cardinality(Counted) + 1 /\ Cardinality(Counted) \in Nat
  BY CountMoves, CountedFinite, FS_AddElement
<1>9. /\ \A m \in Members : warns[m] \in Nat /\ row[m] \in Nat /\ answered[m] \in Nat
      /\ \A v \in Ids, m \in Members : msgs[v].value[m] \in Nat
  <2>1. \A m \in Members : warns[m] \in Nat /\ row[m] \in Nat /\ answered[m] \in Nat
    BY Parts, EventsAssumption DEF TypeOK, Counts
  <2>2. \A v \in Ids, m \in Members : msgs[v].value[m] \in Nat
    BY MessageOf, EventsAssumption DEF Messages, Counts
  <2>3. QED
    BY <2>1, <2>2
<1>10. WarnsCounted'
  <2> SUFFICES ASSUME NEW m \in Members
               PROVE  /\ warns'[m] <= Cardinality(Counted') /\ row[m] <= Cardinality(Counted')
                      /\ \A v \in Ids : msgs'[v].value[m] <= Cardinality(Counted')
                      /\ answered[m] + Cardinality(Writing(m)') <= Cardinality(Counted')
    BY DEF WarnsCounted
  <2>1. /\ warns[m] <= Cardinality(Counted) /\ row[m] <= Cardinality(Counted)
        /\ \A v \in Ids : msgs[v].value[m] <= Cardinality(Counted)
        /\ answered[m] + Cardinality(Writing(m)) <= Cardinality(Counted)
    BY Parts DEF WarnsCounted
  <2>2. warns'[m] <= Cardinality(Counted')
    BY <1>1, <1>8, <1>9, <2>1
  <2>3. ASSUME NEW v \in Ids PROVE msgs'[v].value[m] <= Cardinality(Counted')
    <3>1. CASE v = u
      BY <1>1, <1>2, <2>2, <3>1
    <3>2. CASE v # u
      BY <1>3, <1>8, <1>9, <2>1, <3>2
    <3>3. QED
      BY <3>1, <3>2
  <2>4. QED
    BY <1>7, <1>8, <1>9, <2>1, <2>2, <2>3
<1>11. WarnsAhead'
  <2> SUFFICES ASSUME events = 0, NEW m \in Members
               PROVE  answered[m] + Cardinality(Writing(m)') <= warns'[m]
    BY DEF WarnsAhead
  <2>1. answered[m] + Cardinality(Writing(m)) <= warns[m]
    BY Parts DEF WarnsAhead
  <2>2. QED
    BY <1>1, <1>7, <1>9, <2>1
<1>12. WritesOneByOne'
  <2> SUFFICES ASSUME ~crowded'
               PROVE  /\ \A m \in Members : answered[m] <= row[m] /\ answered[m] <= warns'[m]
                      /\ \A v \in Ids : msgs'[v].pc = "persist" =>
                           /\ msgs'[v].value = warns' /\ answered[msgs'[v].who] < warns'[msgs'[v].who]
                           /\ \A w \in Ids : msgs'[w].pc = "persist" => v = w
    BY DEF WritesOneByOne
  <2>1. ~crowded /\ \A v \in Ids : msgs[v].pc # "persist"
    BY DEF Count
  <2>2. \A m \in Members : answered[m] <= row[m] /\ answered[m] <= warns[m]
    BY <2>1, Parts DEF WritesOneByOne
  <2>3. \A m \in Members : answered[m] <= warns'[m] /\ (m = msgs[u].who => answered[m] < warns'[m])
    BY <1>1, <1>9, <2>2
  <2>4. \A v \in Ids : msgs'[v].pc = "persist" => v = u
    BY <1>3, <2>1
  <2>5. msgs'[u].value = warns' /\ msgs'[u].who = msgs[u].who
    BY <1>1, <1>2
  <2>6. QED
    BY <2>2, <2>3, <2>4, <2>5
<1>13. QED
  BY <1>4, <1>5, <1>10, <1>11, <1>12 DEF IInv

\* The commit of persist_setting, and the answer.
LEMMA PersistStep ==
    ASSUME IInv, NEW u \in Ids, PersistWarns(u)
    PROVE  IInv'
<1> DEFINE who == msgs[u].who
<1>1. /\ Open(u) /\ msgs[u].picked = {} /\ msgs[u] \in Messages /\ who \in Members
      /\ msgs[u].doing = "warn"
      /\ Pending(u) => msgs[u].kind \in msgs[u].todo
  <2>1. msgs[u].pc = "persist" /\ AwaitShape(msgs[u]) /\ HandlerShape(msgs[u])
    BY MessageOf DEF PersistWarns
  <2>2. msgs[u].doing = "warn" /\ who \in Members
    BY <2>1 DEF AwaitShape, HandlerShape
  <2>3. QED
    BY <2>1, <2>2, NotPending, MessageOf, HandlerNames
<1>2. /\ Progress(u)
      /\ msgs'[u].doing = "none" /\ msgs'[u].pc = "next"
      /\ msgs'[u].value = Unset /\ msgs'[u].picked = {}
      /\ msgs'[u].todo = msgs[u].todo
      /\ \/ msgs'[u].kind = msgs[u].kind /\ msgs'[u].who = who /\ msgs'[u].failed = msgs[u].failed
         \/ msgs'[u] = Ended /\ msgs[u].kind \notin Texts /\ msgs[u].todo = {}
  BY <1>1, ReturnMoves DEF PersistWarns
<1>3. \A v \in Ids : v # u => msgs'[v] = msgs[v]
  BY <1>2 DEF Progress, Moved
<1>4. /\ row' = msgs[u].value /\ row' \in Counts
      /\ \A m \in Members : answered'[m] = IF m = who THEN answered[m] + 1 ELSE answered[m]
      /\ answered' = [m \in Members |-> answered'[m]]
  <2>1. msgs[u].value \in Counts /\ answered \in Counts
    BY <1>1, Parts DEF Messages, TypeOK
  <2>2. QED
    BY <2>1 DEF PersistWarns, Counts
<1>5. RightsPending' /\ LinkPending' /\ RulesPending'
  <2>1. Pending(u) => Pending(u)' /\ msgs'[u].who = msgs[u].who
    BY <1>1, <1>2 DEF Pending
  <2>2. "link_filter" \in Enabled /\ msgs[u].kind = "link" =>
            "link_filter" \in msgs'[u].todo \cup msgs'[u].failed \/ u \in deleted'
    BY <1>1, <1>2, Parts DEF LinkPending, PersistWarns, Texts
  <2>3. UNCHANGED <<rights, asked, deleted, rules, ruleHistory>>
    BY DEF PersistWarns
  <2>4. QED
    BY <1>1, <1>2, <2>1, <2>2, <2>3, RightsQuiet, LinkQuiet, RulesQuiet
<1>6. \A m \in Members : Writing(m)' = IF m = who THEN Writing(m) \ {u} ELSE Writing(m)
  <2>1. ASSUME NEW m \in Members, NEW v \in Ids
        PROVE  msgs'[v].pc = "persist" /\ msgs'[v].who = m <=>
                 msgs[v].pc = "persist" /\ msgs[v].who = m /\ ~(v = u /\ m = who)
    BY <1>2, <1>3 DEF PersistWarns
  <2>2. QED
    BY <2>1 DEF Writing
<1>7. \A m \in Members :
          /\ Cardinality(Writing(m)) \in Nat /\ Cardinality(Writing(m)') \in Nat
          /\ Cardinality(Writing(m)) =
               IF m = who THEN Cardinality(Writing(m)') + 1 ELSE Cardinality(Writing(m)')
  <2>1. \A m \in Members : IsFiniteSet(Writing(m)) /\ Cardinality(Writing(m)) \in Nat
    BY CountedFinite
  <2>2. u \in Writing(who)
    BY <1>1 DEF Writing, PersistWarns
  <2>3. /\ IsFiniteSet(Writing(who) \ {u}) /\ Cardinality(Writing(who) \ {u}) \in Nat
        /\ Cardinality(Writing(who) \ {u}) = Cardinality(Writing(who)) - 1
    BY <1>1, <2>1, <2>2, FS_RemoveElement, FS_CardinalityType
  <2>4. \A m \in Members : m # who => Writing(m)' = Writing(m)
    BY <1>6
  <2>5. \A m \in Members : m = who => Writing(m)' = Writing(m) \ {u}
    BY <1>6
  <2>6. Cardinality(Writing(who)) = Cardinality(Writing(who) \ {u}) + 1
    BY <1>1, <2>1, <2>3
  <2>7. ASSUME NEW m \in Members
        PROVE  /\ Cardinality(Writing(m)) \in Nat /\ Cardinality(Writing(m)') \in Nat
               /\ Cardinality(Writing(m)) =
                    IF m = who THEN Cardinality(Writing(m)') + 1 ELSE Cardinality(Writing(m)')
    <3>1. CASE m = who
      BY <2>1, <2>3, <2>5, <2>6, <3>1
    <3>2. CASE m # who
      BY <2>1, <2>4, <3>2
    <3>3. QED
      BY <3>1, <3>2
  <2>8. QED
    BY <2>7
<1>8. /\ Cardinality(Counted') \in Nat /\ Cardinality(Counted) \in Nat
      /\ Cardinality(Counted) <= Cardinality(Counted') /\ Cardinality(Counted') <= MaxMessages
  <2>1. Counted' \in SUBSET Ids
    BY <1>2, CountedGrows
  <2>2. QED
    BY <1>2, <2>1, CountedGrows, CountedFinite, FS_Subset
<1>9. /\ \A m \in Members : warns[m] \in Nat /\ row[m] \in Nat /\ answered[m] \in Nat
      /\ \A v \in Ids, m \in Members : msgs[v].value[m] \in Nat
  <2>1. \A m \in Members : warns[m] \in Nat /\ row[m] \in Nat /\ answered[m] \in Nat
    BY Parts, EventsAssumption DEF TypeOK, Counts
  <2>2. \A v \in Ids, m \in Members : msgs[v].value[m] \in Nat
    BY MessageOf, EventsAssumption DEF Messages, Counts
  <2>3. QED
    BY <2>1, <2>2
<1>10. UNCHANGED <<warns, crowded, events, arrived>>
  BY DEF PersistWarns
<1>11. WarnsCounted'
  <2> SUFFICES ASSUME NEW m \in Members
               PROVE  /\ warns[m] <= Cardinality(Counted') /\ row'[m] <= Cardinality(Counted')
                      /\ \A v \in Ids : msgs'[v].value[m] <= Cardinality(Counted')
                      /\ answered'[m] + Cardinality(Writing(m)') <= Cardinality(Counted')
    BY <1>10 DEF WarnsCounted
  <2>1. /\ warns[m] <= Cardinality(Counted) /\ row[m] <= Cardinality(Counted)
        /\ \A v \in Ids : msgs[v].value[m] <= Cardinality(Counted)
        /\ answered[m] + Cardinality(Writing(m)) <= Cardinality(Counted)
    BY Parts DEF WarnsCounted
  <2>2. ASSUME NEW v \in Ids PROVE msgs'[v].value[m] <= Cardinality(Counted')
    <3>1. msgs'[v].value[m] = 0 \/ msgs'[v].value[m] = msgs[v].value[m]
      BY <1>2, <1>3, UnsetType
    <3>2. QED
      BY <1>8, <1>9, <2>1, <3>1
  <2>3. answered'[m] + Cardinality(Writing(m)') <= Cardinality(Counted')
    BY <1>4, <1>7, <1>8, <1>9, <2>1
  <2>4. warns[m] <= Cardinality(Counted') /\ row'[m] <= Cardinality(Counted')
    BY <1>4, <1>8, <1>9, <2>1
  <2>5. QED
    BY <2>2, <2>3, <2>4
<1>12. WarnsAhead'
  <2> SUFFICES ASSUME events = 0, NEW m \in Members
               PROVE  answered'[m] + Cardinality(Writing(m)') <= warns[m]
    BY <1>10 DEF WarnsAhead
  <2>1. answered[m] + Cardinality(Writing(m)) <= warns[m]
    BY Parts DEF WarnsAhead
  <2>2. QED
    BY <1>4, <1>7, <1>9, <2>1
<1>13. WritesOneByOne'
  <2> SUFFICES ASSUME ~crowded
               PROVE  /\ \A m \in Members : answered'[m] <= row'[m] /\ answered'[m] <= warns[m]
                      /\ \A v \in Ids : msgs'[v].pc # "persist"
    BY <1>10 DEF WritesOneByOne
  <2>1. /\ \A m \in Members : answered[m] <= row[m] /\ answered[m] <= warns[m]
        /\ msgs[u].value = warns /\ answered[who] < warns[who]
        /\ \A v \in Ids : msgs[v].pc = "persist" => u = v
    BY Parts DEF WritesOneByOne, PersistWarns
  <2>2. \A m \in Members : answered'[m] <= warns[m]
    BY <1>1, <1>4, <1>9, <2>1
  <2>3. \A v \in Ids : msgs'[v].pc # "persist"
    BY <1>2, <1>3, <2>1
  <2>4. QED
    BY <1>4, <2>1, <2>2, <2>3
<1>14. TypeOK' /\ NotYetArrived' /\ TaskShape'
  <2>1. UNCHANGED <<rights, deleted, rules, created, asked, ruleHistory>>
    BY DEF PersistWarns
  <2>2. NotYetArrived' /\ TaskShape' /\ \A v \in Ids : AwaitShape(msgs'[v])
    BY <1>2, <2>1, ShapesKept
  <2>3. answered' \in Counts
    <3>1. \A m \in Members : answered'[m] \in 0..MaxMessages
      <4> SUFFICES ASSUME NEW m \in Members PROVE answered'[m] \in 0..MaxMessages
        OBVIOUS
      <4>1. answered'[m] + Cardinality(Writing(m)') <= Cardinality(Counted')
        BY <1>11 DEF WarnsCounted
      <4>2. QED
        BY <1>4, <1>7, <1>8, <1>9, <4>1, EventsAssumption
    <3>2. QED
      BY <1>4, <3>1 DEF Counts
  <2>4. msgs' \in [Ids -> Messages]
    BY <1>2 DEF Progress, Moved
  <2>5. QED
    BY <1>4, <1>10, <2>1, <2>2, <2>3, <2>4, Parts DEF TypeOK
<1>15. QED
  BY <1>5, <1>11, <1>12, <1>13, <1>14 DEF IInv

-----------------------------------------------------------------------------
(* Moderation                                                              *)

Final(commands) == {IF c = "kick" THEN "free" ELSE Rights(c) : c \in commands}

\* Command u changes the rights of its member, or fails to: the member has the
\* rights of a command, has one ahead, or was asked for with a failure.
LEMMA RightsStep ==
    ASSUME IInv, NEW u \in Ids, Progress(u), Open(u), NEW who \in Members, msgs[u].who = who,
           \A m \in Members \ {who} : rights'[m] = rights[m] /\ asked'[m] = asked[m],
           asked'[who] \in {asked[who], Moderation},
           \/ asked'[who] = Moderation
           \/ Pending(u)' /\ msgs'[u].who = who
           \/ rights'[who] \in Final(asked'[who])
    PROVE  RightsPending'
<1> SUFFICES ASSUME NEW m \in Members
             PROVE  /\ \A v \in OpenOf(Moderation \cap Enabled)' :
                          msgs'[v].who = m => msgs'[v].kind \in asked'[m]
                    /\ asked'[m] # {} =>
                         \/ asked'[m] = Moderation
                         \/ \E v \in Ids : Pending(v)' /\ msgs'[v].who = m
                         \/ rights'[m] \in Final(asked'[m])
  BY DEF RightsPending, Final
<1>1. /\ \A v \in OpenOf(Moderation \cap Enabled) : msgs[v].who = m => msgs[v].kind \in asked[m]
      /\ asked[m] # {} =>
           \/ asked[m] = Moderation
           \/ \E v \in Ids : Pending(v) /\ msgs[v].who = m
           \/ rights[m] \in Final(asked[m])
  BY Parts DEF RightsPending, Final
<1>2. asked'[m] = asked[m] \/ asked'[m] = Moderation
  OBVIOUS
<1>3. ASSUME NEW v \in OpenOf(Moderation \cap Enabled)', msgs'[v].who = m
      PROVE  msgs'[v].kind \in asked'[m]
  <2>1. v \in Ids /\ msgs'[v].kind \in Moderation \cap Enabled /\ Open(v)'
    BY <1>3 DEF OpenOf
  <2>2. msgs'[v].kind = msgs[v].kind /\ msgs'[v].who = msgs[v].who /\ Open(v)
    <3>1. CASE v = u
      BY <2>1, <3>1, EndedType, HandlerNames DEF Progress
    <3>2. CASE v # u
      BY <2>1, <3>2 DEF Progress, Moved, Open
    <3>3. QED
      BY <3>1, <3>2
  <2>3. v \in OpenOf(Moderation \cap Enabled)
    BY <2>1, <2>2 DEF OpenOf
  <2>4. QED
    BY <1>1, <1>2, <1>3, <2>1, <2>2, <2>3
<1>4. CASE m = who
  BY <1>3, <1>4
<1>5. CASE m # who
  <2>1. ASSUME NEW v \in Ids, Pending(v), msgs[v].who = m
        PROVE  Pending(v)' /\ msgs'[v].who = m
    BY <1>5, <2>1 DEF Pending, Progress, Moved
  <2>2. QED
    BY <1>1, <1>3, <1>5, <2>1
<1>6. QED
  BY <1>4, <1>5

LEMMA ModerationStep ==
    ASSUME IInv, NEW u \in Ids, Progress(u), Open(u), NEW who \in Members, msgs[u].who = who,
           msgs[u].doing \in Moderation, msgs[u].picked = {},
           msgs'[u].pc # "persist", msgs'[u].doing # "warn", msgs'[u].todo = msgs[u].todo,
           msgs'[u].value \in {Unset, msgs[u].value}, msgs'[u].picked = {},
           rights' \in [Members -> {"free", "muted", "banned"}],
           asked' \in [Members -> SUBSET Moderation],
           \A m \in Members \ {who} : rights'[m] = rights[m] /\ asked'[m] = asked[m],
           asked'[who] \in {asked[who], Moderation},
           \/ asked'[who] = Moderation
           \/ Pending(u)' /\ msgs'[u].who = who
           \/ rights'[who] \in Final(asked'[who]),
           events' \in 0..MaxEvents, events' = 0 => events = 0,
           UNCHANGED <<deleted, setting, rules, created, answered, crowded, ruleHistory>>
    PROVE  IInv'
<1>1. TypeOK' /\ NotYetArrived' /\ TaskShape'
  BY TypeQuiet
<1>2. WarnsCounted' /\ WarnsAhead' /\ WritesOneByOne'
  BY WarnsQuiet
<1>3. RightsPending'
  BY RightsStep
<1>4. LinkPending'
  <2>1. msgs[u].kind # "link"
    BY MessageOf, HandlerNames DEF HandlerShape, Texts
  <2>2. QED
    BY <2>1, LinkQuiet
<1>5. RulesPending'
  BY RulesQuiet
<1>6. QED
  BY <1>1, <1>2, <1>3, <1>4, <1>5 DEF IInv

\* A moderation command in progress, and what it asks for.
LEMMA CommandOf ==
    ASSUME IInv, NEW u \in Ids, msgs[u].doing \in Moderation
    PROVE  /\ msgs[u] \in Messages /\ Open(u) /\ msgs[u].picked = {} /\ u \in 1..arrived
           /\ msgs[u].kind = msgs[u].doing /\ msgs[u].doing \in Moderation \cap Enabled
           /\ \A m \in Members : msgs[u].who = m => msgs[u].doing \in asked[m]
<1>1. /\ msgs[u] \in Messages /\ AwaitShape(msgs[u]) /\ HandlerShape(msgs[u])
      /\ msgs[u].doing \in Handlers \cup {"none"}
  BY MessageOf
<1>2. msgs[u].doing # "none" /\ msgs[u].doing # "rules"
  BY HandlerNames
<1>3. /\ Open(u) /\ msgs[u].kind = msgs[u].doing /\ msgs[u].doing \in Moderation \cap Enabled
      /\ msgs[u].picked = {}
  BY <1>1, <1>2 DEF Handlers, HandlerShape, AwaitShape, Open
<1>4. u \in OpenOf(Moderation \cap Enabled)
  BY <1>3 DEF OpenOf
<1>5. QED
  BY <1>1, <1>3, <1>4, Parts, TaskArrived DEF RightsPending, Open

\* A command goes on to its next call.
LEMMA CallMoves ==
    ASSUME IInv, NEW u \in Ids, msgs[u].doing \in Moderation, msgs[u].who \in Members,
           NEW pc \in {"edit", "lift"}, pc = "lift" => msgs[u].doing = "kick",
           msgs' = [msgs EXCEPT ![u] = [msgs[u] EXCEPT !.pc = pc]], arrived' = arrived
    PROVE  /\ Progress(u) /\ Pending(u)' /\ msgs'[u].pc = pc
           /\ msgs'[u].kind = msgs[u].kind /\ msgs'[u].who = msgs[u].who
           /\ msgs'[u].todo = msgs[u].todo /\ msgs'[u].doing = msgs[u].doing
           /\ msgs'[u].value = msgs[u].value /\ msgs'[u].picked = {}
           /\ msgs'[u].failed = msgs[u].failed
<1> DEFINE x == [msgs[u] EXCEPT !.pc = pc]
<1>1. /\ x \in Messages
      /\ x.kind = msgs[u].kind /\ x.who = msgs[u].who /\ x.todo = msgs[u].todo
      /\ x.doing = msgs[u].doing /\ x.value = msgs[u].value /\ x.picked = {}
      /\ x.failed = msgs[u].failed /\ x.pc = pc
  BY CommandOf DEF Messages
<1> HIDE DEF x
<1>2. Moved(u) /\ msgs'[u] = x
  BY <1>1, SetMessage DEF x
<1>3. AwaitShape(x)
  BY <1>1, HandlerNames DEF AwaitShape
<1>4. HandlerShape(x)
  BY <1>1, MessageOf, HandlerNames DEF HandlerShape
<1>5. QED
  BY <1>1, <1>2, <1>3, <1>4, CommandOf DEF Progress, Pending

LEMMA EditStart ==
    ASSUME IInv, NEW u \in Ids, msgs[u].pc = "resolve", msgs[u].who \in Members,
           msgs[u].doing \in Moderation, msgs' = [msgs EXCEPT ![u].pc = "edit"],
           UNCHANGED <<arrived, chat, setting, rules, created, events, history, ruleHistory>>
    PROVE  IInv'
<1>1. msgs' = [msgs EXCEPT ![u] = [msgs[u] EXCEPT !.pc = "edit"]]
  OBVIOUS
<1>2. /\ Progress(u) /\ Pending(u)' /\ msgs'[u].pc = "edit"
      /\ msgs'[u].kind = msgs[u].kind /\ msgs'[u].who = msgs[u].who
      /\ msgs'[u].todo = msgs[u].todo /\ msgs'[u].doing = msgs[u].doing
      /\ msgs'[u].value = msgs[u].value /\ msgs'[u].picked = {}
      /\ msgs'[u].failed = msgs[u].failed
  BY <1>1, CallMoves
<1>3. events' \in 0..MaxEvents /\ msgs[u].kind # "link"
  BY CommandOf, Parts, HandlerNames DEF TypeOK, Texts
<1>4. QED
  BY <1>2, <1>3, CommandOf, QuietStep

LEMMA ResolveStep ==
    ASSUME IInv, NEW u \in Ids, Resolve(u)
    PROVE  IInv'
<1>1. msgs[u].who \in Members \cup {NoOne} /\ msgs[u].pc = "resolve"
  BY MessageOf DEF Resolve
<1>2. CASE msgs[u].who # NoOne /\ Count(u)
  BY <1>1, <1>2, CountStep DEF Resolve
<1>3. CASE /\ msgs[u].who = NoOne \/ msgs[u].doing = "warns"
           /\ msgs' = [msgs EXCEPT ![u] = Return(@)] /\ UNCHANGED <<warns, crowded>>
  BY <1>1, <1>3, AnswerStep DEF Resolve
<1>4. CASE /\ msgs[u].who # NoOne /\ msgs[u].doing \in Moderation
           /\ msgs' = [msgs EXCEPT ![u].pc = "edit"] /\ UNCHANGED <<warns, crowded>>
  BY <1>1, <1>4, EditStart DEF Resolve
<1>5. QED
  BY <1>2, <1>3, <1>4 DEF Resolve

\* The rights of the member become those of its last call.
LEMMA RightsSet ==
    ASSUME IInv, NEW who \in Members, NEW right \in {"free", "muted", "banned"},
           rights' = [rights EXCEPT ![who] = right]
    PROVE  /\ rights' \in [Members -> {"free", "muted", "banned"}] /\ rights'[who] = right
           /\ \A m \in Members \ {who} : rights'[m] = rights[m]
BY Parts DEF TypeOK

LEMMA RightsType == \A c : Rights(c) \in {"free", "muted", "banned"}
BY DEF Rights

LEMMA EditBannedStep ==
    ASSUME IInv, NEW u \in Ids, EditBanned(u)
    PROVE  IInv'
<1>1. msgs[u].doing \in Moderation /\ msgs[u].who \in Members /\ msgs[u].pc = "edit"
  BY MessageOf DEF EditBanned, AwaitShape, HandlerShape
<1>2. PICK who \in Members : msgs[u].who = who
  BY <1>1
<1>3. /\ rights' \in [Members -> {"free", "muted", "banned"}]
      /\ rights'[who] = Rights(msgs[u].doing)
      /\ \A m \in Members \ {who} : rights'[m] = rights[m]
  BY <1>2, RightsSet, RightsType DEF EditBanned
<1>4. /\ UNCHANGED <<arrived, deleted, setting, rules, created, events, history, ruleHistory>>
      /\ asked' \in [Members -> SUBSET Moderation] /\ events' \in 0..MaxEvents
  BY Parts DEF EditBanned, TypeOK
<1>5. CASE msgs[u].doing = "kick"
  <2>1. msgs' = [msgs EXCEPT ![u] = [msgs[u] EXCEPT !.pc = "lift"]]
    BY <1>5 DEF EditBanned
  <2>2. /\ Progress(u) /\ Pending(u)' /\ msgs'[u].pc = "lift"
        /\ msgs'[u].who = msgs[u].who
        /\ msgs'[u].todo = msgs[u].todo /\ msgs'[u].doing = msgs[u].doing
        /\ msgs'[u].value = msgs[u].value /\ msgs'[u].picked = {}
    BY <1>1, <1>4, <1>5, <2>1, CallMoves
  <2>3. QED
    BY <1>1, <1>2, <1>3, <1>4, <1>5, <2>2, CommandOf, ModerationStep
<1>6. CASE msgs[u].doing # "kick"
  <2>1. msgs' = [msgs EXCEPT ![u] = Return(msgs[u])]
    BY <1>6 DEF EditBanned
  <2>2. /\ Progress(u) /\ msgs'[u].doing = "none" /\ msgs'[u].pc = "next"
        /\ msgs'[u].value = Unset /\ msgs'[u].picked = {} /\ msgs'[u].todo = msgs[u].todo
    BY <1>1, <1>4, <2>1, CommandOf, ReturnMoves
  <2>3. rights'[who] \in Final(asked'[who])
    BY <1>1, <1>2, <1>3, <1>4, <1>6, CommandOf DEF Final
  <2>4. QED
    BY <1>1, <1>2, <1>3, <1>4, <2>2, <2>3, CommandOf, ModerationStep
<1>7. QED
  BY <1>5, <1>6

LEMMA LiftStep ==
    ASSUME IInv, NEW u \in Ids, Lift(u)
    PROVE  IInv'
<1>1. msgs[u].doing = "kick" /\ msgs[u].doing \in Moderation /\ msgs[u].who \in Members
  BY MessageOf DEF Lift, AwaitShape, HandlerShape
<1>2. PICK who \in Members : msgs[u].who = who
  BY <1>1
<1>3. /\ rights' \in [Members -> {"free", "muted", "banned"}] /\ rights'[who] = "free"
      /\ \A m \in Members \ {who} : rights'[m] = rights[m]
  BY <1>2, RightsSet DEF Lift
<1>4. /\ UNCHANGED <<arrived, deleted, setting, rules, created, events, history, ruleHistory>>
      /\ asked' \in [Members -> SUBSET Moderation] /\ events' \in 0..MaxEvents
  BY Parts DEF Lift, TypeOK
<1>5. msgs' = [msgs EXCEPT ![u] = Return(msgs[u])]
  BY DEF Lift
<1>6. /\ Progress(u) /\ msgs'[u].doing = "none" /\ msgs'[u].pc = "next"
      /\ msgs'[u].value = Unset /\ msgs'[u].picked = {} /\ msgs'[u].todo = msgs[u].todo
  BY <1>1, <1>4, <1>5, CommandOf, ReturnMoves
<1>7. rights'[who] \in Final(asked'[who])
  BY <1>1, <1>2, <1>3, <1>4, CommandOf DEF Final
<1>8. QED
  BY <1>1, <1>2, <1>3, <1>4, <1>6, <1>7, CommandOf, ModerationStep

LEMMA CallFailsStep ==
    ASSUME IInv, NEW u \in Ids, CallFails(u)
    PROVE  IInv'
<1> DEFINE x == [msgs[u] EXCEPT !.failed = msgs[u].failed \cup {msgs[u].doing}]
<1>1. msgs[u].pc \in {"resolve", "delete", "edit", "lift", "persist"}
  BY DEF CallFails
<1>2. /\ msgs[u] \in Messages /\ AwaitShape(msgs[u]) /\ HandlerShape(msgs[u])
      /\ Open(u) /\ msgs[u].picked = {} /\ msgs[u].doing \in Handlers
      /\ msgs[u].who \in Members \cup {NoOne}
  BY <1>1, NotPending, MessageOf
<1>3. /\ x \in Messages /\ x.kind = msgs[u].kind /\ x.who = msgs[u].who
      /\ x.todo = msgs[u].todo /\ x.failed = msgs[u].failed \cup {msgs[u].doing}
  BY <1>2 DEF Messages
<1>4. msgs' = [msgs EXCEPT ![u] = Return(x)]
  BY DEF CallFails, Raise
<1>5. /\ UNCHANGED <<arrived, deleted, setting, rules, created, answered, crowded, ruleHistory>>
      /\ events' \in 0..MaxEvents /\ events' # 0
  BY Parts, EventsAssumption DEF CallFails, Fault, TypeOK
<1> HIDE DEF x
<1>6. CASE msgs[u].doing \in Moderation /\ msgs[u].who \in Members
  <2>1. PICK who \in Members : msgs[u].who = who
    BY <1>6
  <2>2. msgs[u].pc \in {"resolve", "edit", "lift"} /\ who # NoOne
    BY <1>2, <1>6, EventsAssumption DEF HandlerShape
  <2>3. /\ asked' \in [Members -> SUBSET Moderation] /\ asked'[who] = Moderation
        /\ \A m \in Members \ {who} : asked'[m] = asked[m]
    <3>1. asked' = [asked EXCEPT ![who] = Moderation]
      BY <1>6, <2>1, <2>2 DEF CallFails
    <3>2. asked \in [Members -> SUBSET Moderation]
      BY Parts DEF TypeOK
    <3>3. QED
      BY <3>1, <3>2
  <2>4. /\ rights' \in [Members -> {"free", "muted", "banned"}]
        /\ \A m \in Members \ {who} : rights'[m] = rights[m]
    <3>1. \/ rights' = rights
          \/ \E right \in {"free", "muted", "banned"} : rights' = [rights EXCEPT ![who] = right]
      BY <2>1, RightsType DEF CallFails
    <3>2. rights \in [Members -> {"free", "muted", "banned"}]
      BY Parts DEF TypeOK
    <3>3. QED
      BY <3>1, <3>2
  <2>5. /\ Progress(u) /\ msgs'[u].doing = "none" /\ msgs'[u].pc = "next"
        /\ msgs'[u].value = Unset /\ msgs'[u].picked = {} /\ msgs'[u].todo = msgs[u].todo
    BY <1>2, <1>3, <1>4, <1>5, ReturnMoves
  <2>6. QED
    BY <1>2, <1>5, <1>6, <2>1, <2>3, <2>4, <2>5, ModerationStep
<1>7. CASE ~(msgs[u].doing \in Moderation /\ msgs[u].who \in Members)
  <2>1. msgs[u].pc \notin {"edit", "lift"}
    BY <1>2, <1>7 DEF HandlerShape, AwaitShape
  <2>2. UNCHANGED <<rights, asked>>
    BY <1>2, <1>7, <2>1 DEF CallFails
  <2>3. Pending(u) /\ msgs[u].who \in Members => msgs[u].kind \in x.todo
    BY <1>1, <1>3, <1>7, NotPending
  <2>4. "link_filter" \in Enabled /\ msgs[u].kind = "link" =>
            "link_filter" \in x.todo \cup x.failed \/ u \in deleted'
    BY <1>3, <1>5, Parts DEF LinkPending
  <2>5. QED
    BY <1>2, <1>3, <1>4, <1>5, <2>2, <2>3, <2>4, ReturnStep
<1>8. QED
  BY <1>6, <1>7

-----------------------------------------------------------------------------
(* Automation rules                                                        *)

\* The next rule of a list is one of them.
LEMMA MinType ==
    ASSUME NEW S \in SUBSET RuleIds, S # {}
    PROVE  Min(S) \in S
<1>1. S \subseteq Nat
  BY DEF RuleIds
<1>2. \E x \in S : \A y \in S : ~ (<<y, x>> \in OpToRel(<, Nat))
  BY <1>1, WFMin, NatLessThanWellFounded
<1>3. \E x \in S : \A y \in S : ~ (y < x)
  BY <1>1, <1>2 DEF OpToRel
<1>4. \E x \in S : \A y \in S : x <= y
  BY <1>1, <1>3
<1>5. QED
  BY <1>4 DEF Min

\* The task of a text looks its rules up, or goes on with the next one.
LEMMA RuleTaskStep ==
    ASSUME IInv, NEW u \in Ids, Progress(u), Open(u), msgs[u].kind \in Texts,
           msgs[u].doing # "link_filter", msgs'[u].kind = msgs[u].kind,
           msgs'[u].failed = msgs[u].failed,
           "link_filter" \in msgs[u].todo => "link_filter" \in msgs'[u].todo,
           msgs'[u].value \in {Unset, msgs[u].value}, msgs'[u].pc \notin {"persist", "resolve"},
           events' \in 0..MaxEvents, events' = 0 => events = 0,
           deleted \subseteq deleted', deleted' \subseteq deleted \cup {u},
           acted' \in [Ids -> SUBSET RuleIds], owes' \in [Ids -> SUBSET RuleIds],
           \A v \in Ids \ {u} : acted'[v] = acted[v] /\ owes'[v] = owes[v],
           acted'[u] \subseteq may[u], msgs'[u].picked \subseteq may[u], owes'[u] \subseteq owes[u],
           \A r \in owes'[u] : EvaluateAll(rules[r], Context(msgs[u].kind)) =>
               "rules" \in msgs'[u].todo \/ r \in msgs'[u].picked \cup acted'[u],
           UNCHANGED <<rights, setting, rules, created, history, may>>
    PROVE  IInv'
<1>1. TypeOK' /\ NotYetArrived' /\ TaskShape'
  <2>1. NotYetArrived' /\ TaskShape' /\ \A v \in Ids : AwaitShape(msgs'[v])
    BY ShapesKept
  <2>2. deleted' \subseteq 1..arrived /\ arrived' = arrived /\ msgs' \in [Ids -> Messages]
    BY Parts DEF TypeOK, Progress, Moved
  <2>3. QED
    BY <2>1, <2>2, Parts DEF TypeOK
<1>2. WarnsCounted' /\ WarnsAhead' /\ WritesOneByOne'
  BY WarnsQuiet
<1>3. RightsPending'
  <2>1. ~Pending(u)
    BY HandlerNames DEF Pending
  <2>2. QED
    BY <2>1, RightsQuiet
<1>4. LinkPending'
  <2>1. "link_filter" \in Enabled /\ msgs[u].kind = "link" =>
            "link_filter" \in msgs'[u].todo \cup msgs'[u].failed \/ u \in deleted'
    BY Parts DEF LinkPending
  <2>2. QED
    BY <2>1, LinkQuiet
<1>5. RulesPending'
  <2> SUFFICES ASSUME NEW v \in Ids
               PROVE  /\ acted'[v] \subseteq may[v] /\ msgs'[v].picked \subseteq may[v]
                      /\ owes'[v] \subseteq DOMAIN rules
                      /\ msgs'[v].kind \in Texts =>
                           /\ DOMAIN rules \subseteq may[v]
                           /\ \A r \in owes'[v] : EvaluateAll(rules[r], Context(msgs'[v].kind)) =>
                                "rules" \in msgs'[v].todo \/ r \in msgs'[v].picked \cup acted'[v]
    BY DEF RulesPending
  <2>1. /\ acted[v] \subseteq may[v] /\ msgs[v].picked \subseteq may[v]
        /\ owes[v] \subseteq DOMAIN rules
        /\ msgs[v].kind \in Texts =>
             /\ DOMAIN rules \subseteq may[v]
             /\ \A r \in owes[v] : EvaluateAll(rules[r], Context(msgs[v].kind)) =>
                  "rules" \in msgs[v].todo \/ r \in msgs[v].picked \cup acted[v]
    BY Parts DEF RulesPending
  <2>2. CASE v = u
    BY <2>1, <2>2
  <2>3. CASE v # u
    <3>1. msgs'[v] = msgs[v]
      BY <2>3 DEF Progress, Moved
    <3>2. QED
      BY <2>1, <2>3, <3>1
  <2>4. QED
    BY <2>2, <2>3
<1>6. QED
  BY <1>1, <1>2, <1>3, <1>4, <1>5 DEF IInv

LEMMA HandleEventStep ==
    ASSUME IInv, NEW u \in Ids, HandleEvent(u)
    PROVE  IInv'
<1> DEFINE matching == {r \in DOMAIN rules : EvaluateAll(rules[r], Context(msgs[u].kind))}
<1>1. /\ Calls(u, "rules") /\ msgs[u].todo = {"rules"} /\ msgs[u].doing = "none"
      /\ UNCHANGED <<arrived, chat, setting, rules, created, events, history, ruleHistory>>
      /\ msgs' = [msgs EXCEPT ![u] = IF matching = {} THEN Return(Starts(u, "rules", "next"))
                                     ELSE [Starts(u, "rules", "act") EXCEPT !.picked = matching]]
  BY DEF HandleEvent, Calls
<1>2. msgs[u].kind \in Texts /\ Open(u) /\ u \in 1..arrived
  <2>1. msgs[u].kind \in Texts /\ Open(u)
    BY <1>1, MessageOf DEF HandlerShape, Open
  <2>2. QED
    BY <1>1, <2>1, TaskArrived
<1>3. /\ acted[u] \subseteq may[u] /\ owes[u] \subseteq DOMAIN rules /\ DOMAIN rules \subseteq may[u]
      /\ matching \subseteq may[u] /\ matching \subseteq RuleIds
      /\ \A r \in owes[u] : EvaluateAll(rules[r], Context(msgs[u].kind)) => r \in matching
  <2>1. DOMAIN rules \subseteq RuleIds
    BY Parts, EventsAssumption DEF TypeOK, RuleIds
  <2>2. QED
    BY <1>2, <2>1, Parts DEF RulesPending
<1>4. /\ events' \in 0..MaxEvents /\ events' = events /\ deleted' = deleted
      /\ acted' \in [Ids -> SUBSET RuleIds] /\ owes' \in [Ids -> SUBSET RuleIds]
      /\ acted' = acted /\ owes' = owes
  BY <1>1, Parts DEF TypeOK
<1> HIDE DEF matching
<1>5. CASE matching = {}
  <2> DEFINE x == Starts(u, "rules", "next")
  <2>1. /\ x \in Messages /\ x.kind = msgs[u].kind /\ x.who = msgs[u].who
        /\ x.todo = msgs[u].todo \ {"rules"} /\ x.failed = msgs[u].failed
    BY <1>1, StartsType
  <2>2. msgs' = [msgs EXCEPT ![u] = Return(x)]
    BY <1>1, <1>5
  <2> HIDE DEF x
  <2>3. /\ Progress(u)
        /\ msgs'[u].doing = "none" /\ msgs'[u].pc = "next"
        /\ msgs'[u].value = Unset /\ msgs'[u].picked = {}
        /\ msgs'[u].todo = x.todo
        /\ \/ msgs'[u].kind = x.kind /\ msgs'[u].who = x.who /\ msgs'[u].failed = x.failed
           \/ msgs'[u] = Ended /\ x.kind \notin Texts /\ x.todo = {}
    BY <1>1, <1>2, <2>1, <2>2, ReturnMoves
  <2>4. msgs'[u].kind = msgs[u].kind /\ msgs'[u].failed = msgs[u].failed
    BY <1>2, <2>1, <2>3
  <2>5. QED
    BY <1>1, <1>2, <1>3, <1>4, <1>5, <2>1, <2>3, <2>4, RuleTaskStep
<1>6. CASE matching # {}
  <2> DEFINE s == Starts(u, "rules", "act")
             x == [s EXCEPT !.picked = matching]
  <2>1. /\ s \in Messages /\ s.kind = msgs[u].kind /\ s.who = msgs[u].who
        /\ s.todo = msgs[u].todo \ {"rules"} /\ s.failed = msgs[u].failed
        /\ s.doing = "rules" /\ s.pc = "act" /\ s.value = msgs[u].value
    BY <1>1, StartsType
  <2> HIDE DEF s
  <2>2. /\ x \in Messages /\ x.kind = msgs[u].kind /\ x.who = msgs[u].who
        /\ x.todo = {} /\ x.failed = msgs[u].failed /\ x.picked = matching
        /\ x.doing = "rules" /\ x.pc = "act" /\ x.value = msgs[u].value
    BY <1>1, <1>3, <2>1 DEF Messages
  <2>3. msgs' = [msgs EXCEPT ![u] = x]
    BY <1>1, <1>6 DEF s
  <2> HIDE DEF x
  <2>4. Moved(u) /\ msgs'[u] = x
    BY <2>2, <2>3, SetMessage
  <2>5. AwaitShape(x) /\ HandlerShape(x)
    BY <1>2, <1>6, <2>2, HandlerNames DEF AwaitShape, HandlerShape
  <2>6. Progress(u)
    BY <1>1, <1>2, <2>2, <2>4, <2>5 DEF Progress
  <2>7. QED
    BY <1>1, <1>2, <1>3, <1>4, <2>2, <2>4, <2>6, RuleTaskStep
<1>7. QED
  BY <1>5, <1>6

\* The task goes on without the first rule of its list.
LEMMA RuleDoneMoves ==
    ASSUME IInv, NEW u \in Ids, msgs[u].pc = "act", msgs' = RuleDone(u), arrived' = arrived
    PROVE  /\ Progress(u) /\ Open(u) /\ msgs[u].kind \in Texts /\ msgs[u].doing = "rules"
           /\ msgs'[u].kind = msgs[u].kind /\ msgs'[u].failed = msgs[u].failed
           /\ msgs'[u].todo = msgs[u].todo /\ msgs'[u].value \in {Unset, msgs[u].value}
           /\ msgs'[u].pc \in {"next", "act"}
           /\ Min(msgs[u].picked) \in msgs[u].picked
           /\ msgs'[u].picked = msgs[u].picked \ {Min(msgs[u].picked)}
<1> DEFINE rest == msgs[u].picked \ {Min(msgs[u].picked)}
           x == [msgs[u] EXCEPT !.picked = rest]
<1>1. /\ msgs[u] \in Messages /\ AwaitShape(msgs[u]) /\ HandlerShape(msgs[u])
      /\ msgs[u].picked \subseteq RuleIds
  BY MessageOf
<1>2. /\ msgs[u].picked # {} /\ msgs[u].doing = "rules" /\ msgs[u].kind \in Texts
  BY <1>1 DEF AwaitShape, HandlerShape
<1>3. Open(u) /\ u \in 1..arrived
  BY NotPending, TaskArrived
<1>4. Min(msgs[u].picked) \in msgs[u].picked
  BY <1>1, <1>2, MinType
<1>5. CASE rest = {}
  <2>1. msgs' = [msgs EXCEPT ![u] = Return(msgs[u])]
    BY <1>5 DEF RuleDone
  <2>2. /\ Progress(u) /\ msgs'[u].pc = "next" /\ msgs'[u].value = Unset
        /\ msgs'[u].picked = {} /\ msgs'[u].todo = msgs[u].todo
        /\ \/ msgs'[u].kind = msgs[u].kind /\ msgs'[u].failed = msgs[u].failed
           \/ msgs'[u] = Ended /\ msgs[u].kind \notin Texts
    BY <1>1, <1>3, <2>1, ReturnMoves
  <2>3. QED
    BY <1>2, <1>3, <1>4, <1>5, <2>2
<1>6. CASE rest # {}
  <2>1. /\ x \in Messages /\ x.kind = msgs[u].kind /\ x.who = msgs[u].who
        /\ x.todo = msgs[u].todo /\ x.failed = msgs[u].failed /\ x.picked = rest
        /\ x.doing = msgs[u].doing /\ x.pc = msgs[u].pc /\ x.value = msgs[u].value
    BY <1>1 DEF Messages
  <2>2. msgs' = [msgs EXCEPT ![u] = x]
    BY <1>6 DEF RuleDone
  <2> HIDE DEF x
  <2>3. Moved(u) /\ msgs'[u] = x
    BY <2>1, <2>2, SetMessage
  <2>4. AwaitShape(x)
    BY <1>1, <1>6, <2>1 DEF AwaitShape
  <2>5. HandlerShape(x)
    BY <1>1, <2>1 DEF HandlerShape
  <2>6. Progress(u)
    BY <1>3, <2>1, <2>3, <2>4, <2>5 DEF Progress
  <2>7. QED
    BY <1>2, <1>3, <1>4, <2>1, <2>3, <2>6
<1>7. QED
  BY <1>5, <1>6

\* A rule that a task is done with acted, or owes nothing any more.
LEMMA ActStep ==
    ASSUME IInv, NEW u \in Ids, ExecuteActions(u) \/ ActionFails(u)
    PROVE  IInv'
<1> DEFINE first == Min(msgs[u].picked)
<1>1. msgs[u].pc = "act" /\ msgs' = RuleDone(u)
      /\ UNCHANGED <<arrived, rights, setting, rules, created, history, may>>
  BY DEF ExecuteActions, ActionFails
<1>2. /\ Progress(u) /\ Open(u) /\ msgs[u].kind \in Texts /\ msgs[u].doing = "rules"
      /\ msgs'[u].kind = msgs[u].kind /\ msgs'[u].failed = msgs[u].failed
      /\ msgs'[u].todo = msgs[u].todo /\ msgs'[u].value \in {Unset, msgs[u].value}
      /\ msgs'[u].pc \in {"next", "act"}
      /\ first \in msgs[u].picked
      /\ msgs'[u].picked = msgs[u].picked \ {first}
  BY <1>1, RuleDoneMoves
<1>3. /\ acted[u] \subseteq may[u] /\ msgs[u].picked \subseteq may[u]
      /\ \A r \in owes[u] : EvaluateAll(rules[r], Context(msgs[u].kind)) =>
           "rules" \in msgs[u].todo \/ r \in msgs[u].picked \cup acted[u]
      /\ msgs[u].picked \subseteq RuleIds
  BY <1>2, Parts, MessageOf DEF RulesPending
<1>4. acted \in [Ids -> SUBSET RuleIds] /\ owes \in [Ids -> SUBSET RuleIds] /\ events \in 0..MaxEvents
  BY Parts DEF TypeOK
<1>5. events' \in 0..MaxEvents /\ (events' = 0 => events = 0)
      /\ deleted \subseteq deleted' /\ deleted' \subseteq deleted \cup {u}
  BY <1>4, EventsAssumption DEF ExecuteActions, ActionFails, Fault
<1>6. \/ acted' = [acted EXCEPT ![u] = @ \cup {first}] /\ owes' = owes
      \/ acted' = acted /\ owes' = [owes EXCEPT ![u] = @ \ {first}]
  BY DEF ExecuteActions, ActionFails
<1> HIDE DEF first
<1>7. /\ acted' \in [Ids -> SUBSET RuleIds] /\ owes' \in [Ids -> SUBSET RuleIds]
      /\ \A v \in Ids \ {u} : acted'[v] = acted[v] /\ owes'[v] = owes[v]
      /\ acted'[u] \subseteq may[u] /\ owes'[u] \subseteq owes[u]
      /\ acted[u] \subseteq acted'[u] /\ (first \in acted'[u] \/ first \notin owes'[u])
  BY <1>2, <1>3, <1>4, <1>6
<1>8. msgs'[u].picked \subseteq may[u]
  BY <1>2, <1>3
<1>9. ASSUME NEW r \in owes'[u], EvaluateAll(rules[r], Context(msgs[u].kind))
      PROVE  "rules" \in msgs'[u].todo \/ r \in msgs'[u].picked \cup acted'[u]
  BY <1>2, <1>3, <1>7, <1>9
<1>10. QED
  BY <1>1, <1>2, <1>5, <1>7, <1>8, <1>9, RuleTaskStep

\* Rules are created and deleted while tasks go on.
LEMMA TasksUntouched ==
    ASSUME IInv, UNCHANGED <<msgs, arrived, chat, setting, events, history, acted>>
    PROVE  /\ NotYetArrived' /\ TaskShape' /\ WarnsCounted' /\ WarnsAhead' /\ WritesOneByOne'
           /\ RightsPending' /\ LinkPending'
<1>1. Counted' = Counted /\ (\A m \in Members : Writing(m)' = Writing(m))
  BY DEF Counted, Writing
<1>2. NotYetArrived' /\ TaskShape' /\ LinkPending' /\ WritesOneByOne'
  BY Parts DEF NotYetArrived, TaskShape, LinkPending, WritesOneByOne
<1>3. WarnsCounted' /\ WarnsAhead'
  BY <1>1, Parts DEF WarnsCounted, WarnsAhead
<1>4. RightsPending'
  BY Parts DEF RightsPending, OpenOf, Open, Pending
<1>5. QED
  BY <1>2, <1>3, <1>4

LEMMA CreateRuleStep ==
    ASSUME IInv, NEW r \in RuleIds, NEW conditions \in Conditions, CreateRule(r, conditions)
    PROVE  IInv'
<1>1. /\ NotYetArrived' /\ TaskShape' /\ WarnsCounted' /\ WarnsAhead' /\ WritesOneByOne'
      /\ RightsPending' /\ LinkPending'
  BY TasksUntouched DEF CreateRule
<1>2. /\ DOMAIN rules' = DOMAIN rules \cup {r} /\ r \notin DOMAIN rules
      /\ DOMAIN rules' \subseteq 1..created' /\ created' \in 0..MaxRules
      /\ rules'[r] = conditions /\ \A i \in DOMAIN rules : rules'[i] = rules[i]
  <2>1. created \in 0..MaxRules /\ DOMAIN rules \subseteq 1..created /\ created' = created + 1 /\ r = created + 1
    BY Parts DEF TypeOK, CreateRule
  <2>2. r \notin DOMAIN rules /\ created' \in 0..MaxRules
    BY <2>1, EventsAssumption DEF RuleIds
  <2>3. DOMAIN rules' = DOMAIN rules \cup {r} /\ rules'[r] = conditions
        /\ \A i \in DOMAIN rules : rules'[i] = rules[i]
    BY <2>2 DEF CreateRule
  <2>4. DOMAIN rules' \subseteq 1..created'
    BY <2>1, <2>3, EventsAssumption
  <2>5. QED
    BY <2>2, <2>3, <2>4
<1>3. /\ may' \in [Ids -> SUBSET RuleIds] /\ \A u \in Ids : may[u] \subseteq may'[u]
      /\ \A u \in Ids : msgs[u].kind \in Texts => r \in may'[u]
  <2>1. may \in [Ids -> SUBSET RuleIds]
    BY Parts DEF TypeOK
  <2>2. QED
    BY <2>1 DEF CreateRule
<1>4. TypeOK'
  <2>1. \A i \in DOMAIN rules' : rules'[i] \in Conditions
    BY <1>2, Parts DEF TypeOK
  <2>2. QED
    BY <1>2, <1>3, <2>1, Parts DEF TypeOK, CreateRule
<1>5. RulesPending'
  <2>1. UNCHANGED <<msgs, acted, owes>>
    BY DEF CreateRule
  <2> SUFFICES ASSUME NEW v \in Ids
               PROVE  /\ acted[v] \subseteq may'[v] /\ msgs[v].picked \subseteq may'[v]
                      /\ owes[v] \subseteq DOMAIN rules'
                      /\ msgs[v].kind \in Texts =>
                           /\ DOMAIN rules' \subseteq may'[v]
                           /\ \A i \in owes[v] : EvaluateAll(rules'[i], Context(msgs[v].kind)) =>
                                "rules" \in msgs[v].todo \/ i \in msgs[v].picked \cup acted[v]
    BY <2>1 DEF RulesPending
  <2>2. /\ acted[v] \subseteq may[v] /\ msgs[v].picked \subseteq may[v]
        /\ owes[v] \subseteq DOMAIN rules
        /\ msgs[v].kind \in Texts =>
             /\ DOMAIN rules \subseteq may[v]
             /\ \A i \in owes[v] : EvaluateAll(rules[i], Context(msgs[v].kind)) =>
                  "rules" \in msgs[v].todo \/ i \in msgs[v].picked \cup acted[v]
    BY Parts DEF RulesPending
  <2>3. \A i \in owes[v] : rules'[i] = rules[i]
    BY <1>2, <2>2
  <2>4. QED
    BY <1>2, <1>3, <2>2, <2>3
<1>6. QED
  BY <1>1, <1>4, <1>5 DEF IInv

LEMMA DeleteRuleStep ==
    ASSUME IInv, NEW r \in RuleIds, DeleteRule(r)
    PROVE  IInv'
<1>1. /\ NotYetArrived' /\ TaskShape' /\ WarnsCounted' /\ WarnsAhead' /\ WritesOneByOne'
      /\ RightsPending' /\ LinkPending'
  BY TasksUntouched DEF DeleteRule
<1>2. /\ DOMAIN rules' = DOMAIN rules \ {r}
      /\ \A i \in DOMAIN rules' : rules'[i] = rules[i]
  BY DEF DeleteRule
<1>3. owes' \in [Ids -> SUBSET RuleIds] /\ \A u \in Ids : owes'[u] = owes[u] \ {r}
  <2>1. owes \in [Ids -> SUBSET RuleIds]
    BY Parts DEF TypeOK
  <2>2. QED
    BY <2>1 DEF DeleteRule
<1>4. TypeOK'
  BY <1>2, <1>3, Parts DEF TypeOK, DeleteRule
<1>5. RulesPending'
  <2>1. UNCHANGED <<msgs, acted, may>>
    BY DEF DeleteRule
  <2>2. \A v \in Ids :
          /\ acted[v] \subseteq may[v] /\ msgs[v].picked \subseteq may[v]
          /\ owes[v] \subseteq DOMAIN rules
          /\ msgs[v].kind \in Texts =>
               /\ DOMAIN rules \subseteq may[v]
               /\ \A i \in owes[v] : EvaluateAll(rules[i], Context(msgs[v].kind)) =>
                    "rules" \in msgs[v].todo \/ i \in msgs[v].picked \cup acted[v]
    BY Parts DEF RulesPending
  <2>3. \A v \in Ids : \A i \in owes'[v] : i \in owes[v] /\ rules'[i] = rules[i] /\ i \in DOMAIN rules'
    BY <1>2, <1>3, <2>2
  <2>4. QED
    BY <1>2, <2>1, <2>2, <2>3 DEF RulesPending
<1>6. QED
  BY <1>1, <1>4, <1>5 DEF IInv

-----------------------------------------------------------------------------
(* Arrivals and restarts                                                   *)

LEMMA MatchingType ==
    /\ \A kind : Matching(kind) \in SUBSET Handlers
    /\ \A kind : Matching(kind) \cap Moderation \subseteq {kind}
    /\ \A kind : "rules" \in Matching(kind) <=> kind \in Texts
    /\ \A kind \in Moderation \cap Enabled : kind \in Matching(kind)
    /\ "link_filter" \in Enabled => "link_filter" \in Matching("link")
<1>1. /\ \A kind : Matching(kind) \in SUBSET Handlers
      /\ \A kind : Matching(kind) \cap Moderation \subseteq {kind}
  BY HandlerNames DEF Matching, Handlers, Warnings
<1>2. \A kind : "rules" \in Matching(kind) <=> kind \in Texts
  BY HandlerNames DEF Matching
<1>3. \A kind \in Moderation \cap Enabled : kind \in Matching(kind)
  BY HandlerNames DEF Matching
<1>4. "link_filter" \in Enabled => "link_filter" \in Matching("link")
  BY DEF Matching, Texts
<1>5. QED
  BY <1>1, <1>2, <1>3, <1>4

LEMMA ArriveMoves ==
    ASSUME IInv, NEW u \in Ids, NEW kind \in Commands \cup Texts, NEW who \in Members \cup {NoOne},
           Arrive(u, kind, who)
    PROVE  /\ Moved(u) /\ arrived' = u /\ u = arrived + 1 /\ arrived \in Nat
           /\ msgs[u] = NoMessage /\ acted[u] = {}
           /\ msgs'[u].kind = kind /\ msgs'[u].who = who /\ msgs'[u].todo = Matching(kind)
           /\ msgs'[u].doing = "none" /\ msgs'[u].pc = "next" /\ msgs'[u].value = Unset
           /\ msgs'[u].picked = {}
           /\ AwaitShape(msgs'[u]) /\ HandlerShape(msgs'[u])
<1> DEFINE x == Message(kind, who, Matching(kind))
<1>1. /\ x \in Messages /\ x.kind = kind /\ x.who = who /\ x.todo = Matching(kind)
      /\ x.doing = "none" /\ x.pc = "next" /\ x.value = Unset /\ x.picked = {}
  BY MatchingType, MessageType
<1>2. msgs' = [msgs EXCEPT ![u] = x] /\ arrived' = u /\ u = arrived + 1
  BY DEF Arrive
<1> HIDE DEF x
<1>3. Moved(u) /\ msgs'[u] = x
  BY <1>1, <1>2, SetMessage
<1>4. arrived \in Nat
  BY Parts, EventsAssumption DEF TypeOK
<1>5. msgs[u] = NoMessage /\ acted[u] = {}
  BY <1>2, <1>4, Parts DEF NotYetArrived, Ids
<1>6. AwaitShape(x)
  BY <1>1 DEF AwaitShape
<1>7. HandlerShape(x)
  BY <1>1, MatchingType, HandlerNames DEF HandlerShape
<1>8. QED
  BY <1>1, <1>2, <1>3, <1>4, <1>5, <1>6, <1>7

\* A command about a member adds to what is asked for, or starts afresh.
LEMMA ArriveRights ==
    ASSUME IInv, NEW u \in Ids, NEW kind \in Commands \cup Texts, NEW who \in Members \cup {NoOne},
           Arrive(u, kind, who)
    PROVE  RightsPending' /\ asked' \in [Members -> SUBSET Moderation]
<1>1. /\ Moved(u) /\ msgs[u] = NoMessage
      /\ msgs'[u].kind = kind /\ msgs'[u].who = who /\ msgs'[u].todo = Matching(kind)
      /\ rights' = rights
  <2>1. rights' = rights
    BY DEF Arrive
  <2>2. QED
    BY <2>1, ArriveMoves
<1>2. asked \in [Members -> SUBSET Moderation]
  BY Parts DEF TypeOK
<1>3. \A v \in Ids : Pending(v) \/ Open(v) => v # u
  BY <1>1, EndedType, HandlerNames DEF Pending, Open
<1>4. \A v \in Ids \ {u} : msgs'[v] = msgs[v] /\ (Open(v)' <=> Open(v)) /\ (Pending(v)' <=> Pending(v))
  BY <1>1 DEF Moved, Open, Pending
<1>5. CASE kind \in Moderation \cap Enabled /\ who # NoOne
  <2>1. who \in Members
    BY <1>5
  <2> DEFINE new == IF \E v \in OpenOf(Moderation) : msgs[v].who = who
                    THEN asked[who] \cup {kind} ELSE {kind}
  <2>2. asked' = [asked EXCEPT ![who] = new]
    BY <1>5 DEF Arrive
  <2>3. /\ asked' \in [Members -> SUBSET Moderation] /\ asked'[who] = new
        /\ \A m \in Members \ {who} : asked'[m] = asked[m]
    BY <1>2, <1>5, <2>1, <2>2
  <2>4. kind \in new
    OBVIOUS
  <2>5. \A v \in OpenOf(Moderation \cap Enabled) : msgs[v].who = who => msgs[v].kind \in new
    <3> SUFFICES ASSUME NEW v \in OpenOf(Moderation \cap Enabled), msgs[v].who = who
                 PROVE  msgs[v].kind \in new
      OBVIOUS
    <3>1. v \in OpenOf(Moderation)
      BY DEF OpenOf
    <3>2. msgs[v].kind \in asked[who]
      BY <2>1, Parts DEF RightsPending
    <3>3. QED
      BY <3>1, <3>2
  <2> HIDE DEF new
  <2> SUFFICES ASSUME NEW m \in Members
               PROVE  /\ \A v \in OpenOf(Moderation \cap Enabled)' :
                            msgs'[v].who = m => msgs'[v].kind \in asked'[m]
                      /\ asked'[m] # {} =>
                           \/ asked'[m] = Moderation
                           \/ \E v \in Ids : Pending(v)' /\ msgs'[v].who = m
                           \/ rights[m] \in Final(asked'[m])
    BY <1>1, <2>3 DEF RightsPending, Final
  <2>6. ASSUME NEW v \in OpenOf(Moderation \cap Enabled)', msgs'[v].who = m
        PROVE  msgs'[v].kind \in asked'[m]
    <3>1. v \in Ids /\ msgs'[v].kind \in Moderation \cap Enabled /\ Open(v)'
      BY <2>6 DEF OpenOf
    <3>2. CASE v = u
      BY <1>1, <2>3, <2>4, <2>6, <3>2
    <3>3. CASE v # u
      <4>1. v \in OpenOf(Moderation \cap Enabled) /\ msgs'[v] = msgs[v]
        BY <1>4, <3>1, <3>3 DEF OpenOf
      <4>2. msgs[v].kind \in asked[m]
        BY <2>6, <4>1, Parts DEF RightsPending
      <4>3. QED
        BY <2>3, <2>5, <2>6, <4>1, <4>2
    <3>4. QED
      BY <3>2, <3>3
  <2>7. CASE m = who
    <3>1. Pending(u)'
      BY <1>1, <1>5, MatchingType DEF Pending
    <3>2. QED
      BY <1>1, <2>6, <2>7, <3>1
  <2>8. CASE m # who
    <3>1. asked[m] # {} =>
             \/ asked[m] = Moderation
             \/ \E v \in Ids : Pending(v) /\ msgs[v].who = m
             \/ rights[m] \in Final(asked[m])
      BY Parts DEF RightsPending, Final
    <3>2. QED
      BY <1>3, <1>4, <2>3, <2>6, <2>8, <3>1
  <2>9. QED
    BY <2>7, <2>8
<1>6. CASE ~(kind \in Moderation \cap Enabled /\ who # NoOne)
  <2>1. asked' = asked
    BY <1>6 DEF Arrive
  <2> SUFFICES ASSUME NEW m \in Members
               PROVE  /\ \A v \in OpenOf(Moderation \cap Enabled)' :
                            msgs'[v].who = m => msgs'[v].kind \in asked[m]
                      /\ asked[m] # {} =>
                           \/ asked[m] = Moderation
                           \/ \E v \in Ids : Pending(v)' /\ msgs'[v].who = m
                           \/ rights[m] \in Final(asked[m])
    BY <1>1, <1>2, <2>1 DEF RightsPending, Final
  <2>2. /\ \A v \in OpenOf(Moderation \cap Enabled) : msgs[v].who = m => msgs[v].kind \in asked[m]
        /\ asked[m] # {} =>
             \/ asked[m] = Moderation
             \/ \E v \in Ids : Pending(v) /\ msgs[v].who = m
             \/ rights[m] \in Final(asked[m])
    BY Parts DEF RightsPending, Final
  <2>3. ASSUME NEW v \in OpenOf(Moderation \cap Enabled)', msgs'[v].who = m
        PROVE  v \in OpenOf(Moderation \cap Enabled) /\ msgs'[v] = msgs[v]
    <3>1. v \in Ids /\ msgs'[v].kind \in Moderation \cap Enabled /\ Open(v)'
      BY <2>3 DEF OpenOf
    <3>2. v # u
      BY <1>1, <1>6, <2>3, <3>1, EventsAssumption
    <3>3. QED
      BY <1>4, <3>1, <3>2 DEF OpenOf
  <2>4. QED
    BY <1>3, <1>4, <2>2, <2>3
<1>7. QED
  BY <1>5, <1>6

LEMMA ArriveStep ==
    ASSUME IInv, NEW u \in Ids, NEW kind \in Commands \cup Texts, NEW who \in Members \cup {NoOne},
           Arrive(u, kind, who)
    PROVE  IInv'
<1>1. /\ Moved(u) /\ arrived' = u /\ u = arrived + 1 /\ arrived \in Nat
      /\ msgs[u] = NoMessage /\ acted[u] = {}
      /\ msgs'[u].kind = kind /\ msgs'[u].who = who /\ msgs'[u].todo = Matching(kind)
      /\ msgs'[u].doing = "none" /\ msgs'[u].pc = "next" /\ msgs'[u].value = Unset
      /\ msgs'[u].picked = {}
      /\ AwaitShape(msgs'[u]) /\ HandlerShape(msgs'[u])
  BY ArriveMoves
<1>2. \A v \in Ids \ {u} : msgs'[v] = msgs[v]
  BY <1>1 DEF Moved
<1>3. UNCHANGED <<chat, setting, rules, created, events, answered, crowded, acted>>
  BY DEF Arrive
<1>4. NotYetArrived'
  BY <1>1, <1>2, <1>3, Parts DEF NotYetArrived, Ids
<1>5. TaskShape' /\ \A v \in Ids : AwaitShape(msgs'[v])
  BY <1>1, <1>2, MessageOf DEF TaskShape
<1>6. /\ owes' \in [Ids -> SUBSET RuleIds] /\ may' \in [Ids -> SUBSET RuleIds]
      /\ owes'[u] = IF kind \in Texts THEN DOMAIN rules ELSE {}
      /\ may'[u] = owes'[u]
      /\ \A v \in Ids \ {u} : owes'[v] = owes[v] /\ may'[v] = may[v]
  <2>1. DOMAIN rules \subseteq RuleIds
    BY Parts, EventsAssumption DEF TypeOK, RuleIds
  <2>2. owes \in [Ids -> SUBSET RuleIds] /\ may \in [Ids -> SUBSET RuleIds]
    BY Parts DEF TypeOK
  <2>3. QED
    BY <2>1, <2>2 DEF Arrive
<1>7. TypeOK'
  <2>1. arrived' \in 0..MaxMessages /\ deleted' \subseteq 1..arrived'
    BY <1>1, <1>3, Parts, EventsAssumption DEF TypeOK, Ids
  <2>2. msgs' \in [Ids -> Messages] /\ asked' \in [Members -> SUBSET Moderation]
    BY <1>1, ArriveRights DEF Moved
  <2>3. QED
    BY <1>3, <1>5, <1>6, <2>1, <2>2, Parts DEF TypeOK
<1>8. /\ Cardinality(Counted) <= Cardinality(Counted')
      /\ Cardinality(Counted) \in Nat /\ Cardinality(Counted') \in Nat
  <2>1. \A v \in Counted : v \in Ids /\ v # u /\ v \in 1..arrived'
    BY <1>1, CountedFinite DEF Counted
  <2>2. Counted \in SUBSET Counted'
    BY <1>2, <2>1 DEF Counted
  <2>3. Counted' \in SUBSET Ids
    <3>1. 1..arrived' \subseteq Ids
      BY <1>1, EventsAssumption DEF Ids
    <3>2. QED
      BY <3>1 DEF Counted
  <2>4. QED
    BY <2>2, <2>3, CountedFinite, FS_Subset, FS_CardinalityType
<1>9. \A v \in Ids : msgs'[v].pc = "persist" <=> msgs[v].pc = "persist" /\ v # u
  BY <1>1, <1>2, EndedType
<1>10. \A m \in Members : Writing(m)' = Writing(m) /\ Cardinality(Writing(m)) \in Nat
  <2>1. \A m \in Members, v \in Ids : (msgs'[v].pc = "persist" /\ msgs'[v].who = m)
                                        <=> (msgs[v].pc = "persist" /\ msgs[v].who = m)
    BY <1>1, <1>2, <1>9, EndedType
  <2>2. QED
    BY <2>1, CountedFinite DEF Writing
<1>11. WarnsCounted'
  <2> SUFFICES ASSUME NEW m \in Members
               PROVE  /\ warns[m] <= Cardinality(Counted') /\ row[m] <= Cardinality(Counted')
                      /\ \A v \in Ids : msgs'[v].value[m] <= Cardinality(Counted')
                      /\ answered[m] + Cardinality(Writing(m)) <= Cardinality(Counted')
    BY <1>3, <1>10 DEF WarnsCounted
  <2>1. /\ warns[m] <= Cardinality(Counted) /\ row[m] <= Cardinality(Counted)
        /\ \A v \in Ids : msgs[v].value[m] <= Cardinality(Counted)
        /\ answered[m] + Cardinality(Writing(m)) <= Cardinality(Counted)
    BY Parts DEF WarnsCounted
  <2>2. warns[m] \in Nat /\ row[m] \in Nat /\ answered[m] \in Nat
    BY Parts, EventsAssumption DEF TypeOK, Counts
  <2>3. \A v \in Ids : msgs[v].value[m] \in Nat
    BY MessageOf, EventsAssumption DEF Messages, Counts
  <2>4. \A v \in Ids : msgs'[v].value[m] = 0 \/ msgs'[v].value[m] = msgs[v].value[m]
    BY <1>1, <1>2, UnsetType
  <2>5. QED
    BY <1>8, <1>10, <2>1, <2>2, <2>3, <2>4
<1>12. WarnsAhead'
  BY <1>3, <1>10, Parts DEF WarnsAhead
<1>13. WritesOneByOne'
  BY <1>2, <1>3, <1>9, Parts DEF WritesOneByOne
<1>14. LinkPending'
  <2>1. \A v \in Ids \ {u} : "link_filter" \in Enabled /\ msgs[v].kind = "link" =>
            \/ "link_filter" \in msgs[v].todo \cup msgs[v].failed
            \/ msgs[v].doing = "link_filter" /\ msgs[v].pc = "delete"
            \/ v \in deleted
    BY Parts DEF LinkPending
  <2>2. QED
    BY <1>1, <1>2, <1>3, <2>1, MatchingType DEF LinkPending
<1>15. RulesPending'
  <2> SUFFICES ASSUME NEW v \in Ids
               PROVE  /\ acted[v] \subseteq may'[v] /\ msgs'[v].picked \subseteq may'[v]
                      /\ owes'[v] \subseteq DOMAIN rules
                      /\ msgs'[v].kind \in Texts =>
                           /\ DOMAIN rules \subseteq may'[v]
                           /\ \A i \in owes'[v] : EvaluateAll(rules[i], Context(msgs'[v].kind)) =>
                                "rules" \in msgs'[v].todo \/ i \in msgs'[v].picked \cup acted[v]
    BY <1>3 DEF RulesPending
  <2>1. CASE v = u
    BY <1>1, <1>6, <2>1, MatchingType
  <2>2. CASE v # u
    BY <1>2, <1>6, <2>2, Parts DEF RulesPending
  <2>3. QED
    BY <2>1, <2>2
<1>16. QED
  BY <1>4, <1>5, <1>7, <1>11, <1>12, <1>13, <1>14, <1>15, ArriveRights DEF IInv

\* After a restart nothing is open; the filters of what was open have failed.
LEMMA RestartMoves ==
    ASSUME IInv, Restart, NEW v \in Ids
    PROVE  /\ msgs'[v] \in Messages
           /\ msgs'[v].doing = "none" /\ msgs'[v].pc = "next" /\ msgs'[v].todo = {}
           /\ msgs'[v].picked = {} /\ msgs'[v].value \in {Unset, msgs[v].value}
           /\ ~Open(v) => msgs'[v] = msgs[v]
           /\ Open(v) => \/ /\ msgs'[v].kind = msgs[v].kind /\ msgs'[v].who = msgs[v].who
                            /\ msgs'[v].failed = Matching(msgs[v].kind)
                         \/ msgs'[v] = Ended /\ msgs[v].kind \notin Texts
<1>1. msgs[v] \in Messages /\ AwaitShape(msgs[v])
  BY MessageOf
<1>2. CASE Open(v)
  <2> DEFINE x == [msgs[v] EXCEPT !.todo = {}, !.failed = Matching(msgs[v].kind)]
  <2>1. msgs'[v] = Return(x)
    BY <1>2 DEF Restart
  <2>2. /\ x \in Messages /\ x.kind = msgs[v].kind /\ x.who = msgs[v].who /\ x.todo = {}
        /\ x.failed = Matching(msgs[v].kind)
    BY <1>1, MatchingType DEF Messages
  <2> HIDE DEF x
  <2>3. QED
    BY <1>2, <2>1, <2>2, ReturnType
<1>3. CASE ~Open(v)
  <2>1. msgs'[v] = msgs[v]
    BY <1>3 DEF Restart
  <2>2. QED
    BY <1>1, <1>3, <2>1 DEF Open, AwaitShape
<1>4. QED
  BY <1>2, <1>3

LEMMA RestartStep ==
    ASSUME IInv, Restart
    PROVE  IInv'
<1>1. \A v \in Ids :
          /\ msgs'[v] \in Messages
          /\ msgs'[v].doing = "none" /\ msgs'[v].pc = "next" /\ msgs'[v].todo = {}
          /\ msgs'[v].picked = {} /\ msgs'[v].value \in {Unset, msgs[v].value}
          /\ ~Open(v) => msgs'[v] = msgs[v]
          /\ Open(v) => \/ /\ msgs'[v].kind = msgs[v].kind /\ msgs'[v].who = msgs[v].who
                           /\ msgs'[v].failed = Matching(msgs[v].kind)
                        \/ msgs'[v] = Ended /\ msgs[v].kind \notin Texts
  BY RestartMoves
<1>2. /\ UNCHANGED <<arrived, chat, row, rules, created, answered, crowded, acted, may>>
      /\ warns' = row /\ events' \in 0..MaxEvents /\ events' # 0
      /\ msgs' = [v \in Ids |-> msgs'[v]]
  <2>1. events \in 0..MaxEvents
    BY Parts DEF TypeOK
  <2>2. events' \in 0..MaxEvents /\ events' # 0
    <3>1. events < MaxEvents /\ events' = events + 1
      BY DEF Restart, Fault
    <3>2. QED
      BY <2>1, <3>1, EventsAssumption
  <2>3. msgs' = [v \in Ids |-> msgs'[v]]
    BY DEF Restart
  <2>4. QED
    BY <2>2, <2>3 DEF Restart
<1>3. \A v \in Ids : AwaitShape(msgs'[v]) /\ HandlerShape(msgs'[v])
  BY <1>1, HandlerNames DEF AwaitShape, HandlerShape
<1>4. NotYetArrived'
  <2>1. \A v \in Ids : v > arrived => msgs[v] = NoMessage /\ acted[v] = {} /\ ~Open(v)
    BY Parts, EndedType DEF NotYetArrived, Open
  <2>2. QED
    BY <1>1, <1>2, <2>1 DEF NotYetArrived
<1>5. /\ owes' \in [Ids -> SUBSET RuleIds]
      /\ \A v \in Ids : IF Open(v) THEN owes'[v] = {} ELSE owes'[v] = owes[v]
  <2>1. owes \in [Ids -> SUBSET RuleIds]
    BY Parts DEF TypeOK
  <2>2. QED
    BY <2>1 DEF Restart
<1>6. /\ asked' \in [Members -> SUBSET Moderation]
      /\ \A m \in Members : \/ asked'[m] = Moderation
                            \/ /\ asked'[m] = asked[m]
                               /\ \A v \in OpenOf(Moderation) : msgs[v].who # m
  <2>1. asked \in [Members -> SUBSET Moderation]
    BY Parts DEF TypeOK
  <2>2. QED
    BY <2>1 DEF Restart
<1>7. TypeOK'
  <2>1. msgs' \in [Ids -> Messages]
    BY <1>1, <1>2
  <2>2. QED
    BY <1>2, <1>3, <1>5, <1>6, <2>1, Parts DEF TypeOK
<1>8. \A m \in Members : Writing(m)' = {} /\ Cardinality(Writing(m)') = 0
  BY <1>1, FS_EmptySet DEF Writing
<1>9. /\ Cardinality(Counted) <= Cardinality(Counted')
      /\ Cardinality(Counted) \in Nat /\ Cardinality(Counted') \in Nat
  <2>1. Counted \in SUBSET Counted'
    BY <1>1, <1>2, CountedFinite DEF Counted
  <2>2. Counted' \in SUBSET Ids
    BY <1>2, Parts, EventsAssumption DEF Counted, Ids, TypeOK
  <2>3. QED
    BY <2>1, <2>2, CountedFinite, FS_Subset, FS_CardinalityType
<1>10. WarnsCounted'
  <2> SUFFICES ASSUME NEW m \in Members
               PROVE  /\ row[m] <= Cardinality(Counted')
                      /\ \A v \in Ids : msgs'[v].value[m] <= Cardinality(Counted')
                      /\ answered[m] + Cardinality(Writing(m)') <= Cardinality(Counted')
    BY <1>2 DEF WarnsCounted
  <2>1. /\ row[m] <= Cardinality(Counted)
        /\ \A v \in Ids : msgs[v].value[m] <= Cardinality(Counted)
        /\ answered[m] + Cardinality(Writing(m)) <= Cardinality(Counted)
    BY Parts DEF WarnsCounted
  <2>2. row[m] \in Nat /\ answered[m] \in Nat /\ Cardinality(Writing(m)) \in Nat
    BY Parts, EventsAssumption, CountedFinite DEF TypeOK, Counts
  <2>3. \A v \in Ids : msgs[v].value[m] \in Nat
    BY MessageOf, EventsAssumption DEF Messages, Counts
  <2>4. \A v \in Ids : msgs'[v].value[m] = 0 \/ msgs'[v].value[m] = msgs[v].value[m]
    BY <1>1, UnsetType
  <2>5. QED
    BY <1>8, <1>9, <2>1, <2>2, <2>3, <2>4
<1>11. WarnsAhead' /\ WritesOneByOne'
  BY <1>1, <1>2, Parts DEF WarnsAhead, WritesOneByOne
<1>12. RightsPending'
  <2>1. OpenOf(Moderation \cap Enabled)' = {}
    BY <1>1 DEF OpenOf, Open
  <2>2. ASSUME NEW v \in Ids, Pending(v) PROVE v \in OpenOf(Moderation)
    <3>1. Open(v)
      BY <2>2, HandlerNames DEF Pending, Open
    <3>2. QED
      BY <2>2, <3>1 DEF Pending, OpenOf
  <2>3. ASSUME NEW m \in Members, asked'[m] # {}, asked'[m] # Moderation
        PROVE  rights[m] \in {IF c = "kick" THEN "free" ELSE Rights(c) : c \in asked'[m]}
    BY <1>6, <2>2, <2>3, Parts DEF RightsPending
  <2>4. QED
    BY <1>2, <2>1, <2>3 DEF RightsPending
<1>13. LinkPending'
  <2> SUFFICES ASSUME NEW v \in Ids, "link_filter" \in Enabled, msgs'[v].kind = "link"
               PROVE  "link_filter" \in msgs'[v].failed \/ v \in deleted
    BY <1>2 DEF LinkPending
  <2>1. CASE Open(v)
    BY <1>1, <2>1, MatchingType, EndedType
  <2>2. CASE ~Open(v)
    BY <1>1, <2>2, Parts DEF LinkPending
  <2>3. QED
    BY <2>1, <2>2
<1>14. RulesPending'
  <2> SUFFICES ASSUME NEW v \in Ids
               PROVE  /\ acted[v] \subseteq may[v]
                      /\ owes'[v] \subseteq DOMAIN rules
                      /\ msgs'[v].kind \in Texts =>
                           /\ DOMAIN rules \subseteq may[v]
                           /\ \A i \in owes'[v] : EvaluateAll(rules[i], Context(msgs'[v].kind)) =>
                                i \in acted[v]
    BY <1>1, <1>2 DEF RulesPending
  <2>1. CASE Open(v)
    <3>1. msgs'[v].kind \in Texts => msgs'[v].kind = msgs[v].kind
      BY <1>1, <2>1, EndedType, HandlerNames
    <3>2. QED
      BY <1>5, <2>1, <3>1, Parts DEF RulesPending
  <2>2. CASE ~Open(v)
    <3>1. msgs'[v] = msgs[v] /\ msgs[v].picked = {} /\ msgs[v].todo = {} /\ owes'[v] = owes[v]
      BY <1>1, <1>5, <2>2
    <3>2. QED
      BY <3>1, Parts DEF RulesPending
  <2>3. QED
    BY <2>1, <2>2
<1>15. QED
  BY <1>3, <1>4, <1>7, <1>10, <1>11, <1>12, <1>13, <1>14 DEF IInv, TaskShape

-----------------------------------------------------------------------------
(* The theorems                                                            *)

LEMMA InitInv == Init => IInv
<1> SUFFICES ASSUME Init PROVE IInv
  OBVIOUS
<1>1. /\ msgs = [u \in Ids |-> NoMessage] /\ arrived = 0 /\ created = 0 /\ events = 0
      /\ deleted = {} /\ rules = [r \in {} |-> {}] /\ crowded = FALSE
  BY DEF Init
<1>2. /\ \A m \in Members : rights[m] = "free" /\ warns[m] = 0 /\ row[m] = 0
                            /\ answered[m] = 0 /\ asked[m] = {}
      /\ \A u \in Ids : acted[u] = {} /\ owes[u] = {} /\ may[u] = {}
  BY DEF Init
<1>3. \A u \in Ids :
          /\ msgs[u] = NoMessage /\ msgs[u] \in Messages
          /\ msgs[u].kind = "none" /\ msgs[u].todo = {} /\ msgs[u].doing = "none"
          /\ msgs[u].pc = "next" /\ msgs[u].value = Unset /\ msgs[u].picked = {}
  BY <1>1, EndedType
<1>4. \A u \in Ids : AwaitShape(msgs[u]) /\ HandlerShape(msgs[u])
  BY <1>3, HandlerNames DEF AwaitShape, HandlerShape
<1>5. TypeOK
  <2>1. rights \in [Members -> {"free", "muted", "banned"}]
    BY DEF Init
  <2>2. warns \in Counts /\ row \in Counts /\ answered \in Counts
    BY EventsAssumption DEF Init, Counts
  <2>3. asked \in [Members -> SUBSET Moderation]
    BY DEF Init
  <2>4. /\ acted \in [Ids -> SUBSET RuleIds] /\ owes \in [Ids -> SUBSET RuleIds]
        /\ may \in [Ids -> SUBSET RuleIds]
    BY DEF Init
  <2>5. arrived \in 0..MaxMessages /\ created \in 0..MaxRules /\ events \in 0..MaxEvents
    BY <1>1, EventsAssumption
  <2>6. msgs \in [Ids -> Messages] /\ crowded \in BOOLEAN /\ deleted \subseteq 1..arrived
    BY <1>1, EndedType
  <2>7. DOMAIN rules = {}
    BY <1>1
  <2>8. QED
    BY <1>4, <2>1, <2>2, <2>3, <2>4, <2>5, <2>6, <2>7 DEF TypeOK
<1>6. Counted = {} /\ Cardinality(Counted) = 0
  <2>1. Counted = {}
    BY <1>1 DEF Counted
  <2>2. QED
    BY <2>1, FS_EmptySet
<1>7. \A m \in Members : Writing(m) = {} /\ Cardinality(Writing(m)) = 0
  BY <1>3, FS_EmptySet DEF Writing
<1>8. WarnsCounted
  BY <1>2, <1>3, <1>6, <1>7, UnsetType DEF WarnsCounted
<1>9. WarnsAhead
  BY <1>2, <1>7 DEF WarnsAhead
<1>10. WritesOneByOne
  BY <1>2, <1>3 DEF WritesOneByOne
<1>11. RightsPending
  BY <1>2, <1>3 DEF RightsPending, OpenOf, Open
<1>12. LinkPending
  BY <1>3 DEF LinkPending
<1>13. RulesPending
  BY <1>2, <1>3, HandlerNames DEF RulesPending
<1>14. NotYetArrived /\ TaskShape
  BY <1>2, <1>3, <1>4 DEF NotYetArrived, TaskShape
<1>15. QED
  BY <1>5, <1>8, <1>9, <1>10, <1>11, <1>12, <1>13, <1>14 DEF IInv

LEMMA NextInv ==
    ASSUME IInv, Next
    PROVE  IInv'
<1>1. ASSUME NEW u \in Ids, Task(u) PROVE IInv'
  <2>1. CASE LinkFilter(u) \/ AutoDelete(u) \/ Delete(u)
    BY <2>1, LinkFilterStep, AutoDeleteStep, DeleteStep
  <2>2. CASE \E handler \in Enabled : Command(u, handler)
    BY <2>2, CommandStep
  <2>3. CASE Resolve(u) \/ EditBanned(u) \/ Lift(u) \/ PersistWarns(u)
    BY <2>3, ResolveStep, EditBannedStep, LiftStep, PersistStep
  <2>4. CASE HandleEvent(u) \/ ExecuteActions(u)
    BY <2>4, HandleEventStep, ActStep
  <2>5. QED
    BY <1>1, <2>1, <2>2, <2>3, <2>4 DEF Task
<1>2. ASSUME NEW u \in Ids, NEW kind \in Commands \cup Texts, NEW who \in Members \cup {NoOne},
             Arrive(u, kind, who)
      PROVE  IInv'
  BY <1>2, ArriveStep
<1>3. ASSUME NEW u \in Ids, CallFails(u) \/ ActionFails(u) PROVE IInv'
  BY <1>3, CallFailsStep, ActStep
<1>4. ASSUME NEW r \in RuleIds,
             (\E conditions \in Conditions : CreateRule(r, conditions)) \/ DeleteRule(r)
      PROVE  IInv'
  BY <1>4, CreateRuleStep, DeleteRuleStep
<1>5. CASE Restart
  BY <1>5, RestartStep
<1>6. QED
  BY <1>1, <1>2, <1>3, <1>4, <1>5 DEF Next

LEMMA StutterInv ==
    ASSUME IInv, UNCHANGED vars
    PROVE  IInv'
<1>1. UNCHANGED <<msgs, arrived, chat, setting, rules, created, events, history, ruleHistory>>
  BY DEF vars
<1>2. /\ NotYetArrived' /\ TaskShape' /\ WarnsCounted' /\ WarnsAhead' /\ WritesOneByOne'
      /\ RightsPending' /\ LinkPending'
  BY <1>1, TasksUntouched
<1>3. TypeOK' /\ RulesPending'
  BY <1>1, Parts DEF TypeOK, RulesPending
<1>4. QED
  BY <1>2, <1>3 DEF IInv

\* The inductive invariant: who has arrived, which handler awaits what, how many
\* warnings are counted and written, which commands and rules are still ahead.
THEOREM Inductive == Spec => []IInv
<1>1. IInv /\ [Next]_vars => IInv'
  BY NextInv, StutterInv
<1>2. QED
  BY <1>1, InitInv, PTL DEF Spec

\* Every value has its type: no member is warned more often than there are
\* messages, and a handler that awaits a call has the member it is about.
THEOREM TypeCorrect == Spec => []TypeOK
<1>1. IInv => TypeOK
  BY DEF IInv
<1>2. QED
  BY <1>1, Inductive, PTL

\* However commands overlap, a member about whom no command is open has the
\* rights one of the last commands asked for: on_kick's two calls, the second of
\* which lifts the ban of the first, leave nobody banned by a kick alone.
THEOREM RightsCorrect == Spec => []RightsAsAsked
<1>1. IInv => RightsAsAsked
  <2> SUFFICES ASSUME IInv, NEW m \in Members, asked[m] # {},
                      \A u \in OpenOf(Moderation) : msgs[u].who # m
               PROVE  \/ rights[m] \in {IF c = "kick" THEN "free" ELSE Rights(c) : c \in asked[m]}
                      \/ asked[m] = Moderation
    BY DEF RightsAsAsked
  <2>1. ASSUME NEW u \in Ids, Pending(u) PROVE u \in OpenOf(Moderation)
    <3>1. Open(u)
      BY <2>1, HandlerNames DEF Pending, Open
    <3>2. QED
      BY <2>1, <3>1 DEF Pending, OpenOf
  <2>2. QED
    BY <2>1, Parts DEF RightsPending
<1>2. QED
  BY <1>1, Inductive, PTL

\* A warning that was answered is in the row, unless two writes of the setting
\* overlapped, and in memory until a restart: on_warn counts from memory and
\* persist_setting writes the whole map.
THEOREM WarnsCorrect == Spec => []WarnsAreKept
<1>1. IInv => WarnsAreKept
  <2> SUFFICES ASSUME IInv, NEW m \in Members
               PROVE  /\ ~crowded => answered[m] <= row[m]
                      /\ events = 0 => answered[m] <= warns[m]
    BY DEF WarnsAreKept
  <2>1. ~crowded => answered[m] <= row[m]
    BY Parts DEF WritesOneByOne
  <2>2. events = 0 => answered[m] + Cardinality(Writing(m)) <= warns[m]
    BY Parts DEF WarnsAhead
  <2>3. answered[m] \in Nat /\ warns[m] \in Nat /\ Cardinality(Writing(m)) \in Nat
    BY Parts, EventsAssumption, CountedFinite DEF TypeOK, Counts
  <2>4. QED
    BY <2>1, <2>2, <2>3
<1>2. QED
  BY <1>1, Inductive, PTL

\* The conditions of a rule for every message, or for links, hold.
LEMMA Conditioned ==
    /\ \A kind : EvaluateAll({}, Context(kind))
    /\ EvaluateAll(OnText, Context("link"))
<1>1. \A kind : EvaluateAll({}, Context(kind))
  BY DEF EvaluateAll
<1>2. EvaluateCondition(Condition("text", "link"), Context("link"))
  BY DEF EvaluateCondition, Condition, Context
<1>3. QED
  BY <1>1, <1>2 DEF EvaluateAll, OnText

\* When a text has been handled its link is deleted and its rules have acted,
\* whatever the handlers before them did, unless they failed themselves; no rule
\* acts on a message that came after the rule was gone.
THEOREM HandlersCorrect == Spec => []HandlersApply
<1>1. IInv => HandlersApply
  <2> SUFFICES ASSUME IInv, NEW u \in Ids
               PROVE  /\ acted[u] \subseteq may[u]
                      /\ Handled(u) /\ msgs[u].kind \in Texts =>
                           /\ "link_filter" \in Enabled \ msgs[u].failed /\ msgs[u].kind = "link" =>
                                u \in deleted
                           /\ \A r \in owes[u] \cap DOMAIN rules :
                                rules[r] = {} \/ (rules[r] = OnText /\ msgs[u].kind = "link")
                                  => r \in acted[u]
    BY DEF HandlersApply
  <2>1. acted[u] \subseteq may[u]
    BY Parts DEF RulesPending
  <2>2. ASSUME Handled(u), msgs[u].kind \in Texts
        PROVE  /\ "link_filter" \in Enabled \ msgs[u].failed /\ msgs[u].kind = "link" => u \in deleted
               /\ \A r \in owes[u] \cap DOMAIN rules :
                    rules[r] = {} \/ (rules[r] = OnText /\ msgs[u].kind = "link") => r \in acted[u]
    <3>1. msgs[u].todo = {} /\ msgs[u].doing = "none" /\ msgs[u].picked = {}
      BY <2>2, MessageOf DEF Handled, Open, AwaitShape
    <3>2. "link_filter" \in Enabled \ msgs[u].failed /\ msgs[u].kind = "link" => u \in deleted
      BY <3>1, Parts DEF LinkPending
    <3>3. \A r \in owes[u] : EvaluateAll(rules[r], Context(msgs[u].kind)) => r \in acted[u]
      BY <2>2, <3>1, Parts DEF RulesPending
    <3>4. QED
      BY <3>2, <3>3, Conditioned
  <2>3. QED
    BY <2>1, <2>2
<1>2. QED
  BY <1>1, Inductive, PTL
=============================================================================
