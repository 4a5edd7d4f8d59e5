------------------------- MODULE ConversationProofs -------------------------
(***************************************************************************)
(* TLAPS proofs about Conversation: type correctness, that no answer in    *)
(* the panel has an effect without the permission, and that a patient      *)
(* user's messages answer the question they were sent to.                  *)
(***************************************************************************)
EXTENDS Conversation, TLAPS

\* No dialogue and no update: the invariant holds at the start.
LEMMA InitInv == Init => IInv
<1> SUFFICES ASSUME Init PROVE IInv
  OBVIOUS
<1>1. NoConv \in ConvType
  BY ConversationAssumption DEF NoConv, Conv, ConvType
<1>2. NoHandler \in HandlerType
  BY <1>1, ConversationAssumption DEF NoHandler, HandlerType
<1>3. TypeOK
  BY <1>1, <1>2, ConversationAssumption DEF Init, TypeOK
<1>4. LoadedShape /\ PermissionSeen /\ NotYetArrived /\ PermissionAtAnswer
  BY DEF Init, LoadedShape, PermissionSeen, NotYetArrived, PermissionAtAnswer, NoConv, Conv,
         NoHandler, PanelSteps, Open
<1>5. QED
  BY <1>3, <1>4 DEF IInv

\* What a step that moves the handler of u must see to: the handler's type and
\* what it may know at its new step, the key, and what it saves.
MoveIsRight(u) ==
    /\ h'[u] \in HandlerType
    /\ h' = [h EXCEPT ![u] = h'[u]]
    /\ h[u].had => h'[u].had
    /\ allowed /\ h'[u].pc \notin {"none", "done"} => h'[u].had
    /\ h'[u].pc \in PanelSteps \cup {"answer"} => h'[u].cur.dialog \in Updates
    /\ h'[u].pc \in PanelSteps => h'[u].cur.q \in AdminQuestions
    /\ h'[u].pc = "answer" => h'[u].cur.q \in Questions \ AdminQuestions
    /\ h'[u].pc \in PanelSteps \ {"check"} => h'[u].had

KeyIsRight ==
    /\ conv' \in ConvType
    /\ conv'.q # "none" => conv'.dialog \in Updates
    /\ shown' \in 0..MaxUpdates

SavedIsRight(u) ==
    /\ effects' \subseteq [msg : Updates, q : Questions, dialog : Updates, parts : SUBSET Updates]
    /\ \A e \in effects' : e \in effects \/ (e.msg = u /\ (e.q \in AdminQuestions => h'[u].had))

OthersAreRight ==
    /\ allowed' = allowed
    /\ registered' \in BOOLEAN
    /\ confirmed' \in [Updates -> SUBSET Updates]
    /\ events' \in Nat

\* A step that moves one handler, and saves what that handler may save, keeps
\* the invariant.
LEMMA HandlerStep ==
    ASSUME IInv, NEW u \in Updates, MoveIsRight(u), KeyIsRight, SavedIsRight(u), OthersAreRight,
           arrived' \in {arrived, arrived + 1}, arrived' \in 0..MaxUpdates, u <= arrived'
    PROVE  IInv'
<1>1. TypeOK'
  BY DEF IInv, TypeOK, MoveIsRight, KeyIsRight, SavedIsRight, OthersAreRight
<1>2. \A v \in Updates : v # u => h'[v] = h[v]
  BY DEF IInv, TypeOK, MoveIsRight
<1>3. LoadedShape'
  BY <1>2 DEF IInv, LoadedShape, MoveIsRight, KeyIsRight
<1>4. PermissionSeen'
  BY <1>2 DEF IInv, PermissionSeen, Open, MoveIsRight, OthersAreRight
<1>5. NotYetArrived'
  <2>1. arrived \in Nat /\ arrived' \in Nat /\ arrived <= arrived' /\ Updates \subseteq Nat
    BY ConversationAssumption DEF IInv, TypeOK, Updates
  <2>2. \A v \in Updates : v > arrived' => h'[v] = NoHandler
    BY <1>2, <2>1 DEF IInv, NotYetArrived
  <2>3. \A e \in effects' : e.msg <= arrived'
    <3>1. \A e \in effects : e.msg \in Nat
      BY <2>1 DEF IInv, TypeOK
    <3>2. QED
      BY <2>1, <3>1 DEF IInv, NotYetArrived, SavedIsRight
  <2>4. QED
    BY <2>2, <2>3 DEF NotYetArrived
<1>6. PermissionAtAnswer'
  <2>1. \A e \in effects : e.msg \in Updates
    BY DEF IInv, TypeOK
  <2>2. QED
    BY <1>2, <2>1 DEF IInv, PermissionAtAnswer, SavedIsRight, MoveIsRight
<1>7. QED
  BY <1>1, <1>3, <1>4, <1>5, <1>6 DEF IInv

\* What every step finds: an open handler has arrived, and everything is typed.
LEMMA Facts ==
    ASSUME IInv, NEW u \in Updates
    PROVE  /\ h[u] \in HandlerType
           /\ h[u].pc # "none" => u <= arrived
           /\ allowed /\ h[u].pc \notin {"none", "done"} => h[u].had
           /\ NoConv \in ConvType /\ NoConv.q = "none"
           /\ arrived \in 0..MaxUpdates /\ arrived \in Nat /\ u \in Nat /\ u \in 1..MaxUpdates
           /\ Finished(h[u]) \in HandlerType
           /\ Finished(h[u]).pc = "done" /\ Finished(h[u]).had = h[u].had
<1>1. NoConv \in ConvType /\ NoConv.q = "none"
  BY ConversationAssumption DEF NoConv, Conv, ConvType
<1>2. h[u] \in HandlerType
  BY DEF IInv, TypeOK
<1>3. arrived \in 0..MaxUpdates /\ arrived \in Nat /\ u \in Nat /\ u \in 1..MaxUpdates
  BY ConversationAssumption DEF IInv, TypeOK, Updates
<1>4. h[u].pc # "none" => u <= arrived
  BY <1>3 DEF IInv, NotYetArrived, NoHandler
<1>5. allowed /\ h[u].pc \notin {"none", "done"} => h[u].had
  BY DEF IInv, PermissionSeen, Open
<1>6. /\ Finished(h[u]) \in HandlerType
      /\ Finished(h[u]).pc = "done" /\ Finished(h[u]).had = h[u].had
  BY <1>1, <1>2 DEF Finished, HandlerType
<1>7. QED
  BY <1>1, <1>2, <1>3, <1>4, <1>5, <1>6

\* What no step changes stays right.
LEMMA Same ==
    ASSUME IInv, NEW u \in Updates
    PROVE  /\ UNCHANGED <<conv, shown>> => KeyIsRight
           /\ conv' = NoConv /\ shown' \in {0, shown} => KeyIsRight
           /\ UNCHANGED effects => SavedIsRight(u)
           /\ UNCHANGED <<allowed, registered, confirmed, events>> => OthersAreRight
<1>1. NoConv \in ConvType /\ NoConv.q = "none"
  BY Facts
<1>2. MaxUpdates \in Nat
  BY ConversationAssumption
<1>3. UNCHANGED <<conv, shown>> => KeyIsRight
  BY DEF IInv, TypeOK, LoadedShape, KeyIsRight
<1>4. conv' = NoConv /\ shown' \in {0, shown} => KeyIsRight
  BY <1>1, <1>2 DEF IInv, TypeOK, KeyIsRight
<1>5. UNCHANGED effects => SavedIsRight(u)
  BY DEF IInv, TypeOK, SavedIsRight
<1>6. UNCHANGED <<allowed, registered, confirmed, events>> => OthersAreRight
  BY DEF IInv, TypeOK, OthersAreRight
<1>7. QED
  BY <1>3, <1>4, <1>5, <1>6

\* Buttons, commands and the arrival of a message keep the invariant.
LEMMA UserInv ==
    ASSUME IInv, NEW u \in Updates, User(u)
    PROVE  IInv'
<1>a. h \in [Updates -> HandlerType] /\ allowed \in BOOLEAN /\ shown \in 0..MaxUpdates
  BY DEF IInv, TypeOK
<1>b. \A pc \in {"bought", "lateClear", "admin"}, input \in {"none", "done", "other"} :
        /\ Handler(pc, input) \in HandlerType
        /\ Handler(pc, input).pc = pc
        /\ Handler(pc, input).had = allowed
  BY <1>a, Facts DEF Handler, HandlerType
<1>c. Arrives(u) => /\ h[u] = NoHandler /\ h[u].had = FALSE /\ h[u].pc = "none"
                    /\ arrived' = arrived + 1 /\ arrived' = u /\ arrived' \in 0..MaxUpdates
                    /\ u <= arrived'
  <2> SUFFICES ASSUME Arrives(u)
               PROVE  /\ h[u] = NoHandler /\ h[u].had = FALSE /\ h[u].pc = "none"
                      /\ arrived' = arrived + 1 /\ arrived' = u /\ arrived' \in 0..MaxUpdates
                      /\ u <= arrived'
    OBVIOUS
  <2>1. /\ arrived' = arrived + 1 /\ arrived' = u /\ arrived' \in 0..MaxUpdates
        /\ u <= arrived' /\ u > arrived
    BY Facts DEF Arrives
  <2>2. h[u] = NoHandler
    BY <2>1 DEF IInv, NotYetArrived
  <2>3. QED
    BY <2>1, <2>2 DEF NoHandler
<1>d. \A q \in Asked : Ask(q, u) => KeyIsRight
  BY Facts, ConversationAssumption DEF Ask, KeyIsRight, Conv, ConvType, Updates
<1>e. Arrives(u) /\ UNCHANGED h => MoveIsRight(u)
  BY <1>a, <1>c DEF MoveIsRight, PanelSteps
<1>f. Ends(u) /\ h[u].pc # "none" => MoveIsRight(u) /\ u <= arrived
  BY <1>a, Facts DEF Ends, MoveIsRight, PanelSteps
<1>1. CASE \E q \in Asked : PressAsk(u, q)
  <2>1. Arrives(u) /\ KeyIsRight /\ UNCHANGED <<h, rest>>
    BY <1>1, <1>d DEF PressAsk
  <2>2. QED
    BY <1>c, <1>e, <2>1, Same, HandlerStep DEF rest, tables
<1>2. CASE \E text \in {"done", "other"} : SendMessage(u, text)
  <2>1. PICK text \in {"done", "other"} : SendMessage(u, text)
    BY <1>2
  <2>2. MoveIsRight(u)
    BY <1>a, <1>b, <1>c, <2>1 DEF SendMessage, MoveIsRight, PanelSteps
  <2>3. QED
    BY <1>c, <2>1, <2>2, Same, HandlerStep DEF SendMessage, rest, tables
<1>3. CASE Purchase(u)
  <2>1. MoveIsRight(u)
    BY <1>a, <1>b, <1>c, <1>3 DEF Purchase, MoveIsRight, PanelSteps
  <2>2. OthersAreRight
    BY <1>3 DEF Purchase, OthersAreRight, IInv, TypeOK
  <2>3. QED
    BY <1>c, <1>3, <2>1, <2>2, Same, HandlerStep DEF Purchase
<1>4. CASE AskReceipt(u)
  <2>1. "awaiting_receipt" \in Questions
    BY DEF Questions, SingleQuestions
  <2>2. KeyIsRight
    BY <1>4, <2>1, Facts, ConversationAssumption
       DEF AskReceipt, Ask, KeyIsRight, Conv, ConvType, Updates
  <2>3. QED
    BY <1>f, <1>4, <2>2, Facts, Same, HandlerStep DEF AskReceipt, rest, tables
<1>5. CASE Cancel(u)
  BY <1>c, <1>e, <1>5, Same, HandlerStep DEF Cancel, rest, tables
<1>6. CASE Start(u)
  <2>1. LET r == [Handler("lateClear", "none") EXCEPT !.replied = TRUE]
        IN  r \in HandlerType /\ r.pc = "lateClear" /\ r.had = allowed
    BY <1>b DEF HandlerType
  <2>2. MoveIsRight(u)
    BY <1>a, <1>c, <1>6, <2>1 DEF Start, MoveIsRight, PanelSteps
  <2>3. QED
    BY <1>c, <1>6, <2>2, Same, HandlerStep DEF Start, rest, tables
<1>7. CASE LateClear(u)
  BY <1>f, <1>7, Facts, Same, HandlerStep DEF LateClear, rest, tables
<1>8. QED
  BY <1>1, <1>2, <1>3, <1>4, <1>5, <1>6, <1>7 DEF User

\* What an administrator's handler has loaded, and that it has passed
\* _require, hold when it goes on; so they do in any other step of it.
LEMMA Moves ==
    ASSUME IInv, NEW u \in Updates, h[u].pc \notin {"none", "done"}
    PROVE  /\ Ends(u) => MoveIsRight(u)
           /\ Goes(u, "bot") \/ Goes(u, "clear") \/ Replies(u, "bot") \/ Replies(u, "show")
                 \/ Replies(u, "lateClear")
              => MoveIsRight(u)
           /\ \A pc \in PanelSteps :
                /\ h[u].pc \in PanelSteps
                /\ h[u].had
                /\ Goes(u, pc) \/ Replies(u, pc)
                => MoveIsRight(u)
<1>1. h \in [Updates -> HandlerType] /\ h[u] \in HandlerType
  BY DEF IInv, TypeOK
<1>2. allowed => h[u].had
  BY Facts
<1>3. Ends(u) => MoveIsRight(u)
  BY <1>1, Facts DEF Ends, MoveIsRight, PanelSteps
<1>4. ASSUME NEW pc \in {"bot", "clear", "show", "lateClear"}, Goes(u, pc) \/ Replies(u, pc)
      PROVE  MoveIsRight(u)
  <2>1. /\ h'[u] \in HandlerType /\ h'[u].pc = pc /\ h'[u].had = h[u].had
        /\ h' = [h EXCEPT ![u] = h'[u]]
    BY <1>1, <1>4 DEF Goes, Replies, HandlerType
  <2>2. QED
    BY <1>2, <2>1 DEF MoveIsRight, PanelSteps
<1>5. ASSUME NEW pc \in PanelSteps, h[u].pc \in PanelSteps, h[u].had,
             Goes(u, pc) \/ Replies(u, pc)
      PROVE  MoveIsRight(u)
  <2>1. /\ h'[u] \in HandlerType /\ h'[u].pc = pc /\ h'[u].had = h[u].had
        /\ h'[u].cur = h[u].cur
        /\ h' = [h EXCEPT ![u] = h'[u]]
    <3>1. CASE Goes(u, pc)
      BY <1>1, <3>1 DEF Goes, HandlerType, PanelSteps
    <3>2. CASE Replies(u, pc)
      BY <1>1, <3>2 DEF Replies, HandlerType, PanelSteps
    <3>3. QED
      BY <1>5, <3>1, <3>2
  <2>2. h[u].cur.dialog \in Updates /\ h[u].cur.q \in AdminQuestions
    BY <1>5 DEF IInv, LoadedShape
  <2>3. QED
    BY <1>5, <2>1, <2>2 DEF MoveIsRight, PanelSteps
<1>6. QED
  BY <1>3, <1>4, <1>5

\* What a handler saves of its dialogue is an effect of the right type.
LEMMA EffectType ==
    ASSUME IInv, NEW u \in Updates, h[u].cur.dialog \in Updates, h[u].cur.q \in Questions
    PROVE  /\ Effect(u, h[u].cur) \in
                [msg : Updates, q : Questions, dialog : Updates, parts : SUBSET Updates]
           /\ Effect(u, h[u].cur).msg = u
           /\ Effect(u, h[u].cur).q = h[u].cur.q
<1>1. h[u].cur \in ConvType
  BY Facts DEF HandlerType
<1>2. h[u].cur.parts \cup h[u].cur.acts \in SUBSET Updates
  BY <1>1 DEF ConvType
<1>3. QED
  BY <1>2 DEF Effect

\* The steps of AdminPanel.on_admin_message keep the invariant.
LEMMA AdminInv ==
    ASSUME IInv, NEW u \in Updates, Admin(u)
    PROVE  IInv'
<1>a. h \in [Updates -> HandlerType] /\ h[u] \in HandlerType /\ conv \in ConvType
  BY DEF IInv, TypeOK
<1>b. AdminQuestions \subseteq Questions /\ "none" \notin Questions
  BY DEF Questions, AdminQuestions, SingleQuestions
<1>c. conv.q # "none" => conv.dialog \in Updates
  BY DEF IInv, LoadedShape
<1>d. h[u].pc \in PanelSteps => h[u].cur.dialog \in Updates /\ h[u].cur.q \in AdminQuestions
  BY DEF IInv, LoadedShape
<1>e. h[u].pc \in PanelSteps \ {"check"} => h[u].had
  BY DEF IInv, PermissionSeen
<1>f. h[u].pc \in {"admin", "check", "act", "save", "adminClear", "send"}
  BY DEF Admin, AdminGet, AdminRefuses, AdminAllowed, SecondGet, AdminSaves, AdminExists,
         AdminClears, Broadcast, AdminFails
<1>g. h[u].pc \notin {"none", "done"} /\ u <= arrived /\ arrived \in 0..MaxUpdates
  BY <1>f, Facts
<1>h. effects' = effects \cup {Effect(u, h[u].cur)} /\ h[u].pc \in PanelSteps \ {"check"}
        /\ h'[u].had = h[u].had
      => SavedIsRight(u)
  BY <1>b, <1>d, <1>e, EffectType DEF SavedIsRight, IInv, TypeOK
<1>i. \A pc \in {"bot", "adminClear"} : Goes(u, pc) => h'[u].had = h[u].had
  BY <1>a DEF Goes, HandlerType
<1>1. CASE AdminGet(u)
  <2>1. CASE conv.q \in AdminQuestions
    <3>1. h' = [h EXCEPT ![u].pc = "check", ![u].cur = conv, ![u].took = TRUE]
      BY <1>1, <2>1 DEF AdminGet
    <3>2. /\ h'[u] \in HandlerType /\ h'[u].pc = "check" /\ h'[u].had = h[u].had
          /\ h'[u].cur = conv /\ h' = [h EXCEPT ![u] = h'[u]]
      BY <1>a, <3>1 DEF HandlerType
    <3>3. MoveIsRight(u)
      BY <1>b, <1>c, <1>g, <2>1, <3>2, Facts DEF MoveIsRight, PanelSteps
    <3>4. QED
      BY <1>1, <1>g, <3>3, Same, HandlerStep DEF AdminGet, rest, tables
  <2>2. CASE conv.q \notin AdminQuestions
    <3>1. Goes(u, "bot")
      BY <1>1, <2>2 DEF AdminGet, Goes
    <3>2. QED
      BY <1>1, <1>g, <3>1, Moves, Same, HandlerStep DEF AdminGet, rest, tables
  <2>3. QED
    BY <2>1, <2>2
<1>2. CASE AdminRefuses(u)
  BY <1>2, <1>g, Moves, Same, HandlerStep DEF AdminRefuses, rest, tables
<1>3. CASE AdminAllowed(u)
  <2>1. h[u].had /\ h[u].pc \in PanelSteps
    BY <1>3, Facts DEF AdminAllowed, PanelSteps
  <2>2. Goes(u, "adminClear") \/ Goes(u, "act")
    BY <1>3 DEF AdminAllowed
  <2>3. MoveIsRight(u)
    BY <1>g, <2>1, <2>2, Moves DEF PanelSteps
  <2>4. QED
    BY <1>3, <1>g, <2>3, Same, HandlerStep DEF AdminAllowed, rest, tables
<1>4. CASE SecondGet(u)
  <2>1. CASE conv.q = h[u].cur.q
    <3>1. h' = [h EXCEPT ![u].pc = "save", ![u].cur = conv]
      BY <1>4, <2>1 DEF SecondGet
    <3>2. /\ h'[u] \in HandlerType /\ h'[u].pc = "save" /\ h'[u].had = h[u].had
          /\ h'[u].cur = conv /\ h' = [h EXCEPT ![u] = h'[u]]
      BY <1>a, <3>1 DEF HandlerType
    <3>3. h[u].had /\ conv.q \in AdminQuestions
      BY <1>4, <1>d, <1>e, <2>1 DEF SecondGet, PanelSteps
    <3>4. MoveIsRight(u)
      BY <1>b, <1>c, <3>2, <3>3 DEF MoveIsRight, PanelSteps
    <3>5. QED
      BY <1>4, <1>g, <3>4, Same, HandlerStep DEF SecondGet, rest, tables
  <2>2. CASE conv.q # h[u].cur.q
    <3>1. Replies(u, "bot")
      BY <1>4, <2>2 DEF SecondGet
    <3>2. QED
      BY <1>4, <1>g, <3>1, Moves, Same, HandlerStep DEF SecondGet, rest, tables
  <2>3. QED
    BY <2>1, <2>2
<1>5. CASE AdminSaves(u)
  <2>1. h[u].pc \in PanelSteps \ {"check"}
    BY <1>5 DEF AdminSaves, PanelSteps
  <2>2. MoveIsRight(u)
    BY <1>5, <1>e, <1>g, <2>1, Moves DEF AdminSaves, PanelSteps
  <2>3. SavedIsRight(u)
    BY <1>5, <1>h, <1>i, <2>1 DEF AdminSaves
  <2>4. QED
    BY <1>5, <1>g, <2>2, <2>3, Same, HandlerStep DEF AdminSaves
<1>6. CASE AdminExists(u)
  <2>1. MoveIsRight(u)
    BY <1>6, <1>e, <1>g, Moves DEF AdminExists, PanelSteps
  <2>2. QED
    BY <1>6, <1>g, <2>1, Same, HandlerStep DEF AdminExists, rest, tables
<1>7. CASE AdminClears(u)
  <2>1. MoveIsRight(u)
    BY <1>7, <1>e, <1>g, Moves DEF AdminClears, PanelSteps
  <2>2. QED
    BY <1>7, <1>g, <2>1, Same, HandlerStep DEF AdminClears, rest, tables
<1>8. CASE Broadcast(u)
  <2>1. MoveIsRight(u)
    BY <1>8, <1>g, Moves DEF Broadcast
  <2>2. SavedIsRight(u)
    BY <1>8, <1>h, <1>i DEF Broadcast, PanelSteps
  <2>3. QED
    BY <1>8, <1>g, <2>1, <2>2, Same, HandlerStep DEF Broadcast
<1>9. CASE AdminFails(u)
  <2>1. OthersAreRight
    BY <1>9 DEF AdminFails, Event, OthersAreRight, IInv, TypeOK, tables
  <2>2. QED
    BY <1>9, <1>g, <2>1, Moves, Same, HandlerStep DEF AdminFails, tables
<1>10. QED
  BY <1>1, <1>2, <1>3, <1>4, <1>5, <1>6, <1>7, <1>8, <1>9 DEF Admin

\* The steps of CentralBot.on_message keep the invariant.
LEMMA BotInv ==
    ASSUME IInv, NEW u \in Updates, Bot(u)
    PROVE  IInv'
<1>a. h \in [Updates -> HandlerType] /\ h[u] \in HandlerType /\ conv \in ConvType
  BY DEF IInv, TypeOK
<1>b. h[u].pc \notin {"none", "done"} /\ u <= arrived /\ arrived \in 0..MaxUpdates
  BY Facts DEF Bot, BotGet, BotRefuses, Continues, Saves, Clears, Shows, BotFails
<1>c. h[u].pc = "answer" => /\ h[u].cur \in ConvType /\ h[u].cur.dialog \in Updates
                            /\ h[u].cur.q \in Questions \ AdminQuestions
  BY <1>a DEF IInv, LoadedShape, HandlerType
<1>1. CASE BotGet(u)
  <2>1. CASE conv.q \in Questions \ AdminQuestions
    <3>1. h' = [h EXCEPT ![u].pc = "answer", ![u].cur = conv]
      BY <1>1, <2>1 DEF BotGet
    <3>2. /\ h'[u] \in HandlerType /\ h'[u].pc = "answer" /\ h'[u].had = h[u].had
          /\ h'[u].cur = conv /\ h' = [h EXCEPT ![u] = h'[u]]
      BY <1>a, <3>1 DEF HandlerType
    <3>3. conv.dialog \in Updates
      BY <2>1 DEF IInv, LoadedShape, Questions, SingleQuestions, AdminQuestions
    <3>4. MoveIsRight(u)
      BY <1>b, <2>1, <3>2, <3>3, Facts DEF MoveIsRight, PanelSteps
    <3>5. QED
      BY <1>1, <1>b, <3>4, Same, HandlerStep DEF BotGet, rest, tables
  <2>2. CASE conv.q \notin Questions \ AdminQuestions
    <3>1. Ends(u)
      BY <1>1, <2>2 DEF BotGet, Ends
    <3>2. QED
      BY <1>1, <1>b, <3>1, Moves, Same, HandlerStep DEF BotGet, rest, tables
  <2>3. QED
    BY <2>1, <2>2
<1>2. CASE BotRefuses(u)
  BY <1>2, <1>b, Moves, Same, HandlerStep DEF BotRefuses, rest, tables
<1>3. CASE Continues(u)
  <2> DEFINE c == h[u].cur
  <2>1. NextState(u, c) \in ConvType /\ NextState(u, c).dialog = c.dialog
    <3>1. c \in ConvType /\ c.q \in {"auto_conds", "sched_text", "auto_actions"}
      BY <1>3, <1>c DEF Continues
    <3>2. {"auto_conds", "sched_text", "auto_actions", "sched_time"} \subseteq Questions
      BY DEF Questions
    <3>3. CASE c.q = "auto_conds" /\ h[u].input # "done"
      BY <3>1, <3>3 DEF NextState, ConvType
    <3>4. CASE c.q = "auto_conds" /\ h[u].input = "done"
      BY <3>1, <3>2, <3>4 DEF NextState, ConvType
    <3>5. CASE c.q = "auto_actions"
      BY <3>1, <3>5 DEF NextState, ConvType
    <3>6. CASE c.q = "sched_text"
      BY <3>1, <3>2, <3>6 DEF NextState, ConvType
    <3>7. QED
      BY <3>1, <3>3, <3>4, <3>5, <3>6
  <2>2. KeyIsRight
    BY <1>3, <1>c, <2>1 DEF Continues, KeyIsRight, IInv, TypeOK
  <2>3. OthersAreRight
    BY <1>3, <1>c DEF Continues, OthersAreRight, IInv, TypeOK
  <2>4. QED
    BY <1>3, <1>b, <2>2, <2>3, Moves, Same, HandlerStep DEF Continues
<1>4. CASE Saves(u)
  <2>1. MoveIsRight(u)
    BY <1>4, <1>b, Moves DEF Saves
  <2>2. SavedIsRight(u)
    BY <1>4, <1>c, EffectType DEF Saves, SavedIsRight, IInv, TypeOK
  <2>3. OthersAreRight
    BY <1>4 DEF Saves, OthersAreRight, IInv, TypeOK
  <2>4. QED
    BY <1>4, <1>b, <2>1, <2>2, <2>3, Same, HandlerStep DEF Saves
<1>5. CASE Clears(u)
  BY <1>5, <1>b, Moves, Same, HandlerStep DEF Clears, rest, tables
<1>6. CASE Shows(u)
  BY <1>6, <1>b, Moves, Same, HandlerStep DEF Shows, rest, tables
<1>7. CASE BotFails(u)
  <2>1. OthersAreRight
    BY <1>7 DEF BotFails, Event, OthersAreRight, IInv, TypeOK, tables
  <2>2. QED
    BY <1>7, <1>b, <2>1, Moves, Same, HandlerStep DEF BotFails, tables
<1>8. QED
  BY <1>1, <1>2, <1>3, <1>4, <1>5, <1>6, <1>7 DEF Bot

\* The key's expiry keeps the invariant.
LEMMA ExpireInv ==
    ASSUME IInv, Expire
    PROVE  IInv'
<1>1. NoConv \in ConvType /\ NoConv.q = "none"
  BY ConversationAssumption DEF NoConv, Conv, ConvType
<1>2. TypeOK'
  BY <1>1 DEF Expire, rest, tables, IInv, TypeOK
<1>3. LoadedShape'
  BY <1>1 DEF Expire, rest, tables, IInv, LoadedShape
<1>4. PermissionSeen' /\ NotYetArrived' /\ PermissionAtAnswer'
  BY DEF Expire, rest, tables, IInv, PermissionSeen, NotYetArrived, PermissionAtAnswer, Open
<1>5. QED
  BY <1>2, <1>3, <1>4 DEF IInv

\* A permission given or taken keeps the invariant.
LEMMA PermissionInv ==
    ASSUME IInv, PermissionChanges
    PROVE  IInv'
<1>1. h \in [Updates -> HandlerType] /\ allowed \in BOOLEAN
  BY DEF IInv, TypeOK
<1>2. /\ allowed' = ~allowed
      /\ UNCHANGED <<conv, arrived, shown, registered, effects, confirmed>>
      /\ events' = events + 1
  BY DEF PermissionChanges, Event
<1>3. ASSUME NEW u \in Updates
      PROVE  /\ h'[u] \in HandlerType
             /\ h'[u].pc = h[u].pc /\ h'[u].cur = h[u].cur
             /\ h'[u].had = (h[u].had \/ (~allowed /\ u \in Open))
             /\ u \notin Open => h'[u] = h[u]
  <2>1. h'[u] = [h[u] EXCEPT !.had = @ \/ (~allowed /\ u \in Open)]
    BY DEF PermissionChanges
  <2>2. h[u] \in HandlerType
    BY <1>1
  <2>3. CASE ~allowed /\ u \in Open
    <3>1. h'[u] = [h[u] EXCEPT !.had = TRUE]
      BY <2>1, <2>3
    <3>2. QED
      BY <2>2, <2>3, <3>1 DEF HandlerType
  <2>4. CASE ~(~allowed /\ u \in Open)
    <3>1. h[u].had \in BOOLEAN
      BY <2>2 DEF HandlerType
    <3>2. (h[u].had \/ (~allowed /\ u \in Open)) = h[u].had
      BY <2>4, <3>1
    <3>3. h'[u] = [h[u] EXCEPT !.had = h[u].had]
      BY <2>1, <3>2
    <3>4. h'[u] = h[u]
      BY <2>2, <3>3 DEF HandlerType
    <3>5. QED
      BY <2>2, <3>2, <3>4
  <2>5. QED
    BY <2>3, <2>4
<1>4. h' = [u \in Updates |-> h'[u]]
  BY DEF PermissionChanges
<1>5. TypeOK'
  <2>1. h' \in [Updates -> HandlerType]
    BY <1>3, <1>4
  <2>2. QED
    BY <1>2, <2>1 DEF IInv, TypeOK
<1>6. LoadedShape'
  BY <1>2, <1>3 DEF IInv, LoadedShape
<1>7. PermissionSeen'
  BY <1>2, <1>3 DEF IInv, PermissionSeen, Open
<1>8. NotYetArrived'
  <2>1. \A u \in Updates : u > arrived => h[u] = NoHandler
    BY DEF IInv, NotYetArrived
  <2>2. NoHandler.pc = "none"
    BY DEF NoHandler
  <2>3. \A u \in Updates : u > arrived => h'[u] = NoHandler
    BY <1>3, <2>1, <2>2 DEF Open
  <2>4. QED
    BY <1>2, <2>3 DEF IInv, NotYetArrived
<1>9. PermissionAtAnswer'
  <2>1. \A e \in effects : e.msg \in Updates
    BY DEF IInv, TypeOK
  <2>2. QED
    BY <1>2, <1>3, <2>1 DEF IInv, PermissionAtAnswer
<1>10. QED
  BY <1>5, <1>6, <1>7, <1>8, <1>9 DEF IInv

\* The end of the process keeps the invariant.
LEMMA CrashInv ==
    ASSUME IInv, Crash
    PROVE  IInv'
<1>1. ASSUME NEW u \in Updates
      PROVE  /\ h'[u] \in HandlerType
             /\ h'[u] = h[u] \/ h'[u].pc = "done"
             /\ h'[u].had = h[u].had
             /\ u \notin Open => h'[u] = h[u]
  <2>1. h'[u] = IF u \in Open THEN Finished(h[u]) ELSE h[u]
    BY DEF Crash
  <2>2. QED
    BY <2>1, Facts
<1>2. h' = [u \in Updates |-> h'[u]]
  BY DEF Crash
<1>3. /\ UNCHANGED <<conv, arrived, shown, allowed, registered, effects, confirmed>>
      /\ events' = events + 1
  BY DEF Crash, Event, tables
<1>4. TypeOK'
  <2>1. h' \in [Updates -> HandlerType]
    BY <1>1, <1>2
  <2>2. QED
    BY <1>3, <2>1 DEF IInv, TypeOK
<1>5. LoadedShape'
  BY <1>1, <1>3 DEF IInv, LoadedShape, PanelSteps
<1>6. PermissionSeen'
  BY <1>1, <1>3 DEF IInv, PermissionSeen, Open, PanelSteps
<1>7. NotYetArrived'
  <2>1. \A u \in Updates : u > arrived => h[u] = NoHandler
    BY DEF IInv, NotYetArrived
  <2>2. NoHandler.pc = "none"
    BY DEF NoHandler
  <2>3. \A u \in Updates : u > arrived => h'[u] = NoHandler
    BY <1>1, <2>1, <2>2 DEF Open
  <2>4. QED
    BY <1>3, <2>3 DEF IInv, NotYetArrived
<1>8. PermissionAtAnswer'
  <2>1. \A e \in effects : e.msg \in Updates
    BY DEF IInv, TypeOK
  <2>2. QED
    BY <1>1, <1>3, <2>1 DEF IInv, PermissionAtAnswer
<1>9. QED
  BY <1>4, <1>5, <1>6, <1>7, <1>8 DEF IInv

\* The inductive invariant holds in every reachable state, for any number of
\* updates, of handlers at the same time and of events.
THEOREM Inductive == Spec => []IInv
<1>1. IInv /\ [Next]_vars => IInv'
  <2> SUFFICES ASSUME IInv, [Next]_vars PROVE IInv'
    OBVIOUS
  <2>1. CASE \E u \in Updates : User(u) \/ Admin(u) \/ Bot(u)
    BY <2>1, UserInv, AdminInv, BotInv
  <2>2. CASE Expire
    BY <2>2, ExpireInv
  <2>3. CASE PermissionChanges
    BY <2>3, PermissionInv
  <2>4. CASE Crash
    BY <2>4, CrashInv
  <2>5. CASE UNCHANGED vars
    BY <2>5 DEF vars, rest, tables, IInv, TypeOK, LoadedShape, PermissionSeen, NotYetArrived,
                PermissionAtAnswer, Open
  <2>6. QED
    BY <2>1, <2>2, <2>3, <2>4, <2>5 DEF Next
<1>2. QED
  BY InitInv, <1>1, PTL DEF Spec

\* The key, the handlers and what they saved have their types in every
\* reachable state: no handler saves for a dialogue it has not loaded.
THEOREM TypeCorrect == Spec => []TypeOK
<1>1. IInv => TypeOK
  BY DEF IInv
<1>2. QED
  BY Inductive, <1>1, PTL

\* Whatever the user presses and sends, and whenever the permission is given,
\* taken and given again: what the panel saved or sent for a message had the
\* permission at some time since the message came (_require).
THEOREM PermissionCorrect == Spec => []PermissionAtAnswer
<1>1. IInv => PermissionAtAnswer
  BY DEF IInv
<1>2. QED
  BY Inductive, <1>1, PTL

-----------------------------------------------------------------------------
(* A patient user's answers go to their questions.                         *)

\* What no step takes from an update that has arrived: the question it saw,
\* that the panel took it, and that it was answered.
Kept(v) ==
    /\ h'[v].about = h[v].about
    /\ h[v].took => h'[v].took
    /\ h[v].replied => h'[v].replied

\* The ways a handler goes on: it stays, it answers and is about to end, it
\* leaves the panel, it goes on in the panel, it loads the key, or it has saved.
Stays(v) ==
    h'[v].pc = h[v].pc /\ h'[v].cur = h[v].cur /\ h'[v].replied = h[v].replied
Leaves(v) ==
    h'[v].pc \in {"done", "show", "lateClear"} /\ h'[v].cur \in {h[v].cur, NoConv} /\ h'[v].replied
ToBot(v) ==
    /\ h'[v].pc = "bot" /\ h[v].pc \in PanelSteps \cup {"admin"} /\ h'[v].cur = h[v].cur
    /\ h[v].pc = "admin" => h'[v].replied = h[v].replied
InPanel(v) ==
    /\ h'[v].cur = h[v].cur /\ h[v].pc \in PanelSteps
    /\ \/ /\ h'[v].pc \in {"act", "save", "adminClear"} /\ h[v].pc \in {"check", "act", "save"}
          /\ h'[v].replied = h[v].replied
       \/ h'[v].pc = "send"
Loads(v) ==
    /\ h'[v].cur = conv /\ h'[v].replied = h[v].replied
    /\ \/ /\ h'[v].pc \in {"check", "save"} /\ h[v].pc \in {"admin", "act"}
          /\ conv.q \in AdminQuestions /\ h'[v].took
       \/ h'[v].pc = "answer" /\ h[v].pc = "bot" /\ conv.q \in Questions \ AdminQuestions
ToClear(v) ==
    h'[v].pc = "clear" /\ h[v].pc = "answer" /\ h'[v].cur = h[v].cur /\ h'[v].replied = h[v].replied

Steady(v) ==
    Kept(v) /\ (Stays(v) \/ Leaves(v) \/ ToBot(v) \/ InPanel(v) \/ Loads(v) \/ ToClear(v))

\* A new dialogue, or none, begins when nobody is waited for.
Fresh ==
    /\ conv'.parts = {} /\ conv'.acts = {} /\ conv'.dialog = shown' /\ shown' <= arrived'
    /\ OneAtATime \/ (Patient /\ conv'.q \in AdminQuestions) => Awaited' = {}
    /\ conv'.q \in {"auto_conds", "auto_actions"} => confirmed[shown'] = {}

KeySteady ==
    /\ confirmed' = confirmed
    /\ arrived <= arrived'
    /\ (conv' \in {conv, NoConv} /\ shown' = shown) \/ Fresh

\* What is new in effects is what one handler has loaded.
SavedOwn ==
    \A e \in effects' :
        \/ e \in effects
        \/ \E u \in Updates : h[u].pc \in PanelSteps \cup {"answer"} /\ e = Effect(u, h[u].cur)

\* The invariant of the dialogues holds at the start.
LEMMA InitDialogue == Init => DInv
<1> SUFFICES ASSUME Init PROVE DInv
  OBVIOUS
<1>1. \A u \in Updates : /\ h[u].pc = "none" /\ h[u].cur = NoConv /\ confirmed[u] = {}
                         /\ u \notin Awaited
  BY DEF Init, NoHandler, Awaited, Open
<1>2. NoConv.dialog = 0 /\ NoConv.q = "none" /\ conv = NoConv /\ arrived = 0 /\ effects = {}
  BY DEF Init, NoConv, Conv
<1>3. OneAwaited /\ DialogueBegan /\ AnswersItsQuestion
  BY <1>1, <1>2 DEF OneAwaited, DialogueBegan, AnswersItsQuestion, Awaited, Open
<1>4. PanelDialogue /\ OwnDialogue
  BY <1>1, <1>2 DEF PanelDialogue, OwnDialogue, PanelSteps, AdminQuestions
<1>5. QED
  BY <1>3, <1>4 DEF DInv

\* A user who has been patient with a bot that did not take messages twice was
\* so before: the panel's mark is never taken away.
LEMMA OneAtATimeBefore ==
    ASSUME \A v \in Updates : h[v].took => h'[v].took, OneAtATime'
    PROVE  OneAtATime
BY DEF OneAtATime

\* The key's value when it is empty.
LEMMA Empty ==
    /\ NoConv.q = "none" /\ NoConv.dialog = 0 /\ NoConv.parts = {} /\ NoConv.acts = {}
    /\ "none" \notin Questions /\ "none" \notin AdminQuestions
    /\ "auto_conds" \notin AdminQuestions /\ "auto_actions" \notin AdminQuestions
BY DEF NoConv, Conv, Questions, SingleQuestions, AdminQuestions

\* A handler that is waited for was waited for.
LEMMA AwaitedBefore ==
    ASSUME NEW v \in Updates, Steady(v), h[v] \in HandlerType, h'[v] \in HandlerType, v \in Awaited'
    PROVE  v \in Awaited
<1>1. h'[v].pc \notin {"none", "done"} /\ ~h'[v].replied
  BY DEF Awaited, Open
<1>2. ~h[v].replied
  BY <1>1 DEF Steady, Kept
<1>3. h[v].pc \notin {"none", "done"}
  BY <1>1 DEF Steady, Stays, Leaves, ToBot, InPanel, Loads, ToClear, PanelSteps
<1>4. QED
  BY <1>2, <1>3 DEF Awaited, Open

\* What the messages of a dialogue answered, and what was confirmed, stays.
LEMMA MessagesKept ==
    ASSUME NEW c \in ConvType, OwnMessages(c), confirmed' = confirmed, c.dialog \in Updates,
           \A m \in Updates : h[m].about \in Updates => h'[m].about = h[m].about
    PROVE  /\ \A m \in c.parts \cup c.acts : h'[m].about = c.dialog
           /\ c.q \in {"auto_conds", "auto_actions"}
                => confirmed'[c.dialog] \subseteq c.parts \cup c.acts
<1>1. c.parts \cup c.acts \subseteq Updates
  BY DEF ConvType
<1>2. QED
  BY <1>1 DEF OwnMessages

\* A saved answer stays the answer of its question, and a new one is.
LEMMA AnswersStep ==
    ASSUME IInv, DInv, SavedOwn, \A v \in Updates : h[v].took => h'[v].took,
           \A m \in Updates : h[m].about \in Updates => h'[m].about = h[m].about
    PROVE  AnswersItsQuestion'
<1> SUFFICES ASSUME NEW e \in effects', (OneAtATime \/ (Patient /\ e.q \in AdminQuestions))',
                    NEW m \in e.parts \cup {e.msg}
             PROVE  h'[m].about = e.dialog
  BY DEF AnswersItsQuestion
<1>1. OneAtATime \/ (Patient /\ e.q \in AdminQuestions)
  BY OneAtATimeBefore
<1>2. CASE e \in effects
  <2>1. h[m].about = e.dialog
    BY <1>1, <1>2 DEF DInv, AnswersItsQuestion
  <2>2. m \in Updates /\ e.dialog \in Updates
    BY <1>2 DEF IInv, TypeOK
  <2>3. QED
    BY <2>1, <2>2
<1>3. CASE e \notin effects
  <2>1. PICK u \in Updates : h[u].pc \in PanelSteps \cup {"answer"} /\ e = Effect(u, h[u].cur)
    BY <1>3 DEF SavedOwn
  <2>2. h[u].cur \in ConvType /\ h[u].cur.dialog \in Updates
    BY <2>1 DEF IInv, TypeOK, LoadedShape, HandlerType
  <2>3. /\ e.msg = u /\ e.dialog = h[u].cur.dialog /\ e.q = h[u].cur.q
        /\ e.parts = h[u].cur.parts \cup h[u].cur.acts
    BY <2>1 DEF Effect
  <2>4. h[m].about = h[u].cur.dialog
    <3>1. CASE h[u].pc \in PanelSteps
      BY <1>1, <2>3, <3>1 DEF DInv, PanelDialogue, OneAtATime
    <3>2. CASE h[u].pc = "answer"
      <4>1. e.q \notin AdminQuestions
        BY <2>3, <3>2 DEF IInv, LoadedShape
      <4>2. h[u].cur.dialog = h[u].about /\ OwnMessages(h[u].cur)
        BY <1>1, <3>2, <4>1 DEF DInv, OwnDialogue
      <4>3. QED
        BY <2>3, <4>2 DEF OwnMessages
    <3>3. QED
      BY <2>1, <3>1, <3>2
  <2>5. m \in Updates
    BY <2>2, <2>3 DEF ConvType
  <2>6. QED
    BY <2>2, <2>3, <2>4, <2>5
<1>4. QED
  BY <1>2, <1>3

\* A step in which each handler goes on in one of its ways, and the key stays,
\* is emptied or begins a new dialogue, keeps the invariant of the dialogues.
LEMMA DialogueStep ==
    ASSUME IInv, IInv', DInv, \A v \in Updates : Steady(v), KeySteady, SavedOwn
    PROVE  DInv'
<1>a. \A v \in Updates : /\ h[v] \in HandlerType /\ h'[v] \in HandlerType
                         /\ h[v].cur \in ConvType
                         /\ Kept(v)
  BY DEF IInv, TypeOK, HandlerType, Steady
<1>b. \A v \in Updates : v \in Awaited' => v \in Awaited
  BY <1>a, AwaitedBefore
<1>c. OneAtATime' => OneAtATime
  BY <1>a, OneAtATimeBefore DEF Kept
<1>d. \A v \in Awaited' : v \in Updates /\ h'[v].about = h[v].about
  BY <1>a DEF Kept, Awaited, Open
<1>e. /\ arrived \in Nat /\ arrived' \in Nat /\ Updates \subseteq Nat /\ conv \in ConvType
      /\ conv.dialog \in Nat /\ shown' \in Nat /\ \A v \in Updates : h[v].cur.dialog \in Nat
  BY <1>a, ConversationAssumption DEF IInv, TypeOK, ConvType, Updates
<1>1. OneAwaited'
  BY <1>b, <1>d DEF DInv, OneAwaited
<1>2. DialogueBegan'
  <2>1. conv'.dialog <= arrived'
    BY <1>e, Empty DEF KeySteady, Fresh, DInv, DialogueBegan
  <2>2. ASSUME NEW v \in Updates PROVE h'[v].cur.dialog <= arrived'
    <3>1. h'[v].cur \in {h[v].cur, NoConv, conv}
      BY <1>a DEF Steady, Stays, Leaves, ToBot, InPanel, Loads, ToClear
    <3>2. QED
      BY <1>e, <3>1, Empty DEF KeySteady, DInv, DialogueBegan
  <2>3. \A v \in Updates : v > arrived' => confirmed'[v] = {}
    BY <1>e DEF KeySteady, DInv, DialogueBegan
  <2>4. QED
    BY <2>1, <2>2, <2>3 DEF DialogueBegan
<1>3. PanelDialogue'
  <2>1. (conv.q \in AdminQuestions => conv.dialog = shown /\ conv.parts = {} /\ conv.acts = {})'
    BY Empty DEF KeySteady, Fresh, DInv, PanelDialogue
  <2>2. ASSUME NEW v \in Updates
        PROVE  (h[v].pc \in {"admin", "check", "act", "save", "adminClear"} => ~h[v].replied)'
    BY <1>a DEF Steady, Stays, Leaves, ToBot, InPanel, Loads, ToClear, DInv, PanelDialogue, PanelSteps
  <2>3. ASSUME NEW v \in Updates, h'[v].pc \in PanelSteps
        PROVE  /\ h'[v].cur.parts = {} /\ h'[v].cur.acts = {} /\ h'[v].took
               /\ Patient => h'[v].cur.dialog = h'[v].about
    <3>1. CASE h'[v].cur = h[v].cur /\ h[v].pc \in PanelSteps
      BY <1>a, <3>1 DEF DInv, PanelDialogue, Kept
    <3>2. CASE Loads(v)
      <4>1. /\ h'[v].cur = conv /\ h[v].pc \in {"admin", "act"} /\ h'[v].took
            /\ conv.q \in AdminQuestions
        BY <2>3, <3>2 DEF Loads, PanelSteps
      <4>2. v \in Awaited
        BY <4>1 DEF DInv, PanelDialogue, Awaited, Open
      <4>3. Patient => h[v].about = shown
        BY <4>1, <4>2 DEF DInv, PanelDialogue
      <4>4. QED
        BY <1>a, <4>1, <4>3 DEF DInv, PanelDialogue, Kept
    <3>3. QED
      BY <2>3, <3>1, <3>2 DEF Steady, Stays, Leaves, ToBot, InPanel, ToClear, PanelSteps
  <2>4. ASSUME NEW v \in Updates, Patient, v \in Awaited', conv'.q \in AdminQuestions
        PROVE  h'[v].about = shown'
    <3>1. conv' = conv /\ shown' = shown
      BY <2>4, Empty DEF KeySteady, Fresh
    <3>2. QED
      BY <1>b, <1>d, <2>4, <3>1 DEF DInv, PanelDialogue
  <2>5. QED
    BY <2>1, <2>2, <2>3, <2>4 DEF PanelDialogue
<1>4. OwnDialogue'
  <2> SUFFICES ASSUME OneAtATime'
               PROVE  /\ (conv.q # "none" => conv.dialog = shown /\ OwnMessages(conv))'
                      /\ \A v \in Updates :
                           /\ (h[v].pc \in {"bought", "bot", "answer", "clear"} => ~h[v].replied)'
                           /\ (v \in Awaited => h[v].about = shown)'
                           /\ (h[v].pc = "answer"
                                 => h[v].cur.dialog = h[v].about /\ OwnMessages(h[v].cur))'
    BY DEF OwnDialogue
  <2>a. OneAtATime
    BY <1>c
  <2>b. \A v \in Updates : ~h'[v].took /\ ~h[v].took
    BY <2>a DEF OneAtATime
  <2>c. \A v \in Updates : h[v].pc \notin PanelSteps
    BY <2>b DEF DInv, PanelDialogue
  <2>d. \A m \in Updates : h[m].about \in Updates => h'[m].about = h[m].about
    BY <1>a DEF Kept
  <2>1. (conv.q # "none" => conv.dialog = shown /\ OwnMessages(conv))'
    <3> SUFFICES ASSUME conv'.q # "none"
                 PROVE  (conv.dialog = shown /\ OwnMessages(conv))'
      OBVIOUS
    <3>1. CASE conv' = conv /\ shown' = shown
      <4>1. conv.dialog = shown /\ OwnMessages(conv) /\ conv.dialog \in Updates
        BY <2>a, <3>1 DEF DInv, OwnDialogue, IInv, LoadedShape
      <4>2. QED
        BY <1>e, <2>d, <3>1, <4>1, MessagesKept DEF KeySteady, OwnMessages
    <3>2. CASE Fresh
      BY <3>2 DEF Fresh, KeySteady, OwnMessages
    <3>3. QED
      BY <3>1, <3>2, Empty DEF KeySteady
  <2>2. ASSUME NEW v \in Updates
        PROVE  (h[v].pc \in {"bought", "bot", "answer", "clear"} => ~h[v].replied)'
    <3>1. h[v].pc \in {"bought", "bot", "answer", "clear", "admin"} => ~h[v].replied
      BY <2>a DEF DInv, OwnDialogue, PanelDialogue
    <3>2. QED
      BY <1>a, <2>c, <3>1 DEF Steady, Stays, Leaves, ToBot, InPanel, Loads, ToClear, PanelSteps
  <2>3. ASSUME NEW v \in Updates, v \in Awaited' PROVE h'[v].about = shown'
    <3>1. shown' = shown
      BY <2>3, <2>a DEF KeySteady, Fresh
    <3>2. QED
      BY <1>b, <1>d, <2>3, <2>a, <3>1 DEF DInv, OwnDialogue
  <2>4. ASSUME NEW v \in Updates, h'[v].pc = "answer"
        PROVE  (h[v].cur.dialog = h[v].about /\ OwnMessages(h[v].cur))'
    <3>1. /\ h'[v].cur \in ConvType /\ h'[v].cur.dialog = h[v].about /\ OwnMessages(h'[v].cur)
          /\ h'[v].cur.dialog \in Updates
      <4>1. CASE Stays(v)
        BY <1>a, <2>a, <2>4, <4>1 DEF Stays, DInv, OwnDialogue, IInv, LoadedShape
      <4>2. CASE Loads(v)
        <5>1. h'[v].cur = conv /\ h[v].pc = "bot" /\ conv.q # "none"
          BY <2>4, <4>2, Empty DEF Loads
        <5>2. v \in Awaited
          BY <2>a, <5>1 DEF DInv, OwnDialogue, Awaited, Open
        <5>3. h[v].about = shown /\ conv.dialog = shown /\ OwnMessages(conv)
          BY <2>a, <5>1, <5>2 DEF DInv, OwnDialogue
        <5>4. QED
          BY <1>e, <5>1, <5>3 DEF IInv, LoadedShape
      <4>3. QED
        BY <2>4, <4>1, <4>2 DEF Steady, Leaves, ToBot, InPanel, ToClear
    <3>2. QED
      BY <1>a, <2>d, <3>1, MessagesKept DEF Kept, KeySteady, OwnMessages
  <2>5. QED
    BY <2>1, <2>2, <2>3, <2>4
<1>5. AnswersItsQuestion'
  BY <1>a, AnswersStep DEF Kept
<1>6. QED
  BY <1>1, <1>2, <1>3, <1>4, <1>5 DEF DInv

\* What an arrival finds: the update has no handler yet, and a patient user
\* waits for nobody.
LEMMA ArrivalFacts ==
    ASSUME IInv, NEW u \in Updates, Arrives(u)
    PROVE  /\ h[u].pc = "none" /\ h[u].about = 0 /\ ~h[u].took /\ ~h[u].replied
           /\ Patient => Awaited = {}
           /\ arrived' = u /\ arrived < u /\ arrived <= arrived' /\ u \in Nat
           /\ u \notin Awaited
<1>1. arrived' = u /\ arrived < u /\ u > arrived /\ arrived <= arrived' /\ u \in Nat
  BY Facts DEF Arrives
<1>2. h[u] = NoHandler
  BY <1>1 DEF IInv, NotYetArrived
<1>3. h[u].pc = "none" /\ h[u].about = 0 /\ ~h[u].took /\ ~h[u].replied
  BY <1>2 DEF NoHandler
<1>4. Patient => Awaited = {}
  BY DEF Arrives, Awaited
<1>5. QED
  BY <1>1, <1>3, <1>4 DEF Awaited, Open

\* An update that gets a handler has seen the question on the screen, and is
\* the one that a patient user waits for.
LEMMA ArrivalStep ==
    ASSUME IInv, IInv', DInv, NEW u \in Updates, Arrives(u),
           NEW pc \in {"bought", "admin", "lateClear"}, NEW r,
           h' = [h EXCEPT ![u] = r],
           r.pc = pc, r.cur = NoConv, r.about = shown, ~r.took, pc # "lateClear" => ~r.replied,
           UNCHANGED <<conv, shown, effects, confirmed>>
    PROVE  DInv'
<1>a. \A v \in Updates : v # u => h'[v] = h[v]
  BY DEF IInv, TypeOK
<1>b. h'[u] = r
  BY DEF IInv, TypeOK
<1>c. \A v \in Updates : h[v].took => h'[v].took
  BY <1>a, ArrivalFacts
<1>d. 0 \notin Updates /\ Updates \subseteq Nat /\ arrived \in Nat /\ arrived' \in Nat
  BY ConversationAssumption DEF Updates, IInv, TypeOK
<1>e. \A m \in Updates : h[m].about \in Updates => h'[m].about = h[m].about
  BY <1>a, <1>d, ArrivalFacts
<1>f. Patient => \A v \in Updates : v \in Awaited' => v = u
  <2>1. \A v \in Updates : v # u /\ v \in Awaited' => v \in Awaited
    BY <1>a DEF Awaited, Open
  <2>2. QED
    BY <2>1, ArrivalFacts
<1>g. OneAtATime' => OneAtATime
  BY <1>c, OneAtATimeBefore
<1>h. conv \in ConvType /\ conv.dialog \in Nat /\ \A v \in Updates : h[v].cur \in ConvType /\ h[v].cur.dialog \in Nat
  BY ConversationAssumption DEF IInv, TypeOK, HandlerType, ConvType
<1>1. OneAwaited'
  BY <1>f DEF OneAwaited, Awaited, Open
<1>2. DialogueBegan'
  <2>1. \A v \in Updates : h'[v].cur.dialog <= arrived'
    BY <1>a, <1>b, <1>d, <1>h, ArrivalFacts, Empty DEF DInv, DialogueBegan
  <2>2. QED
    BY <1>d, <1>h, <2>1, ArrivalFacts DEF DInv, DialogueBegan
<1>3. PanelDialogue'
  <2>1. \A v \in Updates : v \in Awaited' /\ Patient => h'[v].about = shown'
    BY <1>b, <1>f
  <2>2. \A v \in Updates : v # u =>
          /\ h'[v].pc \in {"admin", "check", "act", "save", "adminClear"} => ~h'[v].replied
          /\ h'[v].pc \in PanelSteps => h'[v].cur.parts = {} /\ h'[v].cur.acts = {} /\ h'[v].took
          /\ Patient /\ h'[v].pc \in PanelSteps => h'[v].cur.dialog = h'[v].about
    BY <1>a DEF DInv, PanelDialogue
  <2>3. /\ h'[u].pc \in {"admin", "check", "act", "save", "adminClear"} => ~h'[u].replied
        /\ h'[u].pc \notin PanelSteps
    BY <1>b DEF PanelSteps
  <2>4. QED
    BY <2>1, <2>2, <2>3 DEF DInv, PanelDialogue
<1>4. OwnDialogue'
  <2> SUFFICES ASSUME OneAtATime'
               PROVE  /\ (conv.q # "none" => conv.dialog = shown /\ OwnMessages(conv))'
                      /\ \A v \in Updates :
                           /\ (h[v].pc \in {"bought", "bot", "answer", "clear"} => ~h[v].replied)'
                           /\ (v \in Awaited => h[v].about = shown)'
                           /\ (h[v].pc = "answer"
                                 => h[v].cur.dialog = h[v].about /\ OwnMessages(h[v].cur))'
    BY DEF OwnDialogue
  <2>a. OneAtATime /\ Patient
    BY <1>g DEF OneAtATime
  <2>1. (conv.q # "none" => conv.dialog = shown /\ OwnMessages(conv))'
    <3> SUFFICES ASSUME conv.q # "none" PROVE (conv.dialog = shown /\ OwnMessages(conv))'
      OBVIOUS
    <3>1. conv.dialog = shown /\ OwnMessages(conv) /\ conv.dialog \in Updates
      BY <2>a DEF DInv, OwnDialogue, IInv, LoadedShape
    <3>2. QED
      BY <1>e, <1>h, <3>1, MessagesKept DEF OwnMessages
  <2>2. ASSUME NEW v \in Updates
        PROVE  (h[v].pc \in {"bought", "bot", "answer", "clear"} => ~h[v].replied)'
    <3>1. CASE v = u
      BY <1>b, <3>1
    <3>2. CASE v # u
      BY <1>a, <2>a, <3>2 DEF DInv, OwnDialogue
    <3>3. QED
      BY <3>1, <3>2
  <2>3. ASSUME NEW v \in Updates, v \in Awaited' PROVE h'[v].about = shown'
    BY <1>b, <1>f, <2>a, <2>3
  <2>4. ASSUME NEW v \in Updates, h'[v].pc = "answer"
        PROVE  (h[v].cur.dialog = h[v].about /\ OwnMessages(h[v].cur))'
    <3>1. h'[v] = h[v] /\ h[v].pc = "answer"
      BY <1>a, <1>b, <2>4
    <3>2. h[v].cur.dialog = h[v].about /\ OwnMessages(h[v].cur) /\ h[v].cur.dialog \in Updates
      BY <2>a, <3>1 DEF DInv, OwnDialogue, IInv, LoadedShape
    <3>3. QED
      BY <1>e, <1>h, <3>1, <3>2, MessagesKept DEF OwnMessages
  <2>5. QED
    BY <2>1, <2>2, <2>3, <2>4
<1>5. SavedOwn
  BY DEF SavedOwn
<1>6. AnswersItsQuestion'
  BY <1>c, <1>e, <1>5, AnswersStep
<1>7. QED
  BY <1>1, <1>2, <1>3, <1>4, <1>6 DEF DInv

\* The key after an answer that is added to its dialogue.
LEMMA NextStateFacts ==
    ASSUME NEW u \in Updates, NEW c \in ConvType,
           c.q \in {"auto_conds", "sched_text", "auto_actions"}
    PROVE  /\ NextState(u, c).dialog = c.dialog
           /\ NextState(u, c).q \in {"auto_conds", "sched_time", "auto_actions"}
           /\ NextState(u, c).parts \subseteq c.parts \cup {u}
           /\ NextState(u, c).acts \subseteq c.acts \cup {u}
           /\ c.q # "sched_text"
                => /\ c.parts \subseteq NextState(u, c).parts /\ c.acts \subseteq NextState(u, c).acts
                   /\ \/ c.q = "auto_conds" /\ h[u].input = "done"
                      \/ u \in NextState(u, c).parts \cup NextState(u, c).acts
           /\ c.q = "sched_text" => NextState(u, c).q = "sched_time"
<1>1. CASE c.q = "auto_conds" /\ h[u].input # "done"
  BY <1>1 DEF NextState, ConvType
<1>2. CASE c.q = "auto_conds" /\ h[u].input = "done"
  BY <1>2 DEF NextState, ConvType
<1>3. CASE c.q = "auto_actions"
  BY <1>3 DEF NextState, ConvType
<1>4. CASE c.q = "sched_text"
  BY <1>4 DEF NextState, ConvType
<1>5. QED
  BY <1>1, <1>2, <1>3, <1>4

\* The end of a handler, and the others in a step of one handler.
LEMMA EndFacts ==
    ASSUME IInv, NEW u \in Updates, Ends(u)
    PROVE  /\ Steady(u) /\ h'[u].took = h[u].took /\ h'[u].about = h[u].about
           /\ h'[u].pc = "done" /\ h'[u].cur = NoConv /\ h'[u].replied
           /\ u \notin Awaited'
<1>1. h \in [Updates -> HandlerType] /\ h[u] \in HandlerType
  BY DEF IInv, TypeOK
<1>2. h'[u] = Finished(h[u])
  BY <1>1 DEF Ends
<1>3. /\ h'[u].took = h[u].took /\ h'[u].about = h[u].about
      /\ h'[u].pc = "done" /\ h'[u].cur = NoConv /\ h'[u].replied
  BY <1>1, <1>2 DEF Finished, HandlerType
<1>4. QED
  BY <1>3 DEF Steady, Kept, Leaves, Awaited, Open

LEMMA OthersStay ==
    ASSUME IInv, NEW u \in Updates, NEW r, h' = [h EXCEPT ![u] = r]
    PROVE  /\ \A v \in Updates : v # u => h'[v] = h[v] /\ Steady(v)
           /\ h'[u] = r
<1>1. (\A v \in Updates : v # u => h'[v] = h[v]) /\ h'[u] = r
  BY DEF IInv, TypeOK
<1>2. QED
  BY <1>1 DEF Steady, Kept, Stays

\* An answer that is added to its dialogue keeps the invariant: it comes from
\* the one handler the user waits for, so the key is still the one it loaded.
LEMMA ContinuesDialogue ==
    ASSUME IInv, IInv', DInv, NEW u \in Updates, Continues(u)
    PROVE  DInv'
<1> DEFINE d == h[u].cur.dialog
<1>a. /\ h[u].pc = "answer" /\ h[u].cur.q \in {"auto_conds", "sched_text", "auto_actions"}
      /\ conv' = NextState(u, h[u].cur) /\ Ends(u)
      /\ UNCHANGED <<arrived, shown, effects>>
      /\ \A v \in Updates : v # d => confirmed'[v] = confirmed[v]
      /\ confirmed'[d] \subseteq confirmed[d] \cup {u}
      /\ h[u].cur.q = "auto_conds" /\ h[u].input = "done" => confirmed'[d] = confirmed[d]
  BY DEF Continues, IInv, TypeOK
<1>b. h[u].cur \in ConvType /\ d \in Updates
  BY <1>a DEF IInv, TypeOK, LoadedShape, HandlerType
<1>c. \A v \in Updates : v # u => h'[v] = h[v]
  BY <1>a DEF Ends, IInv, TypeOK
<1>d. \A v \in Updates : /\ h'[v].about = h[v].about /\ h'[v].took = h[v].took
                         /\ v \in Awaited' => v \in Awaited /\ v # u
  BY <1>a, <1>c, EndFacts DEF Awaited, Open
<1>e. OneAtATime' => OneAtATime
  BY <1>d DEF OneAtATime
<1>1. OneAwaited'
  BY <1>d DEF DInv, OneAwaited, Awaited, Open
<1>2. DialogueBegan'
  <2>1. arrived \in Nat /\ Updates \subseteq Nat /\ d <= arrived /\ conv'.dialog = d
    BY <1>a, <1>b, NextStateFacts, ConversationAssumption
       DEF DInv, DialogueBegan, IInv, TypeOK, Updates
  <2>2. \A v \in Updates : h'[v].cur.dialog <= arrived'
    BY <1>a, <1>c, <2>1, EndFacts, Empty DEF DInv, DialogueBegan
  <2>3. \A v \in Updates : v > arrived' => confirmed'[v] = {}
    <3>1. \A v \in Updates : v > arrived => v # d
      BY <1>b, <2>1
    <3>2. QED
      BY <1>a, <3>1 DEF DInv, DialogueBegan
  <2>4. QED
    BY <1>a, <2>1, <2>2, <2>3 DEF DialogueBegan
<1>3. PanelDialogue'
  <2>1. conv'.q \notin AdminQuestions
    BY <1>a, <1>b, NextStateFacts DEF AdminQuestions
  <2>2. h'[u].pc = "done"
    BY <1>a, EndFacts
  <2>3. QED
    BY <1>c, <2>1, <2>2 DEF DInv, PanelDialogue, PanelSteps
<1>4. OwnDialogue'
  <2> SUFFICES ASSUME OneAtATime'
               PROVE  /\ (conv.q # "none" => conv.dialog = shown /\ OwnMessages(conv))'
                      /\ \A v \in Updates :
                           /\ (h[v].pc \in {"bought", "bot", "answer", "clear"} => ~h[v].replied)'
                           /\ (v \in Awaited => h[v].about = shown)'
                           /\ (h[v].pc = "answer"
                                 => h[v].cur.dialog = h[v].about /\ OwnMessages(h[v].cur))'
    BY DEF OwnDialogue
  <2>a. OneAtATime /\ Patient
    BY <1>e DEF OneAtATime
  <2>b. /\ h[u].about = d /\ OwnMessages(h[u].cur) /\ ~h[u].replied
        /\ u \in Awaited
    BY <1>a, <2>a DEF DInv, OwnDialogue, Awaited, Open
  <2>c. h[u].about = shown
    BY <2>a, <2>b DEF DInv, OwnDialogue
  <2>d. \A v \in Updates : v \in Awaited => v = u
    BY <2>a, <2>b DEF DInv, OneAwaited
  <2>1. (conv.dialog = shown /\ OwnMessages(conv))'
    <3> DEFINE n == NextState(u, h[u].cur)
    <3>1. n.dialog = d /\ n.parts \cup n.acts \subseteq h[u].cur.parts \cup h[u].cur.acts \cup {u}
      BY <1>a, <1>b, NextStateFacts
    <3>2. \A m \in n.parts \cup n.acts : h[m].about = d /\ m \in Updates
      BY <1>b, <2>b, <3>1 DEF OwnMessages, ConvType
    <3>3. \A m \in n.parts \cup n.acts : h'[m].about = d
      BY <1>d, <3>2
    <3>4. n.q \in {"auto_conds", "auto_actions"} => confirmed'[d] \subseteq n.parts \cup n.acts
      <4> SUFFICES ASSUME n.q \in {"auto_conds", "auto_actions"}
                   PROVE  confirmed'[d] \subseteq n.parts \cup n.acts
        OBVIOUS
      <4>1. h[u].cur.q # "sched_text"
        BY <1>a, <1>b, NextStateFacts
      <4>2. confirmed[d] \subseteq h[u].cur.parts \cup h[u].cur.acts
        BY <1>a, <2>b, <4>1 DEF OwnMessages
      <4>3. /\ h[u].cur.parts \subseteq n.parts /\ h[u].cur.acts \subseteq n.acts
            /\ \/ h[u].cur.q = "auto_conds" /\ h[u].input = "done"
               \/ u \in n.parts \cup n.acts
        BY <1>a, <1>b, <4>1, NextStateFacts
      <4>4. QED
        BY <1>a, <4>2, <4>3
    <3>5. QED
      BY <1>a, <2>b, <2>c, <3>1, <3>3, <3>4 DEF OwnMessages
  <2>2. ASSUME NEW v \in Updates
        PROVE  /\ (h[v].pc \in {"bought", "bot", "answer", "clear"} => ~h[v].replied)'
               /\ (v \in Awaited => h[v].about = shown)'
               /\ h'[v].pc # "answer"
    <3>1. CASE v = u
      BY <1>a, <3>1, EndFacts
    <3>2. CASE v # u
      <4>1. v \notin Awaited /\ h'[v] = h[v]
        BY <1>c, <2>d, <3>2
      <4>2. h[v].pc \in {"bought", "bot", "answer", "clear"} => ~h[v].replied
        BY <2>a DEF DInv, OwnDialogue
      <4>3. h[v].pc # "answer"
        BY <4>1, <4>2 DEF Awaited, Open
      <4>4. QED
        BY <1>d, <4>1, <4>2, <4>3
    <3>3. QED
      BY <3>1, <3>2
  <2>3. QED
    BY <2>1, <2>2
<1>5. SavedOwn
  BY <1>a DEF SavedOwn
<1>6. AnswersItsQuestion'
  BY <1>d, <1>5, AnswersStep
<1>7. QED
  BY <1>1, <1>2, <1>3, <1>4, <1>6 DEF DInv

\* Arrivals, AskReceipt and the late clear keep the invariant of the dialogues.
LEMMA UserDialogue ==
    ASSUME IInv, IInv', DInv, NEW u \in Updates, User(u)
    PROVE  DInv'
<1>a. h \in [Updates -> HandlerType] /\ h[u] \in HandlerType /\ arrived \in Nat /\ shown \in Nat
  BY ConversationAssumption DEF IInv, TypeOK
<1>b. \A pc \in {"bought", "admin", "lateClear"}, input \in {"none", "done", "other"} :
        /\ Handler(pc, input).pc = pc /\ Handler(pc, input).cur = NoConv
        /\ Handler(pc, input).about = shown /\ Handler(pc, input).took = FALSE
        /\ Handler(pc, input).replied = FALSE
  BY DEF Handler
<1>c. UNCHANGED h => (\A v \in Updates : Steady(v)) /\ Awaited' = Awaited
  BY DEF Steady, Kept, Stays, Awaited, Open
<1>d. UNCHANGED effects => SavedOwn
  BY DEF SavedOwn
<1>e. h[u].pc \notin {"none", "done"} /\ Ends(u) => \A v \in Updates : Steady(v)
  <2> SUFFICES ASSUME Ends(u) PROVE \A v \in Updates : Steady(v)
    OBVIOUS
  <2>1. h' = [h EXCEPT ![u] = Finished(h[u])]
    BY DEF Ends
  <2>2. QED
    BY <2>1, EndFacts, OthersStay
<1>1. CASE \E q \in Asked : PressAsk(u, q)
  <2>1. PICK q \in Asked : PressAsk(u, q)
    BY <1>1
  <2>2. /\ Arrives(u) /\ conv' = Conv(q, u, {}, {}) /\ shown' = u
        /\ UNCHANGED <<h, effects, confirmed>>
    BY <2>1 DEF PressAsk, Ask, rest, tables
  <2>3. confirmed[u] = {}
    BY <1>a, <2>2, ArrivalFacts DEF DInv, DialogueBegan
  <2>4. conv'.parts = {} /\ conv'.acts = {} /\ conv'.dialog = u
    BY <2>2 DEF Conv
  <2>5. Patient => Awaited' = {}
    BY <1>c, <2>2, ArrivalFacts
  <2>6. KeySteady
    BY <2>2, <2>3, <2>4, <2>5, ArrivalFacts DEF KeySteady, Fresh, OneAtATime
  <2>7. QED
    BY <1>c, <1>d, <2>2, <2>6, DialogueStep
<1>2. CASE \E text \in {"done", "other"} : SendMessage(u, text)
  <2>1. PICK text \in {"done", "other"} : SendMessage(u, text)
    BY <1>2
  <2>2. /\ Arrives(u) /\ h' = [h EXCEPT ![u] = Handler("admin", text)]
        /\ UNCHANGED <<conv, shown, effects, confirmed>>
    BY <2>1 DEF SendMessage, rest, tables
  <2>3. QED
    BY <1>b, <2>2, ArrivalStep
<1>3. CASE Purchase(u)
  BY <1>b, <1>3, ArrivalStep DEF Purchase
<1>4. CASE AskReceipt(u)
  <2>1. /\ h[u].pc = "bought" /\ Ends(u) /\ conv' = Conv("awaiting_receipt", u, {}, {})
        /\ shown' = u /\ UNCHANGED <<arrived, effects, confirmed>>
    BY <1>4 DEF AskReceipt, Ask, rest, tables
  <2>2. /\ conv'.parts = {} /\ conv'.acts = {} /\ conv'.dialog = u
        /\ conv'.q \notin AdminQuestions \cup {"auto_conds", "auto_actions"}
    BY <2>1 DEF Conv, AdminQuestions
  <2>3. \A v \in Updates : Steady(v)
    BY <1>e, <2>1
  <2>4. OneAtATime => Awaited' = {}
    <3> SUFFICES ASSUME OneAtATime, NEW v \in Updates, v \in Awaited' PROVE FALSE
      BY DEF Awaited, Open
    <3>1. u \in Awaited /\ Patient
      BY <2>1 DEF DInv, OwnDialogue, OneAtATime, Awaited, Open
    <3>2. v \in Awaited
      BY <2>3, AwaitedBefore DEF IInv, TypeOK
    <3>3. QED
      BY <2>1, <3>1, <3>2, EndFacts DEF DInv, OneAwaited
  <2>5. u <= arrived
    BY <2>1, Facts
  <2>6. KeySteady
    BY <1>a, <2>1, <2>2, <2>4, <2>5 DEF KeySteady, Fresh
  <2>7. QED
    BY <1>d, <2>1, <2>3, <2>6, DialogueStep
<1>5. CASE Cancel(u)
  <2>1. /\ Arrives(u) /\ conv' = NoConv /\ shown' = 0
        /\ UNCHANGED <<h, effects, confirmed>>
    BY <1>5 DEF Cancel, rest, tables
  <2>2. Patient => Awaited' = {}
    BY <1>c, <2>1, ArrivalFacts
  <2>3. KeySteady
    BY <1>a, <2>1, <2>2, ArrivalFacts, Empty DEF KeySteady, Fresh, OneAtATime
  <2>4. QED
    BY <1>c, <1>d, <2>1, <2>3, DialogueStep
<1>6. CASE Start(u)
  <2> DEFINE r == [Handler("lateClear", "none") EXCEPT !.replied = TRUE]
  <2>1. /\ Arrives(u) /\ h' = [h EXCEPT ![u] = r]
        /\ UNCHANGED <<conv, shown, effects, confirmed>>
    BY <1>6 DEF Start, rest, tables
  <2>2. r.pc = "lateClear" /\ r.cur = NoConv /\ r.about = shown /\ ~r.took
    BY DEF Handler
  <2> HIDE DEF r
  <2>3. QED
    BY <2>1, <2>2, ArrivalStep
<1>7. CASE LateClear(u)
  <2>1. KeySteady
    BY <1>7, <1>a DEF LateClear, rest, tables, KeySteady
  <2>2. QED
    BY <1>7, <1>d, <1>e, <2>1, DialogueStep DEF LateClear, rest, tables
<1>8. QED
  BY <1>1, <1>2, <1>3, <1>4, <1>5, <1>6, <1>7 DEF User

\* The fields of a handler that goes to its next step.
LEMMA GoesFacts ==
    ASSUME IInv, NEW u \in Updates,
           NEW pc \in {"act", "save", "adminClear", "send", "bot", "clear", "show", "lateClear"}
    PROVE  /\ Goes(u, pc) => /\ h'[u].pc = pc /\ h'[u].cur = h[u].cur /\ h'[u].took = h[u].took
                             /\ h'[u].about = h[u].about /\ h'[u].replied = h[u].replied
                             /\ \A v \in Updates : v # u => h'[v] = h[v]
           /\ Replies(u, pc) => /\ h'[u].pc = pc /\ h'[u].cur = h[u].cur /\ h'[u].took = h[u].took
                                /\ h'[u].about = h[u].about /\ h'[u].replied
                                /\ \A v \in Updates : v # u => h'[v] = h[v]
<1>1. h \in [Updates -> HandlerType] /\ h[u] \in HandlerType
  BY DEF IInv, TypeOK
<1>2. QED
  BY <1>1 DEF Goes, Replies, HandlerType

\* A step of one handler of the panel or of on_message, the key left alone.
LEMMA OneSteady ==
    ASSUME IInv, NEW u \in Updates, Steady(u), \A v \in Updates : v # u => h'[v] = h[v]
    PROVE  \A v \in Updates : Steady(v)
BY DEF Steady, Kept, Stays

LEMMA KeyAlone ==
    ASSUME IInv, UNCHANGED <<conv, arrived, shown, confirmed>>
    PROVE  KeySteady
BY ConversationAssumption DEF IInv, TypeOK, KeySteady

\* The steps of on_admin_message keep the invariant of the dialogues.
LEMMA AdminDialogue ==
    ASSUME IInv, IInv', DInv, NEW u \in Updates, Admin(u)
    PROVE  DInv'
<1>a. h \in [Updates -> HandlerType] /\ h[u] \in HandlerType
  BY DEF IInv, TypeOK
<1>b. UNCHANGED effects \/ (effects' = effects \cup {Effect(u, h[u].cur)} /\ h[u].pc \in PanelSteps)
        => SavedOwn
  BY DEF SavedOwn
<1>c. ASSUME NEW pc \in {"act", "save", "adminClear"}, Goes(u, pc), h[u].pc \in {"check", "act", "save"}
      PROVE  \A v \in Updates : Steady(v)
  <2>1. InPanel(u) /\ Kept(u)
    BY <1>c, GoesFacts DEF InPanel, Kept, PanelSteps
  <2>2. QED
    BY <1>c, <2>1, GoesFacts, OneSteady DEF Steady
<1>d. ASSUME Goes(u, "bot") \/ Replies(u, "bot"), h[u].pc \in PanelSteps \cup {"admin"},
             h[u].pc = "admin" => Goes(u, "bot")
      PROVE  \A v \in Updates : Steady(v)
  <2>1. ToBot(u) /\ Kept(u)
    BY <1>d, GoesFacts DEF ToBot, Kept
  <2>2. QED
    BY <1>d, <2>1, GoesFacts, OneSteady DEF Steady
<1>e. ASSUME NEW pc \in {"check", "save"}, NEW r, h' = [h EXCEPT ![u] = r], r.pc = pc, r.cur = conv,
             r.took, r.about = h[u].about, r.replied = h[u].replied,
             conv.q \in AdminQuestions, h[u].pc \in {"admin", "act"}
      PROVE  \A v \in Updates : Steady(v)
  <2>1. Loads(u) /\ Kept(u)
    BY <1>e, OthersStay DEF Loads, Kept
  <2>2. QED
    BY <1>e, <2>1, OthersStay, OneSteady DEF Steady
<1>1. CASE AdminGet(u)
  <2>1. CASE conv.q \in AdminQuestions
    <3> DEFINE r == [h[u] EXCEPT !.pc = "check", !.cur = conv, !.took = TRUE]
    <3>1. h' = [h EXCEPT ![u] = r]
      BY <1>1, <1>a, <2>1 DEF AdminGet
    <3>2. /\ r.pc = "check" /\ r.cur = conv /\ r.took /\ r.about = h[u].about
          /\ r.replied = h[u].replied
      BY <1>a DEF HandlerType
    <3> HIDE DEF r
    <3>3. QED
      BY <1>1, <1>b, <1>e, <2>1, <3>1, <3>2, KeyAlone, DialogueStep DEF AdminGet, rest, tables
  <2>2. CASE conv.q \notin AdminQuestions
    <3>1. Goes(u, "bot")
      BY <1>1, <2>2 DEF AdminGet, Goes
    <3>2. QED
      BY <1>1, <1>b, <1>d, <3>1, KeyAlone, DialogueStep DEF AdminGet, rest, tables
  <2>3. QED
    BY <2>1, <2>2
<1>2. CASE AdminRefuses(u)
  BY <1>2, <1>b, <1>d, KeyAlone, DialogueStep DEF AdminRefuses, PanelSteps, rest, tables
<1>3. CASE AdminAllowed(u)
  <2>1. Goes(u, "adminClear") \/ Goes(u, "act")
    BY <1>3 DEF AdminAllowed
  <2>2. QED
    BY <1>3, <1>b, <1>c, <2>1, KeyAlone, DialogueStep DEF AdminAllowed, rest, tables
<1>4. CASE SecondGet(u)
  <2>1. CASE conv.q = h[u].cur.q
    <3> DEFINE r == [h[u] EXCEPT !.pc = "save", !.cur = conv]
    <3>1. h' = [h EXCEPT ![u] = r]
      BY <1>4, <1>a, <2>1 DEF SecondGet
    <3>2. /\ r.pc = "save" /\ r.cur = conv /\ r.took = h[u].took /\ r.about = h[u].about
          /\ r.replied = h[u].replied
      BY <1>a DEF HandlerType
    <3>3. h[u].pc = "act" /\ h[u].took /\ conv.q \in AdminQuestions
      BY <1>4, <2>1 DEF SecondGet, DInv, PanelDialogue, IInv, LoadedShape, PanelSteps
    <3> HIDE DEF r
    <3>4. QED
      BY <1>4, <1>b, <1>e, <3>1, <3>2, <3>3, KeyAlone, DialogueStep DEF SecondGet, rest, tables
  <2>2. CASE conv.q # h[u].cur.q
    <3>1. Replies(u, "bot")
      BY <1>4, <2>2 DEF SecondGet
    <3>2. QED
      BY <1>4, <1>b, <1>d, <3>1, KeyAlone, DialogueStep DEF SecondGet, PanelSteps, rest, tables
  <2>3. QED
    BY <2>1, <2>2
<1>5. CASE AdminSaves(u)
  BY <1>5, <1>b, <1>c, KeyAlone, DialogueStep DEF AdminSaves, PanelSteps
<1>6. CASE AdminExists(u)
  BY <1>6, <1>b, <1>c, KeyAlone, DialogueStep DEF AdminExists, rest, tables
<1>7. CASE AdminClears(u)
  <2>1. \A v \in Updates : Steady(v)
    <3>1. CASE Replies(u, "bot")
      BY <1>7, <1>d, <3>1 DEF AdminClears, PanelSteps
    <3>2. CASE Replies(u, "send")
      <4>1. InPanel(u) /\ Kept(u)
        BY <1>7, <3>2, GoesFacts DEF AdminClears, InPanel, Kept, PanelSteps
      <4>2. QED
        BY <3>2, <4>1, GoesFacts, OneSteady DEF Steady
    <3>3. QED
      BY <1>7, <3>1, <3>2 DEF AdminClears
  <2>2. ~OneAtATime
    BY <1>7 DEF AdminClears, OneAtATime, DInv, PanelDialogue, PanelSteps
  <2>3. KeySteady
    <3>1. 0 <= arrived /\ arrived <= arrived
      BY ConversationAssumption DEF IInv, TypeOK
    <3>2. QED
      BY <1>7, <2>2, <3>1, Empty DEF AdminClears, rest, tables, KeySteady, Fresh
  <2>4. QED
    BY <1>7, <1>b, <2>1, <2>3, DialogueStep DEF AdminClears, rest, tables
<1>8. CASE Broadcast(u)
  BY <1>8, <1>b, <1>d, KeyAlone, DialogueStep DEF Broadcast, PanelSteps
<1>9. CASE AdminFails(u)
  BY <1>9, <1>b, <1>d, KeyAlone, DialogueStep DEF AdminFails, PanelSteps, tables
<1>10. QED
  BY <1>1, <1>2, <1>3, <1>4, <1>5, <1>6, <1>7, <1>8, <1>9 DEF Admin

\* The steps of on_message keep the invariant of the dialogues.
LEMMA BotDialogue ==
    ASSUME IInv, IInv', DInv, NEW u \in Updates, Bot(u)
    PROVE  DInv'
<1>a. h \in [Updates -> HandlerType] /\ h[u] \in HandlerType
  BY DEF IInv, TypeOK
<1>b. UNCHANGED effects \/ (effects' = effects \cup {Effect(u, h[u].cur)} /\ h[u].pc = "answer")
        => SavedOwn
  BY DEF SavedOwn
<1>c. Ends(u) => \A v \in Updates : Steady(v)
  <2> SUFFICES ASSUME Ends(u) PROVE \A v \in Updates : Steady(v)
    OBVIOUS
  <2>1. h' = [h EXCEPT ![u] = Finished(h[u])]
    BY DEF Ends
  <2>2. QED
    BY <2>1, EndFacts, OthersStay
<1>d. ASSUME NEW pc \in {"show", "lateClear"}, Replies(u, pc)
      PROVE  (\A v \in Updates : Steady(v)) /\ u \notin Awaited'
  <2>1. Leaves(u) /\ Kept(u) /\ u \notin Awaited'
    BY <1>d, GoesFacts DEF Leaves, Kept, Awaited, Open
  <2>2. QED
    BY <1>d, <2>1, GoesFacts, OneSteady DEF Steady
<1>1. CASE BotGet(u)
  <2>1. CASE conv.q \in Questions \ AdminQuestions
    <3> DEFINE r == [h[u] EXCEPT !.pc = "answer", !.cur = conv]
    <3>1. h' = [h EXCEPT ![u] = r]
      BY <1>1, <1>a, <2>1 DEF BotGet
    <3>2. /\ r.pc = "answer" /\ r.cur = conv /\ r.took = h[u].took /\ r.about = h[u].about
          /\ r.replied = h[u].replied
      BY <1>a DEF HandlerType
    <3> HIDE DEF r
    <3>3. Loads(u) /\ Kept(u)
      BY <1>1, <2>1, <3>1, <3>2, OthersStay DEF BotGet, Loads, Kept
    <3>4. \A v \in Updates : Steady(v)
      BY <3>1, <3>3, OthersStay DEF Steady
    <3>5. QED
      BY <1>1, <1>b, <3>4, KeyAlone, DialogueStep DEF BotGet, rest, tables
  <2>2. CASE conv.q \notin Questions \ AdminQuestions
    <3>1. Ends(u)
      BY <1>1, <2>2 DEF BotGet, Ends
    <3>2. QED
      BY <1>1, <1>b, <1>c, <3>1, KeyAlone, DialogueStep DEF BotGet, rest, tables
  <2>3. QED
    BY <2>1, <2>2
<1>2. CASE BotRefuses(u)
  BY <1>2, <1>b, <1>c, KeyAlone, DialogueStep DEF BotRefuses, rest, tables
<1>3. CASE Continues(u)
  BY <1>3, ContinuesDialogue
<1>4. CASE Saves(u)
  <2>1. h[u].pc = "answer" /\ Goes(u, "clear") /\ effects' = effects \cup {Effect(u, h[u].cur)}
    BY <1>4 DEF Saves
  <2>2. ToClear(u) /\ Kept(u)
    BY <2>1, GoesFacts DEF ToClear, Kept
  <2>3. \A v \in Updates : Steady(v)
    BY <2>1, <2>2, GoesFacts, OneSteady DEF Steady
  <2>4. QED
    BY <1>4, <1>b, <2>1, <2>3, KeyAlone, DialogueStep DEF Saves
<1>5. CASE Clears(u)
  <2>1. h[u].pc = "clear" /\ conv' = NoConv /\ shown' = 0 /\ UNCHANGED <<arrived, effects, confirmed>>
    BY <1>5 DEF Clears, rest, tables
  <2>2. (\A v \in Updates : Steady(v)) /\ u \notin Awaited'
    BY <1>5, <1>d DEF Clears
  <2>3. OneAtATime => Awaited' = {}
    <3> SUFFICES ASSUME OneAtATime, NEW v \in Updates, v \in Awaited' PROVE FALSE
      BY DEF Awaited, Open
    <3>1. u \in Awaited /\ Patient
      BY <2>1 DEF DInv, OwnDialogue, OneAtATime, Awaited, Open
    <3>2. v \in Awaited
      BY <2>2, AwaitedBefore DEF IInv, TypeOK
    <3>3. QED
      BY <2>2, <3>1, <3>2 DEF DInv, OneAwaited
  <2>4. KeySteady
    <3>1. 0 <= arrived /\ arrived <= arrived
      BY ConversationAssumption DEF IInv, TypeOK
    <3>2. QED
      BY <2>1, <2>3, <3>1, Empty DEF KeySteady, Fresh
  <2>5. QED
    BY <1>b, <2>1, <2>2, <2>4, DialogueStep
<1>6. CASE Shows(u)
  BY <1>6, <1>b, <1>c, KeyAlone, DialogueStep DEF Shows, rest, tables
<1>7. CASE BotFails(u)
  BY <1>7, <1>b, <1>d, KeyAlone, DialogueStep DEF BotFails, tables
<1>8. QED
  BY <1>1, <1>2, <1>3, <1>4, <1>5, <1>6, <1>7 DEF Bot

\* So do the key's expiry, a change of the permission, the end of the process
\* and a step that changes nothing.
LEMMA OutsideDialogue ==
    ASSUME IInv, IInv', DInv, Expire \/ PermissionChanges \/ Crash \/ UNCHANGED vars
    PROVE  DInv'
<1>1. SavedOwn
  BY DEF SavedOwn, Expire, PermissionChanges, Crash, vars, rest, tables
<1>2. KeySteady
  <2>1. /\ UNCHANGED <<arrived, shown, confirmed>>
        /\ conv' \in {conv, NoConv}
    BY DEF Expire, PermissionChanges, Crash, vars, rest, tables
  <2>2. QED
    BY <2>1, ConversationAssumption DEF IInv, TypeOK, KeySteady
<1>3. ASSUME NEW v \in Updates PROVE Steady(v)
  <2>1. h[v] \in HandlerType
    BY DEF IInv, TypeOK
  <2>2. CASE UNCHANGED h
    BY <2>2 DEF Steady, Kept, Stays
  <2>3. CASE PermissionChanges
    <3>1. h'[v] = [h[v] EXCEPT !.had = @ \/ (~allowed /\ v \in Open)]
      BY <2>3 DEF PermissionChanges
    <3>2. /\ h'[v].pc = h[v].pc /\ h'[v].cur = h[v].cur /\ h'[v].replied = h[v].replied
          /\ h'[v].took = h[v].took /\ h'[v].about = h[v].about
      BY <2>1, <3>1 DEF HandlerType
    <3>3. QED
      BY <3>2 DEF Steady, Kept, Stays
  <2>4. CASE Crash
    <3>1. h'[v] = IF v \in Open THEN Finished(h[v]) ELSE h[v]
      BY <2>4 DEF Crash
    <3>2. CASE v \in Open
      <4>1. /\ h'[v].took = h[v].took /\ h'[v].about = h[v].about
            /\ h'[v].pc = "done" /\ h'[v].cur = NoConv /\ h'[v].replied
        BY <2>1, <3>1, <3>2 DEF Finished, HandlerType
      <4>2. QED
        BY <4>1 DEF Steady, Kept, Leaves
    <3>3. CASE v \notin Open
      BY <3>1, <3>3 DEF Steady, Kept, Stays
    <3>4. QED
      BY <3>2, <3>3
  <2>5. QED
    BY <2>2, <2>3, <2>4 DEF Expire, vars
<1>4. QED
  BY <1>1, <1>2, <1>3, DialogueStep

\* The dialogues of a patient user keep their messages apart, for any number
\* of updates, of handlers at the same time and of events.
THEOREM DialogueInductive == Spec => []DInv
<1>1. IInv /\ IInv' /\ DInv /\ [Next]_vars => DInv'
  <2> SUFFICES ASSUME IInv, IInv', DInv, [Next]_vars PROVE DInv'
    OBVIOUS
  <2>1. CASE \E u \in Updates : User(u) \/ Admin(u) \/ Bot(u)
    BY <2>1, UserDialogue, AdminDialogue, BotDialogue
  <2>2. CASE Expire \/ PermissionChanges \/ Crash \/ UNCHANGED vars
    BY <2>2, OutsideDialogue
  <2>3. QED
    BY <2>1, <2>2 DEF Next
<1>2. QED
  BY InitDialogue, Inductive, <1>1, PTL DEF Spec

\* Whatever expires, fails, crashes or is cleared late: a patient user's
\* message is taken as the answer to the question that was on the screen when
\* it was sent, and what is saved is made of messages of its own dialogue
\* (on_message, on_admin_message).
THEOREM AnswersCorrect == Spec => []AnswersItsQuestion
<1>1. DInv => AnswersItsQuestion
  BY DEF DInv
<1>2. QED
  BY DialogueInductive, <1>1, PTL

\* A rule that is saved for a patient user holds all that the bot said it added
\* to it (_handle_auto_cond, _handle_auto_reply, _save_automation_rule).
THEOREM RuleCorrect == Spec => PatientRuleIsComplete
<1>1. IInv /\ DInv /\ [Next]_vars => [OneAtATime => NewRuleIsComplete]_vars
  <2> SUFFICES ASSUME IInv, DInv, Next, OneAtATime, NEW e \in effects' \ effects,
                      e.q = "auto_actions"
               PROVE  confirmed[e.dialog] \subseteq e.parts
    BY DEF NewRuleIsComplete
  <2>1. PICK u \in Updates : /\ h[u].pc \in PanelSteps \cup {"answer"}
                             /\ e = Effect(u, h[u].cur)
    <3>1. ASSUME NEW u \in Updates, User(u) PROVE UNCHANGED effects
      BY <3>1 DEF User, PressAsk, SendMessage, Purchase, AskReceipt, Cancel, Start, LateClear,
                  rest, tables
    <3>2. ASSUME NEW u \in Updates, Admin(u) \/ Bot(u)
          PROVE  \/ UNCHANGED effects
                 \/ /\ h[u].pc \in PanelSteps \cup {"answer"}
                    /\ effects' = effects \cup {Effect(u, h[u].cur)}
      <4>1. CASE Admin(u)
        BY <4>1 DEF Admin, AdminGet, AdminRefuses, AdminAllowed, SecondGet, AdminSaves, AdminExists,
                    AdminClears, Broadcast, AdminFails, PanelSteps, rest, tables
      <4>2. CASE Bot(u)
        BY <4>2 DEF Bot, BotGet, BotRefuses, Continues, Saves, Clears, Shows, BotFails, rest, tables
      <4>3. QED
        BY <3>2, <4>1, <4>2
    <3>3. Expire \/ PermissionChanges \/ Crash => UNCHANGED effects
      BY DEF Expire, PermissionChanges, Crash, rest, tables
    <3>4. QED
      BY <3>1, <3>2, <3>3 DEF Next
  <2>2. /\ e.q = h[u].cur.q /\ e.dialog = h[u].cur.dialog
        /\ e.parts = h[u].cur.parts \cup h[u].cur.acts
    BY <2>1 DEF Effect
  <2>3. h[u].pc = "answer"
    BY <2>1, <2>2, Empty DEF IInv, LoadedShape
  <2>4. OwnMessages(h[u].cur)
    BY <2>3 DEF DInv, OwnDialogue
  <2>5. QED
    BY <2>2, <2>4 DEF OwnMessages
<1>2. QED
  BY Inductive, DialogueInductive, <1>1, PTL DEF Spec, PatientRuleIsComplete
=============================================================================
