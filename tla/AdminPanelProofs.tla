-------------------------- MODULE AdminPanelProofs --------------------------
(***************************************************************************)
(* TLAPS proofs about AdminPanel, for any accounts, any buttons and any     *)
(* number of them handled at the same time.                                 *)
(***************************************************************************)
EXTENDS AdminPanel, SequenceTheorems, TLAPS

USE DEF access, money, support

-----------------------------------------------------------------------------
(* Roles and permissions                                                   *)

LEMMA ManageNeed ==
    ASSUME NEW p, <<"admin_id", p>> \in Needs
    PROVE  p = "admins.manage"
BY DEF Needs, PlatformNeeds, AdminNeeds, TicketNeeds, SettingsNeeds, MonitorNeeds

LEMMA AdminCannotManage == "admins.manage" \notin DefaultRolePermissions("ADMIN")
BY DEF DefaultRolePermissions, AllPermissions

\* With unique ids the permissions of a row are those of its roles.
LEMMA OwnPermissions ==
    ASSUME NEW adm, NEW s, NEW a \in Accounts, NEW p,
           \A b, c \in Accounts : adm[b].id # 0 /\ adm[b].id = adm[c].id => b = c
    PROVE  p \in PermissionsOf(adm, s, adm[a].id) <=>
               s /\ adm[a].id # 0 /\ \E role \in adm[a].roles : p \in DefaultRolePermissions(role)
BY DEF PermissionsOf

\* The administrators' managers are the owner and those whose role says so.
LEMMA ManagersAre ==
    ASSUME IdsUnique, NEW a \in Accounts
    PROVE  a \in Managers <=>
               \/ a = Owner
               \/ /\ seeded /\ admins[a].id # 0
                  /\ \E role \in admins[a].roles : "admins.manage" \in DefaultRolePermissions(role)
<1>1. <<"admin_id", "admins.manage">> \in Needs
  BY DEF Needs, AdminNeeds
<1>2. \A p : <<"admin_id", p>> \in Needs <=> p = "admins.manage"
  BY <1>1, ManageNeed
<1>3. a \in Managers <=> a = Owner \/ "admins.manage" \in PermissionsOf(admins, seeded, admins[a].id)
  BY <1>2 DEF Managers, Allowed
<1>4. QED
  BY <1>3, OwnPermissions DEF IdsUnique

-----------------------------------------------------------------------------
(* What a step of one handler leaves to show                               *)

\* Only the handler of u moves.
Moved(u) ==
    /\ h' \in [Ops -> HandlerRecords]
    /\ \A v \in Ops \ {u} : h'[v] = h[v]

\* It ends, or goes on with the same button of the same account.
Continues(u) ==
    \/ h'[u] = Done
    \/ /\ h'[u].actor = h[u].actor /\ h'[u].button = h[u].button
       /\ h'[u].arg = h[u].arg /\ h'[u].had = h[u].had

LEMMA DoneType ==
    /\ Done \in HandlerRecords /\ Done.pc = "done" /\ Done.button = "none"
    /\ NoHandler \in HandlerRecords /\ NoHandler.pc = "none" /\ NoHandler.button = "none"
BY AdminAssumption DEF Done, NoHandler, Handler, HandlerRecords

\* A handler's step that leaves the administrators alone.
LEMMA HandlerStep ==
    ASSUME IInv, NEW u \in Open, UNCHANGED access, Moved(u), Continues(u),
           h'[u].pc = "require" => h'[u].actor = Owner \/ (h'[u].id # 0 /\ h'[u].id = admins[h'[u].actor].id),
           h'[u].pc \in {"act", "write", "answer"} => h[u].had
    PROVE  ArgumentShape' /\ IdsUnique' /\ ResolvedId' /\ Noted' /\ EffectWasAllowed' /\ AdminHasRole'
<1> USE DEF IInv
<1>1. ArgumentShape'
  BY DoneType DEF ArgumentShape, Moved, Continues, Open
<1>2. IdsUnique' /\ AdminHasRole'
  BY DEF IdsUnique, AdminHasRole
<1>3. ResolvedId'
  <2> SUFFICES ASSUME NEW v \in Ops, h'[v].pc = "require", h'[v].actor # Owner
               PROVE  /\ h'[v].id # 0 /\ h'[v].id < nextId
                      /\ \A a \in Accounts : admins[a].id = h'[v].id => a = h'[v].actor
    BY DEF ResolvedId
  <2>1. CASE v # u
    BY <2>1 DEF ResolvedId, Moved
  <2>2. CASE v = u
    <3>1. h'[u].actor \in Accounts
      BY <2>2 DEF Moved, HandlerRecords
    <3>2. QED
      BY <2>2, <3>1 DEF IdsUnique
  <2>3. QED
    BY <2>1, <2>2
<1>4. Noted'
  BY DoneType DEF Noted, Moved, Continues, Open
<1>5. EffectWasAllowed'
  BY DoneType DEF EffectWasAllowed, Moved, Continues, Open
<1>6. QED
  BY <1>1, <1>2, <1>3, <1>4, <1>5

\* A step that neither begins to write a card nor changes one.
LEMMA CardsUntouched ==
    ASSUME IInv, NEW u \in Ops, Moved(u), UNCHANGED <<cards, saved, raced>>,
           h'[u].pc = "write" => h'[u].button \notin {"pay_settings", "card"}
    PROVE  CardRow' /\ CardIsLastSaved'
<1> USE DEF IInv
<1>1. \A v \in Ops : v \in CardHandlers' => v \in CardHandlers /\ h'[v] = h[v]
  BY DEF CardHandlers, Moved
<1>2. CardRow'
  BY <1>1 DEF CardRow, CardHandlers
<1>3. CardIsLastSaved'
  BY DEF CardIsLastSaved, CardShown
<1>4. QED
  BY <1>2, <1>3

LEMMA ResolveInv ==
    ASSUME IInv, NEW u \in Ops, Resolve(u)
    PROVE  IInv'
<1> USE DEF IInv
<1>1. u \in Open /\ h[u] \in HandlerRecords
  BY DEF Resolve, Open, TypeOK
<1>2. \/ h'[u] = Done
      \/ /\ h[u].actor = Owner \/ admins[h[u].actor].id # 0
         /\ h'[u] = [h[u] EXCEPT !.pc = "require", !.id = admins[h[u].actor].id]
  BY DEF Resolve, TypeOK
<1>3. Moved(u)
  <2>a. h[u].actor \in Accounts
    BY <1>1 DEF HandlerRecords
  <2>b. admins[h[u].actor].id \in Nat
    BY <2>a DEF TypeOK
  <2>1. h'[u] \in HandlerRecords
    BY <1>1, <1>2, <2>b, DoneType DEF HandlerRecords
  <2>2. QED
    BY <2>1 DEF Moved, Resolve, TypeOK
<1>4. Continues(u) /\ h'[u].pc \in {"require", "done"}
  BY <1>1, <1>2, DoneType DEF Continues, HandlerRecords
<1>5. h'[u].pc = "require" => h'[u].actor = Owner \/ (h'[u].id # 0 /\ h'[u].id = admins[h'[u].actor].id)
  BY <1>1, <1>2, DoneType DEF HandlerRecords
<1>6. ArgumentShape' /\ IdsUnique' /\ ResolvedId' /\ Noted' /\ EffectWasAllowed' /\ AdminHasRole'
  BY <1>1, <1>3, <1>4, <1>5, HandlerStep DEF Resolve
<1>7. CardRow' /\ CardIsLastSaved'
  BY <1>3, <1>4, CardsUntouched DEF Resolve
<1>8. TypeOK'
  BY <1>3 DEF TypeOK, Resolve, Moved
<1>9. QED
  BY <1>6, <1>7, <1>8

\* A handler that ends, whatever it did apart from the administrators.
LEMMA EndsStep ==
    ASSUME IInv, NEW u \in Open, Ends(u), UNCHANGED access
    PROVE  /\ Moved(u) /\ h'[u] = Done
           /\ ArgumentShape' /\ IdsUnique' /\ ResolvedId' /\ Noted' /\ EffectWasAllowed' /\ AdminHasRole'
<1>1. u \in Ops /\ h \in [Ops -> HandlerRecords]
  BY DEF IInv, TypeOK, Open
<1>2. Moved(u) /\ h'[u] = Done
  BY <1>1, DoneType DEF Moved, Ends
<1>3. QED
  BY <1>2, DoneType, HandlerStep DEF Continues

\* The check: the id that _resolve read has the permission now, so it is the
\* account's own id, and the account is allowed now.
LEMMA RequireInv ==
    ASSUME IInv, NEW u \in Ops, Require(u)
    PROVE  IInv'
<1> USE DEF IInv
<1>1. u \in Open /\ h[u] \in HandlerRecords
  BY DEF Require, Open, TypeOK
<1>2. h'[u] = Done \/ (Passes(u) /\ h'[u] = [h[u] EXCEPT !.pc = "act"])
  BY DEF Require, TypeOK
<1>3. h'[u] \in HandlerRecords
  BY <1>1, <1>2, DoneType DEF HandlerRecords
<1>4. Moved(u)
  BY <1>3 DEF Moved, Require, TypeOK
<1>5. Continues(u) /\ h'[u].pc \in {"act", "done"} /\ (h'[u].pc = "act" => Passes(u))
  BY <1>1, <1>2, DoneType DEF Continues, HandlerRecords
<1>6. ASSUME Passes(u) PROVE h[u].had
  <2>1. h[u].actor \in Accounts
    BY <1>1 DEF HandlerRecords
  <2>2. CASE h[u].actor = Owner
    BY <1>1, <2>2 DEF Noted, Allowed
  <2>3. CASE h[u].actor # Owner
    <3>1. PICK p \in PermissionsOf(admins, seeded, h[u].id) : <<h[u].button, p>> \in Needs
      BY <1>6, <2>3 DEF Passes
    <3>2. PICK a \in Accounts : seeded /\ h[u].id # 0 /\ admins[a].id = h[u].id
      BY <3>1 DEF PermissionsOf
    <3>3. admins[h[u].actor].id = h[u].id
      BY <2>3, <3>2 DEF ResolvedId, Require
    <3>4. Allowed(admins, seeded, h[u].actor, h[u].button)
      BY <3>1, <3>3 DEF Allowed
    <3>5. QED
      BY <1>1, <3>4 DEF Noted
  <2>4. QED
    BY <2>2, <2>3
<1>7. ArgumentShape' /\ IdsUnique' /\ ResolvedId' /\ Noted' /\ EffectWasAllowed' /\ AdminHasRole'
  BY <1>1, <1>4, <1>5, <1>6, HandlerStep DEF Require
<1>8. CardRow' /\ CardIsLastSaved'
  BY <1>4, <1>5, CardsUntouched DEF Require
<1>9. TypeOK'
  BY <1>4 DEF TypeOK, Require, Moved
<1>10. QED
  BY <1>7, <1>8, <1>9

\* Steps that end a handler and change at most a price, a ticket or nothing.
LEMMA SimpleEndsInv ==
    ASSUME IInv, NEW u \in Ops,
           Fail(u) \/ View(u) \/ PlanPrice(u) \/ AnswerTicket(u) \/ CloseTicket(u)
    PROVE  IInv'
<1> USE DEF IInv
<1>1. u \in Open /\ Ends(u) /\ UNCHANGED <<access, cards, saved, raced, arrived>>
  BY DEF Fail, View, PlanPrice, AnswerTicket, CloseTicket, Open
<1>2. /\ Moved(u) /\ h'[u] = Done
      /\ ArgumentShape' /\ IdsUnique' /\ ResolvedId' /\ Noted' /\ EffectWasAllowed' /\ AdminHasRole'
  BY <1>1, EndsStep
<1>3. CardRow' /\ CardIsLastSaved'
  BY <1>1, <1>2, DoneType, CardsUntouched
<1>4. price' \in 0..MaxOps /\ events' \in 0..MaxEvents
  BY AdminAssumption DEF TypeOK, Fail, View, PlanPrice, AnswerTicket, CloseTicket, Event, Ops
<1>5. ticket' \in {"open", "answered", "closed"} /\ delivered' \in BOOLEAN
  BY DEF TypeOK, Fail, View, PlanPrice, AnswerTicket, CloseTicket
<1>6. TypeOK'
  BY <1>1, <1>2, <1>4, <1>5 DEF TypeOK, Moved
<1>7. QED
  BY <1>2, <1>3, <1>6

LEMMA ReplyTicketInv ==
    ASSUME IInv, NEW u \in Ops, ReplyTicket(u)
    PROVE  IInv'
<1> USE DEF IInv
<1>1. u \in Open /\ h[u] \in HandlerRecords /\ h[u].had
  BY DEF ReplyTicket, Open, TypeOK, EffectWasAllowed
<1>2. h'[u] = [h[u] EXCEPT !.pc = "answer"]
  BY DEF ReplyTicket, Goes, TypeOK
<1>3. h'[u] \in HandlerRecords
  BY <1>1, <1>2 DEF HandlerRecords
<1>4. Moved(u)
  BY <1>3 DEF Moved, ReplyTicket, Goes, TypeOK
<1>5. Continues(u) /\ h'[u].pc = "answer"
  BY <1>1, <1>2 DEF Continues, HandlerRecords
<1>6. ArgumentShape' /\ IdsUnique' /\ ResolvedId' /\ Noted' /\ EffectWasAllowed' /\ AdminHasRole'
  BY <1>1, <1>4, <1>5, HandlerStep DEF ReplyTicket
<1>7. CardRow' /\ CardIsLastSaved'
  BY <1>4, <1>5, CardsUntouched DEF ReplyTicket
<1>8. delivered' \in BOOLEAN /\ events' \in 0..MaxEvents
  <2>1. delivered' \in BOOLEAN
    BY DEF TypeOK, ReplyTicket
  <2>2. events' = events \/ (events < MaxEvents /\ events' = events + 1)
    BY DEF ReplyTicket, Event
  <2>3. QED
    BY <2>1, <2>2, AdminAssumption DEF TypeOK
<1>9. TypeOK'
  BY <1>4, <1>8 DEF TypeOK, ReplyTicket, Moved
<1>10. QED
  BY <1>6, <1>7, <1>9

LEMMA ReadAdminInv ==
    ASSUME IInv, NEW u \in Ops, ReadAdmin(u)
    PROVE  IInv'
<1> USE DEF IInv
<1>1. u \in Open /\ h[u] \in HandlerRecords /\ h[u].had
  BY DEF ReadAdmin, Open, TypeOK, EffectWasAllowed
<1>2. h'[u] = Done \/ h'[u] = [h[u] EXCEPT !.pc = "write", !.id = admins[h[u].arg].id]
  BY DEF ReadAdmin, TypeOK
<1>3. admins[h[u].arg].id \in Nat
  <2>1. h[u].arg \in Accounts
    BY DEF ReadAdmin, ArgumentShape
  <2>2. QED
    BY <2>1 DEF TypeOK
<1>4. h'[u] \in HandlerRecords
  BY <1>1, <1>2, <1>3, DoneType DEF HandlerRecords
<1>5. Moved(u)
  BY <1>4 DEF Moved, ReadAdmin, TypeOK
<1>6. Continues(u) /\ h'[u].pc \in {"write", "done"} /\ h'[u].button \in {h[u].button, "none"}
  BY <1>1, <1>2, DoneType DEF Continues, HandlerRecords
<1>7. ArgumentShape' /\ IdsUnique' /\ ResolvedId' /\ Noted' /\ EffectWasAllowed' /\ AdminHasRole'
  BY <1>1, <1>5, <1>6, HandlerStep DEF ReadAdmin
<1>8. CardRow' /\ CardIsLastSaved'
  BY <1>5, <1>6, CardsUntouched DEF ReadAdmin
<1>9. TypeOK'
  BY <1>5 DEF TypeOK, ReadAdmin, Moved
<1>10. QED
  BY <1>7, <1>8, <1>9

-----------------------------------------------------------------------------
(* The card                                                                *)

\* A second handler that finds nothing is a race; without one what was found is
\* what is there.
LEMMA ReadCardInv ==
    ASSUME IInv, NEW u \in Ops, ReadCard(u)
    PROVE  IInv'
<1> USE DEF IInv
<1>1. u \in Open /\ h[u] \in HandlerRecords /\ h[u].had /\ h[u].pc = "act"
  BY DEF ReadCard, Open, TypeOK, EffectWasAllowed
<1>2. h'[u] = [h[u] EXCEPT !.pc = "write", !.found = (cards # << >>)]
  BY DEF ReadCard, TypeOK
<1>3. h'[u] \in HandlerRecords
  BY <1>1, <1>2 DEF HandlerRecords
<1>4. Moved(u)
  BY <1>3 DEF Moved, ReadCard, TypeOK
<1>5. Continues(u) /\ h'[u].pc = "write" /\ h'[u].found = (cards # << >>)
  BY <1>1, <1>2 DEF Continues, HandlerRecords
<1>6. ArgumentShape' /\ IdsUnique' /\ ResolvedId' /\ Noted' /\ EffectWasAllowed' /\ AdminHasRole'
  BY <1>1, <1>4, <1>5, HandlerStep DEF ReadCard
<1>7. CardRow'
  <2> SUFFICES ASSUME ~raced' PROVE CardRow'
    BY DEF CardRow
  <2>1. ~raced /\ (cards = << >> => CardHandlers = {}) /\ cards' = cards
    BY DEF ReadCard, CardHandlers
  <2>2. \A v \in CardHandlers' : v = u \/ (v \in CardHandlers /\ h'[v] = h[v])
    BY <1>4 DEF CardHandlers, Moved
  <2>3. \A v \in CardHandlers' : h'[v].found = (cards # << >>)
    BY <1>5, <2>1, <2>2 DEF CardRow
  <2>4. cards = << >> => \A v, w \in CardHandlers' : v = w
    BY <2>1, <2>2
  <2>5. QED
    BY <2>1, <2>3, <2>4 DEF CardRow
<1>8. CardIsLastSaved'
  BY DEF CardIsLastSaved, CardShown, ReadCard
<1>9. TypeOK'
  <2>1. raced' \in BOOLEAN
    BY DEF ReadCard, TypeOK
  <2>2. QED
    BY <1>4, <2>1 DEF TypeOK, ReadCard, Moved
<1>10. QED
  BY <1>6, <1>7, <1>8, <1>9

\* Without a race the write meets the row that was found, or none.
LEMMA WriteCardInv ==
    ASSUME IInv, NEW u \in Ops, WriteCard(u) \/ ShowCard(u)
    PROVE  IInv'
<1> USE DEF IInv
<1> DEFINE new == IF h[u].button = "card" THEN h[u].arg ELSE 0
<1>1. /\ u \in Open /\ Ends(u) /\ UNCHANGED <<access, price, raced, support, arrived, events>>
      /\ u \in CardHandlers
  BY DEF WriteCard, ShowCard, Open, CardHandlers
<1>2. /\ Moved(u) /\ h'[u] = Done
      /\ ArgumentShape' /\ IdsUnique' /\ ResolvedId' /\ Noted' /\ EffectWasAllowed' /\ AdminHasRole'
  BY <1>1, EndsStep
<1>3. new \in 0..MaxOps
  BY AdminAssumption DEF ArgumentShape, Ops
<1>4. /\ cards' \in {Append(cards, new), [cards EXCEPT ![1] = new], cards}
      /\ saved' \in {new, saved}
  BY DEF WriteCard, ShowCard
<1>5. cards \in Seq(0..MaxOps) /\ saved \in 0..MaxOps
  BY DEF TypeOK
<1>6. cards' \in Seq(0..MaxOps) /\ saved' \in 0..MaxOps
  <2>1. Append(cards, new) \in Seq(0..MaxOps)
    BY <1>3, <1>5
  <2>2. [cards EXCEPT ![1] = new] \in Seq(0..MaxOps)
    <3>1. CASE cards = << >>
      <4>1. [cards EXCEPT ![1] = new] = cards
        BY <3>1
      <4>2. QED
        BY <1>5, <4>1
    <3>2. CASE cards # << >>
      <4>1. 1 \in 1..Len(cards)
        BY <1>5, <3>2
      <4>2. QED
        BY <1>3, <1>5, <4>1, ExceptSeq
    <3>3. QED
      BY <3>1, <3>2
  <2>3. QED
    BY <1>3, <1>4, <1>5, <2>1, <2>2
<1>7. TypeOK'
  BY <1>1, <1>2, <1>6 DEF TypeOK, Moved
<1>8. CardRow' /\ CardIsLastSaved'
  <2> SUFFICES ASSUME ~raced PROVE CardRow' /\ CardIsLastSaved'
    BY <1>1 DEF CardRow, CardIsLastSaved
  <2>1. /\ h[u].found = (cards # << >>)
        /\ \A v \in CardHandlers' : v \in CardHandlers \ {u} /\ h'[v].found = (cards # << >>)
        /\ cards = << >> => CardHandlers = {u}
    <3>1. \A v \in CardHandlers' : v \in CardHandlers \ {u} /\ h'[v] = h[v]
      BY <1>2, DoneType DEF CardHandlers, Moved
    <3>2. QED
      BY <1>1, <3>1 DEF CardRow
  <2>2. CardShown = saved
    BY DEF CardIsLastSaved
  <2>3. CASE cards = << >>
    <3>1. cards' = << new >> /\ saved' = new
      <4>1. ~h[u].found /\ saved = 0
        BY <2>1, <2>2, <2>3 DEF CardShown
      <4>2. cards' = Append(cards, new) /\ saved' = new
        BY <4>1 DEF WriteCard, ShowCard
      <4>3. QED
        BY <2>3, <4>2
    <3>2. QED
      BY <2>1, <2>3, <3>1 DEF CardRow, CardIsLastSaved, CardShown
  <2>4. CASE cards # << >>
    <3>1. Len(cards) \in Nat \ {0}
      BY <1>5, <2>4
    <3>2. cards' # << >> /\ cards'[1] = saved'
      <4>1. CASE WriteCard(u)
        <5>1. h[u].found
          BY <2>1, <2>4
        <5>2. cards' = [cards EXCEPT ![1] = h[u].arg] /\ saved' = h[u].arg
          BY <4>1, <5>1 DEF WriteCard
        <5>3. 1 \in 1..Len(cards) /\ 1 \in DOMAIN cards
          BY <1>5, <3>1
        <5>4. cards'[1] = h[u].arg /\ 1 \in DOMAIN cards'
          BY <5>2, <5>3
        <5>5. QED
          BY <5>2, <5>4
      <4>2. CASE ShowCard(u)
        BY <2>1, <2>2, <2>4, <4>2 DEF ShowCard, CardShown
      <4>3. QED
        BY <4>1, <4>2
    <3>3. QED
      BY <2>1, <2>4, <3>2 DEF CardRow, CardIsLastSaved, CardShown
  <2>5. QED
    BY <2>3, <2>4
<1>9. QED
  BY <1>2, <1>7, <1>8

-----------------------------------------------------------------------------
(* Administrators                                                          *)

LEMMA PressInv ==
    ASSUME IInv, NEW u \in Ops, NEW b \in Buttons, NEW a \in Accounts, NEW arg \in Argument(u, b),
           Press(u, b, a, arg)
    PROVE  IInv'
<1> USE DEF IInv
<1> DEFINE new == Handler("resolve", b, a, arg, Allowed(admins, seeded, a, b))
<1>1. /\ b \in {"admin_id", "del_admin"} => arg \in Accounts
      /\ b = "card" => arg \in Ops
      /\ arg \in Accounts \cup 0..MaxOps
  BY AdminAssumption DEF Argument, Ops
<1>2. /\ new \in HandlerRecords /\ new.pc = "resolve" /\ new.button = b /\ new.actor = a
      /\ new.arg = arg /\ new.had = Allowed(admins, seeded, a, b)
  <2>1. Allowed(admins, seeded, a, b) \in BOOLEAN
    BY DEF Allowed
  <2>2. QED
    BY <1>1, <2>1 DEF Handler, HandlerRecords
<1>3. h' = [h EXCEPT ![u] = new] /\ h \in [Ops -> HandlerRecords]
  BY DEF Press, TypeOK
<1> HIDE DEF new
<1>4. Moved(u) /\ h'[u] = new
  BY <1>2, <1>3 DEF Moved
<1>5. UNCHANGED <<access, money, support, events>>
  BY DEF Press
<1>6. ArgumentShape'
  BY <1>1, <1>2, <1>4 DEF ArgumentShape, Moved
<1>7. IdsUnique' /\ AdminHasRole'
  BY <1>5 DEF IdsUnique, AdminHasRole
<1>8. ResolvedId' /\ EffectWasAllowed'
  BY <1>2, <1>4, <1>5 DEF ResolvedId, EffectWasAllowed, Moved
<1>9. Noted'
  BY <1>2, <1>4, <1>5 DEF Noted, Open, Moved
<1>10. CardRow' /\ CardIsLastSaved'
  BY <1>2, <1>4, <1>5, CardsUntouched
<1>11. arrived' \in 0..MaxOps
  BY AdminAssumption DEF Press, Ops
<1>12. TypeOK'
  BY <1>4, <1>5, <1>11 DEF TypeOK, Moved
<1>13. QED
  BY <1>6, <1>7, <1>8, <1>9, <1>10, <1>12

\* The handlers when a step leaves other rows of administrators behind.
LEMMA NotingStep ==
    ASSUME IInv, NEW u, EndsNoting(u, admins', seeded'), UNCHANGED money
    PROVE  /\ h' \in [Ops -> HandlerRecords]
           /\ ArgumentShape' /\ Noted' /\ EffectWasAllowed' /\ CardRow' /\ CardIsLastSaved'
           /\ \A v \in Ops : h'[v].pc = "require" =>
                  h[v].pc = "require" /\ h'[v].id = h[v].id /\ h'[v].actor = h[v].actor
<1> USE DEF IInv
<1>1. ASSUME NEW v \in Ops
      PROVE  \/ h'[v] = Done
             \/ /\ h'[v].had = (h[v].had \/ (v \in Open /\ Allowed(admins', seeded', h[v].actor, h[v].button)))
                /\ h'[v] \in HandlerRecords
                /\ h'[v].pc = h[v].pc /\ h'[v].button = h[v].button /\ h'[v].actor = h[v].actor
                /\ h'[v].arg = h[v].arg /\ h'[v].id = h[v].id /\ h'[v].found = h[v].found
  <2> DEFINE noted == h[v].had \/ (v \in Open /\ Allowed(admins', seeded', h[v].actor, h[v].button))
  <2>1. h[v] \in HandlerRecords /\ noted \in BOOLEAN
    BY DEF TypeOK
  <2>2. h'[v] = Done \/ h'[v] = [h[v] EXCEPT !.had = noted]
    BY DEF EndsNoting
  <2> HIDE DEF noted
  <2>3. \/ h'[v] = Done
        \/ /\ h'[v].had = noted /\ h'[v] \in HandlerRecords
           /\ h'[v].pc = h[v].pc /\ h'[v].button = h[v].button /\ h'[v].actor = h[v].actor
           /\ h'[v].arg = h[v].arg /\ h'[v].id = h[v].id /\ h'[v].found = h[v].found
    BY <2>1, <2>2 DEF HandlerRecords
  <2>4. QED
    BY <2>3 DEF noted
<1>2. h' \in [Ops -> HandlerRecords]
  BY <1>1, DoneType DEF EndsNoting
<1>3. ArgumentShape'
  BY <1>1, DoneType DEF ArgumentShape
<1>4. Noted'
  BY <1>1, DoneType DEF Open, Noted
<1>5. EffectWasAllowed'
  BY <1>1, DoneType DEF EffectWasAllowed
<1>6. CardRow' /\ CardIsLastSaved'
  <2>1. \A v \in CardHandlers' : v \in CardHandlers /\ h'[v].found = h[v].found
    BY <1>1, DoneType DEF CardHandlers
  <2>2. QED
    BY <2>1 DEF CardRow, CardIsLastSaved, CardShown
<1>7. \A v \in Ops : h'[v].pc = "require" =>
          h[v].pc = "require" /\ h'[v].id = h[v].id /\ h'[v].actor = h[v].actor
  BY <1>1, DoneType
<1>8. QED
  BY <1>2, <1>3, <1>4, <1>5, <1>6, <1>7

\* A step that gives new rows new ids, keeps or drops the others.
RowsKept ==
    /\ nextId' >= nextId /\ nextId' \in Nat
    /\ admins' \in [Accounts -> [id : Nat, roles : SUBSET RoleNames]]
    /\ \A a \in Accounts :
          \/ admins'[a] = admins[a]
          \/ admins'[a] = NoRow
          \/ /\ admins'[a].id = nextId /\ nextId < nextId' /\ admins[a].id = 0 /\ seeded'
             /\ admins'[a].roles # {}
             /\ a # Owner => admins'[a].roles = {"ADMIN"}
             /\ \A c \in Accounts \ {a} : admins'[c].id # nextId
    /\ seeded => seeded'
    /\ seeded' \in BOOLEAN
    /\ UNCHANGED <<money, support, arrived, events>>

\* Such a step keeps the invariant, and makes nobody a manager.
LEMMA RowsStep ==
    ASSUME IInv, NEW u, EndsNoting(u, admins', seeded'), RowsKept
    PROVE  IInv' /\ Managers' \subseteq Managers
<1> USE DEF IInv
<1>1. /\ h' \in [Ops -> HandlerRecords]
      /\ ArgumentShape' /\ Noted' /\ EffectWasAllowed' /\ CardRow' /\ CardIsLastSaved'
      /\ \A v \in Ops : h'[v].pc = "require" =>
             h[v].pc = "require" /\ h'[v].id = h[v].id /\ h'[v].actor = h[v].actor
  BY NotingStep DEF RowsKept
<1>2. TypeOK'
  BY <1>1 DEF TypeOK, RowsKept
<1>3. nextId \in Nat /\ \A a \in Accounts : admins[a].id \in Nat /\ admins'[a].id \in Nat
  BY DEF TypeOK, RowsKept
<1>4. IdsUnique'
  BY <1>3 DEF IdsUnique, RowsKept, NoRow
<1>5. ResolvedId'
  <2> SUFFICES ASSUME NEW v \in Ops, h[v].pc = "require", h[v].actor # Owner
               PROVE  /\ h[v].id # 0 /\ h[v].id < nextId'
                      /\ \A a \in Accounts : admins'[a].id = h[v].id => a = h[v].actor
    BY <1>1 DEF ResolvedId
  <2>1. /\ h[v].id # 0 /\ h[v].id < nextId /\ h[v].id \in Nat
        /\ \A a \in Accounts : admins[a].id = h[v].id => a = h[v].actor
    BY DEF ResolvedId, TypeOK, HandlerRecords
  <2>2. QED
    BY <1>3, <2>1 DEF RowsKept, NoRow
<1>6. AdminHasRole'
  BY DEF AdminHasRole, RowsKept, NoRow
<1>7. Managers' \subseteq Managers
  <2> SUFFICES ASSUME NEW a \in Managers' PROVE a \in Managers
    OBVIOUS
  <2>1. a \in Accounts
    BY DEF Managers
  <2>2. CASE a = Owner
    BY <2>1, <2>2, ManagersAre
  <2>3. CASE a # Owner
    <3>1. /\ seeded' /\ admins'[a].id # 0
          /\ \E role \in admins'[a].roles : "admins.manage" \in DefaultRolePermissions(role)
      <4>1. Managers' = {b \in Accounts : Allowed(admins', seeded', b, "admin_id")}
        BY DEF Managers
      <4>2. PICK p \in PermissionsOf(admins', seeded', admins'[a].id) : <<"admin_id", p>> \in Needs
        BY <2>3, <4>1 DEF Allowed
      <4>3. p = "admins.manage"
        BY <4>2, ManageNeed
      <4>4. \A b, c \in Accounts : admins'[b].id # 0 /\ admins'[b].id = admins'[c].id => b = c
        BY <1>4 DEF IdsUnique
      <4>5. QED
        BY <2>1, <4>2, <4>3, <4>4, OwnPermissions
    <3>2. admins'[a] = admins[a]
      BY <2>1, <2>3, <3>1, AdminCannotManage DEF RowsKept, NoRow
    <3>3. seeded
      BY <2>1, <3>1, <3>2 DEF IdsUnique
    <3>4. QED
      BY <2>1, <3>1, <3>2, <3>3, ManagersAre
  <2>4. QED
    BY <2>2, <2>3
<1>8. QED
  BY <1>1, <1>2, <1>4, <1>5, <1>6, <1>7

LEMMA AddAdminStep ==
    ASSUME IInv, NEW u \in Ops, AddAdmin(u)
    PROVE  IInv' /\ Managers' \subseteq Managers
<1> USE DEF IInv
<1> DEFINE a == h[u].arg
           row == IF admins[a].id # 0 THEN admins[a] ELSE NewAdmin
<1>1. a \in Accounts /\ admins' = [admins EXCEPT ![a] = row] /\ nextId' = nextId + 1 /\ seeded' = seeded
      /\ UNCHANGED <<money, support, arrived, events>>
  BY DEF AddAdmin, ArgumentShape
<1>2. EndsNoting(u, admins', seeded')
  BY DEF AddAdmin
<1>3. nextId \in Nat /\ seeded \in BOOLEAN /\ admins \in [Accounts -> [id : Nat, roles : SUBSET RoleNames]]
  BY DEF TypeOK
<1>4. \/ row = admins[a] \/ row = NoRow
      \/ row = [id |-> nextId, roles |-> {"ADMIN"}] /\ seeded /\ admins[a].id = 0
  BY DEF NewAdmin
<1>5. row \in [id : Nat, roles : SUBSET RoleNames]
  BY <1>1, <1>3, <1>4 DEF NoRow, RoleNames
<1>6. admins' \in [Accounts -> [id : Nat, roles : SUBSET RoleNames]]
  BY <1>1, <1>3, <1>5
<1>7. admins'[a] = row /\ \A c \in Accounts \ {a} : admins'[c] = admins[c]
  BY <1>1, <1>3
<1> HIDE DEF a, row
<1>8. \A c \in Accounts : admins[c].id \in Nat /\ admins[c].id < nextId
  BY <1>3 DEF IdsUnique
<1>9. ASSUME row = [id |-> nextId, roles |-> {"ADMIN"}], seeded, admins[a].id = 0
      PROVE  /\ admins'[a].id = nextId /\ admins'[a].roles # {} /\ admins'[a].roles = {"ADMIN"}
             /\ \A c \in Accounts \ {a} : admins'[c].id # nextId
  BY <1>3, <1>7, <1>8, <1>9
<1>10. RowsKept
  BY <1>1, <1>3, <1>4, <1>6, <1>7, <1>9 DEF RowsKept
<1>11. QED
  BY <1>2, <1>10, RowsStep

LEMMA RemoveAdminStep ==
    ASSUME IInv, NEW u \in Ops, RemoveAdmin(u)
    PROVE  IInv' /\ Managers' \subseteq Managers
<1> USE DEF IInv
<1>1. /\ admins' = [a \in Accounts |-> IF admins[a].id = h[u].id THEN NoRow ELSE admins[a]]
      /\ UNCHANGED <<seeded, nextId, money, support, arrived, events>>
  BY DEF RemoveAdmin
<1>2. EndsNoting(u, admins', seeded')
  BY DEF RemoveAdmin
<1>3. NoRow \in [id : Nat, roles : SUBSET RoleNames]
  BY DEF NoRow
<1>4. RowsKept
  BY <1>1, <1>3 DEF RowsKept, TypeOK
<1>5. QED
  BY <1>2, <1>4, RowsStep

LEMMA SeedStep ==
    ASSUME IInv, Seed
    PROVE  IInv' /\ Managers' \subseteq Managers
<1> USE DEF IInv
<1> DEFINE row == [id |-> nextId, roles |-> {"OWNER"}]
<1>1. /\ \A a \in Accounts : admins[a].id = 0
      /\ nextId \in Nat /\ nextId > 0
  BY DEF Seed, IdsUnique, TypeOK
<1>2. /\ admins' = [admins EXCEPT ![Owner] = row] /\ nextId' = nextId + 1 /\ seeded'
      /\ UNCHANGED <<money, support, arrived, events>>
  BY <1>1, AdminAssumption DEF Seed
<1>3. EndsNoting(0, admins', seeded')
  BY DEF Seed
<1>4. row \in [id : Nat, roles : SUBSET RoleNames] /\ row.id = nextId /\ row.roles # {}
  BY <1>1 DEF RoleNames
<1> HIDE DEF row
<1>5. /\ admins' \in [Accounts -> [id : Nat, roles : SUBSET RoleNames]]
      /\ admins'[Owner] = row /\ \A c \in Accounts \ {Owner} : admins'[c] = admins[c]
  BY <1>2, <1>4, AdminAssumption DEF TypeOK
<1>6. RowsKept
  BY <1>1, <1>2, <1>4, <1>5, AdminAssumption DEF RowsKept, Seed
<1>7. QED
  BY <1>3, <1>6, RowsStep

-----------------------------------------------------------------------------
(* The theorems                                                            *)

LEMMA InitInv == Init => IInv
<1> SUFFICES ASSUME Init PROVE IInv
  OBVIOUS
<1>1. h = [u \in Ops |-> NoHandler]
  BY DEF Init
<1>2. \A u \in Ops : h[u].pc = "none" /\ h[u].button = "none" /\ h[u] \in HandlerRecords
  BY <1>1, DoneType
<1>3. ArgumentShape /\ ResolvedId /\ Noted /\ CardRow /\ EffectWasAllowed
  BY <1>2 DEF ArgumentShape, ResolvedId, Noted, CardRow, EffectWasAllowed, Open, CardHandlers
<1>4. CardIsLastSaved
  BY DEF Init, CardIsLastSaved, CardShown
<1>5. /\ admins \in [Accounts -> [id : Nat, roles : SUBSET RoleNames]]
      /\ nextId \in Nat /\ seeded \in BOOLEAN /\ IdsUnique /\ AdminHasRole
  <2>1. CASE seeded = FALSE /\ admins = [a \in Accounts |-> NoRow] /\ nextId = 1
    <3>1. \A a \in Accounts : admins[a] = NoRow
      BY <2>1
    <3>2. NoRow.id = 0 /\ NoRow \in [id : Nat, roles : SUBSET RoleNames]
      BY DEF NoRow
    <3>3. IdsUnique
      BY <2>1, <3>1, <3>2 DEF IdsUnique
    <3>4. AdminHasRole
      BY <3>1, <3>2 DEF AdminHasRole
    <3>5. QED
      BY <2>1, <3>2, <3>3, <3>4
  <2>2. ASSUME NEW a \in Accounts \ {Owner}, NEW role \in RoleNames \ {"OWNER"}, seeded = TRUE, nextId = 3,
               admins = [b \in Accounts |-> CASE b = Owner -> [id |-> 1, roles |-> {"OWNER"}]
                                              [] b = a -> [id |-> 2, roles |-> {role}]
                                              [] OTHER -> NoRow]
        PROVE  /\ admins \in [Accounts -> [id : Nat, roles : SUBSET RoleNames]]
               /\ nextId \in Nat /\ seeded \in BOOLEAN /\ IdsUnique /\ AdminHasRole
    <3>1. \A b \in Accounts :
              /\ b = Owner => admins[b] = [id |-> 1, roles |-> {"OWNER"}]
              /\ b = a => admins[b] = [id |-> 2, roles |-> {role}]
              /\ b # Owner /\ b # a => admins[b] = NoRow
      BY <2>2
    <3>2. \A b \in Accounts :
              /\ admins[b].id \in {0, 1, 2}
              /\ admins[b].id = 1 <=> b = Owner
              /\ admins[b].id = 2 <=> b = a
              /\ admins[b].id # 0 => admins[b].roles # {}
              /\ admins[b] \in [id : Nat, roles : SUBSET RoleNames]
      BY <2>2, <3>1 DEF NoRow, RoleNames
    <3>3. admins = [b \in Accounts |-> admins[b]]
      BY <2>2
    <3>4. QED
      BY <2>2, <3>2, <3>3 DEF IdsUnique, AdminHasRole
  <2>3. QED
    BY <2>1, <2>2 DEF Init
<1>6. TypeOK
  <2>1. /\ cards \in Seq(0..MaxOps) /\ price \in 0..MaxOps /\ saved \in 0..MaxOps
        /\ raced \in BOOLEAN
    <3>1. cards = << >> /\ price = 0 /\ saved = 0 /\ raced = FALSE
      BY DEF Init
    <3>2. cards \in Seq(0..MaxOps)
      BY <3>1
    <3>3. price \in 0..MaxOps /\ saved \in 0..MaxOps
      BY <3>1, AdminAssumption
    <3>4. QED
      BY <3>1, <3>2, <3>3
  <2>2. arrived \in 0..MaxOps /\ events \in 0..MaxEvents
    BY AdminAssumption DEF Init
  <2>3. ticket \in {"open", "answered", "closed"} /\ delivered \in BOOLEAN
    BY DEF Init
  <2>4. QED
    BY <1>1, <1>2, <1>5, <2>1, <2>2, <2>3 DEF TypeOK
<1>7. QED
  BY <1>3, <1>4, <1>5, <1>6 DEF IInv

\* Only adding, removing and seeding administrators touch who manages them.
LEMMA NextInv ==
    ASSUME IInv, Next
    PROVE  IInv' /\ Managers' \subseteq Managers
<1>1. ASSUME UNCHANGED access PROVE Managers' = Managers
  BY <1>1 DEF Managers
<1>2. ASSUME NEW u \in Ops, Handle(u) PROVE IInv' /\ Managers' \subseteq Managers
  <2>1. CASE AddAdmin(u) \/ RemoveAdmin(u)
    BY <2>1, AddAdminStep, RemoveAdminStep
  <2>2. CASE Resolve(u) \/ Require(u)
    BY <1>1, <2>2, ResolveInv, RequireInv DEF Resolve, Require
  <2>3. CASE Fail(u) \/ View(u) \/ PlanPrice(u) \/ AnswerTicket(u) \/ CloseTicket(u)
    BY <1>1, <2>3, SimpleEndsInv DEF Fail, View, PlanPrice, AnswerTicket, CloseTicket
  <2>4. CASE ReplyTicket(u) \/ ReadAdmin(u)
    BY <1>1, <2>4, ReplyTicketInv, ReadAdminInv DEF ReplyTicket, ReadAdmin
  <2>5. CASE ReadCard(u) \/ WriteCard(u) \/ ShowCard(u)
    BY <1>1, <2>5, ReadCardInv, WriteCardInv DEF ReadCard, WriteCard, ShowCard
  <2>6. QED
    BY <1>2, <2>1, <2>2, <2>3, <2>4, <2>5 DEF Handle
<1>3. ASSUME NEW u \in Ops, NEW b \in Buttons, NEW a \in Accounts, NEW arg \in Argument(u, b),
             Press(u, b, a, arg)
      PROVE  IInv' /\ Managers' \subseteq Managers
  BY <1>1, <1>3, PressInv DEF Press
<1>4. QED
  BY <1>2, <1>3, SeedStep DEF Next

LEMMA StutterInv ==
    ASSUME IInv, UNCHANGED vars
    PROVE  IInv' /\ Managers' \subseteq Managers
BY DEF IInv, vars, TypeOK, ArgumentShape, IdsUnique, ResolvedId, Noted, Open, CardRow, CardHandlers,
   EffectWasAllowed, AdminHasRole, CardIsLastSaved, CardShown, Managers

THEOREM Inductive == Spec => []IInv
<1>1. IInv /\ [Next]_vars => IInv'
  BY NextInv, StutterInv
<1>2. QED
  BY <1>1, InitInv, PTL DEF Spec

\* The rows of administrators, cards and tickets and the handlers keep their types.
THEOREM TypeCorrect == Spec => []TypeOK
<1>1. IInv => TypeOK
  BY DEF IInv
<1>2. QED
  BY <1>1, Inductive, PTL

\* Whatever reached its effect had the permission at some moment since the press.
THEOREM EffectCorrect == Spec => []EffectWasAllowed
<1>1. IInv => EffectWasAllowed
  BY DEF IInv
<1>2. QED
  BY <1>1, Inductive, PTL

\* Every administrator has a role, on a seeded database and on an empty one.
THEOREM RoleCorrect == Spec => []AdminHasRole
<1>1. IInv => AdminHasRole
  BY DEF IInv
<1>2. QED
  BY <1>1, Inductive, PTL

\* Buyers see the card last saved unless two handlers found the table empty.
THEOREM CardCorrect == Spec => []CardIsLastSaved
<1>1. IInv => CardIsLastSaved
  BY DEF IInv
<1>2. QED
  BY <1>1, Inductive, PTL

\* No step of the panel or of the seeding makes a manager.
THEOREM ManagersCorrect == Spec => NoNewManager
<1>1. IInv /\ [Next]_vars => [Managers' \subseteq Managers]_vars
  BY NextInv
<1>2. QED
  BY <1>1, Inductive, PTL DEF Spec, NoNewManager
=============================================================================
