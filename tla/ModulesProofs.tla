---------------------------- MODULE ModulesProofs ---------------------------
(***************************************************************************)
(* TLAPS proofs about Modules, for any catalogue, plan and settings, any    *)
(* number of buttons and commands and any number of them at the same time.  *)
(***************************************************************************)
EXTENDS Modules, FiniteSetTheorems, TLAPS

USE DEF tables, history

-----------------------------------------------------------------------------
(* What a step does to the handlers                                        *)

\* Only the handler of u moves, to something a handler may be.
Moved(u) ==
    /\ h' = [v \in Ops |-> h'[v]]
    /\ HandlerOK(h'[u])
    /\ \A v \in Ops \ {u} : h'[v] = h[v]

LEMMA SetHandler ==
    ASSUME TypeOK, NEW u \in Ops, NEW x, HandlerOK(x), h' = [h EXCEPT ![u] = x]
    PROVE  Moved(u) /\ h'[u] = x
BY DEF TypeOK, Moved

LEMMA SetPc ==
    ASSUME TypeOK, NEW u \in Ops, NEW pc, h' = [h EXCEPT ![u].pc = pc]
    PROVE  h' = [h EXCEPT ![u] = Handler(h[u].kind, h[u].arg, pc, h[u].value)]
<1>1. h[u] = Handler(h[u].kind, h[u].arg, h[u].pc, h[u].value)
  BY DEF TypeOK, HandlerOK
<1>2. [h[u] EXCEPT !.pc = pc] = Handler(h[u].kind, h[u].arg, pc, h[u].value)
  BY <1>1 DEF Handler
<1>3. QED
  BY <1>2

\* An operation that is over is none of the others.
LEMMA DoneOK == HandlerOK(Done) /\ HandlerOK(NoHandler)
BY DEF HandlerOK, Done, NoHandler, Handler

LEMMA Kinds ==
    ASSUME TypeOK, NEW u \in Ops
    PROVE  /\ h[u].pc \in {"check", "enable", "disable", "send"} => h[u].kind = "switch"
           /\ h[u].pc = "write" => h[u].kind \in Settings
           /\ h[u].kind = "switch" => h[u].arg \in Modules
           /\ h[u].kind \in {"add", "template"} => h[u].arg \in Items
           /\ h[u].value \subseteq Items
BY DEF TypeOK, HandlerOK, Done, NoHandler, Handler, Settings

LEMMA PressSwitchMoves ==
    ASSUME TypeOK, NEW u \in Ops, NEW m \in Modules, PressSwitch(u, m)
    PROVE  Moved(u) /\ h'[u] = Handler("switch", m, "read", {})
<1>1. HandlerOK(Handler("switch", m, "read", {}))
  BY DEF HandlerOK, Handler
<1>2. QED
  BY <1>1, SetHandler DEF PressSwitch

LEMMA PressKeywordMoves ==
    ASSUME TypeOK, NEW u \in Ops, NEW kind, NEW arg, PressKeyword(u, kind, arg),
           kind = "add" => arg \in Items, kind = "delete" => arg \in Nat
    PROVE  Moved(u) /\ h'[u] = Handler(kind, arg, "read", {}) /\ kind \in {"add", "delete"}
<1>1. HandlerOK(Handler(kind, arg, "read", {}))
  BY DEF HandlerOK, Handler, PressKeyword
<1>2. QED
  BY <1>1, SetHandler DEF PressKeyword

LEMMA TemplateMoves ==
    ASSUME TypeOK, NEW u \in Ops, NEW k \in Items, Template(u, k)
    PROVE  Moved(u) /\ h'[u] = Handler("template", k, "write", rt.templates \cup {k})
<1>1. HandlerOK(Handler("template", k, "write", rt.templates \cup {k}))
  BY DEF HandlerOK, Handler, TypeOK
<1>2. QED
  BY <1>1, SetHandler DEF Template

LEMMA ReadModuleMoves ==
    ASSUME TypeOK, NEW u \in Ops, ReadModule(u)
    PROVE  /\ Moved(u) /\ h[u].kind = "switch"
           /\ h'[u].kind = "switch" /\ h'[u].pc \in {"disable", "check"}
<1> DEFINE pc == IF h[u].arg \in on THEN "disable" ELSE "check"
           x == Handler("switch", h[u].arg, pc, h[u].value)
<1>1. h' = [h EXCEPT ![u] = x]
  BY SetPc DEF ReadModule
<1>2. HandlerOK(x)
  BY Kinds DEF HandlerOK, Handler, ReadModule
<1>3. Moved(u) /\ h'[u] = x
  BY <1>1, <1>2, SetHandler
<1>4. QED
  BY <1>3 DEF Handler, ReadModule

LEMMA CheckLimitMoves ==
    ASSUME TypeOK, NEW u \in Ops, CheckLimit(u)
    PROVE  /\ Moved(u) /\ h[u].kind = "switch" /\ h[u].pc = "check"
           /\ \/ h'[u] = Done /\ h'[u].kind = "none" /\ h'[u].pc = "done"
              \/ Room /\ h'[u].kind = "switch" /\ h'[u].pc = "enable"
<1> DEFINE x == Handler("switch", h[u].arg, "enable", h[u].value)
<1>1. h[u] = Handler("switch", h[u].arg, h[u].pc, h[u].value)
  BY DEF TypeOK, HandlerOK, CheckLimit
<1>2. [h[u] EXCEPT !.pc = "enable"] = x
  BY <1>1 DEF Handler
<1>3. HandlerOK(x)
  BY Kinds DEF HandlerOK, Handler, CheckLimit
<1>4. h' = [h EXCEPT ![u] = Done] \/ (Room /\ h' = [h EXCEPT ![u] = x])
  BY <1>2 DEF CheckLimit
<1>5. Moved(u) /\ (h'[u] = Done \/ (Room /\ h'[u] = x))
  BY <1>3, <1>4, DoneOK, SetHandler
<1>6. QED
  BY <1>5 DEF CheckLimit, Done, Handler

LEMMA WriteModuleMoves ==
    ASSUME TypeOK, NEW u \in Ops, WriteModule(u)
    PROVE  /\ Moved(u) /\ h[u].kind = "switch" /\ h[u].arg \in Modules
           /\ h'[u].kind = "switch" /\ h'[u].pc = "send"
<1> DEFINE x == Handler("switch", h[u].arg, "send", h[u].value)
<1>1. h[u].kind = "switch"
  BY Kinds DEF WriteModule
<1>2. h' = [h EXCEPT ![u] = x]
  BY <1>1, SetPc DEF WriteModule
<1>3. HandlerOK(x)
  BY <1>1, Kinds DEF HandlerOK, Handler
<1>4. Moved(u) /\ h'[u] = x
  BY <1>2, <1>3, SetHandler
<1>5. QED
  BY <1>1, <1>4, Kinds DEF Handler

LEMMA ReadKeywordsMoves ==
    ASSUME TypeOK, NEW u \in Ops, ReadKeywords(u)
    PROVE  /\ Moved(u) /\ h[u].kind \in {"add", "delete"}
           /\ \/ h'[u].kind = "none" /\ h'[u].pc = "done"
              \/ h'[u].kind = h[u].kind /\ h'[u].pc = "write" /\ h'[u].value = keywords
<1> DEFINE x == Handler(h[u].kind, h[u].arg, "write", keywords)
<1>1. HandlerOK(x)
  BY DEF HandlerOK, Handler, ReadKeywords, TypeOK, NoHandler, Done
<1>2. h' = [h EXCEPT ![u] = Done] \/ h' = [h EXCEPT ![u] = x]
  BY DEF ReadKeywords
<1>3. Moved(u) /\ (h'[u] = Done \/ h'[u] = x)
  BY <1>1, <1>2, DoneOK, SetHandler
<1>4. QED
  BY <1>3 DEF ReadKeywords, Done, Handler

LEMMA EndsMoves ==
    ASSUME TypeOK, NEW u \in Ops,
           SendRestart(u) \/ WriteKeywords(u) \/ Persist(u) \/ Fail(u)
    PROVE  Moved(u) /\ h'[u] = Done /\ h[u].kind # "none"
<1>1. h' = [h EXCEPT ![u] = Done]
  BY DEF SendRestart, WriteKeywords, Persist, Fail
<1>2. h[u].kind # "none"
  BY Kinds DEF SendRestart, WriteKeywords, Persist, Fail
<1>3. QED
  BY <1>1, <1>2, DoneOK, SetHandler

\* A form that comes in takes the next place, which was empty.
LEMMA ArrivalIsNew ==
    ASSUME TypeOK, NotYetArrived, NEW u \in Ops, Arrives(u)
    PROVE  /\ h[u] = NoHandler /\ h[u].kind = "none" /\ h[u].pc = "none"
           /\ arrived' = arrived + 1 /\ u = arrived + 1 /\ arrived' \in 0..MaxOps
<1>1. arrived \in Nat /\ u = arrived + 1 /\ arrived' = u /\ arrived < MaxOps
  BY ModulesAssumption DEF TypeOK, Arrives
<1>2. h[u] = NoHandler
  BY <1>1 DEF NotYetArrived
<1>3. arrived' \in 0..MaxOps
  BY <1>1, ModulesAssumption
<1>4. QED
  BY <1>1, <1>2, <1>3 DEF NoHandler, Handler

-----------------------------------------------------------------------------
(* Counting                                                                *)

LEMMA Finite ==
    ASSUME NEW S \in SUBSET Ops
    PROVE  IsFiniteSet(S) /\ Cardinality(S) \in Nat
<1>1. IsFiniteSet(Ops)
  BY ModulesAssumption, FS_Interval DEF Ops
<1>2. QED
  BY <1>1, FS_Subset, FS_CardinalityType

\* Two sets of operations that differ in u at most.
LEMMA CountStep ==
    ASSUME NEW S \in SUBSET Ops, NEW T \in SUBSET Ops, NEW u \in Ops,
           \A v \in Ops \ {u} : v \in S <=> v \in T
    PROVE  /\ u \in S /\ u \in T => T = S
           /\ u \notin S /\ u \notin T => T = S
           /\ u \notin S /\ u \in T => Cardinality(T) = Cardinality(S) + 1
           /\ u \in S /\ u \notin T => Cardinality(T) = Cardinality(S) - 1
<1>1. IsFiniteSet(S)
  BY Finite
<1>2. (u \in S <=> u \in T) => T = S
  OBVIOUS
<1>3. ASSUME u \notin S, u \in T PROVE Cardinality(T) = Cardinality(S) + 1
  <2>1. T = S \cup {u}
    BY <1>3
  <2>2. QED
    BY <1>1, <1>3, <2>1, FS_AddElement
<1>4. ASSUME u \in S, u \notin T PROVE Cardinality(T) = Cardinality(S) - 1
  <2>1. T = S \ {u}
    BY <1>4
  <2>2. QED
    BY <1>1, <1>4, <2>1, FS_RemoveElement
<1>5. QED
  BY <1>2, <1>3, <1>4

\* The switches under way, and the ones that have still to commit an enable.
LEMMA SwitchesStep ==
    ASSUME TypeOK, NEW u \in Ops, Moved(u)
    PROVE  LET S == OpenOf({"switch"})
               was == h[u].kind = "switch"
               is == h'[u].kind = "switch"
           IN  /\ Cardinality(S) \in Nat
               /\ was /\ is => S' = S
               /\ ~was /\ ~is => S' = S
               /\ ~was /\ is => Cardinality(S') = Cardinality(S) + 1
               /\ was /\ ~is => Cardinality(S') = Cardinality(S) - 1
<1> DEFINE S == {v \in Ops : h[v].kind \in {"switch"}}
           T == {v \in Ops : h'[v].kind \in {"switch"}}
<1>1. S = OpenOf({"switch"}) /\ T = OpenOf({"switch"})'
  BY DEF OpenOf
<1>2. \A v \in Ops \ {u} : v \in S <=> v \in T
  BY DEF Moved
<1>3. (u \in S <=> h[u].kind = "switch") /\ (u \in T <=> h'[u].kind = "switch")
  OBVIOUS
<1>4. S \in SUBSET Ops /\ T \in SUBSET Ops
  OBVIOUS
<1> HIDE DEF S, T
<1>5. Cardinality(S) \in Nat
  BY <1>4, Finite
<1>6. /\ u \in S /\ u \in T => T = S
      /\ u \notin S /\ u \notin T => T = S
      /\ u \notin S /\ u \in T => Cardinality(T) = Cardinality(S) + 1
      /\ u \in S /\ u \notin T => Cardinality(T) = Cardinality(S) - 1
  BY <1>2, <1>4, CountStep
<1>7. QED
  BY <1>1, <1>3, <1>5, <1>6

LEMMA EnablingStep ==
    ASSUME TypeOK, NEW u \in Ops, Moved(u)
    PROVE  LET was == h[u].pc = "enable"
               is == h'[u].pc = "enable"
           IN  /\ Cardinality(Enabling) \in Nat
               /\ ~was /\ ~is => Enabling' = Enabling
               /\ ~was /\ is => Cardinality(Enabling') = Cardinality(Enabling) + 1
               /\ was /\ ~is => Cardinality(Enabling') = Cardinality(Enabling) - 1
<1> DEFINE S == {v \in Ops : h[v].pc = "enable"}
           T == {v \in Ops : h'[v].pc = "enable"}
<1>1. S = Enabling /\ T = Enabling'
  BY DEF Enabling
<1>2. \A v \in Ops \ {u} : v \in S <=> v \in T
  BY DEF Moved
<1>3. (u \in S <=> h[u].pc = "enable") /\ (u \in T <=> h'[u].pc = "enable")
  OBVIOUS
<1>4. S \in SUBSET Ops /\ T \in SUBSET Ops
  OBVIOUS
<1> HIDE DEF S, T
<1>5. Cardinality(S) \in Nat
  BY <1>4, Finite
<1>6. /\ u \in S /\ u \in T => T = S
      /\ u \notin S /\ u \notin T => T = S
      /\ u \notin S /\ u \in T => Cardinality(T) = Cardinality(S) + 1
      /\ u \in S /\ u \notin T => Cardinality(T) = Cardinality(S) - 1
  BY <1>2, <1>4, CountStep
<1>7. QED
  BY <1>1, <1>3, <1>5, <1>6

LEMMA ModulesFinite ==
    ASSUME TypeOK
    PROVE  IsFiniteSet(on) /\ Cardinality(on) \in Nat
BY ModulesAssumption, FS_Subset, FS_CardinalityType DEF TypeOK

-----------------------------------------------------------------------------
(* One step of a button or command keeps the invariant                     *)

\* What every step of the operation u leaves to show: its own part of TypeOK, the
\* counts, and the settings.
LEMMA MovedKeeps ==
    ASSUME IInv, NEW u \in Ops, Moved(u), arrived' \in {arrived, arrived + 1}, u <= arrived'
    PROVE  NotYetArrived'
BY ModulesAssumption DEF IInv, TypeOK, NotYetArrived, Moved, Ops

LEMMA PressSwitchInv ==
    ASSUME IInv, NEW u \in Ops, NEW m \in Modules, PressSwitch(u, m)
    PROVE  IInv'
<1> USE DEF IInv
<1>1. Moved(u) /\ h'[u] = Handler("switch", m, "read", {})
  BY PressSwitchMoves
<1>2. Arrives(u)
  BY DEF PressSwitch
<1>3. /\ h[u] = NoHandler /\ h[u].kind = "none" /\ h[u].pc = "none"
      /\ arrived' = arrived + 1 /\ u = arrived + 1 /\ arrived' \in 0..MaxOps
  BY <1>2, ArrivalIsNew
<1>4. h'[u].kind = "switch" /\ h'[u].pc = "read"
  BY <1>1 DEF Handler
<1> DEFINE n == Cardinality(OpenOf({"switch"}))
<1>5. n \in Nat /\ Cardinality(OpenOf({"switch"})') = n + 1
  BY <1>1, <1>3, <1>4, SwitchesStep
<1>6. Enabling' = Enabling /\ Cardinality(Enabling) \in Nat
  BY <1>1, <1>3, <1>4, EnablingStep
<1>7. n + 1 <= MaxOps /\ arrived \in Nat /\ restarts \in Nat
  BY <1>3, <1>5, ModulesAssumption DEF RestartsCounted, TypeOK
<1>8. /\ width' = IF n >= width THEN n + 1 ELSE width
      /\ width \in Nat /\ width' \in 0..MaxOps
  BY <1>5, <1>7, ModulesAssumption DEF PressSwitch, TypeOK
<1>9. TypeOK'
  BY <1>1, <1>3, <1>8 DEF TypeOK, PressSwitch, Moved
<1>10. NotYetArrived'
  BY <1>1, <1>3, MovedKeeps, ModulesAssumption DEF TypeOK
<1>11. RestartsCounted'
  BY <1>3, <1>5, <1>7 DEF RestartsCounted, PressSwitch
<1>12. PlacesCounted'
  <2>1. Cardinality(OpenOf({"switch"})') <= width'
    BY <1>5, <1>8
  <2>2. on' = on /\ Cardinality(on) \in Nat /\ Limit \in Nat
    BY ModulesFinite, ModulesAssumption DEF PressSwitch
  <2>3. Cardinality(on) + Cardinality(Enabling) <= Limit + Excess'
    BY <1>5, <1>6, <1>8, <2>2 DEF PlacesCounted, Excess
  <2>4. QED
    BY <1>6, <2>1, <2>2, <2>3 DEF PlacesCounted
<1>13. RestartOnItsWay'
  BY <1>1, <1>3 DEF RestartOnItsWay, PressSwitch, Moved
<1>14. ChangeIsCurrent' /\ ConfirmedIsSaved'
  BY <1>1, <1>3, <1>4 DEF ChangeIsCurrent, ConfirmedIsSaved, PressSwitch, Moved, OpenOf, Settings
<1>15. QED
  BY <1>9, <1>10, <1>11, <1>12, <1>13, <1>14

\* A step of a switch neither touches settings nor is one of their changes.
LEMMA SettingsUntouched ==
    ASSUME IInv, NEW u \in Ops, Moved(u), h[u].kind \notin Settings, h'[u].kind \notin Settings,
           UNCHANGED <<keywords, templates, disturbed, confirmed>>, rt' = rt
    PROVE  ChangeIsCurrent' /\ ConfirmedIsSaved'
BY DEF IInv, ChangeIsCurrent, ConfirmedIsSaved, Moved, OpenOf, Settings

\* A step of a switch that stays under way and that has not passed _check_limit.
LEMMA ReadModuleInv ==
    ASSUME IInv, NEW u \in Ops, ReadModule(u)
    PROVE  IInv'
<1> USE DEF IInv
<1>1. Moved(u) /\ h[u].kind = "switch" /\ h[u].pc = "read"
  BY ReadModuleMoves DEF ReadModule
<1>2. h'[u].kind = "switch" /\ h'[u].pc \in {"disable", "check"}
  BY ReadModuleMoves
<1>3. OpenOf({"switch"})' = OpenOf({"switch"}) /\ Enabling' = Enabling
  BY <1>1, <1>2, SwitchesStep, EnablingStep
<1>4. TypeOK'
  BY <1>1 DEF TypeOK, ReadModule, Moved
<1>5. u <= arrived
  BY <1>1, ModulesAssumption DEF NotYetArrived, NoHandler, Handler, TypeOK, Ops
<1>6. NotYetArrived'
  BY <1>1, <1>5, MovedKeeps DEF ReadModule
<1>7. RestartsCounted' /\ PlacesCounted'
  BY <1>3 DEF RestartsCounted, PlacesCounted, ReadModule, Excess
<1>8. RestartOnItsWay'
  BY <1>1 DEF RestartOnItsWay, ReadModule, Moved
<1>9. ChangeIsCurrent' /\ ConfirmedIsSaved'
  BY <1>1, <1>2, SettingsUntouched DEF ReadModule, Settings
<1>10. QED
  BY <1>4, <1>6, <1>7, <1>8, <1>9

\* The check leaves a place for the switch: below the limit there is one, and each
\* switch that ran beside it may have taken one more.
LEMMA CheckLimitInv ==
    ASSUME IInv, NEW u \in Ops, CheckLimit(u)
    PROVE  IInv'
<1> USE DEF IInv
<1>1. Moved(u) /\ h[u].kind = "switch" /\ h[u].pc = "check"
  BY CheckLimitMoves
<1>2. \/ h'[u] = Done /\ h'[u].kind = "none" /\ h'[u].pc = "done"
      \/ Room /\ h'[u].kind = "switch" /\ h'[u].pc = "enable"
  BY CheckLimitMoves
<1> DEFINE n == Cardinality(OpenOf({"switch"}))
           e == Cardinality(Enabling)
<1>3. n \in Nat /\ e \in Nat
  BY <1>1, SwitchesStep, EnablingStep
<1>4. TypeOK'
  BY <1>1 DEF TypeOK, CheckLimit, Moved
<1>5. u <= arrived
  BY <1>1, ModulesAssumption DEF NotYetArrived, NoHandler, Handler, TypeOK, Ops
<1>6. NotYetArrived'
  BY <1>1, <1>5, MovedKeeps DEF CheckLimit
<1>7. RestartsCounted' /\ PlacesCounted'
  <2>1. /\ restarts' = restarts /\ arrived' = arrived /\ width' = width /\ on' = on
        /\ restarts \in Nat /\ arrived \in Nat /\ width \in Nat /\ Limit \in Nat
        /\ Cardinality(on) \in Nat
    BY ModulesFinite, ModulesAssumption DEF TypeOK, CheckLimit
  <2>2. CASE h'[u] = Done /\ h'[u].kind = "none" /\ h'[u].pc = "done"
    <3>1. Cardinality(OpenOf({"switch"})') = n - 1 /\ Enabling' = Enabling
      BY <1>1, <2>2, SwitchesStep, EnablingStep
    <3>2. QED
      BY <1>3, <2>1, <3>1 DEF RestartsCounted, PlacesCounted, Excess
  <2>3. CASE Room /\ h'[u].kind = "switch" /\ h'[u].pc = "enable"
    <3>1. OpenOf({"switch"})' = OpenOf({"switch"}) /\ Cardinality(Enabling') = e + 1
      BY <1>1, <2>3, SwitchesStep, EnablingStep
    <3>2. Enabling' \subseteq OpenOf({"switch"})'
      BY <1>4, Kinds DEF Enabling, OpenOf, TypeOK, HandlerOK, NoHandler, Done, Handler
    <3>3. OpenOf({"switch"})' \in SUBSET Ops
      BY DEF OpenOf
    <3>4. e + 1 <= n
      BY <3>1, <3>2, <3>3, Finite, FS_Subset
    <3>5. QED
      BY <1>3, <2>1, <2>3, <3>1, <3>4 DEF RestartsCounted, PlacesCounted, Excess, Room
  <2>4. QED
    BY <1>2, <2>2, <2>3
<1>8. RestartOnItsWay'
  BY <1>1 DEF RestartOnItsWay, CheckLimit, Moved
<1>9. ChangeIsCurrent' /\ ConfirmedIsSaved'
  BY <1>1, <1>2, SettingsUntouched DEF CheckLimit, Settings
<1>10. QED
  BY <1>4, <1>6, <1>7, <1>8, <1>9

\* The commit uses the place, or gives one back.
LEMMA WriteModuleInv ==
    ASSUME IInv, NEW u \in Ops, WriteModule(u)
    PROVE  IInv'
<1> USE DEF IInv
<1>1. Moved(u) /\ h[u].kind = "switch" /\ h[u].arg \in Modules
  BY WriteModuleMoves
<1>2. h'[u].kind = "switch" /\ h'[u].pc = "send"
  BY WriteModuleMoves
<1>3. OpenOf({"switch"})' = OpenOf({"switch"})
  BY <1>1, <1>2, SwitchesStep
<1>4. TypeOK'
  BY <1>1 DEF TypeOK, WriteModule, Moved
<1>5. u <= arrived
  BY <1>1, ModulesAssumption DEF NotYetArrived, NoHandler, Handler, TypeOK, Ops
<1>6. NotYetArrived'
  BY <1>1, <1>5, MovedKeeps DEF WriteModule
<1>7. RestartsCounted'
  BY <1>3 DEF RestartsCounted, WriteModule
<1>8. PlacesCounted'
  <2>1. Cardinality(Enabling) \in Nat /\ Cardinality(on) \in Nat /\ IsFiniteSet(on)
    BY <1>1, ModulesFinite, EnablingStep
  <2>2. CASE h[u].pc = "enable"
    <3>1. Cardinality(Enabling') = Cardinality(Enabling) - 1
      BY <1>1, <1>2, <2>2, EnablingStep
    <3>2. on' = on \cup {h[u].arg}
      BY <2>2 DEF WriteModule
    <3>3. Cardinality(on') \in Nat /\ Cardinality(on') <= Cardinality(on) + 1
      BY <2>1, <3>2, FS_AddElement
    <3>4. Limit \in Nat /\ width \in Nat /\ width' = width
      BY ModulesAssumption DEF TypeOK, WriteModule
    <3>5. QED
      BY <1>3, <2>1, <3>1, <3>3, <3>4 DEF PlacesCounted, Excess
  <2>3. CASE h[u].pc = "disable"
    <3>1. Enabling' = Enabling
      BY <1>1, <1>2, <2>3, EnablingStep
    <3>2. on' = on \ {h[u].arg}
      BY <2>3 DEF WriteModule
    <3>a. on' \in SUBSET on
      BY <3>2
    <3>3. Cardinality(on') \in Nat /\ Cardinality(on') <= Cardinality(on)
      BY <2>1, <3>a, FS_Subset, FS_CardinalityType
    <3>4. Limit \in Nat /\ width \in Nat /\ width' = width
      BY ModulesAssumption DEF TypeOK, WriteModule
    <3>5. QED
      BY <1>3, <2>1, <3>1, <3>3, <3>4 DEF PlacesCounted, Excess
  <2>4. QED
    BY <2>2, <2>3 DEF WriteModule
<1>9. RestartOnItsWay'
  BY <1>2 DEF RestartOnItsWay
<1>10. ChangeIsCurrent' /\ ConfirmedIsSaved'
  BY <1>1, <1>2, SettingsUntouched DEF WriteModule, Settings
<1>11. QED
  BY <1>4, <1>6, <1>7, <1>8, <1>9, <1>10

\* The restart is in the queue, for whichever switch it was.
LEMMA SendRestartInv ==
    ASSUME IInv, NEW u \in Ops, SendRestart(u)
    PROVE  IInv'
<1> USE DEF IInv
<1>1. Moved(u) /\ h'[u] = Done
  BY EndsMoves
<1>2. h[u].kind = "switch" /\ h[u].pc = "send" /\ h'[u].kind = "none" /\ h'[u].pc = "done"
  BY <1>1, Kinds DEF SendRestart, Done, Handler
<1> DEFINE n == Cardinality(OpenOf({"switch"}))
<1>3. n \in Nat /\ Cardinality(OpenOf({"switch"})') = n - 1 /\ Enabling' = Enabling
  BY <1>1, <1>2, SwitchesStep, EnablingStep
<1>4. OpenOf({"switch"})' \in SUBSET Ops /\ Cardinality(OpenOf({"switch"})') \in Nat
  BY Finite DEF OpenOf
<1>5. restarts' = restarts + 1 /\ arrived' = arrived /\ restarts \in Nat /\ arrived \in 0..MaxOps
  BY ModulesAssumption DEF SendRestart, TypeOK
<1>6. RestartsCounted' /\ restarts' \in 0..MaxOps
  BY <1>3, <1>4, <1>5, ModulesAssumption DEF RestartsCounted
<1>7. TypeOK'
  BY <1>1, <1>6 DEF TypeOK, SendRestart, Moved
<1>8. u <= arrived
  BY <1>2, ModulesAssumption DEF NotYetArrived, NoHandler, Handler, TypeOK, Ops
<1>9. NotYetArrived'
  BY <1>1, <1>8, MovedKeeps DEF SendRestart
<1>10. PlacesCounted'
  <2>1. width' = width /\ on' = on /\ width \in Nat
    BY ModulesAssumption DEF SendRestart, TypeOK
  <2>2. QED
    BY <1>3, <2>1 DEF PlacesCounted, Excess
<1>11. RestartOnItsWay'
  BY <1>5 DEF RestartOnItsWay
<1>12. ChangeIsCurrent' /\ ConfirmedIsSaved'
  BY <1>1, <1>2, SettingsUntouched DEF SendRestart, Settings
<1>13. QED
  BY <1>6, <1>7, <1>9, <1>10, <1>11, <1>12

-----------------------------------------------------------------------------
(* Settings                                                                *)

\* A change of a setting is no switch: counts and modules stay.
LEMMA CountsUntouched ==
    ASSUME IInv, NEW u \in Ops, Moved(u), h[u].kind # "switch", h'[u].kind # "switch",
           h[u].pc # "send", h[u].pc # "enable", h'[u].pc # "enable",
           arrived' \in {arrived, arrived + 1},
           UNCHANGED <<on, restarts, width, lost>>, rt' = rt \/ rt' = [rt EXCEPT !.templates = rt'.templates]
    PROVE  RestartsCounted' /\ PlacesCounted' /\ RestartOnItsWay'
<1> USE DEF IInv
<1>1. OpenOf({"switch"})' = OpenOf({"switch"}) /\ Enabling' = Enabling
  BY SwitchesStep, EnablingStep
<1>2. Cardinality(OpenOf({"switch"})) \in Nat /\ restarts \in Nat /\ arrived \in Nat
  BY SwitchesStep, ModulesAssumption DEF TypeOK
<1>3. RestartsCounted' /\ PlacesCounted'
  BY <1>1, <1>2 DEF RestartsCounted, PlacesCounted, Excess
<1>4. rt'.up = rt.up /\ rt'.modules = rt.modules
  BY DEF TypeOK
<1>5. RestartOnItsWay'
  BY <1>4 DEF RestartOnItsWay, Moved
<1>6. QED
  BY <1>3, <1>5

\* A change that comes while another is under way disturbs it.
LEMMA ChangeArrives ==
    ASSUME IInv, NEW u \in Ops, Moved(u), Disturbs, ~disturbed'
    PROVE  ~disturbed /\ \A v \in Ops \ {u} : h'[v].kind \notin Settings
BY DEF Disturbs, Moved, OpenOf

LEMMA PressKeywordInv ==
    ASSUME IInv, NEW u \in Ops, NEW kind, NEW arg, PressKeyword(u, kind, arg),
           kind = "add" => arg \in Items, kind = "delete" => arg \in Nat
    PROVE  IInv'
<1> USE DEF IInv
<1>1. Moved(u) /\ h'[u] = Handler(kind, arg, "read", {}) /\ kind \in {"add", "delete"}
  BY PressKeywordMoves
<1>2. Arrives(u)
  BY DEF PressKeyword
<1>3. /\ h[u] = NoHandler /\ h[u].kind = "none" /\ h[u].pc = "none"
      /\ arrived' = arrived + 1 /\ u = arrived + 1 /\ arrived' \in 0..MaxOps
  BY <1>2, ArrivalIsNew
<1>4. h'[u].kind = kind /\ h'[u].pc = "read"
  BY <1>1 DEF Handler
<1>5. TypeOK'
  BY <1>1, <1>3 DEF TypeOK, PressKeyword, Moved, Disturbs
<1>6. NotYetArrived'
  BY <1>1, <1>3, MovedKeeps, ModulesAssumption DEF TypeOK
<1>7. RestartsCounted' /\ PlacesCounted' /\ RestartOnItsWay'
  BY <1>1, <1>3, <1>4, CountsUntouched DEF PressKeyword
<1>8. ConfirmedIsSaved'
  BY DEF ConfirmedIsSaved, PressKeyword, Disturbs
<1>9. ChangeIsCurrent'
  <2> SUFFICES ASSUME ~disturbed' PROVE ChangeIsCurrent'
    BY DEF ChangeIsCurrent
  <2>1. ~disturbed /\ \A v \in Ops \ {u} : h'[v].kind \notin Settings
    BY <1>1, ChangeArrives DEF PressKeyword
  <2>2. UNCHANGED <<templates, rt>>
    BY DEF PressKeyword
  <2>3. QED
    BY <1>1, <1>4, <2>1, <2>2 DEF ChangeIsCurrent, OpenOf, Settings
<1>10. QED
  BY <1>5, <1>6, <1>7, <1>8, <1>9

LEMMA TemplateInv ==
    ASSUME IInv, NEW u \in Ops, NEW k \in Items, Template(u, k)
    PROVE  IInv'
<1> USE DEF IInv
<1>1. Moved(u) /\ h'[u] = Handler("template", k, "write", rt.templates \cup {k})
  BY TemplateMoves
<1>2. Arrives(u)
  BY DEF Template
<1>3. /\ h[u] = NoHandler /\ h[u].kind = "none" /\ h[u].pc = "none"
      /\ arrived' = arrived + 1 /\ u = arrived + 1 /\ arrived' \in 0..MaxOps
  BY <1>2, ArrivalIsNew
<1>4. h'[u].kind = "template" /\ h'[u].pc = "write" /\ h'[u].arg = k
      /\ h'[u].value = rt.templates \cup {k}
  BY <1>1 DEF Handler
<1>5. rt' = [rt EXCEPT !.templates = rt.templates \cup {k}] /\ rt'.templates = rt.templates \cup {k}
  BY DEF Template, TypeOK
<1>6. TypeOK'
  BY <1>1, <1>3, <1>5 DEF TypeOK, Template, Moved, Disturbs
<1>7. NotYetArrived'
  BY <1>1, <1>3, MovedKeeps, ModulesAssumption DEF TypeOK
<1>8. RestartsCounted' /\ PlacesCounted' /\ RestartOnItsWay'
  BY <1>1, <1>3, <1>4, <1>5, CountsUntouched DEF Template
<1>9. ConfirmedIsSaved'
  BY DEF ConfirmedIsSaved, Template, Disturbs
<1>10. ChangeIsCurrent'
  <2> SUFFICES ASSUME ~disturbed' PROVE ChangeIsCurrent'
    BY DEF ChangeIsCurrent
  <2>1. ~disturbed /\ \A v \in Ops \ {u} : h'[v].kind \notin Settings
    BY <1>1, ChangeArrives DEF Template
  <2>2. templates' = templates /\ templates \subseteq rt.templates
    BY <2>1 DEF Template, ChangeIsCurrent
  <2>3. QED
    BY <1>4, <1>5, <2>1, <2>2 DEF ChangeIsCurrent, OpenOf, Settings
<1>11. QED
  BY <1>6, <1>7, <1>8, <1>9, <1>10

LEMMA ReadKeywordsInv ==
    ASSUME IInv, NEW u \in Ops, ReadKeywords(u)
    PROVE  IInv'
<1> USE DEF IInv
<1>1. Moved(u) /\ h[u].kind \in {"add", "delete"} /\ h[u].pc = "read"
  BY ReadKeywordsMoves DEF ReadKeywords
<1>2. \/ h'[u].kind = "none" /\ h'[u].pc = "done"
      \/ h'[u].kind = h[u].kind /\ h'[u].pc = "write" /\ h'[u].value = keywords
  BY ReadKeywordsMoves
<1>3. TypeOK'
  BY <1>1 DEF TypeOK, ReadKeywords, Moved
<1>4. u <= arrived
  BY <1>1, ModulesAssumption DEF NotYetArrived, NoHandler, Handler, TypeOK, Ops
<1>5. NotYetArrived'
  BY <1>1, <1>4, MovedKeeps DEF ReadKeywords
<1>6. RestartsCounted' /\ PlacesCounted' /\ RestartOnItsWay'
  BY <1>1, <1>2, CountsUntouched DEF ReadKeywords
<1>7. ConfirmedIsSaved'
  BY DEF ConfirmedIsSaved, ReadKeywords
<1>8. ChangeIsCurrent'
  BY <1>1, <1>2 DEF ChangeIsCurrent, ReadKeywords, Moved, OpenOf, Settings
<1>9. QED
  BY <1>3, <1>5, <1>6, <1>7, <1>8

\* The dict that is written back has what was confirmed, and the new keyword.
LEMMA WriteKeywordsInv ==
    ASSUME IInv, NEW u \in Ops, WriteKeywords(u)
    PROVE  IInv'
<1> USE DEF IInv
<1>1. Moved(u) /\ h[u].kind \in {"add", "delete"} /\ h[u].pc = "write"
  BY EndsMoves DEF WriteKeywords
<1>2. h'[u].kind = "none" /\ h'[u].pc = "done"
  BY EndsMoves DEF Done, Handler
<1>3. h[u].value \subseteq Items /\ (h[u].kind = "add" => h[u].arg \in Items)
  BY Kinds, <1>1
<1>4. keywords' \subseteq Items
  BY <1>3 DEF WriteKeywords, NewKeywords
<1>5. confirmed' \subseteq {"keyword", "template"} \X Items
  BY <1>3 DEF TypeOK, WriteKeywords
<1>6. TypeOK'
  BY <1>1, <1>4, <1>5 DEF TypeOK, WriteKeywords, Moved
<1>7. u <= arrived
  BY <1>1, ModulesAssumption DEF NotYetArrived, NoHandler, Handler, TypeOK, Ops
<1>8. NotYetArrived'
  BY <1>1, <1>7, MovedKeeps DEF WriteKeywords
<1>9. RestartsCounted' /\ PlacesCounted' /\ RestartOnItsWay'
  BY <1>1, <1>2, CountsUntouched DEF WriteKeywords
<1>10. ConfirmedIsSaved' /\ ChangeIsCurrent'
  <2> SUFFICES ASSUME ~disturbed PROVE ConfirmedIsSaved' /\ ChangeIsCurrent'
    BY DEF ConfirmedIsSaved, ChangeIsCurrent, WriteKeywords
  <2>1. h[u].value = keywords
    BY <1>1 DEF ChangeIsCurrent
  <2>2. \A v \in Ops \ {u} : h'[v].kind \notin Settings
    BY <1>1 DEF ChangeIsCurrent, Moved, OpenOf, Settings
  <2>3. ChangeIsCurrent'
    BY <1>2, <2>2 DEF ChangeIsCurrent, WriteKeywords, OpenOf, Settings
  <2>4. \A k \in Items : <<"template", k>> \in confirmed' => k \in templates'
    BY DEF ConfirmedIsSaved, WriteKeywords
  <2>5. \A k \in Items : <<"keyword", k>> \in confirmed' => k \in keywords'
    BY <1>1, <2>1 DEF ConfirmedIsSaved, WriteKeywords, NewKeywords
  <2>6. QED
    BY <2>3, <2>4, <2>5 DEF ConfirmedIsSaved
<1>11. QED
  BY <1>6, <1>8, <1>9, <1>10

\* The value that persist_setting writes has every template of the row.
LEMMA PersistInv ==
    ASSUME IInv, NEW u \in Ops, Persist(u)
    PROVE  IInv'
<1> USE DEF IInv
<1>1. Moved(u) /\ h[u].kind = "template" /\ h[u].pc = "write"
  BY EndsMoves DEF Persist
<1>2. h'[u].kind = "none" /\ h'[u].pc = "done"
  BY EndsMoves DEF Done, Handler
<1>3. h[u].value \subseteq Items /\ h[u].arg \in Items
  BY Kinds, <1>1
<1>4. TypeOK'
  BY <1>1, <1>3 DEF TypeOK, Persist, Moved
<1>5. u <= arrived
  BY <1>1, ModulesAssumption DEF NotYetArrived, NoHandler, Handler, TypeOK, Ops
<1>6. NotYetArrived'
  BY <1>1, <1>5, MovedKeeps DEF Persist
<1>7. RestartsCounted' /\ PlacesCounted' /\ RestartOnItsWay'
  BY <1>1, <1>2, CountsUntouched DEF Persist
<1>8. ConfirmedIsSaved' /\ ChangeIsCurrent'
  <2> SUFFICES ASSUME ~disturbed PROVE ConfirmedIsSaved' /\ ChangeIsCurrent'
    BY DEF ConfirmedIsSaved, ChangeIsCurrent, Persist
  <2>1. /\ h[u].arg \in h[u].value /\ templates \subseteq h[u].value
        /\ h[u].value \subseteq rt.templates
    BY <1>1 DEF ChangeIsCurrent
  <2>2. \A v \in Ops \ {u} : h'[v].kind \notin Settings
    BY <1>1 DEF ChangeIsCurrent, Moved, OpenOf, Settings
  <2>3. ChangeIsCurrent'
    BY <1>2, <2>1, <2>2 DEF ChangeIsCurrent, Persist, OpenOf, Settings
  <2>4. QED
    BY <2>1, <2>3 DEF ConfirmedIsSaved, Persist
<1>9. QED
  BY <1>4, <1>6, <1>7, <1>8

-----------------------------------------------------------------------------
(* Failures and the worker                                                 *)

\* A failed operation leaves its place; a restart it had still to send is lost.
LEMMA FailInv ==
    ASSUME IInv, NEW u \in Ops, Fail(u)
    PROVE  IInv'
<1> USE DEF IInv
<1>1. Moved(u) /\ h[u].kind # "none"
  BY EndsMoves
<1>2. h'[u].kind = "none" /\ h'[u].pc = "done"
  BY EndsMoves DEF Done, Handler
<1>3. UNCHANGED <<tables, rt, restarts, arrived, width, confirmed>>
  BY DEF Fail
<1>4. TypeOK'
  BY <1>1, ModulesAssumption DEF TypeOK, Fail, Event, Moved
<1>5. u <= arrived
  BY <1>1, ModulesAssumption DEF NotYetArrived, NoHandler, Handler, TypeOK, Ops
<1>6. NotYetArrived'
  BY <1>1, <1>3, <1>5, MovedKeeps
<1>7. RestartsCounted' /\ PlacesCounted'
  <2>1. /\ Cardinality(OpenOf({"switch"})) \in Nat
        /\ \/ OpenOf({"switch"})' = OpenOf({"switch"})
           \/ Cardinality(OpenOf({"switch"})') = Cardinality(OpenOf({"switch"})) - 1
    BY <1>1, <1>2, SwitchesStep
  <2>2. /\ Cardinality(Enabling) \in Nat
        /\ \/ Enabling' = Enabling
           \/ Cardinality(Enabling') = Cardinality(Enabling) - 1
    BY <1>1, <1>2, EnablingStep
  <2>3. /\ restarts \in Nat /\ arrived \in Nat /\ width \in Nat /\ Limit \in Nat
        /\ Cardinality(on) \in Nat
    BY ModulesFinite, ModulesAssumption DEF TypeOK
  <2>4. QED
    BY <1>3, <2>1, <2>2, <2>3 DEF RestartsCounted, PlacesCounted, Excess
<1>8. RestartOnItsWay'
  <2> SUFFICES ASSUME rt'.up, ~lost', rt'.modules # on'
               PROVE  restarts' > 0 \/ \E v \in Ops : h'[v].pc = "send"
    BY DEF RestartOnItsWay
  <2>1. ~lost /\ h[u].pc # "send"
    BY DEF Fail
  <2>2. QED
    BY <1>1, <1>3, <2>1 DEF RestartOnItsWay, Moved
<1>9. ChangeIsCurrent' /\ ConfirmedIsSaved'
  <2> SUFFICES ASSUME ~disturbed' PROVE ChangeIsCurrent' /\ ConfirmedIsSaved'
    BY DEF ChangeIsCurrent, ConfirmedIsSaved
  <2>1. ~disturbed
    BY DEF Fail
  <2>2. QED
    BY <1>1, <1>2, <1>3, <2>1 DEF ChangeIsCurrent, ConfirmedIsSaved, Moved, OpenOf, Settings
<1>10. QED
  BY <1>4, <1>6, <1>7, <1>8, <1>9

\* The worker and the environment leave the operations alone.
LEMMA WorkerInv ==
    ASSUME IInv, HandleRestart \/ StartRuntime \/ Crash \/ CommandExpires \/ SubscriptionChanges
    PROVE  IInv'
<1> USE DEF IInv
<1>1. UNCHANGED <<h, arrived, on, known, keywords, templates, width, confirmed>>
  BY DEF HandleRestart, StartRuntime, Crash, CommandExpires, SubscriptionChanges
<1>2. restarts' \in 0..MaxOps /\ restarts' <= restarts /\ restarts \in Nat
  BY ModulesAssumption DEF TypeOK, HandleRestart, StartRuntime, Crash, CommandExpires, SubscriptionChanges
<1>3. rt' \in [up : BOOLEAN, modules : SUBSET Modules, templates : SUBSET Items]
  <2>1. CASE StartRuntime
    BY <2>1 DEF TypeOK, StartRuntime, LoadModules
  <2>2. CASE ~StartRuntime
    BY <2>2 DEF TypeOK, HandleRestart, Crash, CommandExpires, SubscriptionChanges
  <2>3. QED
    BY <2>1, <2>2
<1>4. events' \in 0..MaxEvents
  BY ModulesAssumption DEF TypeOK, Event, HandleRestart, StartRuntime, Crash, CommandExpires, SubscriptionChanges
<1>5. subscribed' \in BOOLEAN /\ lost' \in BOOLEAN /\ disturbed' \in BOOLEAN
  BY DEF TypeOK, HandleRestart, StartRuntime, Crash, CommandExpires, SubscriptionChanges
<1>6. TypeOK'
  BY <1>1, <1>2, <1>3, <1>4, <1>5 DEF TypeOK
<1>7. NotYetArrived' /\ PlacesCounted'
  BY <1>1 DEF NotYetArrived, PlacesCounted, Enabling, OpenOf, Excess
<1>8. RestartsCounted'
  <2>1. OpenOf({"switch"})' = OpenOf({"switch"}) /\ OpenOf({"switch"}) \in SUBSET Ops
    BY <1>1 DEF OpenOf
  <2>2. Cardinality(OpenOf({"switch"})) \in Nat /\ arrived \in Nat
    BY <2>1, Finite, ModulesAssumption DEF TypeOK
  <2>3. QED
    BY <1>1, <1>2, <2>1, <2>2 DEF RestartsCounted
<1>9. RestartOnItsWay'
  <2>1. CASE HandleRestart \/ Crash
    BY <2>1 DEF HandleRestart, Crash, RestartOnItsWay, TypeOK
  <2>2. CASE StartRuntime
    BY <1>1, <2>2 DEF StartRuntime, RestartOnItsWay, LoadModules
  <2>3. CASE CommandExpires
    BY <2>3 DEF CommandExpires, RestartOnItsWay
  <2>4. CASE SubscriptionChanges
    BY <2>4 DEF SubscriptionChanges, RestartOnItsWay
  <2>5. QED
    BY <2>1, <2>2, <2>3, <2>4
<1>10. ConfirmedIsSaved'
  BY <1>1 DEF ConfirmedIsSaved, HandleRestart, StartRuntime, Crash, CommandExpires, SubscriptionChanges
<1>11. ChangeIsCurrent'
  <2> SUFFICES ASSUME ~disturbed' PROVE ChangeIsCurrent'
    BY DEF ChangeIsCurrent
  <2>1. ~disturbed
    BY DEF HandleRestart, StartRuntime, Crash, CommandExpires, SubscriptionChanges
  <2>2. CASE rt'.templates = rt.templates
    BY <1>1, <2>1, <2>2 DEF ChangeIsCurrent, OpenOf
  <2>3. CASE StartRuntime
    <3>1. \A u \in Ops : h[u].kind # "template"
      BY <2>3 DEF StartRuntime, OpenOf
    <3>2. rt'.templates = templates
      BY <2>3 DEF StartRuntime
    <3>3. QED
      BY <1>1, <2>1, <3>1, <3>2 DEF ChangeIsCurrent, OpenOf
  <2>4. QED
    BY <2>2, <2>3 DEF TypeOK, HandleRestart, Crash, CommandExpires, SubscriptionChanges
<1>12. QED
  BY <1>6, <1>7, <1>8, <1>9, <1>10, <1>11

-----------------------------------------------------------------------------
(* The theorems                                                            *)

LEMMA InitInv == Init => IInv
<1> SUFFICES ASSUME Init PROVE IInv
  OBVIOUS
<1>1. TypeOK
  <2>1. h = [u \in Ops |-> h[u]] /\ \A u \in Ops : HandlerOK(h[u])
    BY DoneOK DEF Init
  <2>2. on \subseteq known /\ known \subseteq Modules
    BY DEF Init
  <2>3. rt \in [up : BOOLEAN, modules : SUBSET Modules, templates : SUBSET Items]
    BY DEF Init
  <2>4. restarts \in 0..MaxOps /\ arrived \in 0..MaxOps /\ events \in 0..MaxEvents /\ width \in 0..MaxOps
    BY ModulesAssumption DEF Init
  <2>5. QED
    BY <2>1, <2>2, <2>3, <2>4 DEF Init, TypeOK
<1>2. OpenOf({"switch"}) = {} /\ OpenOf(Settings) = {} /\ Enabling = {}
  BY DEF Init, OpenOf, Enabling, Settings, NoHandler, Handler
<1>3. Cardinality({}) = 0
  BY FS_EmptySet
<1>4. NotYetArrived /\ RestartsCounted /\ PlacesCounted
  BY <1>1, <1>2, <1>3, ModulesFinite, ModulesAssumption
     DEF Init, NotYetArrived, RestartsCounted, PlacesCounted, Excess
<1>5. RestartOnItsWay /\ ConfirmedIsSaved
  BY DEF Init, RestartOnItsWay, ConfirmedIsSaved
<1>6. ChangeIsCurrent
  BY <1>2 DEF Init, ChangeIsCurrent, NoHandler, Handler
<1>7. QED
  BY <1>1, <1>4, <1>5, <1>6 DEF IInv

LEMMA NextInv ==
    ASSUME IInv, Next
    PROVE  IInv'
<1>1. ASSUME NEW u \in Ops, Handle(u) PROVE IInv'
  BY <1>1, ReadModuleInv, CheckLimitInv, WriteModuleInv, SendRestartInv, ReadKeywordsInv,
     WriteKeywordsInv, PersistInv, FailInv DEF Handle
<1>2. ASSUME NEW u \in Ops, NEW m \in Modules, PressSwitch(u, m) \/ PressPanel(u, m) PROVE IInv'
  BY <1>2, PressSwitchInv DEF PressPanel
<1>3. ASSUME NEW u \in Ops, NEW k \in Items, PressKeyword(u, "add", k) PROVE IInv'
  BY <1>3, PressKeywordInv
<1>4. ASSUME NEW u \in Ops, NEW k \in Items, Template(u, k) PROVE IInv'
  BY <1>4, TemplateInv
<1>5. ASSUME NEW u \in Ops, NEW i \in 0..(Cardinality(Items) - 1), PressKeyword(u, "delete", i)
      PROVE  IInv'
  <2>1. Cardinality(Items) \in Nat
    BY ModulesAssumption, FS_CardinalityType
  <2>2. i \in Nat
    BY <2>1
  <2>3. QED
    BY <1>5, <2>2, PressKeywordInv
<1>6. QED
  BY <1>1, <1>2, <1>3, <1>4, <1>5, WorkerInv DEF Next

THEOREM Inductive == Spec => []IInv
<1>1. IInv /\ UNCHANGED vars => IInv'
  BY DEF IInv, vars, TypeOK, NotYetArrived, RestartsCounted, PlacesCounted, Enabling, OpenOf, Excess,
     RestartOnItsWay, ChangeIsCurrent, ConfirmedIsSaved
<1>2. IInv /\ [Next]_vars => IInv'
  BY <1>1, NextInv
<1>3. QED
  BY <1>2, InitInv, PTL DEF Spec

\* The rows of modules and settings, the runtime and the handlers keep their types.
THEOREM TypeCorrect == Spec => []TypeOK
<1>1. IInv => TypeOK
  BY DEF IInv
<1>2. QED
  BY <1>1, Inductive, PTL

\* However many switches overlap, the plan's limit is passed by no more than the
\* number that ran beside another one.
THEOREM LimitCorrect == Spec => []LimitHolds
<1>1. IInv => LimitHolds
  <2> SUFFICES ASSUME IInv PROVE LimitHolds
    OBVIOUS
  <2>1. Enabling \in SUBSET Ops
    BY DEF Enabling
  <2>2. Cardinality(Enabling) \in Nat /\ Cardinality(on) \in Nat /\ Limit \in Nat /\ width \in Nat
    BY <2>1, Finite, ModulesFinite, ModulesAssumption DEF IInv, TypeOK
  <2>3. QED
    BY <2>2 DEF IInv, PlacesCounted, LimitHolds, Excess
<1>2. QED
  BY <1>1, Inductive, PTL

\* A runtime that is up has the enabled modules once the switches have sent their
\* restarts and the worker took them, unless one was lost.
THEOREM RuntimeCorrect == Spec => []RuntimeIsCurrent
<1>1. IInv => RuntimeIsCurrent
  <2> SUFFICES ASSUME IInv, rt.up, restarts = 0, OpenOf({"switch"}) = {}, ~lost, rt.modules # on
               PROVE  FALSE
    BY DEF RuntimeIsCurrent
  <2>1. PICK u \in Ops : h[u].pc = "send"
    BY DEF IInv, RestartOnItsWay
  <2>2. h[u].kind = "switch"
    BY <2>1, Kinds DEF IInv
  <2>3. QED
    BY <2>2 DEF OpenOf
<1>2. QED
  BY <1>1, Inductive, PTL

\* Confirmed keywords and templates are in the database as long as changes do not
\* overlap and none fails.
THEOREM ConfirmedCorrect == Spec => []ConfirmedIsSaved
<1>1. IInv => ConfirmedIsSaved
  BY DEF IInv
<1>2. QED
  BY <1>1, Inductive, PTL
=============================================================================
