------------------------- MODULE CreateTargetProofs -------------------------
(* config-lm is written last, for any number of processes and names, if no  *)
(* two processes create or destroy the same name.                           *)
EXTENDS CreateTarget, TLAPS

Exclusive ==
  \A p, q \in Procs, n \in Names :
    (<<p, n>> \in Requests /\ <<q, n>> \in Requests) => p = q

LEMMA TypeInit == Init => TypeOK
BY DEF Init, TypeOK, Locations, RetryMax

\* What a command does to its own state is well typed.
LEMMA LocalType ==
  ASSUME TypeOK, NEW p \in Procs, NEW l \in Locations,
         NEW r \in {"none", "created", "failed", "kept", "refused", "destroyed", "killed"},
         Exit(p, r) \/ Fail(p) \/ (Goto(p, l) /\ UNCHANGED Local)
  PROVE  /\ pc' \in [Procs -> Locations]
         /\ name' \in [Procs -> Names]
         /\ keep' \in [Procs -> BOOLEAN] /\ mapped' \in [Procs -> BOOLEAN]
         /\ tries' \in [Procs -> 0 .. RetryMax + 1]
         /\ result' \in [Procs -> {"none", "created", "failed", "kept", "refused",
                                   "destroyed", "killed"}]
<1>1. 0 \in 0 .. RetryMax + 1
  BY DEF RetryMax
<1>2. "idle" \in Locations /\ "removeStop" \in Locations
  BY DEF Locations
<1>3. ASSUME NEW x \in {"none", "created", "failed", "kept", "refused",
                         "destroyed", "killed"}, Exit(p, x)
      PROVE  /\ pc' \in [Procs -> Locations]
             /\ name' \in [Procs -> Names]
             /\ keep' \in [Procs -> BOOLEAN] /\ mapped' \in [Procs -> BOOLEAN]
             /\ tries' \in [Procs -> 0 .. RetryMax + 1]
             /\ result' \in [Procs -> {"none", "created", "failed", "kept", "refused",
                                       "destroyed", "killed"}]
  BY <1>1, <1>2, <1>3 DEF Exit, Goto, TypeOK
<1>4. CASE Fail(p)
  <2>1. CASE Exit(p, "kept")
    BY <1>3, <2>1
  <2>2. CASE Goto(p, "removeStop") /\ UNCHANGED Local
    BY <1>2, <2>2 DEF Goto, Local, TypeOK
  <2> QED
    BY <1>4, <2>1, <2>2 DEF Fail
<1>5. CASE Goto(p, l) /\ UNCHANGED Local
  BY <1>5 DEF Goto, Local, TypeOK
<1> QED
  BY <1>3, <1>4, <1>5

LEMMA TypeNext == TypeOK /\ [Next]_vars => TypeOK'
<1> SUFFICES ASSUME TypeOK, [Next]_vars PROVE TypeOK'
  OBVIOUS
<1> USE AbsentAssumption
<1>1. ASSUME NEW p \in Procs, NEW n \in Names, NEW k \in BOOLEAN, Create(p, n, k)
      PROVE  TypeOK'
  BY <1>1 DEF Create, Goto, TypeOK, Locations
<1>2. ASSUME NEW p \in Procs, NEW n \in Names, Destroy(p, n) PROVE TypeOK'
  BY <1>2 DEF Destroy, Goto, TypeOK, Locations
<1>3. ASSUME NEW p \in Procs, TruncateConf(p) \/ WriteConf(p) PROVE TypeOK'
  BY <1>3, LocalType DEF TruncateConf, WriteConf, TypeOK, Locations
<1>4. ASSUME NEW p \in Procs, LoadConf(p) PROVE TypeOK'
  <2>1. (conf = "complete") \in BOOLEAN
    OBVIOUS
  <2> QED
    BY <1>4, <2>1 DEF LoadConf, Goto, TypeOK, Locations
<1>5. ASSUME NEW p \in Procs, GiveUp(p) \/ LxcCreateRefused(p) \/ SetupFails(p) \/ Kill(p)
      PROVE  TypeOK'
  BY <1>5, LocalType DEF GiveUp, LxcCreateRefused, SetupFails, Kill, TypeOK, Locations
<1>6. ASSUME NEW p \in Procs, NEW t \in Target \cup {Absent}, SetMine(p, t)
      PROVE  targets' \in [Names -> Target \cup {Absent}]
  BY <1>6 DEF SetMine, TypeOK
<1>7. ASSUME NEW p \in Procs, LxcCreate(p) PROVE TypeOK'
  <2>1. [root |-> "partial", lm |-> "none", mapped |-> mapped[p], registered |-> FALSE,
         running |-> FALSE, owner |-> p] \in Target
    BY DEF Target, TypeOK
  <2> QED
    BY <1>7, <1>6, <2>1, LocalType DEF LxcCreate, TypeOK, Locations
<1>8. ASSUME NEW p \in Procs, Mine(p) # Absent PROVE Mine(p) \in Target
  BY <1>8 DEF Mine, TypeOK
<1>9. ASSUME NEW p \in Procs,
             \/ TemplateDone(p) \/ Register(p) \/ Sed(p) \/ FixTools(p)
             \/ OpenLm(p) \/ WriteLm(p)
      PROVE  TypeOK'
  <2>1. \/ UNCHANGED targets
        \/ \E t \in Target : SetMine(p, t)
    BY <1>8, <1>9 DEF TemplateDone, Register, Sed, FixTools, OpenLm, WriteLm, Target
  <2>2. targets' \in [Names -> Target \cup {Absent}]
    BY <2>1, <1>6 DEF TypeOK
  <2>3. /\ conf' = conf /\ incidents' = incidents
        /\ \/ Exit(p, "created")
           \/ \E l \in Locations : Goto(p, l) /\ UNCHANGED Local
    BY <1>9 DEF TemplateDone, Register, Sed, FixTools, OpenLm, WriteLm, Locations
  <2> QED
    BY <2>2, <2>3, LocalType DEF TypeOK, Locations
<1>10. ASSUME NEW p \in Procs, TemplateFails(p) PROVE TypeOK'
  <2>1. targets' \in [Names -> Target \cup {Absent}]
    BY <1>10, <1>6 DEF TemplateFails, TypeOK
  <2> QED
    BY <1>10, <2>1, LocalType DEF TemplateFails, TypeOK, Locations
<1>11. ASSUME NEW p \in Procs, Start(p) PROVE TypeOK'
  <2>1. tries' \in [Procs -> 0 .. RetryMax + 1]
    BY <1>11 DEF Start, TypeOK, RetryMax
  <2>2. \/ UNCHANGED <<targets, pc>>
        \/ (\E t \in Target : SetMine(p, t)) /\ Goto(p, "sed")
    BY <1>8, <1>11 DEF Start, Target
  <2>3. targets' \in [Names -> Target \cup {Absent}] /\ pc' \in [Procs -> Locations]
    BY <2>2, <1>6 DEF TypeOK, Goto, Locations
  <2> QED
    BY <1>11, <2>1, <2>3 DEF Start, TypeOK
<1>12. ASSUME NEW p \in Procs, RemoveStop(p) PROVE TypeOK'
  <2>1. UNCHANGED targets \/ \E t \in Target : SetMine(p, t)
    BY <1>8, <1>12 DEF RemoveStop, Target
  <2>2. targets' \in [Names -> Target \cup {Absent}]
    BY <2>1, <1>6 DEF TypeOK
  <2>3. incidents' \subseteq {"stop", "destroy"} /\ conf' = conf
    BY <1>12 DEF RemoveStop, TypeOK
  <2> QED
    BY <1>12, <2>2, <2>3, LocalType DEF RemoveStop, TypeOK, Locations
<1>13. ASSUME NEW p \in Procs, Remove(p) PROVE TypeOK'
  BY <1>13, <1>6, LocalType DEF Remove, TypeOK, Locations
<1>14. ASSUME NEW p \in Procs, RemoveFails(p) PROVE TypeOK'
  BY <1>14, LocalType DEF RemoveFails, TypeOK, Locations
<1>15. CASE UNCHANGED vars
  BY <1>15 DEF vars, TypeOK
<1> QED
  BY <1>1, <1>2, <1>3, <1>4, <1>5, <1>7, <1>9, <1>10, <1>11, <1>12, <1>13, <1>14,
     <1>15 DEF Next, Step

\* The containers on disk and the state of every command keep their types.
THEOREM TypeCorrect == Spec => []TypeOK
BY TypeInit, TypeNext, PTL DEF Spec

-----------------------------------------------------------------------------
(* config-lm is last.                                                       *)

Late == {"register", "start", "sed", "tools", "openLm", "writeLm"}
Finalizing == {"tools", "openLm", "writeLm"}

\* A step of one command on its own name disturbs no other command.
LEMMA CreateFrame ==
  ASSUME Exclusive, TypeOK, CreateInv, NEW p \in Procs, pc[p] # "idle",
         \A q \in Procs \ {p} : pc'[q] = pc[q],
         name' = name,
         \A n \in Names \ {name[p]} : targets'[n] = targets[n],
         pc'[p] \in Late => Mine(p)' # Absent /\ Mine(p)'.root = "complete",
         pc'[p] \in Finalizing => Mine(p)'.registered,
         (Mine(p)' # Absent /\ Mine(p)'.lm # "none")
           => Mine(p)'.root = "complete" /\ Mine(p)'.registered
  PROVE  CreateInv'
<1>1. ASSUME NEW q \in Procs \ {p}, pc[q] # "idle"
      PROVE  name[q] # name[p] /\ Mine(q)' = Mine(q)
  <2>1. name[q] \in Names /\ name[p] \in Names
    BY DEF TypeOK
  <2>2. name[q] # name[p]
    BY <1>1, <2>1 DEF Exclusive, CreateInv
  <2> QED
    BY <2>1, <2>2 DEF Mine
<1>2. \A q \in Procs : pc'[q] # "idle" => <<q, name'[q]>> \in Requests
  BY DEF CreateInv
<1>3. \A q \in Procs :
        pc'[q] \in Late => Mine(q)' # Absent /\ Mine(q)'.root = "complete"
  BY <1>1 DEF CreateInv, Late
<1>4. \A q \in Procs : pc'[q] \in Finalizing => Mine(q)'.registered
  BY <1>1 DEF CreateInv, Finalizing
<1>5. \A n \in Names :
        (targets'[n] # Absent /\ targets'[n].lm # "none")
          => targets'[n].root = "complete" /\ targets'[n].registered
  BY DEF CreateInv, Mine
<1> QED
  BY <1>2, <1>3, <1>4, <1>5 DEF CreateInv, Late, Finalizing

\* Where a command goes when it ends or fails.
LEMMA Moves ==
  ASSUME TypeOK, NEW p \in Procs, NEW l, NEW r,
         Exit(p, r) \/ Fail(p) \/ (Goto(p, l) /\ UNCHANGED Local)
  PROVE  /\ \A q \in Procs \ {p} : pc'[q] = pc[q]
         /\ name' = name
         /\ pc'[p] \in {"idle", "removeStop", l}
         /\ (Exit(p, r) \/ Fail(p)) => pc'[p] \in {"idle", "removeStop"}
         /\ Goto(p, l) => pc'[p] = l
BY DEF Exit, Fail, Goto, Local, TypeOK

LEMMA CreateInvNext ==
  Exclusive /\ TypeOK /\ CreateInv /\ [Next]_vars => CreateInv'
<1> SUFFICES ASSUME Exclusive, TypeOK, CreateInv, [Next]_vars PROVE CreateInv'
  OBVIOUS
<1> USE AbsentAssumption
<1>1. ASSUME NEW p \in Procs, NEW t, SetMine(p, t)
      PROVE  Mine(p)' = t \/ name' # name
  BY <1>1 DEF SetMine, Mine, TypeOK
<1>2. ASSUME NEW p \in Procs, NEW t, SetMine(p, t)
      PROVE  \A n \in Names \ {name[p]} : targets'[n] = targets[n]
  BY <1>2 DEF SetMine, TypeOK
<1>3. ASSUME NEW p \in Procs
      PROVE  /\ (Mine(p) # Absent /\ Mine(p).lm # "none")
                  => Mine(p).root = "complete" /\ Mine(p).registered
             /\ Mine(p) # Absent => Mine(p) \in Target
  BY DEF CreateInv, Mine, TypeOK
<1>4. ASSUME NEW p \in Procs, NEW n \in Names, NEW k \in BOOLEAN, <<p, n>> \in Requests,
             Create(p, n, k)
      PROVE  CreateInv'
  BY <1>4 DEF Create, Goto, CreateInv, Mine, TypeOK
<1>5. ASSUME NEW p \in Procs, NEW n \in Names, <<p, n>> \in Requests, Destroy(p, n)
      PROVE  CreateInv'
  BY <1>5 DEF Destroy, Goto, CreateInv, Mine, TypeOK
\* Steps that leave the containers alone and do not get past the template.
<1>6. ASSUME NEW p \in Procs,
             \/ TruncateConf(p) \/ WriteConf(p) \/ GiveUp(p) \/ LxcCreateRefused(p)
             \/ SetupFails(p) \/ RemoveFails(p) \/ Kill(p)
      PROVE  CreateInv'
  <2>1. /\ \A q \in Procs \ {p} : pc'[q] = pc[q]
        /\ name' = name /\ pc'[p] \notin Late
    BY <1>6, Moves DEF TruncateConf, WriteConf, GiveUp, LxcCreateRefused,
       SetupFails, RemoveFails, Kill, Late
  <2>2. targets' = targets /\ pc[p] # "idle"
    BY <1>6 DEF TruncateConf, WriteConf, GiveUp, LxcCreateRefused, SetupFails,
       RemoveFails, Kill
  <2> QED
    BY <1>3, <2>1, <2>2, CreateFrame DEF Mine, Late, Finalizing
<1>7. ASSUME NEW p \in Procs, LoadConf(p) PROVE CreateInv'
  <2>1. /\ \A q \in Procs \ {p} : pc'[q] = pc[q]
        /\ name' = name /\ pc'[p] \notin Late /\ targets' = targets /\ pc[p] # "idle"
    BY <1>7 DEF LoadConf, Goto, TypeOK, Late
  <2> QED
    BY <1>3, <2>1, CreateFrame DEF Mine, Late, Finalizing
<1>8. ASSUME NEW p \in Procs, LxcCreate(p) PROVE CreateInv'
  <2>1. /\ \A q \in Procs \ {p} : pc'[q] = pc[q]
        /\ name' = name /\ pc'[p] = "template" /\ pc[p] # "idle"
    BY <1>8, Moves DEF LxcCreate
  <2>2. Mine(p)'.lm = "none"
    BY <1>8, <1>1, <2>1 DEF LxcCreate
  <2> QED
    BY <1>8, <1>2, <2>1, <2>2, CreateFrame DEF LxcCreate, Late, Finalizing
<1>9. ASSUME NEW p \in Procs, TemplateDone(p) PROVE CreateInv'
  <2>1. /\ \A q \in Procs \ {p} : pc'[q] = pc[q]
        /\ name' = name /\ pc'[p] = "register" /\ pc[p] # "idle"
    BY <1>9, Moves DEF TemplateDone
  <2>2. Mine(p)' = [Mine(p) EXCEPT !.root = "complete"] /\ Mine(p) \in Target
    BY <1>9, <1>1, <1>3, <2>1 DEF TemplateDone
  <2>3. /\ Mine(p)' \in Target /\ Mine(p)'.root = "complete"
        /\ Mine(p)'.lm = Mine(p).lm /\ Mine(p)'.registered = Mine(p).registered
    BY <2>2 DEF Target
  <2> QED
    BY <1>9, <1>2, <1>3, <2>1, <2>2, <2>3, CreateFrame
    DEF TemplateDone, Late, Finalizing
<1>10. ASSUME NEW p \in Procs, TemplateFails(p) \/ Remove(p) PROVE CreateInv'
  <2>1. /\ \A q \in Procs \ {p} : pc'[q] = pc[q]
        /\ name' = name /\ pc'[p] \notin Late /\ pc[p] # "idle"
    BY <1>10, Moves DEF TemplateFails, Remove, Late
  <2>2. UNCHANGED targets \/ SetMine(p, Absent)
    BY <1>10 DEF TemplateFails, Remove
  <2>3. /\ Mine(p)' = Mine(p) \/ Mine(p)' = Absent
        /\ \A n \in Names \ {name[p]} : targets'[n] = targets[n]
    BY <1>1, <1>2, <2>1, <2>2 DEF Mine
  <2> QED
    BY <1>3, <2>1, <2>3, CreateFrame DEF Late, Finalizing
\* Steps that set up the container: it stays, and its root stays complete.
<1>11. ASSUME NEW p \in Procs, pc[p] \in Late
       PROVE  /\ Mine(p) # Absent /\ Mine(p) \in Target /\ Mine(p).root = "complete"
              /\ pc[p] \in Finalizing => Mine(p).registered
  BY <1>11, <1>3 DEF CreateInv, Late, Finalizing
<1>12. ASSUME NEW p \in Procs, Register(p) PROVE CreateInv'
  <2> DEFINE t == [Mine(p) EXCEPT !.running = FALSE]
  <2>1. pc[p] = "register" /\ SetMine(p, t)
    BY <1>12 DEF Register
  <2>2. /\ t \in Target /\ t.root = "complete" /\ t.lm = Mine(p).lm
        /\ t.registered = Mine(p).registered
    BY <1>11, <2>1 DEF Target, Late
  <2>3. /\ \A q \in Procs \ {p} : pc'[q] = pc[q]
        /\ name' = name /\ pc'[p] = "start"
    BY <1>12, Moves DEF Register
  <2>4. Mine(p)' = t
    BY <1>1, <2>1, <2>3
  <2>5. t.lm # "none" => t.registered
    BY <1>3, <1>11, <2>1, <2>2 DEF Late
  <2> HIDE DEF t
  <2> QED
    BY <1>2, <2>1, <2>2, <2>3, <2>4, <2>5, CreateFrame DEF Late, Finalizing
<1>13. ASSUME NEW p \in Procs, Start(p) PROVE CreateInv'
  <2>1. pc[p] = "start" /\ name' = name
    BY <1>13 DEF Start
  <2>2. CASE UNCHANGED <<targets, pc>>
    BY <1>3, <1>11, <2>1, <2>2, CreateFrame DEF Mine, Late, Finalizing
  <2>3. CASE SetMine(p, [Mine(p) EXCEPT !.running = TRUE]) /\ Goto(p, "sed")
    <3> DEFINE t == [Mine(p) EXCEPT !.running = TRUE]
    <3>1. /\ t \in Target /\ t.root = "complete" /\ t.lm = Mine(p).lm
          /\ t.registered = Mine(p).registered
      BY <1>11, <2>1 DEF Target, Late
    <3>2. Mine(p)' = t /\ \A n \in Names \ {name[p]} : targets'[n] = targets[n]
      BY <1>1, <1>2, <2>1, <2>3
    <3>3. t.lm # "none" => t.registered
      BY <1>3, <1>11, <2>1, <3>1 DEF Late
    <3>4. pc'[p] = "sed" /\ \A q \in Procs \ {p} : pc'[q] = pc[q]
      BY <2>3 DEF Goto, TypeOK
    <3> HIDE DEF t
    <3> QED
      BY <2>1, <3>1, <3>2, <3>3, <3>4, CreateFrame DEF Late, Finalizing
  <2> QED
    BY <1>13, <2>2, <2>3 DEF Start
<1>14. ASSUME NEW p \in Procs, Sed(p) PROVE CreateInv'
  <2> DEFINE t == [Mine(p) EXCEPT !.registered = TRUE]
  <2>1. /\ \A q \in Procs \ {p} : pc'[q] = pc[q]
        /\ name' = name /\ pc'[p] = "tools" /\ pc[p] = "sed" /\ SetMine(p, t)
    BY <1>14, Moves DEF Sed
  <2>2. t \in Target /\ t.root = "complete" /\ t.registered
    BY <1>11, <2>1 DEF Target, Late
  <2>3. Mine(p)' = t
    BY <1>1, <2>1
  <2> HIDE DEF t
  <2> QED
    BY <1>2, <2>1, <2>2, <2>3, CreateFrame DEF Late, Finalizing
<1>15. ASSUME NEW p \in Procs, FixTools(p) PROVE CreateInv'
  <2>1. /\ \A q \in Procs \ {p} : pc'[q] = pc[q]
        /\ name' = name /\ pc'[p] = "openLm" /\ pc[p] = "tools" /\ targets' = targets
    BY <1>15, Moves DEF FixTools
  <2> QED
    BY <1>3, <1>11, <2>1, CreateFrame DEF Mine, Late, Finalizing
<1>16. ASSUME NEW p \in Procs, OpenLm(p) PROVE CreateInv'
  <2> DEFINE t == [Mine(p) EXCEPT !.lm = "partial"]
  <2>1. /\ \A q \in Procs \ {p} : pc'[q] = pc[q]
        /\ name' = name /\ pc'[p] = "writeLm" /\ pc[p] = "openLm" /\ SetMine(p, t)
    BY <1>16, Moves DEF OpenLm
  <2>2. t \in Target /\ t.root = "complete" /\ t.registered
    BY <1>11, <2>1 DEF Target, Late, Finalizing
  <2>3. Mine(p)' = t
    BY <1>1, <2>1
  <2> HIDE DEF t
  <2> QED
    BY <1>2, <2>1, <2>2, <2>3, CreateFrame DEF Late, Finalizing
<1>17. ASSUME NEW p \in Procs, WriteLm(p) PROVE CreateInv'
  <2> DEFINE t == [Mine(p) EXCEPT !.lm = "complete"]
  <2>1. /\ \A q \in Procs \ {p} : pc'[q] = pc[q]
        /\ name' = name /\ pc'[p] \notin Late /\ pc[p] = "writeLm"
        /\ SetMine(p, t) \/ UNCHANGED targets
    BY <1>17, Moves DEF WriteLm, Late
  <2>2. t \in Target /\ t.root = "complete" /\ t.registered
    BY <1>11, <2>1 DEF Target, Late, Finalizing
  <2>3. /\ Mine(p)' = t \/ Mine(p)' = Mine(p)
        /\ \A n \in Names \ {name[p]} : targets'[n] = targets[n]
    BY <1>1, <1>2, <2>1 DEF Mine
  <2> HIDE DEF t
  <2> QED
    BY <1>3, <2>1, <2>2, <2>3, CreateFrame DEF Late, Finalizing
<1>18. ASSUME NEW p \in Procs, RemoveStop(p) PROVE CreateInv'
  <2> DEFINE t == [Mine(p) EXCEPT !.running = FALSE]
  <2>1. /\ \A q \in Procs \ {p} : pc'[q] = pc[q]
        /\ name' = name /\ pc'[p] \notin Late /\ pc[p] # "idle"
    BY <1>18, Moves DEF RemoveStop, Late
  <2>2. UNCHANGED targets \/ (Mine(p) # Absent /\ SetMine(p, t))
    BY <1>18 DEF RemoveStop
  <2>3. Mine(p) # Absent =>
          t \in Target /\ t.lm = Mine(p).lm /\ t.root = Mine(p).root
                       /\ t.registered = Mine(p).registered
    BY <1>3 DEF Target
  <2>4. /\ Mine(p)' = Mine(p) \/ (Mine(p) # Absent /\ Mine(p)' = t)
        /\ \A n \in Names \ {name[p]} : targets'[n] = targets[n]
    BY <1>1, <1>2, <2>1, <2>2 DEF Mine
  <2> HIDE DEF t
  <2> QED
    BY <1>3, <2>1, <2>3, <2>4, CreateFrame DEF Late, Finalizing
<1>19. CASE UNCHANGED vars
  BY <1>19 DEF vars, CreateInv, Mine
<1> QED
  BY <1>4, <1>5, <1>6, <1>7, <1>8, <1>9, <1>10, <1>12, <1>13, <1>14, <1>15, <1>16,
     <1>17, <1>18, <1>19 DEF Next, Step

\* Past the template, a create finds its own container, complete and with the
\* user once it has been registered, if no other process uses the name.
THEOREM CreateInvTheorem ==
  ASSUME Exclusive
  PROVE  Spec => []CreateInv
<1>1. Init => CreateInv
  BY DEF Init, CreateInv, Mine
<1>2. TypeOK /\ CreateInv /\ [Next]_vars => CreateInv'
  BY CreateInvNext
<1> QED
  BY <1>1, <1>2, TypeInit, TypeNext, PTL DEF Spec

LEMMA MappedInvNext == TypeOK /\ MappedInv /\ [Next]_vars => MappedInv'
<1> SUFFICES ASSUME TypeOK, MappedInv, [Next]_vars PROVE MappedInv'
  OBVIOUS
<1> USE AbsentAssumption
<1>1. CASE targets' = targets
  BY <1>1 DEF MappedInv
<1>2. ASSUME NEW p \in Procs, NEW t, SetMine(p, t), t # Absent => t.mapped PROVE MappedInv'
  BY <1>2 DEF SetMine, MappedInv, TypeOK
<1>3. ASSUME NEW p \in Procs, Mine(p) # Absent PROVE Mine(p) \in Target /\ Mine(p).mapped
  BY <1>3 DEF Mine, MappedInv, TypeOK
<1>4. ASSUME NEW p \in Procs, TemplateFails(p) \/ Remove(p) PROVE MappedInv'
  BY <1>1, <1>2, <1>4 DEF TemplateFails, Remove
<1>5. ASSUME NEW p \in Procs, LxcCreate(p) PROVE MappedInv'
  BY <1>2, <1>5 DEF LxcCreate
<1>6. ASSUME NEW p \in Procs,
             \/ TemplateDone(p) \/ Register(p) \/ Start(p) \/ Sed(p) \/ OpenLm(p)
             \/ WriteLm(p) \/ RemoveStop(p)
      PROVE  MappedInv'
  <2> DEFINE Keeps(t) == Mine(p) # Absent => t.mapped
  <2>1. /\ Keeps([Mine(p) EXCEPT !.root = "complete"])
        /\ Keeps([Mine(p) EXCEPT !.running = FALSE])
        /\ Keeps([Mine(p) EXCEPT !.running = TRUE])
        /\ Keeps([Mine(p) EXCEPT !.registered = TRUE])
        /\ Keeps([Mine(p) EXCEPT !.lm = "partial"])
        /\ Keeps([Mine(p) EXCEPT !.lm = "complete"])
    BY <1>3 DEF Target
  <2>2. ASSUME TemplateDone(p) PROVE MappedInv'
    <3> DEFINE t == [Mine(p) EXCEPT !.root = "complete"]
    <3>1. targets' = targets \/ (Mine(p) # Absent /\ SetMine(p, t))
      BY <2>2 DEF TemplateDone
    <3>2. Mine(p) # Absent => t.mapped
      BY <2>1
    <3> HIDE DEF t
    <3> QED
      BY <1>1, <1>2, <3>1, <3>2
  <2>3. ASSUME Register(p) PROVE MappedInv'
    <3> DEFINE t == [Mine(p) EXCEPT !.running = FALSE]
    <3>1. targets' = targets \/ (Mine(p) # Absent /\ SetMine(p, t))
      BY <2>3 DEF Register
    <3>2. Mine(p) # Absent => t.mapped
      BY <2>1
    <3> HIDE DEF t
    <3> QED
      BY <1>1, <1>2, <3>1, <3>2
  <2>4. ASSUME Start(p) PROVE MappedInv'
    <3> DEFINE t == [Mine(p) EXCEPT !.running = TRUE]
    <3>1. targets' = targets \/ (Mine(p) # Absent /\ SetMine(p, t))
      BY <2>4 DEF Start
    <3>2. Mine(p) # Absent => t.mapped
      BY <2>1
    <3> HIDE DEF t
    <3> QED
      BY <1>1, <1>2, <3>1, <3>2
  <2>5. ASSUME Sed(p) PROVE MappedInv'
    <3> DEFINE t == [Mine(p) EXCEPT !.registered = TRUE]
    <3>1. targets' = targets \/ (Mine(p) # Absent /\ SetMine(p, t))
      BY <2>5 DEF Sed
    <3>2. Mine(p) # Absent => t.mapped
      BY <2>1
    <3> HIDE DEF t
    <3> QED
      BY <1>1, <1>2, <3>1, <3>2
  <2>6. ASSUME OpenLm(p) PROVE MappedInv'
    <3> DEFINE t == [Mine(p) EXCEPT !.lm = "partial"]
    <3>1. targets' = targets \/ (Mine(p) # Absent /\ SetMine(p, t))
      BY <2>6 DEF OpenLm
    <3>2. Mine(p) # Absent => t.mapped
      BY <2>1
    <3> HIDE DEF t
    <3> QED
      BY <1>1, <1>2, <3>1, <3>2
  <2>7. ASSUME WriteLm(p) PROVE MappedInv'
    <3> DEFINE t == [Mine(p) EXCEPT !.lm = "complete"]
    <3>1. targets' = targets \/ (Mine(p) # Absent /\ SetMine(p, t))
      BY <2>7 DEF WriteLm
    <3>2. Mine(p) # Absent => t.mapped
      BY <2>1
    <3> HIDE DEF t
    <3> QED
      BY <1>1, <1>2, <3>1, <3>2
  <2>8. ASSUME RemoveStop(p) PROVE MappedInv'
    <3> DEFINE t == [Mine(p) EXCEPT !.running = FALSE]
    <3>1. targets' = targets \/ (Mine(p) # Absent /\ SetMine(p, t))
      BY <2>8 DEF RemoveStop
    <3>2. Mine(p) # Absent => t.mapped
      BY <2>1
    <3> HIDE DEF t
    <3> QED
      BY <1>1, <1>2, <3>1, <3>2
  <2> QED
    BY <1>6, <2>2, <2>3, <2>4, <2>5, <2>6, <2>7, <2>8
<1>7. CASE UNCHANGED vars
  BY <1>1, <1>7 DEF vars
<1>8. ASSUME NEW p \in Procs,
             \/ TruncateConf(p) \/ WriteConf(p) \/ LoadConf(p) \/ GiveUp(p)
             \/ LxcCreateRefused(p) \/ FixTools(p) \/ SetupFails(p) \/ RemoveFails(p)
             \/ Kill(p) \/ (\E n \in Names, k \in BOOLEAN : Create(p, n, k))
             \/ (\E n \in Names : Destroy(p, n))
      PROVE  MappedInv'
  BY <1>1, <1>8 DEF TruncateConf, WriteConf, LoadConf, GiveUp, LxcCreateRefused, FixTools,
     SetupFails, RemoveFails, Kill, Create, Destroy
<1> QED
  BY <1>4, <1>5, <1>6, <1>7, <1>8 DEF Next, Step

LEMMA MappedInvTheorem == Spec => []MappedInv
<1>1. Init => MappedInv
  BY DEF Init, MappedInv
<1> QED
  BY <1>1, MappedInvNext, TypeInit, TypeNext, PTL DEF Spec

\* "as last write the config-lm file" (create.go:186): however creates and
\* destroys of different names interleave, are killed or fail, a target with a
\* config-lm has its root, its user and its id mapping.
THEOREM ConfigLmIsLastTheorem ==
  ASSUME Exclusive
  PROVE  Spec => []ConfigLmIsLast
<1>1. CreateInv /\ MappedInv => ConfigLmIsLast
  BY DEF CreateInv, MappedInv, ConfigLmIsLast
<1> QED
  BY <1>1, CreateInvTheorem, MappedInvTheorem, PTL

-----------------------------------------------------------------------------
(* A create that fails leaves nothing behind.                               *)

\* What a command may be in the middle of, or have ended with, on its name.
Early == {"conf", "writeConf", "loadConf", "create"}
Removing == {"remove", "destroy"}

\* A step of one command on its own name disturbs no other command, and not
\* what another one left behind when it failed.
LEMMA FailureFrame ==
  ASSUME Exclusive, TypeOK, CreateInv, FailureInv, NEW p \in Procs, pc[p] # "idle",
         \A q \in Procs \ {p} : pc'[q] = pc[q] /\ result'[q] = result[q],
         name' = name,
         \A n \in Names \ {name[p]} : targets'[n] = targets[n],
         incidents \subseteq incidents',
         pc'[p] \in Early => Mine(p)' = Absent,
         pc'[p] \in Removing => \/ Mine(p)' = Absent \/ ~Mine(p)'.running
                                \/ incidents' # {},
         result'[p] = "failed" =>
           pc'[p] = "idle" /\ (Mine(p)' = Absent \/ incidents' # {})
  PROVE  FailureInv'
<1>1. ASSUME NEW q \in Procs \ {p}, pc[q] # "idle" \/ result[q] = "failed"
      PROVE  Mine(q)' = Mine(q) /\ <<q, name[q]>> \in Requests
  <2>1. <<q, name[q]>> \in Requests /\ <<p, name[p]>> \in Requests
    BY <1>1 DEF CreateInv, FailureInv
  <2>2. name[q] \in Names /\ name[p] \in Names
    BY DEF TypeOK
  <2>3. name[q] # name[p]
    BY <2>1, <2>2 DEF Exclusive
  <2> QED
    BY <2>1, <2>2, <2>3 DEF Mine
<1>2. <<p, name[p]>> \in Requests
  BY DEF CreateInv
<1>3. \A q \in Procs : pc'[q] \in Early => Mine(q)' = Absent
  BY <1>1 DEF FailureInv, Early
<1>4. \A q \in Procs :
        pc'[q] \in Removing =>
          Mine(q)' = Absent \/ ~Mine(q)'.running \/ incidents' # {}
  BY <1>1 DEF FailureInv, Removing
<1>5. \A q \in Procs :
        result'[q] = "failed" =>
          /\ pc'[q] = "idle" /\ <<q, name'[q]>> \in Requests
          /\ Mine(q)' = Absent \/ incidents' # {}
  BY <1>1, <1>2 DEF FailureInv
<1> QED
  BY <1>3, <1>4, <1>5 DEF FailureInv, Early, Removing

\* The result of a command is written when it ends.
LEMMA Results ==
  ASSUME TypeOK, NEW p \in Procs, NEW l, NEW r,
         Exit(p, r) \/ Fail(p) \/ (Goto(p, l) /\ UNCHANGED Local)
  PROVE  /\ \A q \in Procs \ {p} : pc'[q] = pc[q] /\ result'[q] = result[q]
         /\ name' = name
         /\ Exit(p, r) => pc'[p] = "idle" /\ result'[p] = r
         /\ Fail(p) => pc'[p] \in {"idle", "removeStop"}
                       /\ result'[p] \in {result[p], "kept"}
         /\ (Goto(p, l) /\ UNCHANGED Local) => pc'[p] = l /\ result'[p] = result[p]
BY DEF Exit, Fail, Goto, Local, TypeOK

LEMMA FailureInvNext ==
  Exclusive /\ TypeOK /\ CreateInv /\ FailureInv /\ [Next]_vars => FailureInv'
<1> SUFFICES ASSUME Exclusive, TypeOK, CreateInv, FailureInv, [Next]_vars
             PROVE  FailureInv'
  OBVIOUS
<1> USE AbsentAssumption
<1>1. ASSUME NEW p \in Procs, NEW t, SetMine(p, t), name' = name
      PROVE  Mine(p)' = t /\ \A n \in Names \ {name[p]} : targets'[n] = targets[n]
  BY <1>1 DEF SetMine, Mine, TypeOK
<1>2. ASSUME NEW p \in Procs, pc[p] # "idle" PROVE result[p] # "failed"
  BY <1>2 DEF FailureInv
<1>3. ASSUME NEW p \in Procs, NEW n \in Names, NEW k \in BOOLEAN, <<p, n>> \in Requests,
             Create(p, n, k)
      PROVE  FailureInv'
  <2>1. /\ \A q \in Procs \ {p} :
             pc'[q] = pc[q] /\ result'[q] = result[q] /\ name'[q] = name[q]
        /\ name'[p] = n /\ targets' = targets /\ incidents' = incidents
    BY <1>3 DEF Create, Goto, TypeOK
  <2>2. /\ pc'[p] \in {"idle", "conf"} /\ result'[p] # "failed"
        /\ pc'[p] = "conf" => targets[n] = Absent
    BY <1>3 DEF Create, Goto, TypeOK
  <2> QED
    BY <2>1, <2>2 DEF FailureInv, Mine
<1>4. ASSUME NEW p \in Procs, NEW n \in Names, <<p, n>> \in Requests, Destroy(p, n)
      PROVE  FailureInv'
  <2>1. /\ \A q \in Procs \ {p} :
             pc'[q] = pc[q] /\ result'[q] = result[q] /\ name'[q] = name[q]
        /\ pc'[p] = "destroyStop" /\ result'[p] = "none"
        /\ targets' = targets /\ incidents' = incidents
    BY <1>4 DEF Destroy, Goto, TypeOK
  <2> QED
    BY <2>1 DEF FailureInv, Mine
\* Before the template.
<1>5. ASSUME NEW p \in Procs, TruncateConf(p) \/ WriteConf(p) \/ GiveUp(p)
      PROVE  FailureInv'
  <2>1. /\ \A q \in Procs \ {p} : pc'[q] = pc[q] /\ result'[q] = result[q]
        /\ name' = name /\ pc'[p] \in {"idle", "writeConf", "loadConf"}
        /\ result'[p] = "failed" => pc'[p] = "idle"
    BY <1>2, <1>5, Results DEF TruncateConf, WriteConf, GiveUp
  <2>2. pc[p] # "idle" /\ Mine(p)' = Absent /\ targets' = targets /\ incidents' = incidents
    BY <1>5, <2>1 DEF TruncateConf, WriteConf, GiveUp, FailureInv, Mine
  <2> QED
    BY <2>1, <2>2, FailureFrame DEF Removing
<1>6. ASSUME NEW p \in Procs, LoadConf(p) PROVE FailureInv'
  <2>1. /\ \A q \in Procs \ {p} : pc'[q] = pc[q] /\ result'[q] = result[q]
        /\ name' = name /\ pc'[p] = "create" /\ result'[p] # "failed"
    BY <1>2, <1>6 DEF LoadConf, Goto, TypeOK
  <2>2. pc[p] # "idle" /\ Mine(p)' = Absent /\ targets' = targets /\ incidents' = incidents
    BY <1>6, <2>1 DEF LoadConf, FailureInv, Mine
  <2> QED
    BY <2>1, <2>2, FailureFrame DEF Removing
\* Steps that work on the container, or leave to remove it.
<1>7. ASSUME NEW p \in Procs,
             \/ LxcCreate(p) \/ LxcCreateRefused(p) \/ TemplateDone(p) \/ TemplateFails(p)
             \/ Register(p) \/ Sed(p) \/ FixTools(p) \/ OpenLm(p) \/ WriteLm(p)
             \/ SetupFails(p) \/ Kill(p)
      PROVE  FailureInv'
  <2>1. pc[p] # "idle" /\ incidents' = incidents
    BY <1>7 DEF LxcCreate, LxcCreateRefused, TemplateDone, TemplateFails, Register,
       Sed, FixTools, OpenLm, WriteLm, SetupFails, Kill
  <2>2. UNCHANGED targets \/ \E t : SetMine(p, t)
    BY <1>7 DEF LxcCreate, LxcCreateRefused, TemplateDone, TemplateFails, Register,
       Sed, FixTools, OpenLm, WriteLm, SetupFails, Kill
  <2>3. /\ \A q \in Procs \ {p} : pc'[q] = pc[q] /\ result'[q] = result[q]
        /\ name' = name /\ pc'[p] \notin Early \cup Removing /\ result'[p] # "failed"
    <3>1. ASSUME NEW l \in {"template", "register", "start", "tools", "openLm", "writeLm"},
                 Goto(p, l) /\ UNCHANGED Local
          PROVE  /\ \A q \in Procs \ {p} : pc'[q] = pc[q] /\ result'[q] = result[q]
                 /\ name' = name /\ pc'[p] \notin Early \cup Removing
                 /\ result'[p] # "failed"
      BY <1>2, <2>1, <3>1, Results DEF Early, Removing
    <3>2. ASSUME NEW r \in {"created", "killed"}, Exit(p, r)
          PROVE  /\ \A q \in Procs \ {p} : pc'[q] = pc[q] /\ result'[q] = result[q]
                 /\ name' = name /\ pc'[p] \notin Early \cup Removing
                 /\ result'[p] # "failed"
      BY <3>2, Results DEF Early, Removing
    <3>3. ASSUME Fail(p)
          PROVE  /\ \A q \in Procs \ {p} : pc'[q] = pc[q] /\ result'[q] = result[q]
                 /\ name' = name /\ pc'[p] \notin Early \cup Removing
                 /\ result'[p] # "failed"
      BY <1>2, <2>1, <3>3, Results DEF Early, Removing
    <3> QED
      BY <1>7, <3>1, <3>2, <3>3 DEF LxcCreate, LxcCreateRefused, TemplateDone,
         TemplateFails, Register, Sed, FixTools, OpenLm, WriteLm, SetupFails, Kill
  <2>4. \A n \in Names \ {name[p]} : targets'[n] = targets[n]
    BY <1>1, <2>2, <2>3
  <2> QED
    BY <2>1, <2>3, <2>4, FailureFrame
<1>8. ASSUME NEW p \in Procs, Start(p) PROVE FailureInv'
  <2>1. /\ pc[p] = "start" /\ incidents' = incidents /\ name' = name
        /\ result' = result /\ \A q \in Procs \ {p} : pc'[q] = pc[q]
        /\ pc'[p] \in {"start", "sed"}
        /\ UNCHANGED targets \/ \E t : SetMine(p, t)
    BY <1>8 DEF Start, Goto, TypeOK
  <2>2. \A n \in Names \ {name[p]} : targets'[n] = targets[n]
    BY <1>1, <2>1
  <2> QED
    BY <1>2, <2>1, <2>2, FailureFrame DEF Early, Removing
\* RemoveContainerSync.
<1>9. ASSUME NEW p \in Procs, RemoveStop(p) PROVE FailureInv'
  <2> DEFINE t == [Mine(p) EXCEPT !.running = FALSE]
  <2>1. /\ \A q \in Procs \ {p} : pc'[q] = pc[q] /\ result'[q] = result[q]
        /\ name' = name /\ pc'[p] \in Removing /\ result'[p] # "failed"
        /\ pc[p] # "idle" /\ incidents \subseteq incidents'
    BY <1>2, <1>9, Results DEF RemoveStop, Removing
  <2>2. CASE Mine(p) # Absent /\ SetMine(p, t)
    <3>1. Mine(p) \in Target
      BY <2>2 DEF Mine, TypeOK
    <3>2. ~t.running
      BY <3>1 DEF Target
    <3>3. Mine(p)' = t /\ \A n \in Names \ {name[p]} : targets'[n] = targets[n]
      BY <1>1, <2>1, <2>2
    <3> HIDE DEF t
    <3> QED
      BY <2>1, <3>2, <3>3, FailureFrame DEF Early, Removing
  <2>3. CASE targets' = targets /\ (Mine(p) = Absent \/ incidents' # {})
    <3>1. Mine(p)' = Mine(p)
      BY <2>1, <2>3 DEF Mine
    <3> QED
      BY <2>1, <2>3, <3>1, FailureFrame DEF Early, Removing
  <2> QED
    BY <1>9, <2>2, <2>3 DEF RemoveStop
<1>10. ASSUME NEW p \in Procs, Remove(p) PROVE FailureInv'
  <2>1. /\ \A q \in Procs \ {p} : pc'[q] = pc[q] /\ result'[q] = result[q]
        /\ name' = name /\ pc'[p] = "idle" /\ pc[p] # "idle"
        /\ incidents' = incidents /\ SetMine(p, Absent)
    BY <1>10, Results DEF Remove
  <2>2. Mine(p)' = Absent /\ \A n \in Names \ {name[p]} : targets'[n] = targets[n]
    BY <1>1, <2>1
  <2> QED
    BY <2>1, <2>2, FailureFrame DEF Early, Removing
<1>11. ASSUME NEW p \in Procs, RemoveFails(p) PROVE FailureInv'
  <2>1. /\ \A q \in Procs \ {p} : pc'[q] = pc[q] /\ result'[q] = result[q]
        /\ name' = name /\ pc'[p] = "idle" /\ pc[p] \in Removing
        /\ incidents \subseteq incidents' /\ targets' = targets
    BY <1>11, Results DEF RemoveFails, Removing
  <2>2. Mine(p)' = Mine(p)
    BY <2>1 DEF Mine
  <2>3. Mine(p) = Absent \/ incidents' # {}
    BY <1>11, <2>1 DEF RemoveFails, FailureInv, Removing
  <2> QED
    BY <2>1, <2>2, <2>3, FailureFrame DEF Early, Removing
<1>12. CASE UNCHANGED vars
  BY <1>12 DEF vars, FailureInv, Mine
<1> QED
  BY <1>3, <1>4, <1>5, <1>6, <1>7, <1>8, <1>9, <1>10, <1>11, <1>12 DEF Next, Step

\* The strengthening of both theorems, of the same commands: what a create has
\* of its container, and what one that gave up leaves.
THEOREM InductiveInvTheorem ==
  ASSUME Exclusive
  PROVE  Spec => []InductiveInv
<1>1. Init => FailureInv
  BY DEF Init, FailureInv, Mine
<1>2. TypeOK /\ CreateInv /\ FailureInv /\ [Next]_vars => FailureInv'
  BY FailureInvNext
<1>3. CreateInv /\ MappedInv /\ FailureInv => InductiveInv
  BY DEF InductiveInv
<1> QED
  BY <1>1, <1>2, <1>3, TypeCorrect, CreateInvTheorem, MappedInvTheorem, PTL DEF Spec

\* Without --keep-on-error (create.go:76) a create that failed has removed what
\* lxc had made of it, wherever it failed and whatever commands on other names
\* did meanwhile, unless lxc could not stop or destroy it.
THEOREM FailureLeavesNothingTheorem ==
  ASSUME Exclusive
  PROVE  Spec => []FailureLeavesNothing
<1>1. InductiveInv => FailureLeavesNothing
  BY DEF InductiveInv, FailureInv, FailureLeavesNothing
<1> QED
  BY <1>1, InductiveInvTheorem, PTL
=============================================================================
