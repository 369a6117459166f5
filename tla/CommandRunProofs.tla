-------------------------- MODULE CommandRunProofs --------------------------
(* For every tool, every size of the pipes and any number of signals and of *)
(* starts and stops by others: the boot ends with a container that runs,    *)
(* what the tool wrote is printed, the tool does not outlive the wrapper    *)
(* and its status is returned.                                              *)
EXTENDS CommandRun, TLAPS

USE DEF Goto, BootStep, RelayStep, ToolStep, SignalStep, LxcStep,
        bootVars, toolVars, streamVars, signalVars, resultVars

-----------------------------------------------------------------------------
(* Types. *)

ControlTypes ==
  /\ lxc \in States /\ changes \in Nat /\ mode \in Modes
  /\ main \in Early \cup {"running", "drain", "exited", "killed"}
  /\ awaited \in {"RUNNING", "STOPPED", "FROZEN"}
  /\ handler \in {"none", "install", "wait", "kill"} /\ signals \in Nat
  /\ ret \in Nat /\ xit \in -1 .. 255
  /\ tool \in {"none", "shell", "running", "ended"} /\ raw \in Nat
  /\ excuses \subseteq {"load", "pipe", "timeout", "start", "state", "other"}

StreamTypes ==
  /\ plan \in Plans /\ pos \in [Streams -> Nat]
  /\ pipe \in [Streams -> Seq(Symbols)] /\ \A s \in Streams : Len(pipe[s]) <= Cap
  /\ line \in [Streams -> Seq(Symbols \ {"nl"})]
  /\ printed \in [Streams -> Seq(Symbols \cup {"rootfs/"})]
  /\ relay \in [Streams -> {"none", "reading", "done"}]

FlagTypes ==
  child \in BOOLEAN /\ open \in BOOLEAN

Typed == ControlTypes /\ StreamTypes

LEMMA Types == TypeOK <=> Typed /\ FlagTypes
BY DEF TypeOK, Typed, ControlTypes, StreamTypes, FlagTypes, Early

LEMMA TypesNext == Typed' /\ FlagTypes' => TypeOK'
BY DEF TypeOK, Typed, ControlTypes, StreamTypes, FlagTypes, Early

\* What a plan is made of.
LEMMA PlanType ==
  ASSUME TypeOK
  PROVE  \A s \in Streams : plan.writes[s] \in Seq(Symbols)
BY PlanAssumption DEF TypeOK, Plan

LEMMA CodeType == TypeOK => plan.code \in 0 .. 255
BY PlanAssumption DEF TypeOK, Plan

LEMMA ChildType == TypeOK => plan.child \in BOOLEAN
BY PlanAssumption DEF TypeOK, Plan

\* The two results of a process.
LEMMA ReturnType ==
  ASSUME TypeOK, NEW status \in Nat, Return(status)
  PROVE  main' = "exited" /\ ret' \in Nat /\ xit' \in -1 .. 255
<1>1. WEXITSTATUS(status) \in 0 .. 255
  BY DEF WEXITSTATUS
<1> QED
  BY <1>1 DEF Return, ExitStatus, TypeOK

LEMMA GiveUpType ==
  ASSUME TypeOK, GiveUp
  PROVE  /\ main' = "exited" /\ ret' = 1 /\ xit' \in -1 .. 255
         /\ UNCHANGED <<plan, mode, tool, pos, raw, pipe, line, relay, printed, handler, signals>>
<1>1. Return(1)
  BY DEF GiveUp
<1>2. main' = "exited" /\ xit' \in -1 .. 255
  BY <1>1, ReturnType
<1> QED
  BY <1>1, <1>2 DEF GiveUp, Return

\* A text keeps its length when its paths are mapped.
LEMMA MappedType ==
  ASSUME NEW text \in Seq(Symbols)
  PROVE  /\ Mapped(text) \in Seq(Symbols \cup {"rootfs/"}) /\ Len(Mapped(text)) = Len(text)
         /\ \A i \in 1 .. Len(text) :
              Mapped(text)[i] = IF IsPath(text, i) THEN "rootfs/" ELSE text[i]
<1>1. \A i \in 1 .. Len(text) : text[i] \in Symbols
  OBVIOUS
<1>2. DOMAIN text = 1 .. Len(text) /\ Len(text) \in Nat
  OBVIOUS
<1>3. Mapped(text) = [i \in 1 .. Len(text) |-> IF IsPath(text, i) THEN "rootfs/" ELSE text[i]]
  BY <1>2 DEF Mapped
<1>4. \A i \in 1 .. Len(text) :
        (IF IsPath(text, i) THEN "rootfs/" ELSE text[i]) \in Symbols \cup {"rootfs/"}
  BY <1>1
<1>5. Mapped(text) \in [1 .. Len(text) -> Symbols \cup {"rootfs/"}]
  BY <1>3, <1>4
<1> HIDE DEF Mapped
<1> QED
  BY <1>2, <1>3, <1>5

LEMMA TypeInit == Init => TypeOK
<1> SUFFICES ASSUME Init PROVE ControlTypes /\ StreamTypes /\ FlagTypes
  BY Types DEF Typed
<1>1. ControlTypes
  BY DEF Init, ControlTypes, Early
<1>2. StreamTypes
  BY CapAssumption DEF Init, StreamTypes, Empty
<1>3. FlagTypes
  BY DEF Init, FlagTypes
<1> QED
  BY <1>1, <1>2, <1>3

\* A step that leaves the streams alone.
LEMMA QuietType ==
  ASSUME TypeOK, ControlTypes', UNCHANGED <<plan, pos, pipe, line, printed, relay>>
  PROVE  Typed'
<1>1. StreamTypes'
  BY Types DEF Typed, StreamTypes
<1> QED
  BY <1>1 DEF Typed

\* A step that leaves all but the streams alone.
LEMMA StreamType ==
  ASSUME TypeOK, StreamTypes',
         UNCHANGED <<lxc, changes, mode, main, awaited, handler, signals, ret, xit, tool, raw,
                     excuses>>
  PROVE  Typed'
<1>1. ControlTypes'
  BY Types DEF Typed, ControlTypes
<1> QED
  BY <1>1 DEF Typed

LEMMA BootType ==
  ASSUME TypeOK, Load \/ FirstState \/ Await \/ SecondState \/ Start PROVE Typed'
<1>0. ControlTypes
  BY Types DEF Typed
<1>1. CASE Load
  <2>1. CASE GiveUp
    <3>1. excuses' \subseteq excuses \cup {"load"} /\ UNCHANGED <<lxc, changes, awaited>>
      BY <1>1, <2>1 DEF Load
    <3>2. ControlTypes'
      BY <1>0, <2>1, <3>1, GiveUpType DEF ControlTypes
    <3> QED
      BY <2>1, <3>2, GiveUpType, QuietType
  <2>2. CASE ~GiveUp
    <3>1. BootStep("state") /\ UNCHANGED <<excuses, lxc, changes, awaited>>
      BY <1>1, <2>2 DEF Load
    <3> QED
      BY <1>0, <3>1, QuietType DEF ControlTypes, Early
  <2> QED
    BY <2>1, <2>2
<1>2. CASE FirstState
  <2>1. CASE GiveUp
    BY <1>0, <1>2, <2>1, GiveUpType, QuietType DEF FirstState, ControlTypes, Settled
  <2>2. CASE ~GiveUp
    BY <1>0, <1>2, <2>2, QuietType DEF FirstState, ControlTypes, Settled, Early
  <2> QED
    BY <2>1, <2>2
<1>3. CASE Await
  BY <1>0, <1>3, QuietType DEF Await, ControlTypes, Early
<1>4. CASE SecondState
  BY <1>0, <1>4, QuietType DEF SecondState, ControlTypes, Early
<1>5. CASE Start
  <2>1. CASE GiveUp
    <3>1. excuses' \subseteq excuses \cup {"start"} /\ UNCHANGED <<lxc, changes, awaited>>
      BY <1>5, <2>1, GiveUpType DEF Start
    <3>2. ControlTypes'
      BY <1>0, <2>1, <3>1, GiveUpType DEF ControlTypes
    <3> QED
      BY <2>1, <3>2, GiveUpType, QuietType
  <2>2. CASE ~GiveUp
    BY <1>0, <1>5, <2>2, QuietType, ZenonT(60) DEF Start, ControlTypes, States, Early
  <2> QED
    BY <2>1, <2>2
<1> QED
  BY <1>1, <1>2, <1>3, <1>4, <1>5

LEMMA CommandType ==
  ASSUME TypeOK, Prepare \/ Attach \/ Close \/ Finish \/ Collect PROVE Typed'
<1>0. ControlTypes /\ StreamTypes
  BY Types DEF Typed
<1>1. CASE Prepare
  <2>1. CASE GiveUp
    <3>1. excuses' \subseteq excuses \cup {"pipe"} /\ UNCHANGED <<lxc, changes, awaited>>
      BY <1>1, <2>1 DEF Prepare
    <3>2. ControlTypes'
      BY <1>0, <2>1, <3>1, GiveUpType DEF ControlTypes
    <3> QED
      BY <2>1, <3>2, GiveUpType, QuietType
  <2>2. CASE ~GiveUp
    <3>1. ControlTypes'
      BY <1>0, <1>1, <2>2 DEF Prepare, ControlTypes, Early
    <3>2. StreamTypes'
      BY <1>0, <1>1, <2>2 DEF Prepare, StreamTypes
    <3> QED
      BY <3>1, <3>2 DEF Typed
  <2> QED
    BY <2>1, <2>2
<1>2. CASE Attach
  BY <1>0, <1>2, QuietType DEF Attach, ControlTypes
<1>3. CASE Close
  BY <1>0, <1>3, QuietType DEF Close, ControlTypes
<1>4. Status \in Nat
  BY <1>0 DEF Status, ControlTypes
<1>5. CASE Finish
  <2>1. main' = "exited" /\ ret' \in Nat /\ xit' \in -1 .. 255
    BY <1>4, <1>5, ReturnType DEF Finish
  <2> QED
    BY <1>0, <1>5, <2>1, QuietType DEF Finish, ControlTypes
<1>6. CASE Collect
  <2>1. main' = "exited" /\ ret' \in Nat /\ xit' \in -1 .. 255
    BY <1>4, <1>6, ReturnType DEF Collect
  <2>2. ControlTypes'
    BY <1>0, <1>6, <2>1 DEF Collect, ControlTypes
  <2>3. StreamTypes'
    <3>1. pipe' \in [Streams -> Seq(Symbols)] /\ \A s \in Streams : Len(pipe'[s]) <= Cap
      BY <1>6, CapAssumption DEF Collect, Empty
    <3>2. printed' \in [Streams -> Seq(Symbols \cup {"rootfs/"})]
      BY <1>0, <1>6 DEF Collect, StreamTypes
    <3> QED
      BY <1>0, <1>6, <3>1, <3>2 DEF Collect, StreamTypes
  <2> QED
    BY <2>2, <2>3 DEF Typed
<1> QED
  BY <1>1, <1>2, <1>3, <1>5, <1>6

LEMMA RelayType ==
  ASSUME TypeOK, NEW s \in Streams, Relay(s) PROVE Typed'
<1>0. StreamTypes
  BY Types DEF Typed
<1>1. CASE ReadSymbol(s)
  <2> DEFINE text == Append(line[s], Head(pipe[s]))
  <2>1. pipe[s] \in Seq(Symbols) /\ pipe[s] # << >> /\ line[s] \in Seq(Symbols \ {"nl"})
    BY <1>0, <1>1 DEF StreamTypes, ReadSymbol
  <2>2. /\ Head(pipe[s]) \in Symbols /\ Tail(pipe[s]) \in Seq(Symbols)
        /\ Len(Tail(pipe[s])) < Len(pipe[s])
    BY <2>1
  <2>3. text \in Seq(Symbols)
    BY <2>1, <2>2
  <2>4. printed[s] \o Mapped(text) \in Seq(Symbols \cup {"rootfs/"})
    <3>1. Mapped(text) \in Seq(Symbols \cup {"rootfs/"})
      BY <2>3, MappedType
    <3> HIDE DEF text
    <3> QED
      BY <1>0, <3>1 DEF StreamTypes
  <2>5. pipe' = [pipe EXCEPT ![s] = Tail(pipe[s])] /\ UNCHANGED <<plan, pos, relay>>
    BY <1>1 DEF ReadSymbol
  <2>6. pipe' \in [Streams -> Seq(Symbols)] /\ \A r \in Streams : Len(pipe'[r]) <= Cap
    BY <1>0, <2>2, <2>5, CapAssumption DEF StreamTypes
  <2>7. /\ line' \in [Streams -> Seq(Symbols \ {"nl"})]
        /\ printed' \in [Streams -> Seq(Symbols \cup {"rootfs/"})]
    <3>1. CASE Head(pipe[s]) = "nl"
      <4>1. /\ printed' = [printed EXCEPT ![s] = printed[s] \o Mapped(text)]
            /\ line' = [line EXCEPT ![s] = << >>]
        BY <1>1, <3>1 DEF ReadSymbol
      <4>2. << >> \in Seq(Symbols \ {"nl"})
        OBVIOUS
      <4> HIDE DEF text
      <4> QED
        BY <1>0, <2>4, <4>1, <4>2 DEF StreamTypes
    <3>2. CASE Head(pipe[s]) # "nl"
      <4>1. text \in Seq(Symbols \ {"nl"})
        BY <2>1, <2>2, <3>2
      <4>2. printed' = printed /\ line' = [line EXCEPT ![s] = text]
        BY <1>1, <3>2 DEF ReadSymbol
      <4> HIDE DEF text
      <4> QED
        BY <1>0, <4>1, <4>2 DEF StreamTypes
    <3> QED
      BY <3>1, <3>2
  <2> HIDE DEF text
  <2>8. StreamTypes'
    BY <1>0, <2>5, <2>6, <2>7 DEF StreamTypes
  <2> QED
    BY <1>1, <2>8, StreamType DEF ReadSymbol
<1>2. CASE EndOfInput(s)
  <2>1. line[s] \in Seq(Symbols)
    BY <1>0 DEF StreamTypes
  <2>2. printed[s] \o Mapped(line[s]) \in Seq(Symbols \cup {"rootfs/"})
    BY <1>0, <2>1, MappedType DEF StreamTypes
  <2>3. /\ printed' = [printed EXCEPT ![s] = printed[s] \o Mapped(line[s])]
        /\ line' = [line EXCEPT ![s] = << >>] /\ relay' = [relay EXCEPT ![s] = "done"]
        /\ UNCHANGED <<plan, pos, pipe>>
    BY <1>2 DEF EndOfInput
  <2>4. StreamTypes'
    BY <1>0, <2>2, <2>3 DEF StreamTypes
  <2> QED
    BY <1>2, <2>4, StreamType DEF EndOfInput
<1> QED
  BY <1>1, <1>2 DEF Relay

LEMMA ToolType ==
  ASSUME TypeOK, Tool \/ ToolCrashes \/ ChildExits PROVE Typed'
<1>0. ControlTypes /\ StreamTypes
  BY Types DEF Typed
<1>1. CASE Exec
  BY <1>0, <1>1, QuietType DEF Exec, ControlTypes
<1>2. ASSUME NEW s \in Streams, Write(s) PROVE Typed'
  <2>1. CASE main = "killed"
    BY <1>0, <1>2, <2>1, QuietType DEF Write, ControlTypes
  <2>2. CASE main # "killed"
    <3> DEFINE x == plan.writes[s][pos[s]]
    <3>1. x \in Symbols
      BY <1>2, PlanType DEF Write
    <3>2. /\ Len(pipe[s]) < Cap /\ pipe' = [pipe EXCEPT ![s] = Append(pipe[s], x)]
          /\ pos' = [pos EXCEPT ![s] = pos[s] + 1]
          /\ UNCHANGED <<plan, line, printed, relay>>
      BY <1>2, <2>2 DEF Write
    <3>3. StreamTypes'
      <4> HIDE DEF x
      <4> QED
        BY <1>0, <3>1, <3>2, CapAssumption DEF StreamTypes
    <3> QED
      BY <1>2, <2>2, <3>3, StreamType DEF Write
  <2> QED
    BY <2>1, <2>2
<1>3. CASE ToolExits
  <2>1. 256 * plan.code \in Nat
    BY CodeType
  <2> QED
    BY <1>0, <1>3, <2>1, QuietType DEF ToolExits, ControlTypes
<1>4. CASE ToolCrashes
  BY <1>0, <1>4, QuietType DEF ToolCrashes, ControlTypes
<1>5. CASE ChildExits
  BY <1>0, <1>5, QuietType DEF ChildExits, ControlTypes
<1> QED
  BY <1>1, <1>2, <1>3, <1>4, <1>5 DEF Tool

LEMMA OtherType ==
  ASSUME TypeOK, InstallHandler \/ Signal \/ Forward \/ ContainerStep \/ OtherProcess
  PROVE  Typed'
<1>0. ControlTypes
  BY Types DEF Typed
<1>1. CASE InstallHandler
  BY <1>0, <1>1, QuietType DEF InstallHandler, ControlTypes
<1>2. CASE Signal
  BY <1>0, <1>2, QuietType DEF Signal, ControlTypes
<1>3. CASE Forward
  BY <1>0, <1>3, QuietType DEF Forward, ControlTypes
<1>4. CASE ContainerStep
  <2>1. lxc' \in States
    BY <1>4 DEF ContainerStep, Becomes, States
  <2> QED
    BY <1>0, <1>4, <2>1, QuietType DEF ContainerStep, ControlTypes
<1>5. CASE OtherProcess
  BY <1>0, <1>5, QuietType DEF OtherProcess, ControlTypes, States
<1> QED
  BY <1>1, <1>2, <1>3, <1>4, <1>5

LEMMA FlagNext ==
  ASSUME TypeOK, [Next]_vars PROVE FlagTypes'
<1>1. FlagTypes
  BY Types
<1>2. ASSUME GiveUp PROVE UNCHANGED <<child, open>>
  BY <1>2 DEF GiveUp
<1>3. CASE Main
  <2>1. CASE Load \/ FirstState \/ Await \/ SecondState \/ Start
    BY <1>1, <1>2, <2>1 DEF Load, FirstState, Await, SecondState, Start, FlagTypes
  <2>2. CASE Prepare \/ Attach \/ Close \/ Finish \/ Collect
    BY <1>1, <1>2, <2>2 DEF Prepare, Attach, Close, Finish, Collect, FlagTypes
  <2> QED
    BY <1>3, <2>1, <2>2 DEF Main
<1>4. ASSUME NEW s \in Streams, Relay(s) PROVE FlagTypes'
  BY <1>1, <1>4 DEF Relay, ReadSymbol, EndOfInput, FlagTypes
<1>5. CASE Exec \/ (\E s \in Streams : Write(s)) \/ ToolCrashes \/ ChildExits
  BY <1>1, <1>5 DEF Exec, Write, ToolCrashes, ChildExits, FlagTypes
<1>6. CASE ToolExits
  BY <1>1, <1>6, ChildType DEF ToolExits, FlagTypes
<1>7. CASE InstallHandler \/ Signal \/ Forward
  BY <1>1, <1>7 DEF InstallHandler, Signal, Forward, FlagTypes
<1>8. CASE ContainerStep \/ OtherProcess
  BY <1>1, <1>8 DEF ContainerStep, OtherProcess, FlagTypes
<1>9. CASE UNCHANGED vars
  BY <1>1, <1>9 DEF vars, FlagTypes
<1> QED
  BY <1>3, <1>4, <1>5, <1>6, <1>7, <1>8, <1>9 DEF Next, Tool

LEMMA TypeNext == TypeOK /\ [Next]_vars => TypeOK'
<1> SUFFICES ASSUME TypeOK, [Next]_vars PROVE Typed'
  BY FlagNext, TypesNext
<1>1. CASE UNCHANGED vars
  BY <1>1, Types DEF vars, Typed, ControlTypes, StreamTypes
<1> QED
  BY <1>1, BootType, CommandType, RelayType, ToolType, OtherType DEF Next, Main

-----------------------------------------------------------------------------
(* The boot. *)

LEMMA BootQuiet ==
  ASSUME BootInv, UNCHANGED <<excuses, main, lxc, awaited, ret>>, tool # "none" => tool' # "none"
  PROVE  BootInv'
BY DEF BootInv

LEMMA BootNext ==
  ASSUME TypeOK, BootInv, ToolInv, [Next]_vars PROVE BootInv'
<1>0. ControlTypes
  BY Types DEF Typed
<1>1. CASE Load
  <2>1. CASE GiveUp
    <3>1. excuses' # {}
      BY <1>1, <2>1, GiveUpType DEF Load
    <3> QED
      BY <3>1 DEF BootInv
  <2>2. CASE ~GiveUp
    BY <1>1, <2>2 DEF Load, BootInv
  <2> QED
    BY <2>1, <2>2
<1>2. CASE FirstState
  <2>1. CASE lxc \in {"ABORTING", "THAWED", "FREEZING", "FROZEN"}
    BY <1>2, <2>1 DEF FirstState, BootInv
  <2>2. CASE lxc \in {"STOPPED", "STARTING", "RUNNING", "STOPPING"}
    BY <1>2, <2>2 DEF FirstState, BootInv, Settled
  <2> QED
    BY <1>0, <2>1, <2>2 DEF ControlTypes, States
<1>3. CASE Await
  BY <1>3 DEF Await, BootInv
<1>4. CASE SecondState
  BY <1>4 DEF SecondState, BootInv
<1>5. CASE Start
  <2>1. CASE GiveUp
    <3>1. excuses' # {} \/ (excuses' = excuses /\ main = "start" /\ lxc # "STOPPED")
      BY <1>5, <2>1, GiveUpType DEF Start
    <3> QED
      BY <3>1 DEF BootInv
  <2>2. CASE ~GiveUp
    BY <1>5, <2>2 DEF Start, BootInv
  <2> QED
    BY <2>1, <2>2
<1>6. CASE Prepare
  <2>1. CASE GiveUp
    <3>1. excuses' # {}
      BY <1>6, <2>1, GiveUpType DEF Prepare
    <3> QED
      BY <3>1 DEF BootInv
  <2>2. CASE ~GiveUp
    BY <1>6, <2>2 DEF Prepare, BootInv
  <2> QED
    BY <2>1, <2>2
<1>7. CASE Attach
  BY <1>7 DEF Attach, BootInv
<1>8. CASE Close
  BY <1>8 DEF Close, BootInv
<1>9. CASE Finish \/ Collect
  <2>1. /\ main = "drain" /\ main' = "exited" /\ ret' = Status
        /\ UNCHANGED <<excuses, lxc, awaited, tool>>
    BY <1>9 DEF Finish, Collect, Return
  <2>2. tool = "ended" => Status # 1
    BY CodeType DEF Status, ToolInv
  <2>3. tool \notin {"shell", "running"}
    BY <2>1 DEF ToolInv
  <2> QED
    BY <1>0, <2>1, <2>2, <2>3 DEF BootInv, ControlTypes
<1>10. ASSUME NEW s \in Streams, Relay(s) PROVE BootInv'
  BY <1>10, BootQuiet DEF Relay, ReadSymbol, EndOfInput
<1>11. CASE Tool \/ ToolCrashes \/ ChildExits
  BY <1>11, BootQuiet DEF Tool, Exec, Write, ToolExits, ToolCrashes, ChildExits
<1>12. CASE InstallHandler \/ Forward
  BY <1>12, BootQuiet DEF InstallHandler, Forward
<1>13. CASE Signal
  BY <1>13 DEF Signal, BootInv
<1>14. CASE ContainerStep
  BY <1>14 DEF ContainerStep, Becomes, BootInv
<1>15. CASE OtherProcess
  BY <1>15 DEF OtherProcess, BootInv
<1>16. CASE UNCHANGED vars
  BY <1>16, BootQuiet DEF vars
<1> QED
  BY <1>1, <1>2, <1>3, <1>4, <1>5, <1>6, <1>7, <1>8, <1>9, <1>10, <1>11, <1>12, <1>13, <1>14,
     <1>15, <1>16 DEF Next, Main

-----------------------------------------------------------------------------
(* The tool. *)

LEMMA ToolQuiet ==
  ASSUME ToolInv, UNCHANGED <<plan, mode, main, tool, pos, raw, handler, ret, xit>> PROVE ToolInv'
BY DEF ToolInv

LEMMA ToolNext ==
  ASSUME TypeOK, ToolInv, [Next]_vars PROVE ToolInv'
<1>0. ControlTypes
  BY Types DEF Typed
<1>1. ASSUME GiveUp, main \in Early PROVE ToolInv'
  BY <1>1, GiveUpType DEF ToolInv
<1>2. CASE Load \/ FirstState \/ Await \/ SecondState \/ Start
  <2>1. main \in Early
    BY <1>2 DEF Load, FirstState, Await, SecondState, Start, Early
  <2>2. GiveUp \/ \E l \in Early \ {"attach"} : BootStep(l)
    BY <1>2 DEF Load, FirstState, Await, SecondState, Start, Early
  <2>3. ASSUME NEW l \in Early \ {"attach"}, BootStep(l) PROVE ToolInv'
    BY <2>1, <2>3 DEF ToolInv, Early
  <2> QED
    BY <1>1, <2>1, <2>2, <2>3
<1>3. CASE Prepare
  <2>1. CASE GiveUp
    BY <1>1, <1>3, <2>1 DEF Prepare, Early
  <2>2. CASE ~GiveUp
    <3>1. /\ main = "booted" /\ main' = "attach" /\ UNCHANGED <<plan, mode, tool, pos, raw, ret, xit>>
          /\ handler' = IF mode = "wrapper" THEN "install" ELSE "none"
      BY <1>3, <2>2 DEF Prepare
    <3> QED
      BY <3>1 DEF ToolInv, Early
  <2> QED
    BY <2>1, <2>2
<1>4. CASE Attach
  BY <1>4 DEF Attach, ToolInv, Early
<1>5. CASE Close
  BY <1>5 DEF Close, Attached, ToolInv, Early
<1>6. CASE Finish \/ Collect
  <2>1. /\ main = "drain" /\ main' = "exited" /\ ret' = Status
        /\ mode = "wrapper" => xit' = ExitStatus(Status)
        /\ UNCHANGED <<plan, mode, tool, pos, raw, handler>>
    BY <1>6 DEF Finish, Collect, Return
  <2> QED
    BY <2>1 DEF ToolInv, Status, Early
<1>7. ASSUME NEW s \in Streams, Relay(s) PROVE ToolInv'
  BY <1>7, ToolQuiet DEF Relay, ReadSymbol, EndOfInput
<1>8. CASE Exec
  BY <1>8 DEF Exec, ToolInv
<1>9. ASSUME NEW s \in Streams, Write(s) PROVE ToolInv'
  BY <1>9 DEF Write, ToolInv
<1>10. CASE ToolExits \/ ToolCrashes
  BY <1>10 DEF ToolExits, ToolCrashes, ToolInv
<1>11. CASE ChildExits
  BY <1>11, ToolQuiet DEF ChildExits
<1>12. CASE InstallHandler
  BY <1>12 DEF InstallHandler, ToolInv, Ended
<1>13. CASE Signal
  BY <1>0, <1>13 DEF Signal, ToolInv, Ended, ControlTypes, Early
<1>14. CASE Forward
  BY <1>14 DEF Forward, ToolInv, Ended
<1>15. CASE ContainerStep
  BY <1>15 DEF ContainerStep, ToolInv
<1>16. CASE OtherProcess
  BY <1>16, ToolQuiet DEF OtherProcess
<1>17. CASE UNCHANGED vars
  BY <1>17, ToolQuiet DEF vars
<1> QED
  BY <1>2, <1>3, <1>4, <1>5, <1>6, <1>7, <1>8, <1>9, <1>10, <1>11, <1>12, <1>13, <1>14, <1>15,
     <1>16, <1>17 DEF Next, Main, Tool

-----------------------------------------------------------------------------
(* The relays. *)

LEMMA RelayQuiet ==
  ASSUME RelayInv, UNCHANGED <<mode, main, pipe, open, line, printed, relay>> PROVE RelayInv'
BY DEF RelayInv

LEMMA RelayNext ==
  ASSUME TypeOK, ToolInv, RelayInv, [Next]_vars PROVE RelayInv'
<1>0. ControlTypes /\ StreamTypes
  BY Types DEF Typed
<1>1. ASSUME GiveUp, main \in Early PROVE RelayInv'
  <2>1. pipe = Empty /\ line = Empty /\ mode' = mode /\ main' = "exited"
    BY <1>1, GiveUpType DEF RelayInv
  <2>2. UNCHANGED <<pipe, line, printed, relay>>
    BY <1>1, GiveUpType
  <2> QED
    BY <2>1, <2>2 DEF RelayInv, Early
<1>2. CASE Load \/ FirstState \/ Await \/ SecondState \/ Start
  <2>1. main \in Early \ {"attach"}
    BY <1>2 DEF Load, FirstState, Await, SecondState, Start, Early
  <2>2. GiveUp \/ \E l \in Early \ {"attach"} : BootStep(l)
    BY <1>2 DEF Load, FirstState, Await, SecondState, Start, Early
  <2>3. ASSUME NEW l \in Early \ {"attach"}, BootStep(l) PROVE RelayInv'
    BY <2>1, <2>3 DEF RelayInv, Early
  <2> QED
    BY <1>1, <2>1, <2>2, <2>3
<1>3. CASE Prepare
  <2>1. CASE GiveUp
    BY <1>1, <1>3, <2>1 DEF Prepare, Early
  <2>2. CASE ~GiveUp
    <3>1. /\ main = "booted" /\ main' = "attach" /\ open' = TRUE
          /\ UNCHANGED <<mode, pipe, line, printed>>
          /\ relay' = [s \in Streams |-> IF mode = "wrapper" THEN "reading" ELSE "none"]
      BY <1>3, <2>2 DEF Prepare
    <3> QED
      BY <3>1 DEF RelayInv, Early
  <2> QED
    BY <2>1, <2>2
<1>4. CASE Attach
  BY <1>4 DEF Attach, RelayInv, Early
<1>5. CASE Close
  BY <1>5 DEF Close, RelayInv, Early
<1>6. CASE Finish
  <2>1. main' = "exited" /\ UNCHANGED <<mode, pipe, open, line, printed, relay>>
    BY <1>6 DEF Finish, Return
  <2>2. \A s \in Streams : pipe[s] = << >> /\ line[s] = << >>
    BY <1>6 DEF Finish, RelayInv
  <2>3. pipe = Empty /\ line = Empty
    BY <1>0, <2>2 DEF StreamTypes, Empty
  <2> QED
    BY <2>1, <2>3 DEF RelayInv, Early
<1>7. CASE Collect
  <2>1. /\ mode = "output" /\ main' = "exited" /\ pipe' = Empty
        /\ UNCHANGED <<mode, open, line, relay>>
    BY <1>7 DEF Collect, Return
  <2> QED
    BY <2>1 DEF RelayInv, Early, Empty
<1>8. ASSUME NEW s \in Streams, Relay(s) PROVE RelayInv'
  <2>1. CASE ReadSymbol(s)
    <3>1. /\ relay[s] = "reading" /\ pipe[s] # << >> /\ main # "killed" /\ mode # "output"
          /\ UNCHANGED <<mode, main, open, relay>>
      BY <2>1 DEF ReadSymbol, RelayInv
    <3>2. main \notin Early /\ main # "exited"
      BY <3>1 DEF RelayInv, Empty
    <3>3. \A r \in Streams \ {s} : pipe'[r] = pipe[r] /\ line'[r] = line[r]
      BY <1>0, <2>1 DEF ReadSymbol, StreamTypes
    <3> QED
      BY <3>1, <3>2, <3>3 DEF RelayInv
  <2>2. CASE EndOfInput(s)
    <3>1. /\ relay[s] = "reading" /\ pipe[s] = << >> /\ ~open /\ mode # "output"
          /\ UNCHANGED <<mode, main, open, pipe>> /\ relay' = [relay EXCEPT ![s] = "done"]
          /\ line' = [line EXCEPT ![s] = << >>] /\ main # "killed"
      BY <2>2 DEF EndOfInput, WritersGone, RelayInv
    <3>2. main \notin Early \cup {"running"}
      BY <3>1 DEF RelayInv, Early
    <3>3. main = "drain" \/ (main = "exited" /\ line' = Empty)
      BY <1>0, <3>1, <3>2 DEF RelayInv, ControlTypes, Empty
    <3> QED
      BY <1>0, <3>1, <3>2, <3>3 DEF RelayInv, StreamTypes
  <2> QED
    BY <1>8, <2>1, <2>2 DEF Relay
<1>9. ASSUME NEW s \in Streams, Write(s) PROVE RelayInv'
  <2>1. CASE main = "killed"
    BY <1>9, <2>1, RelayQuiet DEF Write
  <2>2. CASE main # "killed"
    <3>1. main = "running"
      BY <1>0, <1>9, <2>2 DEF Write, ToolInv, ControlTypes
    <3>2. UNCHANGED <<mode, main, open, line, printed, relay>>
      BY <1>9 DEF Write
    <3> QED
      BY <3>1, <3>2 DEF RelayInv, Early
  <2> QED
    BY <2>1, <2>2
<1>10. CASE Exec \/ ToolExits \/ ToolCrashes \/ ChildExits
  BY <1>10, RelayQuiet DEF Exec, ToolExits, ToolCrashes, ChildExits
<1>11. CASE InstallHandler \/ Forward
  BY <1>11, RelayQuiet DEF InstallHandler, Forward
<1>12. CASE Signal
  BY <1>12, RelayQuiet DEF Signal, RelayInv, Early
<1>13. CASE ContainerStep \/ OtherProcess
  BY <1>13, RelayQuiet DEF ContainerStep, OtherProcess
<1>14. CASE UNCHANGED vars
  BY <1>14, RelayQuiet DEF vars
<1> QED
  BY <1>2, <1>3, <1>4, <1>5, <1>6, <1>7, <1>8, <1>9, <1>10, <1>11, <1>12, <1>13, <1>14
  DEF Next, Main, Tool

-----------------------------------------------------------------------------
(* What is printed. *)

\* Two sequences of equal length and elements are equal.
LEMMA SameSeq ==
  ASSUME NEW S, NEW a \in Seq(S), NEW b \in Seq(S), Len(a) = Len(b),
         \A i \in 1 .. Len(a) : a[i] = b[i]
  PROVE  a = b
OBVIOUS

LEMMA HeadAndTail ==
  ASSUME NEW S, NEW a \in Seq(S), a # << >>
  PROVE  /\ Len(a) > 0 /\ Head(a) = a[1] /\ Head(a) \in S /\ Tail(a) \in Seq(S)
         /\ Len(Tail(a)) = Len(a) - 1 /\ \A i \in 1 .. Len(a) - 1 : Tail(a)[i] = a[i + 1]
OBVIOUS

LEMMA Appended ==
  ASSUME NEW S, NEW a \in Seq(S), NEW x \in S
  PROVE  /\ Append(a, x) \in Seq(S) /\ Len(Append(a, x)) = Len(a) + 1
         /\ \A i \in 1 .. Len(a) + 1 : Append(a, x)[i] = IF i <= Len(a) THEN a[i] ELSE x
OBVIOUS

LEMMA Part ==
  ASSUME NEW S, NEW a \in Seq(S), NEW n \in Nat, NEW m \in Nat, n <= m, m <= Len(a)
  PROVE  /\ SubSeq(a, n + 1, m) \in Seq(S) /\ Len(SubSeq(a, n + 1, m)) = m - n
         /\ \A i \in 1 .. m - n : SubSeq(a, n + 1, m)[i] = a[n + i]
OBVIOUS

LEMMA Beginning ==
  ASSUME NEW S, NEW a \in Seq(S), NEW m \in Nat, m <= Len(a)
  PROVE  /\ SubSeq(a, 1, m) \in Seq(S) /\ Len(SubSeq(a, 1, m)) = m
         /\ \A i \in 1 .. m : SubSeq(a, 1, m)[i] = a[i]
OBVIOUS

\* A text that is cut behind an end of line is mapped part by part.
LEMMA MappedInParts ==
  ASSUME NEW w \in Seq(Symbols), NEW n \in Nat, NEW m \in Nat, n <= m, m <= Len(w),
         n = 0 \/ w[n] = "nl"
  PROVE  Mapped(SubSeq(w, 1, m)) = Mapped(SubSeq(w, 1, n)) \o Mapped(SubSeq(w, n + 1, m))
<1> DEFINE all == SubSeq(w, 1, m)  first == SubSeq(w, 1, n)  rest == SubSeq(w, n + 1, m)
<1>1. /\ all \in Seq(Symbols) /\ Len(all) = m /\ \A i \in 1 .. m : all[i] = w[i]
      /\ first \in Seq(Symbols) /\ Len(first) = n /\ \A i \in 1 .. n : first[i] = w[i]
      /\ rest \in Seq(Symbols) /\ Len(rest) = m - n /\ \A i \in 1 .. m - n : rest[i] = w[n + i]
  OBVIOUS
<1> HIDE DEF all, first, rest
<1>2. ASSUME NEW i \in 1 .. n PROVE IsPath(all, i) <=> IsPath(first, i)
  <2>1. CASE i = n
    BY <1>1, <2>1 DEF IsPath
  <2>2. CASE i # n
    <3>1. /\ i < n /\ i < m /\ i \in 1 .. m /\ i + 1 \in 1 .. n /\ i + 1 \in 1 .. m
          /\ i # 1 => i - 1 \in 1 .. n /\ i - 1 \in 1 .. m
      BY <2>2
    <3>2. \A j \in 1 .. n : j \in 1 .. m => all[j] = first[j]
      BY <1>1
    <3> QED
      BY <1>1, <3>1, <3>2 DEF IsPath
  <2> QED
    BY <2>1, <2>2
<1>3. ASSUME NEW i \in 1 .. m - n PROVE IsPath(all, n + i) <=> IsPath(rest, i)
  <2>1. /\ all[n + i] = rest[i]
        /\ n + i < Len(all) <=> i < Len(rest)
        /\ i < Len(rest) => all[n + i + 1] = rest[i + 1]
    <3>1. n + i \in 1 .. m /\ n + i + 1 = n + (i + 1)
      OBVIOUS
    <3>2. i < Len(rest) => i + 1 \in 1 .. m - n /\ n + (i + 1) \in 1 .. m
      BY <1>1
    <3>3. n + i < Len(all) <=> i < Len(rest)
      BY <1>1
    <3>4. all[n + i] = rest[i]
      <4>1. all[n + i] = w[n + i]
        BY <1>1, <3>1
      <4> QED
        BY <1>1, <4>1
    <3>5. ASSUME i < Len(rest) PROVE all[n + (i + 1)] = rest[i + 1]
      BY <1>1, <3>2, <3>5
    <3> QED
      BY <3>1, <3>3, <3>4, <3>5
  <2>2. CASE i = 1
    <3>1. n + i = 1 \/ all[n + i - 1] = "nl"
      BY <1>1, <2>2
    <3> QED
      BY <2>1, <2>2, <3>1 DEF IsPath
  <2>3. CASE i # 1
    <3>1. i - 1 \in 1 .. m - n /\ n + i - 1 = n + (i - 1) /\ n + (i - 1) \in 1 .. m /\ n + i # 1
      BY <2>3
    <3>2. all[n + i - 1] = rest[i - 1]
      BY <1>1, <3>1
    <3> QED
      BY <2>1, <2>3, <3>1, <3>2 DEF IsPath
  <2> QED
    BY <2>2, <2>3
<1> DEFINE Out == Symbols \cup {"rootfs/"}
           a == Mapped(all)  b == Mapped(first)  c == Mapped(rest)
<1>4. /\ a \in Seq(Out) /\ Len(a) = m
      /\ \A i \in 1 .. m : a[i] = IF IsPath(all, i) THEN "rootfs/" ELSE w[i]
  BY <1>1, MappedType
<1>5. /\ b \in Seq(Out) /\ Len(b) = n
      /\ \A i \in 1 .. n : b[i] = IF IsPath(first, i) THEN "rootfs/" ELSE w[i]
  BY <1>1, MappedType
<1>6. /\ c \in Seq(Out) /\ Len(c) = m - n
      /\ \A i \in 1 .. m - n : c[i] = IF IsPath(rest, i) THEN "rootfs/" ELSE w[n + i]
  <2>1. /\ c \in Seq(Out) /\ Len(c) = Len(rest)
        /\ \A i \in 1 .. Len(rest) : c[i] = IF IsPath(rest, i) THEN "rootfs/" ELSE rest[i]
    BY <1>1, MappedType
  <2> HIDE DEF c, Out
  <2> QED
    BY <1>1, <2>1
<1> HIDE DEF a, b, c, Out
<1>7. b \o c \in Seq(Out) /\ Len(b \o c) = m
  BY <1>5, <1>6
<1>8. ASSUME NEW i \in 1 .. m PROVE a[i] = (b \o c)[i]
  <2>0. i <= n \/ i > n
    OBVIOUS
  <2>1. CASE i <= n
    BY <1>2, <1>4, <1>5, <1>6, <2>1
  <2>2. CASE i > n
    <3>1. i - n \in 1 .. m - n /\ n + (i - n) = i
      BY <2>2
    <3>2. a[i] = c[i - n]
      BY <1>3, <1>4, <1>6, <3>1
    <3> QED
      BY <1>5, <1>6, <2>2, <3>1, <3>2
  <2> QED
    BY <2>0, <2>1, <2>2
<1>9. a = b \o c
  BY <1>4, <1>7, <1>8, SameSeq
<1> QED
  BY <1>9 DEF a, b, c, all, first, rest

\* A step that leaves what is written, in the pipe, in the line and printed.
LEMMA StreamQuiet ==
  ASSUME NEW s \in Streams, StreamInv(s),
         UNCHANGED <<plan, mode, pos[s], pipe[s], line[s], printed[s]>>,
         relay[s] = "done" => relay'[s] = "done"
  PROVE  StreamInv(s)'
BY DEF StreamInv

\* The parts of the invariant, with the lengths named.
LEMMA StreamParts ==
  ASSUME TypeOK, NEW s \in Streams
  PROVE  /\ plan.writes[s] \in Seq(Symbols) /\ pos[s] \in Nat
         /\ pipe[s] \in Seq(Symbols) /\ line[s] \in Seq(Symbols)
         /\ printed[s] \in Seq(Symbols \cup {"rootfs/"}) /\ relay[s] \in {"none", "reading", "done"}
<1>1. StreamTypes
  BY Types DEF Typed
<1>2. line[s] \in Seq(Symbols \ {"nl"})
  BY <1>1 DEF StreamTypes
<1>3. line[s] \in Seq(Symbols)
  BY <1>2
<1> QED
  BY <1>1, <1>3, PlanType DEF StreamTypes

\* The tool writes the next symbol.
LEMMA WriteStream ==
  ASSUME TypeOK, NEW s \in Streams, StreamInv(s), Write(s), main # "killed" PROVE StreamInv(s)'
<1> DEFINE w == plan.writes[s]  p == pipe[s]  n == Len(printed[s])  l == Len(line[s])
<1>1. /\ w \in Seq(Symbols) /\ p \in Seq(Symbols) /\ pos[s] \in Nat /\ n \in Nat /\ l \in Nat
      /\ pos[s] \in 1 .. Len(w) /\ w[pos[s]] \in Symbols
  BY StreamParts DEF Write
<1>2. /\ pos'[s] = pos[s] + 1 /\ pipe'[s] = Append(p, w[pos[s]])
      /\ UNCHANGED <<plan, mode, line, printed, relay>>
  BY Types DEF Write, Typed, StreamTypes
<1>3. /\ pos[s] = n + l + Len(p) + 1
      /\ \A i \in 1 .. Len(p) : p[i] = w[n + l + i]
  BY DEF StreamInv
<1>4. Len(pipe'[s]) = Len(p) + 1 /\ \A i \in 1 .. Len(p) + 1 : pipe'[s][i] = w[n + l + i]
  <2> HIDE DEF w, p, n, l
  <2>1. /\ Len(pipe'[s]) = Len(p) + 1
        /\ \A i \in 1 .. Len(p) + 1 : pipe'[s][i] = IF i <= Len(p) THEN p[i] ELSE w[pos[s]]
    BY <1>1, <1>2, Appended
  <2>2. Len(p) \in Nat /\ n + l + (Len(p) + 1) = pos[s]
    BY <1>1, <1>3
  <2>3. ASSUME NEW i \in 1 .. Len(p) + 1 PROVE pipe'[s][i] = w[n + l + i]
    <3>1. CASE i <= Len(p)
      <4>1. i \in 1 .. Len(p)
        BY <2>2, <3>1
      <4> QED
        BY <1>3, <2>1, <3>1, <4>1
    <3>2. CASE ~(i <= Len(p))
      <4>1. i = Len(p) + 1
        BY <2>2, <3>2
      <4> QED
        BY <2>1, <2>2, <3>2, <4>1
    <3> QED
      BY <3>1, <3>2
  <2> QED
    BY <2>1, <2>3
<1>5. pos'[s] = n + l + Len(pipe'[s]) + 1 /\ pos'[s] <= Len(w) + 1
  <2> HIDE DEF w, p, n, l
  <2> QED
    BY <1>1, <1>2, <1>3, <1>4
<1> QED
  BY <1>2, <1>4, <1>5 DEF StreamInv

\* A symbol goes from the pipe to the line, or the line to what is printed.
LEMMA ReadStream ==
  ASSUME TypeOK, RelayInv, NEW s \in Streams, StreamInv(s), ReadSymbol(s) PROVE StreamInv(s)'
<1> DEFINE w == plan.writes[s]  p == pipe[s]  n == Len(printed[s])  l == Len(line[s])
           text == Append(line[s], Head(p))
<1>1. /\ w \in Seq(Symbols) /\ p \in Seq(Symbols) /\ pos[s] \in Nat /\ n \in Nat /\ l \in Nat
      /\ line[s] \in Seq(Symbols) /\ p # << >> /\ Len(p) \in Nat
  BY StreamParts DEF ReadSymbol
<1>2. /\ pipe'[s] = Tail(p) /\ UNCHANGED <<plan, mode, pos, relay>>
      /\ IF Head(p) = "nl" THEN printed'[s] = printed[s] \o Mapped(text) /\ line'[s] = << >>
         ELSE printed'[s] = printed[s] /\ line'[s] = text
  BY Types DEF ReadSymbol, Typed, StreamTypes
<1>3. /\ pos[s] = n + l + Len(p) + 1 /\ pos[s] <= Len(w) + 1
      /\ \A i \in 1 .. l : line[s][i] = w[n + i]
      /\ \A i \in 1 .. Len(p) : p[i] = w[n + l + i]
      /\ mode = "wrapper" => printed[s] = Mapped(SubSeq(w, 1, n)) /\ (n = 0 \/ w[n] = "nl")
      /\ mode = "wrapper"
  <2>1. relay[s] = "reading"
    BY DEF ReadSymbol
  <2>2. mode \in {"wrapper", "output"}
    BY ModeAssumption DEF TypeOK
  <2>3. mode = "wrapper"
    BY <2>1, <2>2 DEF RelayInv
  <2> QED
    BY <2>1, <2>3 DEF StreamInv
<1>4. /\ Len(p) > 0 /\ Head(p) = w[n + l + 1] /\ Head(p) \in Symbols
      /\ Len(Tail(p)) = Len(p) - 1 /\ \A i \in 1 .. Len(p) - 1 : Tail(p)[i] = w[n + l + 1 + i]
  <2>1. /\ Len(p) > 0 /\ Head(p) = p[1] /\ Head(p) \in Symbols /\ Len(Tail(p)) = Len(p) - 1
        /\ \A i \in 1 .. Len(p) - 1 : Tail(p)[i] = p[i + 1]
    <3> HIDE DEF p
    <3> QED
      BY <1>1, HeadAndTail
  <2>2. \A i \in 1 .. Len(p) - 1 : i + 1 \in 1 .. Len(p) /\ n + l + (i + 1) = n + l + 1 + i
    <3> HIDE DEF w, p, n, l
    <3> QED
      BY <1>1
  <2>3. 1 \in 1 .. Len(p)
    <3> HIDE DEF w, p, n, l
    <3> QED
      BY <1>1, <2>1
  <2> HIDE DEF w, p, n, l
  <2> QED
    BY <1>3, <2>1, <2>2, <2>3
<1>5. text \in Seq(Symbols) /\ Len(text) = l + 1 /\ \A i \in 1 .. l + 1 : text[i] = w[n + i]
  <2>1. /\ text \in Seq(Symbols) /\ Len(text) = l + 1
        /\ \A i \in 1 .. l + 1 : text[i] = IF i <= l THEN line[s][i] ELSE Head(p)
    <3> HIDE DEF p
    <3> QED
      BY <1>1, <1>4, Appended
  <2>2. \A i \in 1 .. l + 1 : IF i <= l THEN i \in 1 .. l ELSE i = l + 1
    <3> HIDE DEF w, p, n, l, text
    <3> QED
      BY <1>1
  <2>3. n + (l + 1) = n + l + 1
    <3> HIDE DEF w, p, n, l, text
    <3> QED
      BY <1>1
  <2> HIDE DEF w, p, n, l, text
  <2> QED
    BY <1>3, <1>4, <2>1, <2>2, <2>3
<1> HIDE DEF w, p, n, l, text
<1>6. CASE Head(p) # "nl"
  <2>1. Len(line'[s]) = l + 1 /\ Len(printed'[s]) = n /\ Len(pipe'[s]) = Len(p) - 1
    BY <1>2, <1>4, <1>5, <1>6 DEF n
  <2>2. pos'[s] = n + (l + 1) + (Len(p) - 1) + 1 /\ pos'[s] <= Len(w) + 1
    BY <1>1, <1>2, <1>3
  <2>3. \A i \in 1 .. l + 1 : line'[s][i] = w[n + i]
    BY <1>2, <1>5, <1>6
  <2>4. \A i \in 1 .. Len(p) - 1 : pipe'[s][i] = w[n + (l + 1) + i]
    <3>1. n + l + 1 = n + (l + 1)
      BY <1>1
    <3> QED
      BY <1>2, <1>4, <3>1
  <2> QED
    BY <1>2, <1>3, <1>6, <2>1, <2>2, <2>3, <2>4 DEF StreamInv, w
<1>7. CASE Head(p) = "nl"
  <2> DEFINE m == n + l + 1
  <2>1. m \in Nat /\ n <= m /\ m <= Len(w)
    BY <1>1, <1>3, <1>4
  <2>2. text = SubSeq(w, n + 1, m)
    <3>1. /\ SubSeq(w, n + 1, m) \in Seq(Symbols) /\ Len(SubSeq(w, n + 1, m)) = l + 1
          /\ \A i \in 1 .. l + 1 : SubSeq(w, n + 1, m)[i] = w[n + i]
      BY <1>1, <2>1, Part
    <3>2. \A i \in 1 .. l + 1 : text[i] = SubSeq(w, n + 1, m)[i]
      BY <1>5, <3>1
    <3> HIDE DEF m
    <3> QED
      BY <1>5, <3>1, <3>2, SameSeq
  <2>3. printed'[s] = Mapped(SubSeq(w, 1, m))
    <3> HIDE DEF m
    <3>1. Mapped(SubSeq(w, 1, m)) = Mapped(SubSeq(w, 1, n)) \o Mapped(SubSeq(w, n + 1, m))
      BY <1>1, <1>3, <2>1, MappedInParts
    <3> QED
      BY <1>2, <1>3, <1>7, <2>2, <3>1
  <2>4. Len(printed'[s]) = m
    <3>1. SubSeq(w, 1, m) \in Seq(Symbols) /\ Len(SubSeq(w, 1, m)) = m
      BY <1>1, <2>1
    <3> HIDE DEF m
    <3> QED
      BY <2>3, <3>1, MappedType
  <2>5. line'[s] = << >> /\ Len(line'[s]) = 0 /\ Len(pipe'[s]) = Len(p) - 1
    BY <1>2, <1>4, <1>7
  <2>6. pos'[s] = m + 0 + (Len(p) - 1) + 1 /\ pos'[s] <= Len(w) + 1
    BY <1>1, <1>2, <1>3
  <2>7. \A i \in 1 .. Len(p) - 1 : pipe'[s][i] = w[m + 0 + i]
    <3>1. m + 0 = m
      BY <1>1
    <3> QED
      BY <1>2, <1>4, <3>1
  <2>8. w[m] = "nl"
    BY <1>4, <1>7
  <2>9. plan'.writes[s] = w /\ mode' = "wrapper"
    BY <1>2, <1>3 DEF w
  <2> HIDE DEF m
  <2>10. \A i \in 1 .. 0 : line'[s][i] = w[m + i]
    OBVIOUS
  <2> QED
    BY <2>3, <2>4, <2>5, <2>6, <2>7, <2>8, <2>9, <2>10 DEF StreamInv
<1> QED
  BY <1>6, <1>7

\* At the end of the input the rest of the line is printed.
LEMMA EndStream ==
  ASSUME TypeOK, RelayInv, NEW s \in Streams, StreamInv(s), EndOfInput(s) PROVE StreamInv(s)'
<1> DEFINE w == plan.writes[s]  n == Len(printed[s])  l == Len(line[s])  m == n + l
<1>1. /\ w \in Seq(Symbols) /\ pos[s] \in Nat /\ n \in Nat /\ l \in Nat /\ m \in Nat
      /\ line[s] \in Seq(Symbols) /\ Len(w) \in Nat
  <2>1. w \in Seq(Symbols) /\ pos[s] \in Nat /\ n \in Nat /\ l \in Nat /\ line[s] \in Seq(Symbols)
    BY StreamParts
  <2> HIDE DEF w, n, l
  <2> QED
    BY <2>1
<1>2. /\ pipe[s] = << >> /\ Len(pipe[s]) = 0 /\ line'[s] = << >> /\ relay'[s] = "done"
      /\ printed'[s] = printed[s] \o Mapped(line[s]) /\ UNCHANGED <<plan, mode, pos, pipe>>
  BY Types DEF EndOfInput, Typed, StreamTypes
<1>3. /\ pos[s] = n + l + Len(pipe[s]) + 1 /\ pos[s] <= Len(w) + 1
      /\ \A i \in 1 .. l : line[s][i] = w[n + i]
      /\ mode = "wrapper" => printed[s] = Mapped(SubSeq(w, 1, n)) /\ (n = 0 \/ w[n] = "nl")
      /\ mode = "wrapper"
  <2>1. relay[s] = "reading"
    BY DEF EndOfInput
  <2>2. mode \in {"wrapper", "output"}
    BY ModeAssumption DEF TypeOK
  <2>3. mode = "wrapper"
    BY <2>1, <2>2 DEF RelayInv
  <2> QED
    BY <2>1, <2>3 DEF StreamInv
<1> HIDE DEF w, n, l
<1>4. n <= m /\ m <= Len(w) /\ pos[s] = m + 0 + 0 + 1
  BY <1>1, <1>2, <1>3
<1>5. line[s] = SubSeq(w, n + 1, m)
  <2>1. /\ SubSeq(w, n + 1, m) \in Seq(Symbols) /\ Len(SubSeq(w, n + 1, m)) = l
        /\ \A i \in 1 .. l : SubSeq(w, n + 1, m)[i] = w[n + i]
    BY <1>1, <1>4, Part
  <2>2. Len(line[s]) = l
    BY DEF l
  <2>3. \A i \in 1 .. l : line[s][i] = SubSeq(w, n + 1, m)[i]
    BY <1>3, <2>1
  <2> HIDE DEF m
  <2> QED
    BY <1>1, <2>1, <2>2, <2>3, SameSeq
<1>6. printed'[s] = Mapped(SubSeq(w, 1, m))
  <2> HIDE DEF m
  <2>1. Mapped(SubSeq(w, 1, m)) = Mapped(SubSeq(w, 1, n)) \o Mapped(SubSeq(w, n + 1, m))
    BY <1>1, <1>3, <1>4, MappedInParts
  <2> QED
    BY <1>2, <1>3, <1>5, <2>1
<1>7. Len(printed'[s]) = m
  <2>1. SubSeq(w, 1, m) \in Seq(Symbols) /\ Len(SubSeq(w, 1, m)) = m
    BY <1>1, <1>4
  <2> HIDE DEF m
  <2> QED
    BY <1>6, <2>1, MappedType
<1>8. Len(line'[s]) = 0 /\ Len(pipe'[s]) = 0
  BY <1>2
<1> HIDE DEF m
<1>9. plan'.writes[s] = w /\ mode' = "wrapper"
  BY <1>2, <1>3 DEF w
<1>10. \A i \in 1 .. 0 : line'[s][i] = w[m + i] /\ pipe'[s][i] = w[m + 0 + i]
  OBVIOUS
<1>11. pos'[s] = m + 0 + 0 + 1 /\ pos'[s] <= Len(w) + 1
  BY <1>2, <1>3, <1>4
<1> QED
  BY <1>2, <1>6, <1>7, <1>8, <1>9, <1>10, <1>11 DEF StreamInv

\* The pipes are read at the end.
LEMMA CollectStream ==
  ASSUME TypeOK, RelayInv, NEW s \in Streams, StreamInv(s), Collect PROVE StreamInv(s)'
<1> DEFINE w == plan.writes[s]  p == pipe[s]
<1>1. w \in Seq(Symbols) /\ p \in Seq(Symbols) /\ pos[s] \in Nat /\ Len(p) \in Nat /\ Len(w) \in Nat
  BY StreamParts
<1>2. /\ mode = "output" /\ line[s] = << >> /\ Len(line[s]) = 0 /\ Len(printed[s]) = 0
      /\ printed'[s] = p /\ pipe'[s] = << >> /\ Len(pipe'[s]) = 0
      /\ UNCHANGED <<plan, mode, pos, line>>
  <2>1. main = "drain" /\ mode = "output"
    BY DEF Collect
  <2>2. line = Empty /\ printed = Empty
    BY <2>1 DEF RelayInv
  <2> QED
    BY <2>1, <2>2 DEF Collect, Empty
<1>3. /\ pos[s] = 0 + 0 + Len(p) + 1 /\ pos[s] <= Len(w) + 1
      /\ \A i \in 1 .. Len(p) : p[i] = w[0 + 0 + i]
  BY <1>2 DEF StreamInv
<1> HIDE DEF w, p
<1>4. p = SubSeq(w, 1, Len(p))
  <2>1. /\ SubSeq(w, 1, Len(p)) \in Seq(Symbols) /\ Len(SubSeq(w, 1, Len(p))) = Len(p)
        /\ \A i \in 1 .. Len(p) : SubSeq(w, 1, Len(p))[i] = w[i]
    BY <1>1, <1>3
  <2>2. \A i \in 1 .. Len(p) : p[i] = w[i]
    BY <1>3
  <2> QED
    BY <1>1, <2>1, <2>2, SameSeq
<1>5. pos'[s] = Len(p) + 0 + 0 + 1
  BY <1>1, <1>2, <1>3
<1> QED
  BY <1>2, <1>3, <1>4, <1>5 DEF StreamInv, w

\* All streams, up to the end of the process by a signal.
StreamsInv == main # "killed" => \A s \in Streams : StreamInv(s)

\* A step that leaves all of the streams alone.
LEMMA StreamsQuiet ==
  ASSUME StreamsInv, main = "killed" => main' = "killed",
         UNCHANGED <<plan, mode, pos, pipe, line, printed>>,
         \A s \in Streams : relay[s] = "done" => relay'[s] = "done"
  PROVE  StreamsInv'
BY StreamQuiet DEF StreamsInv

\* A step on one stream.
LEMMA OneStream ==
  ASSUME StreamsInv, NEW s \in Streams, main' = main, StreamInv(s)',
         \A r \in Streams \ {s} :
           /\ UNCHANGED <<plan, mode, pos[r], pipe[r], line[r], printed[r]>>
           /\ relay[r] = "done" => relay'[r] = "done"
  PROVE  StreamsInv'
BY StreamQuiet DEF StreamsInv

LEMMA StreamsNext ==
  ASSUME TypeOK, RelayInv, StreamsInv, [Next]_vars PROVE StreamsInv'
<1>0. StreamTypes
  BY Types DEF Typed
<1>1. ASSUME GiveUp, main # "killed" PROVE StreamsInv'
  BY <1>1, StreamsQuiet DEF GiveUp, Return
<1>2. CASE Load \/ FirstState \/ Await \/ SecondState \/ Start
  <2>1. main # "killed" /\ (GiveUp \/ \E l \in Early : BootStep(l))
    BY <1>2 DEF Load, FirstState, Await, SecondState, Start, Early
  <2>2. ASSUME NEW l \in Early, BootStep(l) PROVE StreamsInv'
    BY <2>1, <2>2, StreamsQuiet DEF Early
  <2> QED
    BY <1>1, <2>1, <2>2
<1>3. CASE Prepare
  <2>1. CASE GiveUp
    BY <1>1, <1>3, <2>1 DEF Prepare
  <2>2. CASE ~GiveUp
    <3>1. main = "booted" /\ UNCHANGED <<plan, mode, pos, pipe, line, printed>>
      BY <1>3, <2>2 DEF Prepare
    <3>2. \A s \in Streams : relay[s] # "done"
      BY <3>1 DEF RelayInv
    <3> QED
      BY <3>1, <3>2, StreamsQuiet
  <2> QED
    BY <2>1, <2>2
<1>4. CASE Attach \/ Close \/ Finish
  BY <1>4, StreamsQuiet DEF Attach, Close, Finish, Return
<1>5. CASE Collect
  BY <1>5, CollectStream DEF Collect, Return, StreamsInv
<1>6. ASSUME NEW s \in Streams, Relay(s) PROVE StreamsInv'
  <2>1. CASE ReadSymbol(s)
    <3>1. StreamInv(s)'
      BY <2>1, ReadStream DEF ReadSymbol, StreamsInv
    <3>2. \A r \in Streams \ {s} :
            UNCHANGED <<plan, mode, pos[r], pipe[r], line[r], printed[r], relay>>
      BY <1>0, <2>1 DEF ReadSymbol, StreamTypes
    <3> QED
      BY <2>1, <3>1, <3>2, OneStream DEF ReadSymbol
  <2>2. CASE EndOfInput(s)
    <3>1. StreamInv(s)'
      BY <2>2, EndStream DEF EndOfInput, StreamsInv
    <3>2. \A r \in Streams \ {s} :
            UNCHANGED <<plan, mode, pos[r], pipe[r], line[r], printed[r], relay[r]>>
      BY <1>0, <2>2 DEF EndOfInput, StreamTypes
    <3> QED
      BY <2>2, <3>1, <3>2, OneStream DEF EndOfInput
  <2> QED
    BY <1>6, <2>1, <2>2 DEF Relay
<1>7. ASSUME NEW s \in Streams, Write(s) PROVE StreamsInv'
  <2>1. CASE main = "killed"
    BY <1>7, <2>1, StreamsQuiet DEF Write
  <2>2. CASE main # "killed"
    <3>1. StreamInv(s)'
      BY <1>7, <2>2, WriteStream DEF StreamsInv
    <3>2. \A r \in Streams \ {s} :
            UNCHANGED <<plan, mode, pos[r], pipe[r], line[r], printed[r], relay>>
      BY <1>0, <1>7, <2>2 DEF Write, StreamTypes
    <3> QED
      BY <1>7, <3>1, <3>2, OneStream DEF Write
  <2> QED
    BY <2>1, <2>2
<1>8. CASE Exec \/ ToolExits \/ ToolCrashes \/ ChildExits
  BY <1>8, StreamsQuiet DEF Exec, ToolExits, ToolCrashes, ChildExits
<1>9. CASE InstallHandler \/ Signal \/ Forward
  BY <1>9, StreamsQuiet DEF InstallHandler, Signal, Forward, Ended
<1>10. CASE ContainerStep \/ OtherProcess
  BY <1>10, StreamsQuiet DEF ContainerStep, OtherProcess
<1>11. CASE UNCHANGED vars
  BY <1>11, StreamsQuiet DEF vars
<1> QED
  BY <1>2, <1>3, <1>4, <1>5, <1>6, <1>7, <1>8, <1>9, <1>10, <1>11 DEF Next, Main, Tool

-----------------------------------------------------------------------------
(* The inductive invariant, and what it says of a command.                  *)

LEMMA StreamsInit == Init => StreamsInv
<1> SUFFICES ASSUME Init, NEW s \in Streams PROVE StreamInv(s)
  BY DEF StreamsInv
<1> DEFINE w == plan.writes[s]
<1>1. w \in Seq(Symbols)
  BY TypeInit, PlanType
<1>2. /\ pos[s] = 1 /\ pipe[s] = << >> /\ line[s] = << >> /\ printed[s] = << >>
      /\ Len(pipe[s]) = 0 /\ Len(line[s]) = 0 /\ Len(printed[s]) = 0
  BY DEF Init, Empty
<1> HIDE DEF w
<1>3. SubSeq(w, 1, 0) = << >> /\ Len(w) \in Nat
  BY <1>1
<1>4. Mapped(<< >>) = << >>
  BY DEF Mapped
<1>5. \A i \in 1 .. 0 : line[s][i] = w[0 + i] /\ pipe[s][i] = w[0 + 0 + i]
  OBVIOUS
<1>6. pos[s] = 0 + 0 + 0 + 1 /\ pos[s] <= Len(w) + 1
  BY <1>2, <1>3
<1> QED
  BY <1>2, <1>3, <1>4, <1>5, <1>6 DEF StreamInv, w

LEMMA InvInit == Init => InductiveInv
<1>1. Init => BootInv
  BY DEF Init, BootInv
<1>2. Init => ToolInv
  BY DEF Init, ToolInv
<1>3. Init => RelayInv
  BY DEF Init, RelayInv
<1> QED
  BY TypeInit, <1>1, <1>2, <1>3, StreamsInit DEF InductiveInv, StreamsInv

LEMMA InvNext == InductiveInv /\ [Next]_vars => InductiveInv'
BY TypeNext, BootNext, ToolNext, RelayNext, StreamsNext DEF InductiveInv, StreamsInv

\* Between any two steps: the container is in a state that the boot can go on
\* from, and every symbol that the tool wrote is in the pipe, in the line of
\* the relay or printed, in this order.
THEOREM InductiveInvTheorem == Spec => []InductiveInv
BY InvInit, InvNext, PTL DEF Spec

\* A boot that has no excuse for a failure has left the container running, and
\* a command after it does not return 1, as a failure would.
THEOREM BootSucceedsTheorem == Spec => []BootSucceeds
<1>1. InductiveInv => BootSucceeds
  BY DEF InductiveInv, BootInv, BootSucceeds
<1> QED
  BY <1>1, InductiveInvTheorem, PTL

\* At the exit all that the tool wrote is printed, whatever its lines and
\* wherever the reads cut them.
THEOREM AllRelayedTheorem == Spec => []AllRelayed
<1>1. ASSUME InductiveInv, main = "exited", NEW s \in Streams
      PROVE  printed[s] = IF mode = "wrapper" THEN Mapped(Written(s)) ELSE Written(s)
  <2> DEFINE n == Len(printed[s])
  <2>1. Len(pipe[s]) = 0 /\ Len(line[s]) = 0
    BY <1>1 DEF InductiveInv, RelayInv, Empty
  <2>2. n \in Nat
    BY <1>1, StreamParts DEF InductiveInv
  <2>3. pos[s] = n + 0 + 0 + 1
    BY <1>1, <2>1 DEF InductiveInv, StreamInv
  <2> HIDE DEF n
  <2>4. pos[s] - 1 = n
    BY <2>2, <2>3
  <2> QED
    BY <1>1, <2>4 DEF InductiveInv, StreamInv, Written, n
<1>2. InductiveInv => AllRelayed
  BY <1>1 DEF AllRelayed
<1> QED
  BY <1>2, InductiveInvTheorem, PTL

\* No tool is left behind by a process that has ended, but by a wrapper that
\* got a signal before its handler was there.
THEOREM NoOrphanTheorem == Spec => []NoOrphan
<1>1. InductiveInv => NoOrphan
  <2> SUFFICES ASSUME InductiveInv, Ended, tool \in {"shell", "running"}
               PROVE  main = "killed" /\ handler = "install"
    BY DEF NoOrphan
  <2>1. main = "killed"
    BY DEF InductiveInv, ToolInv, Ended
  <2> QED
    BY <2>1 DEF InductiveInv, ToolInv
<1> QED
  BY <1>1, InductiveInvTheorem, PTL

\* The status of the tool is that of the command, for every exit code.
THEOREM StatusTheorem == Spec => []StatusIsTheTools
<1>1. InductiveInv => StatusIsTheTools
  <2> SUFFICES ASSUME InductiveInv, main = "exited", tool = "ended", WIFEXITED(raw)
               PROVE  IF mode = "wrapper" THEN xit = plan.code ELSE (ret = 0) = (plan.code = 0)
    BY DEF StatusIsTheTools
  <2>1. plan.code \in 0 .. 255
    BY CodeType DEF InductiveInv
  <2>2. raw \in {9, 11, 13, 15, 256 * plan.code}
    BY DEF InductiveInv, ToolInv
  <2>3. raw = 256 * plan.code
    BY <2>2 DEF WIFEXITED
  <2>4. ExitStatus(raw) = plan.code
    BY <2>1, <2>3 DEF ExitStatus, WEXITSTATUS
  <2>5. ret = 256 * plan.code /\ (mode = "wrapper" => xit = plan.code)
    BY <2>3, <2>4 DEF InductiveInv, ToolInv
  <2> QED
    BY <2>1, <2>5
<1> QED
  BY <1>1, InductiveInvTheorem, PTL
=============================================================================
