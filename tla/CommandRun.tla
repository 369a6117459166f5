----------------------------- MODULE CommandRun -----------------------------
(***************************************************************************)
(* A tool that runs in a target: the container is booted                   *)
(* (BootContainerSync), a shell in it executes the tool, whose output goes *)
(* into two pipes.  The wrapper (lmsdk-wrapper.go) copies the pipes to its *)
(* own output while the tool runs, with the paths of the container mapped  *)
(* to those of the host, takes signals and exits with the tool's status.   *)
(* RunInContainerOuput (helpers.go) reads the pipes after the tool has     *)
(* ended.                                                                  *)
(*                                                                         *)
(* Output is a sequence of symbols: "w", a word; "/" and "usr", the halves *)
(* of a path that is to be mapped; "nl", the end of a line; and, in what   *)
(* the wrapper prints, "rootfs/", a "/" with the path of the root file     *)
(* system before it.                                                       *)
(***************************************************************************)
EXTENDS Integers, Sequences

CONSTANTS Plans,        \* what tools do: [writes, ends, code, child]
          Cap,          \* what a pipe holds
          Modes,        \* subset of {"wrapper", "output"}
          MayFail,      \* "load", "pipe", "start", "crash", "timeout"
          MaxChanges,   \* bound on the starts and stops by other processes
          MaxSignals    \* bound on the signals sent to the wrapper

Streams == {"out", "err"}
Symbols == {"w", "/", "usr", "nl"}
Plan == [writes : [Streams -> Seq(Symbols)], ends : BOOLEAN, code : 0 .. 255,
         child : BOOLEAN]

ASSUME PlanAssumption == Plans \subseteq Plan
ASSUME CapAssumption == Cap \in Nat \ {0}
ASSUME ModeAssumption == Modes \subseteq {"wrapper", "output"}

VARIABLES lxc,          \* the state of the container
          changes,      \* starts and stops by others so far
          plan, mode,
          main,         \* where the process is
          awaited,      \* the state of the container that it waits for
          handler,      \* where its signal handler is
          signals,      \* signals sent so far
          ret,          \* what the run of the command returned
          xit           \* the exit status of the wrapper

VARIABLES tool,         \* "none", "shell", "running", "ended"
          pos,          \* the next write to each stream
          raw,          \* the tool's wait status
          child,        \* a process the tool left behind has the pipes open
          pipe,
          open,         \* the process has the write ends of the pipes open
          line,         \* lineBuf of the relays
          relay,        \* where the relays are: "none", "reading", "done"
          printed,
          excuses       \* history: why the boot may have failed

bootVars == <<lxc, changes, awaited, excuses>>
toolVars == <<tool, pos, raw, child>>
streamVars == <<pipe, open, line, relay, printed>>
signalVars == <<handler, signals>>
resultVars == <<ret, xit>>
vars == <<lxc, changes, plan, mode, main, awaited, handler, signals, ret, xit, tool, pos,
          raw, child, pipe, open, line, relay, printed, excuses>>

States == {"STOPPED", "STARTING", "RUNNING", "STOPPING", "FREEZING", "FROZEN",
           "ABORTING", "THAWED"}
Empty == [s \in Streams |-> << >>]

Init ==
  /\ lxc \in States /\ changes = 0
  /\ plan \in Plans /\ mode \in Modes
  /\ main = "load" /\ awaited = "RUNNING" /\ handler = "none" /\ signals = 0
  /\ ret = 0 /\ xit = -1
  /\ tool = "none" /\ pos = [s \in Streams |-> 1] /\ raw = 0 /\ child = FALSE
  /\ pipe = Empty /\ open = FALSE /\ line = Empty /\ printed = Empty
  /\ relay = [s \in Streams |-> "none"]
  /\ excuses = {}

-----------------------------------------------------------------------------
(* How it ends.                                                             *)

Ended == main \in {"exited", "killed"}

\* Of a wait status.
WIFEXITED(status) == status % 128 = 0
WEXITSTATUS(status) == (status \div 256) % 256

\* mutant: the wait status itself is the exit status
RawStatus(status) == IF status < 0 THEN 1 ELSE status

\* main() of the wrapper
ExitStatus(status) == IF status < 0 THEN 1 ELSE WEXITSTATUS(status)

\* executeCommand, or RunInContainerOuput, returns.
Return(status) ==
  /\ main' = "exited" /\ ret' = status
  /\ xit' = IF mode = "wrapper" THEN ExitStatus(status) ELSE xit

\* "return 1"
GiveUp == /\ Return(1)
          /\ UNCHANGED <<plan, mode>> /\ UNCHANGED toolVars
          /\ UNCHANGED streamVars /\ UNCHANGED signalVars

Goto(l) == main' = l /\ UNCHANGED resultVars /\ UNCHANGED <<plan, mode>>

-----------------------------------------------------------------------------
(* BootContainerSync                                                        *)

BootStep(l) ==
  Goto(l) /\ UNCHANGED toolVars /\ UNCHANGED streamVars /\ UNCHANGED signalVars

\* The target is found, or not.
Load ==
  /\ main = "load"
  /\ \/ BootStep("state") /\ UNCHANGED excuses
     \/ "load" \in MayFail /\ GiveUp /\ excuses' = excuses \cup {"load"}
  /\ UNCHANGED <<lxc, changes, awaited>>

\* The states that the boot waits for, of those it waits in.
Settled == [STARTING |-> "RUNNING", STOPPING |-> "STOPPED", FREEZING |-> "FROZEN"]

\* mutant: a container that is stopping is not waited for
StateAtOnce ==
  /\ main = "state"
  /\ IF lxc \in {"ABORTING", "THAWED"} THEN GiveUp ELSE BootStep("again")
  /\ excuses' = IF lxc \in {"ABORTING", "THAWED", "FREEZING", "FROZEN"}
                THEN excuses \cup {"state"} ELSE excuses
  /\ UNCHANGED <<lxc, changes, awaited>>

FirstState ==
  /\ main = "state"
  /\ IF lxc \in {"ABORTING", "THAWED"} THEN GiveUp
     ELSE BootStep(IF lxc \in DOMAIN Settled THEN "settle" ELSE "again")
  /\ awaited' = IF lxc \in DOMAIN Settled THEN Settled[lxc] ELSE awaited
  /\ excuses' = IF lxc \in {"ABORTING", "THAWED", "FREEZING", "FROZEN"}
                THEN excuses \cup {"state"} ELSE excuses
  /\ UNCHANGED <<lxc, changes>>

\* The wait for a state is over when it is there or after five seconds;
\* its result is ignored.
Await ==
  /\ main \in {"settle", "await"}
  /\ \/ lxc = awaited /\ UNCHANGED excuses
     \/ /\ "timeout" \in MayFail /\ lxc # awaited
        /\ excuses' = excuses \cup {"timeout"}
  /\ BootStep(IF main = "settle" THEN "again" ELSE "booted")
  /\ UNCHANGED <<lxc, changes, awaited>>

SecondState ==
  /\ main = "again"
  /\ BootStep(IF lxc = "RUNNING" THEN "booted" ELSE "start")
  /\ UNCHANGED bootVars

\* Only a stopped container starts.
Start ==
  /\ main = "start"
  /\ \/ /\ lxc = "STOPPED"
        /\ lxc' = "STARTING" /\ awaited' = "RUNNING"
        /\ BootStep("await")
        /\ UNCHANGED excuses
     \/ /\ lxc # "STOPPED"
        /\ GiveUp
        /\ UNCHANGED <<lxc, awaited, excuses>>
     \/ /\ "start" \in MayFail
        /\ excuses' = excuses \cup {"start"}
        /\ GiveUp
        /\ UNCHANGED <<lxc, awaited>>
  /\ UNCHANGED changes

-----------------------------------------------------------------------------
(* The command.                                                             *)

\* mutant: the wrapper has no signal handler
PrepareOnly ==
  /\ main = "booted"
  /\ Goto("attach")
  /\ relay' = [s \in Streams |-> IF mode = "wrapper" THEN "reading" ELSE "none"]
  /\ open' = TRUE
  /\ UNCHANGED <<pipe, line, printed>> /\ UNCHANGED signalVars
  /\ UNCHANGED toolVars /\ UNCHANGED bootVars

\* The signal handler and the relays of the wrapper are started, the pipes are
\* made ...
Prepare ==
  /\ main = "booted"
  /\ \/ /\ Goto("attach")
        /\ handler' = IF mode = "wrapper" THEN "install" ELSE "none"
        /\ relay' = [s \in Streams |-> IF mode = "wrapper" THEN "reading" ELSE "none"]
        /\ open' = TRUE
        /\ UNCHANGED <<excuses, signals, pipe, line, printed>>
        /\ UNCHANGED toolVars
     \/ "pipe" \in MayFail /\ GiveUp /\ excuses' = excuses \cup {"pipe"}
  /\ UNCHANGED <<lxc, changes, awaited>>

\* ... and the shell is attached, if the container runs.
Attach ==
  /\ main = "attach"
  /\ Goto("running")
  /\ tool' = IF lxc = "RUNNING" THEN "shell" ELSE "none"
  /\ UNCHANGED <<pos, raw, child>>
  /\ UNCHANGED bootVars /\ UNCHANGED streamVars /\ UNCHANGED signalVars

\* RunCommandStatus has the container to itself until the command has ended.
Attached == main = "running" /\ tool \in {"shell", "running"}

\* mutant: the write ends stay open
LeaveOpen ==
  /\ main = "running" /\ ~Attached
  /\ Goto("drain")
  /\ UNCHANGED toolVars /\ UNCHANGED streamVars /\ UNCHANGED bootVars
  /\ UNCHANGED signalVars

\* RunCommandStatus has returned: the write ends are closed.
Close ==
  /\ main = "running" /\ ~Attached
  /\ Goto("drain")
  /\ open' = FALSE
  /\ UNCHANGED <<pipe, line, relay, printed>> /\ UNCHANGED toolVars
  /\ UNCHANGED bootVars /\ UNCHANGED signalVars

Status == IF tool = "none" THEN 1 ELSE raw

\* No one can write to the pipes any more.
WritersGone == ~open /\ tool \notin {"shell", "running"} /\ ~child

\* mutant: the wrapper does not wait for the relays
NoWait ==
  /\ main = "drain" /\ mode = "wrapper"
  /\ Return(Status)
  /\ UNCHANGED <<plan, mode>> /\ UNCHANGED toolVars
  /\ UNCHANGED bootVars /\ UNCHANGED streamVars /\ UNCHANGED signalVars

\* The wrapper waits for its relays.
Finish ==
  /\ main = "drain" /\ mode = "wrapper"
  /\ \A s \in Streams : relay[s] = "done"
  /\ Return(Status)
  /\ UNCHANGED <<plan, mode>> /\ UNCHANGED toolVars
  /\ UNCHANGED bootVars /\ UNCHANGED streamVars /\ UNCHANGED signalVars

\* RunInContainerOuput reads one pipe and then the other to their ends.
Collect ==
  /\ main = "drain" /\ mode = "output" /\ WritersGone
  /\ printed' = pipe /\ pipe' = Empty
  /\ Return(Status)
  /\ UNCHANGED <<plan, mode, open, line, relay>> /\ UNCHANGED toolVars
  /\ UNCHANGED bootVars /\ UNCHANGED signalVars

-----------------------------------------------------------------------------
(* The relays: mapFunc of each stream.                                      *)

\* A half path after a word is the end of some other path.
IsPath(text, i) ==
  /\ text[i] = "/" /\ i < Len(text) /\ text[i + 1] = "usr"
  /\ i = 1 \/ text[i - 1] \notin {"w", "usr"}

\* mapAndWrite: the paths of the container are prefixed.
Mapped(text) == [i \in DOMAIN text |-> IF IsPath(text, i) THEN "rootfs/" ELSE text[i]]

RelayStep == /\ UNCHANGED <<plan, mode, main, open>> /\ UNCHANGED resultVars
             /\ UNCHANGED toolVars /\ UNCHANGED bootVars /\ UNCHANGED signalVars

\* mutant: what is read is written at once
CopySymbol(s) ==
  /\ relay[s] = "reading" /\ main # "killed" /\ pipe[s] # << >>
  /\ pipe' = [pipe EXCEPT ![s] = Tail(@)]
  /\ printed' = [printed EXCEPT ![s] = @ \o Mapped(<<Head(pipe[s])>>)]
  /\ UNCHANGED <<line, relay>> /\ RelayStep

\* The input is read byte by byte and written line by line.
ReadSymbol(s) ==
  LET text == Append(line[s], Head(pipe[s]))
  IN  /\ relay[s] = "reading" /\ main # "killed" /\ pipe[s] # << >>
      /\ pipe' = [pipe EXCEPT ![s] = Tail(@)]
      /\ IF Head(pipe[s]) = "nl"
         THEN /\ printed' = [printed EXCEPT ![s] = @ \o Mapped(text)]
              /\ line' = [line EXCEPT ![s] = << >>]
         ELSE /\ line' = [line EXCEPT ![s] = text]
              /\ UNCHANGED printed
      /\ UNCHANGED relay /\ RelayStep

\* What is left at the end of the input is written, too.
EndOfInput(s) ==
  /\ relay[s] = "reading" /\ main # "killed" /\ pipe[s] = << >> /\ WritersGone
  /\ printed' = [printed EXCEPT ![s] = @ \o Mapped(line[s])]
  /\ line' = [line EXCEPT ![s] = << >>]
  /\ relay' = [relay EXCEPT ![s] = "done"]
  /\ UNCHANGED pipe /\ RelayStep

-----------------------------------------------------------------------------
(* The tool, in a running container.                                        *)

ToolStep == /\ lxc = "RUNNING"
            /\ UNCHANGED <<plan, mode, main, open, line, relay, printed>>
            /\ UNCHANGED resultVars /\ UNCHANGED bootVars /\ UNCHANGED signalVars

\* The shell writes its pid for the signal handler (see Forward) and becomes
\* the tool.
Exec ==
  /\ tool = "shell" /\ tool' = "running"
  /\ UNCHANGED <<pos, raw, child, pipe>> /\ ToolStep

\* In whatever order the tool likes.  A full pipe is waited for; without a
\* reader the write is the tool's end.
Write(s) ==
  /\ tool = "running" /\ pos[s] \in DOMAIN plan.writes[s]
  /\ \/ /\ main # "killed" /\ Len(pipe[s]) < Cap
        /\ pipe' = [pipe EXCEPT ![s] = Append(@, plan.writes[s][pos[s]])]
        /\ pos' = [pos EXCEPT ![s] = @ + 1]
        /\ UNCHANGED <<tool, raw>>
     \/ /\ main = "killed"
        /\ tool' = "ended" /\ raw' = 13
        /\ UNCHANGED <<pipe, pos>>
  /\ UNCHANGED child /\ ToolStep

ToolExits ==
  /\ tool = "running" /\ plan.ends
  /\ \A s \in Streams : pos[s] \notin DOMAIN plan.writes[s]
  /\ tool' = "ended" /\ raw' = 256 * plan.code /\ child' = plan.child
  /\ UNCHANGED <<pos, pipe>> /\ ToolStep

ToolCrashes ==
  /\ "crash" \in MayFail
  /\ tool = "running"
  /\ tool' = "ended" /\ raw' = 11
  /\ UNCHANGED <<pos, child, pipe>> /\ ToolStep

ChildExits ==
  /\ child /\ child' = FALSE
  /\ UNCHANGED <<tool, pos, raw, pipe>> /\ ToolStep

-----------------------------------------------------------------------------
(* Signals (TERM, INT, HUP) to the wrapper.                                 *)

SignalStep == /\ UNCHANGED <<plan, mode>> /\ UNCHANGED resultVars
              /\ UNCHANGED bootVars /\ UNCHANGED streamVars

InstallHandler ==
  /\ handler = "install" /\ ~Ended /\ handler' = "wait"
  /\ UNCHANGED <<signals, main>> /\ UNCHANGED toolVars /\ SignalStep

\* It ends a wrapper that has no handler; the channel of the handler has no
\* room for a second one.
Signal ==
  /\ mode = "wrapper" /\ ~Ended /\ signals < MaxSignals
  /\ signals' = signals + 1
  /\ IF handler \in {"none", "install"}
     THEN main' = "killed" /\ UNCHANGED handler
     ELSE handler' = "kill" /\ UNCHANGED main
  /\ UNCHANGED toolVars /\ SignalStep

\* The kill in the container, of the process group that the pid in the pidfile
\* has.  It takes an attach of its own, and a container does one at a time: it
\* comes before the tool's, when there is no pidfile yet, or after the tool has
\* ended, when the pid has no group; it does nothing to the tool.
Forward ==
  /\ handler = "kill" /\ ~Ended
  /\ ~Attached
  /\ handler' = "wait"
  /\ UNCHANGED <<signals, main>> /\ UNCHANGED toolVars /\ SignalStep

-----------------------------------------------------------------------------
(* The container, and other processes that start and stop it.               *)

LxcStep == /\ UNCHANGED <<plan, mode, main, awaited>> /\ UNCHANGED resultVars
           /\ UNCHANGED streamVars /\ UNCHANGED signalVars

Becomes == [STARTING |-> {"RUNNING", "ABORTING"}, STOPPING |-> {"STOPPED"},
            FREEZING |-> {"FROZEN"}, ABORTING |-> {"STOPPED"}, THAWED |-> {"RUNNING"}]

\* With the container everything in it ends.
ContainerStep ==
  /\ lxc \in DOMAIN Becomes /\ lxc' \in Becomes[lxc]
  /\ lxc' = "ABORTING" => "start" \in MayFail
  /\ excuses' = IF lxc' = "ABORTING" THEN excuses \cup {"start"} ELSE excuses
  /\ IF lxc' = "STOPPED" /\ tool \in {"shell", "running"}
     THEN tool' = "ended" /\ raw' = 9
     ELSE UNCHANGED <<tool, raw>>
  /\ child' = (child /\ lxc' # "STOPPED")
  /\ UNCHANGED <<changes, pos>> /\ LxcStep

OtherProcess ==
  /\ changes < MaxChanges /\ changes' = changes + 1
  /\ \/ lxc = "STOPPED" /\ lxc' = "STARTING"
     \/ lxc \in {"RUNNING", "FROZEN"} /\ lxc' = "STOPPING"
  /\ excuses' = IF main \in {"load", "state"} THEN excuses ELSE excuses \cup {"other"}
  /\ UNCHANGED toolVars /\ LxcStep

-----------------------------------------------------------------------------
Main == \/ Load \/ FirstState \/ Await \/ SecondState \/ Start
        \/ Prepare \/ Attach \/ Close \/ Finish \/ Collect
Relay(s) == ReadSymbol(s) \/ EndOfInput(s)
Tool == Exec \/ (\E s \in Streams : Write(s)) \/ ToolExits

Next == \/ Main \/ Tool \/ ToolCrashes \/ ChildExits
        \/ \E s \in Streams : Relay(s)
        \/ InstallHandler \/ Signal \/ Forward
        \/ ContainerStep \/ OtherProcess

\* All but signals, crashes, other processes and the end of a child.
Fairness == /\ WF_vars(Main) /\ WF_vars(Tool)
            /\ \A s \in Streams : WF_vars(Relay(s))
            /\ WF_vars(InstallHandler) /\ WF_vars(Forward) /\ WF_vars(ContainerStep)

Spec == Init /\ [][Next]_vars /\ Fairness

-----------------------------------------------------------------------------
(* Properties. *)

TypeOK ==
  /\ lxc \in States /\ changes \in Nat /\ plan \in Plans /\ mode \in Modes
  /\ main \in {"load", "state", "settle", "again", "start", "await", "booted",
               "attach", "running", "drain", "exited", "killed"}
  /\ awaited \in {"RUNNING", "STOPPED", "FROZEN"}
  /\ handler \in {"none", "install", "wait", "kill"} /\ signals \in Nat
  /\ ret \in Nat /\ xit \in -1 .. 255
  /\ tool \in {"none", "shell", "running", "ended"} /\ raw \in Nat
  /\ pos \in [Streams -> Nat]
  /\ child \in BOOLEAN /\ open \in BOOLEAN
  /\ pipe \in [Streams -> Seq(Symbols)] /\ \A s \in Streams : Len(pipe[s]) <= Cap
  /\ line \in [Streams -> Seq(Symbols \ {"nl"})]
  /\ printed \in [Streams -> Seq(Symbols \cup {"rootfs/"})]
  /\ relay \in [Streams -> {"none", "reading", "done"}]
  /\ excuses \subseteq {"load", "pipe", "timeout", "start", "state", "other"}

\* What the tool has written to s.
Written(s) == SubSeq(plan.writes[s], 1, pos[s] - 1)

\* BootContainerSync (helpers.go:147): a boot that went well has left the
\* container running, and one fails, only if a start failed, a wait was too
\* short, the container was frozen, or another process started or stopped it
\* after the first look at its state (or the target or the pipes failed).
BootSucceeds ==
  excuses = {} => /\ main \in {"booted", "attach", "running"} => lxc = "RUNNING"
                  /\ main = "exited" => ret # 1

\* mapFunc and "wait for mapFunc to finish" (lmsdk-wrapper.go:267): of a
\* command that was not cut off all that the tool wrote is printed when the
\* process goes on, in order and by the wrapper with every path mapped, also
\* one that came in two reads.
AllRelayed ==
  main = "exited" => \A s \in Streams :
    printed[s] = IF mode = "wrapper" THEN Mapped(Written(s)) ELSE Written(s)

\* "signal.Notify(ch, syscall.SIGTERM, syscall.SIGINT, syscall.SIGHUP)"
\* (lmsdk-wrapper.go:214): the end of the wrapper is the end of the tool,
\* except for a signal that comes before the handler is installed.
NoOrphan ==
  Ended /\ tool \in {"shell", "running"} => main = "killed" /\ handler = "install"

\* The exit status of a tool that exited is the wrapper's, and a run for the
\* output tells success from failure.
StatusIsTheTools ==
  main = "exited" /\ tool = "ended" /\ WIFEXITED(raw) =>
    IF mode = "wrapper" THEN xit = plan.code ELSE (ret = 0) = (plan.code = 0)

Fits == \A s \in Streams : Len(plan.writes[s]) <= Cap

\* The command of a tool that ends does so: when the output is read later,
\* only if it fits in the pipes, and unless the tool leaves a child that keeps
\* them open for ever.
RunEnds == plan.ends /\ (mode = "wrapper" \/ Fits) => <>(Ended \/ []child)

-----------------------------------------------------------------------------
(* What keeps the properties, step by step. *)

\* The places of the process before it has attached a shell.
Early == {"load", "state", "settle", "again", "start", "await", "booted", "attach"}

\* The states in which a boot with no excuse may find the container.
BootInv ==
  excuses = {} =>
    /\ main = "settle" => \/ awaited = "RUNNING" /\ lxc \in {"STARTING", "RUNNING"}
                          \/ awaited = "STOPPED" /\ lxc \in {"STOPPING", "STOPPED"}
    /\ main = "again" => lxc \in {"RUNNING", "STOPPED"}
    /\ main = "start" => lxc = "STOPPED"
    /\ main = "await" => awaited = "RUNNING" /\ lxc \in {"STARTING", "RUNNING"}
    /\ main \in {"booted", "attach", "running"} => lxc = "RUNNING"
    /\ main \in {"running", "drain"} => tool # "none"
    /\ main = "exited" => ret # 1

\* The tool and its status, at each place of the process and of its handler.
ToolInv ==
  /\ main \in Early => tool = "none"
  /\ main \in {"drain", "exited"} => tool \notin {"shell", "running"}
  /\ tool = "none" => pos = [s \in Streams |-> 1]
  /\ tool = "ended" => raw \in {9, 11, 13, 15, 256 * plan.code}
  /\ main = "exited" /\ tool = "ended" =>
       ret = raw /\ (mode = "wrapper" => xit = ExitStatus(raw))
  /\ mode = "wrapper" /\ (main \in {"attach", "running"} \/ tool # "none") => handler # "none"
  /\ main = "killed" => mode = "wrapper" /\ handler \in {"none", "install"}

\* The relays, at each place of the process.
RelayInv ==
  /\ main \in Early => pipe = Empty /\ line = Empty
  /\ main \in Early \ {"attach"} => relay = [s \in Streams |-> "none"]
  /\ main \in {"attach", "running"} => open
  /\ mode = "output" => relay = [s \in Streams |-> "none"] /\ line = Empty
  /\ mode = "output" /\ main # "exited" => printed = Empty
  /\ \A s \in Streams : relay[s] = "done" =>
       /\ main \in {"drain", "exited", "killed"}
       /\ pipe[s] = << >> /\ line[s] = << >>
  /\ main = "exited" => pipe = Empty /\ line = Empty

\* What the tool has written to s is printed, in the line of the relay or in
\* the pipe; what is printed are whole lines, up to the end of the input.
StreamInv(s) ==
  LET w == plan.writes[s]  n == Len(printed[s])  l == Len(line[s])
  IN  /\ pos[s] = n + l + Len(pipe[s]) + 1 /\ pos[s] <= Len(w) + 1
      /\ \A i \in 1 .. l : line[s][i] = w[n + i]
      /\ \A i \in 1 .. Len(pipe[s]) : pipe[s][i] = w[n + l + i]
      /\ printed[s] = IF mode = "wrapper" THEN Mapped(SubSeq(w, 1, n)) ELSE SubSeq(w, 1, n)
      /\ mode = "wrapper" => n = 0 \/ w[n] = "nl" \/ relay[s] = "done"

\* A command between any two steps, its own, of its goroutines, of the tool or
\* of the container (lmsdk-wrapper.go:60-289, helpers.go:147-169, 612-643): all
\* invariants follow from it.
InductiveInv ==
  /\ TypeOK /\ BootInv /\ ToolInv /\ RelayInv
  /\ main # "killed" => \A s \in Streams : StreamInv(s)
=============================================================================
