---------------------------- MODULE CreateTarget ----------------------------
(***************************************************************************)
(* lmsdk-target create and destroy (lmsdk-target/create.go, destroy.go,    *)
(* RemoveContainerSync of helpers.go): the life of the targets of a host,  *)
(* with several commands at once, on one name or on several.               *)
(*                                                                         *)
(* All creates of a distribution write one default configuration file,     *)
(* ~/.config/lm-sdk/lmsdk-<distro>-default.conf, which carries the mapping *)
(* of user ids.  lxc is external: its create refuses a name that is        *)
(* defined, its template fills the root, its destroy wants the container   *)
(* stopped, every call may fail.                                           *)
(***************************************************************************)
EXTENDS Naturals

CONSTANTS Procs, Names,
          Requests,   \* which process may create or destroy which name
          Absent,     \* there is no container of that name
          MayFail     \* what happens of "stop", "destroy" (these calls fail)
                      \* and "killed"

RetryMax == 5

ASSUME RequestsAssumption == Requests \subseteq Procs \X Names

Target == [root : {"partial", "complete"}, lm : {"none", "partial", "complete"},
           mapped : BOOLEAN,      \* it was made with the mapping of user ids
           registered : BOOLEAN,  \* its passwd has the user's home
           running : BOOLEAN,
           owner : Procs]         \* history: the create that made it

ASSUME AbsentAssumption == Absent \notin Target

VARIABLES targets,    \* the containers on disk
          conf,       \* the default configuration file: "empty" or "complete"
          pc, name, keep,
          mapped,     \* the configuration in memory has the id mapping
          tries,      \* attempts to start
          result,     \* of the process' last command
          incidents   \* history: what the environment did

vars == <<targets, conf, pc, name, keep, mapped, tries, result, incidents>>

Init ==
  /\ targets = [n \in Names |-> Absent]
  /\ conf \in {"empty", "complete"}
  /\ pc = [p \in Procs |-> "idle"]
  /\ name \in [Procs -> Names]
  /\ keep = [p \in Procs |-> FALSE]
  /\ mapped = [p \in Procs |-> FALSE]
  /\ tries = [p \in Procs |-> 0]
  /\ result = [p \in Procs |-> "none"]
  /\ incidents = {}

-----------------------------------------------------------------------------
Mine(p) == targets[name[p]]
SetMine(p, t) == targets' = [targets EXCEPT ![name[p]] = t]
Goto(p, l) == pc' = [pc EXCEPT ![p] = l]

Exit(p, r) ==
  /\ Goto(p, "idle")
  /\ result' = [result EXCEPT ![p] = r]
  /\ keep' = [keep EXCEPT ![p] = FALSE]
  /\ mapped' = [mapped EXCEPT ![p] = FALSE]
  /\ tries' = [tries EXCEPT ![p] = 0]
  /\ UNCHANGED name

Local == <<name, keep, mapped, tries, result>>

\* "if !c.keepOnError { RemoveContainerSync }": the create has failed.
Fail(p) ==
  IF keep[p] THEN Exit(p, "kept")
  ELSE Goto(p, "removeStop") /\ UNCHANGED Local

\* The directory is looked for first; an existing one is refused, whether it
\* is complete or broken.
Create(p, n, k) ==
  /\ pc[p] = "idle"
  /\ IF targets[n] # Absent
     THEN /\ name' = [name EXCEPT ![p] = n]
          /\ result' = [result EXCEPT ![p] = "refused"]
          /\ UNCHANGED <<pc, keep>>
     ELSE /\ Goto(p, "conf")
          /\ name' = [name EXCEPT ![p] = n]
          /\ keep' = [keep EXCEPT ![p] = k]
          /\ result' = [result EXCEPT ![p] = "none"]
  /\ UNCHANGED <<targets, conf, mapped, tries, incidents>>

\* GenerateDefaultConfigFile: os.Create empties the file ...
TruncateConf(p) ==
  /\ pc[p] = "conf"
  /\ conf' = "empty"
  /\ Goto(p, "writeConf")
  /\ UNCHANGED <<targets, incidents>> /\ UNCHANGED Local

\* ... and the Flush at its end fills it.
WriteConf(p) ==
  /\ pc[p] = "writeConf"
  /\ conf' = "complete"
  /\ Goto(p, "loadConf")
  /\ UNCHANGED <<targets, incidents>> /\ UNCHANGED Local

LoadConf(p) ==
  /\ pc[p] = "loadConf"
  /\ mapped' = [mapped EXCEPT ![p] = (conf = "complete")]
  /\ Goto(p, "create")
  /\ UNCHANGED <<targets, conf, incidents, name, keep, tries, result>>

\* No ids, no template, no downloader: nothing was created, nothing is removed.
GiveUp(p) ==
  /\ pc[p] \in {"writeConf", "loadConf", "create"}
  /\ Exit(p, "failed")
  /\ UNCHANGED <<targets, conf, incidents>>

\* container.Create defines the container, with the configuration in memory,
\* and runs the template ...
LxcCreate(p) ==
  /\ pc[p] = "create"
  /\ Mine(p) = Absent /\ mapped[p]
  /\ SetMine(p, [root |-> "partial", lm |-> "none", mapped |-> mapped[p],
                 registered |-> FALSE, running |-> FALSE, owner |-> p])
  /\ Goto(p, "template")
  /\ UNCHANGED <<conf, incidents>> /\ UNCHANGED Local

\* ... or finds it defined, or has no id mapping: lxc makes no root file system
\* for a user without one.
LxcCreateRefused(p) ==
  /\ pc[p] = "create"
  /\ Mine(p) # Absent \/ ~mapped[p]
  /\ Fail(p)
  /\ UNCHANGED <<targets, conf, incidents>>

TemplateDone(p) ==
  /\ pc[p] = "template"
  /\ Mine(p) # Absent /\ Mine(p).owner = p
  /\ SetMine(p, [Mine(p) EXCEPT !.root = "complete"])
  /\ Goto(p, "register")
  /\ UNCHANGED <<conf, incidents>> /\ UNCHANGED Local

\* lxc removes what it could not complete, if it can.
TemplateFails(p) ==
  /\ pc[p] = "template"
  /\ \/ UNCHANGED targets
     \/ Mine(p) # Absent /\ Mine(p).owner = p /\ SetMine(p, Absent)
  /\ Fail(p)
  /\ UNCHANGED <<conf, incidents>>

-----------------------------------------------------------------------------
(* registerUserInContainer: the mounts are saved, then the container is     *)
(* started, with retries, and its passwd edited.                            *)
\* mutant: config-lm is written before the user is registered
RegisterAfterLm(p) ==
  /\ pc[p] = "register"
  /\ Mine(p) # Absent
  /\ SetMine(p, [Mine(p) EXCEPT !.running = FALSE, !.lm = "complete"])
  /\ Goto(p, "start")
  /\ UNCHANGED <<conf, incidents>> /\ UNCHANGED Local

Register(p) ==
  /\ pc[p] = "register"
  /\ Mine(p) # Absent
  /\ SetMine(p, [Mine(p) EXCEPT !.running = FALSE])
  /\ Goto(p, "start")
  /\ UNCHANGED <<conf, incidents>> /\ UNCHANGED Local

\* mutant: the count of the attempts begins again
StartForever(p) ==
  /\ pc[p] = "start"
  /\ tries' = [tries EXCEPT ![p] = IF @ = RetryMax THEN 0 ELSE @ + 1]
  /\ \/ /\ Mine(p) # Absent /\ ~Mine(p).running /\ Mine(p).root = "complete"
        /\ SetMine(p, [Mine(p) EXCEPT !.running = TRUE])
        /\ Goto(p, "sed")
     \/ UNCHANGED <<targets, pc>>
  /\ UNCHANGED <<conf, incidents, name, keep, mapped, result>>

\* mutant: the attempts are counted and not compared with the limit
StartUncounted(p) ==
  /\ pc[p] = "start"
  /\ tries' = [tries EXCEPT ![p] = @ + 1]
  /\ \/ /\ Mine(p) # Absent /\ ~Mine(p).running /\ Mine(p).root = "complete"
        /\ SetMine(p, [Mine(p) EXCEPT !.running = TRUE])
        /\ Goto(p, "sed")
     \/ UNCHANGED <<targets, pc>>
  /\ UNCHANGED <<conf, incidents, name, keep, mapped, result>>

Start(p) ==
  /\ pc[p] = "start"
  /\ tries[p] <= RetryMax
  /\ tries' = [tries EXCEPT ![p] = @ + 1]
  /\ \/ /\ Mine(p) # Absent /\ ~Mine(p).running /\ Mine(p).root = "complete"
        /\ SetMine(p, [Mine(p) EXCEPT !.running = TRUE])
        /\ Goto(p, "sed")
     \/ UNCHANGED <<targets, pc>>
  /\ UNCHANGED <<conf, incidents, name, keep, mapped, result>>

Sed(p) ==
  /\ pc[p] = "sed"
  /\ Mine(p) # Absent /\ Mine(p).running
  /\ SetMine(p, [Mine(p) EXCEPT !.registered = TRUE])
  /\ Goto(p, "tools")
  /\ UNCHANGED <<conf, incidents>> /\ UNCHANGED Local

(* FinalizeContainer: the tools, then config-lm, truncated and written.     *)
FixTools(p) ==
  /\ pc[p] = "tools"
  /\ Mine(p) # Absent
  /\ Goto(p, "openLm")
  /\ UNCHANGED <<targets, conf, incidents>> /\ UNCHANGED Local

OpenLm(p) ==
  /\ pc[p] = "openLm"
  /\ Mine(p) # Absent
  /\ SetMine(p, [Mine(p) EXCEPT !.lm = "partial"])
  /\ Goto(p, "writeLm")
  /\ UNCHANGED <<conf, incidents>> /\ UNCHANGED Local

WriteLm(p) ==
  /\ pc[p] = "writeLm"
  /\ IF Mine(p) # Absent /\ Mine(p).lm = "partial"
     THEN SetMine(p, [Mine(p) EXCEPT !.lm = "complete"])
     ELSE UNCHANGED targets
  /\ Exit(p, "created")
  /\ UNCHANGED <<conf, incidents>>

\* One of these steps fails, the start after its last attempt.
SetupFails(p) ==
  /\ \/ pc[p] \in {"register", "sed", "tools", "openLm", "writeLm"}
     \/ pc[p] = "start" /\ tries[p] > RetryMax
  /\ Fail(p)
  /\ UNCHANGED <<targets, conf, incidents>>

-----------------------------------------------------------------------------
(* RemoveContainerSync, run by destroy and by a create that failed.         *)
Destroy(p, n) ==
  /\ pc[p] = "idle"
  /\ name' = [name EXCEPT ![p] = n]
  /\ Goto(p, "destroyStop")
  /\ result' = [result EXCEPT ![p] = "none"]
  /\ UNCHANGED <<targets, conf, keep, mapped, tries, incidents>>

\* mutant: a container that is running is not stopped before it is removed
RemoveStopSkipped(p) ==
  /\ pc[p] \in {"removeStop", "destroyStop"}
  /\ Goto(p, IF pc[p] = "removeStop" THEN "remove" ELSE "destroy")
  /\ UNCHANGED <<targets, conf, incidents>> /\ UNCHANGED Local

\* The error of Stop is ignored.
RemoveStop(p) ==
  /\ pc[p] \in {"removeStop", "destroyStop"}
  /\ \/ /\ Mine(p) # Absent
        /\ SetMine(p, [Mine(p) EXCEPT !.running = FALSE])
        /\ UNCHANGED incidents
     \/ Mine(p) = Absent /\ UNCHANGED <<targets, incidents>>
     \/ /\ "stop" \in MayFail /\ UNCHANGED targets
        /\ incidents' = incidents \cup {"stop"}
  /\ Goto(p, IF pc[p] = "removeStop" THEN "remove" ELSE "destroy")
  /\ UNCHANGED conf /\ UNCHANGED Local

\* The snapshots and the container go.
Remove(p) ==
  /\ pc[p] \in {"remove", "destroy"}
  /\ Mine(p) # Absent /\ ~Mine(p).running
  /\ SetMine(p, Absent)
  /\ Exit(p, IF pc[p] = "remove" THEN "failed" ELSE "destroyed")
  /\ UNCHANGED <<conf, incidents>>

\* The error is returned to destroy and ignored by create.
RemoveFails(p) ==
  /\ pc[p] \in {"remove", "destroy"}
  /\ (Mine(p) # Absent /\ ~Mine(p).running) => "destroy" \in MayFail
  /\ incidents' = IF Mine(p) # Absent /\ ~Mine(p).running
                  THEN incidents \cup {"destroy"} ELSE incidents
  /\ Exit(p, "failed")
  /\ UNCHANGED <<targets, conf>>

Kill(p) ==
  /\ "killed" \in MayFail
  /\ pc[p] # "idle"
  /\ Exit(p, "killed")
  /\ UNCHANGED <<targets, conf, incidents>>

Step(p) ==
  \/ TruncateConf(p) \/ WriteConf(p) \/ LoadConf(p) \/ GiveUp(p)
  \/ LxcCreate(p) \/ LxcCreateRefused(p) \/ TemplateDone(p) \/ TemplateFails(p)
  \/ Register(p) \/ Start(p) \/ Sed(p) \/ FixTools(p) \/ OpenLm(p) \/ WriteLm(p)
  \/ SetupFails(p) \/ RemoveStop(p) \/ Remove(p) \/ RemoveFails(p)

Next ==
  \E p \in Procs :
    \/ \E n \in Names : /\ <<p, n>> \in Requests
                        /\ (\E k \in BOOLEAN : Create(p, n, k)) \/ Destroy(p, n)
    \/ Step(p)
    \/ Kill(p)

Spec == Init /\ [][Next]_vars

\* A command that was started runs on; nobody has to start one or kill it.
FairSpec == Spec /\ \A p \in Procs : WF_vars(Step(p))

-----------------------------------------------------------------------------
(* Properties. *)

Locations == {"idle", "conf", "writeConf", "loadConf", "create", "template",
              "register", "start", "sed", "tools", "openLm", "writeLm",
              "removeStop", "remove", "destroyStop", "destroy"}

TypeOK ==
  /\ targets \in [Names -> Target \cup {Absent}]
  /\ conf \in {"empty", "complete"}
  /\ pc \in [Procs -> Locations]
  /\ name \in [Procs -> Names]
  /\ keep \in [Procs -> BOOLEAN] /\ mapped \in [Procs -> BOOLEAN]
  /\ tries \in [Procs -> 0 .. RetryMax + 1]
  /\ result \in [Procs -> {"none", "created", "failed", "kept", "refused",
                           "destroyed", "killed"}]
  /\ incidents \subseteq {"stop", "destroy"}

\* "everything worked out, as last write the config-lm file" (create.go:186):
\* a target with a config-lm, which is what every other command looks for, has
\* its root and its user, and the id mapping, although another create may have
\* emptied the file with it.
ConfigLmIsLast ==
  \A n \in Names :
    (targets[n] # Absent /\ targets[n].lm = "complete")
      => targets[n].root = "complete" /\ targets[n].registered /\ targets[n].mapped

\* "Do not remove then container when creation fails" (create.go:76), the
\* option, and therefore without it the container is removed: a create that
\* failed leaves no container of its own behind, running or not, unless lxc
\* failed to stop or to destroy it.
FailureLeavesNothing ==
  \A p \in Procs :
    result[p] = "failed" =>
      \/ Mine(p) = Absent
      \/ Mine(p).owner # p
      \/ incidents # {}

\* A create or destroy comes to an end, the retries of the start included
\* (create.go:342-358).
CommandEnds == \A p \in Procs : (pc[p] # "idle") ~> (pc[p] = "idle")

\* No container is made from the file that another create has emptied.
MappedInv == \A n \in Names : targets[n] # Absent => targets[n].mapped

\* ConfigLmIsLast, made inductive: what a create that got past the template
\* finds on disk is its own work, if no other process uses the name.
CreateInv ==
  /\ \A p \in Procs : pc[p] # "idle" => <<p, name[p]>> \in Requests
  /\ \A p \in Procs :
       pc[p] \in {"register", "start", "sed", "tools", "openLm", "writeLm"}
         => Mine(p) # Absent /\ Mine(p).root = "complete"
  /\ \A p \in Procs :
       pc[p] \in {"tools", "openLm", "writeLm"} => Mine(p).registered
  /\ \A n \in Names :
       (targets[n] # Absent /\ targets[n].lm # "none")
         => targets[n].root = "complete" /\ targets[n].registered

\* FailureLeavesNothing, made inductive: until the template is run there is
\* nothing of the name, what is removed does not run, and what a command that
\* failed has left behind has been left alone since, if no other process uses
\* the name.
FailureInv ==
  /\ \A p \in Procs :
       pc[p] \in {"conf", "writeConf", "loadConf", "create"} => Mine(p) = Absent
  /\ \A p \in Procs :
       pc[p] \in {"remove", "destroy"} =>
         Mine(p) = Absent \/ ~Mine(p).running \/ incidents # {}
  /\ \A p \in Procs :
       result[p] = "failed" =>
         /\ pc[p] = "idle" /\ <<p, name[p]>> \in Requests
         /\ Mine(p) = Absent \/ incidents # {}

\* "Container with requested name exists already" (create.go:110): a create
\* that finds the name taken leaves the container of that name alone.
RemovesOnlyItsOwn ==
  [][\A p \in Procs :
       (pc[p] = "remove" /\ Mine(p) # Absent /\ Mine(p)' = Absent /\ pc'[p] # pc[p])
         => Mine(p).owner = p]_vars

\* What create (create.go:79-205) keeps from step to step: what a create that
\* is under way has of its container, and what one that gave up leaves.
InductiveInv == CreateInv /\ MappedInv /\ FailureInv
=============================================================================
