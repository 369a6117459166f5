----------------------------- MODULE CleanBuild -----------------------------
(***************************************************************************)
(* What a clean rpmbuild promises (lmsdk-target/rpmbuild.go:320-353): a    *)
(* snapshot of its own is taken before the build; the target goes back to  *)
(* it before it is removed, or the user is told that it did not; and when   *)
(* the build is over the snapshot is gone, or the user is told that it is   *)
(* left.  No other snapshot is taken or removed.                           *)
(***************************************************************************)
EXTENDS Naturals

CONSTANTS Builders, Roots, Shots, NoShot,
          Troubles    \* what a build may tell, "restore" among it

VARIABLES root,       \* the file system of the target
          shots,      \* the snapshots there are
          own,        \* the snapshot a build has taken, or NoShot
          restored,   \* the build has put the target back
          told        \* what the user of the build knows went wrong

vars == <<root, shots, own, restored, told>>

Init ==
  /\ root \in Roots
  /\ shots \in SUBSET Shots
  /\ own = [b \in Builders |-> NoShot]
  /\ restored = [b \in Builders |-> FALSE]
  /\ told = [b \in Builders |-> {}]

Take(b) ==
  /\ own[b] = NoShot
  /\ \E s \in Shots \ shots :
       /\ s.root = root
       /\ shots' = shots \cup {s}
       /\ own' = [own EXCEPT ![b] = s]
  /\ UNCHANGED <<root, restored, told>>

\* A build, or anybody else, changes the target.
Change ==
  /\ root' \in Roots
  /\ UNCHANGED <<shots, own, restored, told>>

Restore(b) ==
  /\ own[b] \in shots /\ ~restored[b]
  /\ root' = own[b].root
  /\ restored' = [restored EXCEPT ![b] = TRUE]
  /\ UNCHANGED <<shots, own, told>>

Tell(b) ==
  /\ \E t \in Troubles : told' = [told EXCEPT ![b] = @ \cup {t}]
  /\ UNCHANGED <<root, shots, own, restored>>

\* The way back is given up only when it has been gone, or is known to fail.
Drop(b) ==
  /\ own[b] \in shots
  /\ restored[b] \/ "restore" \in told[b]
  /\ shots' = shots \ {own[b]}
  /\ UNCHANGED <<root, own, restored, told>>

\* The build is over, and forgotten with the next one.
End(b) ==
  /\ own[b] \in shots => told[b] # {}
  /\ own' = [own EXCEPT ![b] = NoShot]
  /\ restored' = [restored EXCEPT ![b] = FALSE]
  /\ told' = [told EXCEPT ![b] = {}]
  /\ UNCHANGED <<root, shots>>

Next ==
  \/ Change
  \/ \E b \in Builders : Take(b) \/ Restore(b) \/ Tell(b) \/ Drop(b) \/ End(b)

Spec == Init /\ [][Next]_vars
=============================================================================
