------------------------- MODULE MigrateCommandProofs -------------------------
(* Proofs about `tauri migrate` (MigrateCommand): what it leaves behind,  *)
(* for any number of reported plugins.                                     *)
EXTENDS MigrateCommand, TLAPS

USE MigrateAssumption

StepNames == {"config", "manifest", "frontend"}

(* The inductive invariant: the steps done are the first steps, the      *)
(* plugins added the first plugins reported, plugins are only added once *)
(* every step is done, and the result says where the run stopped.        *)
IInv ==
  /\ done \in Seq(StepNames) /\ plugins \in Seq(Plugins) /\ added \in Seq(Plugins)
  /\ pc \in {"migrate", "plugins", "returned"}
  /\ IsPrefix(done, Steps) /\ IsPrefix(added, plugins)
  /\ pc = "migrate" => Len(done) < Len(Steps) /\ added = <<>> /\ result = "none"
  /\ pc = "plugins" => done = Steps /\ result = "none"
  /\ added # <<>> => done = Steps
  /\ result \in {"ok", "err"} <=> pc = "returned"
  /\ result = "ok" => done = Steps /\ added = plugins
  /\ result = "err" => done # Steps \/ Len(added) < Len(plugins)

-----------------------------------------------------------------------------
(* Prefixes.                                                               *)

(* Appending the next element of t to a proper prefix of t gives a prefix. *)
LEMMA AppendPrefix ==
  ASSUME NEW S, NEW s \in Seq(S), NEW t \in Seq(S), IsPrefix(s, t), Len(s) < Len(t)
  PROVE  IsPrefix(Append(s, t[Len(s) + 1]), t)
BY DEF IsPrefix

(* A prefix as long as the sequence is the sequence.                      *)
LEMMA FullPrefix ==
  ASSUME NEW S, NEW s \in Seq(S), NEW t \in Seq(S), IsPrefix(s, t), Len(s) = Len(t)
  PROVE  s = t
BY DEF IsPrefix

-----------------------------------------------------------------------------
(* The invariant.                                                          *)

LEMMA InitIInv == Init => IInv
BY DEF Init, IInv, IsPrefix, Steps, StepNames

LEMMA NextIInv == IInv /\ [Next]_vars => IInv'
<1> SUFFICES ASSUME IInv, [Next]_vars PROVE IInv'
  OBVIOUS
<1>0. Steps \in Seq(StepNames) /\ Len(Steps) = 3
  BY DEF Steps, StepNames
<1>1. CASE MigrateStep
  <2>1. IsPrefix(done', Steps) /\ done' \in Seq(StepNames)
    BY <1>0, <1>1, AppendPrefix DEF MigrateStep, IInv
  <2>2. Len(done') = Len(done) + 1
    BY <1>1 DEF MigrateStep, IInv
  <2>3. Len(done') = Len(Steps) => done' = Steps
    BY <1>0, <2>1, FullPrefix
  <2>4. plugins' \in Seq(Plugins)
    <3>1. Lists(Plugins) \subseteq Seq(Plugins)
      BY DEF Lists
    <3>. QED
      BY <1>1, <3>1 DEF MigrateStep, IInv
  <2>5. added' = <<>> /\ IsPrefix(added', plugins')
    BY <1>1, <2>4 DEF MigrateStep, IInv, IsPrefix
  <2>. QED
    BY <1>0, <1>1, <2>1, <2>2, <2>3, <2>4, <2>5 DEF MigrateStep, IInv
<1>2. CASE MigrateStepFails
  <2>1. Len(done) < 3
    BY <1>0, <1>2 DEF MigrateStepFails, IInv
  <2>2. done # Steps
    BY <2>1 DEF Steps
  <2>. QED
    BY <1>2, <2>2 DEF MigrateStepFails, IInv
<1>3. CASE AddPlugin
  <2>1. IsPrefix(added', plugins) /\ added' \in Seq(Plugins)
    BY <1>3, AppendPrefix DEF AddPlugin, IInv
  <2>. QED
    BY <1>3, <2>1 DEF AddPlugin, IInv
<1>4. CASE AddPluginFails
  BY <1>4 DEF AddPluginFails, IInv
<1>5. CASE Finish
  <2>1. added = plugins
    BY <1>5, FullPrefix DEF Finish, IInv
  <2>. QED
    BY <1>5, <2>1 DEF Finish, IInv
<1>6. CASE UNCHANGED vars
  BY <1>6 DEF vars, IInv
<1>. QED
  BY <1>1, <1>2, <1>3, <1>4, <1>5, <1>6 DEF Next

-----------------------------------------------------------------------------
(* The property.                                                           *)

(* What `migrate` leaves behind is always a prefix of the full run, and   *)
(* its result says which (MigrationPrefix): the steps done are the first  *)
(* in order, plugins are added only after all three and in the reported   *)
(* order, Ok means everything ran, and Err means it stopped at a failure  *)
(* with everything before left applied, for any number of plugins.        *)
THEOREM MigrationPrefixHolds == Spec => []MigrationPrefix
<1>1. IInv => MigrationPrefix
  BY DEF IInv, MigrationPrefix
<1>. QED
  BY <1>1, InitIInv, NextIInv, PTL DEF Spec

=============================================================================
