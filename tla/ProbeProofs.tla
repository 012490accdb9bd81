----------------------------- MODULE ProbeProofs -----------------------------
(***************************************************************************)
(* Theorems about Probe, for every set of addresses, every resolver and    *)
(* every length of the run of failures: the inductive invariant IInv, the  *)
(* safety properties of the runs, and the step-by-step implementation of   *)
(* TargetRotation.                                                         *)
(***************************************************************************)
EXTENDS Probe, AddressRingProofs

USE DEF R

-----------------------------------------------------------------------------

\* An answer of the resolver is not empty, holds addresses only, and its first
\* entry is one of them.
LEMMA AnswerProperty ==
  ASSUME NEW fresh \in Answer
  PROVE  /\ Canonical(fresh) \in SUBSET Addr
         /\ Preferred(fresh) \in Canonical(fresh)
PROOF
<1>1. fresh \in Seq(Addr) /\ fresh # << >>
  BY AnswerAssumption
<1>2. 1 \in DOMAIN fresh /\ Head(fresh) = fresh[1]
  BY <1>1
<1> QED
  BY <1>1, <1>2 DEF Canonical, Preferred, Range

\* The address apply_resolution chooses is one of the new list.
LEMMA NextTargetProperty ==
  ASSUME NEW fresh \in Answer, NEW a
  PROVE  NextTarget(Canonical(fresh), a, Preferred(fresh)) \in Canonical(fresh)
PROOF
<1>1. Canonical(fresh) \in SUBSET Nat
  BY AnswerProperty, AddrAssumption
<1> QED
  BY <1>1, AnswerProperty, SuccessorProperty DEF NextTarget

\* The initial states satisfy the inductive invariant.
LEMMA InitIInv == Init => IInv
PROOF
  BY RunAssumption, AddrAssumption DEF Init, IInv, TypeOK, Exporters, Steps, NoAddr, Started,
     AimsAtAnAnswer, EveryAnswerGetsItsTurn, CountdownIsARun, NoOrphanProbing

\* rotate_target preserves the inductive invariant: the step that chooses a
\* new address, and the only one the ring matters to.
LEMMA RotateTargetIInv == IInv /\ RotateTarget => IInv'
PROOF
<1> SUFFICES ASSUME IInv, RotateTarget PROVE IInv'
  OBVIOUS
<1> USE RunAssumption DEF IInv
<1>1. /\ pc = "rotate" /\ pc' = "export"
      /\ current \in addrs /\ missed = R /\ failures_until_reresolve = R
      /\ UNCHANGED <<export, failures_until_reresolve, outcome, zone, up, stdout, orphaned>>
  BY DEF RotateTarget, AimsAtAnAnswer, CountdownIsARun, Started, environment
<1>2. CASE UNCHANGED <<addrs, current, missed, tried>>
  BY <1>1, <1>2 DEF TypeOK, Steps, Started, AimsAtAnAnswer, EveryAnswerGetsItsTurn,
       CountdownIsARun, NoOrphanProbing, Arc
<1>3. CASE \E fresh \in AnswersFor(zone) : ApplyResolution(fresh)
  <2>1. PICK fresh \in Answer : ApplyResolution(fresh)
    BY <1>3 DEF AnswersFor
  <2>2. addrs' \in SUBSET Addr /\ current' \in addrs'
    BY <2>1, AnswerProperty, NextTargetProperty DEF ApplyResolution
  <2>3. missed' \in 0..R
    BY <2>1 DEF ApplyResolution, TypeOK
  <2>4. /\ current' \notin tried' /\ tried' \subseteq addrs'
        /\ \A x \in tried' : Arc(addrs', x, current') \subseteq tried'
    <3>1. CASE tried' = {}
      BY <3>1
    <3>2. CASE tried' # {}
      <4>1. addrs' = addrs /\ tried \cup {current} # addrs /\ tried' = tried \cup {current}
        BY <2>1, <3>2 DEF ApplyResolution
      <4>2. current' = Successor(addrs, current)
        BY <1>1, <2>1, <4>1 DEF ApplyResolution, NextTarget
      <4>3. /\ addrs \in SUBSET Nat /\ tried \in SUBSET addrs /\ current \notin tried
            /\ \A x \in tried : Arc(addrs, x, current) \subseteq tried
        BY AddrAssumption DEF TypeOK, EveryAnswerGetsItsTurn
      <4>4. /\ Successor(addrs, current) \notin tried \cup {current}
            /\ \A x \in tried \cup {current} :
                 Arc(addrs, x, Successor(addrs, current)) \subseteq tried \cup {current}
        BY <1>1, <4>1, <4>3, SweepStep
      <4> QED
        BY <1>1, <4>1, <4>2, <4>3, <4>4
    <3> QED
      BY <3>1, <3>2
  <2> QED
    BY <1>1, <2>2, <2>3, <2>4 DEF TypeOK, Steps, Started, AimsAtAnAnswer,
       EveryAnswerGetsItsTurn, CountdownIsARun, NoOrphanProbing
<1> QED
  BY <1>2, <1>3 DEF RotateTarget

\* Every step of the process or its environment preserves the inductive invariant.
LEMMA NextIInv == IInv /\ [Next]_vars => IInv'
PROOF
<1> SUFFICES ASSUME IInv, [Next]_vars PROVE IInv'
  OBVIOUS
<1> USE RunAssumption, AddrAssumption
    DEF IInv, TypeOK, Exporters, Steps, NoAddr, Started, AimsAtAnAnswer,
        EveryAnswerGetsItsTurn, CountdownIsARun, NoOrphanProbing, environment, history, process
<1>1. CASE StartupResolve
  <2>1. CASE pc' = "exited" /\ UNCHANGED <<addrs, current>>
    BY <1>1, <2>1 DEF StartupResolve
  <2>2. CASE pc' = "exporter"
    <3>1. PICK fresh \in Answer : addrs' = Canonical(fresh) /\ current' = Preferred(fresh)
      BY <1>1, <2>2 DEF StartupResolve, AnswersFor
    <3>2. addrs' \in SUBSET Addr /\ current' \in addrs'
      BY <3>1, AnswerProperty
    <3> QED
      BY <1>1, <2>2, <3>2 DEF StartupResolve
  <2> QED
    BY <1>1, <2>1, <2>2 DEF StartupResolve
<1>2. CASE OpenExporter
  BY <1>2 DEF OpenExporter
<1>3. CASE MeasureOk
  <2>1. Min({2, orphaned + 1}) \in 0..2 /\ (orphaned = 0 => Min({2, orphaned + 1}) = 1)
    BY MinProperty
  <2> QED
    BY <1>3, <2>1 DEF MeasureOk, CountdownAfterOk
<1>4. CASE MeasureErr
  <2>1. Min({2, orphaned + 1}) \in 0..2 /\ (orphaned = 0 => Min({2, orphaned + 1}) = 1)
    BY MinProperty
  <2> QED
    BY <1>4, <2>1 DEF MeasureErr, CountdownAfterErr
<1>5. CASE RotateTarget
  BY <1>5, RotateTargetIInv
<1>6. CASE Export
  BY <1>6 DEF Export, ExportReturns, ExportResults, GivesUp
<1>7. CASE Sleep
  BY <1>7 DEF Sleep
<1>8. CASE Respawn
  BY <1>8 DEF Respawn
<1>9. CASE ZoneChanges \/ NetworkChanges \/ CollectdGoes
  BY <1>9 DEF ZoneChanges, NetworkChanges, CollectdGoes
<1>10. CASE ParseArgs
  BY <1>10 DEF ParseArgs
<1>11. CASE UNCHANGED vars
  BY <1>11 DEF vars
<1> QED
  BY <1>1, <1>2, <1>3, <1>4, <1>5, <1>6, <1>7, <1>8, <1>9, <1>10, <1>11 DEF Next, Cycle

\* The inductive invariant holds in every reachable state.
THEOREM Invariance == Spec => []IInv
PROOF
<1>1. IInv /\ [Next]_vars => IInv'
  BY NextIInv
<1> QED
  BY InitIInv, <1>1, PTL DEF Spec

-----------------------------------------------------------------------------

\* In every reachable state the process has a well-typed state.
THEOREM TypeCorrect == Spec => []TypeOK
PROOF
<1>1. IInv => TypeOK
  BY DEF IInv
<1> QED
  BY Invariance, <1>1, PTL

\* A started probe always aims at an address of the answers it holds: an
\* address that vanished from them is never kept (apply_resolution).
THEOREM AimsAtAnAnswerAlways == Spec => []AimsAtAnAnswer
PROOF
<1>1. IInv => AimsAtAnAnswer
  BY DEF IInv
<1> QED
  BY Invariance, <1>1, PTL

\* Whatever order the resolver lists unchanged answers in, rotate_target never
\* returns to an address before it has given up all the others.
THEOREM EveryAnswerGetsItsTurnAlways == Spec => []EveryAnswerGetsItsTurn
PROOF
<1>1. IInv => EveryAnswerGetsItsTurn
  BY DEF IInv
<1> QED
  BY Invariance, <1>1, PTL

\* rotate_target is called only after R consecutive failures of one address.
THEOREM CountdownIsARunAlways == Spec => []CountdownIsARun
PROOF
<1>1. IInv => CountdownIsARun
  BY DEF IInv
<1> QED
  BY Invariance, <1>1, PTL

\* A process whose Exec pipe has closed measures at most once more.
THEOREM NoOrphanProbingAlways == Spec => []NoOrphanProbing
PROOF
<1>1. IInv => NoOrphanProbing
  BY DEF IInv
<1> QED
  BY Invariance, <1>1, PTL

\* An address that is still answered is left only after R consecutive failures
\* of that same address, by whichever step changes the selection.
THEOREM LeavesOnlyAfterARunAlways == Spec => LeavesOnlyAfterARun
PROOF
<1> DEFINE A == Started /\ current' # current /\ pc' # "parse" /\ current \in addrs'
                 => missed = R
<1>1. IInv /\ [Next]_vars => [A]_vars
  <2> SUFFICES ASSUME IInv, [Next]_vars, Started, current' # current, pc' # "parse"
               PROVE  missed = R
    BY DEF vars
  <2>1. CASE RotateTarget
    BY <2>1 DEF IInv, CountdownIsARun, Started, RotateTarget
  <2> QED
    BY <2>1 DEF Next, Cycle, ParseArgs, StartupResolve, OpenExporter, MeasureOk, MeasureErr, Export, ExportReturns,
       Sleep, Respawn, ZoneChanges, NetworkChanges, CollectdGoes, process, environment,
       history, vars, Started
<1> QED
  BY Invariance, <1>1, PTL DEF Spec, LeavesOnlyAfterARun

-----------------------------------------------------------------------------

\* Every step of the probe is a step of TargetRotation or leaves its
\* variables unchanged.
LEMMA RotationStep == IInv /\ [Next]_vars => [Rotation!Next]_(Rotation!vars)
PROOF
<1> SUFFICES ASSUME IInv, [Next]_vars PROVE [Rotation!Next]_(Rotation!vars)
  OBVIOUS
<1> USE RunAssumption, AddrAssumption
    DEF process, environment, history, Rotation!Next, Rotation!vars
<1>1. CASE StartupResolve
  <2>1. CASE UNCHANGED <<addrs, current>>
    BY <1>1, <2>1 DEF StartupResolve
  <2>2. CASE \E fresh \in AnswersFor(zone) : /\ addrs' = Canonical(fresh)
                                            /\ current' = Preferred(fresh)
    <3>1. PICK fresh \in Answer : addrs' = Canonical(fresh) /\ current' = Preferred(fresh)
      BY <2>2 DEF AnswersFor
    <3>2. addrs' \in SUBSET Addr /\ current' \in addrs' /\ current' \in Nat
      BY <3>1, AnswerProperty
    <3>3. current = NoAddr /\ missed = 0 /\ missed' = 0 /\ NoAddr \notin addrs'
      BY <1>1, <3>2 DEF StartupResolve, IInv, NoAddr
    <3>4. Rotation!Adopt
      BY <3>2, <3>3 DEF Rotation!Adopt
    <3> QED
      BY <3>4
  <2> QED
    BY <1>1, <2>1, <2>2 DEF StartupResolve
<1>2. CASE MeasureOk
  <2>1. current # NoAddr
    BY <1>2 DEF MeasureOk, IInv, AimsAtAnAnswer, Started, TypeOK, NoAddr
  <2> QED
    BY <1>2, <2>1 DEF MeasureOk, Rotation!Hit
<1>3. CASE MeasureErr
  <2>1. current # NoAddr
    BY <1>3 DEF MeasureErr, IInv, AimsAtAnAnswer, Started, TypeOK, NoAddr
  <2> QED
    BY <1>3, <2>1 DEF MeasureErr, Rotation!Miss
<1>4. CASE RotateTarget
  <2>1. CASE UNCHANGED <<addrs, current, missed, tried>>
    BY <2>1
  <2>2. CASE \E fresh \in AnswersFor(zone) : ApplyResolution(fresh)
    <3>1. PICK fresh \in Answer : ApplyResolution(fresh)
      BY <2>2 DEF AnswersFor
    <3>2. addrs' \in SUBSET Addr /\ current' \in addrs'
      BY <3>1, AnswerProperty, NextTargetProperty DEF ApplyResolution
    <3>3. missed = R /\ missed' = IF current' = current THEN missed ELSE 0
      BY <1>4, <3>1 DEF RotateTarget, ApplyResolution, IInv, CountdownIsARun, Started
    <3>4. Rotation!Adopt
      BY <3>2, <3>3 DEF Rotation!Adopt
    <3> QED
      BY <3>4
  <2> QED
    BY <1>4, <2>1, <2>2 DEF RotateTarget
<1>5. CASE Respawn
  BY <1>5 DEF Respawn, Rotation!Restart
<1>6. CASE ParseArgs \/ OpenExporter \/ Export \/ Sleep \/ ZoneChanges \/ NetworkChanges
             \/ CollectdGoes \/ UNCHANGED vars
  BY <1>6 DEF ParseArgs, OpenExporter, Export, ExportReturns, Sleep, ZoneChanges, NetworkChanges, CollectdGoes, vars
<1> QED
  BY <1>1, <1>2, <1>3, <1>4, <1>5, <1>6 DEF Next, Cycle

\* run_probe implements TargetRotation: it aims only at answers of the
\* resolver and gives up an address that is still answered only after R
\* consecutive failures of it, for every resolver and every network.
THEOREM ProbeImplementsTargetRotation == Spec => ImplementsTargetRotation
PROOF
<1>1. Init => Rotation!Init
  BY DEF Init, Rotation!Init
<1>2. IInv /\ [Next]_vars => [Rotation!Next]_(Rotation!vars)
  BY RotationStep
<1> QED
  BY Invariance, <1>1, <1>2, PTL DEF Spec, ImplementsTargetRotation, Rotation!Spec

=============================================================================
