------------------------ MODULE ReceiverPipelineProofs ------------------------
(***************************************************************************)
(* Proofs about ReceiverPipeline, for any number of stages, any batch, any *)
(* pipe size and any input.                                                *)
(***************************************************************************)
EXTENDS ReceiverPipeline, TLAPS

Bad == {"failed", "killed"}

\* What the program knows in each phase.  Only in the collecting loop are there
\* results; before the first error nothing has been cancelled.
Phases ==
    /\ pc = "start" => waited = {} /\ results = <<>> /\ err = "none" /\ ~cancelled
    /\ pc = "collect" => /\ Started = Stage /\ err # "start"
                         /\ cancelled => err # "none"
    /\ pc = "abort" => results = <<>> /\ err = "start"
    /\ pc = "done" => Running = {}

\* A stage that was waited for has ended.
WaitedEnded == \A i \in waited : proc[i] \in Ended

\* While no error is known, what broke the pipeline is still to come: a stage to
\* be waited for, or an error in the channel.
FailuresInChannel ==
    pc \in {"start", "collect"} /\ err = "none" /\ item \in broken =>
      \/ \E i \in Stage \ waited : proc[i] \in Bad
      \/ \E k \in 1..Len(results) : results[k] # "none"

\* A pipeline is broken when a process failed or did not start or its output was
\* lost; an error is known only then or after a signal.
BrokenMeans ==
    /\ broken \subseteq {item}
    /\ \A i \in Stage : proc[i] \in Bad => item \in broken
    /\ \A k \in 1..Len(results) : results[k] \in Bad \cup {"copy"} => item \in broken
    /\ err # "none" => item \in broken \/ signalled

\* A process was killed, or its context ended, because of an error that is known
\* or by a signal.
KillHasCause ==
    /\ ~cancelled /\ (\E i \in Stage : proc[i] = "killed") => signalled
    /\ ~cancelled /\ (\E k \in 1..Len(results) : results[k] \in {"killed", "context"})
         => signalled
    /\ err \in {"killed", "context"} => signalled

IInv ==
    /\ TypeOK
    /\ Phases
    /\ WaitedEnded
    /\ FailuresInChannel
    /\ BrokenMeans
    /\ FailureReported
    /\ KillHasCause

LEMMA InitEstablishes == Init => IInv
<1> SUFFICES ASSUME Init PROVE IInv
  OBVIOUS
<1>1. TypeOK
  <2>1. NewProcs \in [Stage -> {"new", "running"} \cup Ended]
    BY DEF NewProcs
  <2>2. NewPipes \in [Stage -> Nat]
    BY ConstantsAssumption DEF NewPipes
  <2>3. 1 \in 1..Items /\ <<>> \in Seq(WaitErrors)
    BY ConstantsAssumption
  <2> QED
    BY <2>1, <2>2, <2>3 DEF Init, TypeOK, WaitErrors
<1>2. Phases /\ WaitedEnded /\ FailuresInChannel /\ BrokenMeans
  BY DEF Init, Phases, WaitedEnded, FailuresInChannel, BrokenMeans, Bad,
         NewProcs, Running
<1>3. FailureReported /\ KillHasCause
  BY DEF Init, FailureReported, KillHasCause, NewProcs
<1> QED
  BY <1>1, <1>2, <1>3 DEF IInv

LEMMA StepPreserves == IInv /\ [Next]_vars => IInv'
<1> SUFFICES ASSUME IInv, [Next]_vars PROVE IInv'
  OBVIOUS
<1> USE ConstantsAssumption DEF IInv, TypeOK, Phases, WaitedEnded,
        FailuresInChannel, BrokenMeans, FailureReported, KillHasCause, Running,
        Started, Ended, Bad, WaitErrors
<1>0. CASE UNCHANGED vars
  BY <1>0 DEF vars
<1>1. ASSUME NEW i \in Stage, Start(i) PROVE IInv'
  BY <1>1 DEF Start, Stage
<1>2. ASSUME NEW i \in Stage, WaitStarted(i) PROVE IInv'
  BY <1>2 DEF WaitStarted
<1>3. CASE ReturnStartError
  BY <1>3 DEF ReturnStartError, Return
<1>4. ASSUME NEW i \in Stage, Wait(i) PROVE IInv'
  <2>1. PICK e \in WaitError(i) :
          /\ results' = Append(results, e)
          /\ broken' = IF e = "copy" THEN broken \cup {item} ELSE broken
    BY <1>4 DEF Wait
  <2>2. /\ pc = "collect" /\ i \notin waited /\ waited' = waited \cup {i}
        /\ proc[i] \in Ended
        /\ UNCHANGED <<item, pc, proc, pipe, cancelled, signalled, err>>
    BY <1>4 DEF Wait
  <2>3. /\ e \in WaitErrors
        /\ proc[i] \in Bad => e # "none"
        /\ e \in Bad => proc[i] = e
        /\ e = "context" => cancelled \/ signalled
    BY <2>1, <2>2 DEF WaitError
  <2>4. /\ results' \in Seq(WaitErrors) /\ Len(results') = Len(results) + 1
        /\ results'[Len(results) + 1] = e
        /\ Len(results) \in Nat
        /\ \A k \in 1..Len(results) : results'[k] = results[k]
    BY <2>1, <2>3
  <2>5. \A k \in 1..Len(results') : k \in 1..Len(results) \/ k = Len(results) + 1
    BY <2>4
  <2>6. TypeOK' /\ Phases' /\ WaitedEnded'
    BY <2>1, <2>2, <2>4
  <2>7. FailuresInChannel'
    <3> SUFFICES ASSUME err = "none", item \in broken',
                        \A j \in Stage \ (waited \cup {i}) : proc[j] \notin Bad
                 PROVE  \E k \in 1..Len(results') : results'[k] # "none"
      BY <2>2
    <3>1. CASE e # "none"
      <4>1. Len(results) + 1 \in 1..Len(results')
        BY <2>4
      <4> QED
        BY <3>1, <4>1, <2>4
    <3>2. CASE e = "none"
      <4>1. item \in broken /\ \A j \in Stage \ waited : proc[j] \notin Bad
        BY <3>2, <2>1, <2>3
      <4>2. PICK k \in 1..Len(results) : results[k] # "none"
        BY <4>1, <2>2
      <4> QED
        BY <4>2, <2>4
    <3> QED
      BY <3>1, <3>2
  <2>8. BrokenMeans'
    BY <2>1, <2>2, <2>3, <2>4, <2>5
  <2>9. KillHasCause' /\ FailureReported'
    BY <2>2, <2>3, <2>4, <2>5
  <2> QED
    BY <2>6, <2>7, <2>8, <2>9
<1>5. CASE Collect
  <2>1. /\ results' \in Seq(WaitErrors) /\ Len(results') = Len(results) - 1
        /\ Len(results) \in Nat /\ Len(results) >= 1 /\ Result = results[1]
        /\ \A k \in 1..(Len(results) - 1) : results'[k] = results[k + 1]
    BY <1>5 DEF Collect, Result
  <2>2. Result \in WaitErrors /\ 1 \in 1..Len(results)
    BY <2>1
  <2>3. \A k \in 1..Len(results') : /\ k + 1 \in 1..Len(results)
                                    /\ results'[k] = results[k + 1]
    BY <2>1
  <2>4. TypeOK' /\ Phases' /\ WaitedEnded' /\ FailureReported'
    BY <1>5, <2>1, <2>2 DEF Collect, NoteResult
  <2>5. BrokenMeans' /\ KillHasCause'
    <3>1. Result = "none" \/ item \in broken \/ signalled \/ err # "none"
      BY <1>5, <2>1, <2>2 DEF Collect
    <3>2. Result \in {"killed", "context"} /\ err = "none" => signalled
      BY <1>5, <2>1, <2>2 DEF Collect
    <3>3. /\ err' = IF err = "none" THEN Result ELSE err
          /\ cancelled' = (cancelled \/ err' # "none")
          /\ UNCHANGED <<item, proc, signalled, broken>>
      BY <1>5 DEF Collect, NoteResult
    <3>4. BrokenMeans'
      BY <2>3, <3>1, <3>3
    <3>5. ~cancelled' => ~cancelled
      BY <3>3
    <3> QED
      BY <2>3, <3>2, <3>3, <3>4, <3>5
  <2>6. FailuresInChannel'
    <3> SUFFICES ASSUME err' = "none", item \in broken,
                        \A j \in Stage \ waited : proc[j] \notin Bad
                 PROVE  \E k \in 1..Len(results') : results'[k] # "none"
      BY <1>5 DEF Collect
    <3>1. err = "none" /\ results[1] = "none"
      BY <1>5, <2>1, <2>2 DEF Collect, NoteResult
    <3>2. PICK k \in 1..Len(results) : results[k] # "none"
      BY <1>5, <3>1 DEF Collect
    <3>3. k # 1
      BY <3>1, <3>2
    <3>4. k \in Nat /\ 2 <= k /\ k <= Len(results) /\ Len(results) \in Nat
      BY <3>2, <3>3, <2>1
    <3>5. /\ k - 1 \in 1..(Len(results) - 1) /\ k - 1 \in 1..Len(results')
          /\ (k - 1) + 1 = k
      BY ONLY <3>4, <2>1
    <3>6. results'[k - 1] # "none"
      BY ONLY <3>2, <3>5, <2>1
    <3> QED
      BY <3>5, <3>6
  <2> QED
    BY <2>4, <2>5, <2>6
<1>6. CASE CollectLast
  <2> DEFINE e == IF err = "none" THEN Result ELSE err
  <2>1. results' = <<>> /\ Len(results) = 1 /\ Result = results[1]
    BY <1>6 DEF CollectLast, Result
  <2>2. Result \in WaitErrors /\ 1 \in 1..Len(results)
        /\ \A k \in 1..Len(results) : k = 1
    <3>1. 1 \in 1..Len(results) /\ \A k \in 1..Len(results) : k = 1
      BY <2>1
    <3>2. results \in Seq(WaitErrors)
      OBVIOUS
    <3>3. results[1] \in WaitErrors
      BY ONLY <3>1, <3>2
    <3> QED
      BY <2>1, <3>1, <3>3
  <2>3. Running = {} /\ waited = Stage
    BY <1>6 DEF CollectLast
  <2>4. ASSUME e = "none" PROVE broken = {}
    <3>1. err = "none" /\ results[1] = "none"
      BY <2>1, <2>4
    <3>2. item \notin broken
      BY <1>6, <2>2, <2>3, <3>1 DEF CollectLast
    <3> QED
      BY <3>2
  <2>5. e # "none" => item \in broken \/ signalled
    BY <1>6, <2>1, <2>2 DEF CollectLast
  <2>6. e \in {"killed", "context"} => signalled
    BY <1>6, <2>1, <2>2 DEF CollectLast
  <2>7. CASE e = "none" /\ item < Items
    <3>1. /\ item' = item + 1 /\ pc' = "start" /\ waited' = {} /\ err' = "none"
          /\ cancelled' = FALSE /\ broken' = {} /\ UNCHANGED signalled
          /\ proc' = NewProcs /\ pipe' = NewPipes
      BY <1>6, <2>4, <2>7 DEF CollectLast, Return
    <3>2. /\ \A j \in Stage : proc'[j] = "new"
          /\ proc' \in [Stage -> {"new", "running"} \cup Ended]
      BY <3>1 DEF NewProcs
    <3>3. pipe' \in [Stage -> Nat]
      BY <3>1 DEF NewPipes
    <3>4. item' \in 1..Items /\ results' \in Seq(WaitErrors) /\ Len(results') = 0
      BY <3>1, <2>1, <2>7
    <3>5. TypeOK'
      BY <3>1, <3>2, <3>3, <3>4
    <3>6. Phases' /\ WaitedEnded' /\ FailuresInChannel'
      BY <3>1, <3>4, <2>1
    <3>7. BrokenMeans' /\ FailureReported' /\ KillHasCause'
      BY <3>1, <3>2, <3>4
    <3> QED
      BY <3>5, <3>6, <3>7
  <2>8. CASE ~(e = "none" /\ item < Items)
    <3>1. /\ pc' = "done" /\ err' = e
          /\ UNCHANGED <<item, proc, pipe, waited, cancelled, signalled, broken>>
      BY <1>6, <2>8 DEF CollectLast, Return
    <3>2. results' \in Seq(WaitErrors) /\ Len(results') = 0
      BY <2>1
    <3>3. e \in WaitErrors \cup {"start"}
      BY <2>2
    <3>4. TypeOK' /\ Phases' /\ WaitedEnded' /\ FailuresInChannel'
      BY <3>1, <3>2, <3>3, <2>3
    <3>5. BrokenMeans' /\ KillHasCause'
      BY <3>1, <3>2, <2>5, <2>6
    <3>6. FailureReported'
      BY <3>1, <2>4, <2>5
    <3> QED
      BY <3>4, <3>5, <3>6
  <2> QED
    BY <2>7, <2>8
<1>7. CASE ResolveFails
  BY <1>7 DEF ResolveFails, Return
<1>8. CASE StartFails
  BY <1>8 DEF StartFails
<1>9. ASSUME NEW i \in Stage, Step(i) PROVE IInv'
  <2>1. pipe' \in [Stage -> Nat]
    <3>1. CASE i = Stages
      BY <1>9, <3>1 DEF Step
    <3>2. CASE i # Stages
      BY <1>9, <3>2 DEF Step
    <3> QED
      BY <3>1, <3>2
  <2> QED
    BY <1>9, <2>1 DEF Step
<1>10. ASSUME NEW i \in Stage, Ends(i) PROVE IInv'
  BY <1>10 DEF Ends
<1>11. ASSUME NEW i \in Stage, Fails(i) PROVE IInv'
  BY <1>11 DEF Fails
<1>12. ASSUME NEW i \in Stage, Killed(i) PROVE IInv'
  BY <1>12 DEF Killed
<1>13. CASE Signal
  BY <1>13 DEF Signal
<1>14. CASE Finished
  BY <1>14, <1>0 DEF Finished
<1> QED
  BY <1>0, <1>1, <1>2, <1>3, <1>4, <1>5, <1>6, <1>7, <1>8, <1>9, <1>10, <1>11,
     <1>12, <1>13, <1>14 DEF Next, Program

-----------------------------------------------------------------------------
\* The inductive invariant holds in every reachable state.
THEOREM PipelineInvariant == Spec => []IInv
<1>1. Init => IInv
  BY InitEstablishes
<1>2. IInv /\ [Next]_vars => IInv'
  BY StepPreserves
<1> QED
  BY <1>1, <1>2, PTL DEF Spec

\* The variables of executeReceiverPipeline keep their types.
THEOREM PipelineTypeCorrect == Spec => []TypeOK
<1>1. IInv => TypeOK
  BY DEF IInv
<1> QED
  BY <1>1, PipelineInvariant, PTL

\* No failure is lost: the command fails if a process failed, was not started or
\* lost its output, and otherwise only after a signal.
THEOREM NoFailureLost == Spec => []FailureReported
<1>1. IInv => FailureReported
  BY DEF IInv
<1> QED
  BY <1>1, PipelineInvariant, PTL

\* The error reported is not one that the program's own cancellation caused.
THEOREM FirstFailureReported == Spec => []OwnFailureReported
<1>1. IInv => OwnFailureReported
  BY DEF IInv, KillHasCause, OwnFailureReported
<1> QED
  BY <1>1, PipelineInvariant, PTL

\* No command of a batch runs after one that failed.
THEOREM BatchStopsAtFailure == Spec => []NothingAfterFailure
<1>1. IInv => NothingAfterFailure
  BY DEF IInv, BrokenMeans, NothingAfterFailure
<1> QED
  BY <1>1, PipelineInvariant, PTL

\* When a pipeline returns, each process it started has ended and was waited for.
THEOREM EverythingReaped == Spec => NothingLeftRunning
<1> DEFINE Returns == (pc' = "done" /\ pc # "done") \/ item' # item
           Reaped == Returns => Running = {} /\ Started = waited
<1>1. IInv /\ [Next]_vars => [Reaped]_vars
  <2> SUFFICES ASSUME IInv, Next, Returns PROVE Running = {} /\ Started = waited
    BY DEF vars
  <2> USE DEF IInv, Phases, WaitedEnded, Running, Started, Ended, TypeOK
  <2>1. CASE CollectLast
    BY <2>1 DEF CollectLast
  <2>2. CASE ReturnStartError
    BY <2>2 DEF ReturnStartError
  <2>3. CASE ResolveFails
    BY <2>3 DEF ResolveFails
  <2>4. CASE Collect \/ StartFails \/ Signal \/ Finished
    BY <2>4 DEF Collect, StartFails, Signal, Finished, vars
  <2>5. CASE \E i \in Stage : \/ Start(i) \/ WaitStarted(i) \/ Wait(i)
                              \/ Step(i) \/ Ends(i) \/ Fails(i) \/ Killed(i)
    BY <2>5 DEF Start, WaitStarted, Wait, Step, Ends, Fails, Killed
  <2> QED
    BY <2>1, <2>2, <2>3, <2>4, <2>5 DEF Next, Program
<1> QED
  BY <1>1, PipelineInvariant, PTL DEF Spec, NothingLeftRunning
=============================================================================
