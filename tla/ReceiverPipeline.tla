--------------------------- MODULE ReceiverPipeline ---------------------------
(***************************************************************************)
(* executeReceiverCommandPlan for the plans that start processes: a batch  *)
(* of pipelines, run one after the other.  A pipeline plan is a batch of   *)
(* one; the commands of a batch plan are pipelines of one stage.           *)
(*                                                                         *)
(* The program starts the stages in order and waits for each one in a      *)
(* goroutine of its own; the first error it collects cancels the context,  *)
(* which kills the stages that are left.  A pipe between two stages holds  *)
(* Capacity blocks.  The program itself holds the reading end of a stage's *)
(* output until it has waited for the stage, so a stage whose reader has   *)
(* died does not get a broken pipe: it blocks when the pipe is full.       *)
(***************************************************************************)
EXTENDS Naturals, Sequences

CONSTANTS
    Stages,    \* stages per pipeline
    Items,     \* pipelines in the batch
    Capacity,  \* blocks a pipe holds
    Input      \* blocks on the standard input (a batch of destroys reads none)

ASSUME ConstantsAssumption ==
    /\ {Stages, Items, Capacity} \subseteq Nat \ {0}
    /\ Input \in Nat

VARIABLES
    item,      \* the pipeline of the batch that runs
    pc,        \* where executeReceiverPipeline is
    proc,      \* state of each stage's process
    pipe,      \* blocks waiting on each stage's standard input
    waited,    \* stages whose Wait has returned
    results,   \* the results channel: errors, in the order Wait returned them
    cancelled, \* cancel() has been called
    signalled, \* SIGTERM or SIGINT has ended the parent context
    err,       \* firstErr, or the error that start-up ended with
    broken     \* history: pipelines of which a process failed or did not start,
               \* or whose output did not get through

vars == <<item, pc, proc, pipe, waited, results, cancelled, signalled, err, broken>>

Stage == 1..Stages
Ended == {"ok", "failed", "killed"}

\* What commandExitError makes of the end of a process: nothing, its exit code or
\* the signal that killed it, the context's error, or that of copying its output.
WaitErrors == {"none", "failed", "killed", "context", "copy"}

TypeOK ==
    /\ item \in 1..Items
    /\ pc \in {"start", "collect", "abort", "done"}
    /\ proc \in [Stage -> {"new", "running"} \cup Ended]
    /\ pipe \in [Stage -> Nat]
    /\ waited \subseteq Stage
    /\ results \in Seq(WaitErrors)
    /\ cancelled \in BOOLEAN
    /\ signalled \in BOOLEAN
    /\ err \in WaitErrors \cup {"start"}
    /\ broken \subseteq 1..Items

Running  == {i \in Stage : proc[i] = "running"}
Started  == {i \in Stage : proc[i] # "new"}

-----------------------------------------------------------------------------
NewProcs == [i \in Stage |-> "new"]
NewPipes == [i \in Stage |-> IF i = 1 THEN Input ELSE 0]

Init ==
    /\ item = 1
    /\ pc = "start"
    /\ proc = NewProcs
    /\ pipe = NewPipes
    /\ waited = {}
    /\ results = <<>>
    /\ cancelled = FALSE
    /\ signalled = FALSE
    /\ err = "none"
    /\ broken = {}

-----------------------------------------------------------------------------
(* The program.                                                             *)

\* Mutant: the batch goes on after an error, and reports the last one.
ReturnAndGoOn(e) ==
    IF item < Items
      THEN /\ item' = item + 1
           /\ pc' = "start"
           /\ proc' = NewProcs /\ pipe' = NewPipes
           /\ waited' = {} /\ cancelled' = FALSE /\ err' = "none"
      ELSE /\ pc' = "done"
           /\ err' = e
           /\ UNCHANGED <<item, proc, pipe, waited, cancelled>>

\* executeReceiverPipeline returns; the batch goes on unless it failed.
Return(e) ==
    IF e = "none" /\ item < Items
      THEN /\ item' = item + 1
           /\ pc' = "start"
           /\ proc' = NewProcs /\ pipe' = NewPipes
           /\ waited' = {} /\ cancelled' = FALSE /\ err' = "none"
      ELSE /\ pc' = "done"
           /\ err' = e
           /\ UNCHANGED <<item, proc, pipe, waited, cancelled>>

\* A command is not found, before anything has been started.
ResolveFails ==
    /\ pc = "start" /\ Started = {}
    /\ Return("start")
    /\ broken' = broken \cup {item}
    /\ UNCHANGED <<results, signalled>>

\* The next stage; Start refuses once the context has ended.
Start(i) ==
    /\ pc = "start" /\ ~signalled
    /\ i \notin Started /\ \A j \in Stage : j < i => j \in Started
    /\ proc' = [proc EXCEPT ![i] = "running"]
    /\ pc' = IF i = Stages THEN "collect" ELSE pc
    /\ UNCHANGED <<item, pipe, waited, results, cancelled, signalled, err, broken>>

\* Mutant: the stages started before are left alone.
StartFailsReturns ==
    /\ pc = "start" /\ Started # Stage
    /\ broken' = broken \cup {item}
    /\ Return("start")
    /\ UNCHANGED <<results, signalled>>

\* Start fails: the stages started before are killed, and waited for.
StartFails ==
    /\ pc = "start" /\ Started # Stage
    /\ pc' = "abort"
    /\ cancelled' = TRUE
    /\ err' = "start"
    /\ broken' = broken \cup {item}
    /\ UNCHANGED <<item, proc, pipe, waited, results, signalled>>

\* waitReceiverCommands, in the order in which the stages were started.
WaitStarted(i) ==
    /\ pc = "abort" /\ i \notin waited
    /\ proc[i] \in Ended
    /\ \A j \in Stage : j < i => j \in waited
    /\ waited' = waited \cup {i}
    /\ UNCHANGED <<item, pc, proc, pipe, results, cancelled, signalled, err, broken>>

ReturnStartError ==
    /\ pc = "abort" /\ waited = Started
    /\ Return("start")
    /\ UNCHANGED <<results, signalled, broken>>

\* commandExitError(Wait) of stage i.  A process that ended well has the error
\* of its context all the same if the kill was sent before Wait reaped it; its
\* output, copied by goroutines of os/exec, may have got lost on the way.
WaitError(i) ==
    IF proc[i] # "ok" THEN {proc[i]}
    ELSE {"none", "copy"} \cup IF cancelled \/ signalled THEN {"context"} ELSE {}

\* A stage's goroutine: Wait, then a send on the buffered channel.
Wait(i) ==
    /\ pc = "collect" /\ i \notin waited
    /\ proc[i] \in Ended
    /\ waited' = waited \cup {i}
    /\ \E e \in WaitError(i) :
         /\ results' = Append(results, e)
         /\ broken' = IF e = "copy" THEN broken \cup {item} ELSE broken
    /\ UNCHANGED <<item, pc, proc, pipe, cancelled, signalled, err>>

\* The result at the head of the channel.
Result == Head(results)

\* Mutant: the first error is remembered, and the other stages go on.
FirstErrorOnly ==
    /\ err' = IF err = "none" THEN Result ELSE err
    /\ UNCHANGED cancelled

\* Mutant: the stages that are left are stopped as soon as one has ended.
CancelAtFirstEnd ==
    /\ err' = IF err = "none" THEN Result ELSE err
    /\ cancelled' = TRUE

\* The first error is kept, and cancels the context.
NoteResult ==
    /\ err' = IF err = "none" THEN Result ELSE err
    /\ cancelled' = (cancelled \/ err' # "none")

\* The collecting loop takes a result that is not the last.
Collect ==
    /\ pc = "collect" /\ results # <<>>
    /\ ~(waited = Stage /\ Len(results) = 1)
    /\ results' = Tail(results)
    /\ NoteResult
    /\ UNCHANGED <<item, pc, proc, pipe, waited, signalled, broken>>

\* Mutant: the error is that of the process that ended last.
CollectLastOnly ==
    /\ pc = "collect" /\ Len(results) = 1 /\ waited = Stage
    /\ results' = <<>>
    /\ Return(Result)
    /\ UNCHANGED <<signalled, broken>>

\* The last result; the error is the first one seen.
CollectLast ==
    /\ pc = "collect" /\ Len(results) = 1 /\ waited = Stage
    /\ results' = <<>>
    /\ Return(IF err = "none" THEN Result ELSE err)
    /\ UNCHANGED <<signalled, broken>>

Program ==
    \/ \E i \in Stage : Start(i) \/ WaitStarted(i) \/ Wait(i)
    \/ ReturnStartError
    \/ Collect
    \/ CollectLast

-----------------------------------------------------------------------------
(* The processes.                                                           *)

\* A stage takes a block and passes it on; the last one consumes it.
Step(i) ==
    /\ proc[i] = "running" /\ pipe[i] > 0
    /\ IF i = Stages
         THEN pipe' = [pipe EXCEPT ![i] = @ - 1]
         ELSE /\ pipe[i + 1] < Capacity
              /\ pipe' = [pipe EXCEPT ![i] = @ - 1, ![i + 1] = @ + 1]
    /\ UNCHANGED <<item, pc, proc, waited, results, cancelled, signalled, err, broken>>

\* A stage that has read its input to the end is done.
Ends(i) ==
    /\ proc[i] = "running" /\ pipe[i] = 0
    /\ i > 1 => proc[i - 1] \in Ended
    /\ proc' = [proc EXCEPT ![i] = "ok"]
    /\ UNCHANGED <<item, pc, pipe, waited, results, cancelled, signalled, err, broken>>

Fails(i) ==
    /\ proc[i] = "running"
    /\ proc' = [proc EXCEPT ![i] = "failed"]
    /\ broken' = broken \cup {item}
    /\ UNCHANGED <<item, pc, pipe, waited, results, cancelled, signalled, err>>

\* os/exec kills the process when its context ends.
Killed(i) ==
    /\ proc[i] = "running" /\ (cancelled \/ signalled)
    /\ proc' = [proc EXCEPT ![i] = "killed"]
    /\ broken' = broken \cup {item}
    /\ UNCHANGED <<item, pc, pipe, waited, results, cancelled, signalled, err>>

Signal ==
    /\ ~signalled /\ pc # "done"
    /\ signalled' = TRUE
    /\ UNCHANGED <<item, pc, proc, pipe, waited, results, cancelled, err, broken>>

Finished == pc = "done" /\ UNCHANGED vars

Next ==
    \/ Program
    \/ ResolveFails
    \/ StartFails
    \/ \E i \in Stage : Step(i) \/ Ends(i) \/ Fails(i) \/ Killed(i)
    \/ Signal
    \/ Finished

Spec == Init /\ [][Next]_vars

\* The program runs, a signalled start is refused, processes work on their input
\* while they can, and a kill arrives.
Fairness ==
    /\ WF_vars(Program)
    /\ WF_vars(signalled /\ StartFails)
    /\ \A i \in Stage : WF_vars(Step(i)) /\ WF_vars(Ends(i)) /\ WF_vars(Killed(i))

FairSpec == Spec /\ Fairness

-----------------------------------------------------------------------------
(* Properties.                                                              *)

\* A pipeline that returns leaves no process behind: everything it started has
\* ended and has been waited for, also when a later stage could not be started.
NothingLeftRunning ==
    [][(pc' = "done" /\ pc # "done") \/ item' # item =>
         Running = {} /\ Started = waited]_vars

\* No failure is lost among the results: the command fails if a process of some
\* pipeline was not started or failed or its output did not get through; and it
\* fails for no other reason, unless a signal came.
FailureReported ==
    pc = "done" => /\ broken # {} => err # "none"
                   /\ err # "none" => broken # {} \/ signalled

\* The error reported is that of a process that failed by itself, and not that
\* of one the program has cancelled because of it, unless a signal came.
OwnFailureReported == pc = "done" /\ err \in {"killed", "context"} => signalled

\* Nothing is destroyed after a command of the batch has failed.
NothingAfterFailure == broken \subseteq {item}

\* The command returns, although a stage whose reader has ended blocks on a full
\* pipe that the program holds open itself.
AlwaysReturns == <>(pc = "done")
=============================================================================
