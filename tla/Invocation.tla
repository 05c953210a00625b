------------------------------ MODULE Invocation ------------------------------
(***************************************************************************)
(* One run of the Python engine by the Go program: by the command line     *)
(* (internal/python/invoke.go, Invoke) or by the web server (invoke_ctx.go,*)
(* invokeCtxInner).  The engine prints its result envelope as its last act *)
(* and exits 0 (clean), 1 (vulnerabilities) or 2 (error); its exit, the    *)
(* deadline's kill, an interrupt or a cancellation, and a descendant that  *)
(* keeps the pipes open race each other, and the parent must say, from     *)
(* what is left of that race, what the run has done.  Module               *)
(* TestInvocation lets these actions take their turns, run after run.      *)
(*                                                                         *)
(* External: the engine, its descendants, and os/exec, whose Wait reaps    *)
(* the process, then drains its pipes for at most WaitDelay, and returns   *)
(* one error.  Abstracted: the envelope's contents, the logs, Windows.     *)
(***************************************************************************)
EXTENDS Integers

VARIABLES
    side,        \* "cli" or "server"
    child,       \* "running", "ended", "reaped"
    code,        \* its exit code, -1 for a death by signal
    out,         \* its stdout: "none", "part" (no envelope), or an envelope
    held,        \* a descendant holds the write end of a pipe
    ctx,         \* "live", "deadline" or "cancelled", whichever came first
    watched,     \* Cancel has found a process to kill: Wait will say so
    interrupted, \* SIGINT or SIGTERM has reached the parent (cli)
    pc,          \* the parent: "wait", "drain", "judge", "answered"
    waitErr,     \* what Wait returns: "none", "exit" (ExitError), "ctx" (the
                 \* context's error) or "delay" (ErrWaitDelay)
    answer       \* what the parent returns

vars == <<side, child, code, out, held, ctx, watched, interrupted, pc,
          waitErr, answer>>

Envelopes == {"success", "error"}
Result(status, c) == [kind |-> "result", status |-> status, code |-> c]
Failure(kind)     == [kind |-> kind, status |-> "none", code |-> -1]

Init ==
    /\ side \in {"cli", "server"} /\ held \in BOOLEAN
    /\ child = "running" /\ code = 0 /\ out = "none" /\ ctx = "live"
    /\ watched = FALSE /\ interrupted = FALSE /\ pc = "wait"
    /\ waitErr = "none" /\ answer = Failure("pending")

-----------------------------------------------------------------------------
(* The engine.                                                             *)

PrintEnvelope ==
    /\ child = "running"
    /\ out' \in CASE out = "none" -> {"part"} [] out = "part" -> Envelopes
                  [] OTHER -> {}
    /\ UNCHANGED <<side, child, code, held, ctx, watched, interrupted, pc,
                   waitErr, answer>>

\* 0 or 1 after a success envelope, 2 after an error envelope; without one, an
\* uncaught exception or a command that prints nothing.
CodesAfter(o) ==
    CASE o = "success" -> {0, 1} [] o = "error" -> {2} [] OTHER -> {0, 1, 2}

Ends(c) ==
    /\ child = "running" /\ child' = "ended" /\ code' = c
    /\ UNCHANGED <<side, out, held, ctx, interrupted, pc, waitErr, answer>>

ChildExits == (\E c \in CodesAfter(out) : Ends(c)) /\ UNCHANGED watched

\* A crash, the out-of-memory killer; an interrupt that it does not handle.
ChildDies == Ends(-1) /\ UNCHANGED watched

DescendantEnds ==
    /\ held /\ held' = FALSE
    /\ UNCHANGED <<side, child, code, out, ctx, watched, interrupted, pc,
                   waitErr, answer>>

-----------------------------------------------------------------------------
(* What reaches the parent.                                                *)

Waiting == pc \in {"wait", "drain", "judge"}

CtxDone(why) ==
    /\ Waiting /\ ctx = "live" /\ ctx' = why
    /\ UNCHANGED <<side, child, code, out, held, watched, interrupted, pc,
                   waitErr, answer>>

DeadlineFires == CtxDone("deadline")
JobCancelled  == side = "server" /\ CtxDone("cancelled")

\* The signal is forwarded, and five seconds later the process killed.
Interrupt ==
    /\ side = "cli" /\ Waiting /\ ~interrupted /\ interrupted' = TRUE
    /\ UNCHANGED <<side, child, code, out, held, ctx, watched, pc, waitErr, answer>>

ForceKill == interrupted /\ Ends(-1) /\ UNCHANGED watched

-----------------------------------------------------------------------------
(* os/exec: Cancel, once, when the context is done; then Wait.             *)

\* A process that has ended but is not reaped can be signalled all the same.
Cancel ==
    /\ ctx # "live" /\ pc = "wait" /\ ~watched /\ watched' = TRUE
    /\ IF child = "running" THEN Ends(-1)
       ELSE UNCHANGED <<side, child, code, out, held, ctx, interrupted, pc,
                        waitErr, answer>>

\* An exit other than 0 is what Wait reports, whatever else has happened; the
\* watching goroutine may still call Cancel when the process has been reaped.
Reap ==
    /\ pc = "wait" /\ child = "ended" /\ child' = "reaped" /\ pc' = "drain"
    /\ waitErr' \in IF code # 0 THEN {"exit"}
                    ELSE IF watched THEN {"ctx"}
                    ELSE IF ctx # "live" THEN {"none", "ctx"} ELSE {"none"}
    /\ UNCHANGED <<side, code, out, held, ctx, watched, interrupted, answer>>

\* Mutant of DrainEnds: the copying goroutines are waited for without bound.
DrainEndsAtEOF ==
    /\ pc = "drain" /\ pc' = "judge" /\ ~held
    /\ UNCHANGED <<side, child, code, out, held, ctx, watched, interrupted,
                   waitErr, answer>>

\* At the end of the output, or WaitDelay after the exit, pipes held or not.
DrainEnds ==
    /\ pc = "drain" /\ pc' = "judge"
    /\ waitErr' = IF held /\ waitErr = "none" THEN "delay" ELSE waitErr
    /\ UNCHANGED <<side, child, code, out, held, ctx, watched, interrupted, answer>>

-----------------------------------------------------------------------------
(* The parent's judgement.                                                 *)

Succeeded     == code = 0           \* ProcessState.Success()
DeadlineFired == ctx = "deadline"

\* exitErrIsKillArtifact
KillArtifact ==
    CASE waitErr = "exit" -> code < 0
      [] waitErr \in {"ctx", "delay"} -> DeadlineFired /\ ~Succeeded
      [] OTHER -> FALSE

\* normalizeExit
Normalized(c, isError) ==
    IF c < 0 \/ (isError /\ c < 2) THEN 2 ELSE c

\* The answer with an envelope, and, without one, that of the remaining cases.
WithEnvelope ==
    Result(out, Normalized(IF KillArtifact THEN -1 ELSE code, out = "error"))

WithoutEnvelope ==
    IF waitErr = "ctx" /\ ~(DeadlineFired /\ Succeeded) THEN Failure("failed")
    ELSE Result("error", Normalized(code, TRUE))

\* Mutant of CliAnswer: the deadline is diagnosed before stdout is looked at.
CliAnswerDeadlineFirst ==
    IF DeadlineFired THEN Failure("diagnosed")
    ELSE IF out \in Envelopes THEN WithEnvelope
    ELSE IF out = "none" /\ interrupted THEN Result("interrupted", 130)
    ELSE WithoutEnvelope

\* Invoke: the envelope, then the user's interrupt, then the deadline.
CliAnswer ==
    IF out \in Envelopes THEN WithEnvelope
    ELSE IF out = "none" /\ interrupted THEN Result("interrupted", 130)
    ELSE IF DeadlineFired /\ KillArtifact THEN Failure("diagnosed")
    ELSE WithoutEnvelope

\* deadlineOutcome looks for an envelope that is a line of its own; the engine
\* prints its envelope indented, over many lines.
EnvelopeOnOneLine == FALSE

DeadlineOutcome ==
    IF EnvelopeOnOneLine /\ out \in Envelopes
    THEN Result(out, IF out = "success" THEN 0 ELSE 2)
    ELSE Failure("diagnosed")

\* invokeCtxInner
ServerAnswer ==
    CASE waitErr = "none" -> Result(out, 0)
      [] waitErr = "exit" -> IF DeadlineFired /\ code < 0 THEN DeadlineOutcome
                             ELSE Result(out, code)
      [] waitErr \in {"ctx", "delay"} /\ DeadlineFired ->
            IF Succeeded THEN Result(out, code) ELSE DeadlineOutcome
      [] waitErr \in {"ctx", "delay"} /\ ctx = "cancelled" -> Failure("cancelled")
      [] OTHER -> Result(out, code)

Judge ==
    /\ pc = "judge" /\ pc' = "answered"
    /\ answer' = IF side = "cli" THEN CliAnswer ELSE ServerAnswer
    /\ UNCHANGED <<side, child, code, out, held, ctx, watched, interrupted, waitErr>>

ParentWork == Cancel \/ Reap \/ DrainEnds \/ Judge

-----------------------------------------------------------------------------
(* Properties.                                                             *)

TypeOK ==
    /\ side \in {"cli", "server"} /\ child \in {"running", "ended", "reaped"}
    /\ code \in -1..2 /\ out \in Envelopes \cup {"none", "part"}
    /\ held \in BOOLEAN /\ ctx \in {"live", "deadline", "cancelled"}
    /\ watched \in BOOLEAN /\ interrupted \in BOOLEAN
    /\ pc \in {"wait", "drain", "judge", "answered"}
    /\ waitErr \in {"none", "exit", "ctx", "delay"}

\* A run that was completed is not lost to the race: on the command line a
\* complete envelope is returned whatever else happened, an interrupt, the
\* deadline, a descendant; on either side an engine that has ended by itself
\* is reported with its own exit code, and never as a kill or a timeout, unless
\* the job was cancelled.
CompletedRunReturned ==
    pc = "answered" /\ out \in Envelopes =>
        /\ side = "cli" => answer.kind = "result" /\ answer.status = out
        /\ code >= 0 /\ ctx # "cancelled" =>
             answer.kind = "result" /\ answer.code = code

\* Nothing is reported as better, or other, than it was: "clean" and
\* "vulnerabilities" only of an engine that has exited so (on the command line,
\* with its envelope); a kill by the deadline only of one that was killed after
\* it; an interrupt only if there was one, and nothing was printed.
ReportedAsItEnded ==
    pc = "answered" =>
        /\ answer.kind = "result" /\ answer.code \in {0, 1} =>
             code = answer.code /\ (side = "cli" => out = "success")
        /\ answer.kind = "diagnosed" => code = -1 /\ DeadlineFired
        /\ answer.status = "interrupted" => interrupted /\ out = "none"
        /\ answer.kind # "failed" /\ (answer.kind = "cancelled" => ctx = "cancelled")
=============================================================================
