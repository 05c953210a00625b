--------------------------- MODULE TestInvocation ---------------------------
(***************************************************************************)
(* One command of the Go program after the other, with the engine it runs: *)
(* any command, of which nothing is known but how it may end (Invocation), *)
(* or `openant dynamic-test` (openant/cli.py, cmd_dynamic_test), whose     *)
(* steps are DynamicTest's, on one output directory.  The deadline, the    *)
(* forced kill and the user's interrupt meet the step wherever it is, and  *)
(* what the parent answers is compared with what the tests came to.        *)
(***************************************************************************)
EXTENDS DynamicTest, Integers

CONSTANT MaxCommands  \* bound: commands that are run

VARIABLES side, child, code, out, held, ctx, watched, interrupted, pc, waitErr, answer,
          command,    \* "dynamic-test", or "other"
          commands    \* how many were started (history, bounded)

Go == INSTANCE Invocation

invocation == <<side, child, code, out, held, ctx, watched, interrupted, pc, waitErr, answer>>
allVars    == <<testVars, invocation, command, commands>>

CombinedInit ==
    /\ TestInit /\ Go!Init /\ commands = 1
    /\ command \in {"dynamic-test", "other"}
    /\ command = "dynamic-test" => side = "cli" /\ ~held

\* Docker's clients write to pipes of their own: the engine's are not held.
\* The next command, once the last one is answered and its process gone.  If
\* there are checkpoints the user is asked whether to resume from them; if not,
\* they are removed.
NextCommand ==
    /\ pc = "answered" /\ command = "dynamic-test" /\ commands < MaxCommands
    /\ rows' \in {rows, [f \in Findings |-> NoRow]} /\ results' = Nothing
    /\ commands' = commands + 1 /\ UNCHANGED <<command, side, held>>
    /\ child' = "running" /\ code' = 0 /\ out' = "none"
    /\ ctx' = "live" /\ watched' = FALSE /\ interrupted' = FALSE /\ pc' = "wait"
    /\ waitErr' = "none" /\ answer' = Go!Failure("pending")
    /\ UNCHANGED <<docker, step, scope, reported, current, attempt, unwinding>>

-----------------------------------------------------------------------------
(* The engine.                                                             *)

Ours == command = "dynamic-test" /\ child = "running"

\* cmd_dynamic_test up to the envelope.  An interrupt raises KeyboardInterrupt.
Work ==
    /\ Ours /\ UNCHANGED <<invocation, command, commands>>
    /\ \/ \E S \in Populations, U \in Untestable : BeginTests(S, U)
       \/ Refuse \/ Testing \/ (interrupted /\ Interrupted)

\* What it prints, its last act; an interrupt it does not handle prints nothing.
Prints ==
    /\ Go!PrintEnvelope
    /\ command = "dynamic-test" => CASE out = "none" -> step \in {"returned", "raised"}
                                     [] out' = "success" -> step = "returned"
                                     [] OTHER            -> step = "raised"
    /\ UNCHANGED <<testVars, command, commands>>

Confirmed == \E f \in DOMAIN reported : reported[f] = "confirmed"

\* main's return value; an uncaught KeyboardInterrupt ends by the signal.
ExitCode ==
    CASE step = "returned" -> IF Confirmed THEN 1 ELSE 0
      [] step = "raised"   -> 2
      [] OTHER             -> -1

Printed == out \in Go!Envelopes

Exits ==
    /\ IF command = "dynamic-test"
       THEN /\ (step \in {"returned", "raised"} /\ Printed) \/ step = "interrupted"
            /\ Go!Ends(ExitCode) /\ UNCHANGED watched
       ELSE Go!ChildExits
    /\ IF command = "dynamic-test" THEN Gone ELSE UNCHANGED testVars
    /\ UNCHANGED <<command, commands>>

\* Whatever kills the engine takes the step with it.
AndTheStep ==
    /\ IF child = "running" /\ child' # "running" THEN Gone ELSE UNCHANGED testVars
    /\ UNCHANGED <<command, commands>>

Dies == (Go!ChildDies \/ Go!ForceKill) /\ AndTheStep

-----------------------------------------------------------------------------
(* The parent, and what reaches it.                                        *)

Events ==
    /\ Go!JobCancelled \/ Go!Interrupt \/ Go!DescendantEnds
    /\ UNCHANGED <<testVars, command, commands>>

DeadlineFires == Go!DeadlineFires /\ UNCHANGED <<testVars, command, commands>>

ParentWork == Go!ParentWork /\ AndTheStep

CombinedNext == \/ NextCommand \/ Work \/ Prints \/ Exits \/ Dies
                \/ Events \/ DeadlineFires \/ ParentWork

\* Time passes, and the parent and its runtime are scheduled.  The engine need
\* not end, nor a descendant let go, nor anybody interrupt.
FairSpec == /\ CombinedInit /\ [][CombinedNext]_allVars
            /\ WF_allVars(DeadlineFires) /\ WF_allVars(ParentWork)

-----------------------------------------------------------------------------
(* Properties.                                                             *)

\* A step that returns has reported every finding as its row says, and what the
\* command answers, through every race of its end, is what the tests came to:
\* exit code 1 if and only if one of the tests it was asked for confirmed its
\* finding, in this run or in the one it resumes.
VerdictsTold ==
    /\ ResultsTell
    /\ pc = "answered" /\ command = "dynamic-test" /\ answer.code \in {0, 1} =>
          (answer.code = 1 <=> \E f \in DOMAIN results : results[f] = "confirmed")

\* A completed run is returned, nothing is reported as better, or other, than
\* it was, and what the step reports is what its rows and the exit code say.
RunReported == Go!CompletedRunReturned /\ Go!ReportedAsItEnded /\ VerdictsTold

\* Every command is answered, though the engine hang and its descendants keep
\* the pipes open for ever.
Answered == pc = "wait" ~> pc = "answered"
=============================================================================
