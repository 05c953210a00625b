------------------------------ MODULE AgentLoop ------------------------------
(***************************************************************************)
(* The agent's conversation about one unit (ContextAgent,                  *)
(* utilities/agentic_enhancer/agent.py): a bounded number of turns, each a *)
(* request that is billed, and one record of the whole conversation at     *)
(* whichever of its exits is taken: a finish call, a finish that was cut   *)
(* off, a turn without a tool call, the last turn, or an exception.  The   *)
(* verifier's loop (finding_verifier.py, verify_result) has the same exits.*)
(*                                                                         *)
(* Abstracted: what the tools do; tokens and dollars (one number).  The    *)
(* guarded accounting of the exception path is taken to succeed.           *)
(***************************************************************************)
EXTENDS Naturals

CONSTANTS
    Agents,     \* one conversation for each unit
    MaxTurns,   \* MAX_ITERATIONS
    TurnCosts   \* what a turn may be billed

VARIABLES
    turns,  \* iterations
    total,  \* total_input_tokens and total_output_tokens of the turns before
    billed  \* what the provider has charged for the conversation (history)

agentVars == <<turns, total, billed>>

AgentInit ==
    /\ turns = [a \in Agents |-> 0] /\ total = [a \in Agents |-> 0]
    /\ billed = [a \in Agents |-> 0]

Begin(a) ==
    /\ turns' = [turns EXCEPT ![a] = 0] /\ total' = [total EXCEPT ![a] = 0]
    /\ billed' = [billed EXCEPT ![a] = 0]

NextTurn(a) ==
    /\ turns[a] < MaxTurns /\ turns' = [turns EXCEPT ![a] = @ + 1]
    /\ UNCHANGED <<total, billed>>

\* The provider charges for a turn, whether or not the reply is of use.
Charge(a, c) == billed' = [billed EXCEPT ![a] = @ + c]

\* A reply with tool calls, which are run and answered in the next turn.
UseTools(a, c) ==
    /\ turns[a] < MaxTurns /\ Charge(a, c)
    /\ total' = [total EXCEPT ![a] = @ + c] /\ UNCHANGED turns

\* How a conversation may end with a reply: a finish call that is complete and
\* not cut off by max_tokens is a verdict; the other exits are incomplete, and
\* so is a further tool call in the last turn.
Endings == {"verdict", "incomplete"}

\* The one record_call of an exit that follows a reply.
Recorded(a, c) == total[a] + c

\* The record of the exception path: the turns before, and what the turn that
\* raised was billed (error_path_turn).
RecordedRaise(a, c) == total[a] + c
=============================================================================
