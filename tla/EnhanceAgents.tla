---------------------------- MODULE EnhanceAgents ----------------------------
(***************************************************************************)
(* The enhance step with its threads' conversations and the limiter they   *)
(* share: EnhanceStep's threads ask (AgentLoop) turn by turn, each turn    *)
(* waits for and may move the end of the backoff (RateLimit), and what a   *)
(* conversation recorded is what the step folds, saves and carries over.   *)
(***************************************************************************)
EXTENDS EnhanceStep

CONSTANTS MaxTurns, TurnCosts, Backoff, RetryAfters, Jitter

ASSUME AgentsAssumption ==
    /\ MaxTurns \in Nat \ {0} /\ TurnCosts \subseteq Nat
    /\ Backoff \in Nat /\ RetryAfters \subseteq Nat /\ Jitter \in Nat

VARIABLES turns, total, billed, remaining, at, asleep, promised

Agent   == INSTANCE AgentLoop WITH Agents <- Units
Limiter == INSTANCE RateLimit WITH Callers <- Units

agents  == <<turns, total, billed>>
limiter == <<remaining, at, asleep, promised>>
allVars == <<vars, agents, limiter>>

AgentsInit == Init /\ Agent!AgentInit /\ Limiter!LimiterInit

\* A thread, or the main thread in a retry, takes a unit and begins.
Start(u) ==
    /\ Ask(u) \/ RetryAsk(u)
    /\ Agent!Begin(u) /\ Limiter!Arrive(u)

Wait(u) ==
    /\ Limiter!Look(u) \/ Limiter!Wake(u)
    /\ UNCHANGED <<vars, agents>>

Turn(u) ==
    /\ Limiter!Issue(u) /\ Agent!NextTurn(u) /\ UNCHANGED vars

Tools(u) ==
    /\ Limiter!Return(u, "ready")
    /\ \E c \in TurnCosts : Agent!UseTools(u, c)
    /\ UNCHANGED vars

End(u) ==
    /\ Limiter!Return(u, "away") /\ UNCHANGED <<turns, total>>
    /\ \E o \in Agent!Endings, c \in TurnCosts :
          Agent!Charge(u, c) /\ Answer(u, o, Agent!Recorded(u, c))

\* Any error but a throttle: a dropped connection, a reply that was billed and
\* refused, a quota (which moves no backoff).
Fail(u) ==
    /\ Limiter!Return(u, "away") /\ UNCHANGED <<turns, total>>
    /\ \E o \in Failures, c \in TurnCosts \cup {0} :
          Agent!Charge(u, c) /\ Answer(u, o, Agent!RecordedRaise(u, c))

Throttled(u) ==
    /\ \E r \in RetryAfters : Limiter!Reject(u, r)
    /\ Agent!Charge(u, 0) /\ UNCHANGED <<turns, total>>
    /\ Answer(u, "transient", Agent!RecordedRaise(u, 0))

\* The rest of the step is as it was; a round of retries waits for the backoff
\* to end, and the process takes its limiter and its conversations with it.
Rest ==
    /\ UNCHANGED <<agents, limiter>>
    /\ \/ Load \/ PoolDone \/ Finish
       \/ BeginRound /\ remaining = 0
       \/ \E u \in Units : Save(u) \/ Fold(u) \/ Raise(u)
                           \/ RetrySave(u) \/ RetryFold(u)

Gone ==
    /\ remaining' = 0 /\ promised' = 0
    /\ at' = [u \in Units |-> "away"] /\ asleep' = [u \in Units |-> 0]
    /\ turns' = [u \in Units |-> 0] /\ total' = [u \in Units |-> 0]
    /\ billed' = [u \in Units |-> 0]

Time == Limiter!Tick /\ UNCHANGED <<vars, agents>>

Working ==
    \/ Rest \/ Time \/ (Exit /\ Gone)
    \/ \E u \in Units : \/ Start(u) \/ Wait(u) \/ Turn(u)
                        \/ Tools(u) \/ End(u) \/ Fail(u) \/ Throttled(u)

Disturbance ==
    \/ Kill /\ Gone
    \/ /\ UNCHANGED <<agents, limiter>>
       /\ \/ \E S \in Populations : StartRun(S)
          \/ \E u \in Units : SaveFails(u) \/ RetryFails(u)
          \/ Interrupt

AgentsSpec == AgentsInit /\ [][Working \/ Disturbance]_allVars

\* Threads are scheduled, time passes, and a request is answered or times out.
FairSpec == AgentsSpec /\ WF_allVars(Working)

-----------------------------------------------------------------------------
WindowsHonoured == Limiter!WindowsHonoured

\* What a unit's context says its conversation cost is what the provider has
\* charged for it, by whichever exit the conversation ended.
ConversationsBilled ==
    \A u \in Units : stage[u] = "answered" => context[u].usage = billed[u]

\* From the provider's bill to the step's total nothing is lost and nothing is
\* counted twice: conversations bill their units, and units their rows and runs.
SpendAccounted == ConversationsBilled /\ EnhanceAccounts
=============================================================================
