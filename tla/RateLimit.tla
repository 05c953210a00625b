------------------------------ MODULE RateLimit ------------------------------
(***************************************************************************)
(* GlobalRateLimiter (utilities/rate_limiter.py) and the adapters' glue    *)
(* (utilities/llm/providers/_ratelimit.py): every thread waits for the end *)
(* of the backoff before it issues a request, and whichever is rejected    *)
(* (429, 529) moves that end for all.  The lock covers a look at the end   *)
(* and a report of a new one, never the sleep.                             *)
(*                                                                         *)
(* Time is what is left of it: of the backoff, of a thread's sleep, of     *)
(* what a provider was promised.                                           *)
(***************************************************************************)
EXTENDS Naturals, FiniteSetsExt

CONSTANTS
    Callers,     \* threads that call the provider
    Backoff,     \* backoff_seconds, as configured
    RetryAfters, \* what a rejection may ask for (0: no header)
    Jitter       \* bound: the longest jitter added to a sleep

VARIABLES
    remaining,   \* _backoff_until, less the time that it is
    at,          \* where each thread is: "away", "ready", "asleep",
                 \* "cleared" (out of the loop, its request not yet sent), "calling"
    asleep,      \* what is left of its sleep
    promised     \* what is left of the longest window a rejection has asked
                 \* for (history)

limiterVars == <<remaining, at, asleep, promised>>

LimiterInit ==
    /\ remaining = 0 /\ promised = 0
    /\ at = [t \in Callers |-> "away"] /\ asleep = [t \in Callers |-> 0]

Move(t, to) == at' = [at EXCEPT ![t] = to]

\* wait_if_needed is entered.
Arrive(t) ==
    /\ at[t] = "away" /\ Move(t, "ready")
    /\ UNCHANGED <<remaining, asleep, promised>>

\* Under the lock: past the backoff's end the loop is left, before it the
\* thread goes to sleep for what is left and a jitter.
Look(t) ==
    /\ at[t] = "ready"
    /\ IF remaining = 0
       THEN Move(t, "cleared") /\ UNCHANGED asleep
       ELSE /\ Move(t, "asleep")
            /\ \E j \in 0..Jitter : asleep' = [asleep EXCEPT ![t] = remaining + j]
    /\ UNCHANGED <<remaining, promised>>

\* The sleep is over, and the loop looks again: another thread may have moved
\* the end meanwhile.
Wake(t) ==
    /\ at[t] = "asleep" /\ asleep[t] = 0 /\ Move(t, "ready")
    /\ UNCHANGED <<remaining, asleep, promised>>

Issue(t) ==
    /\ at[t] = "cleared" /\ Move(t, "calling")
    /\ UNCHANGED <<remaining, asleep, promised>>

\* The request has been answered; the caller is done, or has another.
Return(t, to) ==
    /\ at[t] = "calling" /\ Move(t, to)
    /\ UNCHANGED <<remaining, asleep, promised>>

\* Mutant of Extended: the last report wins.
ExtendedAlways(window) == window

\* "Only extend if this is later than current backoff."
Extended(window) == Max({remaining, window})

\* report_rate_limit: the longer of what the provider asks for and what is
\* configured.
Reject(t, retryAfter) ==
    LET window == Max({retryAfter, Backoff})
    IN /\ at[t] = "calling" /\ Move(t, "away")
       /\ remaining' = Extended(window)
       /\ promised' = Max({promised, window})
       /\ UNCHANGED asleep

Less(n) == IF n = 0 THEN 0 ELSE n - 1

Tick ==
    /\ remaining > 0 \/ promised > 0 \/ \E t \in Callers : asleep[t] > 0
    /\ remaining' = Less(remaining) /\ promised' = Less(promised)
    /\ asleep' = [t \in Callers |-> Less(asleep[t])]
    /\ UNCHANGED at

-----------------------------------------------------------------------------
\* No thread is let through while a window that any rejection has asked for is
\* open, whichever thread was rejected, however long each had slept, and
\* whatever shorter window was reported since.
WindowsHonoured ==
    [][\A t \in Callers :
          at[t] # "cleared" /\ at'[t] = "cleared" => promised = 0]_limiterVars
=============================================================================
