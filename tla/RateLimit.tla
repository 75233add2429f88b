----------------------------- MODULE RateLimit -----------------------------
(***************************************************************************)
(* GhApi._run() of release_publish.py: every call of GitHub's interface    *)
(* that is refused for a quota is repeated after a wait, and the waits of  *)
(* all the calls of a publication share one deadline.                      *)
(*                                                                         *)
(* One tick is a minute where FirstDelay is 1: the deadline is 80 ticks,   *)
(* the cap 10, the job 90.  The instances shrink them in proportion.       *)
(***************************************************************************)
EXTENDS Integers

CONSTANTS
    FirstDelay, DelayCap,   \* secondary_delay: where it starts and where it stops growing
    MaxWait,                \* max_wait
    JobLimit,               \* timeout-minutes of the job that publishes
    MaxTook,                \* bound: ticks an attempt takes
    MaxNamed,               \* bound: ticks a refusal asks for
    MaxLead,                \* bound: ticks of the job before the GhApi is made
    Requests                \* bound: calls of a publication

ASSUME RateAssumption ==
    /\ FirstDelay \in Nat \ {0} /\ DelayCap \in Nat /\ FirstDelay <= DelayCap
    /\ MaxWait \in Nat /\ JobLimit \in Nat /\ MaxWait <= JobLimit
    /\ MaxTook \in Nat \ {0} /\ MaxNamed \in Nat /\ MaxLead \in Nat
    /\ Requests \in Nat

VARIABLES
    now,               \* monotonic()
    deadline,          \* self.deadline, 0 before __init__
    secondary_delay,   \* self.secondary_delay
    call,              \* "idle", "asked" or "sleeping"
    wake,              \* the end of sleep(delay)
    left,              \* calls the publication still makes
    busy,              \* history: ticks not slept
    backoff            \* history: the last wait GitHub named no time for,
                       \* since an attempt succeeded

rateVars == <<now, deadline, secondary_delay, call, wake, left, busy, backoff>>

Smaller(a, b) == IF a < b THEN a ELSE b
Larger(a, b)  == IF a < b THEN b ELSE a

-----------------------------------------------------------------------------
\* _retry_delay(): the refusals that are quotas, and the wait each asks for.
Refusals ==
    [kind : {"retry-after"}, at : 0..MaxNamed] \cup
    [kind : {"reset"}, at : -1..MaxNamed] \cup
    [kind : {"secondary", "other"}, at : {0}]

RetryDelay(refusal) ==
    CASE refusal.kind = "retry-after" -> refusal.at
      [] refusal.kind = "reset"       -> Larger(1, refusal.at + 1)
      [] refusal.kind = "secondary"   -> secondary_delay

\* Mutant of NextDelay: nothing caps it.
NextDelayUncapped(refusal) ==
    IF refusal.kind = "secondary" THEN 2 * secondary_delay ELSE secondary_delay

\* Mutant of NextDelay: it starts anew at every refusal.
NextDelayFlat(refusal) == FirstDelay

\* The next wait GitHub names no time for.  It grows even where the call gives
\* up instead of waiting.
NextDelay(refusal) ==
    IF refusal.kind = "secondary" THEN Smaller(2 * secondary_delay, DelayCap)
                                  ELSE secondary_delay

\* Mutant of MayWait: each wait has the whole budget.
MayWaitAnew(end) == end <= now' + MaxWait

MayWait(end) == end <= deadline

-----------------------------------------------------------------------------
\* __init__, some time into the job.
Open ==
    /\ deadline = 0 /\ call = "idle"
    /\ \E lead \in 0..MaxLead :
          now' = now + lead /\ busy' = busy + lead /\ deadline' = now + lead + MaxWait
    /\ UNCHANGED <<secondary_delay, call, wake, left, backoff>>

\* request(), upload() and the downloads of _digest() enter _run().
Ask ==
    /\ deadline # 0 /\ call = "idle" /\ left > 0
    /\ left' = left - 1
    /\ call' = "asked"
    /\ UNCHANGED <<now, deadline, secondary_delay, wake, busy, backoff>>

\* An attempt takes its time; nothing limits it.
Attempt(took) == now' = now + took /\ busy' = busy + took

Succeed(took) ==
    /\ call = "asked"
    /\ Attempt(took)
    /\ secondary_delay' = FirstDelay
    /\ call' = "idle"
    /\ backoff' = 0
    /\ UNCHANGED <<deadline, wake, left>>

\* A failure that is no quota, and a wait that would outlast the budget, go
\* back to the caller, which gives up or asks again.
GiveUp(took, refusal) ==
    /\ call = "asked"
    /\ Attempt(took)
    /\ \/ refusal.kind = "other" /\ UNCHANGED secondary_delay
       \/ /\ refusal.kind # "other"
          /\ ~MayWait(now' + RetryDelay(refusal))
          /\ secondary_delay' = NextDelay(refusal)
    /\ call' = "idle"
    /\ UNCHANGED <<deadline, wake, left, backoff>>

Sleep(took, refusal) ==
    /\ call = "asked"
    /\ Attempt(took)
    /\ refusal.kind # "other"
    /\ MayWait(now' + RetryDelay(refusal))
    /\ secondary_delay' = NextDelay(refusal)
    /\ wake' = now' + RetryDelay(refusal)
    /\ call' = "sleeping"
    /\ backoff' = IF refusal.kind = "secondary" THEN RetryDelay(refusal) ELSE backoff
    /\ UNCHANGED <<deadline, left>>

Wake ==
    /\ call = "sleeping"
    /\ now' = wake
    /\ call' = "asked"
    /\ UNCHANGED <<deadline, secondary_delay, wake, left, busy, backoff>>

Answered ==
    \E took \in 1..MaxTook :
        \/ Succeed(took)
        \/ \E refusal \in Refusals : GiveUp(took, refusal) \/ Sleep(took, refusal)

RateInit ==
    /\ now = 0 /\ deadline = 0 /\ secondary_delay = FirstDelay
    /\ call = "idle" /\ wake = 0 /\ left = Requests
    /\ busy = 0 /\ backoff = 0

RateNext == Open \/ Ask \/ Answered \/ Wake

RateSpec == RateInit /\ [][RateNext]_rateVars
-----------------------------------------------------------------------------
RateTypeOK ==
    /\ now \in Nat /\ deadline \in Nat /\ wake \in Nat /\ busy \in Nat
    /\ backoff \in 0..DelayCap
    /\ secondary_delay \in FirstDelay..DelayCap
    /\ call \in {"idle", "asked", "sleeping"}
    /\ left \in 0..Requests

\* The waits of all calls share one budget (GhApi.deadline): a job whose own
\* work fits into what the budget leaves of its time limit is never cut by
\* GitHub in the middle of a publication because of them.
InsideJob ==
    busy <= JobLimit - MaxWait =>
        now <= JobLimit /\ (call = "sleeping" => wake <= JobLimit)

\* Until an attempt succeeds, whichever call it is for, each wait that GitHub
\* names no time for is at least twice the one before, up to the cap.
BacksOff == backoff # 0 => secondary_delay >= Smaller(2 * backoff, DelayCap)
=============================================================================
