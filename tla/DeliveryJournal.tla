-------------------------- MODULE DeliveryJournal --------------------------
(***************************************************************************)
(* The journal of notifications (scheduler/journal.ts): jobs that several  *)
(* passes claim, send and mark at the same time.                           *)
(*                                                                         *)
(* A pass is one call of processDueJobs: the scheduler's tick of some web  *)
(* process, or the delivery right after a request.  It claims a batch in   *)
(* one statement and commits, so what it holds afterwards is a lease until *)
(* locked_until and the number of attempts it read: whoever takes the job  *)
(* over after the lease counts one attempt more, and every later write     *)
(* asks for the attempts the writer has read.                              *)
(*                                                                         *)
(* A tick passes its own starting moment to processDueJobs, which runs its *)
(* clock from there.  The steps of the tick before delivery make that      *)
(* clock late: `lag`.                                                      *)
(*                                                                         *)
(* Times are kept relative to the real present and count down.             *)
(***************************************************************************)
EXTENDS Integers, FiniteSets

CONSTANTS
  Jobs,         \* deduplication keys
  Nobody,       \* no job
  Passes,       \* passes that may run at one time
  Batch,        \* jobs claimed at once
  MaxAttempts,
  Lease,        \* LEASE_MS, in ticks
  Budget,       \* budgetMs of a pass
  SendTime,     \* timeout of the transport
  Backoff,      \* the wait after a failure
  Pause,        \* the wait of a deferred job (quiet hours, limit of the bot)
  Lags,         \* lags of a pass's clock
  MaxMishaps,   \* bound: crashes and unclear outcomes per job
  MaxClaims,    \* bound: attempts up to which a job is claimed
  MaxPauses     \* bound: how often a job is deferred

ASSUME JournalAssumption ==
  /\ Nobody \notin Jobs
  /\ Batch \in Nat \ {0} /\ MaxAttempts \in Nat \ {0} /\ Lease \in Nat \ {0}
  /\ Budget \in Nat \ {0} /\ SendTime \in Nat /\ Backoff \in Nat /\ Pause \in Nat
  /\ Lags \subseteq Nat /\ MaxMishaps \in Nat /\ MaxPauses \in Nat /\ MaxClaims \in Nat

VARIABLES
  job,      \* scheduled_jobs, by key
  pass,     \* what each pass remembers
  owner,    \* the last pass to claim each job: it decides nothing
  sent,     \* messages of each job that reached the recipient
  mishaps,  \* per job: crashes under it, sends of unclear outcome
  pauses    \* per job: how often it was deferred

vars == <<job, pass, owner, sent, mishaps, pauses>>

Final == {"done", "skipped", "failed"}   \* completed_at is set

Job == [status : {"none", "pending", "running"} \union Final,
        attempts : Nat,
        wait : Int,     \* run_at, from now
        lease : Int]    \* locked_until, from now

Pass == [on : BOOLEAN,
         lag : Nat,
         left : Nat,                        \* of the budget
         token : [Jobs -> Nat],             \* attempts read at the claim, 0: not held
         until : Nat,                       \* of the lease, by its own clock
         at : Jobs \union {Nobody},         \* the job it works on
         stage : {"next", "sending", "sent"},
         timer : Nat]                       \* of the send

Idle == [on |-> FALSE, lag |-> 0, left |-> 0, token |-> [j \in Jobs |-> 0], until |-> 0,
         at |-> Nobody, stage |-> "next", timer |-> 0]

Down(n) == IF n > 0 THEN n - 1 ELSE 0

\* A late clock sees a lease or a run_at pass later: times are kept that long.
Past(n) == IF \E lag \in Lags : n + lag > 0 THEN n - 1 ELSE n

Held(p) == {j \in Jobs : pass[p].token[j] > 0}

MutOwnsRunning(p, j) == job[j].status = "running"

\* The row is still the one this pass has claimed.
Owns(p, j) == job[j].status = "running" /\ job[j].attempts = pass[p].token[j]

MutDueForever(lag) == {j \in Jobs : job[j].status = "pending" /\ job[j].wait <= -lag}
MutDueLeased(lag) ==
  {j \in Jobs : job[j].status = "running" \/ (job[j].status = "pending" /\ job[j].wait <= -lag)}

\* What claimDueJobs may take.
Due(lag) ==
  {j \in Jobs : \/ job[j].status = "pending" /\ job[j].wait <= -lag
                \/ job[j].status = "running" /\ job[j].lease <= -lag}

-----------------------------------------------------------------------------
(* Rows a pass writes back.                                                *)

Row(status, attempts, wait) ==
  [status |-> status, attempts |-> attempts, wait |-> wait, lease |-> 0]

Closed(j, status) == Row(status, job[j].attempts, 0)

Pending(j, wait) == Row("pending", job[j].attempts, wait)

Claimed(p, j) ==
  [status |-> "running", attempts |-> job[j].attempts + 1, wait |-> job[j].wait,
   lease |-> Lease - pass[p].lag]

MutGivenBack(p, j, wait) == Row("pending", pass[p].token[j] - 2, wait)

\* The claim does not count as an attempt.
GivenBack(p, j, wait) == Row("pending", pass[p].token[j] - 1, wait)

MutAfterFailure(p, j) ==
  IF pass[p].token[j] > MaxAttempts THEN Closed(j, "failed")
  ELSE Pending(j, Backoff - pass[p].lag)

AfterFailure(p, j) ==
  IF pass[p].token[j] >= MaxAttempts THEN Closed(j, "failed")
  ELSE Pending(j, Backoff - pass[p].lag)

\* finish: a row changes only for the pass that still owns it.
Finish(p, j, row) == [job EXCEPT ![j] = IF Owns(p, j) THEN row ELSE @]

RunAt == [j \in Jobs |-> job[j].wait]

\* release: what is left of the batch goes back and costs no attempt.
Released(p, wait) ==
  [j \in Jobs |-> IF j \in Held(p) /\ Owns(p, j) THEN GivenBack(p, j, wait[j]) ELSE job[j]]

\* The pass is through with job j and looks at the next one.
NextJob(p, j) ==
  pass' = [pass EXCEPT ![p].token[j] = 0, ![p].at = Nobody, ![p].stage = "next", ![p].timer = 0]

-----------------------------------------------------------------------------
(* The steps of a pass.                                                    *)

\* enqueueNotification: a key that exists is left alone.
Enqueue(j) ==
  /\ job[j].status = "none"
  /\ job' = [job EXCEPT ![j] = Pending(j, 0)]
  /\ UNCHANGED <<pass, owner, sent, mishaps, pauses>>

StartPass(p, lag) ==
  /\ ~pass[p].on /\ Due(lag) # {}
  /\ pass' = [pass EXCEPT ![p] = [Idle EXCEPT !.on = TRUE, !.lag = lag, !.left = Budget]]
  /\ UNCHANGED <<job, owner, sent, mishaps, pauses>>

\* FOR UPDATE SKIP LOCKED may leave due jobs to a claim under way elsewhere.
Claim(p) ==
  /\ pass[p].on /\ Held(p) = {} /\ pass[p].left > 0
  /\ \E taken \in SUBSET Due(pass[p].lag) :
       /\ Cardinality(taken) \in 1 .. Batch
       /\ \A j \in taken : job[j].attempts < MaxClaims
       /\ job' = [j \in Jobs |-> IF j \in taken THEN Claimed(p, j) ELSE job[j]]
       /\ pass' = [pass EXCEPT ![p].until = Lease,
            ![p].token = [j \in Jobs |-> IF j \in taken THEN Claimed(p, j).attempts ELSE 0]]
       /\ owner' = [j \in Jobs |-> IF j \in taken THEN p ELSE owner[j]]
  /\ UNCHANGED <<sent, mishaps, pauses>>

\* Nothing is due, or the budget is spent: what is left of the batch goes back.
EndPass(p) ==
  /\ pass[p].on /\ pass[p].stage = "next"
  /\ pass[p].left = 0 \/ (Held(p) = {} /\ Due(pass[p].lag) = {})
  /\ job' = Released(p, RunAt)
  /\ pass' = [pass EXCEPT ![p] = Idle]
  /\ UNCHANGED <<owner, sent, mishaps, pauses>>

\* The pass comes to job j within its budget.
Reaches(p, j) == pass[p].stage = "next" /\ j \in Held(p) /\ pass[p].left > 0

\* The lease ran out while earlier jobs of the batch were sent.
Drop(p, j) ==
  /\ Reaches(p, j) /\ pass[p].until = 0
  /\ NextJob(p, j)
  /\ UNCHANGED <<job, owner, sent, mishaps, pauses>>

\* Stale, or the recipient cannot be reached.
Skip(p, j) ==
  /\ Reaches(p, j) /\ pass[p].until > 0
  /\ job' = Finish(p, j, Closed(j, "skipped"))
  /\ NextJob(p, j)
  /\ UNCHANGED <<owner, sent, mishaps, pauses>>

\* Quiet hours of the recipient.
Defer(p, j) ==
  /\ Reaches(p, j) /\ pass[p].until > 0 /\ pauses[j] < MaxPauses
  /\ job' = Finish(p, j, GivenBack(p, j, Pause - pass[p].lag))
  /\ pauses' = [pauses EXCEPT ![j] = @ + 1]
  /\ NextJob(p, j)
  /\ UNCHANGED <<owner, sent, mishaps>>

Send(p, j) ==
  /\ Reaches(p, j) /\ pass[p].until > 0
  /\ pass' = [pass EXCEPT ![p].at = j, ![p].stage = "sending", ![p].timer = SendTime]
  /\ UNCHANGED <<job, owner, sent, mishaps, pauses>>

Arrives(p) ==
  /\ pass[p].stage = "sending"
  /\ sent' = [sent EXCEPT ![pass[p].at] = @ + 1]
  /\ pass' = [pass EXCEPT ![p].stage = "sent"]
  /\ UNCHANGED <<job, owner, mishaps, pauses>>

MarkDone(p) ==
  LET j == pass[p].at IN
  /\ pass[p].stage = "sent"
  /\ job' = Finish(p, j, Closed(j, "done"))
  /\ NextJob(p, j)
  /\ UNCHANGED <<owner, sent, mishaps, pauses>>

\* Any other error counts as a failed attempt: of a query before the send, of
\* the transport, whose message may have arrived, or of the mark after it.
Retry(p, j, arrived) ==
  /\ \/ Reaches(p, j) /\ pass[p].until > 0 /\ ~arrived
     \/ pass[p].stage = "sending" /\ j = pass[p].at
     \/ pass[p].stage = "sent" /\ j = pass[p].at /\ arrived
  /\ arrived => mishaps[j] < MaxMishaps
  /\ mishaps' = IF arrived THEN [mishaps EXCEPT ![j] = @ + 1] ELSE mishaps
  /\ sent' = IF arrived /\ pass[p].stage = "sending" THEN [sent EXCEPT ![j] = @ + 1] ELSE sent
  /\ job' = Finish(p, j, AfterFailure(p, j))
  /\ NextJob(p, j)
  /\ UNCHANGED <<owner, pauses>>

\* The recipient has blocked the bot.
Blocked(p) ==
  LET j == pass[p].at IN
  /\ pass[p].stage = "sending"
  /\ job' = Finish(p, j, Closed(j, "skipped"))
  /\ NextJob(p, j)
  /\ UNCHANGED <<owner, sent, mishaps, pauses>>

\* The limit of the bot: the job waits, the rest goes back, the pass ends.  The
\* next pass of this process waits as well, those of the others do not: any may start.
RateLimited(p) ==
  LET j == pass[p].at IN
  /\ pass[p].stage = "sending" /\ pauses[j] < MaxPauses
  /\ job' = Released(p, [RunAt EXCEPT ![j] = Pause - pass[p].lag])
  /\ pauses' = [pauses EXCEPT ![j] = @ + 1]
  /\ pass' = [pass EXCEPT ![p] = Idle]
  /\ UNCHANGED <<owner, sent, mishaps>>

\* The process dies, or the database fails it inside the error handler.  Between
\* batches that leaves no trace: EndPass and the next claim cover it.
Crash(p, arrived) ==
  /\ Held(p) # {} /\ \A j \in Held(p) : mishaps[j] < MaxMishaps
  /\ arrived => pass[p].stage = "sending"
  /\ sent' = IF arrived THEN [sent EXCEPT ![pass[p].at] = @ + 1] ELSE sent
  /\ mishaps' = [j \in Jobs |-> IF j \in Held(p) THEN mishaps[j] + 1 ELSE mishaps[j]]
  /\ pass' = [pass EXCEPT ![p] = Idle]
  /\ UNCHANGED <<job, owner, pauses>>

\* Only a send takes time, up to its timeout: queries take less than a tick.
Tick ==
  /\ \A p \in Passes : pass[p].on => pass[p].stage = "sending" /\ pass[p].timer > 0
  /\ job' = [j \in Jobs |->
       CASE job[j].status = "pending" -> [job[j] EXCEPT !.wait = Past(@)]
         [] job[j].status = "running" -> [job[j] EXCEPT !.wait = Past(@), !.lease = Past(@)]
         [] OTHER -> job[j]]
  /\ pass' = [p \in Passes |->
       [pass[p] EXCEPT !.left = Down(@), !.until = Down(@), !.timer = Down(@)]]
  /\ <<job, pass>>' # <<job, pass>>
  /\ UNCHANGED <<owner, sent, mishaps, pauses>>

-----------------------------------------------------------------------------
Init ==
  /\ job = [j \in Jobs |-> Row("none", 0, 0)]
  /\ pass = [p \in Passes |-> Idle]
  /\ owner \in [Jobs -> Passes]
  /\ sent = [j \in Jobs |-> 0]
  /\ mishaps = [j \in Jobs |-> 0]
  /\ pauses = [j \in Jobs |-> 0]

Step(p) ==
  \/ \E lag \in Lags : StartPass(p, lag)
  \/ Claim(p) \/ EndPass(p) \/ Arrives(p) \/ MarkDone(p) \/ Blocked(p) \/ RateLimited(p)
  \/ \E j \in Jobs :
       \/ Drop(p, j) \/ Skip(p, j) \/ Defer(p, j) \/ Send(p, j)
       \/ \E arrived \in BOOLEAN : Retry(p, j, arrived)

Next ==
  \/ \E j \in Jobs : Enqueue(j)
  \/ \E p \in Passes : Step(p) \/ \E arrived \in BOOLEAN : Crash(p, arrived)
  \/ Tick

Spec == Init /\ [][Next]_vars

\* Passes start again after each other and do not stop in the middle; time goes on.
Fairness == WF_vars(Tick) /\ \A p \in Passes : WF_vars(Step(p))

FairSpec == Spec /\ Fairness

-----------------------------------------------------------------------------
(* Properties.                                                             *)

\* The types.  Giving an attempt back never takes the count below zero.
TypeOK ==
  /\ job \in [Jobs -> Job]
  /\ pass \in [Passes -> Pass]
  /\ owner \in [Jobs -> Passes]
  /\ sent \in [Jobs -> Nat] /\ mishaps \in [Jobs -> Nat] /\ pauses \in [Jobs -> Nat]

\* The number of attempts fences although it also goes down: whoever still
\* matches it is the last to have claimed the job.
OnlyOwnerWrites ==
  \A p \in Passes, j \in Jobs : (j \in Held(p) /\ Owns(p, j)) => owner[j] = p

\* A notification reaches its recipient at most once, and once more for each
\* crash or unclear outcome under it, whatever passes run beside each other.
AtMostOnce == \A j \in Jobs : sent[j] <= 1 + mishaps[j]

\* A job is given up: only crashes take it past the limit of attempts.
NoEndlessRetry == \A j \in Jobs : job[j].attempts <= MaxAttempts + mishaps[j]

\* What a late pass writes never reopens or rewrites a closed job.
ClosedStays ==
  [][\A j \in Jobs : job[j].status \in Final => job'[j] = job[j]]_vars

\* Every notification is settled in the end: sent, skipped or given up, also
\* when the pass that had claimed it died.
Settles == \A j \in Jobs : job[j].status # "none" ~> job[j].status \in Final
=============================================================================
