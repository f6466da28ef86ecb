----------------------- MODULE DeliveryJournalProofs -----------------------
(***************************************************************************)
(* Proofs about DeliveryJournal, for any number of jobs and passes, any    *)
(* lease, budget and lag: the number of attempts is a fence although       *)
(* giving a job back takes it down again; and, under leases that outlast a *)
(* pass, messages and attempts are bounded by the mishaps under the job.   *)
(***************************************************************************)
EXTENDS DeliveryJournal, TLAPS

\* No pass remembers more attempts than the job has, and while the job runs
\* only its owner remembers as many.  The owner alone may take one off.
Fence ==
  \A j \in Jobs :
    /\ job[j].status = "running" => job[j].attempts > 0
    /\ \A p \in Passes :
         /\ pass[p].token[j] <= job[j].attempts
         /\ job[j].status = "running" /\ owner[j] # p => pass[p].token[j] < job[j].attempts

IInv == TypeOK /\ Fence

\* What a step of pass p other than a claim does to one job: it leaves the
\* attempts and starts nothing, or, as its owner, gives it back.
Kept(p, j) ==
  /\ job'[j].attempts = job[j].attempts
  /\ job'[j].status \in {job[j].status, "pending"} \union Final
  /\ pass'[p].token[j] \in {0, pass[p].token[j]}

Returned(p, j) ==
  /\ Owns(p, j)
  /\ job'[j].attempts = pass[p].token[j] - 1
  /\ job'[j].status = "pending"
  /\ pass'[p].token[j] = 0

\* Steps of that kind keep the fence.
LEMMA FenceStep ==
  ASSUME IInv, TypeOK', NEW p \in Passes, owner' = owner,
         \A q \in Passes : q # p => pass'[q] = pass[q],
         \A j \in Jobs : Kept(p, j) \/ Returned(p, j)
  PROVE  Fence'
<1> USE DEF IInv
<1> SUFFICES ASSUME NEW j \in Jobs
             PROVE  /\ job'[j].status = "running" => job'[j].attempts > 0
                    /\ \A q \in Passes :
                         /\ pass'[q].token[j] <= job'[j].attempts
                         /\ job'[j].status = "running" /\ owner'[j] # q
                              => pass'[q].token[j] < job'[j].attempts
  BY DEF Fence
<1>t. /\ job[j].attempts \in Nat /\ job'[j].attempts \in Nat
      /\ \A q \in Passes : pass[q].token[j] \in Nat /\ pass'[q].token[j] \in Nat
  BY DEF TypeOK, Job, Pass
<1>f. /\ job[j].status = "running" => job[j].attempts > 0
      /\ \A q \in Passes :
           /\ pass[q].token[j] <= job[j].attempts
           /\ job[j].status = "running" /\ owner[j] # q => pass[q].token[j] < job[j].attempts
  BY DEF Fence
<1>1. CASE Kept(p, j)
  <2>1. job'[j].status = "running" => job[j].status = "running"
    BY <1>1 DEF Kept, Final
  <2>2. ASSUME NEW q \in Passes
        PROVE  pass'[q].token[j] <= pass[q].token[j]
    BY <1>1, <1>t DEF Kept
  <2> QED BY <1>1, <1>t, <1>f, <2>1, <2>2 DEF Kept
<1>2. CASE Returned(p, j)
  <2>1. owner[j] = p
    BY <1>2, <1>t, <1>f DEF Returned, Owns
  <2>2. ASSUME NEW q \in Passes
        PROVE  pass'[q].token[j] <= job'[j].attempts
    BY <1>2, <1>t, <1>f, <2>1 DEF Returned, Owns
  <2> QED BY <1>2, <2>2 DEF Returned
<1> QED BY <1>1, <1>2

-----------------------------------------------------------------------------
(* Rows a pass writes back.                                                 *)

\* A closed or pending row is a row, with the attempts it had.
LEMMA RowTypes ==
  ASSUME TypeOK, NEW j \in Jobs
  PROVE  /\ \A status \in Final : /\ Closed(j, status) \in Job
                                  /\ Closed(j, status).status = status
                                  /\ Closed(j, status).attempts = job[j].attempts
         /\ \A wait \in Int : /\ Pending(j, wait) \in Job
                             /\ Pending(j, wait).status = "pending"
                             /\ Pending(j, wait).attempts = job[j].attempts
BY DEF TypeOK, Job, Closed, Pending, Row

\* Whoever owns a running job has counted an attempt, so giving it back
\* leaves a natural number.
LEMMA GivenBackType ==
  ASSUME IInv, NEW p \in Passes, NEW j \in Jobs, Owns(p, j), NEW wait \in Int
  PROVE  /\ GivenBack(p, j, wait) \in Job
         /\ GivenBack(p, j, wait).status = "pending"
         /\ GivenBack(p, j, wait).attempts = pass[p].token[j] - 1
<1>1. job[j].attempts \in Nat /\ job[j].attempts > 0 /\ pass[p].token[j] = job[j].attempts
  BY DEF IInv, TypeOK, Fence, Job, Owns
<1>2. pass[p].token[j] - 1 \in Nat
  BY <1>1
<1> QED BY <1>2 DEF GivenBack, Row, Job

\* After a failure a job is pending or given up, with the attempts it had.
LEMMA AfterFailureType ==
  ASSUME TypeOK, NEW p \in Passes, NEW j \in Jobs
  PROVE  /\ AfterFailure(p, j) \in Job
         /\ AfterFailure(p, j).status \in {"pending"} \union Final
         /\ AfterFailure(p, j).attempts = job[j].attempts
<1>1. Backoff - pass[p].lag \in Int
  BY JournalAssumption DEF TypeOK, Pass
<1>2. "failed" \in Final
  BY DEF Final
<1> QED BY <1>1, <1>2, RowTypes DEF AfterFailure

\* What finish may write for pass p.
Writable(p, j, row) ==
  /\ row \in Job
  /\ \/ row.status \in {"pending"} \union Final /\ row.attempts = job[j].attempts
     \/ row.status = "pending" /\ row.attempts = pass[p].token[j] - 1

\* A pass that holds nothing.
LEMMA IdleType == Idle \in Pass
BY DEF Idle, Pass

\* A job is finished and the pass goes on to the next.
LEMMA FinishStep ==
  ASSUME IInv, NEW p \in Passes, NEW j, NEW row,
         j \in Jobs /\ Owns(p, j) => Writable(p, j, row),
         job' = Finish(p, j, row), NextJob(p, j)
  PROVE  /\ job' \in [Jobs -> Job] /\ pass' \in [Passes -> Pass]
         /\ \A q \in Passes : q # p => pass'[q] = pass[q]
         /\ \A k \in Jobs : Kept(p, k) \/ Returned(p, k)
<1> USE DEF IInv
<1> DEFINE r == [pass[p] EXCEPT !.token[j] = 0, !.at = Nobody, !.stage = "next", !.timer = 0]
<1>r. r \in Pass
  <2>1. pass[p] \in Pass
    BY DEF TypeOK
  <2> QED BY <2>1 DEF Pass
<1>p. pass' = [pass EXCEPT ![p] = r]
  BY DEF NextJob
<1>1. pass' \in [Passes -> Pass] /\ \A q \in Passes : q # p => pass'[q] = pass[q]
  <2> HIDE DEF r
  <2> QED BY <1>r, <1>p DEF TypeOK
<1>2. \A k \in Jobs : pass'[p].token[k] = IF k = j THEN 0 ELSE pass[p].token[k]
  BY DEF TypeOK, NextJob, Pass
<1>3. /\ job' \in [Jobs -> Job]
      /\ \A k \in Jobs : job'[k] = IF k = j /\ Owns(p, j) THEN row ELSE job[k]
  BY DEF TypeOK, Finish, Writable
<1>4. ASSUME NEW k \in Jobs
      PROVE  Kept(p, k) \/ Returned(p, k)
  <2>1. CASE k = j /\ Owns(p, j)
    BY <2>1, <1>2, <1>3 DEF Kept, Returned, Writable
  <2>2. CASE ~(k = j /\ Owns(p, j))
    BY <2>2, <1>2, <1>3 DEF Kept
  <2> QED BY <2>1, <2>2
<1> QED BY <1>1, <1>3, <1>4

\* What is left of the batch goes back, and the pass ends.
LEMMA ReleaseStep ==
  ASSUME IInv, NEW p \in Passes, NEW wait \in [Jobs -> Int],
         job' = Released(p, wait), pass' = [pass EXCEPT ![p] = Idle]
  PROVE  /\ job' \in [Jobs -> Job] /\ pass' \in [Passes -> Pass]
         /\ \A q \in Passes : q # p => pass'[q] = pass[q]
         /\ \A k \in Jobs : Kept(p, k) \/ Returned(p, k)
<1>1. pass' \in [Passes -> Pass] /\ \A q \in Passes : q # p => pass'[q] = pass[q]
  BY IdleType DEF IInv, TypeOK
<1>2. \A k \in Jobs : pass'[p].token[k] = 0
  BY DEF IInv, TypeOK, Idle
<1>3. ASSUME NEW k \in Jobs
      PROVE  job'[k] \in Job /\ (Kept(p, k) \/ Returned(p, k))
  <2>1. CASE k \in Held(p) /\ Owns(p, k)
    <3>1. job'[k] = GivenBack(p, k, wait[k])
      BY <2>1 DEF Released
    <3> QED BY <2>1, <3>1, <1>2, GivenBackType DEF Returned
  <2>2. CASE ~(k \in Held(p) /\ Owns(p, k))
    BY <2>2, <1>2 DEF Released, Kept, IInv, TypeOK
  <2> QED BY <2>1, <2>2
<1>4. job' = [k \in Jobs |-> job'[k]]
  BY DEF Released
<1> QED BY <1>1, <1>3, <1>4

-----------------------------------------------------------------------------
(* The invariant.                                                           *)

\* No job is queued before the first step.
LEMMA Initially == Init => IInv
<1> SUFFICES ASSUME Init PROVE IInv
  OBVIOUS
<1>1. \A j \in Jobs : job[j] = Row("none", 0, 0)
  BY DEF Init
<1>2. Row("none", 0, 0) \in Job
  BY DEF Row, Job
<1>3. TypeOK
  BY <1>2, IdleType DEF Init, TypeOK
<1>4. \A j \in Jobs : job[j].status # "running" /\ job[j].attempts = 0
  BY <1>1 DEF Row
<1>5. \A p \in Passes, j \in Jobs : pass[p].token[j] = 0
  BY DEF Init, Idle
<1> QED BY <1>3, <1>4, <1>5 DEF IInv, Fence

\* A claim counts an attempt more than any pass has read.
LEMMA ClaimStep ==
  ASSUME IInv, NEW p \in Passes, Claim(p)
  PROVE  IInv'
<1> USE DEF IInv
<1>1. PICK taken \in SUBSET Jobs :
        /\ job' = [j \in Jobs |-> IF j \in taken THEN Claimed(p, j) ELSE job[j]]
        /\ pass' = [pass EXCEPT ![p].until = Lease,
             ![p].token = [j \in Jobs |-> IF j \in taken THEN Claimed(p, j).attempts ELSE 0]]
        /\ owner' = [j \in Jobs |-> IF j \in taken THEN p ELSE owner[j]]
  BY DEF Claim, Due
<1>2. /\ \A q \in Passes : pass[q] \in Pass
      /\ Lease \in Nat /\ Lease - pass[p].lag \in Int
      /\ \A j \in Jobs :
           /\ job[j] \in Job /\ job[j].attempts \in Nat
           /\ Claimed(p, j) \in Job /\ Claimed(p, j).attempts = job[j].attempts + 1
  BY JournalAssumption DEF TypeOK, Job, Pass, Claimed
<1> DEFINE token == [j \in Jobs |-> IF j \in taken THEN Claimed(p, j).attempts ELSE 0]
<1>3. token \in [Jobs -> Nat]
  BY <1>2
<1>4. pass' = [pass EXCEPT ![p] = [@ EXCEPT !.until = Lease, !.token = token]]
  BY <1>1
<1>5. /\ pass' \in [Passes -> Pass] /\ pass'[p].token = token
      /\ \A q \in Passes : q # p => pass'[q] = pass[q]
  <2> HIDE DEF token
  <2>1. [pass[p] EXCEPT !.until = Lease, !.token = token] \in Pass
    BY <1>2, <1>3 DEF Pass
  <2>2. [pass[p] EXCEPT !.until = Lease, !.token = token].token = token
    BY <1>2 DEF Pass
  <2> QED BY <1>4, <2>1, <2>2 DEF TypeOK
<1>6. ASSUME NEW j \in Jobs
      PROVE  /\ job'[j] \in Job
             /\ j \in taken => /\ job'[j].attempts = job[j].attempts + 1
                              /\ owner'[j] = p /\ pass'[p].token[j] = job[j].attempts + 1
             /\ j \notin taken => /\ job'[j] = job[j] /\ owner'[j] = owner[j]
                                 /\ pass'[p].token[j] = 0
  BY <1>1, <1>2, <1>5
<1>7. TypeOK'
  <2>1. job' \in [Jobs -> Job]
    BY <1>1, <1>6
  <2>2. owner' \in [Jobs -> Passes]
    BY <1>1 DEF TypeOK
  <2> QED BY <2>1, <2>2, <1>5 DEF TypeOK, Claim
<1>8. ASSUME NEW j \in Jobs
      PROVE  /\ job'[j].status = "running" => job'[j].attempts > 0
             /\ \A q \in Passes :
                  /\ pass'[q].token[j] <= job'[j].attempts
                  /\ job'[j].status = "running" /\ owner'[j] # q
                       => pass'[q].token[j] < job'[j].attempts
  <2>1. /\ job[j].status = "running" => job[j].attempts > 0
        /\ \A q \in Passes :
             /\ pass[q].token[j] \in Nat /\ pass[q].token[j] <= job[j].attempts
             /\ job[j].status = "running" /\ owner[j] # q
                  => pass[q].token[j] < job[j].attempts
    BY <1>2 DEF Fence, Pass
  <2>2. CASE j \in taken
    BY <2>1, <2>2, <1>2, <1>5, <1>6
  <2>3. CASE j \notin taken
    BY <2>1, <2>3, <1>2, <1>5, <1>6
  <2> QED BY <2>2, <2>3
<1> QED BY <1>7, <1>8 DEF Fence

\* A step that takes nothing from the fence.
LEMMA OtherStep ==
  ASSUME IInv, TypeOK', UNCHANGED owner,
         \A j \in Jobs : /\ job'[j].attempts = job[j].attempts
                         /\ job'[j].status = "running" => job[j].status = "running"
                         /\ \A p \in Passes : pass'[p].token[j] \in {0, pass[p].token[j]}
  PROVE  IInv'
<1>1. ASSUME NEW j \in Jobs
      PROVE  /\ job'[j].status = "running" => job'[j].attempts > 0
             /\ \A q \in Passes :
                  /\ pass'[q].token[j] <= job'[j].attempts
                  /\ job'[j].status = "running" /\ owner'[j] # q
                       => pass'[q].token[j] < job'[j].attempts
  <2>1. /\ job[j].status = "running" => job[j].attempts > 0
        /\ job[j].attempts \in Nat
        /\ \A q \in Passes :
             /\ pass[q].token[j] \in Nat /\ pass[q].token[j] <= job[j].attempts
             /\ job[j].status = "running" /\ owner[j] # q
                  => pass[q].token[j] < job[j].attempts
    BY DEF IInv, TypeOK, Job, Fence, Pass
  <2> QED BY <2>1
<1> QED BY <1>1 DEF IInv, Fence

\* Counters of the model have their types after a step.
Counted ==
  sent' \in [Jobs -> Nat] /\ mishaps' \in [Jobs -> Nat] /\ pauses' \in [Jobs -> Nat]

\* A pass finishes one job, whatever comes of it.
LEMMA Finishing ==
  ASSUME IInv, NEW p \in Passes, NEW j, NEW row,
         j \in Jobs /\ Owns(p, j) => Writable(p, j, row),
         job' = Finish(p, j, row), NextJob(p, j), UNCHANGED owner, Counted
  PROVE  IInv'
<1>1. /\ job' \in [Jobs -> Job] /\ pass' \in [Passes -> Pass]
      /\ \A q \in Passes : q # p => pass'[q] = pass[q]
      /\ \A k \in Jobs : Kept(p, k) \/ Returned(p, k)
  BY FinishStep
<1>2. TypeOK'
  BY <1>1 DEF IInv, TypeOK, Counted
<1> QED BY <1>1, <1>2, FenceStep DEF IInv

\* A pass gives back what it holds.
LEMMA Releasing ==
  ASSUME IInv, NEW p \in Passes, NEW wait \in [Jobs -> Int],
         job' = Released(p, wait), pass' = [pass EXCEPT ![p] = Idle],
         UNCHANGED owner, Counted
  PROVE  IInv'
<1>1. /\ job' \in [Jobs -> Job] /\ pass' \in [Passes -> Pass]
      /\ \A q \in Passes : q # p => pass'[q] = pass[q]
      /\ \A k \in Jobs : Kept(p, k) \/ Returned(p, k)
  BY ReleaseStep
<1>2. TypeOK'
  BY <1>1 DEF IInv, TypeOK, Counted
<1> QED BY <1>1, <1>2, FenceStep DEF IInv

\* Only a pass changes, to one that remembers no more attempts.
LEMMA PassOnly ==
  ASSUME IInv, NEW p \in Passes, NEW r \in Pass,
         \A j \in Jobs : r.token[j] \in {0, pass[p].token[j]},
         pass' = [pass EXCEPT ![p] = r], UNCHANGED <<job, owner>>, Counted
  PROVE  IInv'
<1>1. /\ pass' \in [Passes -> Pass]
      /\ \A j \in Jobs, q \in Passes : pass'[q].token[j] \in {0, pass[q].token[j]}
  BY DEF IInv, TypeOK
<1>2. TypeOK'
  BY <1>1 DEF IInv, TypeOK, Counted
<1> QED BY <1>1, <1>2, OtherStep

\* Counting one more keeps a count a natural number, whatever is counted.
LEMMA Bumped ==
  ASSUME NEW f \in [Jobs -> Nat], NEW x
  PROVE  [f EXCEPT ![x] = @ + 1] \in [Jobs -> Nat]
<1>1. CASE x \in Jobs
  BY <1>1
<1>2. CASE x \notin Jobs
  BY <1>2
<1> QED BY <1>1, <1>2

\* Every step of a pass keeps the invariant.
LEMMA PassStep ==
  ASSUME IInv, NEW p \in Passes, Step(p)
  PROVE  IInv'
<1> USE DEF IInv
<1>t. /\ pass[p] \in Pass /\ pass[p].lag \in Nat
      /\ Pause - pass[p].lag \in Int /\ RunAt \in [Jobs -> Int]
      /\ Budget \in Nat /\ SendTime \in Nat /\ Lags \subseteq Nat
  BY JournalAssumption DEF TypeOK, Pass, Job, RunAt
<1>c. /\ sent \in [Jobs -> Nat] /\ mishaps \in [Jobs -> Nat] /\ pauses \in [Jobs -> Nat]
  BY DEF TypeOK
<1>1. ASSUME NEW lag \in Lags, StartPass(p, lag)
      PROVE  IInv'
  <2> DEFINE r == [Idle EXCEPT !.on = TRUE, !.lag = lag, !.left = Budget]
  <2>1. r \in Pass /\ \A j \in Jobs : r.token[j] \in {0, pass[p].token[j]}
    BY <1>t DEF Idle, Pass
  <2>2. pass' = [pass EXCEPT ![p] = r] /\ UNCHANGED <<job, owner>> /\ Counted
    BY <1>1, <1>c DEF StartPass, Counted
  <2> HIDE DEF r
  <2> QED BY <2>1, <2>2, PassOnly
<1>2. CASE Claim(p)
  BY <1>2, ClaimStep
<1>3. CASE EndPass(p)
  BY <1>3, <1>t, <1>c, Releasing DEF EndPass, Counted
<1>4. CASE Arrives(p)
  <2> DEFINE r == [pass[p] EXCEPT !.stage = "sent"]
  <2>1. r \in Pass /\ \A j \in Jobs : r.token[j] = pass[p].token[j]
    BY <1>t DEF Pass
  <2>2. sent' \in [Jobs -> Nat]
    BY <1>4, <1>c, Bumped DEF Arrives
  <2>3. pass' = [pass EXCEPT ![p] = r] /\ UNCHANGED <<job, owner>> /\ Counted
    BY <1>4, <1>c, <2>2 DEF Arrives, Counted
  <2> HIDE DEF r
  <2> QED BY <2>1, <2>3, PassOnly
<1>5. CASE MarkDone(p)
  <2>1. pass[p].at \in Jobs => Writable(p, pass[p].at, Closed(pass[p].at, "done"))
    BY RowTypes DEF Writable, Final
  <2> QED BY <1>5, <1>c, <2>1, Finishing DEF MarkDone, Counted
<1>6. CASE Blocked(p)
  <2>1. pass[p].at \in Jobs => Writable(p, pass[p].at, Closed(pass[p].at, "skipped"))
    BY RowTypes DEF Writable, Final
  <2> QED BY <1>6, <1>c, <2>1, Finishing DEF Blocked, Counted
<1>7. CASE RateLimited(p)
  <2> DEFINE wait == [RunAt EXCEPT ![pass[p].at] = Pause - pass[p].lag]
  <2>1. wait \in [Jobs -> Int]
    BY <1>t
  <2>2. pauses' \in [Jobs -> Nat]
    BY <1>7, <1>c, Bumped DEF RateLimited
  <2>3. job' = Released(p, wait) /\ pass' = [pass EXCEPT ![p] = Idle] /\ UNCHANGED owner /\ Counted
    BY <1>7, <1>c, <2>2 DEF RateLimited, Counted
  <2> HIDE DEF wait
  <2> QED BY <2>1, <2>3, Releasing
<1>8. ASSUME NEW j \in Jobs, Drop(p, j)
      PROVE  IInv'
  <2> DEFINE r == [pass[p] EXCEPT !.token[j] = 0, !.at = Nobody, !.stage = "next", !.timer = 0]
  <2>1. r \in Pass /\ \A k \in Jobs : r.token[k] \in {0, pass[p].token[k]}
    BY <1>t DEF Pass
  <2>2. pass' = [pass EXCEPT ![p] = r] /\ UNCHANGED <<job, owner>> /\ Counted
    BY <1>8, <1>c DEF Drop, NextJob, Counted
  <2> HIDE DEF r
  <2> QED BY <2>1, <2>2, PassOnly
<1>9. ASSUME NEW j \in Jobs, Skip(p, j)
      PROVE  IInv'
  <2>1. Writable(p, j, Closed(j, "skipped"))
    BY RowTypes DEF Writable, Final
  <2> QED BY <1>9, <1>c, <2>1, Finishing DEF Skip, Counted
<1>10. ASSUME NEW j \in Jobs, Defer(p, j)
       PROVE  IInv'
  <2>1. Owns(p, j) => Writable(p, j, GivenBack(p, j, Pause - pass[p].lag))
    BY <1>t, GivenBackType DEF Writable
  <2>2. pauses' \in [Jobs -> Nat]
    BY <1>10, <1>c, Bumped DEF Defer
  <2> QED BY <1>10, <1>c, <2>1, <2>2, Finishing DEF Defer, Counted
<1>11. ASSUME NEW j \in Jobs, Send(p, j)
       PROVE  IInv'
  <2> DEFINE r == [pass[p] EXCEPT !.at = j, !.stage = "sending", !.timer = SendTime]
  <2>1. r \in Pass /\ \A k \in Jobs : r.token[k] = pass[p].token[k]
    BY <1>t DEF Pass
  <2>2. pass' = [pass EXCEPT ![p] = r] /\ UNCHANGED <<job, owner>> /\ Counted
    BY <1>11, <1>c DEF Send, Counted
  <2> HIDE DEF r
  <2> QED BY <2>1, <2>2, PassOnly
<1>12. ASSUME NEW j \in Jobs, NEW arrived \in BOOLEAN, Retry(p, j, arrived)
       PROVE  IInv'
  <2>1. Writable(p, j, AfterFailure(p, j))
    BY AfterFailureType DEF Writable
  <2>2. mishaps' \in [Jobs -> Nat] /\ sent' \in [Jobs -> Nat]
    BY <1>12, <1>c, Bumped DEF Retry
  <2> QED BY <1>12, <1>c, <2>1, <2>2, Finishing DEF Retry, Counted
<1> QED
  BY <1>1, <1>2, <1>3, <1>4, <1>5, <1>6, <1>7, <1>8, <1>9, <1>10, <1>11, <1>12 DEF Step

\* The invariant is inductive.
LEMMA Invariance ==
  ASSUME IInv, [Next]_vars
  PROVE  IInv'
<1> USE DEF IInv
<1>c. /\ sent \in [Jobs -> Nat] /\ mishaps \in [Jobs -> Nat] /\ pauses \in [Jobs -> Nat]
  BY DEF TypeOK
<1>1. ASSUME NEW j \in Jobs, Enqueue(j)
      PROVE  IInv'
  <2>1. /\ Pending(j, 0) \in Job /\ Pending(j, 0).status = "pending"
        /\ Pending(j, 0).attempts = job[j].attempts
    BY RowTypes
  <2>2. TypeOK'
    BY <1>1, <2>1 DEF Enqueue, TypeOK
  <2>3. job' = [job EXCEPT ![j] = Pending(j, 0)] /\ UNCHANGED <<pass, owner>>
    BY <1>1 DEF Enqueue
  <2>4. ASSUME NEW k \in Jobs
        PROVE  /\ job'[k].attempts = job[k].attempts
               /\ job'[k].status = "running" => job[k].status = "running"
    BY <2>1, <2>3 DEF TypeOK
  <2> QED BY <2>2, <2>3, <2>4, OtherStep
<1>2. ASSUME NEW p \in Passes, Step(p)
      PROVE  IInv'
  BY <1>2, PassStep
<1>3. ASSUME NEW p \in Passes, NEW arrived \in BOOLEAN, Crash(p, arrived)
      PROVE  IInv'
  <2>1. sent' \in [Jobs -> Nat]
    BY <1>3, <1>c, Bumped DEF Crash
  <2>2. mishaps' \in [Jobs -> Nat]
    BY <1>3, <1>c DEF Crash
  <2>3. pass' = [pass EXCEPT ![p] = Idle] /\ UNCHANGED <<job, owner>> /\ Counted
    BY <1>3, <1>c, <2>1, <2>2 DEF Crash, Counted
  <2>4. \A j \in Jobs : Idle.token[j] \in {0, pass[p].token[j]}
    BY DEF Idle
  <2> QED BY <2>3, <2>4, IdleType, PassOnly
<1>4. CASE Tick
  <2>1. \A n \in Nat : Down(n) \in Nat
    BY DEF Down
  <2>2. \A n \in Int : Past(n) \in Int
    BY DEF Past
  <2>3. ASSUME NEW j \in Jobs
        PROVE  /\ job'[j] \in Job /\ job'[j].attempts = job[j].attempts
               /\ job'[j].status = job[j].status
    <3>1. job[j] \in Job
      BY DEF TypeOK
    <3>2. \/ job'[j] = job[j]
          \/ job'[j] = [job[j] EXCEPT !.wait = Past(@)]
          \/ job'[j] = [job[j] EXCEPT !.wait = Past(@), !.lease = Past(@)]
      BY <1>4 DEF Tick
    <3> QED BY <3>1, <3>2, <2>2 DEF Job
  <2>4. ASSUME NEW p \in Passes
        PROVE  pass'[p] \in Pass /\ pass'[p].token = pass[p].token
    <3>1. pass[p] \in Pass
      BY DEF TypeOK
    <3>2. pass'[p] = [pass[p] EXCEPT !.left = Down(@), !.until = Down(@), !.timer = Down(@)]
      BY <1>4 DEF Tick
    <3> QED BY <3>1, <3>2, <2>1 DEF Pass
  <2>5. job' = [j \in Jobs |-> job'[j]] /\ pass' = [p \in Passes |-> pass'[p]]
    BY <1>4 DEF Tick
  <2>6. TypeOK'
    BY <1>4, <2>3, <2>4, <2>5 DEF Tick, TypeOK
  <2> QED BY <1>4, <2>3, <2>4, <2>6, OtherStep DEF Tick
<1>5. CASE UNCHANGED vars
  BY <1>5, OtherStep DEF vars, TypeOK
<1> QED BY <1>1, <1>2, <1>3, <1>4, <1>5 DEF Next

\* In every reachable state the invariant holds.
THEOREM Reachable == Spec => []IInv
<1>1. Init => IInv
  BY Initially
<1>2. IInv /\ [Next]_vars => IInv'
  BY Invariance
<1> QED BY <1>1, <1>2, PTL DEF Spec

\* The types hold; in particular giving an attempt back (defer, release) never
\* takes the count below zero.
THEOREM TypeCorrect == Spec => []TypeOK
<1>1. IInv => TypeOK
  BY DEF IInv
<1> QED BY <1>1, Reachable, PTL

\* finish and release compare status and attempts: whatever passes there are and
\* however often leases run out and attempts are given back, only the pass that
\* claimed the job last can match them.
THEOREM OnlyTheOwnerWrites == Spec => []OnlyOwnerWrites
<1>1. IInv => OnlyOwnerWrites
  <2> SUFFICES ASSUME IInv, NEW p \in Passes, NEW j \in Held(p), Owns(p, j)
               PROVE  owner[j] = p
    BY DEF OnlyOwnerWrites
  <2>1. j \in Jobs /\ job[j].status = "running" /\ job[j].attempts = pass[p].token[j]
    BY DEF Held, Owns
  <2>2. pass[p].token[j] \in Nat
    BY <2>1 DEF IInv, TypeOK, Pass
  <2>3. owner[j] # p => pass[p].token[j] < job[j].attempts
    BY <2>1 DEF IInv, Fence
  <2> QED BY <2>1, <2>2, <2>3
<1> QED BY <1>1, Reachable, PTL

\* A job sent, skipped or given up is closed for good: the late marks, retries,
\* deferrals and releases of passes that lost it, and later claims, leave it.
THEOREM ClosedForGood == Spec => ClosedStays
<1> DEFINE A == \A j \in Jobs : job[j].status \in Final => job'[j] = job[j]
<1>1. ASSUME NEW p \in Passes, NEW j \in Jobs, NEW row, job' = Finish(p, j, row), TypeOK
      PROVE  A
  <2>1. \A k \in Jobs : Owns(p, k) => job[k].status \notin Final
    BY DEF Owns, Final
  <2>2. \A k \in Jobs : job'[k] = IF k = j /\ Owns(p, j) THEN row ELSE job[k]
    BY <1>1 DEF Finish, TypeOK
  <2> QED BY <2>1, <2>2
<1>2. ASSUME NEW p \in Passes, NEW wait, job' = Released(p, wait)
      PROVE  A
  <2>1. \A k \in Jobs : Owns(p, k) => job[k].status \notin Final
    BY DEF Owns, Final
  <2> QED BY <1>2, <2>1 DEF Released
<1>3. ASSUME job' = job
      PROVE  A
  BY <1>3
<1>4. ASSUME TypeOK, NEW p \in Passes, Step(p)
      PROVE  A
  <2>1. ASSUME NEW lag \in Lags, StartPass(p, lag)
        PROVE  A
    BY <1>3, <2>1 DEF StartPass
  <2>2. ASSUME Claim(p)
        PROVE  A
    <3>1. PICK taken \in SUBSET Due(pass[p].lag) :
            job' = [j \in Jobs |-> IF j \in taken THEN Claimed(p, j) ELSE job[j]]
      BY <2>2 DEF Claim
    <3>2. \A j \in taken : job[j].status \notin Final
      BY DEF Due, Final
    <3> QED BY <3>1, <3>2
  <2>3. ASSUME NEW j \in Jobs, NEW arrived \in BOOLEAN,
               Drop(p, j) \/ Skip(p, j) \/ Defer(p, j) \/ Send(p, j) \/ Retry(p, j, arrived)
        PROVE  A
    BY <1>1, <1>3, <1>4, <2>3 DEF Drop, Skip, Defer, Send, Retry
  <2>4. ASSUME MarkDone(p) \/ Blocked(p)
        PROVE  A
    <3> DEFINE j == pass[p].at
    <3>1. PICK row : job' = Finish(p, j, row)
      BY <2>4 DEF MarkDone, Blocked
    <3>2. CASE j \in Jobs
      BY <1>1, <1>4, <3>1, <3>2
    <3>3. CASE j \notin Jobs
      <4>1. job' = job
        BY <1>4, <3>1, <3>3 DEF Finish, TypeOK
      <4> QED BY <1>3, <4>1
    <3> QED BY <3>2, <3>3
  <2>5. ASSUME EndPass(p) \/ RateLimited(p)
        PROVE  A
    BY <1>2, <2>5 DEF EndPass, RateLimited
  <2>6. ASSUME Arrives(p)
        PROVE  A
    BY <1>3, <2>6 DEF Arrives
  <2> HIDE DEF A
  <2> QED BY <1>4, <2>1, <2>2, <2>3, <2>4, <2>5, <2>6 DEF Step
<1>5. ASSUME TypeOK, Next
      PROVE  A
  <2>1. ASSUME NEW j \in Jobs, Enqueue(j)
        PROVE  A
    <3>1. job' = [job EXCEPT ![j] = Pending(j, 0)] /\ job[j].status = "none"
      BY <2>1 DEF Enqueue
    <3> QED BY <1>5, <3>1 DEF TypeOK, Final
  <2>2. ASSUME NEW p \in Passes, NEW arrived \in BOOLEAN, Crash(p, arrived)
        PROVE  A
    BY <1>3, <2>2 DEF Crash
  <2>3. ASSUME Tick
        PROVE  A
    <3> SUFFICES ASSUME NEW j \in Jobs, job[j].status \in Final
                 PROVE  job'[j] = job[j]
      OBVIOUS
    <3>1. job[j].status # "pending" /\ job[j].status # "running"
      BY DEF Final
    <3> QED BY <2>3, <3>1 DEF Tick
  <2> HIDE DEF A
  <2> QED BY <1>4, <1>5, <2>1, <2>2, <2>3 DEF Next
<1>6. TypeOK /\ [Next]_vars => [A]_vars
  BY <1>5
<1> QED BY <1>6, TypeCorrect, PTL DEF Spec, ClosedStays
-----------------------------------------------------------------------------
(* Leases that outlast a pass.  What follows assumes that the lease covers  *)
(* the budget of a pass, one send and the lag of its clock; the code has    *)
(* 120 s for 10 s, 5 s and the steps of the tick before delivery.           *)

LeaseSuffices == \A lag \in Lags : Budget + SendTime + lag <= Lease

\* A pass with jobs in its hands still owns them all, and their leases go on.
Works(p) ==
  /\ pass[p].on
  /\ pass[p].left > 0 => pass[p].until >= pass[p].left + (Lease - Budget)
  /\ pass[p].stage = "sending" => pass[p].until > (Lease - Budget - SendTime) + pass[p].timer
  /\ pass[p].until > Lease - Budget - SendTime
  /\ \A j \in Held(p) : Owns(p, j) /\ job[j].lease >= pass[p].until - pass[p].lag

LeaseOK(p) ==
  /\ pass[p].on => pass[p].left <= Budget /\ pass[p].lag \in Lags
  /\ pass[p].stage # "next" => pass[p].at \in Held(p)
  /\ Held(p) # {} => Works(p)

LeaseHolds == \A p \in Passes : LeaseOK(p)

\* Attempts a job may have: each mishap under it is worth one more.
Limit(j) == MaxAttempts + mishaps[j]

Arrived(j) ==
  job[j].status \in Final \/ \E p \in Passes : pass[p].at = j /\ pass[p].stage = "sent"

\* A message that arrived is being marked, is marked, or was a mishap; and the
\* next claim of a job is within the limit.
Tallied(j) ==
  /\ sent[j] <= mishaps[j] + 1
  /\ ~Arrived(j) => sent[j] <= mishaps[j]
  /\ job[j].attempts <= Limit(j)
  /\ job[j].status \in {"none", "pending"} => job[j].attempts < Limit(j)
  /\ job[j].status = "running" /\ (\A p \in Passes : j \notin Held(p))
       => job[j].attempts < Limit(j)

TallyHolds == \A j \in Jobs : Tallied(j)

\* A held job is running under a lease that goes on, and in nobody else's hands.
LEMMA HeldIsOwned ==
  ASSUME LeaseSuffices, IInv, LeaseHolds, NEW p \in Passes, NEW j \in Held(p)
  PROVE  /\ j \in Jobs /\ Owns(p, j) /\ job[j].status = "running" /\ job[j].lease > 0
         /\ owner[j] = p /\ Works(p)
         /\ \A q \in Passes : q # p => j \notin Held(q)
<1>1. j \in Jobs
  BY DEF Held
<1>2. \A q \in Passes : j \in Held(q) => Owns(q, j) /\ owner[j] = q
  <2> SUFFICES ASSUME NEW q \in Passes, j \in Held(q)
               PROVE  Owns(q, j) /\ owner[j] = q
    OBVIOUS
  <2>1. Owns(q, j)
    BY DEF LeaseHolds, LeaseOK, Works
  <2>2. pass[q].token[j] \in Nat
    BY <1>1 DEF IInv, TypeOK, Pass
  <2> QED BY <1>1, <2>1, <2>2 DEF Owns, IInv, Fence
<1>3. Works(p)
  BY DEF LeaseHolds, LeaseOK
<1>4. job[j].lease > 0
  <2>1. /\ pass[p].lag \in Lags /\ pass[p].until > Lease - Budget - SendTime
        /\ job[j].lease >= pass[p].until - pass[p].lag
    BY <1>3 DEF LeaseHolds, LeaseOK, Works
  <2>2. Budget + SendTime + pass[p].lag <= Lease
    BY <2>1 DEF LeaseSuffices
  <2>3. /\ job[j].lease \in Int /\ pass[p].until \in Int /\ pass[p].lag \in Int
        /\ Lease \in Int /\ Budget \in Int /\ SendTime \in Int
    BY <1>1, JournalAssumption DEF IInv, TypeOK, Job, Pass
  <2> QED BY <2>1, <2>2, <2>3
<1> QED BY <1>1, <1>2, <1>3, <1>4 DEF Owns

\* What a pass holds stays its own while nobody writes these rows.
LEMMA UndisturbedPass ==
  ASSUME LeaseHolds, NEW q \in Passes, pass'[q] = pass[q],
         \A j \in Held(q) : job'[j] = job[j]
  PROVE  LeaseOK(q)'
<1>1. LeaseOK(q) /\ Held(q)' = Held(q)
  BY DEF LeaseHolds, Held
<1> QED BY <1>1 DEF LeaseOK, Works, Owns

\* Only the rows of pass p change, and p itself.
LEMMA OthersUndisturbed ==
  ASSUME LeaseSuffices, IInv, LeaseHolds, NEW p \in Passes,
         \A q \in Passes : q # p => pass'[q] = pass[q],
         \A j \in Jobs : j \notin Held(p) => job'[j] = job[j],
         LeaseOK(p)'
  PROVE  LeaseHolds'
<1> SUFFICES ASSUME NEW q \in Passes, q # p PROVE LeaseOK(q)'
  BY DEF LeaseHolds
<1>1. \A j \in Held(q) : j \in Jobs /\ j \notin Held(p)
  BY HeldIsOwned
<1> QED BY <1>1, UndisturbedPass

LEMMA FinishKeepsLease ==
  ASSUME LeaseSuffices, IInv, LeaseHolds, NEW p \in Passes, NEW j \in Held(p), NEW row,
         job' = Finish(p, j, row), NextJob(p, j)
  PROVE  LeaseHolds'
<1>1. /\ \A k \in Jobs : k # j => job'[k] = job[k]
      /\ \A q \in Passes : q # p => pass'[q] = pass[q]
  BY DEF Finish, NextJob, IInv, TypeOK
<1>2. /\ pass'[p].on = pass[p].on /\ pass'[p].lag = pass[p].lag /\ pass'[p].left = pass[p].left
      /\ pass'[p].until = pass[p].until /\ pass'[p].stage = "next"
      /\ \A k \in Jobs : pass'[p].token[k] = IF k = j THEN 0 ELSE pass[p].token[k]
  BY DEF NextJob, IInv, TypeOK, Pass
<1>3. \A k \in Held(p)' : k \in Jobs /\ k \in Held(p) /\ k # j
  BY <1>2 DEF Held
<1>4. Works(p) /\ LeaseOK(p)
  BY DEF LeaseHolds, LeaseOK
<1>5. \A k \in Held(p)' : Owns(p, k)' /\ job'[k].lease >= pass'[p].until - pass'[p].lag
  BY <1>1, <1>2, <1>3, <1>4 DEF Works, Owns
<1>6. LeaseOK(p)'
  BY <1>2, <1>4, <1>5 DEF LeaseOK, Works
<1> QED BY <1>1, <1>6, OthersUndisturbed

LEMMA IdleKeepsLease ==
  ASSUME LeaseSuffices, IInv, LeaseHolds, NEW p \in Passes,
         \A j \in Jobs : j \notin Held(p) => job'[j] = job[j],
         pass' = [pass EXCEPT ![p] = Idle]
  PROVE  LeaseHolds'
<1>1. pass'[p] = Idle /\ \A q \in Passes : q # p => pass'[q] = pass[q]
  BY DEF IInv, TypeOK
<1>2. Held(p)' = {} /\ pass'[p].stage = "next" /\ pass'[p].on = FALSE
  BY <1>1 DEF Held, Idle
<1>3. LeaseOK(p)'
  BY <1>2 DEF LeaseOK
<1> QED BY <1>1, <1>3, OthersUndisturbed

LEMMA ClaimKeepsLease ==
  ASSUME LeaseSuffices, IInv, LeaseHolds, NEW p \in Passes, Claim(p)
  PROVE  LeaseHolds'
<1>1. PICK taken \in SUBSET Due(pass[p].lag) :
        /\ job' = [j \in Jobs |-> IF j \in taken THEN Claimed(p, j) ELSE job[j]]
        /\ pass' = [pass EXCEPT ![p].until = Lease,
             ![p].token = [j \in Jobs |-> IF j \in taken THEN Claimed(p, j).attempts ELSE 0]]
  BY DEF Claim
<1>t. pass[p] \in Pass /\ pass[p].lag \in Nat /\ pass[p].left \in Nat
  BY DEF IInv, TypeOK, Pass
<1>2. pass[p].on /\ Held(p) = {} /\ pass[p].left > 0
  BY DEF Claim
<1>3. pass[p].stage = "next" /\ pass[p].lag \in Lags /\ pass[p].left <= Budget
  BY <1>2 DEF LeaseHolds, LeaseOK
<1>4. ASSUME NEW q \in Passes, q # p PROVE LeaseOK(q)'
  <2>1. pass'[q] = pass[q]
    BY <1>1, <1>4 DEF IInv, TypeOK
  <2>2. \A j \in Held(q) : j \in Jobs /\ j \notin taken
    <3> SUFFICES ASSUME NEW j \in Held(q) PROVE j \in Jobs /\ j \notin Due(pass[p].lag)
      BY <1>1
    <3>1. j \in Jobs /\ job[j].status = "running" /\ job[j].lease > 0 /\ job[j].lease \in Int
      BY HeldIsOwned DEF IInv, TypeOK, Job
    <3> QED BY <1>t, <3>1 DEF Due
  <2> QED BY <1>1, <2>1, <2>2, UndisturbedPass
<1>5. LeaseOK(p)'
  <2> DEFINE token == [j \in Jobs |-> IF j \in taken THEN Claimed(p, j).attempts ELSE 0]
  <2>1. pass'[p] = [pass[p] EXCEPT !.until = Lease, !.token = token]
    BY <1>1 DEF IInv, TypeOK
  <2> HIDE DEF token
  <2>2. /\ pass'[p].on /\ pass'[p].lag = pass[p].lag /\ pass'[p].left = pass[p].left
        /\ pass'[p].until = Lease /\ pass'[p].stage = "next" /\ pass'[p].token = token
    BY <1>t, <1>2, <1>3, <2>1 DEF Pass
  <2>3. ASSUME NEW j \in Held(p)'
        PROVE  Owns(p, j)' /\ job'[j].lease >= pass'[p].until - pass'[p].lag
    <3>1. j \in Jobs /\ token[j] > 0
      BY <2>2, <2>3 DEF Held
    <3>2. j \in taken /\ token[j] = Claimed(p, j).attempts
      BY <3>1 DEF token
    <3>3. job'[j] = Claimed(p, j)
      BY <1>1, <3>1, <3>2
    <3>4. job'[j].status = "running" /\ job'[j].lease = Lease - pass[p].lag
      BY <3>3 DEF Claimed
    <3> QED BY <2>2, <3>1, <3>2, <3>3, <3>4, <1>t, JournalAssumption DEF Owns
  <2>4. /\ Lease >= pass[p].left + (Lease - Budget)
        /\ Lease > Lease - Budget - SendTime
    BY <1>t, <1>3, JournalAssumption
  <2> QED BY <1>3, <2>2, <2>3, <2>4 DEF LeaseOK, Works
<1> QED BY <1>4, <1>5 DEF LeaseHolds

\* Of the three kinds of rows.
LEMMA RunningRow ==
  ASSUME NEW status, status = "running", NEW a, NEW b, NEW c
  PROVE  (CASE status = "pending" -> a [] status = "running" -> b [] OTHER -> c) = b
BY SMT

\* Time passes only while every pass sends, for as long as its timeout.
LEMMA TickKeepsLease ==
  ASSUME LeaseSuffices, IInv, LeaseHolds, NEW p \in Passes, Tick
  PROVE  LeaseOK(p)'
<1>t. /\ pass[p] \in Pass /\ pass[p].left \in Nat /\ pass[p].until \in Nat
      /\ pass[p].timer \in Nat /\ pass[p].lag \in Nat
      /\ Lease \in Nat /\ Budget \in Nat /\ SendTime \in Nat
  BY JournalAssumption DEF IInv, TypeOK, Pass
<1>0. pass[p].on => pass[p].stage = "sending" /\ pass[p].timer > 0
  BY DEF Tick
<1>1. pass'[p] = [pass[p] EXCEPT !.left = Down(@), !.until = Down(@), !.timer = Down(@)]
  BY Zenon DEF Tick
<1>2. /\ pass'[p].on = pass[p].on /\ pass'[p].lag = pass[p].lag /\ pass'[p].at = pass[p].at
      /\ pass'[p].stage = pass[p].stage /\ pass'[p].token = pass[p].token
      /\ pass'[p].left = Down(pass[p].left) /\ pass'[p].until = Down(pass[p].until)
      /\ pass'[p].timer = Down(pass[p].timer)
  BY <1>t, <1>1 DEF Pass
<1>3. Held(p)' = Held(p)
  BY <1>2 DEF Held
<1>4. LeaseOK(p)
  BY DEF LeaseHolds
<1>5. ASSUME Works(p), Held(p) # {} PROVE Works(p)'
  <2>1. /\ pass[p].on /\ pass[p].stage = "sending" /\ pass[p].timer > 0
        /\ pass[p].until > (Lease - Budget - SendTime) + pass[p].timer
        /\ pass[p].left > 0 => pass[p].until >= pass[p].left + (Lease - Budget)
        /\ pass[p].lag \in Lags
    BY <1>0, <1>4, <1>5 DEF Works, LeaseOK
  <2>2. Budget + SendTime + pass[p].lag <= Lease
    BY <2>1 DEF LeaseSuffices
  <2>3. pass'[p].until = pass[p].until - 1 /\ pass'[p].timer = pass[p].timer - 1
    BY <1>t, <1>2, <2>1, <2>2 DEF Down
  <2>4. pass'[p].left > 0 => pass[p].left > 0 /\ pass'[p].left = pass[p].left - 1
    BY <1>t, <1>2 DEF Down
  <2>5. ASSUME NEW j \in Held(p)
        PROVE  Owns(p, j)' /\ job'[j].lease >= pass'[p].until - pass'[p].lag
    <3>1. /\ j \in Jobs /\ Owns(p, j) /\ job[j].status = "running"
          /\ job[j].lease >= pass[p].until - pass[p].lag /\ job[j] \in Job /\ job[j].lease \in Int
      BY <1>5, HeldIsOwned DEF Works, IInv, TypeOK, Job
    <3>2. job'[j] = [job[j] EXCEPT !.wait = Past(@), !.lease = Past(@)]
      BY <3>1, Zenon, RunningRow DEF Tick
    <3>3. /\ job'[j].status = job[j].status /\ job'[j].attempts = job[j].attempts
          /\ job'[j].lease = Past(job[j].lease)
      BY <3>1, <3>2 DEF Job
    <3>4. Past(job[j].lease) >= job[j].lease - 1
      BY <3>1 DEF Past
    <3>5. Past(job[j].lease) \in Int
      BY <3>1 DEF Past
    <3> QED BY <1>t, <1>2, <2>3, <3>1, <3>3, <3>4, <3>5 DEF Owns
  <2> QED BY <1>t, <1>2, <1>3, <2>1, <2>3, <2>4, <2>5 DEF Works
<1>6. pass'[p].on => pass'[p].left <= Budget /\ pass'[p].lag \in Lags
  BY <1>t, <1>2, <1>4 DEF LeaseOK, Down
<1> QED BY <1>2, <1>3, <1>4, <1>5, <1>6 DEF LeaseOK

\* A pass that works on a job has it in its hands.
LEMMA AtIsHeld ==
  ASSUME LeaseHolds, NEW p \in Passes, pass[p].stage # "next"
  PROVE  pass[p].at \in Held(p)
BY DEF LeaseHolds, LeaseOK

\* With a lease that suffices a batch is never dropped.
LEMMA NeverDropped ==
  ASSUME LeaseSuffices, IInv, LeaseHolds, NEW p \in Passes, NEW j
  PROVE  ~Drop(p, j)
<1> SUFFICES ASSUME Drop(p, j) PROVE FALSE
  OBVIOUS
<1>1. j \in Held(p) /\ pass[p].until = 0
  BY DEF Drop, Reaches
<1>2. /\ pass[p].until > Lease - Budget - SendTime /\ pass[p].lag \in Lags
  BY <1>1 DEF LeaseHolds, LeaseOK, Works
<1>3. Budget + SendTime + pass[p].lag <= Lease
  BY <1>2 DEF LeaseSuffices
<1>4. pass[p].lag \in Nat /\ Lease \in Nat /\ Budget \in Nat /\ SendTime \in Nat
  BY JournalAssumption DEF IInv, TypeOK, Pass
<1> QED BY <1>1, <1>2, <1>3, <1>4

\* Giving back writes only what the pass holds.
LEMMA ReleaseWritesHeld ==
  ASSUME NEW p \in Passes, NEW wait, job' = Released(p, wait), TypeOK
  PROVE  \A j \in Jobs : j \notin Held(p) => job'[j] = job[j]
BY DEF Released, TypeOK

\* Every step of a pass keeps the leases sufficient.
LEMMA StepKeepsLease ==
  ASSUME LeaseSuffices, IInv, LeaseHolds, NEW p \in Passes, Step(p)
  PROVE  LeaseHolds'
<1>t. /\ pass[p] \in Pass /\ pass[p].until \in Nat /\ pass[p].left \in Nat
      /\ pass[p].lag \in Nat /\ pass \in [Passes -> Pass] /\ TypeOK
      /\ Lease \in Nat /\ Budget \in Nat /\ SendTime \in Nat
  BY JournalAssumption DEF IInv, TypeOK, Pass
<1>0. LeaseOK(p)
  BY DEF LeaseHolds
<1>1. ASSUME NEW lag \in Lags, StartPass(p, lag)
      PROVE  LeaseHolds'
  <2>1. pass' = [pass EXCEPT ![p] = [Idle EXCEPT !.on = TRUE, !.lag = lag, !.left = Budget]]
    BY <1>1 DEF StartPass
  <2>2. /\ pass'[p] = [Idle EXCEPT !.on = TRUE, !.lag = lag, !.left = Budget]
        /\ \A q \in Passes : q # p => pass'[q] = pass[q]
    BY <1>t, <2>1
  <2>3. /\ pass'[p].left = Budget /\ pass'[p].lag = lag /\ pass'[p].stage = "next"
        /\ \A j \in Jobs : pass'[p].token[j] = 0
    BY <2>2 DEF Idle
  <2>4. LeaseOK(p)'
    BY <1>t, <2>3 DEF LeaseOK, Held
  <2> QED BY <1>1, <2>2, <2>4, OthersUndisturbed DEF StartPass
<1>2. CASE Claim(p)
  BY <1>2, ClaimKeepsLease
<1>3. CASE EndPass(p)
  BY <1>3, <1>t, ReleaseWritesHeld, IdleKeepsLease DEF EndPass
<1>4. CASE Arrives(p)
  <2>1. pass[p].stage = "sending" /\ job' = job
    BY <1>4 DEF Arrives
  <2>2. /\ pass'[p] = [pass[p] EXCEPT !.stage = "sent"]
        /\ \A q \in Passes : q # p => pass'[q] = pass[q]
    BY <1>4, <1>t DEF Arrives
  <2>3. /\ pass'[p].on = pass[p].on /\ pass'[p].lag = pass[p].lag /\ pass'[p].at = pass[p].at
        /\ pass'[p].stage = "sent" /\ pass'[p].token = pass[p].token
        /\ pass'[p].left = pass[p].left /\ pass'[p].until = pass[p].until
    BY <1>t, <2>2 DEF Pass
  <2>4. Held(p)' = Held(p)
    BY <2>3 DEF Held
  <2>5. LeaseOK(p)'
    BY <1>0, <2>1, <2>3, <2>4 DEF LeaseOK, Works, Owns
  <2> QED BY <2>1, <2>2, <2>5, OthersUndisturbed
<1>5. CASE MarkDone(p)
  BY <1>5, AtIsHeld, FinishKeepsLease DEF MarkDone
<1>6. CASE Blocked(p)
  BY <1>6, AtIsHeld, FinishKeepsLease DEF Blocked
<1>7. CASE RateLimited(p)
  BY <1>7, <1>t, ReleaseWritesHeld, IdleKeepsLease DEF RateLimited
<1>8. ASSUME NEW j \in Jobs, Drop(p, j)
      PROVE  LeaseHolds'
  BY <1>8, NeverDropped
<1>9. ASSUME NEW j \in Jobs, Skip(p, j)
      PROVE  LeaseHolds'
  BY <1>9, FinishKeepsLease DEF Skip, Reaches
<1>10. ASSUME NEW j \in Jobs, Defer(p, j)
       PROVE  LeaseHolds'
  BY <1>10, FinishKeepsLease DEF Defer, Reaches
<1>11. ASSUME NEW j \in Jobs, Send(p, j)
       PROVE  LeaseHolds'
  <2>1. j \in Held(p) /\ pass[p].left > 0 /\ job' = job
    BY <1>11 DEF Send, Reaches
  <2>2. /\ pass'[p] = [pass[p] EXCEPT !.at = j, !.stage = "sending", !.timer = SendTime]
        /\ \A q \in Passes : q # p => pass'[q] = pass[q]
    BY <1>11, <1>t DEF Send
  <2>3. /\ pass'[p].on = pass[p].on /\ pass'[p].lag = pass[p].lag /\ pass'[p].at = j
        /\ pass'[p].stage = "sending" /\ pass'[p].token = pass[p].token
        /\ pass'[p].left = pass[p].left /\ pass'[p].until = pass[p].until
        /\ pass'[p].timer = SendTime
    BY <1>t, <2>2 DEF Pass
  <2>4. Held(p)' = Held(p) /\ Works(p)
    BY <1>0, <2>1, <2>3 DEF Held, LeaseOK
  <2>5. pass'[p].until > (Lease - Budget - SendTime) + pass'[p].timer
    BY <1>t, <2>1, <2>3, <2>4 DEF Works
  <2>6. Works(p)'
    BY <2>1, <2>3, <2>4, <2>5 DEF Works, Owns
  <2>7. LeaseOK(p)'
    BY <1>0, <2>1, <2>3, <2>4, <2>6 DEF LeaseOK
  <2> QED BY <2>1, <2>2, <2>7, OthersUndisturbed
<1>12. ASSUME NEW j \in Jobs, NEW arrived \in BOOLEAN, Retry(p, j, arrived)
       PROVE  LeaseHolds'
  <2>1. j \in Held(p)
    BY <1>12, AtIsHeld DEF Retry, Reaches
  <2> QED BY <1>12, <2>1, FinishKeepsLease DEF Retry
<1> QED
  BY <1>1, <1>2, <1>3, <1>4, <1>5, <1>6, <1>7, <1>8, <1>9, <1>10, <1>11, <1>12 DEF Step

\* The leases stay sufficient.
LEMMA LeaseInvariance ==
  ASSUME LeaseSuffices, IInv, LeaseHolds, [Next]_vars
  PROVE  LeaseHolds'
<1>1. ASSUME NEW j \in Jobs, Enqueue(j)
      PROVE  LeaseHolds'
  <2>1. /\ job[j].status = "none" /\ pass' = pass
        /\ \A k \in Jobs : k # j => job'[k] = job[k]
    BY <1>1 DEF Enqueue, IInv, TypeOK
  <2>2. \A q \in Passes : \A k \in Held(q) : k \in Jobs /\ k # j
    BY <2>1, HeldIsOwned
  <2> QED BY <2>1, <2>2, UndisturbedPass DEF LeaseHolds
<1>2. ASSUME NEW p \in Passes, Step(p)
      PROVE  LeaseHolds'
  BY <1>2, StepKeepsLease
<1>3. ASSUME NEW p \in Passes, NEW arrived \in BOOLEAN, Crash(p, arrived)
      PROVE  LeaseHolds'
  BY <1>3, IdleKeepsLease DEF Crash
<1>4. CASE Tick
  BY <1>4, TickKeepsLease DEF LeaseHolds
<1>5. CASE UNCHANGED vars
  BY <1>5, UndisturbedPass DEF LeaseHolds, vars
<1> QED BY <1>1, <1>2, <1>3, <1>4, <1>5 DEF Next

LEMMA LeaseInitially == Init => LeaseHolds
<1> SUFFICES ASSUME Init, NEW p \in Passes PROVE LeaseOK(p)
  BY DEF LeaseHolds
<1>1. pass[p] = Idle
  BY DEF Init
<1>2. /\ pass[p].on = FALSE /\ pass[p].stage = "next" /\ \A j \in Jobs : pass[p].token[j] = 0
  BY <1>1 DEF Idle
<1> QED BY <1>2 DEF LeaseOK, Held

-----------------------------------------------------------------------------
(* Messages and attempts, under such leases.                                *)

\* A pass keeps job k in its hands, and the mark of its message in view.
Minds(q, k) ==
  /\ k \in Held(q) => k \in Held(q)'
  /\ pass[q].at = k /\ pass[q].stage = "sent" => pass'[q].at = k /\ pass'[q].stage = "sent"

\* A job that a step leaves alone.
LEMMA UntouchedTally ==
  ASSUME TallyHolds, NEW k \in Jobs,
         job'[k].status = job[k].status, job'[k].attempts = job[k].attempts,
         sent'[k] = sent[k], mishaps'[k] = mishaps[k],
         \A q \in Passes : Minds(q, k)
  PROVE  Tallied(k)'
<1>1. Tallied(k)
  BY DEF TallyHolds
<1>2. Arrived(k) => Arrived(k)'
  BY DEF Arrived, Minds
<1>3. (\A q \in Passes : k \notin Held(q)') => \A q \in Passes : k \notin Held(q)
  BY DEF Minds
<1> QED BY <1>1, <1>2, <1>3 DEF Tallied, Limit

\* The message of a held job has not arrived before its pass knows.
LEMMA NotArrived ==
  ASSUME LeaseSuffices, IInv, LeaseHolds, NEW p \in Passes, NEW j \in Held(p),
         pass[p].stage = "sent" => pass[p].at # j
  PROVE  ~Arrived(j)
<1>1. job[j].status = "running" /\ \A q \in Passes : q # p => j \notin Held(q)
  BY HeldIsOwned
<1>2. ASSUME NEW q \in Passes, pass[q].at = j, pass[q].stage = "sent" PROVE FALSE
  <2>1. j \in Held(q)
    BY <1>2, AtIsHeld
  <2> QED BY <1>1, <1>2, <2>1
<1> QED BY <1>1, <1>2 DEF Arrived, Final

\* Numbers of a job.
LEMMA TallyNumbers ==
  ASSUME IInv, NEW j \in Jobs
  PROVE  /\ sent[j] \in Nat /\ mishaps[j] \in Nat /\ job[j].attempts \in Nat
         /\ MaxAttempts \in Nat /\ job[j] \in Job
         /\ \A p \in Passes : pass[p].token[j] \in Nat
BY JournalAssumption DEF IInv, TypeOK, Job, Pass

\* A pass that finishes a job: closed, or to be tried again within the limit.
LEMMA FinishTally ==
  ASSUME LeaseSuffices, IInv, LeaseHolds, TallyHolds,
         NEW p \in Passes, NEW j \in Held(p), NEW row, Writable(p, j, row),
         job' = Finish(p, j, row), NextJob(p, j),
         pass[p].stage # "next" => pass[p].at = j,
         \A k \in Jobs : k # j => sent'[k] = sent[k] /\ mishaps'[k] = mishaps[k],
         sent'[j] \in Nat, mishaps'[j] \in Nat, mishaps[j] <= mishaps'[j],
         sent'[j] <= mishaps'[j] + 1,
         row.status = "pending"
           => sent'[j] <= mishaps'[j] /\ row.attempts < MaxAttempts + mishaps'[j]
  PROVE  TallyHolds'
<1>1. j \in Jobs /\ Owns(p, j)
  BY HeldIsOwned
<1>2. job'[j] = row /\ \A k \in Jobs : k # j => job'[k] = job[k]
  BY <1>1 DEF Finish, IInv, TypeOK
<1>3. /\ \A q \in Passes : q # p => pass'[q] = pass[q]
      /\ \A k \in Jobs : k # j => pass'[p].token[k] = pass[p].token[k]
  BY DEF NextJob, IInv, TypeOK, Pass
<1>4. Tallied(j)'
  <2>1. Tallied(j)
    BY <1>1 DEF TallyHolds
  <2>2. row.status \in {"pending"} \union Final /\ row.attempts <= job[j].attempts /\ row.attempts \in Nat
    BY <1>1, TallyNumbers DEF Writable, Owns, Job
  <2>3. row.attempts <= MaxAttempts + mishaps'[j]
    BY <1>1, <2>1, <2>2, TallyNumbers DEF Tallied, Limit
  <2>4. row.status # "pending" => Arrived(j)' /\ row.status \notin {"none", "running"}
    BY <1>2, <2>2 DEF Arrived, Final
  <2>5. row.status = "pending" \/ row.status # "pending"
    OBVIOUS
  <2> QED BY <1>2, <2>3, <2>4, <2>5 DEF Tallied, Limit
<1>5. ASSUME NEW k \in Jobs, k # j PROVE Tallied(k)'
  <2>1. ASSUME NEW q \in Passes PROVE Minds(q, k)
    BY <1>3, <1>5 DEF Minds, Held
  <2> QED BY <1>2, <1>5, <2>1, UntouchedTally
<1> QED BY <1>4, <1>5, <1>1 DEF TallyHolds

\* A pass that gives its batch back.
LEMMA ReleaseTally ==
  ASSUME LeaseSuffices, IInv, LeaseHolds, TallyHolds, NEW p \in Passes, NEW wait,
         job' = Released(p, wait), pass' = [pass EXCEPT ![p] = Idle],
         pass[p].stage # "sent", UNCHANGED <<sent, mishaps>>
  PROVE  TallyHolds'
<1>1. ASSUME NEW j \in Held(p) PROVE Tallied(j)'
  <2>1. j \in Jobs /\ Owns(p, j) /\ ~Arrived(j)
    BY HeldIsOwned, NotArrived
  <2>2. job'[j] = GivenBack(p, j, wait[j])
    BY <2>1 DEF Released
  <2>3. job'[j].status = "pending" /\ job'[j].attempts = job[j].attempts - 1
    BY <2>1, <2>2 DEF GivenBack, Row, Owns
  <2>4. Tallied(j)
    BY <2>1 DEF TallyHolds
  <2> QED BY <2>1, <2>3, <2>4, TallyNumbers DEF Tallied, Limit
<1>2. ASSUME NEW k \in Jobs, k \notin Held(p) PROVE Tallied(k)'
  <2>1. job'[k] = job[k]
    BY <1>2, ReleaseWritesHeld DEF IInv
  <2>2. \A q \in Passes : q # p => pass'[q] = pass[q]
    BY DEF IInv, TypeOK
  <2>3. \A q \in Passes : Minds(q, k)
    BY <1>2, <2>2 DEF Minds, Held
  <2> QED BY <2>1, <2>3, UntouchedTally
<1> QED BY <1>1, <1>2 DEF TallyHolds

\* A claim takes only jobs that nobody holds, and not past the limit.
LEMMA ClaimTally ==
  ASSUME LeaseSuffices, IInv, LeaseHolds, TallyHolds, NEW p \in Passes, Claim(p)
  PROVE  TallyHolds'
<1>1. PICK taken \in SUBSET Due(pass[p].lag) :
        /\ job' = [j \in Jobs |-> IF j \in taken THEN Claimed(p, j) ELSE job[j]]
        /\ pass' = [pass EXCEPT ![p].until = Lease,
             ![p].token = [j \in Jobs |-> IF j \in taken THEN Claimed(p, j).attempts ELSE 0]]
  BY DEF Claim
<1>2. Held(p) = {} /\ UNCHANGED <<sent, mishaps>>
  BY DEF Claim
<1> DEFINE token == [j \in Jobs |-> IF j \in taken THEN Claimed(p, j).attempts ELSE 0]
<1>3. /\ pass'[p] = [pass[p] EXCEPT !.until = Lease, !.token = token]
      /\ \A q \in Passes : q # p => pass'[q] = pass[q]
  BY <1>1 DEF IInv, TypeOK
<1>4. /\ pass'[p].token = token /\ pass'[p].at = pass[p].at /\ pass'[p].stage = pass[p].stage
      /\ pass[p].lag \in Nat
  <2> HIDE DEF token
  <2>1. pass[p] \in Pass
    BY DEF IInv, TypeOK
  <2> QED BY <1>3, <2>1 DEF Pass
<1>5. ASSUME NEW j \in taken PROVE Tallied(j)'
  <2>1. /\ j \in Jobs
        /\ \/ job[j].status = "pending"
           \/ job[j].status = "running" /\ job[j].lease <= -pass[p].lag
    BY <1>1 DEF Due
  <2>2. \A q \in Passes : j \notin Held(q)
    <3> SUFFICES ASSUME NEW q \in Passes, j \in Held(q) PROVE FALSE
      OBVIOUS
    <3>1. job[j].status = "running" /\ job[j].lease > 0 /\ job[j].lease \in Int
      BY <2>1, HeldIsOwned DEF IInv, TypeOK, Job
    <3> QED BY <1>4, <2>1, <3>1
  <2>3. ~Arrived(j)
    BY <2>1, <2>2, AtIsHeld DEF Arrived, Final
  <2>4. Tallied(j)
    BY <2>1 DEF TallyHolds
  <2>5. sent[j] <= mishaps[j] /\ job[j].attempts < Limit(j)
    BY <2>1, <2>2, <2>3, <2>4 DEF Tallied
  <2>6. /\ job'[j].status = "running" /\ job'[j].attempts = job[j].attempts + 1
        /\ pass'[p].token[j] = job[j].attempts + 1
    BY <1>1, <1>4, <2>1 DEF Claimed
  <2>7. j \in Held(p)'
    BY <2>1, <2>6, TallyNumbers DEF Held
  <2> QED BY <1>2, <2>1, <2>5, <2>6, <2>7, TallyNumbers DEF Tallied, Limit
<1>6. ASSUME NEW k \in Jobs, k \notin taken PROVE Tallied(k)'
  <2>1. \A q \in Passes : Minds(q, k)
    BY <1>2, <1>3, <1>4 DEF Minds, Held
  <2> QED BY <1>1, <1>2, <1>6, <2>1, UntouchedTally
<1> QED BY <1>5, <1>6 DEF TallyHolds

\* A crash under held jobs is a mishap of each.
LEMMA CrashTally ==
  ASSUME LeaseSuffices, IInv, LeaseHolds, TallyHolds,
         NEW p \in Passes, NEW arrived \in BOOLEAN, Crash(p, arrived)
  PROVE  TallyHolds'
<1>1. /\ job' = job /\ pass' = [pass EXCEPT ![p] = Idle]
      /\ arrived => pass[p].stage = "sending"
      /\ sent' = IF arrived THEN [sent EXCEPT ![pass[p].at] = @ + 1] ELSE sent
      /\ mishaps' = [j \in Jobs |-> IF j \in Held(p) THEN mishaps[j] + 1 ELSE mishaps[j]]
  BY DEF Crash
<1>2. /\ sent \in [Jobs -> Nat]
      /\ \A k \in Jobs : sent'[k] \in {sent[k], IF arrived /\ pass[p].at = k THEN sent[k] + 1 ELSE sent[k]}
  BY <1>1 DEF IInv, TypeOK
<1>3. ASSUME NEW j \in Held(p) PROVE Tallied(j)'
  <2>1. j \in Jobs /\ mishaps'[j] = mishaps[j] + 1 /\ job'[j] = job[j]
    BY <1>1 DEF Held
  <2>2. Tallied(j)
    BY <2>1 DEF TallyHolds
  <2>3. sent'[j] <= mishaps'[j]
    <3>1. CASE pass[p].stage = "sent"
      <4>1. sent'[j] = sent[j]
        BY <1>1, <3>1
      <4> QED BY <2>1, <2>2, <4>1, TallyNumbers DEF Tallied
    <3>2. CASE pass[p].stage # "sent"
      <4>1. sent[j] <= mishaps[j]
        BY <2>2, <3>2, NotArrived DEF Tallied
      <4> QED BY <1>2, <2>1, <4>1, TallyNumbers
    <3> QED BY <3>1, <3>2
  <2> QED BY <2>1, <2>2, <2>3, TallyNumbers, <1>2 DEF Tallied, Limit
<1>4. ASSUME NEW k \in Jobs, k \notin Held(p) PROVE Tallied(k)'
  <2>1. mishaps'[k] = mishaps[k] /\ job'[k] = job[k]
    BY <1>1, <1>4
  <2>2. pass[p].stage # "next" => pass[p].at # k
    BY <1>4, AtIsHeld
  <2>3. sent'[k] = sent[k]
    BY <1>1, <1>2, <2>2
  <2>4. \A q \in Passes : q # p => pass'[q] = pass[q]
    BY <1>1 DEF IInv, TypeOK
  <2>5. \A q \in Passes : Minds(q, k)
    BY <1>4, <2>2, <2>4 DEF Minds, Held
  <2> QED BY <2>1, <2>3, <2>5, UntouchedTally
<1> QED BY <1>3, <1>4 DEF TallyHolds

\* A failure that counts: the job is given up at the limit.
LEMMA RetryTally ==
  ASSUME LeaseSuffices, IInv, LeaseHolds, TallyHolds,
         NEW p \in Passes, NEW j \in Jobs, NEW arrived \in BOOLEAN, Retry(p, j, arrived)
  PROVE  TallyHolds'
<1>1. /\ job' = Finish(p, j, AfterFailure(p, j)) /\ NextJob(p, j)
      /\ mishaps' = IF arrived THEN [mishaps EXCEPT ![j] = @ + 1] ELSE mishaps
      /\ sent' = IF arrived /\ pass[p].stage = "sending" THEN [sent EXCEPT ![j] = @ + 1] ELSE sent
  BY DEF Retry
<1>2. /\ j \in Held(p)
      /\ pass[p].stage # "next" => pass[p].at = j
      /\ pass[p].stage = "sent" => arrived
      /\ pass[p].stage \in {"next", "sending", "sent"}
  BY AtIsHeld DEF Retry, Reaches
<1>3. /\ mishaps'[j] = IF arrived THEN mishaps[j] + 1 ELSE mishaps[j]
      /\ sent'[j] = IF arrived /\ pass[p].stage = "sending" THEN sent[j] + 1 ELSE sent[j]
      /\ \A k \in Jobs : k # j => sent'[k] = sent[k] /\ mishaps'[k] = mishaps[k]
  BY <1>1 DEF IInv, TypeOK
<1>4. Tallied(j) /\ Owns(p, j)
  BY <1>2, HeldIsOwned DEF TallyHolds
<1>5. sent'[j] <= mishaps'[j]
  <2>1. CASE pass[p].stage = "sent"
    BY <1>2, <1>3, <1>4, <2>1, TallyNumbers DEF Tallied
  <2>2. CASE pass[p].stage # "sent"
    <3>1. sent[j] <= mishaps[j]
      BY <1>2, <1>4, <2>2, NotArrived DEF Tallied
    <3> QED BY <1>3, <3>1, TallyNumbers
  <2> QED BY <2>1, <2>2
<1>6. /\ sent'[j] \in Nat /\ mishaps'[j] \in Nat /\ mishaps[j] <= mishaps'[j]
      /\ sent'[j] <= mishaps'[j] + 1
  BY <1>3, <1>5, TallyNumbers
<1>7. Writable(p, j, AfterFailure(p, j))
  BY AfterFailureType DEF Writable, IInv
<1>8. AfterFailure(p, j).status = "pending" => AfterFailure(p, j).attempts < MaxAttempts + mishaps'[j]
  <2>1. AfterFailure(p, j).status = "pending" => ~(pass[p].token[j] >= MaxAttempts)
    BY RowTypes DEF AfterFailure, Closed, Row
  <2>2. AfterFailure(p, j).attempts = pass[p].token[j]
    BY <1>4, AfterFailureType DEF Owns, IInv
  <2> QED BY <2>1, <2>2, <1>6, TallyNumbers
<1> QED BY <1>1, <1>2, <1>3, <1>5, <1>6, <1>7, <1>8, FinishTally

\* Every step of a pass keeps the tally.
LEMMA StepTally ==
  ASSUME LeaseSuffices, IInv, LeaseHolds, TallyHolds, NEW p \in Passes, Step(p)
  PROVE  TallyHolds'
<1>t. /\ pass[p] \in Pass /\ pass[p].lag \in Nat /\ pass \in [Passes -> Pass] /\ TypeOK
      /\ sent \in [Jobs -> Nat] /\ Pause - pass[p].lag \in Int
  BY JournalAssumption DEF IInv, TypeOK, Pass
<1>c. ASSUME NEW j \in Held(p) PROVE sent[j] <= mishaps[j] + 1
  <2>1. j \in Jobs
    BY DEF Held
  <2> QED BY <2>1 DEF TallyHolds, Tallied
<1>1. ASSUME NEW lag \in Lags, StartPass(p, lag)
      PROVE  TallyHolds'
  <2>1. job' = job /\ UNCHANGED <<sent, mishaps>> /\ \A q \in Passes : q # p => pass'[q] = pass[q]
    BY <1>1, <1>t DEF StartPass
  <2>2. Held(p) = {} /\ pass[p].stage = "next"
    BY <1>1, AtIsHeld DEF StartPass, LeaseHolds, LeaseOK, Works
  <2>3. \A k \in Jobs, q \in Passes : Minds(q, k)
    BY <2>1, <2>2 DEF Minds, Held
  <2> QED BY <2>1, <2>3, UntouchedTally DEF TallyHolds
<1>2. CASE Claim(p)
  BY <1>2, ClaimTally
<1>3. CASE EndPass(p)
  BY <1>3, ReleaseTally DEF EndPass
<1>4. CASE Arrives(p)
  <2>1. pass[p].stage = "sending" /\ job' = job /\ mishaps' = mishaps
    BY <1>4 DEF Arrives
  <2>2. /\ pass'[p] = [pass[p] EXCEPT !.stage = "sent"]
        /\ \A q \in Passes : q # p => pass'[q] = pass[q]
    BY <1>4, <1>t DEF Arrives
  <2>3. pass'[p].at = pass[p].at /\ pass'[p].stage = "sent" /\ pass'[p].token = pass[p].token
    BY <1>t, <2>2 DEF Pass
  <2>4. PICK j \in Jobs : j = pass[p].at /\ j \in Held(p)
    BY <2>1, AtIsHeld DEF Held
  <2>5. sent'[j] = sent[j] + 1 /\ \A k \in Jobs : k # j => sent'[k] = sent[k]
    BY <1>4, <1>t, <2>4 DEF Arrives
  <2>6. Tallied(j)'
    <3>1. Tallied(j) /\ ~Arrived(j) /\ Arrived(j)'
      BY <2>1, <2>3, <2>4, NotArrived DEF TallyHolds, Arrived
    <3>2. j \in Held(p)'
      BY <2>3, <2>4 DEF Held
    <3> QED BY <2>1, <2>4, <2>5, <3>1, <3>2, TallyNumbers DEF Tallied, Limit
  <2>7. ASSUME NEW k \in Jobs, k # j PROVE Tallied(k)'
    <3>1. \A q \in Passes : Minds(q, k)
      BY <2>1, <2>2, <2>3 DEF Minds, Held
    <3> QED BY <2>1, <2>5, <2>7, <3>1, UntouchedTally
  <2> QED BY <2>6, <2>7 DEF TallyHolds
<1>5. CASE MarkDone(p)
  <2> DEFINE j == pass[p].at
  <2>1. j \in Held(p) /\ Writable(p, j, Closed(j, "done")) /\ Closed(j, "done").status # "pending"
    BY <1>5, <1>t, AtIsHeld, RowTypes DEF MarkDone, Writable, Final, Held
  <2>2. job' = Finish(p, j, Closed(j, "done")) /\ NextJob(p, j) /\ UNCHANGED <<sent, mishaps>>
    BY <1>5 DEF MarkDone
  <2> QED BY <1>c, <2>1, <2>2, FinishTally, TallyNumbers DEF Held
<1>6. CASE Blocked(p)
  <2> DEFINE j == pass[p].at
  <2>1. /\ j \in Held(p) /\ Writable(p, j, Closed(j, "skipped"))
        /\ Closed(j, "skipped").status # "pending"
    BY <1>6, <1>t, AtIsHeld, RowTypes DEF Blocked, Writable, Final, Held
  <2>2. job' = Finish(p, j, Closed(j, "skipped")) /\ NextJob(p, j) /\ UNCHANGED <<sent, mishaps>>
    BY <1>6 DEF Blocked
  <2> QED BY <1>c, <2>1, <2>2, FinishTally, TallyNumbers DEF Held
<1>7. CASE RateLimited(p)
  BY <1>7, ReleaseTally DEF RateLimited
<1>8. ASSUME NEW j \in Jobs, Drop(p, j)
      PROVE  TallyHolds'
  BY <1>8, NeverDropped
<1>9. ASSUME NEW j \in Jobs, Skip(p, j)
      PROVE  TallyHolds'
  <2>1. /\ j \in Held(p) /\ pass[p].stage = "next"
        /\ job' = Finish(p, j, Closed(j, "skipped")) /\ NextJob(p, j) /\ UNCHANGED <<sent, mishaps>>
    BY <1>9 DEF Skip, Reaches
  <2>2. Writable(p, j, Closed(j, "skipped")) /\ Closed(j, "skipped").status # "pending"
    BY <1>t, RowTypes DEF Writable, Final
  <2> QED BY <1>c, <2>1, <2>2, FinishTally, TallyNumbers
<1>10. ASSUME NEW j \in Jobs, Defer(p, j)
       PROVE  TallyHolds'
  <2> DEFINE row == GivenBack(p, j, Pause - pass[p].lag)
  <2>1. /\ j \in Held(p) /\ pass[p].stage = "next"
        /\ job' = Finish(p, j, row) /\ NextJob(p, j) /\ UNCHANGED <<sent, mishaps>>
    BY <1>10 DEF Defer, Reaches
  <2>2. Tallied(j) /\ Owns(p, j) /\ ~Arrived(j)
    BY <2>1, HeldIsOwned, NotArrived DEF TallyHolds
  <2>3. Writable(p, j, row) /\ row.attempts = pass[p].token[j] - 1
    BY <1>t, <2>2, GivenBackType DEF Writable
  <2> HIDE DEF row
  <2>4. sent[j] <= mishaps[j] /\ row.attempts < MaxAttempts + mishaps[j]
    BY <2>2, <2>3, TallyNumbers DEF Tallied, Limit, Owns
  <2> QED BY <1>c, <2>1, <2>3, <2>4, FinishTally, TallyNumbers
<1>11. ASSUME NEW j \in Jobs, Send(p, j)
       PROVE  TallyHolds'
  <2>1. job' = job /\ UNCHANGED <<sent, mishaps>> /\ pass[p].stage = "next"
    BY <1>11 DEF Send, Reaches
  <2>2. /\ pass'[p] = [pass[p] EXCEPT !.at = j, !.stage = "sending", !.timer = SendTime]
        /\ \A q \in Passes : q # p => pass'[q] = pass[q]
    BY <1>11, <1>t DEF Send
  <2>3. pass'[p].token = pass[p].token
    BY <1>t, <2>2 DEF Pass
  <2>4. \A k \in Jobs, q \in Passes : Minds(q, k)
    BY <2>1, <2>2, <2>3 DEF Minds, Held
  <2> QED BY <2>1, <2>4, UntouchedTally DEF TallyHolds
<1>12. ASSUME NEW j \in Jobs, NEW arrived \in BOOLEAN, Retry(p, j, arrived)
       PROVE  TallyHolds'
  BY <1>12, RetryTally
<1> QED
  BY <1>1, <1>2, <1>3, <1>4, <1>5, <1>6, <1>7, <1>8, <1>9, <1>10, <1>11, <1>12 DEF Step

\* The tally is kept.
LEMMA TallyInvariance ==
  ASSUME LeaseSuffices, IInv, LeaseHolds, TallyHolds, [Next]_vars
  PROVE  TallyHolds'
<1>1. ASSUME NEW j \in Jobs, Enqueue(j)
      PROVE  TallyHolds'
  <2>1. /\ job[j].status = "none" /\ UNCHANGED <<pass, sent, mishaps>>
        /\ job' = [job EXCEPT ![j] = Pending(j, 0)]
    BY <1>1 DEF Enqueue
  <2>2. /\ job'[j] = Pending(j, 0) /\ \A k \in Jobs : k # j => job'[k] = job[k]
    BY <2>1 DEF IInv, TypeOK
  <2>3. ASSUME NEW k \in Jobs, k # j PROVE Tallied(k)'
    BY <2>1, <2>2, <2>3, UntouchedTally DEF Minds, Held
  <2>4. Tallied(j)'
    <3>1. job'[j].status = "pending" /\ job'[j].attempts = job[j].attempts
      BY <2>2 DEF Pending, Row
    <3>2. Arrived(j) => Arrived(j)'
      BY <2>1 DEF Arrived, Final
    <3> QED BY <2>1, <3>1, <3>2 DEF TallyHolds, Tallied, Limit
  <2> QED BY <2>3, <2>4 DEF TallyHolds
<1>2. ASSUME NEW p \in Passes, Step(p)
      PROVE  TallyHolds'
  BY <1>2, StepTally
<1>3. ASSUME NEW p \in Passes, NEW arrived \in BOOLEAN, Crash(p, arrived)
      PROVE  TallyHolds'
  BY <1>3, CrashTally
<1>4. CASE Tick
  <2>1. UNCHANGED <<sent, mishaps>>
    BY <1>4 DEF Tick
  <2>2. ASSUME NEW j \in Jobs
        PROVE  job'[j].status = job[j].status /\ job'[j].attempts = job[j].attempts
    <3>1. job[j] \in Job
      BY TallyNumbers
    <3>2. \/ job'[j] = job[j]
          \/ job'[j] = [job[j] EXCEPT !.wait = Past(@)]
          \/ job'[j] = [job[j] EXCEPT !.wait = Past(@), !.lease = Past(@)]
      BY <1>4 DEF Tick
    <3> QED BY <3>1, <3>2 DEF Job
  <2>3. ASSUME NEW q \in Passes
        PROVE  /\ pass'[q].at = pass[q].at /\ pass'[q].stage = pass[q].stage
               /\ pass'[q].token = pass[q].token
    <3>1. pass[q] \in Pass
      BY DEF IInv, TypeOK
    <3>2. pass'[q] = [pass[q] EXCEPT !.left = Down(@), !.until = Down(@), !.timer = Down(@)]
      BY <1>4, Zenon DEF Tick
    <3> QED BY <3>1, <3>2 DEF Pass
  <2>4. \A k \in Jobs, q \in Passes : Minds(q, k)
    BY <2>3 DEF Minds, Held
  <2> QED BY <2>1, <2>2, <2>4, UntouchedTally DEF TallyHolds
<1>5. CASE UNCHANGED vars
  BY <1>5, UntouchedTally DEF TallyHolds, vars, Minds, Held
<1> QED BY <1>1, <1>2, <1>3, <1>4, <1>5 DEF Next

LEMMA TallyInitially == Init => TallyHolds
<1> SUFFICES ASSUME Init, NEW j \in Jobs PROVE Tallied(j)
  BY DEF TallyHolds
<1>1. job[j] = Row("none", 0, 0) /\ sent[j] = 0 /\ mishaps[j] = 0
  BY DEF Init
<1>2. job[j].status = "none" /\ job[j].attempts = 0
  BY <1>1 DEF Row
<1> QED BY <1>1, <1>2, JournalAssumption DEF Tallied, Limit

\* Under leases that cover a pass, one send and its lag, every state keeps them.
LEMMA LeasesAndTally ==
  ASSUME LeaseSuffices
  PROVE  Spec => [](LeaseHolds /\ TallyHolds)
<1>1. Init => LeaseHolds /\ TallyHolds
  BY LeaseInitially, TallyInitially
<1>2. IInv /\ (LeaseHolds /\ TallyHolds) /\ [Next]_vars => (LeaseHolds /\ TallyHolds)'
  BY LeaseInvariance, TallyInvariance
<1> QED BY <1>1, <1>2, Reachable, PTL DEF Spec

\* A notification reaches its recipient at most once, and once more for each
\* crash or unclear outcome under it (journal.ts sends first and marks after):
\* the lease outlasts every pass that keeps to its budget, whatever its lag.
THEOREM DeliveredOnce ==
  ASSUME LeaseSuffices
  PROVE  Spec => []AtMostOnce
<1>1. IInv /\ TallyHolds => AtMostOnce
  BY TallyNumbers DEF TallyHolds, Tallied, AtMostOnce
<1> QED BY <1>1, Reachable, LeasesAndTally, PTL

\* Each attempt past the limit is paid for by a crash or an unclear outcome, so
\* no job is tried for ever: attempts given back are counted again.
THEOREM GivenUp ==
  ASSUME LeaseSuffices
  PROVE  Spec => []NoEndlessRetry
<1>1. TallyHolds => NoEndlessRetry
  BY DEF TallyHolds, Tallied, Limit, NoEndlessRetry
<1> QED BY <1>1, LeasesAndTally, PTL
=============================================================================
