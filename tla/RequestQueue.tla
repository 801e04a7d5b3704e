---------------------------- MODULE RequestQueue ----------------------------
(***************************************************************************)
(* The oracle's request queue, its dead letters and the alerts it sends:   *)
(* request-queue.ts, dead-letter.store.ts and alerter.ts, with the two     *)
(* failure counters that feed the alerter.  Methods are synchronous, so    *)
(* each is one action.  notify is called without await: what it throws     *)
(* becomes an unhandled rejection, which ends the process (Node 20) once   *)
(* the caller's synchronous code is through.                               *)
(*                                                                         *)
(* A worker may use the queue by drain, as the pipeline does, or by peek   *)
(* and recordFailure; an operator replays dead letters; a timer calls      *)
(* checkHealth.                                                            *)
(***************************************************************************)
EXTENDS Integers, Sequences, SequencesExt, FiniteSets, FiniteSetsExt

CONSTANTS
    Jobs,           \* randomness requests
    DepthLimit,     \* ALERT_QUEUE_DEPTH_LIMIT
    AgeLimit,       \* ALERT_QUEUE_AGE_LIMIT_MS
    MaxAttempts,    \* QUEUE_MAX_ATTEMPTS
    RateLimit,      \* ALERT_RATE_LIMIT_MS
    Threshold,      \* failures in a row before an alert
    Sources,        \* of failing calls: subset of {"submission_failure", "rpc_unreachable"}
    StartTime,      \* any clock value later than RateLimit
    MaxTime,        \* bound on the clock
    MaxCopies,      \* bound on how often the listener enqueues the same job
    MaxFaults       \* bound on crashes and failing writes

ASSUME LimitsAssumption ==
    /\ DepthLimit \in Nat /\ AgeLimit \in Nat /\ RateLimit \in Nat
    /\ MaxAttempts \in Nat \ {0} /\ Threshold \in Nat \ {0}
    /\ StartTime \in Nat /\ StartTime > RateLimit
    /\ MaxTime \in Nat /\ MaxTime >= StartTime /\ MaxCopies \in Nat /\ MaxFaults \in Nat

VARIABLES
    now,
    queue,          \* jobs: sequence of [job, attempts, since] with put, when it last joined
    letters,        \* DeadLetterStore.entries: sequence of [job]
    disk,           \* the entries in the file
    lastSent,       \* Alerter.lastSentAt, 0 where it has no entry or one past the limit
    failures,       \* consecutiveFailures, consecutiveRpcFailures, up to Threshold
    process,        \* "up", "doomed" by an unhandled rejection, or "down"
    arrived,        \* by job, how often it was enqueued; for the properties, like the next four
    worked,         \* copies handed out by drain
    replayed,       \* copies an operator has removed from the letters, not yet requeued
    lost,           \* copies only the memory held when a process ended
    torn,           \* jobs whose letters in file and memory differed after a failed write
    faults          \* crashes and failed writes so far

vars == <<now, queue, letters, disk, lastSent, failures, process, arrived, worked,
          replayed, lost, torn, faults>>

Types == {"queue_depth", "queue_age", "dead_letter"} \cup Sources

\* The text of an error: a fatal contract error, an error that may pass, and one that
\* names the hash of a transaction, as the submitter's messages do.
Errors == {"fatal", "transient", "hash"}

Zero == [j \in Jobs |-> 0]

\* The copies of a job in a sequence of entries.
Count(s, j) == Cardinality({i \in DOMAIN s : s[i].job = j})

\* The entry findIndex stops at.
IsFirst(s, i) == \A k \in 1 .. i - 1 : s[k].job # s[i].job

Init ==
    /\ now = StartTime
    /\ queue = <<>> /\ letters = <<>> /\ disk = <<>>
    /\ lastSent = [t \in Types |-> 0]
    /\ failures = [s \in Sources |-> 0]
    /\ process = "up"
    /\ arrived = Zero /\ worked = Zero /\ replayed = Zero /\ lost = Zero
    /\ torn = {} /\ faults = 0

-----------------------------------------------------------------------------
(* Alerter.notify, by its effects before the first await.                  *)

\* The rate limiter lets an alert of type t through.
Passes(t) == now - lastSent[t] >= RateLimit

\* assertNoSecrets takes 64 hexadecimal digits, the form of a hash, for a key.
Presentable(e) == e # "hash"

\* The process after an alert about error e was let through.
AfterAlert(e) == IF Presentable(e) THEN "up" ELSE "doomed"

-----------------------------------------------------------------------------
(* Dead letters.                                                           *)

IsFatal(e) == e = "fatal"

Letter(j) == [job |-> j]

\* Mutant: the store stays in memory.
SaveNever(versions) == UNCHANGED <<disk, faults, torn>>

\* saveToDisk for each of a sequence of contents.  A failing write is logged and the
\* file keeps the last content that was written.
Save(versions) ==
    \E k \in 0 .. Len(versions) :
        /\ disk' = IF k = 0 THEN disk ELSE versions[k]
        /\ IF k = Len(versions) THEN UNCHANGED <<faults, torn>>
           ELSE /\ faults < MaxFaults /\ faults' = faults + 1
                /\ torn' = torn \cup {j \in Jobs : Count(letters', j) # Count(disk', j)}

\* deadLetter for each of new in turn: add, which saves, and then the alert.
DeadLetter(new) ==
    /\ letters' = letters \o new
    /\ Save([k \in DOMAIN new |-> letters \o SubSeq(new, 1, k)])

-----------------------------------------------------------------------------
(* RequestQueue.                                                           *)

Tracked(j) == [job |-> j, attempts |-> 0, since |-> now, put |-> now]

\* enqueue takes any job.  The listener saves its checkpoint only after enqueuing, so
\* after a restart it may bring a job again, wherever the first copy is by then.
Enqueue(j) ==
    /\ process = "up" /\ arrived[j] < MaxCopies
    /\ queue' = Append(queue, Tracked(j))
    /\ arrived' = [arrived EXCEPT ![j] = @ + 1]
    /\ UNCHANGED <<now, letters, disk, lastSent, failures, process, worked, replayed, lost, torn, faults>>

Drain ==
    /\ process = "up" /\ queue # <<>>
    /\ worked' = [j \in Jobs |-> worked[j] + Count(queue, j)]
    /\ queue' = <<>>
    /\ UNCHANGED <<now, letters, disk, lastSent, failures, process, arrived, replayed, lost, torn, faults>>

\* Mutant: one attempt too many.
ExhaustedLate(n) == n > MaxAttempts

Exhausted(n) == n >= MaxAttempts

\* recordFailure of a job that is queued; for another one it answers without effect.
RecordFailure(i, e) ==
    LET t    == [queue[i] EXCEPT !.attempts = @ + 1, !.put = now]
        dead == IsFatal(e) \/ Exhausted(t.attempts)
    IN  /\ process = "up" /\ i \in DOMAIN queue /\ IsFirst(queue, i)
        /\ queue' = IF dead THEN RemoveAt(queue, i) ELSE Append(RemoveAt(queue, i), t)
        /\ DeadLetter(IF dead THEN <<Letter(t.job)>> ELSE <<>>)
        /\ process' = IF dead THEN AfterAlert(e) ELSE "up"
        /\ lastSent' = IF dead /\ Presentable(e) THEN [lastSent EXCEPT !["dead_letter"] = now] ELSE lastSent
        /\ UNCHANGED <<now, failures, arrived, worked, replayed, lost>>

OverAge(entry) == now - entry.since > AgeLimit

\* Mutant: either the excess or one entry over age is taken.
EvacuatedOnce(q) ==
    IF Len(q) > DepthLimit THEN Len(q) - DepthLimit
    ELSE IF q # <<>> /\ OverAge(q[1]) THEN 1 ELSE 0

\* How many entries evacuateUnhealthy takes from the front: down to the depth limit,
\* then on while the entry in front is over age.
Evacuated(q) ==
    CHOOSE n \in 0 .. Len(q) :
        /\ Len(q) - n <= DepthLimit
        /\ n < Len(q) => ~OverAge(q[n + 1])
        /\ \A m \in 0 .. n - 1 : Len(q) - m > DepthLimit \/ OverAge(q[m + 1])

\* checkHealth: both warnings, then the evacuation with an alert for each letter.
CheckHealth ==
    LET n == Evacuated(queue)
        deep == Len(queue) > DepthLimit
        aged == queue # <<>> /\ OverAge(queue[1])
        sent == (IF deep /\ Passes("queue_depth") THEN {"queue_depth"} ELSE {})
                \cup (IF aged /\ Passes("queue_age") THEN {"queue_age"} ELSE {})
                \cup (IF n > 0 THEN {"dead_letter"} ELSE {})
    IN  /\ process = "up" /\ queue # <<>>
        /\ queue' = SubSeq(queue, n + 1, Len(queue))
        /\ DeadLetter([i \in 1 .. n |-> Letter(queue[i].job)])
        /\ lastSent' = [t \in Types |-> IF t \in sent THEN now ELSE lastSent[t]]
        /\ UNCHANGED <<now, failures, process, arrived, worked, replayed, lost>>

\* An operator takes a letter out of the store, and gives the job back to the queue.
RemoveLetter(i) ==
    /\ process = "up" /\ i \in DOMAIN letters /\ IsFirst(letters, i)
    /\ letters' = RemoveAt(letters, i) /\ Save(<<letters'>>)
    /\ replayed' = [replayed EXCEPT ![letters[i].job] = @ + 1]
    /\ UNCHANGED <<now, queue, lastSent, failures, process, arrived, worked, lost>>

Requeue(j) ==
    /\ process = "up" /\ replayed[j] > 0
    /\ queue' = Append(queue, Tracked(j))
    /\ replayed' = [replayed EXCEPT ![j] = @ - 1]
    /\ UNCHANGED <<now, letters, disk, lastSent, failures, process, arrived, worked, lost, torn, faults>>

-----------------------------------------------------------------------------
(* The failure counters of the submitter and of the listener, which are    *)
(* only compared with the threshold and count no further here.             *)

CallFails(s, e) ==
    /\ process = "up"
    /\ failures' = [failures EXCEPT ![s] = IF @ < Threshold THEN @ + 1 ELSE @]
    /\ IF failures'[s] >= Threshold /\ Passes(s)
       THEN process' = AfterAlert(e) /\ lastSent' = [lastSent EXCEPT ![s] = now]
       ELSE UNCHANGED <<process, lastSent>>
    /\ UNCHANGED <<now, queue, letters, disk, arrived, worked, replayed, lost, torn, faults>>

CallSucceeds(s) ==
    /\ process = "up" /\ failures[s] > 0
    /\ failures' = [failures EXCEPT ![s] = 0]
    /\ UNCHANGED <<now, queue, letters, disk, lastSent, process, arrived, worked, replayed, lost, torn, faults>>

-----------------------------------------------------------------------------
(* Time and the process.                                                   *)

Tick ==
    /\ now < MaxTime /\ process # "doomed"
    /\ now' = now + 1
    /\ lastSent' = [t \in Types |-> IF now' - lastSent[t] >= RateLimit THEN 0 ELSE lastSent[t]]
    /\ UNCHANGED <<queue, letters, disk, failures, process, arrived, worked, replayed, lost, torn, faults>>

LoseMemory ==
    /\ process' = "down"
    /\ lost' = [j \in Jobs |-> lost[j] + Count(queue, j) + replayed[j]]
    /\ queue' = <<>> /\ replayed' = Zero /\ letters' = <<>>
    /\ UNCHANGED <<now, disk, lastSent, failures, arrived, worked, torn>>

Crash == process = "up" /\ faults < MaxFaults /\ faults' = faults + 1 /\ LoseMemory

UnhandledRejection == process = "doomed" /\ UNCHANGED faults /\ LoseMemory

\* A new process: fresh counters and rate limits, the letters read from the file.
Start ==
    /\ process = "down" /\ process' = "up"
    /\ letters' = disk
    /\ lastSent' = [t \in Types |-> 0] /\ failures' = [s \in Sources |-> 0]
    /\ UNCHANGED <<now, queue, disk, arrived, worked, replayed, lost, torn, faults>>

Next ==
    \/ \E j \in Jobs : Enqueue(j) \/ Requeue(j)
    \/ Drain
    \/ \E i \in 1 .. Len(queue), e \in Errors : RecordFailure(i, e)
    \/ CheckHealth
    \/ \E i \in 1 .. Len(letters) : RemoveLetter(i)
    \/ \E s \in Sources, e \in Errors : CallFails(s, e)
    \/ \E s \in Sources : CallSucceeds(s)
    \/ Tick
    \/ Crash
    \/ UnhandledRejection
    \/ Start

Spec == Init /\ [][Next]_vars

-----------------------------------------------------------------------------
(* Properties.                                                             *)

\* Types; no queued job has used up its attempts, and time stamps lie in the past.
TypeOK ==
    /\ now \in StartTime .. MaxTime /\ faults \in 0 .. MaxFaults
    /\ process \in {"up", "doomed", "down"}
    /\ ToSet(queue) \subseteq [job : Jobs, attempts : 0 .. MaxAttempts - 1,
                              since : StartTime .. now, put : StartTime .. now]
    /\ ToSet(letters) \cup ToSet(disk) \subseteq [job : Jobs]
    /\ \A t \in Types : lastSent[t] \in 0 .. now
    /\ {arrived, worked, replayed, lost} \subseteq [Jobs -> Nat]
    /\ torn \subseteq Jobs

Stored == IF process = "down" THEN disk ELSE letters

\* Every copy of a job that was ever enqueued is in exactly one of the queue, the
\* letters, the hands of an operator and the hands of the worker, through failures,
\* evacuations, replays, crashes, second arrivals and alerts that end the process;
\* only copies that the memory alone held are gone after a crash.  Excepted are jobs
\* whose letters could not be written.
JobsKept ==
    \A j \in Jobs \ torn :
        Count(queue, j) + Count(Stored, j) + worked[j] + replayed[j] + lost[j] = arrived[j]

\* checkHealth leaves a queue within its depth limit in which every job joined, or was
\* last tried, no longer ago than the age limit.  A job that was tried keeps its age
\* and goes to the end, where evacuateUnhealthy, which looks at the first one, does
\* not see it: this is how long it can escape.
HealthRestored ==
    [][CheckHealth =>
          /\ Len(queue') <= DepthLimit
          /\ \A i \in DOMAIN queue' : now - queue'[i].put <= AgeLimit]_vars
=============================================================================
