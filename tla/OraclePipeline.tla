--------------------------- MODULE OraclePipeline ---------------------------
(***************************************************************************)
(* The off-chain oracle (oracle/src): the event listener, the request      *)
(* queue, the deduplication store, the job loop, transaction submission    *)
(* and the ways the process ends and starts again.                         *)
(*                                                                         *)
(* The code is single threaded: a step of the model is what happens        *)
(* between two awaits.  The chain is external: a ledger closes with the    *)
(* RandomnessRequested events that name this oracle, and a raffle accepts  *)
(* the answer to a request once, not before MinDelay ledgers have passed.  *)
(* Getting the account, simulating and sending are one step.  The queue is *)
(* a set, its order being left open.  Writes to the data directory are     *)
(* taken to succeed.                                                       *)
(***************************************************************************)
EXTENDS Integers, FiniteSets

CONSTANTS
    Requests,     \* requests that name this oracle: (raffle, request_id)
    MinDelay,     \* RANDOMNESS_MIN_DELAY_LEDGERS of the raffles; 0 for a quorum seed
    MaxAttempts,  \* retryPolicy.maxAttempts
    PageLimit,    \* events in one answer of getEvents
    MaxLedger,    \* bound: ledgers that close
    MaxFaults,    \* bound: failing network calls of submissions
    MaxStops      \* bound: crashes and shutdown signals

ASSUME OracleAssumption ==
    /\ IsFiniteSet(Requests)
    /\ MinDelay \in Nat
    /\ MaxAttempts \in Nat \ {0}
    /\ PageLimit \in Nat \ {0}
    /\ {MaxLedger, MaxFaults, MaxStops} \subseteq Nat

\* processQueue, and the drain of a graceful shutdown, which runs beside it.
Workers == {"loop", "drain"}

None == -1

VARIABLES
    \* the chain
    ledger,       \* latest closed ledger
    emittedAt,    \* ledger of each request's event, None before it
    answered,     \* requests whose answer a raffle accepted
    withdrawn,    \* requests of raffles cancelled before the answer
    chainSeq,     \* sequence number of the oracle's account
    orphans,      \* transactions sent and no longer waited for
    \* the disk
    checkpoint,   \* checkpoint.json
    seen,         \* dedup.json, written through at every change
    \* the memory of the process
    proc,         \* "up", "stopping", "exited" (code 0) or "dead"
    polling,      \* a getEvents call is under way
    startLedger,  \* first ledger of the next poll
    unsaved,      \* ledger polled through and not yet saved
    reloaded,     \* checkpoint read back by the shutdown
    queue,        \* jobs of requestQueue
    batch,        \* jobs each worker drained from the queue and has not begun
    work,         \* the job each worker is at
    seqCache,     \* sequenceCache of the submitter
    \* history, and counters of the bounds
    taken,        \* how often each request passed the duplicate check
    included,     \* how many transactions for each request a ledger included
    losses,       \* requests the process will not answer any more, each with the cause
    faults, stops

chainVars  == <<ledger, emittedAt, answered, withdrawn, chainSeq, orphans, included>>
listenVars == <<polling, startLedger, unsaved>>
jobVars    == <<queue, batch, work, seqCache>>
vars == <<chainVars, checkpoint, seen, proc, listenVars, reloaded, jobVars,
          taken, losses, faults, stops>>

Idle == [phase |-> "idle"]
Ready(r, n) == [phase |-> "ready", request |-> r, attempt |-> n]
Sent(r, n, s) == [phase |-> "sent", request |-> r, attempt |-> n, seq |-> s]

\* Why a request is not answered: left out of a full page of events, tried before the
\* minimum delay, its job failed, its job was in a process that ended, or it is older
\* than the first ledger ever polled.
Causes == {"page", "early", "failed", "ended", "older"}

Loss(S, why) == [request : S, why : {why}]

Running == proc \in {"up", "stopping"}

Init ==
    /\ ledger = 1
    /\ emittedAt = [r \in Requests |-> None]
    /\ answered = {}
    /\ withdrawn = {}
    /\ chainSeq = 0
    /\ orphans = {}
    /\ checkpoint \in {None, 0}
    /\ seen = {}
    /\ proc = "up"
    /\ polling = FALSE
    /\ startLedger = 1
    /\ unsaved = None
    /\ reloaded = None
    /\ queue = {}
    /\ batch = [w \in Workers |-> {}]
    /\ work = [w \in Workers |-> Idle]
    /\ seqCache = None
    /\ taken = [r \in Requests |-> 0]
    /\ included = [r \in Requests |-> 0]
    /\ losses = {}
    /\ faults = 0
    /\ stops = 0

-----------------------------------------------------------------------------
(* The chain                                                                *)

Emitted == {r \in Requests : emittedAt[r] # None}

\* provide_randomness takes one answer, after the minimum delay, of a raffle
\* that is still being drawn.
Early(r) == ledger < emittedAt[r] + MinDelay

Accepts(r) == r \notin answered \cup withdrawn /\ ~Early(r)

CloseLedger(new) ==
    /\ ledger < MaxLedger
    /\ ledger' = ledger + 1
    /\ emittedAt' = [r \in Requests |-> IF r \in new THEN ledger + 1 ELSE emittedAt[r]]
    /\ UNCHANGED <<answered, withdrawn, chainSeq, orphans, included, checkpoint,
                   seen, proc, listenVars, reloaded, jobVars, taken, losses,
                   faults, stops>>

\* cancel_raffle or emergency_withdraw.
Withdraw(r) ==
    /\ r \in Emitted \ (answered \cup withdrawn)
    /\ withdrawn' = withdrawn \cup {r}
    /\ UNCHANGED <<ledger, emittedAt, answered, chainSeq, orphans, included,
                   checkpoint, seen, proc, listenVars, reloaded, jobVars, taken,
                   losses, faults, stops>>

\* A transaction uses up its sequence number whether the raffle accepts or not.
Include(r, s) ==
    /\ s = chainSeq
    /\ chainSeq' = chainSeq + 1
    /\ included' = [included EXCEPT ![r] = @ + 1]
    /\ answered' = IF Accepts(r) THEN answered \cup {r} ELSE answered
    /\ UNCHANGED <<ledger, emittedAt, withdrawn>>

\* A transaction nobody waits for any more is included after all, or expires.
LateInclusion(tx) ==
    /\ Include(tx.request, tx.seq)
    /\ orphans' = orphans \ {tx}
    /\ UNCHANGED <<checkpoint, seen, proc, listenVars, reloaded, jobVars, taken,
                   losses, faults, stops>>

Expire(tx) ==
    /\ orphans' = orphans \ {tx}
    /\ UNCHANGED <<ledger, emittedAt, answered, withdrawn, chainSeq, included, checkpoint,
                   seen, proc, listenVars, reloaded, jobVars, taken, losses,
                   faults, stops>>

-----------------------------------------------------------------------------
(* The listener.  Its loop looks at the stop flag only before a poll.       *)

PollStart ==
    /\ proc = "up"
    /\ ~polling
    /\ unsaved = None
    /\ polling' = TRUE
    /\ UNCHANGED <<chainVars, checkpoint, seen, proc, startLedger, unsaved,
                   reloaded, jobVars, taken, losses, faults, stops>>

PollFails ==
    /\ Running
    /\ polling
    /\ polling' = FALSE
    /\ UNCHANGED <<chainVars, checkpoint, seen, proc, startLedger, unsaved,
                   reloaded, jobVars, taken, losses, faults, stops>>

Visible == {r \in Emitted : emittedAt[r] >= startLedger}

\* The earliest events, as many as fit.
IsPage(S) ==
    /\ IF Cardinality(Visible) <= PageLimit THEN S = Visible
                                            ELSE Cardinality(S) = PageLimit
    /\ \A r \in S, q \in Visible \ S : emittedAt[r] <= emittedAt[q]

\* Mutant: the ledger after the last one read is skipped.
NextStartOneLate == ledger + 2

NextStart == ledger + 1

PollResponse ==
    /\ Running
    /\ polling
    /\ polling' = FALSE
    /\ \E S \in SUBSET Visible :
          /\ IsPage(S)
          /\ queue' = queue \cup S
          /\ losses' = (losses \ Loss(S, "page")) \cup Loss(Visible \ S, "page")
    /\ startLedger' = NextStart
    /\ unsaved' = ledger
    /\ UNCHANGED <<chainVars, checkpoint, seen, proc, reloaded, batch, work,
                   seqCache, taken, faults, stops>>

SaveCheckpoint ==
    /\ Running
    /\ unsaved # None
    /\ checkpoint' = unsaved
    /\ unsaved' = None
    /\ UNCHANGED <<chainVars, seen, proc, polling, startLedger, reloaded, jobVars,
                   taken, losses, faults, stops>>

-----------------------------------------------------------------------------
(* Jobs                                                                     *)

\* processQueue: drain the queue when the previous batch is done.
ProcessQueue ==
    /\ proc = "up"
    /\ queue # {}
    /\ batch["loop"] = {}
    /\ work["loop"] = Idle
    /\ batch' = [batch EXCEPT !["loop"] = queue]
    /\ queue' = {}
    /\ UNCHANGED <<chainVars, checkpoint, seen, proc, listenVars, reloaded, work,
                   seqCache, taken, losses, faults, stops>>

\* Mutant: the request is looked up and not marked.
MarkSeenLater(r) == UNCHANGED seen

\* isDuplicate marks what it has not seen and writes the file.
MarkSeen(r) == seen' = seen \cup {r}

\* The first step of processJob; a duplicate is skipped.
ProcessJob(w, r) ==
    /\ Running
    /\ work[w] = Idle
    /\ r \in batch[w]
    /\ batch' = [batch EXCEPT ![w] = @ \ {r}]
    /\ IF r \in seen
       THEN UNCHANGED <<seen, work, taken>>
       ELSE /\ MarkSeen(r)
            /\ work' = [work EXCEPT ![w] = Ready(r, 0)]
            /\ taken' = [taken EXCEPT ![r] = @ + 1]
    /\ UNCHANGED <<chainVars, checkpoint, proc, listenVars, reloaded, queue,
                   seqCache, losses, faults, stops>>

\* A job whose processing throws is logged and forgotten.
Throw(w, why) ==
    /\ work' = [work EXCEPT ![w] = Idle]
    /\ losses' = losses \cup Loss({work[w].request}, why)

\* Mutant: one attempt too many.
RetryOnceMore(w) ==
    LET n == work[w].attempt + 1 IN
    IF n <= MaxAttempts
    THEN /\ work' = [work EXCEPT ![w] = Ready(work[w].request, n)]
         /\ UNCHANGED losses
    ELSE Throw(w, "failed")

\* The next round of the retry loop, or its end.
Retry(w) ==
    LET n == work[w].attempt + 1 IN
    IF n < MaxAttempts
    THEN /\ work' = [work EXCEPT ![w] = Ready(work[w].request, n)]
         /\ UNCHANGED losses
    ELSE Throw(w, "failed")

\* A network error before anything was sent: classified as transient or as a
\* sequence collision, which forgets the cached number, or as neither.
CallFails(w) ==
    /\ Running
    /\ work[w].phase = "ready"
    /\ faults < MaxFaults
    /\ faults' = faults + 1
    /\ \/ Retry(w) /\ seqCache' \in {seqCache, None}
       \/ Throw(w, "failed") /\ UNCHANGED seqCache
    /\ UNCHANGED <<chainVars, checkpoint, seen, proc, listenVars, reloaded, queue,
                   batch, taken, stops>>

Sequence == IF seqCache = None THEN chainSeq ELSE seqCache

\* Mutant: an error of the simulation is not looked at.
SimulatedUnseen(r) == TRUE

\* The simulation runs the call on the current ledger.
Simulated(r) == Accepts(r)

\* submitOnce up to the answer of sendTransaction.  The simulation of an answer
\* that is late, early or repeated fails, and so does a stale sequence number;
\* both errors are classified as fatal.
SubmitOnce(w) ==
    LET r == work[w].request IN
    /\ Running
    /\ work[w].phase = "ready"
    /\ IF Simulated(r) /\ Sequence = chainSeq
       THEN /\ work' = [work EXCEPT ![w] = Sent(r, work[w].attempt, Sequence)]
            /\ UNCHANGED losses
       ELSE Throw(w, IF Early(r) THEN "early" ELSE "failed")
    /\ UNCHANGED <<chainVars, checkpoint, seen, proc, listenVars, reloaded, queue,
                   batch, seqCache, taken, faults, stops>>

\* Mutant: the cache keeps the number that was used.
AdvancedNever(s) == s

\* The sequence number after a confirmed transaction.
Advanced(s) == s + 1

\* pollTransaction sees the transaction included: confirmed, which advances the
\* cache, or failed on chain, which is fatal and leaves the cache behind.
Confirm(w) ==
    LET r == work[w].request IN
    /\ Running
    /\ work[w].phase = "sent"
    /\ Include(r, work[w].seq)
    /\ IF Accepts(r)
       THEN /\ work' = [work EXCEPT ![w] = Idle]
            /\ seqCache' = Advanced(work[w].seq)
            /\ UNCHANGED losses
       ELSE Throw(w, "failed") /\ UNCHANGED seqCache
    /\ UNCHANGED <<orphans, checkpoint, seen, proc, listenVars, reloaded, queue,
                   batch, taken, faults, stops>>

\* pollTransaction gives up; the transaction stays valid for a while.  One with
\* a used sequence number can only time out.
Timeout(w) ==
    /\ Running
    /\ work[w].phase = "sent"
    /\ IF work[w].seq = chainSeq
       THEN faults < MaxFaults /\ faults' = faults + 1
       ELSE UNCHANGED faults
    /\ orphans' = orphans \cup {[request |-> work[w].request, seq |-> work[w].seq]}
    /\ Retry(w)
    /\ UNCHANGED <<ledger, emittedAt, answered, withdrawn, chainSeq, included, checkpoint,
                   seen, proc, listenVars, reloaded, queue, batch, seqCache, taken,
                   stops>>

-----------------------------------------------------------------------------
(* Stopping and starting                                                    *)

InWork == {work[w].request : w \in {v \in Workers : work[v] # Idle}}

\* Requests that stay unanswered when the memory is gone: jobs begun, and jobs
\* that a checkpoint of "saved" says were dealt with.
Forgotten(saved) ==
    (InWork \ answered) \cup
    {r \in queue \cup UNION {batch[w] : w \in Workers} : emittedAt[r] <= saved}

\* The process ends, leaving "saved" as its checkpoint.
LoseMemory(saved) ==
    /\ checkpoint' = saved
    /\ losses' = losses \cup Loss(Forgotten(saved), "ended")
    /\ orphans' = orphans \cup
          {[request |-> work[w].request, seq |-> work[w].seq] :
              w \in {v \in Workers : work[v].phase = "sent"}}
    /\ queue' = {}
    /\ batch' = [w \in Workers |-> {}]
    /\ work' = [w \in Workers |-> Idle]
    /\ seqCache' = None
    /\ polling' = FALSE
    /\ unsaved' = None
    /\ reloaded' = None
    /\ UNCHANGED <<ledger, emittedAt, answered, withdrawn, chainSeq, included, seen,
                   startLedger, taken, faults>>

Crash ==
    /\ Running
    /\ stops < MaxStops
    /\ stops' = stops + 1
    /\ proc' = "dead"
    /\ LoseMemory(checkpoint)

\* A signal: the listener is told to stop and the queue is drained.
Shutdown ==
    /\ proc = "up"
    /\ stops < MaxStops
    /\ stops' = stops + 1
    /\ proc' = "stopping"
    /\ batch' = [batch EXCEPT !["drain"] = queue]
    /\ queue' = {}
    /\ UNCHANGED <<chainVars, checkpoint, seen, listenVars, reloaded, work,
                   seqCache, taken, losses, faults>>

Drained == batch["drain"] = {} /\ work["drain"] = Idle

\* The checkpoint is read back, and later written.
ReloadCheckpoint ==
    /\ proc = "stopping"
    /\ Drained
    /\ checkpoint # None
    /\ reloaded = None
    /\ reloaded' = checkpoint
    /\ UNCHANGED <<chainVars, checkpoint, seen, proc, listenVars, jobVars, taken,
                   losses, faults, stops>>

Exit ==
    /\ proc = "stopping"
    /\ Drained
    /\ checkpoint # None => reloaded # None
    /\ proc' = "exited"
    /\ LoseMemory(IF reloaded = None THEN checkpoint ELSE reloaded)
    /\ UNCHANGED stops

\* drainTimeoutMs ends a drain that hangs.
ForceExit ==
    /\ proc = "stopping"
    /\ ~Drained
    /\ proc' = "dead"
    /\ LoseMemory(checkpoint)
    /\ UNCHANGED stops

\* initialize resumes after the checkpoint, or at the latest ledger when there
\* is none: what was emitted before is never looked at.
Start ==
    /\ ~Running
    /\ proc' = "up"
    /\ startLedger' = IF checkpoint = None THEN ledger ELSE checkpoint + 1
    /\ losses' = losses \cup
          Loss({r \in Emitted : checkpoint = None /\ emittedAt[r] < ledger}, "older")
    /\ UNCHANGED <<chainVars, checkpoint, seen, polling, unsaved, reloaded,
                   jobVars, taken, faults, stops>>

-----------------------------------------------------------------------------
Next ==
    \/ \E new \in SUBSET (Requests \ Emitted) : CloseLedger(new)
    \/ \E r \in Requests : Withdraw(r)
    \/ \E tx \in orphans : LateInclusion(tx) \/ Expire(tx)
    \/ PollStart
    \/ PollFails
    \/ PollResponse
    \/ SaveCheckpoint
    \/ ProcessQueue
    \/ \E w \in Workers :
          \/ \E r \in Requests : ProcessJob(w, r)
          \/ CallFails(w)
          \/ SubmitOnce(w)
          \/ Confirm(w)
          \/ Timeout(w)
    \/ Crash
    \/ Shutdown
    \/ ReloadCheckpoint
    \/ Exit
    \/ ForceExit
    \/ Start

Spec == Init /\ [][Next]_vars

\* Every await of the process ends, polls succeed again and again, and the
\* process is started again.
Fairness ==
    /\ WF_vars(PollStart)
    /\ SF_vars(PollResponse)
    /\ WF_vars(SaveCheckpoint)
    /\ WF_vars(ProcessQueue)
    /\ \A w \in Workers :
          /\ \A r \in Requests : WF_vars(ProcessJob(w, r))
          /\ WF_vars(SubmitOnce(w))
          /\ WF_vars(Confirm(w) \/ Timeout(w))
    /\ WF_vars(ReloadCheckpoint)
    /\ WF_vars(Exit)
    /\ WF_vars(Start)

FairSpec == Spec /\ Fairness

-----------------------------------------------------------------------------
(* Properties                                                               *)

Tx == [request : Requests, seq : Nat]

WorkType ==
    {Idle}
    \cup [phase : {"ready"}, request : Requests, attempt : 0..(MaxAttempts - 1)]
    \cup [phase : {"sent"}, request : Requests, attempt : 0..(MaxAttempts - 1), seq : Nat]

\* Every variable holds a value the process or the chain can hold.
TypeOK ==
    /\ ledger \in 1..(MaxLedger + 1)
    /\ emittedAt \in [Requests -> Nat \cup {None}]
    /\ answered \subseteq Requests
    /\ withdrawn \subseteq Requests
    /\ chainSeq \in Nat
    /\ orphans \subseteq Tx
    /\ checkpoint \in Nat \cup {None}
    /\ seen \subseteq Requests
    /\ proc \in {"up", "stopping", "exited", "dead"}
    /\ polling \in BOOLEAN
    /\ startLedger \in Nat
    /\ unsaved \in Nat \cup {None}
    /\ reloaded \in Nat \cup {None}
    /\ queue \subseteq Requests
    /\ batch \in [Workers -> SUBSET Requests]
    /\ work \in [Workers -> WorkType]
    /\ seqCache \in Nat \cup {None}
    /\ taken \in [Requests -> Nat]
    /\ included \in [Requests -> Nat]
    /\ losses \subseteq [request : Requests, why : Causes]
    /\ faults \in 0..MaxFaults
    /\ stops \in 0..MaxStops

\* A request is worked on once in the life of the data directory, through
\* crashes, repeated polls after an unsaved checkpoint, and a drain that runs
\* beside the job loop (isDuplicate).
WorkedOnce == \A r \in Requests : taken[r] <= 1

\* However submissions time out, are repeated and are included late, at most one
\* transaction for a request ever uses up a sequence number and its fee: two of
\* them in flight share the number (sequenceCache), and one that is built after
\* the other was included fails in the simulation.
OneInclusion == \A r \in Requests : included[r] <= 1

\* A job fails for good only for a reason outside its own work: as long as no call
\* failed, the process was not stopped and no raffle was withdrawn, the sequence number
\* the submitter keeps is the account's, and every answer sent is included.
FailuresProvoked ==
    \A l \in losses : l.why = "failed" =>
        faults > 0 \/ stops > 0 \/ withdrawn # {} \/ l.request \in answered

\* Every way to lose a request is known: an emitted request is answered, or it was lost
\* for one of the five causes, which the listener and the pipeline log at most.
Accounted ==
    \A r \in Requests :
        (r \in Emitted) ~> (r \in answered \/ \E why \in Causes : [request |-> r, why |-> why] \in losses)

=============================================================================
