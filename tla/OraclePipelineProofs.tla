------------------------ MODULE OraclePipelineProofs ------------------------
(***************************************************************************)
(* Proofs about OraclePipeline, for any number of requests, ledgers,       *)
(* faults and stops: types, and that a request is worked on once and       *)
(* included in a ledger at most once.                                      *)
(***************************************************************************)
EXTENDS OraclePipeline, TLAPS

-----------------------------------------------------------------------------
(* Types                                                                    *)

LossType == [request : Requests, why : Causes]

\* The conjuncts of TypeOK, grouped by what changes together.
ChainType ==
    /\ ledger \in 1..(MaxLedger + 1)
    /\ emittedAt \in [Requests -> Nat \cup {None}]
    /\ answered \subseteq Requests
    /\ withdrawn \subseteq Requests
    /\ chainSeq \in Nat
    /\ orphans \subseteq Tx
    /\ included \in [Requests -> Nat]

ListenType ==
    /\ polling \in BOOLEAN
    /\ startLedger \in Nat
    /\ unsaved \in Nat \cup {None}
    /\ reloaded \in Nat \cup {None}
    /\ checkpoint \in Nat \cup {None}

JobType ==
    /\ queue \subseteq Requests
    /\ batch \in [Workers -> SUBSET Requests]
    /\ work \in [Workers -> WorkType]
    /\ seqCache \in Nat \cup {None}
    /\ seen \subseteq Requests
    /\ taken \in [Requests -> Nat]
    /\ losses \subseteq LossType

StopType ==
    /\ proc \in {"up", "stopping", "exited", "dead"}
    /\ faults \in 0..MaxFaults
    /\ stops \in 0..MaxStops

LEMMA TypeParts == TypeOK <=> ChainType /\ ListenType /\ JobType /\ StopType
  BY DEF TypeOK, ChainType, ListenType, JobType, StopType, LossType

LEMMA TypePartsNext == ChainType' /\ ListenType' /\ JobType' /\ StopType' => TypeOK'
  BY DEF TypeOK, ChainType, ListenType, JobType, StopType, LossType

\* What a worker that has taken a job holds.
LEMMA WorkFields ==
    ASSUME JobType, NEW w \in Workers
    PROVE  /\ work[w] # Idle <=> work[w].phase \in {"ready", "sent"}
           /\ work[w].phase \in {"ready", "sent"} =>
                 work[w].request \in Requests /\ work[w].attempt \in 0..(MaxAttempts - 1)
           /\ work[w].phase = "sent" => work[w].seq \in Nat
<1>1. work[w] \in WorkType
  BY DEF JobType
<1> QED BY <1>1 DEF WorkType, Idle

LEMMA JobCauses == "failed" \in Causes /\ "early" \in Causes
  BY DEF Causes

LEMMA LossesTyped ==
    ASSUME NEW S \in SUBSET Requests, NEW why \in Causes
    PROVE  Loss(S, why) \subseteq LossType
  BY DEF Loss, LossType

LEMMA TypeInit == Init => TypeOK
<1> SUFFICES ASSUME Init PROVE TypeOK
  OBVIOUS
<1> USE OracleAssumption DEF Init
<1>1. ChainType
  BY DEF ChainType, None
<1>2. ListenType
  <2>1. polling \in BOOLEAN
    BY Zenon
  <2>2. startLedger \in Nat /\ unsaved \in Nat \cup {None} /\ reloaded \in Nat \cup {None}
        /\ checkpoint \in Nat \cup {None}
    OBVIOUS
  <2> QED BY <2>1, <2>2, Zenon DEF ListenType
<1>3. JobType
  <2>1. work \in [Workers -> WorkType] /\ batch \in [Workers -> SUBSET Requests]
    BY DEF WorkType
  <2> QED BY <2>1 DEF JobType
<1>4. StopType
  BY DEF StopType
<1> QED BY <1>1, <1>2, <1>3, <1>4, TypeParts

\* What a step leaves alone keeps its type.
LEMMA TypeFrame ==
    ASSUME TypeOK
    PROVE  /\ UNCHANGED chainVars => ChainType'
           /\ UNCHANGED <<listenVars, reloaded, checkpoint>> => ListenType'
           /\ UNCHANGED <<jobVars, seen, taken, losses>> => JobType'
           /\ UNCHANGED <<proc, faults, stops>> => StopType'
<1> USE TypeParts
<1>1. UNCHANGED chainVars => ChainType'
  BY DEF chainVars, ChainType
<1>2. UNCHANGED <<listenVars, reloaded, checkpoint>> => ListenType'
  BY DEF listenVars, ListenType
<1>3. UNCHANGED <<jobVars, seen, taken, losses>> => JobType'
  BY DEF jobVars, JobType
<1>4. UNCHANGED <<proc, faults, stops>> => StopType'
  BY DEF StopType
<1> QED BY <1>1, <1>2, <1>3, <1>4

LEMMA TypeChain ==
    ASSUME TypeOK,
           \/ \E new \in SUBSET (Requests \ Emitted) : CloseLedger(new)
           \/ \E r \in Requests : Withdraw(r)
           \/ \E tx \in orphans : LateInclusion(tx) \/ Expire(tx)
    PROVE  TypeOK'
<1>0. ChainType
  BY TypeParts
<1>1. ASSUME NEW new \in SUBSET (Requests \ Emitted), CloseLedger(new)
      PROVE  ChainType' /\ UNCHANGED <<listenVars, reloaded, checkpoint, jobVars, seen, taken,
                                       losses, proc, faults, stops>>
  <2>1. ledger' \in 1..(MaxLedger + 1) /\ ledger + 1 \in Nat
    BY <1>0, <1>1, OracleAssumption DEF CloseLedger, ChainType
  <2>2. emittedAt' \in [Requests -> Nat \cup {None}]
    BY <1>0, <1>1, <2>1 DEF CloseLedger, ChainType
  <2> QED BY <1>0, <1>1, <2>1, <2>2 DEF CloseLedger, ChainType
<1>2. ASSUME NEW r \in Requests, Withdraw(r)
      PROVE  ChainType' /\ UNCHANGED <<listenVars, reloaded, checkpoint, jobVars, seen, taken,
                                       losses, proc, faults, stops>>
  BY <1>0, <1>2 DEF Withdraw, ChainType
<1>3. ASSUME NEW tx \in orphans, LateInclusion(tx)
      PROVE  ChainType' /\ UNCHANGED <<listenVars, reloaded, checkpoint, jobVars, seen, taken,
                                       losses, proc, faults, stops>>
  <2>1. tx.request \in Requests /\ tx.seq \in Nat
    BY <1>0 DEF ChainType, Tx
  <2>2. included' \in [Requests -> Nat]
    BY <1>0, <1>3, <2>1 DEF LateInclusion, Include, ChainType
  <2> QED BY <1>0, <1>3, <2>1, <2>2 DEF LateInclusion, Include, ChainType
<1>4. ASSUME NEW tx \in orphans, Expire(tx)
      PROVE  ChainType' /\ UNCHANGED <<listenVars, reloaded, checkpoint, jobVars, seen, taken,
                                       losses, proc, faults, stops>>
  BY <1>0, <1>4 DEF Expire, ChainType
<1>5. ChainType' /\ UNCHANGED <<listenVars, reloaded, checkpoint, jobVars, seen, taken,
                                losses, proc, faults, stops>>
  BY <1>1, <1>2, <1>3, <1>4
<1>6. ListenType' /\ JobType' /\ StopType'
  BY <1>5, TypeFrame
<1> QED BY <1>5, <1>6, TypePartsNext

LEMMA TypeListen ==
    ASSUME TypeOK, PollStart \/ PollFails \/ PollResponse \/ SaveCheckpoint
    PROVE  TypeOK'
<1>0. ChainType /\ ListenType /\ JobType
  BY TypeParts
<1>1. ListenType'
  <2>1. ledger \in Nat /\ ledger + 1 \in Nat
    BY <1>0, OracleAssumption DEF ChainType
  <2> QED BY <1>0, <2>1 DEF PollStart, PollFails, PollResponse, SaveCheckpoint, NextStart,
                            ListenType
<1>2. JobType'
  <2>1. CASE PollResponse
    <3>1. queue' \subseteq Requests
      BY <1>0, <2>1 DEF PollResponse, JobType, Visible, Emitted
    <3>2. losses' \subseteq LossType
      <4>1. PICK S \in SUBSET Visible : losses' = (losses \ Loss(S, "page")) \cup Loss(Visible \ S, "page")
        BY <2>1 DEF PollResponse
      <4>2. Loss(Visible \ S, "page") \subseteq LossType
        BY LossesTyped DEF Visible, Emitted, Causes
      <4> QED BY <1>0, <4>1, <4>2 DEF JobType
    <3> QED BY <1>0, <2>1, <3>1, <3>2 DEF PollResponse, JobType
  <2>2. CASE PollStart \/ PollFails \/ SaveCheckpoint
    BY <2>2, TypeFrame DEF PollStart, PollFails, SaveCheckpoint
  <2> QED BY <2>1, <2>2
<1>3. ChainType' /\ StopType'
  BY TypeFrame DEF PollStart, PollFails, PollResponse, SaveCheckpoint
<1>4. ChainType' /\ ListenType' /\ JobType' /\ StopType'
  BY <1>1, <1>2, <1>3
<1> QED BY <1>4, TypePartsNext

LEMMA TypeQueue ==
    ASSUME TypeOK, ProcessQueue \/ \E w \in Workers, r \in Requests : ProcessJob(w, r)
    PROVE  TypeOK'
<1>0. JobType
  BY TypeParts
<1>1. CASE ProcessQueue
  <2>1. batch' \in [Workers -> SUBSET Requests]
    BY <1>0, <1>1 DEF ProcessQueue, JobType, Workers
  <2>2. JobType'
    BY <1>0, <1>1, <2>1 DEF ProcessQueue, JobType
  <2>3. ChainType' /\ ListenType' /\ StopType'
    BY <1>1, TypeFrame DEF ProcessQueue
  <2> QED BY <2>2, <2>3, TypePartsNext
<1>2. ASSUME NEW w \in Workers, NEW r \in Requests, ProcessJob(w, r)
      PROVE  TypeOK'
  <2>1. batch' \in [Workers -> SUBSET Requests]
    BY <1>0, <1>2 DEF ProcessJob, JobType
  <2>2. CASE r \in seen
    <3>1. JobType'
      BY <1>0, <1>2, <2>1, <2>2 DEF ProcessJob, JobType
    <3>2. ChainType' /\ ListenType' /\ StopType'
      BY <1>2, TypeFrame DEF ProcessJob
    <3> QED BY <3>1, <3>2, TypePartsNext
  <2>3. CASE r \notin seen
    <3>1. Ready(r, 0) \in WorkType
      BY OracleAssumption DEF Ready, WorkType
    <3>2. work' \in [Workers -> WorkType]
      BY <1>0, <1>2, <2>3, <3>1 DEF ProcessJob, JobType
    <3>3. taken' \in [Requests -> Nat]
      BY <1>0, <1>2, <2>3 DEF ProcessJob, JobType
    <3>4. JobType'
      BY <1>0, <1>2, <2>1, <2>3, <3>2, <3>3 DEF ProcessJob, MarkSeen, JobType
    <3>5. ChainType' /\ ListenType' /\ StopType'
      BY <1>2, TypeFrame DEF ProcessJob
    <3> QED BY <3>4, <3>5, TypePartsNext
  <2> QED BY <2>2, <2>3
<1> QED BY <1>1, <1>2

\* What the ends of an attempt do to the job.
LEMMA TypeThrow ==
    ASSUME TypeOK, NEW w \in Workers, work[w].phase \in {"ready", "sent"},
           NEW why \in Causes, Throw(w, why)
    PROVE  work' \in [Workers -> WorkType] /\ losses' \subseteq LossType
<1>0. JobType
  BY TypeParts
<1>1. work[w].request \in Requests /\ Idle \in WorkType
  BY <1>0, WorkFields DEF WorkType
<1>2. Loss({work[w].request}, why) \subseteq LossType
  BY <1>1, LossesTyped
<1> QED BY <1>0, <1>1, <1>2 DEF Throw, JobType

LEMMA TypeRetry ==
    ASSUME TypeOK, NEW w \in Workers, work[w].phase \in {"ready", "sent"}, Retry(w)
    PROVE  work' \in [Workers -> WorkType] /\ losses' \subseteq LossType
<1>0. JobType
  BY TypeParts
<1> DEFINE n == work[w].attempt + 1
<1>1. work[w].request \in Requests /\ work[w].attempt \in 0..(MaxAttempts - 1)
  BY <1>0, WorkFields
<1>2. n \in Nat
  BY <1>1, OracleAssumption
<1>3. CASE n < MaxAttempts
  <2>1. n \in 0..(MaxAttempts - 1)
    BY <1>2, <1>3, OracleAssumption
  <2> HIDE DEF n
  <2>2. Ready(work[w].request, n) \in WorkType
    BY <1>1, <2>1 DEF Ready, WorkType
  <2>3. work' = [work EXCEPT ![w] = Ready(work[w].request, n)] /\ UNCHANGED losses
    BY <1>3 DEF Retry, n
  <2> QED BY <1>0, <2>2, <2>3 DEF JobType
<1>4. CASE ~(n < MaxAttempts)
  BY <1>4, TypeThrow, JobCauses DEF Retry
<1> QED BY <1>3, <1>4

LEMMA TypeSubmit ==
    ASSUME TypeOK, NEW w \in Workers,
           CallFails(w) \/ SubmitOnce(w) \/ Confirm(w) \/ Timeout(w)
    PROVE  TypeOK'
<1>0. ChainType /\ JobType /\ StopType
  BY TypeParts
<1>1. CASE CallFails(w)
  <2>1. work' \in [Workers -> WorkType] /\ losses' \subseteq LossType
        /\ seqCache' \in Nat \cup {None}
    BY <1>0, <1>1, TypeRetry, TypeThrow, JobCauses DEF CallFails, JobType
  <2>2. JobType'
    BY <1>0, <1>1, <2>1 DEF CallFails, JobType
  <2>3. StopType'
    BY <1>0, <1>1, OracleAssumption DEF CallFails, StopType
  <2>4. ChainType' /\ ListenType'
    BY <1>1, TypeFrame DEF CallFails
  <2> QED BY <2>2, <2>3, <2>4, TypePartsNext
<1>2. CASE SubmitOnce(w)
  <2>1. work' \in [Workers -> WorkType] /\ losses' \subseteq LossType
    <3>1. work[w].request \in Requests /\ work[w].attempt \in 0..(MaxAttempts - 1)
      BY <1>0, <1>2, WorkFields DEF SubmitOnce
    <3>2. CASE \E why \in Causes : Throw(w, why)
      BY <1>2, <3>2, TypeThrow DEF SubmitOnce
    <3>3. CASE /\ work' = [work EXCEPT ![w] = Sent(work[w].request, work[w].attempt, Sequence)]
               /\ Sequence = chainSeq
               /\ UNCHANGED losses
      <4>1. Sent(work[w].request, work[w].attempt, Sequence) \in WorkType
        BY <1>0, <3>1, <3>3 DEF Sent, WorkType, ChainType
      <4> QED BY <1>0, <3>3, <4>1 DEF JobType
    <3> QED BY <1>2, <3>2, <3>3, JobCauses DEF SubmitOnce
  <2>2. JobType'
    BY <1>0, <1>2, <2>1 DEF SubmitOnce, JobType
  <2>3. ChainType' /\ ListenType' /\ StopType'
    BY <1>2, TypeFrame DEF SubmitOnce
  <2> QED BY <2>2, <2>3, TypePartsNext
<1>3. CASE Confirm(w)
  <2>1. work[w].request \in Requests /\ work[w].seq \in Nat /\ work[w].phase = "sent"
    BY <1>0, <1>3, WorkFields DEF Confirm
  <2>2. included' \in [Requests -> Nat]
    BY <1>0, <1>3, <2>1 DEF Confirm, Include, ChainType
  <2>3. ChainType'
    BY <1>0, <1>3, <2>1, <2>2 DEF Confirm, Include, ChainType
  <2>4. work' \in [Workers -> WorkType] /\ losses' \subseteq LossType
        /\ seqCache' \in Nat \cup {None}
    <3>1. CASE Throw(w, "failed") /\ UNCHANGED seqCache
      BY <1>0, <2>1, <3>1, TypeThrow, JobCauses DEF JobType
    <3>2. CASE /\ work' = [work EXCEPT ![w] = Idle]
               /\ seqCache' = Advanced(work[w].seq)
               /\ UNCHANGED losses
      <4>1. Idle \in WorkType
        BY DEF WorkType
      <4> QED BY <1>0, <2>1, <3>2, <4>1 DEF JobType, Advanced
    <3> QED BY <1>3, <3>1, <3>2 DEF Confirm
  <2>5. JobType'
    BY <1>0, <1>3, <2>4 DEF Confirm, JobType
  <2>6. ListenType' /\ StopType'
    BY <1>3, TypeFrame DEF Confirm
  <2> QED BY <2>3, <2>5, <2>6, TypePartsNext
<1>4. CASE Timeout(w)
  <2>1. work[w].request \in Requests /\ work[w].seq \in Nat /\ work[w].phase = "sent"
    BY <1>0, <1>4, WorkFields DEF Timeout
  <2>2. ChainType'
    BY <1>0, <1>4, <2>1 DEF Timeout, ChainType, Tx
  <2>3. work' \in [Workers -> WorkType] /\ losses' \subseteq LossType
    BY <1>4, <2>1, TypeRetry DEF Timeout
  <2>4. JobType'
    BY <1>0, <1>4, <2>3 DEF Timeout, JobType
  <2>5. StopType'
    BY <1>0, <1>4, OracleAssumption DEF Timeout, StopType
  <2>6. ListenType'
    BY <1>4, TypeFrame DEF Timeout
  <2> QED BY <2>2, <2>4, <2>5, <2>6, TypePartsNext
<1> QED BY <1>1, <1>2, <1>3, <1>4

LEMMA TypeLose ==
    ASSUME TypeOK, NEW saved \in Nat \cup {None}, LoseMemory(saved)
    PROVE  ChainType' /\ ListenType' /\ JobType'
<1>0. ChainType /\ ListenType /\ JobType
  BY TypeParts
<1>1. \A w \in Workers : work[w].phase = "sent" =>
         [request |-> work[w].request, seq |-> work[w].seq] \in Tx
  BY <1>0, WorkFields DEF Tx
<1>2. orphans' \subseteq Tx
  BY <1>0, <1>1 DEF LoseMemory, ChainType
<1>3. ChainType'
  BY <1>0, <1>2 DEF LoseMemory, ChainType
<1>4. ListenType'
  BY <1>0 DEF LoseMemory, ListenType
<1>5. Forgotten(saved) \subseteq Requests
  <2>1. InWork \subseteq Requests
    BY <1>0, WorkFields DEF InWork
  <2>2. queue \cup UNION {batch[w] : w \in Workers} \subseteq Requests
    BY <1>0 DEF JobType
  <2> QED BY <2>1, <2>2 DEF Forgotten
<1>6. work' \in [Workers -> WorkType] /\ batch' \in [Workers -> SUBSET Requests]
  BY DEF LoseMemory, WorkType
<1>7. Loss(Forgotten(saved), "ended") \subseteq LossType
  BY <1>5, LossesTyped DEF Causes
<1>8. JobType'
  BY <1>0, <1>6, <1>7 DEF LoseMemory, JobType
<1> QED BY <1>3, <1>4, <1>8

LEMMA TypeStop ==
    ASSUME TypeOK, Crash \/ Shutdown \/ ReloadCheckpoint \/ Exit \/ ForceExit \/ Start
    PROVE  TypeOK'
<1>0. ChainType /\ ListenType /\ JobType /\ StopType
  BY TypeParts
<1>1. CASE Crash \/ Exit \/ ForceExit
  <2>1. PICK saved \in Nat \cup {None} : LoseMemory(saved)
    BY <1>0, <1>1 DEF Crash, Exit, ForceExit, ListenType
  <2>2. UNCHANGED faults
    BY <2>1 DEF LoseMemory
  <2>3. StopType'
    BY <1>0, <1>1, <2>2, OracleAssumption DEF Crash, Exit, ForceExit, StopType
  <2> QED BY <2>1, <2>3, TypeLose, TypePartsNext
<1>2. CASE Shutdown
  <2>1. batch' \in [Workers -> SUBSET Requests]
    BY <1>0, <1>2 DEF Shutdown, JobType
  <2>2. JobType'
    BY <1>0, <1>2, <2>1 DEF Shutdown, JobType
  <2>3. StopType'
    BY <1>0, <1>2, OracleAssumption DEF Shutdown, StopType
  <2>4. ChainType' /\ ListenType'
    BY <1>2, TypeFrame DEF Shutdown
  <2> QED BY <2>2, <2>3, <2>4, TypePartsNext
<1>3. CASE ReloadCheckpoint
  <2>1. ListenType'
    BY <1>0, <1>3 DEF ReloadCheckpoint, ListenType, listenVars
  <2>2. ChainType' /\ JobType' /\ StopType'
    BY <1>3, TypeFrame DEF ReloadCheckpoint
  <2> QED BY <2>1, <2>2, TypePartsNext
<1>4. CASE Start
  <2>1. startLedger' \in Nat
    <3>1. ledger \in Nat /\ (checkpoint # None => checkpoint + 1 \in Nat)
      BY <1>0, OracleAssumption DEF ChainType, ListenType
    <3> QED BY <1>4, <3>1 DEF Start
  <2>2. ListenType'
    BY <1>0, <1>4, <2>1 DEF Start, ListenType
  <2>3. JobType'
    <3>1. Emitted \subseteq Requests
      BY DEF Emitted
    <3> DEFINE S == {r \in Emitted : checkpoint = None /\ emittedAt[r] < ledger}
    <3>2. Loss(S, "older") \subseteq LossType
      BY <3>1, LossesTyped DEF Causes
    <3>3. losses' = losses \cup Loss(S, "older") /\ UNCHANGED <<jobVars, seen, taken>>
      BY <1>4 DEF Start
    <3> QED BY <1>0, <3>2, <3>3 DEF JobType, jobVars
  <2>4. StopType'
    BY <1>0, <1>4 DEF Start, StopType
  <2>5. ChainType'
    BY <1>4, TypeFrame DEF Start
  <2> QED BY <2>2, <2>3, <2>4, <2>5, TypePartsNext
<1> QED BY <1>1, <1>2, <1>3, <1>4

LEMMA TypeNext == TypeOK /\ [Next]_vars => TypeOK'
<1> SUFFICES ASSUME TypeOK, [Next]_vars PROVE TypeOK'
  OBVIOUS
<1>1. CASE UNCHANGED vars
  <2>1. ChainType' /\ ListenType' /\ JobType' /\ StopType'
    BY <1>1, TypeFrame DEF vars
  <2> QED BY <2>1, TypePartsNext
<1>2. CASE Next
  BY <1>2, TypeChain, TypeListen, TypeQueue, TypeSubmit, TypeStop DEF Next
<1> QED BY <1>1, <1>2

\* The oracle's memory, its files and the chain keep values of their types
\* through every interleaving of the listener, the job loop, the drain of a
\* shutdown, crashes and restarts; no job is tried more than maxAttempts times.
THEOREM OracleTypeCorrect == Spec => []TypeOK
  BY TypeInit, TypeNext, PTL DEF Spec

-----------------------------------------------------------------------------
(* A request is worked on once.                                             *)

\* dedup.json holds exactly the requests that passed the duplicate check.
Deduplicated == \A r \in Requests : taken[r] = IF r \in seen THEN 1 ELSE 0

LEMMA DedupInit == Init => Deduplicated
  BY DEF Init, Deduplicated

\* Only the first step of a job passes the check.
LEMMA TakingSteps ==
    ASSUME [Next]_vars
    PROVE  UNCHANGED <<seen, taken>> \/ \E w \in Workers, r \in Requests : ProcessJob(w, r)
<1>1. CASE UNCHANGED vars
  BY <1>1 DEF vars
<1>2. CASE \/ \E new \in SUBSET (Requests \ Emitted) : CloseLedger(new)
           \/ \E r \in Requests : Withdraw(r)
           \/ \E tx \in orphans : LateInclusion(tx) \/ Expire(tx)
  BY <1>2 DEF CloseLedger, Withdraw, LateInclusion, Expire
<1>3. CASE PollStart \/ PollFails \/ PollResponse \/ SaveCheckpoint \/ ProcessQueue
  BY <1>3 DEF PollStart, PollFails, PollResponse, SaveCheckpoint, ProcessQueue
<1>4. CASE \E w \in Workers : CallFails(w) \/ SubmitOnce(w) \/ Confirm(w) \/ Timeout(w)
  BY <1>4 DEF CallFails, SubmitOnce, Confirm, Timeout
<1>5. CASE Crash \/ Shutdown \/ ReloadCheckpoint \/ Exit \/ ForceExit \/ Start
  BY <1>5 DEF Crash, Shutdown, ReloadCheckpoint, Exit, ForceExit, Start, LoseMemory
<1> QED BY <1>1, <1>2, <1>3, <1>4, <1>5 DEF Next

LEMMA DedupNext == TypeOK /\ Deduplicated /\ [Next]_vars => Deduplicated'
<1> SUFFICES ASSUME TypeOK, Deduplicated, [Next]_vars PROVE Deduplicated'
  OBVIOUS
<1>1. CASE UNCHANGED <<seen, taken>>
  BY <1>1 DEF Deduplicated
<1>2. ASSUME NEW w \in Workers, NEW r \in Requests, ProcessJob(w, r)
      PROVE  Deduplicated'
  <2>1. CASE r \in seen
    BY <1>2, <2>1 DEF ProcessJob, Deduplicated
  <2>2. CASE r \notin seen
    <3>1. seen' = seen \cup {r} /\ taken' = [taken EXCEPT ![r] = @ + 1]
      BY <1>2, <2>2 DEF ProcessJob, MarkSeen
    <3>2. taken \in [Requests -> Nat] /\ taken[r] = 0
      BY <2>2 DEF TypeOK, Deduplicated
    <3> QED BY <3>1, <3>2 DEF Deduplicated
  <2> QED BY <2>1, <2>2
<1> QED BY <1>1, <1>2, TakingSteps

\* However often a request is polled again after a crash, an unsaved checkpoint
\* or an overlap of the drain with the job loop, isDuplicate lets it through once
\* in the life of the data directory.
THEOREM RequestsWorkedOnce == Spec => []WorkedOnce
<1>1. Deduplicated => WorkedOnce
  BY DEF Deduplicated, WorkedOnce
<1> QED BY <1>1, DedupInit, DedupNext, OracleTypeCorrect, PTL DEF Spec

-----------------------------------------------------------------------------
(* A request is included once.                                              *)

\* What the process holds of requests comes from events.
Jobs == queue \cup (UNION {batch[w] : w \in Workers}) \cup InWork

\* Transactions that were sent and may still be included.
SentTx == {[request |-> work[w].request, seq |-> work[w].seq] :
              w \in {v \in Workers : work[v].phase = "sent"}}

InFlight == orphans \cup SentTx

\* A raffle that was answered or withdrawn accepts nothing more.
Closed == answered \cup withdrawn

\* Every job is of an emitted request.
JobsEmitted == Jobs \subseteq Emitted

\* A transaction was built for an emitted request that could be answered, with
\* the sequence number of the account or an older one.
FlightsPlausible ==
    \A tx \in InFlight :
        /\ tx.request \in Emitted
        /\ ledger >= emittedAt[tx.request] + MinDelay
        /\ tx.seq <= chainSeq

\* Once a transaction of a request was included its raffle is closed, and the
\* others of that request have used numbers.
InclusionCloses ==
    \A r \in Requests :
        /\ included[r] <= 1
        /\ included[r] = 1 => /\ r \in Closed
                              /\ \A tx \in InFlight : tx.request = r => tx.seq < chainSeq

FlightInv == JobsEmitted /\ FlightsPlausible /\ InclusionCloses

LEMMA FlightInit == Init => FlightInv
<1> SUFFICES ASSUME Init PROVE FlightInv
  OBVIOUS
<1>1. \A w \in Workers : work[w] = Idle /\ batch[w] = {}
  BY DEF Init
<1>2. Jobs = {}
  BY <1>1 DEF Init, Jobs, InWork
<1>3. InFlight = {}
  BY <1>1 DEF Init, InFlight, SentTx, Idle
<1>4. \A r \in Requests : included[r] = 0
  BY DEF Init
<1> QED BY <1>2, <1>3, <1>4 DEF FlightInv, JobsEmitted, FlightsPlausible, InclusionCloses

\* What one worker's change does to the jobs and to the transactions.
LEMMA WorkChange ==
    ASSUME TypeOK, NEW w \in Workers, NEW v, work' = [work EXCEPT ![w] = v]
    PROVE  /\ \A r \in InWork' : r \in InWork \/ (v # Idle /\ r = v.request)
           /\ \A tx \in SentTx' :
                 \/ tx \in SentTx
                 \/ v.phase = "sent" /\ tx = [request |-> v.request, seq |-> v.seq]
<1>1. work \in [Workers -> WorkType]
  BY DEF TypeOK
<1>2. \A u \in Workers : work'[u] = IF u = w THEN v ELSE work[u]
  BY <1>1
<1>3. ASSUME NEW r \in InWork'
      PROVE  r \in InWork \/ (v # Idle /\ r = v.request)
  <2>1. PICK u \in Workers : work'[u] # Idle /\ r = work'[u].request
    BY <1>3 DEF InWork
  <2> QED BY <1>2, <2>1 DEF InWork
<1>4. ASSUME NEW tx \in SentTx'
      PROVE  \/ tx \in SentTx
             \/ v.phase = "sent" /\ tx = [request |-> v.request, seq |-> v.seq]
  <2>1. PICK u \in Workers : work'[u].phase = "sent"
                             /\ tx = [request |-> work'[u].request, seq |-> work'[u].seq]
    BY <1>4 DEF SentTx
  <2>2. CASE u = w
    BY <1>2, <2>1, <2>2
  <2>3. CASE u # w
    BY <1>2, <2>1, <2>3 DEF SentTx
  <2> QED BY <2>2, <2>3
<1> QED BY <1>3, <1>4

\* The end of an attempt neither takes a job nor sends a transaction.
LEMMA AttemptEnds ==
    ASSUME TypeOK, NEW w \in Workers, work[w].phase \in {"ready", "sent"},
           Retry(w) \/ (\E why \in Causes : Throw(w, why)) \/ work' = [work EXCEPT ![w] = Idle]
    PROVE  InWork' \subseteq InWork /\ SentTx' \subseteq SentTx
<1>1. work[w].request \in InWork
  <2>1. work[w] # Idle
    BY WorkFields, TypeParts
  <2> QED BY <2>1 DEF InWork
<1>2. CASE work' = [work EXCEPT ![w] = Idle]
  <2>1. Idle.phase # "sent"
    BY DEF Idle
  <2> QED BY <1>2, <2>1, WorkChange
<1>3. CASE \E why \in Causes : Throw(w, why)
  BY <1>2, <1>3 DEF Throw
<1>4. CASE Retry(w) /\ ~Throw(w, "failed")
  <2> DEFINE v == Ready(work[w].request, work[w].attempt + 1)
  <2>1. work' = [work EXCEPT ![w] = v]
    BY <1>4 DEF Retry
  <2>2. v.phase # "sent" /\ v.request = work[w].request
    BY DEF Ready
  <2> HIDE DEF v
  <2> QED BY <1>1, <2>1, <2>2, WorkChange
<1> QED BY <1>2, <1>3, <1>4, JobCauses

\* The chain forgets nothing.
LEMMA ChainGrows ==
    ASSUME TypeOK, [Next]_vars
    PROVE  /\ \A r \in Emitted : r \in Emitted' /\ emittedAt'[r] = emittedAt[r]
           /\ ledger' >= ledger
           /\ Closed \subseteq Closed'
<1>0. emittedAt \in [Requests -> Nat \cup {None}] /\ ledger \in Nat
  BY OracleAssumption DEF TypeOK
<1>1. ASSUME NEW new \in SUBSET (Requests \ Emitted), CloseLedger(new)
      PROVE  /\ \A r \in Emitted : r \in Emitted' /\ emittedAt'[r] = emittedAt[r]
             /\ ledger' >= ledger
             /\ Closed \subseteq Closed'
  <2>1. ledger' >= ledger
    BY <1>0, <1>1 DEF CloseLedger
  <2>2. Closed \subseteq Closed'
    BY <1>1 DEF CloseLedger, Closed
  <2>3. \A r \in Emitted : r \in Emitted' /\ emittedAt'[r] = emittedAt[r]
    BY <1>1 DEF CloseLedger, Emitted
  <2> QED BY <2>1, <2>2, <2>3
<1>2. CASE UNCHANGED <<emittedAt, ledger>> /\ Closed \subseteq Closed'
  BY <1>0, <1>2 DEF Emitted
<1>3. CASE UNCHANGED <<emittedAt, ledger, answered, withdrawn>>
  BY <1>2, <1>3 DEF Closed
<1>4. ASSUME NEW r \in Requests, Withdraw(r)
      PROVE  UNCHANGED <<emittedAt, ledger>> /\ Closed \subseteq Closed'
  BY <1>4 DEF Withdraw, Closed
<1>5. ASSUME NEW r, NEW n, Include(r, n)
      PROVE  UNCHANGED <<emittedAt, ledger>> /\ Closed \subseteq Closed'
  BY <1>5 DEF Include, Closed
<1>6. ASSUME NEW tx \in orphans, LateInclusion(tx)
      PROVE  UNCHANGED <<emittedAt, ledger>> /\ Closed \subseteq Closed'
  BY <1>5, <1>6 DEF LateInclusion
<1>7. ASSUME NEW tx \in orphans, Expire(tx)
      PROVE  UNCHANGED <<emittedAt, ledger, answered, withdrawn>>
  BY <1>7 DEF Expire
<1>8. CASE UNCHANGED vars \/ PollStart \/ PollFails \/ PollResponse \/ SaveCheckpoint
           \/ ProcessQueue
  BY <1>3, <1>8 DEF vars, PollStart, PollFails, PollResponse, SaveCheckpoint, ProcessQueue,
                    chainVars
<1>9. ASSUME NEW w \in Workers, NEW r \in Requests, ProcessJob(w, r)
      PROVE  UNCHANGED <<emittedAt, ledger, answered, withdrawn>>
  BY <1>9 DEF ProcessJob, chainVars
<1>10. ASSUME NEW w \in Workers, CallFails(w) \/ SubmitOnce(w) \/ Timeout(w)
       PROVE  UNCHANGED <<emittedAt, ledger, answered, withdrawn>>
  BY <1>10 DEF CallFails, SubmitOnce, Timeout, chainVars
<1>11. ASSUME NEW w \in Workers, Confirm(w)
       PROVE  UNCHANGED <<emittedAt, ledger>> /\ Closed \subseteq Closed'
  BY <1>5, <1>11 DEF Confirm
<1>12. CASE Crash \/ Shutdown \/ ReloadCheckpoint \/ Exit \/ ForceExit \/ Start
  BY <1>3, <1>12 DEF Crash, Shutdown, ReloadCheckpoint, Exit, ForceExit, Start, LoseMemory,
                     chainVars
<1> QED BY <1>1, <1>2, <1>3, <1>4, <1>6, <1>7, <1>8, <1>9, <1>10, <1>11, <1>12 DEF Next

\* A step changes the sequence number of the account and the count of
\* inclusions only by including a transaction in flight.
LEMMA InclusionSteps ==
    ASSUME TypeOK, [Next]_vars
    PROVE  UNCHANGED <<chainSeq, included>> \/ \E tx \in InFlight : Include(tx.request, tx.seq)
<1>1. CASE \/ \E new \in SUBSET (Requests \ Emitted) : CloseLedger(new)
           \/ \E r \in Requests : Withdraw(r)
           \/ \E tx \in orphans : Expire(tx)
  BY <1>1 DEF CloseLedger, Withdraw, Expire
<1>2. ASSUME NEW tx \in orphans, LateInclusion(tx)
      PROVE  \E t \in InFlight : Include(t.request, t.seq)
  BY <1>2 DEF LateInclusion, InFlight
<1>3. CASE UNCHANGED vars \/ PollStart \/ PollFails \/ PollResponse \/ SaveCheckpoint
           \/ ProcessQueue
  BY <1>3 DEF vars, PollStart, PollFails, PollResponse, SaveCheckpoint, ProcessQueue,
              chainVars
<1>4. ASSUME NEW w \in Workers, NEW r \in Requests, ProcessJob(w, r)
      PROVE  UNCHANGED <<chainSeq, included>>
  BY <1>4 DEF ProcessJob, chainVars
<1>5. ASSUME NEW w \in Workers, CallFails(w) \/ SubmitOnce(w) \/ Timeout(w)
      PROVE  UNCHANGED <<chainSeq, included>>
  BY <1>5 DEF CallFails, SubmitOnce, Timeout, chainVars
<1>6. ASSUME NEW w \in Workers, Confirm(w)
      PROVE  \E t \in InFlight : Include(t.request, t.seq)
  <2> DEFINE t == [request |-> work[w].request, seq |-> work[w].seq]
  <2>1. t \in SentTx
    BY <1>6 DEF Confirm, SentTx
  <2>2. Include(t.request, t.seq)
    BY <1>6 DEF Confirm
  <2> QED BY <2>1, <2>2 DEF InFlight
<1>7. CASE Crash \/ Shutdown \/ ReloadCheckpoint \/ Exit \/ ForceExit \/ Start
  BY <1>7 DEF Crash, Shutdown, ReloadCheckpoint, Exit, ForceExit, Start, LoseMemory,
              chainVars
<1> QED BY <1>1, <1>2, <1>3, <1>4, <1>5, <1>6, <1>7 DEF Next

\* A job comes from the events of a poll, and a transaction is sent for a job
\* whose raffle accepts an answer, with the number the account has now.
SendsNow(tx) ==
    /\ tx.request \in InWork
    /\ Accepts(tx.request)
    /\ tx.seq = chainSeq
    /\ UNCHANGED <<chainSeq, included>>

Sources == Jobs' \subseteq Jobs \cup Emitted /\ \A tx \in InFlight' : tx \in InFlight \/ SendsNow(tx)

LEMMA SameWork ==
    ASSUME UNCHANGED work
    PROVE  InWork' = InWork /\ SentTx' = SentTx
  BY DEF InWork, SentTx

LEMMA ProcessSources ==
    ASSUME TypeOK, NEW w \in Workers, NEW r \in Requests, ProcessJob(w, r)
    PROVE  Sources
<1>1. batch \in [Workers -> SUBSET Requests]
  BY DEF TypeOK
<1>2. \A u \in Workers : batch'[u] \subseteq batch[u]
  BY <1>1 DEF ProcessJob
<1>3. r \in Jobs
  BY DEF ProcessJob, Jobs
<1>4. orphans' = orphans /\ queue' = queue
  BY DEF ProcessJob, chainVars
<1>5. \A q \in InWork' : q \in InWork \cup {r}
  <2>1. CASE UNCHANGED work
    BY <2>1, SameWork
  <2>2. CASE work' = [work EXCEPT ![w] = Ready(r, 0)]
    <3>1. Ready(r, 0).request = r
      BY DEF Ready
    <3> QED BY <2>2, <3>1, WorkChange
  <2> QED BY <2>1, <2>2 DEF ProcessJob
<1>6. SentTx' \subseteq SentTx
  <2>1. CASE UNCHANGED work
    BY <2>1, SameWork
  <2>2. CASE work' = [work EXCEPT ![w] = Ready(r, 0)]
    <3>1. Ready(r, 0).phase # "sent"
      BY DEF Ready
    <3> QED BY <2>2, <3>1, WorkChange
  <2> QED BY <2>1, <2>2 DEF ProcessJob
<1>7. Jobs' \subseteq Jobs
  <2> SUFFICES ASSUME NEW q \in Jobs' PROVE q \in Jobs
    OBVIOUS
  <2>1. CASE q \in queue'
    BY <1>4, <2>1 DEF Jobs
  <2>2. CASE \E u \in Workers : q \in batch'[u]
    BY <1>2, <2>2 DEF Jobs
  <2>3. CASE q \in InWork'
    BY <1>3, <1>5, <2>3 DEF Jobs
  <2> QED BY <2>1, <2>2, <2>3 DEF Jobs
<1> QED BY <1>4, <1>6, <1>7 DEF Sources, InFlight

LEMMA SubmitSources ==
    ASSUME TypeOK, NEW w \in Workers,
           CallFails(w) \/ SubmitOnce(w) \/ Confirm(w) \/ Timeout(w)
    PROVE  Sources
<1>0. UNCHANGED <<queue, batch>>
  BY DEF CallFails, SubmitOnce, Confirm, Timeout
<1>1. ASSUME InWork' \subseteq InWork
      PROVE  Jobs' \subseteq Jobs
  BY <1>0, <1>1 DEF Jobs
<1>2. CASE CallFails(w) \/ Confirm(w)
  <2>1. InWork' \subseteq InWork /\ SentTx' \subseteq SentTx
    BY <1>2, AttemptEnds, JobCauses DEF CallFails, Confirm
  <2>2. orphans' = orphans
    BY <1>2 DEF CallFails, Confirm, chainVars
  <2> QED BY <1>1, <2>1, <2>2 DEF Sources, InFlight
<1>3. CASE Timeout(w)
  <2>1. InWork' \subseteq InWork /\ SentTx' \subseteq SentTx
    BY <1>3, AttemptEnds DEF Timeout
  <2>2. [request |-> work[w].request, seq |-> work[w].seq] \in SentTx
    BY <1>3 DEF Timeout, SentTx
  <2>3. InFlight' \subseteq InFlight
    BY <1>3, <2>1, <2>2 DEF Timeout, InFlight
  <2> QED BY <1>1, <2>1, <2>3 DEF Sources
<1>4. CASE SubmitOnce(w)
  <2>1. orphans' = orphans /\ UNCHANGED <<chainSeq, included>> /\ work[w].phase = "ready"
    BY <1>4 DEF SubmitOnce, chainVars
  <2>2. CASE \E why \in Causes : Throw(w, why)
    <3>1. InWork' \subseteq InWork /\ SentTx' \subseteq SentTx
      BY <2>1, <2>2, AttemptEnds
    <3> QED BY <1>1, <2>1, <3>1 DEF Sources, InFlight
  <2>3. CASE ~\E why \in Causes : Throw(w, why)
    <3> DEFINE r == work[w].request
    <3> DEFINE v == Sent(r, work[w].attempt, Sequence)
    <3>1. work' = [work EXCEPT ![w] = v] /\ Accepts(r) /\ Sequence = chainSeq
      BY <1>4, <2>3, JobCauses DEF SubmitOnce, Simulated
    <3>2. v # Idle => v.request = r
      BY DEF Sent
    <3>3. v.request = r /\ v.seq = chainSeq
      BY <3>1 DEF Sent
    <3>4. r \in InWork
      <4>1. work[w] # Idle
        BY <2>1 DEF Idle
      <4> QED BY <4>1 DEF InWork
    <3> HIDE DEF r, v
    <3>5. InWork' \subseteq InWork
      BY <3>1, <3>2, <3>4, WorkChange
    <3>6. \A tx \in SentTx' : tx \in SentTx \/ tx = [request |-> r, seq |-> chainSeq]
      BY <3>1, <3>3, WorkChange
    <3>7. SendsNow([request |-> r, seq |-> chainSeq])
      BY <2>1, <3>1, <3>4 DEF SendsNow
    <3>8. \A tx \in InFlight' : tx \in InFlight \/ SendsNow(tx)
      BY <2>1, <3>6, <3>7 DEF InFlight
    <3> QED BY <1>1, <3>5, <3>8 DEF Sources
  <2> QED BY <2>2, <2>3
<1> QED BY <1>2, <1>3, <1>4

LEMMA StopSources ==
    ASSUME TypeOK, Crash \/ Shutdown \/ ReloadCheckpoint \/ Exit \/ ForceExit \/ Start
    PROVE  Sources
<1>1. ASSUME NEW saved, LoseMemory(saved)
      PROVE  Sources
  <2>1. \A w \in Workers : work'[w] = Idle /\ batch'[w] = {}
    BY <1>1 DEF LoseMemory
  <2>2. queue' = {} /\ orphans' = orphans \cup SentTx
    BY <1>1 DEF LoseMemory, SentTx
  <2>3. Jobs' = {} /\ SentTx' = {}
    BY <2>1, <2>2 DEF Jobs, InWork, SentTx, Idle
  <2> QED BY <2>2, <2>3 DEF Sources, InFlight
<1>2. CASE Crash \/ Exit \/ ForceExit
  BY <1>1, <1>2 DEF Crash, Exit, ForceExit
<1>3. CASE Shutdown
  <2>1. UNCHANGED work /\ orphans' = orphans /\ queue' = {}
    BY <1>3 DEF Shutdown, chainVars
  <2>2. \A w \in Workers : batch'[w] \subseteq batch[w] \cup queue
    <3>1. batch \in [Workers -> SUBSET Requests]
      BY DEF TypeOK
    <3> QED BY <1>3, <3>1 DEF Shutdown
  <2>3. Jobs' \subseteq Jobs
    BY <2>1, <2>2, SameWork DEF Jobs
  <2> QED BY <2>1, <2>3, SameWork DEF Sources, InFlight
<1>4. CASE ReloadCheckpoint \/ Start
  <2>1. UNCHANGED <<work, batch, queue, orphans>>
    BY <1>4 DEF ReloadCheckpoint, Start, jobVars, chainVars
  <2> QED BY <2>1, SameWork DEF Sources, InFlight, Jobs
<1> QED BY <1>2, <1>3, <1>4

LEMMA NextSources ==
    ASSUME TypeOK, [Next]_vars
    PROVE  Sources
<1>1. ASSUME UNCHANGED <<work, batch>>, orphans' \subseteq orphans, queue' \subseteq queue \cup Emitted
      PROVE  Sources
  BY <1>1, SameWork DEF Sources, InFlight, Jobs
<1>2. CASE \/ \E new \in SUBSET (Requests \ Emitted) : CloseLedger(new)
           \/ \E r \in Requests : Withdraw(r)
           \/ \E tx \in orphans : LateInclusion(tx) \/ Expire(tx)
  BY <1>1, <1>2 DEF CloseLedger, Withdraw, LateInclusion, Expire, jobVars
<1>3. CASE UNCHANGED vars \/ PollStart \/ PollFails \/ SaveCheckpoint
  BY <1>1, <1>3 DEF vars, PollStart, PollFails, SaveCheckpoint, jobVars, chainVars
<1>4. CASE PollResponse
  <2>1. queue' \subseteq queue \cup Emitted
    BY <1>4 DEF PollResponse, Visible
  <2> QED BY <1>1, <1>4, <2>1 DEF PollResponse, chainVars
<1>5. CASE ProcessQueue
  <2>1. UNCHANGED work /\ orphans' = orphans /\ queue' = {}
    BY <1>5 DEF ProcessQueue, chainVars
  <2>2. \A w \in Workers : batch'[w] \subseteq batch[w] \cup queue
    <3>1. batch \in [Workers -> SUBSET Requests]
      BY DEF TypeOK
    <3> QED BY <1>5, <3>1 DEF ProcessQueue
  <2>3. Jobs' \subseteq Jobs
    BY <2>1, <2>2, SameWork DEF Jobs
  <2> QED BY <2>1, <2>3, SameWork DEF Sources, InFlight
<1> QED BY <1>2, <1>3, <1>4, <1>5, ProcessSources, SubmitSources, StopSources DEF Next

LEMMA FlightNext == TypeOK /\ FlightInv /\ [Next]_vars => FlightInv'
<1> SUFFICES ASSUME TypeOK, FlightInv, [Next]_vars PROVE FlightInv'
  OBVIOUS
<1> USE DEF FlightInv
<1>c. /\ \A r \in Emitted : r \in Emitted' /\ emittedAt'[r] = emittedAt[r]
      /\ ledger' >= ledger
      /\ Closed \subseteq Closed'
  BY ChainGrows
<1>s. Jobs' \subseteq Jobs \cup Emitted /\ \A tx \in InFlight' : tx \in InFlight \/ SendsNow(tx)
  BY NextSources DEF Sources
<1>t. /\ ledger \in Nat /\ ledger' \in Nat /\ chainSeq \in Nat /\ chainSeq' \in Nat
      /\ MinDelay \in Nat
      /\ \A r \in Emitted : emittedAt[r] \in Nat
      /\ \A tx \in InFlight : tx.request \in Requests /\ tx.seq \in Nat
      /\ included \in [Requests -> Nat]
  <2>1. TypeOK'
    BY TypeNext
  <2>2. MinDelay \in Nat /\ MaxLedger \in Nat
    BY OracleAssumption
  <2>3. ledger \in Nat /\ ledger' \in Nat /\ chainSeq \in Nat /\ chainSeq' \in Nat
    BY <2>1, <2>2 DEF TypeOK
  <2>4. \A r \in Emitted : emittedAt[r] \in Nat
    BY DEF TypeOK, Emitted
  <2>5. \A tx \in orphans : tx.request \in Requests /\ tx.seq \in Nat
    BY DEF TypeOK, Tx
  <2>6. \A tx \in SentTx : tx.request \in Requests /\ tx.seq \in Nat
    BY WorkFields, TypeParts DEF SentTx
  <2> QED BY <2>2, <2>3, <2>4, <2>5, <2>6 DEF InFlight, TypeOK
<1>q. chainSeq' >= chainSeq
  BY <1>t, InclusionSteps DEF Include
<1>1. JobsEmitted'
  BY <1>c, <1>s DEF JobsEmitted
<1>w. \A tx \in InFlight' :
         /\ tx.request \in Emitted
         /\ ledger >= emittedAt[tx.request] + MinDelay
         /\ tx.seq <= chainSeq
  <2>1. ASSUME NEW tx, SendsNow(tx)
        PROVE  /\ tx.request \in Emitted
               /\ ledger >= emittedAt[tx.request] + MinDelay
               /\ tx.seq <= chainSeq
    <3>1. tx.request \in Emitted
      BY <2>1 DEF SendsNow, JobsEmitted, Jobs
    <3>2. ledger >= emittedAt[tx.request] + MinDelay
      BY <1>t, <2>1, <3>1 DEF SendsNow, Accepts, Early
    <3>3. tx.seq <= chainSeq
      BY <1>t, <2>1 DEF SendsNow
    <3> QED BY <3>1, <3>2, <3>3
  <2> QED BY <1>s, <2>1 DEF FlightsPlausible
<1>2. FlightsPlausible'
  <2> SUFFICES ASSUME NEW tx \in InFlight'
               PROVE  /\ tx.request \in Emitted'
                      /\ ledger' >= emittedAt'[tx.request] + MinDelay
                      /\ tx.seq <= chainSeq'
    BY DEF FlightsPlausible
  <2>1. tx.request \in Emitted /\ ledger >= emittedAt[tx.request] + MinDelay /\ tx.seq <= chainSeq
    BY <1>w
  <2>2. tx.request \in Emitted' /\ emittedAt'[tx.request] = emittedAt[tx.request]
        /\ emittedAt[tx.request] \in Nat
    BY <1>c, <1>t, <2>1
  <2>3. tx.seq \in Nat
    BY <1>s, <1>t DEF SendsNow
  <2>4. ledger' >= emittedAt[tx.request] + MinDelay /\ tx.seq <= chainSeq'
    BY <1>c, <1>q, <1>t, <2>1, <2>2, <2>3
  <2> QED BY <2>2, <2>4
<1>3. InclusionCloses'
  <2> SUFFICES ASSUME NEW r \in Requests
               PROVE  /\ included'[r] <= 1
                      /\ included'[r] = 1 =>
                            /\ r \in Closed'
                            /\ \A tx \in InFlight' : tx.request = r => tx.seq < chainSeq'
    BY DEF InclusionCloses
  <2>0. /\ included[r] <= 1
        /\ included[r] = 1 => /\ r \in Closed
                              /\ \A tx \in InFlight : tx.request = r => tx.seq < chainSeq
    BY DEF InclusionCloses
  <2>1. CASE UNCHANGED <<chainSeq, included>>
    <3> SUFFICES ASSUME included[r] = 1, NEW tx \in InFlight', tx.request = r
                 PROVE  tx.seq < chainSeq
      BY <1>c, <2>0, <2>1
    <3>1. ~SendsNow(tx)
      BY <2>0 DEF SendsNow, Accepts, Closed
    <3> QED BY <1>s, <2>0, <3>1
  <2>2. ASSUME NEW t \in InFlight, Include(t.request, t.seq)
        PROVE  /\ included'[r] <= 1
               /\ included'[r] = 1 =>
                     /\ r \in Closed'
                     /\ \A tx \in InFlight' : tx.request = r => tx.seq < chainSeq'
    <3>1. t.seq = chainSeq /\ chainSeq' = chainSeq + 1
      BY <2>2 DEF Include
    <3>2. \A tx \in InFlight' : tx.seq < chainSeq'
      <4> SUFFICES ASSUME NEW tx \in InFlight' PROVE tx.seq < chainSeq'
        OBVIOUS
      <4>1. tx.seq <= chainSeq /\ tx.seq \in Nat
        BY <1>s, <1>t, <1>w DEF SendsNow
      <4> QED BY <1>t, <3>1, <4>1
    <3>3. CASE r # t.request
      <4>1. included'[r] = included[r]
        BY <1>t, <2>2, <3>3 DEF Include
      <4> QED BY <1>c, <2>0, <3>2, <4>1
    <3>4. CASE r = t.request
      <4>1. included[r] = 0
        <5>1. included[r] # 1
          BY <1>t, <2>0, <3>1, <3>4
        <5> QED BY <1>t, <2>0, <5>1
      <4>2. included'[r] = 1
        BY <1>t, <2>2, <3>4, <4>1 DEF Include
      <4>3. r \in Closed'
        <5>1. ledger >= emittedAt[r] + MinDelay
          BY <3>4 DEF FlightsPlausible
        <5>2. CASE Accepts(r)
          BY <2>2, <3>4, <5>2 DEF Include, Closed
        <5>3. CASE ~Accepts(r)
          <6>1. emittedAt[r] \in Nat
            BY <1>t, <3>4 DEF FlightsPlausible
          <6>2. ~Early(r)
            BY <1>t, <5>1, <6>1 DEF Early
          <6> QED BY <1>c, <5>3, <6>2 DEF Accepts, Closed
        <5> QED BY <5>2, <5>3
      <4> QED BY <3>2, <4>2, <4>3
    <3> QED BY <3>3, <3>4
  <2> QED BY <2>1, <2>2, InclusionSteps
<1> QED BY <1>1, <1>2, <1>3

\* Through timeouts, repeated submissions, crashes with transactions in flight
\* and late inclusions, at most one transaction of a request is ever included:
\* transactions in flight for it share the account's sequence number, and after
\* an inclusion the raffle is closed, so that no simulation succeeds again.
THEOREM IncludedOnce == Spec => []OneInclusion
<1>1. FlightInv => OneInclusion
  BY DEF FlightInv, InclusionCloses, OneInclusion
<1> QED BY <1>1, FlightInit, FlightNext, OracleTypeCorrect, PTL DEF Spec

-----------------------------------------------------------------------------
(* Jobs that fail.                                                          *)

\* No call failed, the process was not stopped and no raffle was withdrawn.
Calm == faults = 0 /\ stops = 0 /\ withdrawn = {}

\* Until then the loop alone works, the number the submitter keeps is the account's,
\* and the transaction it waits for is the next one, of a raffle still to be answered.
Undisturbed ==
    /\ proc = "up"
    /\ orphans = {}
    /\ batch["drain"] = {} /\ work["drain"] = Idle
    /\ seqCache \in {None, chainSeq}
    /\ work["loop"].phase = "sent" =>
          work["loop"].seq = chainSeq /\ work["loop"].request \notin answered

CalmInv == Calm => Undisturbed

LEMMA CalmBefore ==
    ASSUME TypeOK, [Next]_vars
    PROVE  (Calm' => Calm) /\ answered \subseteq answered'
<1>0. faults \in Nat /\ stops \in Nat
  BY OracleAssumption DEF TypeOK
<1>1. CASE \/ \E new \in SUBSET (Requests \ Emitted) : CloseLedger(new)
           \/ \E r \in Requests : Withdraw(r)
           \/ \E tx \in orphans : LateInclusion(tx) \/ Expire(tx)
  BY <1>1 DEF CloseLedger, Withdraw, LateInclusion, Include, Expire, Calm
<1>2. CASE UNCHANGED vars \/ PollStart \/ PollFails \/ PollResponse \/ SaveCheckpoint
           \/ ProcessQueue
  BY <1>2 DEF vars, PollStart, PollFails, PollResponse, SaveCheckpoint, ProcessQueue,
              chainVars, Calm
<1>3. ASSUME NEW w \in Workers, NEW r \in Requests, ProcessJob(w, r)
      PROVE  (Calm' => Calm) /\ answered \subseteq answered'
  BY <1>3 DEF ProcessJob, chainVars, Calm
<1>4. ASSUME NEW w \in Workers, CallFails(w) \/ SubmitOnce(w) \/ Confirm(w) \/ Timeout(w)
      PROVE  (Calm' => Calm) /\ answered \subseteq answered'
  BY <1>0, <1>4 DEF CallFails, SubmitOnce, Confirm, Include, Timeout, chainVars, Calm
<1>5. CASE Crash \/ Shutdown \/ ReloadCheckpoint \/ Exit \/ ForceExit \/ Start
  BY <1>0, <1>5 DEF Crash, Shutdown, ReloadCheckpoint, Exit, ForceExit, Start, LoseMemory,
                    chainVars, Calm
<1> QED BY <1>1, <1>2, <1>3, <1>4, <1>5 DEF Next

\* The steps of an undisturbed process that is not disturbed by them.
LEMMA CalmSteps ==
    ASSUME TypeOK, [Next]_vars, Undisturbed, Calm'
    PROVE  \/ /\ UNCHANGED <<proc, orphans, batch["drain"], work, seqCache, chainSeq, answered>>
              /\ \A l \in losses' : l \in losses \/ l.why # "failed"
           \/ \E r \in Requests : ProcessJob("loop", r)
           \/ SubmitOnce("loop")
           \/ Confirm("loop")
<1>0. /\ faults \in Nat /\ stops \in Nat /\ faults' = 0 /\ stops' = 0 /\ withdrawn' = {}
      /\ batch \in [Workers -> SUBSET Requests]
  BY OracleAssumption DEF TypeOK, Calm
<1> DEFINE Quiet == /\ UNCHANGED <<proc, orphans, batch["drain"], work, seqCache, chainSeq, answered>>
                    /\ \A l \in losses' : l \in losses \/ l.why # "failed"
<1>1. ASSUME NEW new \in SUBSET (Requests \ Emitted), CloseLedger(new)
      PROVE  Quiet
  BY <1>1 DEF CloseLedger, jobVars
<1>2. ASSUME NEW r \in Requests, Withdraw(r)
      PROVE  FALSE
  BY <1>0, <1>2 DEF Withdraw
<1>3. ~\E tx \in orphans : LateInclusion(tx) \/ Expire(tx)
  BY DEF Undisturbed
<1>4. CASE UNCHANGED vars \/ PollStart \/ PollFails \/ SaveCheckpoint
  BY <1>4 DEF vars, PollStart, PollFails, SaveCheckpoint, chainVars, jobVars
<1>5. CASE PollResponse
  <2>1. \A l \in losses' : l \in losses \/ l.why # "failed"
    BY <1>5 DEF PollResponse, Loss
  <2> QED BY <1>5, <2>1 DEF PollResponse, chainVars
<1>6. CASE ProcessQueue
  BY <1>0, <1>6 DEF ProcessQueue, chainVars, Workers
<1>7. ASSUME NEW r \in Requests
      PROVE  ~ProcessJob("drain", r)
  BY DEF Undisturbed, ProcessJob
<1>8. ~SubmitOnce("drain") /\ ~Confirm("drain")
  BY DEF Undisturbed, SubmitOnce, Confirm, Idle
<1>9. ASSUME NEW w \in Workers
      PROVE  ~CallFails(w)
  BY <1>0 DEF CallFails
<1>10. ASSUME NEW w \in Workers, Timeout(w)
       PROVE  FALSE
  <2>1. CASE w = "drain"
    BY <1>10, <2>1 DEF Undisturbed, Timeout, Idle
  <2>2. CASE w = "loop"
    BY <1>0, <1>10, <2>2 DEF Undisturbed, Timeout
  <2> QED BY <2>1, <2>2 DEF Workers
<1>11. ~(Crash \/ Shutdown \/ ReloadCheckpoint \/ Exit \/ ForceExit \/ Start)
  BY <1>0 DEF Undisturbed, Crash, Shutdown, ReloadCheckpoint, Exit, ForceExit, Start, Running
<1>12. Workers = {"loop", "drain"}
  BY DEF Workers
<1> HIDE DEF Quiet
<1>13. CASE Next
  BY <1>1, <1>2, <1>3, <1>4, <1>5, <1>6, <1>7, <1>8, <1>9, <1>10, <1>11, <1>12, <1>13
     DEF Next, Quiet
<1> QED BY <1>4, <1>13 DEF Quiet

LEMMA CalmInit == Init => CalmInv /\ FailuresProvoked
  BY DEF Init, CalmInv, Undisturbed, Workers, Idle, FailuresProvoked

LEMMA CalmNext ==
    ASSUME TypeOK, FlightInv, CalmInv, FailuresProvoked, [Next]_vars
    PROVE  CalmInv' /\ FailuresProvoked'
<1> DEFINE Excused == \A l \in losses' : l.why = "failed" => l.request \in answered'
<1>1. ASSUME Calm', Undisturbed' /\ Excused
      PROVE  CalmInv' /\ FailuresProvoked'
  BY <1>1 DEF CalmInv, FailuresProvoked
<1>2. ASSUME ~Calm'
      PROVE  CalmInv' /\ FailuresProvoked'
  <2>1. TypeOK'
    BY TypeNext
  <2>2. faults' \in Nat /\ stops' \in Nat
    BY <2>1, OracleAssumption DEF TypeOK
  <2>3. faults' > 0 \/ stops' > 0 \/ withdrawn' # {}
    BY <1>2, <2>2 DEF Calm
  <2> QED BY <1>2, <2>3 DEF CalmInv, FailuresProvoked
<1> SUFFICES ASSUME Calm' PROVE Undisturbed' /\ Excused
  BY <1>1, <1>2
<1>3. Calm /\ Undisturbed /\ answered \subseteq answered'
  BY CalmBefore DEF CalmInv
<1>4. \A l \in losses : l.why = "failed" => l.request \in answered
  BY <1>3, OracleAssumption DEF FailuresProvoked, Calm
<1>5. /\ work \in [Workers -> WorkType] /\ batch \in [Workers -> SUBSET Requests]
      /\ chainSeq \in Nat /\ "loop" \in Workers /\ "drain" \in Workers
  BY DEF TypeOK, Workers
<1>6. CASE /\ UNCHANGED <<proc, orphans, batch["drain"], work, seqCache, chainSeq, answered>>
           /\ \A l \in losses' : l \in losses \/ l.why # "failed"
  BY <1>3, <1>4, <1>6 DEF Undisturbed
<1>7. ASSUME NEW r \in Requests, ProcessJob("loop", r)
      PROVE  Undisturbed' /\ Excused
  <2>1. /\ UNCHANGED <<proc, orphans, seqCache, chainSeq, answered, losses>>
        /\ batch'["drain"] = batch["drain"] /\ work'["drain"] = work["drain"]
    BY <1>5, <1>7 DEF ProcessJob, chainVars
  <2>2. work'["loop"] = work["loop"] \/ work'["loop"].phase # "sent"
    BY <1>5, <1>7 DEF ProcessJob, Ready
  <2> QED BY <1>3, <1>4, <2>1, <2>2 DEF Undisturbed
<1>8. CASE SubmitOnce("loop")
  <2> DEFINE r == work["loop"].request
  <2>1. /\ UNCHANGED <<proc, orphans, seqCache, chainSeq, answered, batch>>
        /\ work'["drain"] = work["drain"] /\ Sequence = chainSeq
    BY <1>3, <1>5, <1>8 DEF SubmitOnce, Throw, chainVars, Sequence, Undisturbed
  <2>2. work'["loop"].phase = "sent" =>
           work'["loop"].seq = chainSeq /\ work'["loop"].request \notin answered
    BY <1>5, <1>8, <2>1 DEF SubmitOnce, Simulated, Accepts, Throw, Sent, Idle
  <2>3. Undisturbed'
    BY <1>3, <2>1, <2>2 DEF Undisturbed
  <2>4. Excused
    <3>1. CASE UNCHANGED losses
      BY <1>4, <2>1, <3>1
    <3>2. CASE Throw("loop", "early")
      BY <1>4, <2>1, <3>2 DEF Throw, Loss
    <3>3. CASE ~Accepts(r) /\ ~Early(r) /\ Throw("loop", "failed")
      <4>1. r \in answered
        BY <1>3, <3>3 DEF Accepts, Calm
      <4> QED BY <1>4, <2>1, <3>3, <4>1 DEF Throw, Loss
    <3> QED BY <1>8, <2>1, <3>1, <3>2, <3>3 DEF SubmitOnce, Simulated, Accepts
  <2> QED BY <2>3, <2>4
<1>9. CASE Confirm("loop")
  <2> DEFINE r == work["loop"].request
  <2>1. /\ UNCHANGED <<proc, orphans, batch>> /\ work'["drain"] = work["drain"]
        /\ work'["loop"] = Idle /\ chainSeq' = chainSeq + 1 /\ work["loop"].seq = chainSeq
    BY <1>3, <1>5, <1>9 DEF Confirm, Include, Throw, Undisturbed
  <2>2. ~Early(r)
    <3>1. [request |-> r, seq |-> work["loop"].seq] \in InFlight
      BY <1>5, <1>9 DEF Confirm, SentTx, InFlight
    <3>2. r \in Emitted /\ ledger >= emittedAt[r] + MinDelay
      BY <3>1 DEF FlightInv, FlightsPlausible
    <3>3. emittedAt[r] \in Nat /\ ledger \in Nat /\ MinDelay \in Nat
      BY <3>2, OracleAssumption DEF TypeOK, Emitted
    <3> QED BY <3>2, <3>3 DEF Early
  <2>3. CASE Accepts(r)
    <3>1. seqCache' = chainSeq' /\ UNCHANGED losses
      BY <1>9, <2>1, <2>3 DEF Confirm, Advanced
    <3>2. Undisturbed'
      BY <1>3, <2>1, <3>1 DEF Undisturbed, Idle
    <3> QED BY <1>3, <1>4, <3>1, <3>2
  <2>4. Accepts(r)
    BY <1>3, <1>9, <2>2 DEF Confirm, Undisturbed, Accepts, Calm
  <2> QED BY <2>3, <2>4
<1> QED BY <1>3, <1>6, <1>7, <1>8, <1>9, CalmSteps

\* Until a call fails, the process is stopped or a raffle is withdrawn, no job of the
\* oracle fails for good, whatever number of requests it works through: the sequence
\* number the submitter keeps is the account's, and what was simulated is included.
THEOREM OnlyProvokedFailures == Spec => []FailuresProvoked
<1>1. TypeOK /\ FlightInv /\ (CalmInv /\ FailuresProvoked) /\ [Next]_vars => (CalmInv /\ FailuresProvoked)'
  BY CalmNext
<1>2. Spec => []FlightInv
  BY FlightInit, FlightNext, OracleTypeCorrect, PTL DEF Spec
<1> QED BY <1>1, <1>2, CalmInit, OracleTypeCorrect, PTL DEF Spec

=============================================================================
