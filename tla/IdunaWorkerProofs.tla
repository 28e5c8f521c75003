------------------------- MODULE IdunaWorkerProofs -------------------------
(***************************************************************************)
(* What holds of the worker and its queues for every queue length and any  *)
(* number of connections, players, sessions and matches: types, wake-ups,  *)
(* the service of JobService, and that a report is sent once and not       *)
(* dropped by a stop.                                                      *)
(***************************************************************************)
EXTENDS IdunaWorker, FiniteSetTheorems, SequenceTheorems, TLAPS

-----------------------------------------------------------------------------
(***************************************************************************)
(* The ring.                                                               *)
(***************************************************************************)

LEMMA Around ==
    ASSUME NEW a \in Nat, a < 2 * JQ
    PROVE  /\ a < JQ => a % JQ = a
           /\ ~(a < JQ) => a % JQ = a - JQ
BY QueueLength

LEMMA SlotIsIndex ==
    ASSUME jq_head \in 0 .. JQ - 1, NEW i \in 0 .. JQ - 1
    PROVE  /\ jq_head + i < JQ => Slot(i) = jq_head + i
           /\ ~(jq_head + i < JQ) => Slot(i) = jq_head + i - JQ
           /\ Slot(i) \in 0 .. JQ - 1
<1>1. jq_head + i \in Nat /\ jq_head + i < 2 * JQ
  BY QueueLength
<1>2. /\ jq_head + i < JQ => Slot(i) = jq_head + i
      /\ ~(jq_head + i < JQ) => Slot(i) = jq_head + i - JQ
  BY <1>1, QueueLength, Around DEF Slot
<1>3. CASE jq_head + i < JQ
  BY <1>2, <1>3, QueueLength
<1>4. CASE ~(jq_head + i < JQ)
  BY <1>2, <1>4, QueueLength
<1>5. QED
  BY <1>2, <1>3, <1>4

\* Different places of the ring are different slots.
LEMMA SlotsDiffer ==
    ASSUME jq_head \in 0 .. JQ - 1, NEW i \in 0 .. JQ - 1, NEW k \in 0 .. JQ - 1, Slot(i) = Slot(k)
    PROVE  i = k
<1> DEFINE a == jq_head + i
           b == jq_head + k
<1>1. a \in Nat /\ b \in Nat /\ a - b = i - k /\ a - b < JQ /\ b - a < JQ
  BY QueueLength
<1>2. /\ a < JQ => Slot(i) = a
      /\ ~(a < JQ) => Slot(i) = a - JQ
      /\ b < JQ => Slot(k) = b
      /\ ~(b < JQ) => Slot(k) = b - JQ
  BY QueueLength, SlotIsIndex
<1> HIDE DEF a, b
<1>3. a = b
  BY <1>1, <1>2, QueueLength
<1>4. QED
  BY <1>1, <1>3

\* The ring as a sequence.
LEMMA QueuedIs ==
    ASSUME RingOK
    PROVE  /\ Queued \in Seq(Jobs) /\ Len(Queued) = jq_n
           /\ \A i \in 1 .. jq_n : i - 1 \in 0 .. JQ - 1 /\ Queued[i] = jq[Slot(i - 1)]
<1>1. jq_n \in Nat /\ jq_n <= JQ
  BY QueueLength DEF RingOK
<1>2. \A i \in 1 .. jq_n : i - 1 \in 0 .. jq_n - 1 /\ i - 1 \in 0 .. JQ - 1
  BY <1>1, QueueLength
<1>3. \A i \in 1 .. jq_n : jq[Slot(i - 1)] \in Jobs
  BY <1>2 DEF RingOK
<1>4. QED
  BY <1>1, <1>2, <1>3 DEF Queued

\* What a job put into the ring changes: the slot behind the last one.
LEMMA PutInRing ==
    ASSUME RingOK, jq_n < JQ, NEW j \in Jobs,
           jq' = [jq EXCEPT ![Slot(jq_n)] = j], jq_n' = jq_n + 1, jq_head' = jq_head
    PROVE  /\ RingOK'
           /\ \A i \in 0 .. jq_n - 1 : jq'[Slot(i)'] = jq[Slot(i)]
           /\ \A i \in {jq_n} : jq'[Slot(i)'] = j
<1>1. jq_n \in 0 .. JQ - 1 /\ jq_head \in 0 .. JQ - 1 /\ jq \in [0 .. JQ - 1 -> Jobs \cup {None}]
  BY QueueLength DEF RingOK
<1>2. Slot(jq_n) \in 0 .. JQ - 1
  BY <1>1, QueueLength, SlotIsIndex
<1>3. \A i : (jq_head' + i) % JQ = (jq_head + i) % JQ
  OBVIOUS
<1>4. jq' \in [0 .. JQ - 1 -> Jobs \cup {None}] /\ jq_n' \in 0 .. JQ /\ jq_head' \in 0 .. JQ - 1
  BY <1>1, <1>2, QueueLength
<1>5. (jq_head' + jq_n) % JQ = Slot(jq_n)
  BY DEF Slot
<1>6. jq'[(jq_head' + jq_n) % JQ] = j
  BY <1>1, <1>2, <1>5
<1>7. ASSUME NEW i \in 0 .. jq_n - 1
      PROVE  jq'[(jq_head' + i) % JQ] = jq[Slot(i)] /\ jq[Slot(i)] \in Jobs
  <2>1. i \in 0 .. JQ - 1 /\ i # jq_n
    BY <1>1, QueueLength
  <2>2. Slot(i) # Slot(jq_n) /\ Slot(i) \in 0 .. JQ - 1
    BY <1>1, <2>1, QueueLength, SlotsDiffer, SlotIsIndex
  <2>3. (jq_head' + i) % JQ = Slot(i)
    BY DEF Slot
  <2>4. QED
    BY <1>1, <1>2, <2>2, <2>3 DEF RingOK
<1>8. \A i \in 0 .. jq_n' - 1 : i = jq_n \/ i \in 0 .. jq_n - 1
  BY <1>1
<1>9. \A i \in 0 .. jq_n' - 1 : jq'[(jq_head' + i) % JQ] \in Jobs
  BY <1>6, <1>7, <1>8
<1>10. QED
  BY <1>4, <1>6, <1>7, <1>9 DEF RingOK, Slot

\* What the worker's taking a job changes: the others move up.
LEMMA TakeFromRing ==
    ASSUME RingOK, Take
    PROVE  /\ RingOK'
           /\ job' = jq[Slot(0)] /\ job' \in Jobs
           /\ \A i \in 0 .. jq_n' - 1 : jq'[Slot(i)'] = jq[Slot(i + 1)]
<1>1. /\ jq_n \in 1 .. JQ /\ jq_head \in 0 .. JQ - 1 /\ jq \in [0 .. JQ - 1 -> Jobs \cup {None}]
      /\ jq' = [jq EXCEPT ![jq_head] = None] /\ jq_n' = jq_n - 1
      /\ jq_head' = (jq_head + 1) % JQ /\ job' = jq[jq_head]
  BY QueueLength DEF RingOK, Take
<1>2. 0 \in 0 .. JQ - 1 /\ 0 \in 0 .. jq_n - 1
  BY <1>1, QueueLength
<1>3. Slot(0) = jq_head
  BY <1>1, <1>2, QueueLength, SlotIsIndex
<1>4. job' \in Jobs
  BY <1>1, <1>2, <1>3 DEF RingOK
<1>5. /\ jq_head + 1 < JQ => jq_head' = jq_head + 1
      /\ ~(jq_head + 1 < JQ) => jq_head' = 0 /\ jq_head + 1 = JQ
      /\ jq_head' \in 0 .. JQ - 1
  <2>1. jq_head + 1 \in Nat /\ jq_head + 1 < 2 * JQ /\ jq_head + 1 <= JQ
    BY <1>1, QueueLength
  <2>2. CASE jq_head + 1 < JQ
    BY <1>1, <2>1, <2>2, Around, QueueLength
  <2>3. CASE ~(jq_head + 1 < JQ)
    BY <1>1, <2>1, <2>3, Around, QueueLength
  <2>4. QED
    BY <2>2, <2>3
<1>6. ASSUME NEW i \in 0 .. jq_n' - 1
      PROVE  jq'[(jq_head' + i) % JQ] = jq[Slot(i + 1)] /\ jq[Slot(i + 1)] \in Jobs
  <2>1. i \in 0 .. JQ - 1 /\ i + 1 \in 0 .. JQ - 1 /\ i + 1 \in 0 .. jq_n - 1
    BY <1>1, QueueLength
  <2> DEFINE a == jq_head' + i
  <2>2. a \in Nat /\ a < 2 * JQ
    BY <1>1, <1>5, <2>1, QueueLength
  <2> HIDE DEF a
  <2>3. /\ a < JQ => a % JQ = a
        /\ ~(a < JQ) => a % JQ = a - JQ
    BY <2>2, QueueLength, Around
  <2>4. /\ jq_head + (i + 1) < JQ => Slot(i + 1) = jq_head + (i + 1)
        /\ ~(jq_head + (i + 1) < JQ) => Slot(i + 1) = jq_head + (i + 1) - JQ
    BY <1>1, <2>1, QueueLength, SlotIsIndex
  <2>5. (jq_head' + i) % JQ = Slot(i + 1)
    <3>1. CASE jq_head + 1 < JQ
      BY <1>1, <1>5, <2>1, <2>3, <2>4, <3>1, QueueLength DEF a
    <3>2. CASE ~(jq_head + 1 < JQ)
      BY <1>1, <1>5, <2>1, <2>3, <2>4, <3>2, QueueLength DEF a
    <3>3. QED
      BY <3>1, <3>2
  <2>6. Slot(i + 1) # jq_head /\ Slot(i + 1) \in 0 .. JQ - 1
    BY <1>1, <1>2, <1>3, <2>1, QueueLength, SlotsDiffer, SlotIsIndex
  <2>7. QED
    BY <1>1, <2>1, <2>5, <2>6 DEF RingOK
<1>7. jq' \in [0 .. JQ - 1 -> Jobs \cup {None}] /\ jq_n' \in 0 .. JQ
  BY <1>1, QueueLength
<1>8. QED
  BY <1>1, <1>3, <1>4, <1>5, <1>6, <1>7 DEF RingOK, Slot

-----------------------------------------------------------------------------
(***************************************************************************)
(* Types.                                                                  *)
(***************************************************************************)

LEMMA JobKinds ==
    /\ \A j \in Jobs : j # None /\ j.type \in {"verify", "report"}
    /\ \A j \in Jobs : j.type = "verify" => j \in VerifyJobs
    /\ \A j \in Jobs : j.type = "report" => j \in ReportJobs
BY NoneIsNothing DEF Jobs, VerifyJobs, ReportJobs

LEMMA RingKept == RingOK /\ UNCHANGED <<jq, jq_head, jq_n>> => RingOK'
BY DEF RingOK, Slot

LEMMA IdunaKept == IdunaOK /\ UNCHANGED iduna => IdunaOK'
BY DEF IdunaOK, iduna

LEMMA LoopKept == LoopOK /\ UNCHANGED <<loop, rq, pipe, worker_stop, sent>> => LoopOK'
BY DEF LoopOK, Stopped

\* Ratings are numbers: IDUNA has recorded finitely many matches.
LEMMA RatingIsNat ==
    ASSUME NEW results, IsFiniteSet(results), NEW p
    PROVE  RatingOf(p, results) \in Nat
<1>1. IsFiniteSet({r \in results : p \in {r.seats[0], r.seats[1]}})
  BY FS_Subset, {r \in results : p \in {r.seats[0], r.seats[1]}} \subseteq results
<1>2. QED
  BY <1>1, FS_CardinalityType DEF RatingOf

\* The job goes into the ring or is refused; nothing else of it is remembered but reports.
LEMMA EnqueueCases ==
    ASSUME TypeOK, NEW j \in Jobs, Enqueue(j), EnqueueLeaves
    PROVE  /\ RingOK'
           /\ sent' = sent \/ (j \in ReportJobs /\ sent' = sent \cup {j})
           /\ worker' = worker \/ (worker = "asleep" /\ worker' = "run")
<1>1. CASE jq_n < JQ
  <2>1. jq' = [jq EXCEPT ![Slot(jq_n)] = j] /\ jq_n' = jq_n + 1 /\ jq_head' = jq_head
    BY <1>1 DEF Enqueue, EnqueueLeaves
  <2>2. RingOK
    BY DEF TypeOK, WorkerOK, IdunaOK, LoopOK
  <2>3. RingOK'
    BY <1>1, <2>1, <2>2, PutInRing
  <2>4. QED
    BY <1>1, <2>3, JobKinds DEF Enqueue, Signal
<1>2. CASE ~(jq_n < JQ)
  BY <1>2, RingKept DEF Enqueue, EnqueueLeaves, TypeOK, WorkerOK, IdunaOK, LoopOK
<1>3. QED
  BY <1>1, <1>2

LEMMA EnqueueTypes ==
    ASSUME TypeOK, NEW j \in Jobs, Enqueue(j), EnqueueLeaves, UNCHANGED loop
    PROVE  TypeOK'
<1>1. /\ RingOK'
      /\ sent' = sent \/ (j \in ReportJobs /\ sent' = sent \cup {j})
      /\ worker' = worker \/ (worker = "asleep" /\ worker' = "run")
  BY EnqueueCases
<1>2. WorkerOK'
  BY <1>1 DEF TypeOK, EnqueueLeaves, WorkerOK
<1>3. IdunaOK'
  BY IdunaKept DEF TypeOK, EnqueueLeaves
<1>4. LoopOK'
  BY <1>1 DEF TypeOK, EnqueueLeaves, LoopOK, Stopped
<1>5. QED
  BY <1>1, <1>2, <1>3, <1>4 DEF TypeOK

LEMMA VerifyTypes == TypeOK /\ Verify => TypeOK'
<1> SUFFICES ASSUME TypeOK, Verify PROVE TypeOK'
  OBVIOUS
<1>1. job \in VerifyJobs
  BY JobKinds DEF TypeOK, WorkerOK, IdunaOK, LoopOK, Verify
<1>2. \A p : RatingOf(p, recorded) \in Nat
  BY RatingIsNat DEF TypeOK, WorkerOK, IdunaOK, LoopOK
<1>3. answer' \in VerifyAnswers
  <2>1. /\ {job.conn} \subseteq Conns /\ {job.gen} \subseteq Sessions /\ {job.token, None} \subseteq Tokens
    BY <1>1 DEF VerifyJobs, Tokens
  <2>2. {-1} \cup {RatingOf(p, recorded) : p \in {job.token} \ {None}} \subseteq Ratings
    BY <1>2 DEF Ratings
  <2>3. {"ok", "refused"} \cup (IF IdunaFails THEN {"unreachable"} ELSE {}) \subseteq {"ok", "unreachable", "refused"}
    OBVIOUS
  <2>4. QED
    BY <2>1, <2>2, <2>3 DEF Verify, VerifyAnswersTo, VerifyAnswers
<1>4. WorkerOK'
  BY <1>3 DEF TypeOK, Verify, WorkerOK, Answers
<1>5. RingOK' /\ IdunaOK' /\ LoopOK'
  BY RingKept, IdunaKept, LoopKept DEF TypeOK, Verify, queues
<1>6. QED
  BY <1>4, <1>5 DEF TypeOK

LEMMA ReportFailsTypes ==
    ASSUME TypeOK, worker = "work", job.type = "report", NEW results \in SUBSET ReportJobs,
           IsFiniteSet(results), ReportFails(results), agent' \in {"none", "good", "expired"}
    PROVE  TypeOK'
<1>1. job \in ReportJobs /\ job.seats[0] \in Players /\ job.seats[1] \in Players
  BY JobKinds DEF TypeOK, WorkerOK, IdunaOK, LoopOK, ReportJobs
<1>2. WorkerOK'
  BY DEF TypeOK, ReportFails, WorkerOK
<1>3. IdunaOK'
  BY <1>1 DEF TypeOK, ReportFails, IdunaOK
<1>4. RingOK' /\ LoopOK'
  BY RingKept, LoopKept DEF TypeOK, ReportFails, queues
<1>5. QED
  BY <1>2, <1>3, <1>4 DEF TypeOK

LEMMA ReportTypes == TypeOK /\ (Login \/ Report) => TypeOK'
<1> SUFFICES ASSUME TypeOK, Login \/ Report PROVE TypeOK'
  OBVIOUS
<1>1. /\ worker = "work" /\ job.type = "report" /\ job \in ReportJobs
      /\ job.seats[0] \in Players /\ job.seats[1] \in Players
  BY JobKinds DEF TypeOK, WorkerOK, IdunaOK, LoopOK, ReportJobs, Login, Report
<1>2. recorded \in SUBSET ReportJobs /\ IsFiniteSet(recorded)
  BY DEF TypeOK, WorkerOK, IdunaOK, LoopOK
<1>3. recorded \cup {job} \in SUBSET ReportJobs /\ IsFiniteSet(recorded \cup {job})
  BY <1>1, <1>2, FS_AddElement
<1>4. agent \in {"none", "good", "expired"}
  BY DEF TypeOK, WorkerOK, IdunaOK, LoopOK
<1>5. CASE Login
  <2>1. CASE IdunaFails /\ ReportFails(recorded) /\ UNCHANGED agent
    BY <1>1, <1>2, <1>4, <2>1, ReportFailsTypes
  <2>2. CASE agent' = "good" /\ UNCHANGED <<loop, queues, worker, job, answer, tries, recorded, failed, unheard, dropped, sent>>
    <3>1. RingOK' /\ LoopOK'
      BY <2>2, RingKept, LoopKept DEF TypeOK, queues
    <3>2. WorkerOK' /\ IdunaOK'
      BY <2>2 DEF TypeOK, WorkerOK, IdunaOK
    <3>3. QED
      BY <3>1, <3>2 DEF TypeOK
  <2>3. QED
    BY <1>5, <2>1, <2>2 DEF Login
<1>6. CASE Rejected
  <2>1. CASE ReportFails(recorded)
    BY <1>1, <1>2, <1>6, <2>1, ReportFailsTypes DEF Rejected
  <2>2. CASE tries' = 1 /\ UNCHANGED <<loop, queues, worker, job, answer, recorded, failed, unheard, dropped, sent>>
    <3>1. RingOK' /\ LoopOK'
      BY <2>2, RingKept, LoopKept DEF TypeOK, queues
    <3>2. WorkerOK' /\ IdunaOK'
      BY <1>6, <2>2 DEF TypeOK, WorkerOK, IdunaOK, Rejected
    <3>3. QED
      BY <3>1, <3>2 DEF TypeOK
  <2>3. QED
    BY <1>6, <2>1, <2>2 DEF Rejected
<1>7. CASE Accepted
  <2>1. \A s \in 0 .. 1 : RatingOf(job.seats[s], recorded') \in Nat
    BY <1>3, <1>7, RatingIsNat DEF Accepted
  <2>2. answer' \in RatingAnswers
    BY <1>1, <1>7, <2>1 DEF Accepted, RatingAnswers, ReportJobs
  <2>3. WorkerOK'
    BY <1>1, <1>7, <2>2 DEF TypeOK, Accepted, WorkerOK, Answers
  <2>4. IdunaOK'
    BY <1>3, <1>7 DEF TypeOK, Accepted, IdunaOK
  <2>5. RingOK' /\ LoopOK'
    BY <1>7, RingKept, LoopKept DEF TypeOK, Accepted, queues
  <2>6. QED
    BY <2>3, <2>4, <2>5 DEF TypeOK
<1>8. CASE AnswerLost
  BY <1>1, <1>2, <1>3, <1>4, <1>8, ReportFailsTypes DEF AnswerLost
<1>9. CASE NoRatings
  <2>1. WorkerOK'
    BY <1>1, <1>9 DEF TypeOK, NoRatings, WorkerOK
  <2>2. IdunaOK'
    BY <1>1, <1>3, <1>9 DEF TypeOK, NoRatings, IdunaOK
  <2>3. RingOK' /\ LoopOK'
    BY <1>9, RingKept, LoopKept DEF TypeOK, NoRatings, queues
  <2>4. QED
    BY <2>1, <2>2, <2>3 DEF TypeOK
<1>10. QED
  BY <1>5, <1>6, <1>7, <1>8, <1>9 DEF Report

LEMMA PushTypes == TypeOK /\ Push => TypeOK'
<1> SUFFICES ASSUME TypeOK, Push PROVE TypeOK'
  OBVIOUS
<1>1. answer \in Answers
  BY DEF TypeOK, WorkerOK, IdunaOK, LoopOK, Push
<1>2. RingOK' /\ WorkerOK'
  BY RingKept DEF TypeOK, Push, WorkerOK
<1>3. LoopOK'
  <2>1. rq' = rq \/ (Len(rq) < JQ /\ rq' = Append(rq, answer))
    BY DEF Push
  <2>2. rq' \in Seq(Answers) /\ Len(rq') <= JQ
    BY <1>1, <2>1, QueueLength DEF TypeOK, WorkerOK, IdunaOK, LoopOK
  <2>3. QED
    BY <2>2 DEF TypeOK, LoopOK, Push, Stopped
<1>4. IdunaOK'
  <2>1. answer.type = "rating" => answer.pid[0] \in Players /\ answer.pid[1] \in Players
    BY <1>1 DEF Answers, VerifyAnswers, RatingAnswers
  <2>2. answer.type = "verify" => answer.gen \in Sessions
    BY <1>1 DEF Answers, VerifyAnswers, RatingAnswers
  <2>3. QED
    BY <2>1, <2>2 DEF TypeOK, Push, IdunaOK
<1>5. QED
  BY <1>2, <1>3, <1>4 DEF TypeOK

LEMMA WorkerTypes == TypeOK /\ (WorkerSteps \/ SpuriousWakeup \/ AgentExpires) => TypeOK'
<1> SUFFICES ASSUME TypeOK, WorkerSteps \/ SpuriousWakeup \/ AgentExpires PROVE TypeOK'
  OBVIOUS
<1>1. CASE Sleep \/ SpuriousWakeup \/ Leave
  <2>1. WorkerOK'
    BY <1>1 DEF TypeOK, WorkerOK, Sleep, SpuriousWakeup, Leave
  <2>2. RingOK' /\ IdunaOK' /\ LoopOK'
    BY <1>1, RingKept, IdunaKept, LoopKept DEF TypeOK, Sleep, SpuriousWakeup, Leave, queues
  <2>3. QED
    BY <2>1, <2>2 DEF TypeOK
<1>2. CASE Take
  <2>1. RingOK' /\ job' \in Jobs
    BY <1>2, TakeFromRing DEF TypeOK
  <2>2. WorkerOK'
    BY <1>2, <2>1 DEF TypeOK, WorkerOK, Take
  <2>3. IdunaOK' /\ LoopOK'
    BY <1>2, IdunaKept, LoopKept DEF TypeOK, Take
  <2>4. QED
    BY <2>1, <2>2, <2>3 DEF TypeOK
<1>3. CASE Wake
  <2>1. RingOK' /\ IdunaOK'
    BY <1>3, RingKept, IdunaKept DEF TypeOK, Wake
  <2>2. WorkerOK' /\ LoopOK'
    BY <1>3 DEF TypeOK, WorkerOK, LoopOK, Wake, Stopped
  <2>3. QED
    BY <2>1, <2>2 DEF TypeOK
<1>4. CASE AgentExpires
  <2>1. RingOK' /\ LoopOK'
    BY <1>4, RingKept, LoopKept DEF TypeOK, AgentExpires, queues
  <2>2. WorkerOK' /\ IdunaOK'
    BY <1>4 DEF TypeOK, WorkerOK, IdunaOK, AgentExpires
  <2>3. QED
    BY <2>1, <2>2 DEF TypeOK
<1>5. QED
  BY <1>1, <1>2, <1>3, <1>4, VerifyTypes, ReportTypes, PushTypes DEF WorkerSteps

LEMMA LoopTypes ==
    TypeOK /\ (PollReturns \/ Pop \/ Drained \/ RoundEnds \/ Stop \/ Joined) => TypeOK'
<1> SUFFICES ASSUME TypeOK, PollReturns \/ Pop \/ Drained \/ RoundEnds \/ Stop \/ Joined PROVE TypeOK'
  OBVIOUS
<1>1. RingOK' /\ IdunaOK'
  BY RingKept, IdunaKept DEF TypeOK, PollReturns, Pop, Drained, RoundEnds, Stop, Joined, LoopLeaves, queues
<1>2. WorkerOK'
  BY DEF TypeOK, WorkerOK, PollReturns, Pop, Drained, RoundEnds, Stop, Joined, LoopLeaves, Signal
<1>3. LoopOK'
  <2>1. CASE Pop
    <3>1. rq' = Tail(rq) /\ rq # <<>> /\ rq \in Seq(Answers) /\ Len(rq) <= JQ
      BY <2>1 DEF TypeOK, Pop, LoopOK
    <3>2. rq' \in Seq(Answers) /\ Len(rq') <= JQ
      BY <3>1, QueueLength
    <3>3. QED
      BY <2>1, <3>2 DEF TypeOK, Pop, LoopOK, Stopped
  <2>2. CASE PollReturns
    BY <2>2 DEF TypeOK, LoopOK, PollReturns, Stopped
  <2>3. CASE Drained \/ Joined
    BY <2>3 DEF TypeOK, LoopOK, Drained, Joined, queues, Stopped
  <2>4. CASE RoundEnds
    BY <2>4 DEF TypeOK, LoopOK, RoundEnds, Stopped
  <2>5. CASE Stop
    <3>1. worker_stop' \in BOOLEAN /\ worker_stop' /\ loop' = "join"
      BY <2>5 DEF Stop
    <3>2. QED
      BY <2>5, <3>1 DEF TypeOK, LoopOK, Stop, Stopped
  <2>6. QED
    BY <2>1, <2>2, <2>3, <2>4, <2>5
<1>4. QED
  BY <1>1, <1>2, <1>3 DEF TypeOK

LEMMA TypeStep == TypeOK /\ [WorkerNext]_wvars => TypeOK'
<1> SUFFICES ASSUME TypeOK, [WorkerNext]_wvars PROVE TypeOK'
  OBVIOUS
<1>1. CASE UNCHANGED wvars
  <2>1. RingOK' /\ IdunaOK' /\ LoopOK'
    BY <1>1, RingKept, IdunaKept, LoopKept DEF TypeOK, wvars, queues
  <2>2. WorkerOK'
    BY <1>1 DEF TypeOK, wvars, WorkerOK
  <2>3. QED
    BY <2>1, <2>2 DEF TypeOK
<1>2. CASE Submit
  <2>1. PICK j \in Jobs : Enqueue(j)
    BY <1>2 DEF Submit
  <2>2. QED
    BY <1>2, <2>1, EnqueueTypes DEF Submit
<1>3. QED
  BY <1>1, <1>2, WorkerTypes, LoopTypes DEF WorkerNext

LEMMA InitTypes == WorkerInit => TypeOK
<1> SUFFICES ASSUME WorkerInit PROVE TypeOK
  OBVIOUS
<1>1. RingOK
  BY QueueLength DEF WorkerInit, RingOK
<1>2. WorkerOK /\ LoopOK
  <2>1. <<>> \in Seq(Answers) /\ Len(<<>>) <= JQ
    BY QueueLength
  <2>2. WorkerOK
    BY DEF WorkerInit, WorkerOK
  <2>3. pipe \in BOOLEAN /\ worker_stop \in BOOLEAN /\ ~worker_stop /\ ~Stopped
    BY DEF WorkerInit, Stopped
  <2>4. QED
    BY <2>1, <2>2, <2>3 DEF WorkerInit, LoopOK
<1>3. IdunaOK
  BY FS_EmptySet DEF WorkerInit, IdunaOK
<1>4. QED
  BY <1>1, <1>2, <1>3 DEF TypeOK

\* Every variable keeps its type; the ring never holds a slot that is not a job.
THEOREM WorkerTypeCorrect == WorkerSpec => []TypeOK
BY InitTypes, TypeStep, PTL DEF WorkerSpec

-----------------------------------------------------------------------------
(***************************************************************************)
(* No result goes unnoticed.                                               *)
(***************************************************************************)

\* The pipe is emptied before rq is looked at, and written after rq has the result.
THEOREM WakeAlwaysKept == WorkerSpec => []WakeKept
<1>1. WorkerInit => WakeKept
  BY DEF WorkerInit, WakeKept
<1>2. ASSUME WakeKept, [WorkerNext]_wvars PROVE WakeKept'
  <2>1. CASE WorkerSteps \/ SpuriousWakeup \/ AgentExpires
    <3>1. CASE Sleep \/ SpuriousWakeup \/ Leave \/ Take \/ Verify \/ AgentExpires
      BY <1>2, <3>1 DEF WakeKept, Sleep, SpuriousWakeup, Leave, Take, Verify, AgentExpires, queues
    <3>2. CASE Login \/ Report
      BY <1>2, <3>2 DEF WakeKept, Login, Report, Rejected, Accepted, AnswerLost, NoRatings, ReportFails, queues
    <3>3. CASE Push \/ Wake
      BY <1>2, <3>3 DEF WakeKept, Push, Wake
    <3>4. QED
      BY <2>1, <3>1, <3>2, <3>3 DEF WorkerSteps
  <2>2. CASE PollReturns \/ Pop \/ Drained \/ RoundEnds \/ Joined
    BY <1>2, <2>2 DEF WakeKept, PollReturns, Pop, Drained, RoundEnds, Joined, queues
  <2>3. CASE Submit \/ Stop
    BY <1>2, <2>3 DEF WakeKept, Submit, Stop, Enqueue, EnqueueLeaves, Signal
  <2>4. CASE UNCHANGED wvars
    BY <1>2, <2>4 DEF WakeKept, wvars, queues
  <2>5. QED
    BY <1>2, <2>1, <2>2, <2>3, <2>4 DEF WorkerNext
<1>3. QED
  BY <1>1, <1>2, PTL DEF WorkerSpec

-----------------------------------------------------------------------------
(***************************************************************************)
(* The queue as a sequence, and where the reports are.                     *)
(***************************************************************************)

LEMMA QueuedPut ==
    ASSUME TypeOK, NEW j \in Jobs, Enqueue(j), EnqueueLeaves, jq_n < JQ
    PROVE  Queued' = Append(Queued, j)
<1>1. /\ RingOK /\ jq' = [jq EXCEPT ![Slot(jq_n)] = j] /\ jq_n' = jq_n + 1 /\ jq_head' = jq_head
  BY DEF Enqueue, EnqueueLeaves, TypeOK
<1>2. /\ RingOK'
      /\ \A i \in 0 .. jq_n - 1 : jq'[Slot(i)'] = jq[Slot(i)]
      /\ \A i \in {jq_n} : jq'[Slot(i)'] = j
  BY <1>1, PutInRing
<1>3. jq_n \in Nat /\ Queued \in Seq(Jobs) /\ Len(Queued) = jq_n
  BY <1>1, QueuedIs DEF RingOK
<1>4. Queued' = [i \in 1 .. jq_n + 1 |-> jq'[Slot(i - 1)']]
  BY <1>1 DEF Queued, Slot
<1>5. \A i \in 1 .. jq_n : jq'[Slot(i - 1)'] = Queued[i]
  <2>1. \A i \in 1 .. jq_n : i - 1 \in 0 .. jq_n - 1
    BY <1>3
  <2>2. QED
    BY <1>1, <1>2, <2>1, QueuedIs
<1>6. \A i \in {jq_n + 1} : jq'[Slot(i - 1)'] = j
  <2>1. \A i \in {jq_n + 1} : i - 1 \in {jq_n}
    BY <1>3
  <2>2. QED
    BY <1>2, <2>1
<1>7. /\ Append(Queued, j) \in Seq(Jobs) /\ Len(Append(Queued, j)) = jq_n + 1
      /\ \A i \in 1 .. jq_n : Append(Queued, j)[i] = Queued[i]
      /\ Append(Queued, j)[jq_n + 1] = j
  BY <1>3, AppendProperties
<1>8. /\ Queued' \in Seq(Jobs) /\ Len(Queued') = jq_n + 1
      /\ \A i \in 1 .. jq_n + 1 : Queued'[i] = jq'[Slot(i - 1)']
  <2>1. \A i \in 1 .. jq_n + 1 : jq'[Slot(i - 1)'] \in Jobs
    <3>1. \A i \in 1 .. jq_n + 1 : i \in 1 .. jq_n \/ i \in {jq_n + 1}
      BY <1>3
    <3>2. \A i \in 1 .. jq_n : Queued[i] \in Jobs
      BY <1>3, ElementOfSeq
    <3>3. QED
      BY <1>5, <1>6, <3>1, <3>2
  <2>2. QED
    BY <1>3, <1>4, <2>1
<1>9. \A i \in 1 .. jq_n + 1 : Queued'[i] = Append(Queued, j)[i]
  BY <1>3, <1>5, <1>6, <1>7, <1>8
<1>10. QED
  BY <1>7, <1>8, <1>9, SeqEqual

LEMMA QueuedTake ==
    ASSUME TypeOK, Take
    PROVE  Queued # <<>> /\ job' = Head(Queued) /\ job' \in Jobs /\ Queued' = Tail(Queued)
<1>1. RingOK /\ jq_n > 0 /\ jq_n' = jq_n - 1 /\ jq_n \in Nat
  BY QueueLength DEF TypeOK, RingOK, Take
<1>2. /\ job' = jq[Slot(0)] /\ job' \in Jobs
      /\ \A i \in 0 .. jq_n' - 1 : jq'[Slot(i)'] = jq[Slot(i + 1)]
  BY <1>1, TakeFromRing
<1>3. /\ Queued \in Seq(Jobs) /\ Len(Queued) = jq_n
      /\ \A i \in 1 .. jq_n : Queued[i] = jq[Slot(i - 1)]
  BY <1>1, QueuedIs
<1>4. Queued' = [i \in 1 .. jq_n - 1 |-> jq'[Slot(i - 1)']]
  BY <1>1 DEF Queued
<1>5. ASSUME NEW i \in 1 .. jq_n - 1 PROVE jq'[Slot(i - 1)'] = Queued[i + 1]
  <2>1. i - 1 \in 0 .. jq_n' - 1 /\ i + 1 \in 1 .. jq_n /\ (i - 1) + 1 = (i + 1) - 1
    BY <1>1
  <2>2. QED
    BY <1>2, <1>3, <2>1
<1>6. /\ Tail(Queued) \in Seq(Jobs) /\ Len(Tail(Queued)) = jq_n - 1
      /\ \A i \in 1 .. jq_n - 1 : Tail(Queued)[i] = Queued[i + 1]
  BY <1>1, <1>3, HeadTailProperties
<1>7. /\ Queued' \in Seq(Jobs) /\ Len(Queued') = jq_n - 1
      /\ \A i \in 1 .. jq_n - 1 : Queued'[i] = Queued[i + 1]
  <2>1. \A i \in 1 .. jq_n - 1 : i + 1 \in 1 .. Len(Queued)
    BY <1>1, <1>3
  <2>2. \A i \in 1 .. jq_n - 1 : Queued[i + 1] \in Jobs
    BY <1>3, <2>1, ElementOfSeq
  <2>3. QED
    BY <1>1, <1>4, <1>5, <2>2
<1>8. Queued' = Tail(Queued)
  BY <1>6, <1>7, SeqEqual
<1>9. Head(Queued) = jq[Slot(0)] /\ Queued # <<>>
  <2>1. 1 \in 1 .. jq_n /\ Slot(1 - 1) = Slot(0)
    BY <1>1
  <2>2. Queued[1] = jq[Slot(0)] /\ Len(Queued) # 0
    BY <1>1, <1>3, <2>1
  <2>3. QED
    BY <1>3, <2>2, EmptySeq
<1>10. QED
  BY <1>2, <1>8, <1>9

-----------------------------------------------------------------------------
(***************************************************************************)
(* Ring, results, mutex and pipe together are the service JobService.      *)
(***************************************************************************)

LEMMA FirstInLine ==
    ASSUME NEW x \in Jobs, NEW s \in Seq(Jobs)
    PROVE  /\ <<x>> \o s \in Seq(Jobs) /\ <<x>> \o s # <<>> /\ <<>> \o s = s
           /\ Head(<<x>> \o s) = x /\ Tail(<<x>> \o s) = s
           /\ \A y \in Jobs : <<x>> \o Append(s, y) = Append(<<x>> \o s, y)
<1>1. <<x>> \in Seq(Jobs) /\ Len(<<x>>) = 1 /\ <<x>>[1] = x
  OBVIOUS
<1>2. /\ <<x>> \o s \in Seq(Jobs) /\ Len(<<x>> \o s) = 1 + Len(s) /\ Len(s) \in Nat
      /\ \A i \in 1 .. 1 + Len(s) : (<<x>> \o s)[i] = IF i <= 1 THEN x ELSE s[i - 1]
  BY <1>1, ConcatProperties, LenProperties
<1>3. <<x>> \o s # <<>>
  BY <1>2, EmptySeq
<1>4. Head(<<x>> \o s) = x
  BY <1>2, <1>3
<1>5. Tail(<<x>> \o s) = s
  <2>1. /\ Tail(<<x>> \o s) \in Seq(Jobs) /\ Len(Tail(<<x>> \o s)) = Len(s)
        /\ \A i \in 1 .. Len(s) : Tail(<<x>> \o s)[i] = (<<x>> \o s)[i + 1]
    BY <1>2, <1>3, HeadTailProperties
  <2>2. \A i \in 1 .. Len(s) : (<<x>> \o s)[i + 1] = s[i]
    BY <1>2
  <2>3. QED
    BY <2>1, <2>2, SeqEqual
<1>6. ASSUME NEW y \in Jobs PROVE <<x>> \o Append(s, y) = Append(<<x>> \o s, y)
  <2>1. <<y>> \in Seq(Jobs)
    OBVIOUS
  <2>2. Append(s, y) = s \o <<y>> /\ Append(<<x>> \o s, y) = (<<x>> \o s) \o <<y>>
    BY <1>2, AppendIsConcat
  <2>3. QED
    BY <1>1, <2>1, <2>2, ConcatAssociative
<1>7. QED
  BY <1>2, <1>3, <1>4, <1>5, <1>6, ConcatEmptySeq

LEMMA HeadAndTail ==
    ASSUME NEW s \in Seq(Jobs), s # <<>>
    PROVE  <<Head(s)>> \o Tail(s) = s
<1>1. /\ Head(s) \in Jobs /\ Tail(s) \in Seq(Jobs) /\ Len(Tail(s)) = Len(s) - 1
      /\ \A i \in 1 .. Len(s) - 1 : Tail(s)[i] = s[i + 1]
  BY HeadTailProperties
<1>2. Len(s) \in Nat \ {0} /\ Head(s) = s[1]
  BY EmptySeq
<1>3. <<Head(s)>> \in Seq(Jobs) /\ Len(<<Head(s)>>) = 1 /\ <<Head(s)>>[1] = s[1]
  BY <1>1, <1>2
<1>4. /\ <<Head(s)>> \o Tail(s) \in Seq(Jobs) /\ Len(<<Head(s)>> \o Tail(s)) = Len(s)
      /\ \A i \in 1 .. Len(s) : (<<Head(s)>> \o Tail(s))[i] = IF i <= 1 THEN s[1] ELSE Tail(s)[i - 1]
  BY <1>1, <1>2, <1>3, ConcatProperties
<1>5. \A i \in 1 .. Len(s) : (<<Head(s)>> \o Tail(s))[i] = s[i]
  BY <1>1, <1>2, <1>4
<1>6. QED
  BY <1>4, <1>5, SeqEqual

\* The worker's answer is one to the job in its hands.
FitsJob == worker = "push" => Essence(answer) \in Essences(job)

\* What the service is asked, by where the worker is.
LEMMA AskedIs ==
    ASSUME TypeOK
    PROVE  /\ worker \in {"work", "push"} => /\ Asked = <<job>> \o Queued /\ Asked # <<>>
                                            /\ Head(Asked) = job /\ Tail(Asked) = Queued
           /\ worker \notin {"work", "push"} => Asked = Queued
           /\ Queued \in Seq(Jobs)
<1>1. Queued \in Seq(Jobs)
  BY QueuedIs DEF TypeOK
<1>2. CASE worker \in {"work", "push"}
  <2>1. job \in Jobs
    BY <1>2 DEF TypeOK, WorkerOK
  <2>2. QED
    BY <1>1, <1>2, <2>1, FirstInLine DEF Asked
<1>3. CASE worker \notin {"work", "push"}
  BY <1>1, <1>3, ConcatEmptySeq DEF Asked
<1>4. QED
  BY <1>1, <1>2, <1>3

LEMMA FitsJobStep == TypeOK /\ FitsJob /\ [WorkerNext]_wvars => FitsJob'
<1> SUFFICES ASSUME TypeOK, FitsJob, [WorkerNext]_wvars PROVE FitsJob'
  OBVIOUS
<1>1. CASE Verify
  <2>1. answer' \in VerifyAnswersTo(job) /\ job.type = "verify" /\ job' = job
    BY <1>1 DEF Verify
  <2>2. /\ answer'.type = "verify" /\ answer'.conn = job.conn /\ answer'.gen = job.gen
        /\ answer'.id \in {job.token, None}
    BY <2>1 DEF VerifyAnswersTo
  <2>3. Essence(answer') \in Essences(job)
    BY <2>1, <2>2 DEF Essence, Essences
  <2>4. QED
    BY <2>1, <2>3 DEF FitsJob, Essence, Essences
<1>2. CASE Report /\ Accepted
  <2>1. job.type = "report" /\ job' = job /\ answer'.type = "rating" /\ answer'.pid = job.seats
    BY <1>2 DEF Report, Accepted
  <2>2. QED
    BY <2>1 DEF FitsJob, Essence, Essences
<1>3. CASE worker' # "push"
  BY <1>3 DEF FitsJob
<1>4. CASE worker' = worker /\ job' = job /\ answer' = answer
  BY <1>4 DEF FitsJob, Essence, Essences
<1>5. CASE WorkerSteps \/ SpuriousWakeup \/ AgentExpires
  <2>1. CASE Sleep \/ SpuriousWakeup \/ Leave \/ Take \/ Push \/ Wake
    BY <1>3, <2>1 DEF Sleep, SpuriousWakeup, Leave, Take, Push, Wake
  <2>2. CASE Login \/ AgentExpires
    BY <1>3, <1>4, <2>2 DEF Login, AgentExpires, ReportFails
  <2>3. CASE Report
    BY <1>2, <1>3, <1>4, <2>3 DEF Report, Rejected, AnswerLost, NoRatings, ReportFails
  <2>4. QED
    BY <1>1, <1>5, <2>1, <2>2, <2>3 DEF WorkerSteps
<1>6. CASE PollReturns \/ Pop \/ Drained \/ RoundEnds \/ Joined
  BY <1>4, <1>6 DEF PollReturns, Pop, Drained, RoundEnds, Joined, LoopLeaves
<1>7. CASE Submit \/ Stop
  <2>1. job' = job /\ answer' = answer /\ (worker' = worker \/ worker' = "run")
    BY <1>7 DEF Submit, Stop, LoopLeaves, EnqueueLeaves, Enqueue, Signal
  <2>2. QED
    BY <1>3, <1>4, <2>1
<1>8. CASE UNCHANGED wvars
  BY <1>4, <1>8 DEF wvars
<1>9. QED
  BY <1>5, <1>6, <1>7, <1>8 DEF WorkerNext

\* Steps that neither touch the queues nor take a job out of the worker's hands.
LEMMA Unseen ==
    ASSUME UNCHANGED <<jq, jq_head, jq_n, rq>>, job' = job, Stopped' <=> Stopped,
           worker' \in {"work", "push"} <=> worker \in {"work", "push"}
    PROVE  UNCHANGED Service!vars
<1>1. Queued' = Queued
  BY DEF Queued, Slot
<1>2. Asked' = Asked
  BY <1>1 DEF Asked
<1>3. Answered' = Answered
  BY DEF Answered, Essence
<1>4. QED
  BY <1>2, <1>3 DEF Service!vars

\* The job in the worker's hands is done with, unanswered.
LEMMA GivenUp ==
    ASSUME TypeOK, worker \in {"work", "push"}, worker' \notin {"work", "push"},
           UNCHANGED <<jq, jq_head, jq_n>>, Answered' = Answered, Stopped' <=> Stopped
    PROVE  Service!GiveUp
<1>1. Asked # <<>> /\ Tail(Asked) = Queued
  BY AskedIs
<1>2. Queued' = Queued /\ Queued \in Seq(Jobs)
  BY AskedIs DEF Queued, Slot
<1>3. Asked' = Queued
  BY <1>2, ConcatEmptySeq DEF Asked
<1>4. QED
  BY <1>1, <1>3 DEF Service!GiveUp

LEMMA TakeUnseen == TypeOK /\ Take => UNCHANGED Service!vars
<1> SUFFICES ASSUME TypeOK, Take PROVE UNCHANGED Service!vars
  OBVIOUS
<1>1. /\ Queued # <<>> /\ job' = Head(Queued) /\ Queued' = Tail(Queued)
      /\ Queued \in Seq(Jobs)
  BY QueuedTake, AskedIs
<1>2. Asked = Queued
  BY AskedIs DEF Take
<1>3. Asked' = <<job'>> \o Queued'
  BY DEF Take, Asked
<1>4. Asked' = Asked
  BY <1>1, <1>2, <1>3, HeadAndTail
<1>5. Answered' = Answered /\ (Stopped' <=> Stopped)
  BY DEF Take, Answered, Essence, Stopped
<1>6. QED
  BY <1>4, <1>5 DEF Service!vars

\* Answered, while the loop is there.
LEMMA AnsweredIs ==
    ASSUME TypeOK, ~Stopped
    PROVE  /\ Answered \in Seq({Essence(r) : r \in Answers}) /\ Len(Answered) = Len(rq)
           /\ Len(rq) \in Nat
           /\ \A i \in 1 .. Len(rq) : rq[i] \in Answers /\ Answered[i] = Essence(rq[i])
<1>1. rq \in Seq(Answers) /\ Len(rq) \in Nat /\ \A i \in 1 .. Len(rq) : rq[i] \in Answers
  BY LenProperties, ElementOfSeq DEF TypeOK, LoopOK
<1>2. Answered = [i \in 1 .. Len(rq) |-> Essence(rq[i])]
  BY DEF Answered
<1>3. \A i \in 1 .. Len(rq) : Essence(rq[i]) \in {Essence(r) : r \in Answers}
  BY <1>1
<1>4. QED
  BY <1>1, <1>2, <1>3

LEMMA PushAnswers == TypeOK /\ FitsJob /\ Push => Service!Answer \/ Service!GiveUp
<1> SUFFICES ASSUME TypeOK, FitsJob, Push PROVE Service!Answer \/ Service!GiveUp
  OBVIOUS
<1>1. /\ worker = "push" /\ worker' = "wake" /\ UNCHANGED <<jq, jq_head, jq_n>>
      /\ loop' = loop /\ (Stopped' <=> Stopped)
  BY DEF Push, Stopped
<1>2. CASE Stopped
  <2>1. Answered' = Answered
    BY <1>1, <1>2 DEF Answered
  <2>2. QED
    BY <1>1, <2>1, GivenUp
<1>3. CASE ~Stopped /\ ~(Len(rq) < JQ)
  <2>1. rq' = rq
    BY <1>3 DEF Push
  <2>2. Answered' = Answered
    BY <1>1, <2>1 DEF Answered, Essence
  <2>3. QED
    BY <1>1, <2>2, GivenUp
<1>4. CASE ~Stopped /\ Len(rq) < JQ
  <2> DEFINE E == {Essence(r) : r \in Answers}
  <2>1. rq' = Append(rq, answer) /\ answer \in Answers
    BY <1>1, <1>4 DEF Push, TypeOK, WorkerOK
  <2>2. /\ Answered \in Seq(E) /\ Len(Answered) = Len(rq) /\ Len(rq) \in Nat
        /\ \A i \in 1 .. Len(rq) : rq[i] \in Answers /\ Answered[i] = Essence(rq[i])
    BY <1>4, AnsweredIs
  <2>3. /\ Len(rq') = Len(rq) + 1 /\ rq'[Len(rq) + 1] = answer
        /\ \A i \in 1 .. Len(rq) : rq'[i] = rq[i]
    BY <2>1, <2>2, AppendProperties DEF TypeOK, LoopOK
  <2>4. Essence(answer) \in E
    BY <2>1
  <2>5. /\ Append(Answered, Essence(answer)) \in Seq(E)
        /\ Len(Append(Answered, Essence(answer))) = Len(rq) + 1
        /\ \A i \in 1 .. Len(rq) : Append(Answered, Essence(answer))[i] = Answered[i]
        /\ Append(Answered, Essence(answer))[Len(rq) + 1] = Essence(answer)
    BY <2>2, <2>4, AppendProperties
  <2>6. Answered' = [i \in 1 .. Len(rq) + 1 |-> Essence(rq'[i])]
    BY <1>1, <1>4, <2>3 DEF Answered, Essence
  <2>7. \A i \in 1 .. Len(rq) + 1 : rq'[i] \in Answers
    BY <2>1, <2>2, <2>3
  <2>8. Answered' \in Seq(E) /\ Len(Answered') = Len(rq) + 1
    BY <2>2, <2>6, <2>7
  <2>9. \A i \in 1 .. Len(rq) + 1 : Answered'[i] = Append(Answered, Essence(answer))[i]
    BY <2>2, <2>3, <2>5, <2>6
  <2>10. Answered' = Append(Answered, Essence(answer))
    BY <2>5, <2>8, <2>9, SeqEqual
  <2>11. Asked # <<>> /\ Head(Asked) = job /\ Tail(Asked) = Queued
    BY <1>1, AskedIs
  <2>12. Asked' = Tail(Asked)
    <3>1. Queued' = Queued /\ Queued \in Seq(Jobs)
      BY <1>1, AskedIs DEF Queued, Slot
    <3>2. QED
      BY <1>1, <2>11, <3>1, ConcatEmptySeq DEF Asked
  <2>13. Essence(answer) \in Essences(Head(Asked))
    BY <1>1, <2>11 DEF FitsJob
  <2>14. QED
    BY <1>1, <1>4, <2>10, <2>11, <2>12, <2>13 DEF Service!Answer
<1>5. QED
  BY <1>2, <1>3, <1>4

LEMMA PopCollects == TypeOK /\ Pop => Service!Collect
<1> SUFFICES ASSUME TypeOK, Pop PROVE Service!Collect
  OBVIOUS
<1> DEFINE E == {Essence(r) : r \in Answers}
<1>1. /\ ~Stopped /\ ~Stopped' /\ rq # <<>> /\ rq' = Tail(rq) /\ rq \in Seq(Answers)
      /\ UNCHANGED <<jq, jq_head, jq_n, worker, job>>
  BY DEF Pop, Stopped, LoopLeaves, TypeOK, LoopOK
<1>2. /\ Answered \in Seq(E) /\ Len(Answered) = Len(rq) /\ Len(rq) \in Nat
      /\ \A i \in 1 .. Len(rq) : rq[i] \in Answers /\ Answered[i] = Essence(rq[i])
  BY <1>1, AnsweredIs
<1>3. /\ Len(rq) # 0 /\ Len(rq') = Len(rq) - 1
      /\ \A i \in 1 .. Len(rq) - 1 : rq'[i] = rq[i + 1]
  BY <1>1, <1>2, EmptySeq, HeadTailProperties
<1>4. Answered # <<>>
  BY <1>2, <1>3, EmptySeq
<1>5. /\ Tail(Answered) \in Seq(E) /\ Len(Tail(Answered)) = Len(rq) - 1
      /\ \A i \in 1 .. Len(rq) - 1 : Tail(Answered)[i] = Answered[i + 1]
  BY <1>2, <1>4, HeadTailProperties
<1>6. Answered' = [i \in 1 .. Len(rq) - 1 |-> Essence(rq'[i])]
  BY <1>1, <1>3 DEF Answered, Essence
<1>7. \A i \in 1 .. Len(rq) - 1 : i + 1 \in 1 .. Len(rq)
  BY <1>2
<1>8. \A i \in 1 .. Len(rq) - 1 : rq'[i] \in Answers /\ Essence(rq'[i]) = Answered[i + 1]
  BY <1>2, <1>3, <1>7
<1>9. Answered' \in Seq(E) /\ Len(Answered') = Len(rq) - 1
  BY <1>2, <1>3, <1>6, <1>8
<1>10. \A i \in 1 .. Len(rq) - 1 : Answered'[i] = Tail(Answered)[i]
  BY <1>5, <1>6, <1>8
<1>11. Answered' = Tail(Answered)
  BY <1>5, <1>9, <1>10, SeqEqual
<1>12. Asked' = Asked
  BY <1>1 DEF Asked, Queued, Slot
<1>13. QED
  BY <1>1, <1>4, <1>11, <1>12 DEF Service!Collect

\* enqueue_job, whoever calls it.
LEMMA EnqueueAsks ==
    ASSUME TypeOK, NEW j \in Jobs, Enqueue(j), EnqueueLeaves, UNCHANGED loop, ~Stopped
    PROVE  Service!Ask \/ UNCHANGED Service!vars
<1>1. /\ UNCHANGED <<rq, job, loop>> /\ ~Stopped'
      /\ worker' = worker \/ (worker = "asleep" /\ worker' = "run")
  BY DEF EnqueueLeaves, Stopped, Enqueue, Signal
<1>2. CASE ~(jq_n < JQ)
  <2>1. UNCHANGED <<jq, jq_head, jq_n>>
    BY <1>2 DEF Enqueue, EnqueueLeaves
  <2>2. QED
    BY <1>1, <2>1, Unseen
<1>3. CASE jq_n < JQ
  <2>1. Queued' = Append(Queued, j) /\ Queued \in Seq(Jobs)
    BY <1>3, QueuedPut, AskedIs
  <2>2. Asked' = Append(Asked, j)
    <3>1. CASE worker \in {"work", "push"}
      <4>1. job \in Jobs
        BY <3>1 DEF TypeOK, WorkerOK
      <4>2. Asked = <<job>> \o Queued /\ Asked' = <<job>> \o Queued'
        BY <1>1, <3>1 DEF Asked
      <4>3. QED
        BY <2>1, <4>1, <4>2, FirstInLine
    <3>2. CASE worker \notin {"work", "push"}
      <4>1. Asked = Queued
        BY <3>2, AskedIs
      <4>2. Asked' = <<>> \o Queued' /\ Queued' \in Seq(Jobs)
        BY <1>1, <2>1, <3>2, AppendProperties DEF Asked
      <4>3. QED
        BY <2>1, <4>1, <4>2, ConcatEmptySeq
    <3>3. QED
      BY <3>1, <3>2
  <2>3. Answered' = Answered
    BY <1>1 DEF Answered, Essence
  <2>4. QED
    BY <1>1, <2>2, <2>3 DEF Service!Ask
<1>4. QED
  BY <1>2, <1>3

LEMMA StopCloses == TypeOK /\ Stop => Service!Close
<1> SUFFICES ASSUME TypeOK, Stop PROVE Service!Close
  OBVIOUS
<1>1. /\ ~Stopped /\ Stopped' /\ UNCHANGED <<jq, jq_head, jq_n, job>>
      /\ worker' \in {"work", "push"} <=> worker \in {"work", "push"}
  BY DEF Stop, Stopped, LoopLeaves, Signal
<1>2. Asked' = Asked
  BY <1>1 DEF Asked, Queued, Slot
<1>3. Answered' = <<>>
  BY <1>1 DEF Answered
<1>4. QED
  BY <1>1, <1>2, <1>3 DEF Service!Close

LEMMA WorkerServes ==
    TypeOK /\ FitsJob /\ (WorkerSteps \/ SpuriousWakeup \/ AgentExpires) => [Service!Next]_(Service!vars)
<1> SUFFICES ASSUME TypeOK, FitsJob, WorkerSteps \/ SpuriousWakeup \/ AgentExpires
             PROVE  [Service!Next]_(Service!vars)
  OBVIOUS
<1>1. CASE Sleep \/ SpuriousWakeup \/ Leave \/ Verify \/ Wake \/ AgentExpires
  <2>1. /\ UNCHANGED <<jq, jq_head, jq_n, rq, loop, job>>
        /\ worker' \in {"work", "push"} <=> worker \in {"work", "push"}
    BY <1>1 DEF Sleep, SpuriousWakeup, Leave, Verify, Wake, AgentExpires, queues
  <2>2. Stopped' <=> Stopped
    BY <2>1 DEF Stopped
  <2>3. QED
    BY <2>1, <2>2, Unseen
<1>2. CASE Login \/ Report
  <2>1. /\ UNCHANGED <<jq, jq_head, jq_n, rq, loop>> /\ worker = "work"
        /\ \/ job' = job /\ worker' \in {"work", "push"}
           \/ worker' = "run"
    BY <1>2 DEF Login, Report, Rejected, Accepted, AnswerLost, NoRatings, ReportFails, queues
  <2>2. Stopped' <=> Stopped
    BY <2>1 DEF Stopped
  <2>3. CASE job' = job /\ worker' \in {"work", "push"}
    BY <2>1, <2>2, <2>3, Unseen
  <2>4. CASE worker' = "run"
    <3>1. Answered' = Answered
      BY <2>1, <2>2 DEF Answered, Essence
    <3>2. QED
      BY <2>1, <2>2, <2>4, <3>1, GivenUp DEF Service!Next
  <2>5. QED
    BY <2>1, <2>3, <2>4
<1>3. QED
  BY <1>1, <1>2, TakeUnseen, PushAnswers DEF WorkerSteps, Service!Next

LEMMA StepServes == TypeOK /\ FitsJob /\ [WorkerNext]_wvars => [Service!Next]_(Service!vars)
<1> SUFFICES ASSUME TypeOK, FitsJob, [WorkerNext]_wvars PROVE [Service!Next]_(Service!vars)
  OBVIOUS
<1>1. CASE PollReturns \/ Drained \/ RoundEnds \/ Joined \/ UNCHANGED wvars
  <2>1. /\ UNCHANGED <<jq, jq_head, jq_n, rq, worker, job>>
        /\ Stopped' <=> Stopped
    BY <1>1 DEF PollReturns, Drained, RoundEnds, Joined, LoopLeaves, wvars, queues, Stopped
  <2>2. QED
    BY <2>1, Unseen
<1>2. CASE Submit
  <2>1. PICK j \in Jobs : Enqueue(j)
    BY <1>2 DEF Submit
  <2>2. EnqueueLeaves /\ UNCHANGED loop /\ ~Stopped
    BY <1>2 DEF Submit, Stopped
  <2>3. QED
    BY <2>1, <2>2, EnqueueAsks DEF Service!Next
<1>3. QED
  BY <1>1, <1>2, WorkerServes, PopCollects, StopCloses DEF WorkerNext, Service!Next

\* Every run of the worker and its queues is a run of the service: questions are given up
\* or answered once each, in their order, with an answer to that question.
THEOREM ServiceImplemented == WorkerSpec => ServiceKept
<1>1. WorkerInit => Service!Init
  <2> SUFFICES ASSUME WorkerInit PROVE Service!Init
    OBVIOUS
  <2>1. Queued = <<>> /\ Asked = <<>> \o Queued
    BY DEF WorkerInit, Queued, Asked
  <2>2. Asked = <<>>
    BY <2>1
  <2>3. Answered = <<>> /\ ~Stopped
    BY DEF WorkerInit, Answered, Stopped
  <2>4. QED
    BY <2>2, <2>3 DEF Service!Init
<1>2. WorkerInit => TypeOK /\ FitsJob
  BY InitTypes DEF WorkerInit, FitsJob
<1>3. TypeOK /\ FitsJob /\ [WorkerNext]_wvars => TypeOK' /\ FitsJob'
  BY TypeStep, FitsJobStep
<1>4. TypeOK /\ FitsJob /\ [WorkerNext]_wvars => [Service!Next]_(Service!vars)
  BY StepServes
<1>5. QED
  BY <1>1, <1>2, <1>3, <1>4, PTL DEF WorkerSpec, ServiceKept, Service!Spec

-----------------------------------------------------------------------------
(***************************************************************************)
(* Where the reports are.                                                  *)
(***************************************************************************)

InWork == worker = "work" /\ job.type = "report"
Done   == recorded \cup failed

\* ReportsOnce, and that nothing is in the ring, in hand or done with but what was sent:
\* without it a report could be sent that is somewhere already.
ReportsAccounted ==
    /\ \A i \in 1 .. jq_n : Queued[i].type = "report" => Queued[i] \in sent \ Done
    /\ InWork => job \in sent \ Done
    /\ Done \subseteq sent
    /\ \A i, k \in 1 .. jq_n : Queued[i].type = "report" /\ Queued[i] = Queued[k] => i = k
    /\ InWork => \A i \in 1 .. jq_n : Queued[i] # job
    /\ \A r \in sent : (\E i \in 1 .. jq_n : Queued[i] = r) \/ (InWork /\ job = r) \/ r \in Done

LEMMA AccountedIsOnce == TypeOK /\ ReportsAccounted => ReportsOnce
<1> SUFFICES ASSUME TypeOK, ReportsAccounted, NEW r \in sent
             PROVE  LET places == {i \in 1 .. jq_n : Queued[i] = r}
                        inHand == worker = "work" /\ job = r
                        done   == r \in recorded \cup failed
                    IN  /\ \A i, k \in places : i = k
                        /\ places # {} => ~inHand /\ ~done
                        /\ inHand => ~done
                        /\ places # {} \/ inHand \/ done
  BY DEF ReportsOnce
<1>1. r.type = "report"
  BY DEF TypeOK, LoopOK, ReportJobs
<1>2. QED
  BY <1>1 DEF ReportsAccounted, InWork, Done

\* Steps that leave the ring, sent and the reports in the worker's hands.
LEMMA AccountedSame ==
    ASSUME ReportsAccounted, UNCHANGED <<jq, jq_head, jq_n, recorded, failed, sent>>,
           \/ worker' = worker /\ job' = job
           \/ ~InWork /\ ~InWork'
    PROVE  ReportsAccounted'
<1>1. Queued' = Queued
  BY DEF Queued, Slot
<1>2. Done' = Done
  BY DEF Done
<1>3. (InWork' <=> InWork) /\ (InWork => job' = job)
  BY DEF InWork
<1>4. QED
  BY <1>1, <1>2, <1>3 DEF ReportsAccounted

\* The report in hand is done with.
LEMMA AccountedDone ==
    ASSUME ReportsAccounted, UNCHANGED <<jq, jq_head, jq_n, sent>>, InWork, ~InWork',
           Done' = Done \cup {job}
    PROVE  ReportsAccounted'
<1>1. Queued' = Queued
  BY DEF Queued, Slot
<1>2. QED
  BY <1>1 DEF ReportsAccounted

LEMMA AccountedTake == TypeOK /\ ReportsAccounted /\ Take => ReportsAccounted'
<1> SUFFICES ASSUME TypeOK, ReportsAccounted, Take PROVE ReportsAccounted'
  OBVIOUS
<1>1. /\ Queued # <<>> /\ job' = Head(Queued) /\ Queued' = Tail(Queued)
      /\ Queued \in Seq(Jobs) /\ Len(Queued) = jq_n /\ jq_n' = jq_n - 1
      /\ jq_n \in Nat \ {0}
  BY QueuedTake, AskedIs, QueuedIs, EmptySeq DEF Take, TypeOK
<1>2. /\ \A i \in 1 .. jq_n' : Queued'[i] = Queued[i + 1] /\ i + 1 \in 1 .. jq_n
      /\ job' = Queued[1] /\ 1 \in 1 .. jq_n
  BY <1>1, HeadTailProperties
<1>3. worker = "run" /\ worker' = "work" /\ sent' = sent /\ Done' = Done
  BY DEF Take, Done, iduna
<1>4. ~InWork /\ (InWork' => job'.type = "report")
  BY <1>3 DEF InWork
<1>5. /\ \A i \in 1 .. jq_n' : Queued'[i].type = "report" => Queued'[i] \in sent \ Done
      /\ InWork' => job' \in sent \ Done
  BY <1>2, <1>4 DEF ReportsAccounted
<1>6. \A i, k \in 1 .. jq_n' : Queued'[i].type = "report" /\ Queued'[i] = Queued'[k] => i = k
  <2> SUFFICES ASSUME NEW i \in 1 .. jq_n', NEW k \in 1 .. jq_n',
                      Queued'[i].type = "report", Queued'[i] = Queued'[k]
               PROVE  i = k
    OBVIOUS
  <2>1. i + 1 = k + 1
    BY <1>2 DEF ReportsAccounted
  <2>2. QED
    BY <1>1, <2>1
<1>7. InWork' => \A i \in 1 .. jq_n' : Queued'[i] # job'
  <2> SUFFICES ASSUME InWork', NEW i \in 1 .. jq_n', Queued'[i] = job' PROVE FALSE
    OBVIOUS
  <2>1. Queued[i + 1] = Queued[1] /\ Queued[1].type = "report"
    BY <1>2, <1>4
  <2>2. i + 1 = 1
    BY <1>2, <2>1 DEF ReportsAccounted
  <2>3. QED
    BY <1>1, <2>2
<1>8. ASSUME NEW r \in sent
      PROVE  (\E i \in 1 .. jq_n' : Queued'[i] = r) \/ (InWork' /\ job' = r) \/ r \in Done
  <2>1. CASE r \in Done
    BY <2>1
  <2>2. CASE r \notin Done
    <3>1. PICK i \in 1 .. jq_n : Queued[i] = r
      BY <1>4, <2>2 DEF ReportsAccounted
    <3>2. CASE i = 1
      <4>1. r.type = "report" /\ job' = r
        BY <1>2, <3>1, <3>2 DEF TypeOK, LoopOK, ReportJobs
      <4>2. QED
        BY <1>3, <4>1 DEF InWork
    <3>3. CASE i # 1
      <4>1. i - 1 \in 1 .. jq_n' /\ (i - 1) + 1 = i
        BY <1>1, <3>3
      <4>2. Queued'[i - 1] = r
        BY <1>2, <3>1, <4>1
      <4>3. QED
        BY <4>1, <4>2
    <3>4. QED
      BY <3>2, <3>3
  <2>3. QED
    BY <2>1, <2>2
<1>9. QED
  BY <1>3, <1>5, <1>6, <1>7, <1>8 DEF ReportsAccounted

\* A verification, or a report that was never sent, goes into the ring or is refused.
LEMMA AccountedEnqueue ==
    ASSUME TypeOK, ReportsAccounted, NEW j \in Jobs, Enqueue(j), EnqueueLeaves,
           j.type = "report" => j \notin sent
    PROVE  ReportsAccounted'
<1>1. /\ job' = job /\ Done' = Done
      /\ worker' = worker \/ (worker = "asleep" /\ worker' = "run")
  BY DEF EnqueueLeaves, Enqueue, Signal, Done, iduna
<1>2. (InWork' <=> InWork)
  BY <1>1 DEF InWork
<1>3. CASE ~(jq_n < JQ)
  BY <1>1, <1>2, <1>3, AccountedSame DEF Enqueue, EnqueueLeaves, iduna
<1>4. CASE jq_n < JQ
  <2>1. /\ Queued' = Append(Queued, j) /\ Queued \in Seq(Jobs) /\ Len(Queued) = jq_n
        /\ jq_n \in Nat /\ jq_n' = jq_n + 1
    BY <1>4, QueuedPut, QueuedIs, AskedIs, LenProperties DEF TypeOK, Enqueue
  <2>2. /\ \A i \in 1 .. jq_n : Queued'[i] = Queued[i] /\ i \in 1 .. jq_n'
        /\ Queued'[jq_n'] = j /\ jq_n' \in 1 .. jq_n'
        /\ \A i \in 1 .. jq_n' : i \in 1 .. jq_n \/ i = jq_n'
    BY <2>1, AppendProperties
  <2>3. /\ sent' = sent \/ sent' = sent \cup {j}
        /\ j.type = "report" <=> j \in sent'
    BY <1>4, JobKinds DEF Enqueue, TypeOK, LoopOK, ReportJobs
  <2>4. \A i \in 1 .. jq_n : Queued[i].type = "report" => Queued[i] # j
    BY <2>3 DEF ReportsAccounted
  <2>5. /\ j \notin sent => j \notin Done
        /\ Done \subseteq sent'
    BY <2>3 DEF ReportsAccounted
  <2>6. \A i \in 1 .. jq_n' : Queued'[i].type = "report" => Queued'[i] \in sent' \ Done
    BY <2>2, <2>3, <2>5 DEF ReportsAccounted
  <2>7. InWork' => job \in sent' \ Done
    BY <1>2, <2>3 DEF ReportsAccounted
  <2>8. ASSUME NEW i \in 1 .. jq_n', NEW k \in 1 .. jq_n',
               Queued'[i].type = "report", Queued'[i] = Queued'[k]
        PROVE  i = k
    <3>1. CASE i \in 1 .. jq_n /\ k \in 1 .. jq_n
      BY <2>2, <2>8, <3>1 DEF ReportsAccounted
    <3>2. CASE i \notin 1 .. jq_n \/ k \notin 1 .. jq_n
      BY <2>2, <2>4, <2>8, <3>2
    <3>3. QED
      BY <3>1, <3>2
  <2>9. InWork' => \A i \in 1 .. jq_n' : Queued'[i] # job
    <3>1. InWork => job \in sent /\ job.type = "report"
      BY DEF ReportsAccounted, InWork
    <3>2. InWork => j # job
      BY <3>1
    <3>3. QED
      BY <1>2, <2>2, <3>2 DEF ReportsAccounted
  <2>10. ASSUME NEW r \in sent'
         PROVE  (\E i \in 1 .. jq_n' : Queued'[i] = r) \/ (InWork' /\ job = r) \/ r \in Done
    <3>1. CASE r = j
      BY <2>2, <3>1
    <3>2. CASE r \in sent
      BY <1>2, <2>2, <3>2 DEF ReportsAccounted
    <3>3. QED
      BY <2>3, <3>1, <3>2
  <2>11. QED
    BY <1>1, <2>5, <2>6, <2>7, <2>8, <2>9, <2>10 DEF ReportsAccounted
<1>5. QED
  BY <1>3, <1>4

LEMMA AccountedReport == TypeOK /\ ReportsAccounted /\ (Login \/ Report) => ReportsAccounted'
<1> SUFFICES ASSUME TypeOK, ReportsAccounted, Login \/ Report PROVE ReportsAccounted'
  OBVIOUS
<1>1. InWork /\ UNCHANGED <<jq, jq_head, jq_n, sent>>
  BY DEF Login, Report, Rejected, Accepted, AnswerLost, NoRatings, ReportFails, queues, InWork
<1>2. CASE UNCHANGED <<worker, job, recorded, failed>>
  BY <1>1, <1>2, AccountedSame
<1>3. CASE worker' # "work" /\ Done' = Done \cup {job}
  BY <1>1, <1>3, AccountedDone DEF InWork
<1>4. CASE ReportFails(recorded) \/ ReportFails(recorded \cup {job})
  <2>1. worker' = "run" /\ Done' = Done \cup {job}
    BY <1>4 DEF ReportFails, Done
  <2>2. QED
    BY <1>3, <2>1
<1>5. CASE Accepted \/ NoRatings
  <2>1. worker' # "work" /\ Done' = Done \cup {job}
    BY <1>5 DEF Accepted, NoRatings, Done
  <2>2. QED
    BY <1>3, <2>1
<1>6. QED
  BY <1>2, <1>4, <1>5 DEF Login, Report, Rejected, AnswerLost

LEMMA AccountedStep == TypeOK /\ ReportsAccounted /\ [WorkerNext]_wvars => ReportsAccounted'
<1> SUFFICES ASSUME TypeOK, ReportsAccounted, [WorkerNext]_wvars PROVE ReportsAccounted'
  OBVIOUS
<1>1. CASE Sleep \/ SpuriousWakeup \/ Leave \/ Verify \/ Push \/ Wake
  <2>1. UNCHANGED <<jq, jq_head, jq_n, recorded, failed, sent>> /\ ~InWork /\ ~InWork'
    BY <1>1 DEF Sleep, SpuriousWakeup, Leave, Verify, Push, Wake, InWork, queues, iduna
  <2>2. QED
    BY <2>1, AccountedSame
<1>2. CASE AgentExpires \/ PollReturns \/ Pop \/ Drained \/ RoundEnds \/ Joined \/ UNCHANGED wvars
  BY <1>2, AccountedSame DEF AgentExpires, PollReturns, Pop, Drained, RoundEnds, Joined,
                             LoopLeaves, wvars, queues, iduna
<1>3. CASE Stop
  <2>1. /\ UNCHANGED <<jq, jq_head, jq_n, recorded, failed, sent, job>>
        /\ worker' = worker \/ (worker = "asleep" /\ worker' = "run")
    BY <1>3 DEF Stop, LoopLeaves, Signal, iduna
  <2>2. QED
    BY <2>1, AccountedSame DEF InWork
<1>4. CASE Submit
  <2>1. PICK j \in Jobs : /\ j.type = "report" => \A r \in sent : r.match # j.match
                          /\ Enqueue(j)
    BY <1>4 DEF Submit
  <2>2. QED
    BY <1>4, <2>1, AccountedEnqueue DEF Submit
<1>5. QED
  BY <1>1, <1>2, <1>3, <1>4, AccountedTake, AccountedReport DEF WorkerNext, WorkerSteps

\* No report that was accepted gets lost between the loop, the ring and the worker, and
\* none is in two places, whatever fails at IDUNA and however often the worker is woken.
THEOREM ReportsSentOnce == WorkerSpec => []ReportsOnce
<1>1. WorkerInit => ReportsAccounted
  BY DEF WorkerInit, ReportsAccounted, InWork, Done
<1>2. QED
  BY <1>1, InitTypes, TypeStep, AccountedStep, AccountedIsOnce, PTL DEF WorkerSpec

-----------------------------------------------------------------------------
(***************************************************************************)
(* Stopping the worker drops no report.                                    *)
(***************************************************************************)

\* Why nothing is dropped: a worker that had memory leaves only an empty ring after the stop,
\* the loop waits for it, and IDUNA fails only where it may; a report that was posted once
\* finds the server's own token renewed.
NothingLeft ==
    /\ worker = "gone" /\ ~MallocFails => jq_n = 0 /\ worker_stop
    /\ loop = "gone" => worker = "gone"
    /\ worker = "work" /\ tries = 1 => agent # "expired"
    /\ ~IdunaFails => failed = {}

LEMMA NothingLeftStep == TypeOK /\ NothingLeft /\ [WorkerNext]_wvars => NothingLeft'
<1> SUFFICES ASSUME TypeOK, NothingLeft, [WorkerNext]_wvars PROVE NothingLeft'
  OBVIOUS
<1>1. CASE Sleep \/ SpuriousWakeup \/ Leave \/ Verify \/ AgentExpires
  BY <1>1 DEF NothingLeft, Sleep, SpuriousWakeup, Leave, Verify, AgentExpires, queues, iduna
<1>2. CASE Take \/ Push \/ Wake
  BY <1>2 DEF NothingLeft, Take, Push, Wake, iduna
<1>3. CASE Login
  BY <1>3 DEF NothingLeft, Login, ReportFails, queues
<1>4. CASE Report
  <2>1. worker = "work"
    BY <1>4 DEF Report
  <2>2. CASE Rejected
    <3>1. tries = 0
      BY <2>1, <2>2 DEF Rejected, NothingLeft, TypeOK, WorkerOK
    <3>2. QED
      BY <2>1, <2>2, <3>1 DEF Rejected, NothingLeft, queues
  <2>3. CASE Accepted \/ AnswerLost \/ NoRatings
    BY <2>1, <2>3 DEF Accepted, AnswerLost, NoRatings, ReportFails, NothingLeft, queues
  <2>4. QED
    BY <1>4, <2>2, <2>3 DEF Report
<1>5. CASE PollReturns \/ Pop \/ Drained \/ RoundEnds \/ Joined
  BY <1>5 DEF NothingLeft, PollReturns, Pop, Drained, RoundEnds, Joined, LoopLeaves, queues, iduna
<1>6. CASE Submit
  <2>1. loop = "events" /\ ~worker_stop
    BY <1>6 DEF Submit, TypeOK, LoopOK, Stopped
  <2>2. PICK j \in Jobs : Enqueue(j)
    BY <1>6 DEF Submit
  <2>3. worker' = worker \/ worker' = "run"
    BY <2>2 DEF Enqueue, Signal
  <2>4. UNCHANGED <<loop, worker_stop, tries, agent, failed>>
    BY <1>6 DEF Submit, EnqueueLeaves, iduna
  <2>5. QED
    BY <2>1, <2>3, <2>4 DEF NothingLeft
<1>7. CASE Stop
  BY <1>7 DEF NothingLeft, Stop, Signal, LoopLeaves, iduna
<1>8. CASE UNCHANGED wvars
  BY <1>8 DEF NothingLeft, wvars, queues, iduna
<1>9. QED
  BY <1>1, <1>2, <1>3, <1>4, <1>5, <1>6, <1>7, <1>8 DEF WorkerNext, WorkerSteps

\* When the server has joined its worker every report it accepted went out, unless there was
\* no memory; and IDUNA has recorded it, unless IDUNA failed.
THEOREM StopDropsNothing == WorkerSpec => []ReportsReach
<1>1. WorkerInit => NothingLeft /\ ReportsAccounted
  BY DEF WorkerInit, NothingLeft, ReportsAccounted, InWork, Done
<1>2. TypeOK /\ ReportsAccounted /\ NothingLeft => ReportsReach
  <2> SUFFICES ASSUME ReportsAccounted, NothingLeft, loop = "gone", ~MallocFails, NEW r \in sent
               PROVE  r \in Done /\ (~IdunaFails => r \in recorded)
    BY DEF ReportsReach, Done
  <2>1. worker = "gone" /\ jq_n = 0
    BY DEF NothingLeft
  <2>2. ~InWork /\ ~\E i \in 1 .. jq_n : Queued[i] = r
    BY <2>1 DEF InWork
  <2>3. r \in Done
    BY <2>2 DEF ReportsAccounted
  <2>4. QED
    BY <2>3 DEF NothingLeft, Done
<1>3. QED
  BY <1>1, <1>2, InitTypes, TypeStep, AccountedStep, NothingLeftStep, PTL DEF WorkerSpec

=============================================================================
