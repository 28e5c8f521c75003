---------------------------- MODULE IdunaWorker ----------------------------
(***************************************************************************)
(* The thread that talks to IDUNA, and its two queues (apps/server/main.c).*)
(*                                                                         *)
(* The loop thread puts jobs into the ring jq; the worker takes them out,  *)
(* calls IDUNA, puts what the loop must know into rq, and writes a byte    *)
(* into the wake pipe, on which the loop's poll() waits.  Both queues are  *)
(* under one mutex, so what happens between lock and unlock is one action; *)
(* an HTTP call is one action too, between the two critical sections.      *)
(*                                                                         *)
(* The module holds both sides of the queues.  What the loop does with an  *)
(* answer, and when it asks, is Admission's; here it asks anything.        *)
(***************************************************************************)
EXTENDS Integers, Sequences, FiniteSets

CONSTANTS
    Conns,        \* indices of conns[]
    Players,      \* the players IDUNA knows, as whom a token may identify
    Sessions,     \* session ids: the gen of a job
    Matches,      \* match ids: a bound on the matches reported in a run
    JQ,           \* the length of both queues, 256 in the code
    None,         \* no job, nobody
    IdunaFails,   \* may an HTTP call fail?
    MallocFails   \* may malloc fail in the worker?

ASSUME QueueLength == JQ \in Nat \ {0}
ASSUME WorkerOptions == IdunaFails \in BOOLEAN /\ MallocFails \in BOOLEAN

\* Whose token a connection presents: a player's, or one IDUNA does not honour.
Tokens == Players \cup {None}

VerifyJobs == [type : {"verify"}, conn : Conns, gen : Sessions, token : Tokens]
ReportJobs == [type : {"report"}, match : Matches, seats : [0 .. 1 -> Players]]
Jobs == VerifyJobs \cup ReportJobs

\* A rating is how many of the player's matches IDUNA has rated; unknown is -1.
Ratings == Nat \cup {-1}

VerifyAnswers == [type : {"verify"}, conn : Conns, gen : Sessions,
                  rc : {"ok", "unreachable", "refused"}, id : Tokens, rating : Ratings]
RatingAnswers == [type : {"rating"}, pid : [0 .. 1 -> Players], ratings : [0 .. 1 -> Nat]]
Answers == VerifyAnswers \cup RatingAnswers

ASSUME NoneIsNothing == None \notin Players /\ None \notin Jobs /\ None \notin Answers

VARIABLES
    loop,          \* where the loop thread is
    jq, jq_head, jq_n,   \* the ring of jobs
    rq,            \* the results, a sequence
    pipe,          \* is there a byte in the wake pipe?
    worker_stop,   \* has the worker been told to stop?
    worker,        \* where the worker is
    job,           \* the job it works on
    answer,        \* what it is about to put into rq
    tries,         \* how often dwi_report_ex has posted this report
    agent,         \* the server's own token at IDUNA: none, good, expired
    sent,          \* history: the reports put into jq
    recorded,      \* IDUNA: the match results it has recorded
    failed,        \* history: the reports dwi_report_ex gave up
    unheard,       \* history: the players of whom a new rating got lost on its way
    dropped        \* history: the sessions whose verification found rq full

queues == <<jq, jq_head, jq_n, rq, pipe, worker_stop>>
iduna  == <<agent, recorded, failed, unheard, dropped>>
wvars  == <<loop, queues, worker, job, answer, tries, iduna, sent>>

-----------------------------------------------------------------------------
(* The ring of jobs. *)

Slot(i) == (jq_head + i) % JQ

\* The jobs in the ring, oldest first.
Queued == [i \in 1 .. jq_n |-> jq[Slot(i - 1)]]

\* pthread_cond_signal: the worker, if it sleeps, looks again.
Signal == worker' = IF worker = "asleep" THEN "run" ELSE worker

\* fault: the check of enqueue_job lets one job too many in
EnqueueTooMany(j) ==
    IF jq_n <= JQ
    THEN /\ jq' = [jq EXCEPT ![Slot(jq_n)] = j] /\ jq_n' = jq_n + 1
         /\ sent' = IF j.type = "report" THEN sent \cup {j} ELSE sent
         /\ Signal
    ELSE UNCHANGED <<jq, jq_n, sent, worker>>

\* fault: enqueue_job does not signal
EnqueueSilently(j) ==
    /\ UNCHANGED worker
    /\ IF jq_n < JQ
       THEN /\ jq' = [jq EXCEPT ![Slot(jq_n)] = j] /\ jq_n' = jq_n + 1
            /\ sent' = IF j.type = "report" THEN sent \cup {j} ELSE sent
       ELSE UNCHANGED <<jq, jq_n, sent>>

\* The critical section of enqueue_job.  A full ring refuses the job.
Enqueue(j) ==
    IF jq_n < JQ
    THEN /\ jq' = [jq EXCEPT ![Slot(jq_n)] = j]
         /\ jq_n' = jq_n + 1
         /\ sent' = IF j.type = "report" THEN sent \cup {j} ELSE sent
         /\ Signal
    ELSE UNCHANGED <<jq, jq_n, sent, worker>>

EnqueueLeaves == UNCHANGED <<jq_head, rq, pipe, worker_stop, job, answer, tries, iduna>>

WorkerInit ==
    /\ loop = "poll"
    /\ jq = [i \in 0 .. JQ - 1 |-> None] /\ jq_head = 0 /\ jq_n = 0
    /\ rq = <<>> /\ pipe = FALSE /\ worker_stop = FALSE
    /\ worker = "run" /\ job = None /\ answer = None /\ tries = 0
    /\ agent = "none" /\ recorded = {} /\ failed = {} /\ unheard = {} /\ dropped = {} /\ sent = {}

-----------------------------------------------------------------------------
(***************************************************************************)
(* The worker: worker_main, from one look at the queue to the next.        *)
(***************************************************************************)

\* Nothing to do: pthread_cond_wait.  It may return without a signal (SpuriousWakeup).
Sleep == /\ worker = "run" /\ jq_n = 0 /\ ~worker_stop
         /\ worker' = "asleep"
         /\ UNCHANGED <<loop, queues, job, answer, tries, iduna, sent>>

SpuriousWakeup == /\ worker = "asleep"
                  /\ worker' = "run"
                  /\ UNCHANGED <<loop, queues, job, answer, tries, iduna, sent>>

\* fault: the worker leaves as soon as it is told to, whatever is queued
LeaveAtOnce == /\ worker = "run" /\ worker_stop
               /\ worker' = "gone"
               /\ UNCHANGED <<loop, queues, job, answer, tries, iduna, sent>>

\* The only way out is an empty queue, or no memory for the copy of the job.
Leave == /\ worker = "run"
         /\ \/ jq_n = 0 /\ worker_stop
            \/ jq_n > 0 /\ MallocFails
         /\ worker' = "gone"
         /\ UNCHANGED <<loop, queues, job, answer, tries, iduna, sent>>

\* The code leaves the slot as it is; the model clears what is not read again.
Take == /\ worker = "run" /\ jq_n > 0
        /\ job' = jq[jq_head]
        /\ jq' = [jq EXCEPT ![jq_head] = None]
        /\ jq_head' = (jq_head + 1) % JQ
        /\ jq_n' = jq_n - 1
        /\ worker' = "work" /\ tries' = 0
        /\ UNCHANGED <<loop, rq, pipe, worker_stop, answer, iduna, sent>>

\* IDUNA's rating of a player.
RatingOf(p, results) == Cardinality({r \in results : p \in {r.seats[0], r.seats[1]}})

\* dwi_verify, and dwi_profile for the rating, which is read only for a constructed
\* player and at best effort: it may stay unknown.
VerifyAnswersTo(j) ==
    {r \in [type : {"verify"}, conn : {j.conn}, gen : {j.gen},
            rc : {"ok", "refused"} \cup (IF IdunaFails THEN {"unreachable"} ELSE {}),
            id : {j.token, None},
            rating : {-1} \cup {RatingOf(p, recorded) : p \in {j.token} \ {None}}] :
        /\ r.rc = "ok" <=> r.id # None
        /\ r.rc # "ok" => r.rating = -1}

Verify == /\ worker = "work" /\ job.type = "verify"
          /\ answer' \in VerifyAnswersTo(job)
          /\ worker' = "push"
          /\ UNCHANGED <<loop, queues, job, tries, iduna, sent>>

\* The report is given up, recorded or not: nobody hears of the new ratings.
ReportFails(results) ==
    /\ recorded' = results
    /\ worker' = "run" /\ job' = None /\ tries' = 0
    /\ failed' = failed \cup {job}
    /\ unheard' = IF job \in results THEN unheard \cup {job.seats[0], job.seats[1]} ELSE unheard
    /\ UNCHANGED <<loop, queues, answer, dropped, sent>>

\* dwi_report_ex logs in when it holds no token of its own.
Login == /\ worker = "work" /\ job.type = "report" /\ agent = "none"
         /\ \/ /\ agent' = "good"
               /\ UNCHANGED <<loop, queues, worker, job, answer, tries, recorded, failed, unheard, dropped, sent>>
            \/ IdunaFails /\ ReportFails(recorded) /\ UNCHANGED agent

\* One post of the report.  401 drops the token and tries once more; any other failure
\* is final, whether IDUNA recorded the match before it or not.
Rejected == /\ agent = "expired"
            /\ agent' = "none"
            /\ IF tries = 0
               THEN tries' = 1 /\ UNCHANGED <<loop, queues, worker, job, answer, recorded, failed, unheard, dropped, sent>>
               ELSE ReportFails(recorded)

Accepted == /\ agent = "good"
            /\ recorded' = recorded \cup {job}
            /\ answer' = [type |-> "rating", pid |-> job.seats,
                         ratings |-> [s \in 0 .. 1 |-> RatingOf(job.seats[s], recorded')]]
            /\ worker' = "push"
            /\ UNCHANGED <<loop, queues, job, tries, agent, failed, unheard, dropped, sent>>

\* fault: a lost answer is a reason to post again
AnswerLostRetried == /\ agent = "good" /\ IdunaFails /\ tries = 0
                     /\ recorded' \in {recorded, recorded \cup {job}} /\ tries' = 1
                     /\ UNCHANGED <<loop, queues, worker, job, answer, agent, failed, unheard, dropped, sent>>

AnswerLost == /\ agent = "good" /\ IdunaFails
              /\ ReportFails(recorded) \/ ReportFails(recorded \cup {job})
              /\ UNCHANGED agent

\* A 200 without both ratings: recorded, but there is nothing to tell the loop.
NoRatings == /\ agent = "good" /\ IdunaFails
             /\ recorded' = recorded \cup {job}
             /\ unheard' = unheard \cup {job.seats[0], job.seats[1]}
             /\ worker' = "run" /\ job' = None /\ tries' = 0
             /\ UNCHANGED <<loop, queues, answer, agent, failed, dropped, sent>>

Report == /\ worker = "work" /\ job.type = "report"
          /\ Rejected \/ Accepted \/ AnswerLost \/ NoRatings

\* fault: the byte is written for verifications only
PushUnheard == /\ worker = "push"
               /\ rq' = IF Len(rq) < JQ THEN Append(rq, answer) ELSE rq
               /\ worker' = IF answer.type = "verify" THEN "wake" ELSE "run"
               /\ job' = None /\ answer' = None /\ tries' = 0
               /\ UNCHANGED <<loop, jq, jq_head, jq_n, pipe, worker_stop, iduna, sent>>

\* A full rq drops the answer.  The wake byte is written after the lock is released,
\* dropped answer or not.
Push == /\ worker = "push"
        /\ IF Len(rq) < JQ
           THEN rq' = Append(rq, answer) /\ UNCHANGED <<unheard, dropped>>
           ELSE /\ UNCHANGED rq
                /\ \/ /\ answer.type = "rating"
                      /\ unheard' = unheard \cup {answer.pid[0], answer.pid[1]}
                      /\ UNCHANGED dropped
                   \/ /\ answer.type = "verify"
                      /\ dropped' = dropped \cup {answer.gen}
                      /\ UNCHANGED unheard
        /\ worker' = "wake" /\ job' = None /\ answer' = None /\ tries' = 0
        /\ UNCHANGED <<loop, jq, jq_head, jq_n, pipe, worker_stop, agent, recorded, failed, sent>>

Wake == /\ worker = "wake"
        /\ pipe' = TRUE
        /\ worker' = "run"
        /\ UNCHANGED <<loop, jq, jq_head, jq_n, rq, worker_stop, job, answer, tries, iduna, sent>>

\* The server's token lives an hour, a report a few seconds: it runs out between reports.
AgentExpires == /\ agent = "good" /\ worker # "work"
                /\ agent' = "expired"
                /\ UNCHANGED <<loop, queues, worker, job, answer, tries, recorded, failed, unheard, dropped, sent>>

WorkerSteps == Sleep \/ Leave \/ Take \/ Verify \/ Login \/ Report \/ Push \/ Wake

-----------------------------------------------------------------------------
(***************************************************************************)
(* The loop's side.  One round: poll() returns, results are drained if the *)
(* pipe had a byte, events are served, and at the end of the round results *)
(* are drained whether or not the pipe has one.  drain_results empties the *)
(* pipe before it looks at rq.                                             *)
(***************************************************************************)

LoopLeaves == UNCHANGED <<job, answer, tries, iduna>>

PollReturns == /\ loop = "poll"
               /\ IF pipe THEN loop' = "drain" ELSE loop' = "events"
               /\ pipe' = FALSE
               /\ LoopLeaves /\ UNCHANGED <<jq, jq_head, jq_n, rq, worker_stop, worker, sent>>

\* fault: drain_results takes the newest result
PopNewest == /\ loop \in {"drain", "lastdrain"} /\ rq # <<>>
             /\ rq' = SubSeq(rq, 1, Len(rq) - 1)
             /\ LoopLeaves /\ UNCHANGED <<loop, jq, jq_head, jq_n, pipe, worker_stop, worker, sent>>

Pop == /\ loop \in {"drain", "lastdrain"} /\ rq # <<>>
       /\ rq' = Tail(rq)
       /\ LoopLeaves /\ UNCHANGED <<loop, jq, jq_head, jq_n, pipe, worker_stop, worker, sent>>

Drained == /\ loop \in {"drain", "lastdrain"} /\ rq = <<>>
           /\ loop' = IF loop = "drain" THEN "events" ELSE "poll"
           /\ LoopLeaves /\ UNCHANGED <<queues, worker, sent>>

\* A handler asks.  Match ids come from the counter next_match: a report has a new one.
Submit == /\ loop = "events"
          /\ \E j \in Jobs : /\ j.type = "report" => \A r \in sent : r.match # j.match
                            /\ Enqueue(j)
          /\ EnqueueLeaves /\ UNCHANGED loop

RoundEnds == /\ loop = "events"
             /\ loop' = "lastdrain" /\ pipe' = FALSE
             /\ LoopLeaves /\ UNCHANGED <<jq, jq_head, jq_n, rq, worker_stop, worker, sent>>

\* fault: stop_worker sets the flag and signals nobody
StopSilently == /\ loop = "poll"
                /\ loop' = "join" /\ worker_stop' = TRUE
                /\ LoopLeaves /\ UNCHANGED <<jq, jq_head, jq_n, rq, pipe, worker, sent>>

\* The loop ends at its top; stop_worker tells the worker and joins it.
Stop == /\ loop = "poll"
        /\ loop' = "join" /\ worker_stop' = TRUE /\ Signal
        /\ LoopLeaves /\ UNCHANGED <<jq, jq_head, jq_n, rq, pipe, sent>>

Joined == /\ loop = "join" /\ worker = "gone"
          /\ loop' = "gone"
          /\ LoopLeaves /\ UNCHANGED <<queues, worker, sent>>

WorkerNext == \/ WorkerSteps \/ SpuriousWakeup \/ AgentExpires
              \/ PollReturns \/ Pop \/ Drained \/ Submit \/ RoundEnds \/ Stop \/ Joined

WorkerSpec == WorkerInit /\ [][WorkerNext]_wvars

\* poll() and the HTTP calls time out, locks are held for a few instructions: every
\* thread goes on.  Nothing is assumed of who asks, of stopping, or of wake-ups.
FairWorkerSpec == /\ WorkerSpec
                  /\ WF_wvars(WorkerSteps)
                  /\ WF_wvars(PollReturns) /\ WF_wvars(Pop) /\ WF_wvars(Drained)
                  /\ WF_wvars(RoundEnds) /\ WF_wvars(Joined)

-----------------------------------------------------------------------------
(***************************************************************************)
(* Properties                                                              *)
(***************************************************************************)

Stopped == loop \in {"join", "gone"}

\* The slots of the ring that count hold jobs.
RingOK ==
    /\ jq \in [0 .. JQ - 1 -> Jobs \cup {None}]
    /\ jq_head \in 0 .. JQ - 1 /\ jq_n \in 0 .. JQ
    /\ \A i \in 0 .. jq_n - 1 : jq[Slot(i)] \in Jobs

\* The worker has a job exactly while it works, and posts a report at most twice.
WorkerOK ==
    /\ worker \in {"run", "asleep", "work", "push", "wake", "gone"}
    /\ IF worker \in {"work", "push"} THEN job \in Jobs ELSE job = None
    /\ IF worker = "push" THEN answer \in Answers ELSE answer = None
    /\ tries \in 0 .. 1

\* What IDUNA holds and what became of the reports.
IdunaOK ==
    /\ agent \in {"none", "good", "expired"}
    /\ recorded \subseteq ReportJobs /\ failed \subseteq ReportJobs
    /\ IsFiniteSet(recorded)
    /\ unheard \subseteq Players /\ dropped \subseteq Sessions

\* The loop thread, and what it shares with the worker beside the ring.
LoopOK ==
    /\ loop \in {"poll", "drain", "events", "lastdrain", "join", "gone"}
    /\ rq \in Seq(Answers) /\ Len(rq) <= JQ
    /\ pipe \in BOOLEAN /\ worker_stop \in BOOLEAN /\ (worker_stop <=> Stopped)
    /\ sent \subseteq ReportJobs

\* Every variable keeps its type, and the slots of the ring that count hold jobs.
TypeOK == RingOK /\ WorkerOK /\ IdunaOK /\ LoopOK

\* Nobody misses a result: while one waits in rq the wake pipe has a byte, or the worker
\* is about to write one, or the loop is draining.  (drain_results empties the pipe
\* before it looks at rq, and worker_main writes the byte after it put the result.)
WakeKept == rq # <<>> => pipe \/ worker = "wake" \/ loop \in {"drain", "lastdrain"}

\* A report that was accepted is in one place: once in the ring, in the worker's hands,
\* or done with.  None is lost on the way round the ring, and none is sent twice.
ReportsOnce ==
    \A r \in sent :
        LET places == {i \in 1 .. jq_n : Queued[i] = r}
            inHand == worker = "work" /\ job = r
            done   == r \in recorded \cup failed
        IN  /\ \A i, k \in places : i = k
            /\ places # {} => ~inHand /\ ~done
            /\ inHand => ~done
            /\ places # {} \/ inHand \/ done

\* stop_worker drops nothing: when the server has joined its worker, every report went
\* out; and while IDUNA answers, an expired token of the server's own costs no report.
ReportsReach ==
    loop = "gone" /\ ~MallocFails =>
        sent \subseteq (IF IdunaFails THEN recorded \cup failed ELSE recorded)

\* stop_worker ends: its signal is not lost on a worker that sleeps.
ShutdownEnds == loop = "join" ~> loop = "gone"

\* Whom an answer is about.
Essence(r) == IF r.type = "verify" THEN [conn |-> r.conn, gen |-> r.gen, id |-> r.id]
                                   ELSE [pid |-> r.pid]

Essences(j) == IF j.type = "verify"
               THEN {[conn |-> j.conn, gen |-> j.gen, id |-> p] : p \in {j.token, None}}
               ELSE {[pid |-> j.seats]}

Asked == (IF worker \in {"work", "push"} THEN <<job>> ELSE <<>>) \o Queued

Answered == IF Stopped THEN <<>> ELSE [i \in 1 .. Len(rq) |-> Essence(rq[i])]

Service == INSTANCE JobService WITH
               AnswersTo <- Essences, asked <- Asked, answered <- Answered, open <- ~Stopped

\* Ring, results, mutex and pipe together are the service: each job is answered at most
\* once, about the connection or the players it asks about, in the order of asking.
ServiceKept == Service!Spec

\* With fair threads no job stays unanswered and no answer stays in the queue.
ServiceFair == Service!FairSpec

=============================================================================
