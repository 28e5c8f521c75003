---------------------------- MODULE AdmissionProofs ----------------------------
(***************************************************************************)
(* Admission and the worker fit together, whoever is admitted is who the   *)
(* token says, whoever is being verified has one question open, and        *)
(* ratings are applied in the order IDUNA gave them, for any number of     *)
(* connections, players and sessions.                                      *)
(***************************************************************************)
EXTENDS Admission, IdunaWorkerProofs

-----------------------------------------------------------------------------
(***************************************************************************)
(* The connections keep their types, and what they do to the queues is     *)
(* what IdunaWorker lets the loop do.                                      *)
(***************************************************************************)

\* The connections alone; a connection that may ask has a session.
ConnOK ==
    /\ opt_noauth \in BOOLEAN /\ opt_fail_open \in BOOLEAN
    /\ state \in [Conns -> {"FREE", "READY"} \cup Pending]
    /\ kind \in [Conns -> Kinds]
    /\ session_id \in [Conns -> Sessions \cup {0}] /\ next_session \in Nat \ {0}
    /\ \A c \in Conns : session_id[c] < next_session
    /\ token \in [Conns -> Tokens] /\ player_id \in [Conns -> Tokens]
    /\ rating \in [Conns -> Ratings]
    /\ closing \subseteq Live /\ late \subseteq Live
    /\ \A c \in Conns : state[c] \in {"NEEDAUTH", "VERIFYING"} => session_id[c] \in Sessions

LEMMA QuestionIsJob ==
    ASSUME NEW c \in Conns, NEW s \in Sessions, NEW t \in Tokens
    PROVE  [type |-> "verify", conn |-> c, gen |-> s, token |-> t] \in Jobs
BY DEF Jobs, VerifyJobs

LEMMA StartVerifyServes ==
    ASSUME NEW c \in Conns, NEW s \in Sessions, loop = "events", StartVerify(c, s)
    PROVE  Submit \/ UNCHANGED wvars
<1>1. CASE AsksNothing
  BY <1>1 DEF AsksNothing
<1>2. CASE ~AsksNothing
  <2>1. PICK t \in Tokens : /\ Enqueue([type |-> "verify", conn |-> c, gen |-> s, token |-> t])
                            /\ EnqueueLeaves /\ UNCHANGED loop
    BY <1>2 DEF StartVerify
  <2> DEFINE j == [type |-> "verify", conn |-> c, gen |-> s, token |-> t]
  <2>2. j \in Jobs /\ j.type # "report"
    BY QuestionIsJob
  <2>3. Enqueue(j)
    BY <2>1
  <2> HIDE DEF j
  <2>4. QED
    BY <2>1, <2>2, <2>3 DEF Submit
<1>3. QED
  BY <1>1, <1>2

LEMMA ReportServes ==
    ASSUME ConnOK, NEW c \in Conns, NEW d \in Conns, MatchEnds(c, d)
    PROVE  Submit
<1>1. player_id[c] \in Players /\ player_id[d] \in Players
  BY DEF ConnOK, Tokens, MatchEnds
<1> DEFINE j(m) == [type |-> "report", match |-> m,
                    seats |-> [s \in 0 .. 1 |-> IF s = 0 THEN player_id[c] ELSE player_id[d]]]
<1>2. PICK m \in Matches : (\A r \in sent : r.match # m) /\ Enqueue(j(m))
  BY DEF MatchEnds
<1>3. j(m) \in Jobs /\ j(m).match = m
  BY <1>1 DEF Jobs, ReportJobs
<1>4. loop = "events" /\ EnqueueLeaves /\ UNCHANGED loop
  BY DEF MatchEnds
<1> HIDE DEF j
<1>5. QED
  BY <1>2, <1>3, <1>4 DEF Submit

\* What a step of the server is to the worker and its queues.
LEMMA StepIsWorkers == ConnOK /\ [Next]_vars => [WorkerNext]_wvars
<1> SUFFICES ASSUME ConnOK, [Next]_vars PROVE [WorkerNext]_wvars
  OBVIOUS
<1>1. ASSUME NEW c \in Conns, ConnStep(c) PROVE Submit \/ UNCHANGED wvars
  <2>1. CASE Accept(c) \/ BadMessage(c) \/ HangUp(c) \/ TimePasses(c)
    BY <2>1 DEF Accept, BadMessage, HangUp, TimePasses, AsksNothing
  <2>2. CASE Auth(c)
    <3>1. session_id[c] \in Sessions /\ loop = "events" /\ StartVerify(c, session_id[c])
      BY <2>2 DEF Auth, Reads, ConnOK
    <3>2. QED
      BY <3>1, StartVerifyServes
  <2>3. ASSUME NEW k \in Kinds, Hello(c, k) PROVE Submit \/ UNCHANGED wvars
    <3>1. next_session \in Sessions /\ loop = "events"
      BY <2>3 DEF Hello, Reads
    <3>2. AsksNothing \/ StartVerify(c, next_session)
      BY <2>3 DEF Hello
    <3>3. QED
      BY <3>1, <3>2, StartVerifyServes DEF AsksNothing
  <2>4. ASSUME NEW d \in Conns, MatchEnds(c, d) PROVE Submit
    BY <2>4, ReportServes
  <2>5. QED
    BY <1>1, <2>1, <2>2, <2>3, <2>4 DEF ConnStep
<1>2. EndRound \/ VerifyDone \/ RatingUpdate \/ Shutdown => RoundEnds \/ Pop \/ Stop
  BY DEF EndRound, VerifyDone, RatingUpdate, Shutdown
<1>3. Elsewhere => WorkerNext
  BY DEF Elsewhere, WorkerNext
<1>4. UNCHANGED vars => UNCHANGED wvars
  BY DEF vars
<1>5. QED
  BY <1>1, <1>2, <1>3, <1>4 DEF Next, WorkerNext

\* Clearing slots.
LEMMA ClearOK ==
    ASSUME ConnOK, NEW C \in SUBSET Conns, Clear(C), UNCHANGED <<options, next_session>>,
           closing' \subseteq Live \ C, late' \subseteq Live \ C
    PROVE  ConnOK'
<1>1. /\ state' \in [Conns -> {"FREE", "READY"} \cup Pending] /\ kind' \in [Conns -> Kinds]
      /\ session_id' \in [Conns -> Sessions \cup {0}]
      /\ token' \in [Conns -> Tokens] /\ player_id' \in [Conns -> Tokens]
      /\ rating' \in [Conns -> Ratings]
  BY DEF ConnOK, Clear, Kinds, Tokens, Ratings
<1>2. \A c \in Conns : session_id'[c] < next_session'
  BY DEF ConnOK, Clear
<1>3. Live' = Live \ C
  BY DEF ConnOK, Clear, Live
<1>4. \A c \in Conns : state'[c] \in {"NEEDAUTH", "VERIFYING"} => session_id'[c] \in Sessions
  BY DEF ConnOK, Clear
<1>5. QED
  BY <1>1, <1>2, <1>3, <1>4 DEF ConnOK, options

\* A connection that stays, its state changed.
LEMMA ChangeOK ==
    ASSUME ConnOK, NEW c \in Conns, NEW q \in {"READY"} \cup Pending,
           state' = [state EXCEPT ![c] = q],
           c \in Live \/ q = "CONNECTED",
           q \in {"NEEDAUTH", "VERIFYING"} => session_id'[c] \in Sessions,
           \/ UNCHANGED <<session_id, next_session>>
           \/ /\ next_session \in Sessions /\ next_session' = next_session + 1
              /\ session_id' = [session_id EXCEPT ![c] = next_session],
           kind' \in [Conns -> Kinds], token' \in [Conns -> Tokens],
           player_id' \in [Conns -> Tokens], rating' \in [Conns -> Ratings],
           closing' \subseteq closing \cup {c}, UNCHANGED <<options, late>>
    PROVE  ConnOK'
<1>1. state' \in [Conns -> {"FREE", "READY"} \cup Pending]
  BY DEF ConnOK, Pending
<1>2. /\ session_id' \in [Conns -> Sessions \cup {0}] /\ next_session' \in Nat \ {0}
      /\ \A d \in Conns : session_id'[d] < next_session'
  <2>1. /\ session_id \in [Conns -> Sessions \cup {0}] /\ next_session \in Nat \ {0}
        /\ \A d \in Conns : session_id[d] \in Nat /\ session_id[d] < next_session
    <3>1. Sessions \cup {0} \subseteq Nat
      BY SessionsOK
    <3>2. \A d \in Conns : session_id[d] \in Sessions \cup {0}
      BY DEF ConnOK
    <3>3. QED
      BY <3>1, <3>2 DEF ConnOK
  <2>2. CASE UNCHANGED <<session_id, next_session>>
    BY <2>1, <2>2
  <2>3. CASE /\ next_session \in Sessions /\ next_session' = next_session + 1
             /\ session_id' = [session_id EXCEPT ![c] = next_session]
    <3>1. \A d \in Conns : session_id'[d] = session_id[d] \/ session_id'[d] = next_session
      BY <2>1, <2>3
    <3>2. QED
      BY <2>1, <2>3, <3>1
  <2>4. QED
    BY <2>2, <2>3
<1>3. Live' = Live \cup {c}
  BY DEF ConnOK, Live, Pending
<1>4. \A d \in Conns : state'[d] \in {"NEEDAUTH", "VERIFYING"} => session_id'[d] \in Sessions
  <2>1. \A d \in Conns : d # c => state'[d] = state[d] /\ session_id'[d] = session_id[d]
    BY DEF ConnOK
  <2>2. state'[c] = q
    BY DEF ConnOK
  <2>3. QED
    BY <2>1, <2>2 DEF ConnOK
<1>5. QED
  BY <1>1, <1>2, <1>3, <1>4 DEF ConnOK, options

\* A connection that only hears an ERROR, or nothing.
LEMMA ErrorOK ==
    ASSUME ConnOK, closing' \subseteq Live, late' \subseteq Live, rating' \in [Conns -> Ratings],
           UNCHANGED <<options, next_session, state, kind, session_id, token, player_id>>
    PROVE  ConnOK'
BY DEF ConnOK, options, Live

LEMMA StartVerifyOK ==
    ASSUME ConnOK, NEW c \in Conns, c \in Live, NEW s, StartVerify(c, s), session_id'[c] \in Sessions,
           UNCHANGED <<options, player_id, rating, late>>, kind' \in [Conns -> Kinds],
           \/ UNCHANGED <<session_id, next_session>>
           \/ /\ next_session \in Sessions /\ next_session' = next_session + 1
              /\ session_id' = [session_id EXCEPT ![c] = next_session]
    PROVE  ConnOK'
<1>1. /\ closing' \subseteq closing \cup {c} /\ token' \in [Conns -> Tokens]
      /\ state' = [state EXCEPT ![c] = "VERIFYING"] \/ state' = state
  <2>1. CASE SendError(c) /\ UNCHANGED <<state, token>>
    BY <2>1 DEF SendError, ConnOK
  <2>2. ASSUME NEW t \in Tokens, state' = [state EXCEPT ![c] = "VERIFYING"], token' = [token EXCEPT ![c] = t],
               closing' = closing \/ SendError(c)
        PROVE  /\ closing' \subseteq closing \cup {c} /\ token' \in [Conns -> Tokens]
               /\ state' = [state EXCEPT ![c] = "VERIFYING"]
    BY <2>2 DEF SendError, ConnOK
  <2>3. QED
    BY <2>1, <2>2 DEF StartVerify
<1>2. PICK q \in {"READY"} \cup Pending : state' = [state EXCEPT ![c] = q]
  <2>1. state[c] \in {"READY"} \cup Pending /\ state = [state EXCEPT ![c] = state[c]]
    BY DEF ConnOK, Live
  <2>2. QED
    BY <1>1, <2>1 DEF Pending
<1>3. player_id' \in [Conns -> Tokens] /\ rating' \in [Conns -> Ratings]
  BY DEF ConnOK
<1>4. QED
  BY <1>1, <1>2, <1>3, ChangeOK

LEMMA ConnStepOK == \A c \in Conns : ConnOK /\ ConnStep(c) => ConnOK'
<1> SUFFICES ASSUME NEW c \in Conns, ConnOK, ConnStep(c) PROVE ConnOK'
  OBVIOUS
<1>1. CASE Accept(c)
  <2>1. "CONNECTED" \in {"READY"} \cup Pending
    BY DEF Pending
  <2>2. /\ state' = [state EXCEPT ![c] = "CONNECTED"]
        /\ UNCHANGED <<session_id, next_session, kind, token, player_id, rating, closing, late, options>>
    BY <1>1 DEF Accept
  <2>3. /\ kind' \in [Conns -> Kinds] /\ token' \in [Conns -> Tokens]
        /\ player_id' \in [Conns -> Tokens] /\ rating' \in [Conns -> Ratings]
    BY <2>2 DEF ConnOK
  <2>4. QED
    BY <2>1, <2>2, <2>3, ChangeOK
<1>2. CASE BadMessage(c)
  BY <1>2, ErrorOK DEF BadMessage, Reads, SendError, ConnOK
<1>3. CASE HangUp(c)
  <2>1. /\ {c} \in SUBSET Conns /\ Clear({c}) /\ UNCHANGED <<options, next_session>>
        /\ closing' = closing \ {c} /\ late' = late \ {c}
    BY <1>3 DEF HangUp
  <2>2. closing' \subseteq Live \ {c} /\ late' \subseteq Live \ {c}
    BY <2>1 DEF ConnOK
  <2>3. QED
    BY <2>1, <2>2, ClearOK
<1>4. CASE TimePasses(c)
  BY <1>4, ErrorOK DEF TimePasses, ConnOK, Pending, Live
<1>5. CASE Auth(c)
  <2>1. /\ c \in Live /\ StartVerify(c, session_id[c]) /\ session_id'[c] \in Sessions
        /\ kind' \in [Conns -> Kinds] /\ UNCHANGED <<session_id, next_session>>
        /\ UNCHANGED <<options, player_id, rating, late>>
    BY <1>5 DEF Auth, Reads, ConnOK
  <2>2. QED
    BY <2>1, StartVerifyOK
<1>6. ASSUME NEW k \in Kinds, Hello(c, k) PROVE ConnOK'
  <2>1. /\ c \in Live /\ next_session \in Sessions /\ next_session' = next_session + 1
        /\ session_id' = [session_id EXCEPT ![c] = next_session]
        /\ UNCHANGED <<options, player_id, rating, late>>
    BY <1>6 DEF Hello, Reads
  <2>2. session_id'[c] = next_session /\ kind' \in [Conns -> Kinds]
    BY <1>6 DEF Hello, ConnOK
  <2>3. CASE StartVerify(c, next_session)
    BY <2>1, <2>2, <2>3, StartVerifyOK
  <2>4. CASE ~StartVerify(c, next_session)
    <3>1. PICK q \in {"READY"} \cup Pending : /\ state' = [state EXCEPT ![c] = q]
                                              /\ UNCHANGED <<token, closing>>
      BY <1>6, <2>4 DEF Hello, Pending
    <3>2. /\ token' \in [Conns -> Tokens] /\ player_id' \in [Conns -> Tokens]
          /\ rating' \in [Conns -> Ratings]
      BY <2>1, <3>1 DEF ConnOK
    <3>3. QED
      BY <2>1, <2>2, <3>1, <3>2, ChangeOK
  <2>5. QED
    BY <2>3, <2>4
<1>7. ASSUME NEW d \in Conns, MatchEnds(c, d) PROVE ConnOK'
  BY <1>7 DEF MatchEnds, conn, options, ConnOK, Live
<1>8. QED
  BY <1>1, <1>2, <1>3, <1>4, <1>5, <1>6, <1>7 DEF ConnStep

LEMMA VerifyDoneOK == TypeOK /\ ConnOK /\ VerifyDone => ConnOK'
<1> SUFFICES ASSUME TypeOK, ConnOK, VerifyDone PROVE ConnOK'
  OBVIOUS
<1> DEFINE r == Head(rq)
           c == r.conn
<1>1. r \in VerifyAnswers
  <2>1. rq \in Seq(Answers) /\ rq # <<>> /\ r.type = "verify"
    BY DEF TypeOK, LoopOK, VerifyDone, Pop
  <2>2. r \in Answers
    BY <2>1, HeadTailProperties
  <2>3. QED
    BY <2>1, <2>2 DEF Answers, RatingAnswers
<1>2. c \in Conns /\ r.id \in Tokens /\ r.rating \in Ratings
  BY <1>1 DEF VerifyAnswers
<1>3. UNCHANGED <<options, next_session, kind, session_id, token, late>>
  BY DEF VerifyDone
<1>4. CASE ~Concerns(r)
  <2>1. UNCHANGED <<state, player_id, rating, closing>>
    BY <1>4 DEF VerifyDone
  <2>2. QED
    BY <1>3, <2>1 DEF ConnOK, options, Live
<1>5. CASE Concerns(r)
  <2>1. c \in Live /\ state[c] = "VERIFYING"
    BY <1>2, <1>5 DEF Concerns, Live
  <2>2. CASE SendError(c) /\ UNCHANGED <<state, player_id, rating>>
    BY <1>3, <2>1, <2>2, ErrorOK DEF SendError, ConnOK
  <2>3. CASE state' = [state EXCEPT ![c] = "READY"]
    <3>1. /\ player_id' \in {player_id, [player_id EXCEPT ![c] = r.id]}
          /\ rating' \in {rating, [rating EXCEPT ![c] = r.rating]}
          /\ closing' \subseteq closing \cup {c}
      BY <1>5 DEF VerifyDone, SendError
    <3> HIDE DEF r, c
    <3>2. player_id' \in [Conns -> Tokens] /\ rating' \in [Conns -> Ratings]
      BY <1>2, <3>1 DEF ConnOK
    <3>3. kind' \in [Conns -> Kinds] /\ token' \in [Conns -> Tokens]
      BY <1>3 DEF ConnOK
    <3>4. QED
      BY <1>2, <1>3, <2>1, <2>3, <3>1, <3>2, <3>3, ChangeOK
  <2>4. QED
    BY <1>5, <2>2, <2>3 DEF VerifyDone
<1>6. QED
  BY <1>4, <1>5

LEMMA RatingUpdateOK == TypeOK /\ ConnOK /\ RatingUpdate => ConnOK'
<1> SUFFICES ASSUME TypeOK, ConnOK, RatingUpdate PROVE ConnOK'
  OBVIOUS
<1> DEFINE r == Head(rq)
<1>1. r \in RatingAnswers
  <2>1. rq \in Seq(Answers) /\ rq # <<>> /\ r.type = "rating"
    BY DEF TypeOK, LoopOK, RatingUpdate, Pop
  <2>2. r \in Answers
    BY <2>1, HeadTailProperties
  <2>3. QED
    BY <2>1, <2>2 DEF Answers, VerifyAnswers
<1>2. r.ratings[0] \in Ratings /\ r.ratings[1] \in Ratings
  BY <1>1 DEF RatingAnswers, Ratings
<1>3. rating' \in [Conns -> Ratings]
  BY <1>2 DEF RatingUpdate, ConnOK
<1>4. QED
  BY <1>3, ErrorOK DEF RatingUpdate, ConnOK

LEMMA StepOK == TypeOK /\ ConnOK /\ [Next]_vars => ConnOK'
<1> SUFFICES ASSUME TypeOK, ConnOK, [Next]_vars PROVE ConnOK'
  OBVIOUS
<1>1. CASE EndRound
  <2>1. /\ closing \in SUBSET Conns /\ Clear(closing) /\ UNCHANGED <<options, next_session>>
        /\ closing' = TimedOut /\ late' = late \ closing
    BY <1>1 DEF EndRound, ConnOK, Live
  <2>2. closing' \subseteq Live \ closing /\ late' \subseteq Live \ closing
    BY <2>1 DEF TimedOut, ConnOK
  <2>3. QED
    BY <2>1, <2>2, ClearOK
<1>2. CASE Shutdown
  BY <1>2, ClearOK DEF Shutdown
<1>3. CASE Elsewhere \/ UNCHANGED vars
  BY <1>3 DEF Elsewhere, vars, conn, options, ConnOK, Live
<1>4. QED
  BY <1>1, <1>2, <1>3, ConnStepOK, VerifyDoneOK, RatingUpdateOK DEF Next

LEMMA InitOK == Init => TypeOK /\ ConnOK
<1> SUFFICES ASSUME Init PROVE ConnOK
  BY InitTypes DEF Init
<1>1. opt_noauth \in BOOLEAN /\ opt_fail_open \in BOOLEAN
  BY StartOptionsOK DEF Init
<1>2. /\ state \in [Conns -> {"FREE", "READY"} \cup Pending] /\ kind \in [Conns -> Kinds]
      /\ session_id \in [Conns -> Sessions \cup {0}] /\ next_session \in Nat \ {0}
      /\ \A c \in Conns : session_id[c] < next_session
      /\ token \in [Conns -> Tokens] /\ player_id \in [Conns -> Tokens]
      /\ rating \in [Conns -> Ratings]
      /\ closing \subseteq Live /\ late \subseteq Live
  BY DEF Init, Kinds, Tokens, Ratings
<1>3. QED
  BY <1>1, <1>2 DEF Init, ConnOK

LEMMA ServerStep == TypeOK /\ ConnOK /\ [Next]_vars => TypeOK' /\ ConnOK'
BY StepIsWorkers, TypeStep, StepOK

\* The types of all variables, of the connections' and the queues'.
THEOREM AdmissionTypeCorrect == Spec => []AdmissionTypeOK
<1>1. TypeOK /\ ConnOK => AdmissionTypeOK
  BY DEF AdmissionTypeOK, ConnOK
<1>2. QED
  BY <1>1, InitOK, ServerStep, PTL DEF Spec

\* The server uses the worker's queues as IdunaWorker says that they are used: whatever
\* is proved of WorkerSpec holds of the server, the service included.
THEOREM AdmissionUsesWorker == Spec => WorkerSpec
<1>1. Init => WorkerInit
  BY DEF Init
<1>2. QED
  BY <1>1, InitOK, ServerStep, StepIsWorkers, PTL DEF Spec, WorkerSpec

-----------------------------------------------------------------------------
(***************************************************************************)
(* Whoever is admitted is who its own token says.                          *)
(***************************************************************************)

\* The questions and the answers on their way, in the queues or in the worker's hands.
Asks    == {j \in VerifyJobs : j = job \/ \E i \in 1 .. jq_n : Queued[i] = j}
Replies == {r \in VerifyAnswers : r = answer \/ \E i \in 1 .. Len(rq) : rq[i] = r}

\* The session a question or an answer names began, and if it has the slot still then it
\* presented that token: this is what the gen of a job is for.
AskTraced(j) ==
    /\ j.gen < next_session
    /\ session_id[j.conn] = j.gen => state[j.conn] # "NEEDAUTH" /\ token[j.conn] = j.token

ReplyTraced(r) ==
    /\ r.gen < next_session
    /\ session_id[r.conn] = r.gen =>
           /\ state[r.conn] # "NEEDAUTH"
           /\ r.rc = "ok" => r.id # None /\ token[r.conn] = r.id

Traced ==
    /\ \A j \in Asks : AskTraced(j)
    /\ \A r \in Replies : ReplyTraced(r)

\* Nobody is known before it is admitted.
Nameless == \A c \in Conns : state[c] # "READY" => player_id[c] = None

\* What the worker does: it takes questions, and answers those it has.
LEMMA WorkerTraces ==
    ASSUME TypeOK, WorkerSteps \/ SpuriousWakeup \/ AgentExpires
    PROVE  /\ Asks' \subseteq Asks
           /\ \A r \in Replies' : r \in Replies \/ \E j \in Asks : r \in VerifyAnswersTo(j)
<1>1. CASE Sleep \/ SpuriousWakeup \/ Leave \/ Wake \/ AgentExpires
  <2>1. UNCHANGED <<jq, jq_head, jq_n, rq, job, answer>>
    BY <1>1 DEF Sleep, SpuriousWakeup, Leave, Wake, AgentExpires, queues
  <2>2. Queued' = Queued
    BY <2>1 DEF Queued, Slot
  <2>3. QED
    BY <2>1, <2>2 DEF Asks, Replies
<1>2. CASE Take
  <2>1. /\ Queued # <<>> /\ job' = Head(Queued) /\ Queued' = Tail(Queued)
        /\ Queued \in Seq(Jobs) /\ Len(Queued) = jq_n /\ jq_n' = jq_n - 1
        /\ jq_n \in Nat \ {0}
    BY <1>2, QueuedTake, AskedIs, QueuedIs, EmptySeq DEF Take, TypeOK
  <2>2. /\ \A i \in 1 .. jq_n' : Queued'[i] = Queued[i + 1] /\ i + 1 \in 1 .. jq_n
        /\ job' = Queued[1] /\ 1 \in 1 .. jq_n
    BY <2>1, HeadTailProperties
  <2>3. UNCHANGED <<rq, answer>>
    BY <1>2 DEF Take
  <2>4. QED
    BY <2>2, <2>3 DEF Asks, Replies
<1>3. CASE Verify
  <2>1. /\ UNCHANGED <<jq, jq_head, jq_n, rq, job>> /\ answer' \in VerifyAnswersTo(job)
        /\ job \in VerifyJobs
    BY <1>3, JobKinds DEF Verify, queues, TypeOK, WorkerOK
  <2>2. Queued' = Queued
    BY <2>1 DEF Queued, Slot
  <2>3. job \in Asks
    BY <2>1 DEF Asks
  <2>4. QED
    BY <2>1, <2>2, <2>3 DEF Asks, Replies
<1>4. CASE Login \/ Report
  <2>1. /\ UNCHANGED <<jq, jq_head, jq_n, rq>>
        /\ job' = job \/ job' = None
        /\ answer' = answer \/ answer'.type = "rating"
    BY <1>4 DEF Login, Report, Rejected, Accepted, AnswerLost, NoRatings, ReportFails, queues
  <2>2. Queued' = Queued
    BY <2>1 DEF Queued, Slot
  <2>3. None \notin VerifyJobs
    BY NoneIsNothing DEF Jobs
  <2>4. Asks' \subseteq Asks
    BY <2>1, <2>2, <2>3 DEF Asks
  <2>5. Replies' \subseteq Replies
    BY <2>1 DEF Replies, VerifyAnswers
  <2>6. QED
    BY <2>4, <2>5
<1>5. CASE Push
  <2>1. /\ UNCHANGED <<jq, jq_head, jq_n>> /\ job' = None /\ answer' = None
        /\ rq' = rq \/ rq' = Append(rq, answer)
        /\ answer \in Answers /\ rq \in Seq(Answers)
    BY <1>5 DEF Push, TypeOK, WorkerOK, LoopOK
  <2>2. Queued' = Queued
    BY <2>1 DEF Queued, Slot
  <2>3. None \notin VerifyJobs
    BY NoneIsNothing DEF Jobs
  <2>4. Asks' \subseteq Asks
    BY <2>1, <2>2, <2>3 DEF Asks
  <2>5. \A i \in 1 .. Len(rq') : rq'[i] = answer \/ \E k \in 1 .. Len(rq) : rq'[i] = rq[k]
    BY <2>1, AppendProperties, LenProperties
  <2>6. ASSUME NEW r \in Replies' PROVE r \in Replies
    <3>1. CASE \E i \in 1 .. Len(rq') : rq'[i] = r
      BY <2>5, <3>1 DEF Replies
    <3>2. r # answer'
      BY <2>1, NoneIsNothing DEF Replies, Answers
    <3>3. QED
      BY <3>1, <3>2 DEF Replies
  <2>7. QED
    BY <2>4, <2>6
<1>6. QED
  BY <1>1, <1>2, <1>3, <1>4, <1>5 DEF WorkerSteps

\* The loop's side of the queues.
LEMMA QuietTraces ==
    ASSUME UNCHANGED <<jq, jq_head, jq_n, rq, job, answer>>
    PROVE  Asks' = Asks /\ Replies' = Replies
<1>1. Queued' = Queued
  BY DEF Queued, Slot
<1>2. QED
  BY <1>1 DEF Asks, Replies

LEMMA PopTraces ==
    ASSUME TypeOK, Pop
    PROVE  /\ Asks' = Asks /\ Replies' \subseteq Replies
           /\ Head(rq).type = "verify" => Head(rq) \in Replies
<1>1. /\ rq \in Seq(Answers) /\ rq # <<>> /\ rq' = Tail(rq)
      /\ UNCHANGED <<jq, jq_head, jq_n, job, answer>>
  BY DEF Pop, LoopLeaves, TypeOK, LoopOK
<1>2. /\ Len(rq) \in Nat \ {0} /\ Len(rq') = Len(rq) - 1 /\ Head(rq) = rq[1]
      /\ \A i \in 1 .. Len(rq) - 1 : rq'[i] = rq[i + 1]
      /\ Head(rq) \in Answers
  BY <1>1, EmptySeq, HeadTailProperties
<1>3. 1 \in 1 .. Len(rq) /\ \A i \in 1 .. Len(rq') : rq'[i] = rq[i + 1] /\ i + 1 \in 1 .. Len(rq)
  BY <1>2
<1>4. Queued' = Queued
  BY <1>1 DEF Queued, Slot
<1>5. Head(rq).type = "verify" => Head(rq) \in VerifyAnswers
  BY <1>2 DEF Answers, RatingAnswers
<1>6. QED
  BY <1>1, <1>2, <1>3, <1>4, <1>5 DEF Asks, Replies

LEMMA EnqueueTraces ==
    ASSUME TypeOK, NEW j \in Jobs, Enqueue(j), EnqueueLeaves
    PROVE  (\A k \in Asks' : k \in Asks \/ k = j) /\ Replies' = Replies
<1>1. UNCHANGED <<rq, job, answer>>
  BY DEF EnqueueLeaves
<1>2. CASE ~(jq_n < JQ)
  BY <1>1, <1>2, QuietTraces DEF Enqueue, EnqueueLeaves
<1>3. CASE jq_n < JQ
  <2>1. /\ Queued' = Append(Queued, j) /\ Queued \in Seq(Jobs) /\ Len(Queued) = jq_n
        /\ jq_n \in Nat /\ jq_n' = jq_n + 1
    BY <1>3, QueuedPut, QueuedIs, AskedIs, LenProperties DEF TypeOK, Enqueue
  <2>2. \A i \in 1 .. jq_n' : Queued'[i] = j \/ (i \in 1 .. jq_n /\ Queued'[i] = Queued[i])
    BY <2>1, AppendProperties
  <2>3. QED
    BY <1>1, <2>2 DEF Asks, Replies
<1>4. QED
  BY <1>2, <1>3

\* A slot goes on with its session and its token, or has a session nobody asked about:
\* none, a new one, or one that has not asked so far.
Follows(c) ==
    \/ session_id'[c] = session_id[c] /\ token'[c] = token[c]
          /\ (state'[c] = "NEEDAUTH" => state[c] = "NEEDAUTH")
    \/ session_id'[c] = 0
    \/ session_id'[c] = next_session
    \/ session_id'[c] = session_id[c] /\ state[c] = "NEEDAUTH"

LEMMA TracedKept ==
    ASSUME ConnOK, Traced, next_session' \in {next_session, next_session + 1},
           \A c \in Conns : Follows(c),
           \A j \in Asks' : j \in Asks \/ AskTraced(j)',
           \A r \in Replies' : r \in Replies \/ ReplyTraced(r)'
    PROVE  Traced'
<1>1. next_session \in Nat /\ 0 \notin Sessions /\ Sessions \subseteq Nat
  BY SessionsOK DEF ConnOK
<1>2. ASSUME NEW j \in Asks PROVE AskTraced(j)'
  <2>1. j.conn \in Conns /\ j.gen \in Sessions /\ AskTraced(j)
    BY DEF Asks, VerifyJobs, Traced
  <2>2. j.gen < next_session /\ j.gen # 0 /\ j.gen # next_session /\ j.gen < next_session'
    BY <1>1, <2>1 DEF AskTraced
  <2>3. Follows(j.conn)
    BY <2>1
  <2>4. QED
    BY <2>1, <2>2, <2>3 DEF AskTraced, Follows
<1>3. ASSUME NEW r \in Replies PROVE ReplyTraced(r)'
  <2>1. r.conn \in Conns /\ r.gen \in Sessions /\ ReplyTraced(r)
    BY DEF Replies, VerifyAnswers, Traced
  <2>2. r.gen < next_session /\ r.gen # 0 /\ r.gen # next_session /\ r.gen < next_session'
    <3>1. r.gen < next_session
      BY <2>1 DEF ReplyTraced
    <3>2. r.gen \in Nat /\ r.gen # 0
      BY <1>1, <2>1
    <3>3. QED
      BY <1>1, <3>1, <3>2
  <2>3. Follows(r.conn)
    BY <2>1
  <2>4. QED
    BY <2>1, <2>2, <2>3 DEF ReplyTraced, Follows
<1>4. QED
  BY <1>2, <1>3 DEF Traced

\* start_verify asks about the session and the token that the connection has from now on.
LEMMA StartVerifyTraced ==
    ASSUME TypeOK, ConnOK, Traced, NEW c \in Conns, NEW s \in Sessions, StartVerify(c, s),
           session_id'[c] = s, s < next_session', next_session' \in {next_session, next_session + 1},
           \A d \in Conns : Follows(d)
    PROVE  Traced'
<1>1. CASE AsksNothing
  BY <1>1, QuietTraces, TracedKept DEF AsksNothing, wvars, queues
<1>2. CASE ~AsksNothing
  <2>1. PICK t \in Tokens : /\ Enqueue([type |-> "verify", conn |-> c, gen |-> s, token |-> t])
                            /\ EnqueueLeaves
                            /\ token' = [token EXCEPT ![c] = t]
                            /\ state' = [state EXCEPT ![c] = "VERIFYING"]
    BY <1>2 DEF StartVerify
  <2> DEFINE j == [type |-> "verify", conn |-> c, gen |-> s, token |-> t]
  <2>2. j \in Jobs
    BY QuestionIsJob
  <2>3. (\A k \in Asks' : k \in Asks \/ k = j) /\ Replies' = Replies
    BY <2>1, <2>2, EnqueueTraces
  <2>4. token'[c] = t /\ state'[c] = "VERIFYING"
    BY <2>1 DEF ConnOK
  <2>5. ASSUME NEW k \in {j} PROVE AskTraced(k)'
    BY <2>4 DEF AskTraced
  <2> HIDE DEF j
  <2>6. QED
    BY <2>3, <2>5, TracedKept
<1>3. QED
  BY <1>1, <1>2

LEMMA ConnStepTraced == \A c \in Conns : TypeOK /\ ConnOK /\ Traced /\ ConnStep(c) => Traced'
<1> SUFFICES ASSUME NEW c \in Conns, TypeOK, ConnOK, Traced, ConnStep(c) PROVE Traced'
  OBVIOUS
<1>1. CASE Accept(c) \/ BadMessage(c) \/ HangUp(c) \/ TimePasses(c)
  <2>1. AsksNothing /\ next_session' = next_session
    BY <1>1 DEF Accept, BadMessage, HangUp, TimePasses
  <2>2. \A d \in Conns : Follows(d)
    BY <1>1 DEF Accept, BadMessage, HangUp, TimePasses, Clear, Follows, ConnOK
  <2>3. QED
    BY <2>1, <2>2, QuietTraces, TracedKept DEF AsksNothing, wvars, queues
<1>2. CASE Auth(c)
  <2>1. /\ state[c] = "NEEDAUTH" /\ session_id[c] \in Sessions /\ session_id[c] < next_session
        /\ UNCHANGED <<session_id, next_session>> /\ StartVerify(c, session_id[c])
    BY <1>2 DEF Auth, ConnOK
  <2>2. \A d \in Conns : d # c => state'[d] = state[d] /\ token'[d] = token[d]
    BY <2>1 DEF StartVerify, ConnOK
  <2>3. \A d \in Conns : Follows(d)
    BY <2>1, <2>2 DEF Follows
  <2>4. QED
    BY <2>1, <2>3, StartVerifyTraced
<1>3. ASSUME NEW k \in Kinds, Hello(c, k) PROVE Traced'
  <2>1. /\ next_session \in Sessions /\ next_session \in Nat /\ next_session' = next_session + 1
        /\ session_id' = [session_id EXCEPT ![c] = next_session]
    BY <1>3 DEF Hello, ConnOK
  <2>2. session_id'[c] = next_session /\ next_session < next_session'
    BY <2>1 DEF ConnOK
  <2>3. \A d \in Conns : d # c => /\ state'[d] = state[d] /\ token'[d] = token[d]
                                  /\ session_id'[d] = session_id[d]
    BY <1>3, <2>1 DEF Hello, StartVerify, ConnOK
  <2>4. \A d \in Conns : Follows(d)
    BY <2>2, <2>3 DEF Follows
  <2>5. CASE StartVerify(c, next_session)
    BY <2>1, <2>2, <2>4, <2>5, StartVerifyTraced
  <2>6. CASE AsksNothing
    BY <2>1, <2>4, <2>6, QuietTraces, TracedKept DEF AsksNothing, wvars, queues
  <2>7. QED
    BY <1>3, <2>5, <2>6 DEF Hello
<1>4. ASSUME NEW d \in Conns, MatchEnds(c, d) PROVE Traced'
  <2>1. player_id[c] \in Players /\ player_id[d] \in Players
    BY <1>4 DEF ConnOK, Tokens, MatchEnds
  <2> DEFINE j(m) == [type |-> "report", match |-> m,
                      seats |-> [s \in 0 .. 1 |-> IF s = 0 THEN player_id[c] ELSE player_id[d]]]
  <2>2. PICK m \in Matches : Enqueue(j(m)) /\ EnqueueLeaves
    BY <1>4 DEF MatchEnds
  <2>3. j(m) \in Jobs /\ j(m) \notin VerifyJobs
    BY <2>1 DEF Jobs, ReportJobs, VerifyJobs
  <2> HIDE DEF j
  <2>4. (\A k \in Asks' : k \in Asks \/ k = j(m)) /\ Replies' = Replies
    BY <2>2, <2>3, EnqueueTraces
  <2>5. \A k \in Asks' : k \in Asks
    BY <2>3, <2>4 DEF Asks
  <2>6. next_session' = next_session /\ \A e \in Conns : Follows(e)
    BY <1>4 DEF MatchEnds, conn, Follows
  <2>7. QED
    BY <2>4, <2>5, <2>6, TracedKept
<1>5. QED
  BY <1>1, <1>2, <1>3, <1>4 DEF ConnStep

LEMMA TracedStep == TypeOK /\ ConnOK /\ Traced /\ [Next]_vars => Traced'
<1> SUFFICES ASSUME TypeOK, ConnOK, Traced, [Next]_vars PROVE Traced'
  OBVIOUS
<1>1. CASE EndRound \/ Shutdown
  <2>1. UNCHANGED <<jq, jq_head, jq_n, rq, job, answer>> /\ next_session' = next_session
    BY <1>1 DEF EndRound, Shutdown, RoundEnds, Stop, LoopLeaves
  <2>2. \A c \in Conns : Follows(c)
    BY <1>1 DEF EndRound, Shutdown, Clear, Follows
  <2>3. QED
    BY <2>1, <2>2, QuietTraces, TracedKept
<1>2. CASE VerifyDone \/ RatingUpdate
  <2>1. Pop /\ UNCHANGED <<next_session, session_id, token>>
    BY <1>2 DEF VerifyDone, RatingUpdate
  <2>2. state' = state \/ state' = [state EXCEPT ![Head(rq).conn] = "READY"]
    BY <1>2 DEF VerifyDone, RatingUpdate
  <2>3. \A c \in Conns : state'[c] = state[c] \/ state'[c] = "READY"
    BY <2>2 DEF ConnOK
  <2>4. \A c \in Conns : Follows(c)
    BY <2>1, <2>3 DEF Follows
  <2>5. QED
    BY <2>1, <2>4, PopTraces, TracedKept
<1>3. CASE Elsewhere
  <2>1. next_session' = next_session /\ \A c \in Conns : Follows(c)
    BY <1>3 DEF Elsewhere, conn, Follows
  <2>2. CASE WorkerSteps \/ SpuriousWakeup \/ AgentExpires
    <3>1. /\ Asks' \subseteq Asks
          /\ \A r \in Replies' : r \in Replies \/ \E j \in Asks : r \in VerifyAnswersTo(j)
      BY <2>2, WorkerTraces
    <3>2. ASSUME NEW j \in Asks, NEW r \in VerifyAnswersTo(j) PROVE ReplyTraced(r)'
      <4>1. /\ r.conn = j.conn /\ r.gen = j.gen /\ r.id \in {j.token, None}
            /\ r.rc = "ok" <=> r.id # None
        BY DEF VerifyAnswersTo
      <4>2. AskTraced(j)
        BY DEF Traced
      <4>3. UNCHANGED <<next_session, session_id, state, token>>
        BY <1>3 DEF Elsewhere, conn
      <4>4. QED
        BY <4>1, <4>2, <4>3 DEF AskTraced, ReplyTraced
    <3>3. QED
      BY <2>1, <3>1, <3>2, TracedKept
  <2>3. CASE PollReturns \/ Drained \/ Joined
    <3>1. UNCHANGED <<jq, jq_head, jq_n, rq, job, answer>>
      BY <2>3 DEF PollReturns, Drained, Joined, LoopLeaves, queues
    <3>2. QED
      BY <2>1, <3>1, QuietTraces, TracedKept
  <2>4. QED
    BY <1>3, <2>2, <2>3 DEF Elsewhere
<1>4. CASE UNCHANGED vars
  <2>1. UNCHANGED <<jq, jq_head, jq_n, rq, job, answer, next_session, session_id, state, token>>
    BY <1>4 DEF vars, wvars, queues, conn
  <2>2. QED
    BY <2>1, QuietTraces, TracedKept DEF Follows
<1>5. QED
  BY <1>1, <1>2, <1>3, <1>4, ConnStepTraced DEF Next

\* An answer to a connection's own question admits it as whom its token names.
LEMMA VerifyDoneAdmits ==
    ASSUME TypeOK, ConnOK, Traced, Nameless, AdmittedAsItself, VerifyDone
    PROVE  Nameless' /\ AdmittedAsItself'
<1> DEFINE r == Head(rq)
           c == r.conn
<1>1. /\ UNCHANGED <<options, kind, token, session_id>>
      /\ Pop /\ r.type = "verify"
  BY DEF VerifyDone
<1>2. r \in Replies
  BY <1>1, PopTraces
<1>3. c \in Conns /\ ReplyTraced(r)
  BY <1>2 DEF Replies, VerifyAnswers, Traced
<1>4. CASE UNCHANGED <<state, player_id>>
  BY <1>1, <1>4 DEF Nameless, AdmittedAsItself, options
<1>5. CASE ~UNCHANGED <<state, player_id>>
  <2>1. Concerns(r)
    BY <1>5 DEF VerifyDone
  <2>2. /\ state' = [state EXCEPT ![c] = "READY"] /\ state[c] = "VERIFYING" /\ session_id[c] = r.gen
        /\ \/ /\ r.rc = "ok" /\ kind[c] = KindOf(r.id)
              /\ player_id' = [player_id EXCEPT ![c] = r.id]
           \/ opt_fail_open /\ player_id' = player_id
    BY <1>5, <2>1 DEF VerifyDone, Concerns
  <2> HIDE DEF r, c
  <2>3. r.rc = "ok" => r.id # None /\ token[c] = r.id
    BY <1>3, <2>2 DEF ReplyTraced, c
  <2>4. \A d \in Conns : d # c => state'[d] = state[d] /\ player_id'[d] = player_id[d]
    BY <2>2 DEF ConnOK
  <2>5. state'[c] = "READY" /\ state[c] # "READY"
    BY <1>3, <2>2 DEF ConnOK
  <2>6. \/ player_id'[c] # None /\ player_id'[c] = token[c] /\ kind[c] = KindOf(token[c])
        \/ player_id'[c] = None /\ opt_fail_open
    BY <1>3, <2>2, <2>3, <2>5 DEF Nameless, ConnOK
  <2>7. QED
    BY <1>1, <2>4, <2>5, <2>6 DEF Nameless, AdmittedAsItself, options
<1>6. QED
  BY <1>4, <1>5

LEMMA ConnStepAdmits ==
    \A c \in Conns : ConnOK /\ Nameless /\ AdmittedAsItself /\ ConnStep(c) => Nameless' /\ AdmittedAsItself'
<1> SUFFICES ASSUME NEW c \in Conns, ConnOK, Nameless, AdmittedAsItself, ConnStep(c)
             PROVE  Nameless' /\ AdmittedAsItself'
  OBVIOUS
<1>1. CASE HangUp(c)
  BY <1>1 DEF HangUp, Clear, options, Nameless, AdmittedAsItself
<1>2. CASE BadMessage(c) \/ TimePasses(c) \/ \E d \in Conns : MatchEnds(c, d)
  BY <1>2 DEF BadMessage, TimePasses, MatchEnds, conn, options, Nameless, AdmittedAsItself
<1>3. CASE Accept(c) \/ Auth(c) \/ \E k \in Kinds : Hello(c, k)
  <2>1. UNCHANGED <<options, player_id>> /\ state[c] # "READY"
    BY <1>3 DEF Accept, Auth, Hello
  <2>2. /\ state'[c] = "READY" => opt_noauth
        /\ \A d \in Conns : d # c => /\ state'[d] = state[d] /\ token'[d] = token[d]
                                     /\ kind'[d] = kind[d]
    <3>1. CASE Accept(c)
      BY <3>1 DEF Accept, ConnOK
    <3>2. CASE Auth(c)
      BY <3>2 DEF Auth, StartVerify, ConnOK
    <3>3. ASSUME NEW k \in Kinds, Hello(c, k)
          PROVE  /\ state'[c] = "READY" => opt_noauth
                 /\ \A d \in Conns : d # c => /\ state'[d] = state[d] /\ token'[d] = token[d]
                                              /\ kind'[d] = kind[d]
      BY <3>3 DEF Hello, StartVerify, ConnOK
    <3>4. QED
      BY <1>3, <3>1, <3>2, <3>3
  <2>3. QED
    BY <2>1, <2>2 DEF Nameless, AdmittedAsItself, options
<1>4. QED
  BY <1>1, <1>2, <1>3 DEF ConnStep

LEMMA StepAdmits ==
    TypeOK /\ ConnOK /\ Traced /\ Nameless /\ AdmittedAsItself /\ [Next]_vars
        => Nameless' /\ AdmittedAsItself'
<1> SUFFICES ASSUME TypeOK, ConnOK, Traced, Nameless, AdmittedAsItself, [Next]_vars
             PROVE  Nameless' /\ AdmittedAsItself'
  OBVIOUS
<1>1. CASE EndRound \/ Shutdown
  BY <1>1 DEF EndRound, Shutdown, Clear, options, Nameless, AdmittedAsItself
<1>2. CASE RatingUpdate \/ Elsewhere \/ UNCHANGED vars
  BY <1>2 DEF RatingUpdate, Elsewhere, vars, conn, options, Nameless, AdmittedAsItself
<1>3. QED
  BY <1>1, <1>2, ConnStepAdmits, VerifyDoneAdmits DEF Next

LEMMA InitTraced == Init => Traced
<1> SUFFICES ASSUME Init PROVE Traced
  OBVIOUS
<1>1. jq_n = 0 /\ rq = <<>> /\ job = None /\ answer = None
  BY DEF Init, WorkerInit
<1>2. None \notin VerifyJobs /\ None \notin VerifyAnswers
  BY NoneIsNothing DEF Jobs, Answers
<1>3. Asks = {} /\ Replies = {}
  BY <1>1, <1>2 DEF Asks, Replies
<1>4. QED
  BY <1>3 DEF Traced

\* Nobody is admitted by the answer to somebody else's question: slots are used again and
\* answers come late, but a question and its answer name the session they belong to.
THEOREM AdmittedAsItselfAlways == Spec => []AdmittedAsItself
<1>1. Init => Nameless /\ AdmittedAsItself
  BY DEF Init, Nameless, AdmittedAsItself
<1>2. QED
  BY <1>1, InitOK, InitTraced, ServerStep, TracedStep, StepAdmits, PTL DEF Spec

-----------------------------------------------------------------------------
(***************************************************************************)
(* A connection that waits for its verification has one question on its    *)
(* way.                                                                    *)
(***************************************************************************)

\* A question of session g of connection c, in the ring or in the worker's hands, or its answer
Asking(j, c, g) == j.type = "verify" /\ j.conn = c /\ j.gen = g

\* There is one at most, and it is somewhere, or its answer found rq full.
Single(c, g) ==
    /\ \A i, k \in InRing(c, g) : i = k
    /\ \A i, k \in InResults(c, g) : i = k
    /\ InRing(c, g) # {} => ~InHand(c, g) /\ InResults(c, g) = {}
    /\ InHand(c, g) => InResults(c, g) = {}

Nowhere(c, g) == InRing(c, g) = {} /\ ~InHand(c, g) /\ InResults(c, g) = {}
Somewhere(c, g) == ~Nowhere(c, g) \/ g \in dropped

QuestionsKept ==
    /\ \A c \in Conns, g \in Sessions : Single(c, g)
    /\ \A c \in Conns : state[c] = "VERIFYING" /\ c \notin closing => Somewhere(c, session_id[c])

LEMMA AtMostOne ==
    ASSUME NEW S, \A i, k \in S : i = k
    PROVE  Cardinality(S) = IF S = {} THEN 0 ELSE 1
<1>1. CASE S = {}
  BY <1>1, FS_EmptySet
<1>2. CASE S # {}
  <2>1. PICK x : x \in S
    BY <1>2
  <2>2. S = {x}
    BY <2>1
  <2>3. QED
    BY <1>2, <2>2, FS_Singleton
<1>3. QED
  BY <1>1, <1>2

LEMMA QuestionsAreOpen == ConnOK /\ QuestionsKept => QuestionOpen
<1> SUFFICES ASSUME ConnOK, QuestionsKept, NEW c \in Conns, state[c] = "VERIFYING", c \notin closing
             PROVE  LET ring    == InRing(c, session_id[c])
                        results == InResults(c, session_id[c])
                        inHand  == InHand(c, session_id[c])
                    IN  /\ ring # {} \/ inHand \/ results # {} \/ session_id[c] \in dropped
                        /\ Cardinality(ring) + Cardinality(results) + (IF inHand THEN 1 ELSE 0) <= 1
  BY DEF QuestionOpen
<1> DEFINE g == session_id[c]
<1>1. Single(c, g) /\ Somewhere(c, g)
  BY DEF QuestionsKept, ConnOK
<1>2. /\ Cardinality(InRing(c, g)) = IF InRing(c, g) = {} THEN 0 ELSE 1
      /\ Cardinality(InResults(c, g)) = IF InResults(c, g) = {} THEN 0 ELSE 1
  BY <1>1, AtMostOne DEF Single
<1> HIDE DEF g
<1>3. Cardinality(InRing(c, g)) + Cardinality(InResults(c, g)) + (IF InHand(c, g) THEN 1 ELSE 0) <= 1
  BY <1>1, <1>2 DEF Single
<1>4. QED
  BY <1>1, <1>3 DEF Somewhere, Nowhere, g

\* Steps that leave both queues and the worker's hands.
LEMMA QuestionsRest ==
    ASSUME NEW c, NEW g, UNCHANGED <<jq, jq_head, jq_n, rq, dropped>>, InHand(c, g)' <=> InHand(c, g)
    PROVE  /\ Single(c, g) => Single(c, g)'
           /\ Somewhere(c, g) => Somewhere(c, g)'
<1>1. Queued' = Queued
  BY DEF Queued, Slot
<1>2. InRing(c, g)' = InRing(c, g) /\ InResults(c, g)' = InResults(c, g)
  BY <1>1 DEF InRing, InResults
<1>3. QED
  BY <1>2 DEF Single, Somewhere, Nowhere

LEMMA QuestionsTaken ==
    ASSUME TypeOK, Take, NEW c, NEW g
    PROVE  /\ Single(c, g) => Single(c, g)'
           /\ Somewhere(c, g) => Somewhere(c, g)'
<1>1. /\ Queued # <<>> /\ job' = Head(Queued) /\ Queued' = Tail(Queued)
      /\ Queued \in Seq(Jobs) /\ Len(Queued) = jq_n /\ jq_n' = jq_n - 1
      /\ jq_n \in Nat \ {0}
  BY QueuedTake, AskedIs, QueuedIs, EmptySeq DEF Take, TypeOK
<1>2. /\ \A i \in 1 .. jq_n' : Queued'[i] = Queued[i + 1] /\ i + 1 \in 1 .. jq_n
      /\ job' = Queued[1] /\ 1 \in 1 .. jq_n
  BY <1>1, HeadTailProperties
<1>3. /\ worker = "run" /\ worker' = "work" /\ InResults(c, g)' = InResults(c, g)
      /\ dropped' = dropped
  BY DEF Take, InResults, iduna
<1>4. ~InHand(c, g) /\ (InHand(c, g)' <=> 1 \in InRing(c, g))
  BY <1>2, <1>3 DEF InHand, InRing
<1>5. /\ \A i \in InRing(c, g)' : i \in 1 .. jq_n' /\ i + 1 \in InRing(c, g)
      /\ \A i \in InRing(c, g) : i = 1 \/ i - 1 \in InRing(c, g)'
  <2>1. \A i \in InRing(c, g)' : i \in 1 .. jq_n' /\ i + 1 \in InRing(c, g)
    BY <1>2 DEF InRing
  <2>2. ASSUME NEW i \in InRing(c, g), i # 1 PROVE i - 1 \in InRing(c, g)'
    <3>1. i \in 1 .. jq_n /\ Asking(Queued[i], c, g)
      BY DEF InRing, Asking
    <3>2. i - 1 \in 1 .. jq_n' /\ (i - 1) + 1 = i
      BY <1>1, <2>2, <3>1
    <3>3. Queued'[i - 1] = Queued[i]
      BY <1>2, <3>2
    <3>4. QED
      BY <3>1, <3>2, <3>3 DEF InRing, Asking
  <2>3. QED
    BY <2>1, <2>2
<1>6. Single(c, g) => Single(c, g)'
  <2> SUFFICES ASSUME Single(c, g) PROVE Single(c, g)'
    OBVIOUS
  <2>1. ASSUME NEW i \in InRing(c, g)', NEW k \in InRing(c, g)' PROVE i = k
    <3>1. i + 1 = k + 1 /\ i \in 1 .. jq_n' /\ k \in 1 .. jq_n'
      BY <1>5 DEF Single
    <3>2. QED
      BY <1>1, <3>1
  <2>2. ASSUME NEW i \in InRing(c, g)' PROVE ~InHand(c, g)'
    <3>1. i + 1 \in InRing(c, g) /\ i + 1 # 1
      BY <1>1, <1>5
    <3>2. QED
      BY <1>4, <3>1 DEF Single
  <2>3. InRing(c, g)' # {} \/ InHand(c, g)' => InRing(c, g) # {}
    BY <1>4, <1>5
  <2>4. QED
    BY <1>3, <2>1, <2>2, <2>3 DEF Single
<1>7. Somewhere(c, g) => Somewhere(c, g)'
  BY <1>3, <1>4, <1>5 DEF Somewhere, Nowhere
<1>8. QED
  BY <1>6, <1>7

LEMMA QuestionsPushed ==
    ASSUME TypeOK, FitsJob, Push, NEW c, NEW g
    PROVE  /\ Single(c, g) => Single(c, g)'
           /\ Somewhere(c, g) => Somewhere(c, g)'
<1>1. /\ worker = "push" /\ worker' = "wake" /\ UNCHANGED <<jq, jq_head, jq_n>>
      /\ answer \in Answers /\ job \in Jobs /\ rq \in Seq(Answers) /\ Len(rq) \in Nat
  BY LenProperties DEF Push, TypeOK, WorkerOK, LoopOK
<1>2. InRing(c, g)' = InRing(c, g) /\ ~InHand(c, g)'
  <2>1. Queued' = Queued
    BY <1>1 DEF Queued, Slot
  <2>2. QED
    BY <1>1, <2>1 DEF InRing, InHand
<1>3. InHand(c, g) <=> Asking(answer, c, g)
  <2>1. Essence(answer) \in Essences(job)
    BY <1>1 DEF FitsJob
  <2>2. CASE answer \in VerifyAnswers
    <3>1. Essence(answer) = [conn |-> answer.conn, gen |-> answer.gen, id |-> answer.id] /\ answer.type = "verify"
      BY <2>2 DEF VerifyAnswers, Essence
    <3>2. job.type = "verify" /\ answer.conn = job.conn /\ answer.gen = job.gen
      BY <2>1, <3>1 DEF Essences
    <3>3. QED
      BY <1>1, <3>1, <3>2 DEF InHand, Asking
  <2>3. CASE answer \in RatingAnswers
    <3>1. Essence(answer) = [pid |-> answer.pid] /\ answer.type # "verify"
      BY <2>3 DEF RatingAnswers, Essence
    <3>2. job.type # "verify"
      BY <2>1, <3>1 DEF Essences
    <3>3. QED
      BY <3>1, <3>2 DEF InHand, Asking
  <2>4. QED
    BY <1>1, <2>2, <2>3 DEF Answers
<1>4. CASE Len(rq) < JQ
  <2>1. rq' = Append(rq, answer) /\ dropped' = dropped
    BY <1>4 DEF Push
  <2>2. /\ Len(rq') = Len(rq) + 1 /\ rq'[Len(rq) + 1] = answer
        /\ \A i \in 1 .. Len(rq) : rq'[i] = rq[i]
    BY <1>1, <2>1, AppendProperties
  <2>3. InResults(c, g)' = IF InHand(c, g) THEN InResults(c, g) \cup {Len(rq) + 1} ELSE InResults(c, g)
    <3>1. \A i \in 1 .. Len(rq') : i \in 1 .. Len(rq) \/ i = Len(rq) + 1
      BY <1>1, <2>2
    <3>2. Len(rq) + 1 \in 1 .. Len(rq') /\ Len(rq) + 1 \notin 1 .. Len(rq) /\ 1 .. Len(rq) \subseteq 1 .. Len(rq')
      BY <1>1, <2>2
    <3>3. QED
      BY <1>3, <2>2, <3>1, <3>2 DEF InResults, Asking
  <2>4. QED
    BY <1>2, <2>1, <2>3 DEF Single, Somewhere, Nowhere
<1>5. CASE ~(Len(rq) < JQ)
  <2>1. rq' = rq /\ dropped \subseteq dropped'
    BY <1>5 DEF Push
  <2>2. InHand(c, g) => g \in dropped'
    BY <1>3, <1>5 DEF Push, Asking
  <2>3. InResults(c, g)' = InResults(c, g)
    BY <2>1 DEF InResults
  <2>4. QED
    BY <1>2, <2>1, <2>2, <2>3 DEF Single, Somewhere, Nowhere
<1>6. QED
  BY <1>4, <1>5

\* The worker's steps move a question on, or leave it where it is.
LEMMA WorkerMoves ==
    ASSUME TypeOK, FitsJob, WorkerSteps \/ SpuriousWakeup \/ AgentExpires, NEW c, NEW g
    PROVE  /\ Single(c, g) => Single(c, g)'
           /\ Somewhere(c, g) => Somewhere(c, g)'
<1>1. CASE Sleep \/ SpuriousWakeup \/ Leave \/ Wake \/ Verify \/ AgentExpires
  <2>1. UNCHANGED <<jq, jq_head, jq_n, rq, dropped, job>>
    BY <1>1 DEF Sleep, SpuriousWakeup, Leave, Wake, Verify, AgentExpires, queues, iduna
  <2>2. worker' \in {"work", "push"} <=> worker \in {"work", "push"}
    BY <1>1 DEF Sleep, SpuriousWakeup, Leave, Wake, Verify, AgentExpires
  <2>3. QED
    BY <2>1, <2>2, QuestionsRest DEF InHand
<1>2. CASE Login \/ Report
  <2>1. UNCHANGED <<jq, jq_head, jq_n, rq, dropped>> /\ job.type = "report"
    BY <1>2 DEF Login, Report, Rejected, Accepted, AnswerLost, NoRatings, ReportFails, queues
  <2>2. job' = job \/ worker' = "run"
    BY <1>2 DEF Login, Report, Rejected, Accepted, AnswerLost, NoRatings, ReportFails
  <2>3. ~InHand(c, g) /\ ~InHand(c, g)'
    BY <2>1, <2>2 DEF InHand
  <2>4. QED
    BY <2>1, <2>3, QuestionsRest
<1>3. QED
  BY <1>1, <1>2, QuestionsTaken, QuestionsPushed DEF WorkerSteps

LEMMA PopMoves ==
    ASSUME TypeOK, Pop, NEW c, NEW g
    PROVE  /\ Single(c, g) => Single(c, g)'
           /\ Somewhere(c, g) /\ ~Asking(Head(rq), c, g) => Somewhere(c, g)'
<1>1. /\ rq \in Seq(Answers) /\ rq # <<>> /\ rq' = Tail(rq)
      /\ UNCHANGED <<jq, jq_head, jq_n, worker, job, dropped>>
  BY DEF Pop, LoopLeaves, TypeOK, LoopOK, iduna
<1>2. /\ Len(rq) \in Nat \ {0} /\ Len(rq') = Len(rq) - 1 /\ Head(rq) = rq[1]
      /\ \A i \in 1 .. Len(rq) - 1 : rq'[i] = rq[i + 1]
  BY <1>1, EmptySeq, HeadTailProperties
<1>3. InRing(c, g)' = InRing(c, g) /\ (InHand(c, g)' <=> InHand(c, g))
  <2>1. Queued' = Queued
    BY <1>1 DEF Queued, Slot
  <2>2. QED
    BY <1>1, <2>1 DEF InRing, InHand
<1>4. \A i \in InResults(c, g)' : i \in 1 .. Len(rq) - 1 /\ i + 1 \in InResults(c, g)
  <2>1. \A i \in 1 .. Len(rq) - 1 : i + 1 \in 1 .. Len(rq)
    BY <1>2
  <2>2. QED
    BY <1>2, <2>1 DEF InResults
<1>5. ASSUME NEW i \in InResults(c, g), i # 1 PROVE i - 1 \in InResults(c, g)'
  <2>1. i \in 1 .. Len(rq) /\ Asking(rq[i], c, g)
    BY DEF InResults, Asking
  <2>2. i - 1 \in 1 .. Len(rq') /\ (i - 1) + 1 = i
    BY <1>2, <1>5, <2>1
  <2>3. rq'[i - 1] = rq[i]
    BY <1>2, <2>2
  <2>4. QED
    BY <2>1, <2>2, <2>3 DEF InResults, Asking
<1>6. Single(c, g) => Single(c, g)'
  <2> SUFFICES ASSUME Single(c, g) PROVE Single(c, g)'
    OBVIOUS
  <2>1. ASSUME NEW i \in InResults(c, g)', NEW k \in InResults(c, g)' PROVE i = k
    <3>1. i + 1 = k + 1 /\ i \in 1 .. Len(rq) - 1 /\ k \in 1 .. Len(rq) - 1
      BY <1>4 DEF Single
    <3>2. QED
      BY <1>2, <3>1
  <2>2. InResults(c, g)' # {} => InResults(c, g) # {}
    BY <1>4
  <2>3. QED
    BY <1>3, <2>1, <2>2 DEF Single
<1>7. Somewhere(c, g) /\ ~Asking(Head(rq), c, g) => Somewhere(c, g)'
  <2>1. ~Asking(Head(rq), c, g) => 1 \notin InResults(c, g)
    BY <1>2 DEF InResults, Asking
  <2>2. QED
    BY <1>1, <1>3, <1>5, <2>1 DEF Somewhere, Nowhere
<1>8. QED
  BY <1>6, <1>7

LEMMA EnqueueMoves ==
    ASSUME TypeOK, NEW j \in Jobs, Enqueue(j), EnqueueLeaves, NEW c, NEW g
    PROVE  /\ Single(c, g) /\ (Asking(j, c, g) => Nowhere(c, g)) => Single(c, g)'
           /\ Somewhere(c, g) => Somewhere(c, g)'
           /\ Asking(j, c, g) /\ jq_n < JQ => Somewhere(c, g)'
<1>1. /\ UNCHANGED <<rq, job, dropped>>
      /\ worker' = worker \/ (worker = "asleep" /\ worker' = "run")
  BY DEF EnqueueLeaves, Enqueue, Signal, iduna
<1>2. InResults(c, g)' = InResults(c, g) /\ (InHand(c, g)' <=> InHand(c, g))
  BY <1>1 DEF InResults, InHand
<1>3. CASE ~(jq_n < JQ)
  <2>1. UNCHANGED <<jq, jq_head, jq_n>>
    BY <1>3 DEF Enqueue, EnqueueLeaves
  <2>2. QED
    BY <1>1, <1>2, <1>3, <2>1, QuestionsRest
<1>4. CASE jq_n < JQ
  <2>1. /\ Queued' = Append(Queued, j) /\ Queued \in Seq(Jobs) /\ Len(Queued) = jq_n
        /\ jq_n \in Nat /\ jq_n' = jq_n + 1
    BY <1>4, QueuedPut, QueuedIs, AskedIs, LenProperties DEF TypeOK, Enqueue
  <2>2. /\ \A i \in 1 .. jq_n : Queued'[i] = Queued[i] /\ i \in 1 .. jq_n'
        /\ Queued'[jq_n'] = j /\ jq_n' \in 1 .. jq_n'
        /\ \A i \in 1 .. jq_n' : i \in 1 .. jq_n \/ i = jq_n'
    BY <2>1, AppendProperties
  <2>3. InRing(c, g)' = IF Asking(j, c, g) THEN InRing(c, g) \cup {jq_n'} ELSE InRing(c, g)
    BY <2>2 DEF InRing, Asking
  <2>4. QED
    BY <1>1, <1>2, <2>3 DEF Single, Somewhere, Nowhere
<1>5. QED
  BY <1>3, <1>4

\* What the connections do beside: a connection goes on waiting only for a question that it
\* waited for, or that was just put.
LEMMA WaitingKept ==
    ASSUME ConnOK', QuestionsKept,
           \A c \in Conns, g \in Sessions : Single(c, g) => Single(c, g)',
           \A c \in Conns, g \in Sessions : state'[c] = "VERIFYING" /\ c \notin closing' /\ session_id'[c] = g =>
               \/ Somewhere(c, g)'
               \/ /\ state[c] = "VERIFYING" /\ c \notin closing /\ session_id[c] = g
                  /\ Somewhere(c, g) => Somewhere(c, g)'
    PROVE  QuestionsKept'
<1>1. \A c \in Conns, g \in Sessions : Single(c, g)'
  BY DEF QuestionsKept
<1>2. ASSUME NEW c \in Conns, state'[c] = "VERIFYING", c \notin closing'
      PROVE  Somewhere(c, session_id[c])'
  <2>1. PICK g \in Sessions : session_id'[c] = g
    BY <1>2 DEF ConnOK
  <2>2. Somewhere(c, g)'
    BY <1>2, <2>1 DEF QuestionsKept
  <2>3. QED
    BY <2>1, <2>2 DEF Somewhere, Nowhere, InRing, InHand, InResults
<1>3. QED
  BY <1>1, <1>2 DEF QuestionsKept

\* A session that is new, or has not asked so far, has no question on its way.
LEMMA NobodyAsked ==
    ASSUME TypeOK, Traced, NEW c \in Conns, NEW s \in Sessions,
           ~(s < next_session) \/ (session_id[c] = s /\ state[c] = "NEEDAUTH")
    PROVE  Nowhere(c, s)
<1>1. ASSUME NEW j \in Jobs, Asking(j, c, s), j = job \/ \E i \in 1 .. jq_n : Queued[i] = j PROVE FALSE
  <2>1. j \in Asks
    BY <1>1, JobKinds DEF Asks, Asking
  <2>2. QED
    BY <1>1, <2>1 DEF Traced, AskTraced, Asking
<1>2. ASSUME NEW r \in Answers, Asking(r, c, s), \E i \in 1 .. Len(rq) : rq[i] = r PROVE FALSE
  <2>1. r \in VerifyAnswers
    BY <1>2 DEF Answers, RatingAnswers, Asking
  <2>2. r \in Replies
    BY <1>2, <2>1 DEF Replies
  <2>3. QED
    BY <1>2, <2>2 DEF Traced, ReplyTraced, Asking
<1>3. InRing(c, s) = {}
  <2>1. \A i \in 1 .. jq_n : Queued[i] \in Jobs
    BY QueuedIs, ElementOfSeq DEF TypeOK
  <2>2. QED
    BY <1>1, <2>1 DEF InRing, Asking
<1>4. ~InHand(c, s)
  BY <1>1 DEF InHand, Asking, TypeOK, WorkerOK
<1>5. InResults(c, s) = {}
  <2>1. \A i \in 1 .. Len(rq) : rq[i] \in Answers
    BY ElementOfSeq DEF TypeOK, LoopOK
  <2>2. QED
    BY <1>2, <2>1 DEF InResults, Asking
<1>6. QED
  BY <1>3, <1>4, <1>5 DEF Nowhere

LEMMA QuestionsAllRest ==
    ASSUME UNCHANGED <<jq, jq_head, jq_n, rq, dropped, worker, job>>
    PROVE  \A c \in Conns, g \in Sessions : /\ Single(c, g) => Single(c, g)'
                                            /\ Somewhere(c, g) => Somewhere(c, g)'
BY QuestionsRest DEF InHand

LEMMA StartVerifyAsks ==
    ASSUME TypeOK, ConnOK, ConnOK', QuestionsKept, NEW c \in Conns, NEW s \in Sessions, StartVerify(c, s),
           Nowhere(c, s), state[c] # "VERIFYING", session_id'[c] = s,
           \A d \in Conns : d # c => session_id'[d] = session_id[d]
    PROVE  QuestionsKept'
<1>1. CASE SendError(c) /\ AsksNothing /\ UNCHANGED <<state, token>>
  <2>1. UNCHANGED <<jq, jq_head, jq_n, rq, dropped, worker, job, state>> /\ closing' = closing \cup {c}
    BY <1>1 DEF AsksNothing, wvars, queues, iduna, SendError
  <2>2. QED
    BY <2>1, QuestionsAllRest, WaitingKept
<1>2. ASSUME NEW t \in Tokens,
             state' = [state EXCEPT ![c] = "VERIFYING"],
             Enqueue([type |-> "verify", conn |-> c, gen |-> s, token |-> t]), EnqueueLeaves,
             IF jq_n < JQ THEN UNCHANGED closing ELSE SendError(c)
      PROVE  QuestionsKept'
  <2> DEFINE j == [type |-> "verify", conn |-> c, gen |-> s, token |-> t]
  <2>1. j \in Jobs /\ Asking(j, c, s) /\ \A d, g : Asking(j, d, g) => d = c /\ g = s
    BY QuestionIsJob DEF Asking
  <2>2. Enqueue(j)
    BY <1>2
  <2> HIDE DEF j
  <2>3. ASSUME NEW d \in Conns, NEW g \in Sessions
        PROVE  /\ Single(d, g) => Single(d, g)'
               /\ Somewhere(d, g) => Somewhere(d, g)'
    BY <1>2, <2>1, <2>2, EnqueueMoves
  <2>4. jq_n < JQ => Somewhere(c, s)'
    BY <1>2, <2>1, <2>2, EnqueueMoves
  <2>5. closing \subseteq closing' /\ (~(jq_n < JQ) => c \in closing')
    BY <1>2 DEF SendError
  <2>6. \A d \in Conns : d # c => state'[d] = state[d]
    BY <1>2 DEF ConnOK
  <2>7. QED
    BY <2>3, <2>4, <2>5, <2>6, WaitingKept
<1>3. QED
  BY <1>1, <1>2 DEF StartVerify

LEMMA ConnStepAsks ==
    \A c \in Conns : TypeOK /\ ConnOK /\ ConnOK' /\ Traced /\ QuestionsKept /\ ConnStep(c) => QuestionsKept'
<1> SUFFICES ASSUME NEW c \in Conns, TypeOK, ConnOK, ConnOK', Traced, QuestionsKept, ConnStep(c)
             PROVE  QuestionsKept'
  OBVIOUS
<1>1. CASE Accept(c) \/ BadMessage(c) \/ HangUp(c) \/ TimePasses(c)
  <2>1. UNCHANGED <<jq, jq_head, jq_n, rq, dropped, worker, job>>
    BY <1>1 DEF Accept, BadMessage, HangUp, TimePasses, AsksNothing, wvars, queues, iduna
  <2>2. \A d \in Conns : state'[d] = "VERIFYING" /\ d \notin closing' =>
            state[d] = "VERIFYING" /\ d \notin closing /\ session_id'[d] = session_id[d]
    BY <1>1 DEF Accept, BadMessage, HangUp, TimePasses, SendError, Clear, ConnOK
  <2>3. QED
    BY <2>1, <2>2, QuestionsAllRest, WaitingKept
<1>2. CASE Auth(c)
  <2>1. /\ state[c] = "NEEDAUTH" /\ session_id[c] \in Sessions /\ session_id' = session_id
        /\ StartVerify(c, session_id[c])
    BY <1>2 DEF Auth, ConnOK
  <2>2. Nowhere(c, session_id[c])
    BY <2>1, NobodyAsked
  <2>3. QED
    BY <2>1, <2>2, StartVerifyAsks
<1>3. ASSUME NEW k \in Kinds, Hello(c, k) PROVE QuestionsKept'
  <2>1. /\ next_session \in Sessions /\ next_session \in Nat /\ state[c] = "CONNECTED"
        /\ session_id' = [session_id EXCEPT ![c] = next_session]
    BY <1>3 DEF Hello, ConnOK
  <2>2. session_id'[c] = next_session /\ \A d \in Conns : d # c => session_id'[d] = session_id[d]
    BY <2>1 DEF ConnOK
  <2>3. CASE StartVerify(c, next_session)
    <3>1. Nowhere(c, next_session)
      BY <2>1, NobodyAsked
    <3>2. QED
      BY <2>1, <2>2, <2>3, <3>1, StartVerifyAsks
  <2>4. CASE AsksNothing /\ UNCHANGED closing /\ \E q \in {"READY", "NEEDAUTH"} : state' = [state EXCEPT ![c] = q]
    <3>1. UNCHANGED <<jq, jq_head, jq_n, rq, dropped, worker, job, closing>>
      BY <2>4 DEF AsksNothing, wvars, queues, iduna
    <3>2. \A d \in Conns : state'[d] = "VERIFYING" => state[d] = "VERIFYING" /\ d # c
      BY <2>4 DEF ConnOK
    <3>3. QED
      BY <2>2, <3>1, <3>2, QuestionsAllRest, WaitingKept
  <2>5. QED
    BY <1>3, <2>3, <2>4 DEF Hello
<1>4. ASSUME NEW d \in Conns, MatchEnds(c, d) PROVE QuestionsKept'
  <2>1. player_id[c] \in Players /\ player_id[d] \in Players
    BY <1>4 DEF ConnOK, Tokens, MatchEnds
  <2> DEFINE j(m) == [type |-> "report", match |-> m,
                      seats |-> [s \in 0 .. 1 |-> IF s = 0 THEN player_id[c] ELSE player_id[d]]]
  <2>2. PICK m \in Matches : Enqueue(j(m)) /\ EnqueueLeaves
    BY <1>4 DEF MatchEnds
  <2>3. j(m) \in Jobs /\ \A e, g : ~Asking(j(m), e, g)
    BY <2>1 DEF Jobs, ReportJobs, Asking
  <2> HIDE DEF j
  <2>4. ASSUME NEW e \in Conns, NEW g \in Sessions
        PROVE  /\ Single(e, g) => Single(e, g)'
               /\ Somewhere(e, g) => Somewhere(e, g)'
    BY <2>2, <2>3, EnqueueMoves
  <2>5. UNCHANGED <<state, closing, session_id>>
    BY <1>4 DEF MatchEnds, conn
  <2>6. QED
    BY <2>4, <2>5, WaitingKept
<1>5. QED
  BY <1>1, <1>2, <1>3, <1>4 DEF ConnStep

LEMMA QuestionsStep ==
    TypeOK /\ FitsJob /\ ConnOK /\ ConnOK' /\ Traced /\ QuestionsKept /\ [Next]_vars => QuestionsKept'
<1> SUFFICES ASSUME TypeOK, FitsJob, ConnOK, ConnOK', Traced, QuestionsKept, [Next]_vars
             PROVE  QuestionsKept'
  OBVIOUS
<1>1. CASE EndRound \/ Shutdown
  <2>1. /\ UNCHANGED <<jq, jq_head, jq_n, rq, job, dropped>>
        /\ worker' \in {"work", "push"} <=> worker \in {"work", "push"}
    BY <1>1 DEF EndRound, Shutdown, RoundEnds, Stop, Signal, LoopLeaves, iduna
  <2>2. \A c \in Conns : state'[c] = "VERIFYING" =>
            state[c] = "VERIFYING" /\ c \notin closing /\ session_id'[c] = session_id[c]
    BY <1>1 DEF EndRound, Shutdown, Clear
  <2>3. \A c, g : /\ Single(c, g) => Single(c, g)'
                  /\ Somewhere(c, g) => Somewhere(c, g)'
    BY <2>1, QuestionsRest DEF InHand
  <2>4. QED
    BY <2>2, <2>3, WaitingKept
<1>2. CASE VerifyDone
  <2> DEFINE r == Head(rq)
  <2>1. Pop /\ r.type = "verify" /\ UNCHANGED session_id
    BY <1>2 DEF VerifyDone
  <2>2. r.conn \in Conns
    <3>1. r \in Replies
      BY <2>1, PopTraces
    <3>2. QED
      BY <3>1 DEF Replies, VerifyAnswers
  <2>3. /\ ~Concerns(r) => UNCHANGED <<state, closing>>
        /\ Concerns(r) => \/ state' = [state EXCEPT ![r.conn] = "READY"] /\ closing' = closing
                          \/ state' = state /\ closing' = closing \cup {r.conn}
    BY <1>2 DEF VerifyDone, SendError
  <2>4. ASSUME NEW c \in Conns, NEW g \in Sessions,
               state'[c] = "VERIFYING", c \notin closing', session_id'[c] = g
        PROVE  /\ state[c] = "VERIFYING" /\ c \notin closing /\ session_id[c] = g
               /\ ~Asking(r, c, g)
    <3>1. state[c] = "VERIFYING" /\ c \notin closing /\ session_id[c] = g
      BY <2>1, <2>2, <2>3, <2>4 DEF ConnOK
    <3>2. Concerns(r) => c # r.conn
      BY <2>2, <2>3, <2>4 DEF ConnOK
    <3>3. QED
      BY <3>1, <3>2 DEF Concerns, Asking
  <2>5. QED
    BY <2>1, <2>4, PopMoves, WaitingKept
<1>3. CASE RatingUpdate
  <2>1. Pop /\ UNCHANGED <<state, closing, session_id>> /\ \A c, g : ~Asking(Head(rq), c, g)
    BY <1>3 DEF RatingUpdate, Asking
  <2>2. QED
    BY <2>1, PopMoves, WaitingKept
<1>4. CASE Elsewhere
  <2>1. UNCHANGED <<state, closing, session_id>>
    BY <1>4 DEF Elsewhere, conn
  <2>2. CASE WorkerSteps \/ SpuriousWakeup \/ AgentExpires
    BY <2>1, <2>2, WorkerMoves, WaitingKept
  <2>3. CASE PollReturns \/ Drained \/ Joined
    <3>1. UNCHANGED <<jq, jq_head, jq_n, rq, dropped, worker, job>>
      BY <2>3 DEF PollReturns, Drained, Joined, LoopLeaves, queues, iduna
    <3>2. QED
      BY <2>1, <3>1, QuestionsAllRest, WaitingKept
  <2>4. QED
    BY <1>4, <2>2, <2>3 DEF Elsewhere
<1>5. CASE UNCHANGED vars
  <2>1. UNCHANGED <<jq, jq_head, jq_n, rq, dropped, worker, job, state, closing, session_id>>
    BY <1>5 DEF vars, wvars, queues, iduna, conn
  <2>2. QED
    BY <2>1, QuestionsAllRest, WaitingKept
<1>6. QED
  BY <1>1, <1>2, <1>3, <1>4, <1>5, ConnStepAsks DEF Next

\* A connection that waits has one question or answer on its way through both queues, never
\* none and never two, unless its answer found rq full.
THEOREM OneQuestionOpen == Spec => []QuestionOpen
<1>1. Init => QuestionsKept /\ FitsJob
  <2> SUFFICES ASSUME Init PROVE QuestionsKept /\ FitsJob
    OBVIOUS
  <2>1. jq_n = 0 /\ rq = <<>> /\ worker = "run" /\ \A c \in Conns : state[c] = "FREE"
    BY DEF Init, WorkerInit
  <2>2. \A c, g : InRing(c, g) = {} /\ InResults(c, g) = {} /\ ~InHand(c, g)
    BY <2>1 DEF InRing, InResults, InHand
  <2>3. QED
    BY <2>1, <2>2 DEF QuestionsKept, Single, FitsJob
<1>2. TypeOK /\ FitsJob /\ ConnOK /\ [Next]_vars => FitsJob'
  BY StepIsWorkers, FitsJobStep
<1>3. QED
  BY <1>1, <1>2, InitOK, InitTraced, ServerStep, TracedStep, QuestionsStep, QuestionsAreOpen, PTL DEF Spec

-----------------------------------------------------------------------------
(***************************************************************************)
(* The server's ratings follow IDUNA's.                                    *)
(***************************************************************************)

\* An answer brings player p a new rating, and what an answer says p's rating is
Brings(x, p) == x.type = "rating" /\ p \in {x.pid[0], x.pid[1]}
Says(x, p, v) == \/ x.type = "verify" /\ x.id = p /\ x.rating = v /\ v # -1
                 \/ x.type = "rating" /\ \E s \in 0 .. 1 : x.pid[s] = p /\ x.ratings[s] = v

\* What is said of a player is what IDUNA has recorded, unless a new rating comes behind it:
\* both queues keep their order, and the worker works on one job at a time.
InHandOf(p)   == worker = "push" /\ Brings(answer, p)
Behind(i, p)  == InHandOf(p) \/ \E k \in i + 1 .. Len(rq) : Brings(rq[k], p)
SaidInQueue   == \A i \in 1 .. Len(rq), p \in Players \ unheard, v \in Int :
                     Says(rq[i], p, v) /\ ~Behind(i, p) => v = RatingOf(p, recorded)
SaidInHand    == worker = "push" =>
                     \A p \in Players \ unheard, v \in Int : Says(answer, p, v) => v = RatingOf(p, recorded)
RatingsFollow == SaidInQueue /\ SaidInHand /\ RatingsCurrent

LEMMA ComesIs ==
    /\ \A p : RatingComes(p) <=> InHandOf(p) \/ \E i \in 1 .. Len(rq) : Brings(rq[i], p)
    /\ \A p : RatingComes(p)' <=> InHandOf(p)' \/ \E i \in 1 .. Len(rq') : Brings(rq'[i], p)
BY DEF RatingComes, InHandOf, Brings

\* A report changes the ratings of its two players only.
LEMMA OthersUnrated ==
    ASSUME NEW results, NEW r, NEW p, p \notin {r.seats[0], r.seats[1]}
    PROVE  RatingOf(p, results \cup {r}) = RatingOf(p, results)
<1>1. {x \in results \cup {r} : p \in {x.seats[0], x.seats[1]}} = {x \in results : p \in {x.seats[0], x.seats[1]}}
  OBVIOUS
<1>2. QED
  BY <1>1 DEF RatingOf

\* Steps that leave the answers, what IDUNA has recorded and the ratings of those known.
LEMMA FollowsSame ==
    ASSUME RatingsFollow, UNCHANGED <<rq, recorded>>, unheard \subseteq unheard',
           UNCHANGED <<worker, answer>> \/ (worker # "push" /\ worker' # "push"),
           \A c \in Conns : player_id'[c] = None \/ (player_id'[c] = player_id[c] /\ rating'[c] = rating[c])
    PROVE  RatingsFollow'
<1>1. \A p : InHandOf(p)' <=> InHandOf(p)
  BY DEF InHandOf
<1>2. SaidInQueue'
  BY <1>1 DEF RatingsFollow, SaidInQueue, Behind
<1>3. SaidInHand'
  BY DEF RatingsFollow, SaidInHand
<1>4. \A p : RatingComes(p)' <=> RatingComes(p)
  BY DEF RatingComes
<1>5. RatingsCurrent'
  BY <1>4 DEF RatingsFollow, RatingsCurrent
<1>6. QED
  BY <1>2, <1>3, <1>5 DEF RatingsFollow

\* The worker is done with a report, and nobody hears of it: the players it concerns are
\* those of whom the server does not know what IDUNA knows.
LEMMA FollowsUnheard ==
    ASSUME RatingsFollow, worker = "work", worker' = "run", UNCHANGED <<rq, player_id, rating>>,
           \/ recorded' = recorded /\ unheard \subseteq unheard'
           \/ recorded' = recorded \cup {job} /\ unheard' = unheard \cup {job.seats[0], job.seats[1]}
    PROVE  RatingsFollow'
<1>1. \A p : ~InHandOf(p) /\ ~InHandOf(p)'
  BY DEF InHandOf
<1>2. ASSUME NEW p, p \notin unheard'
      PROVE  p \notin unheard /\ RatingOf(p, recorded') = RatingOf(p, recorded)
  BY <1>2, OthersUnrated
<1>3. SaidInQueue'
  BY <1>1, <1>2 DEF RatingsFollow, SaidInQueue, Behind
<1>4. SaidInHand'
  BY DEF SaidInHand
<1>5. \A p : RatingComes(p)' <=> RatingComes(p)
  BY DEF RatingComes
<1>6. RatingsCurrent'
  BY <1>2, <1>5 DEF RatingsFollow, RatingsCurrent
<1>7. QED
  BY <1>3, <1>4, <1>6 DEF RatingsFollow

\* A recorded report: its players' new ratings are in the worker's hands.
LEMMA FollowsAccepted ==
    ASSUME TypeOK, RatingsFollow, Report, Accepted, UNCHANGED <<player_id, rating>>
    PROVE  RatingsFollow'
<1>1. /\ worker = "work" /\ worker' = "push" /\ recorded' = recorded \cup {job} /\ unheard' = unheard /\ rq' = rq
      /\ answer' = [type |-> "rating", pid |-> job.seats,
                    ratings |-> [s \in 0 .. 1 |-> RatingOf(job.seats[s], recorded')]]
  BY DEF Report, Accepted, queues
<1>2. /\ answer'.type = "rating" /\ answer'.pid = job.seats
      /\ \A s \in 0 .. 1 : answer'.ratings[s] = RatingOf(job.seats[s], recorded')
  BY <1>1
<1>3. \A p : InHandOf(p)' <=> p \in {job.seats[0], job.seats[1]}
  BY <1>1, <1>2 DEF InHandOf, Brings
<1>4. \A p : ~InHandOf(p)' => RatingOf(p, recorded') = RatingOf(p, recorded) /\ ~InHandOf(p)
  BY <1>1, <1>3, OthersUnrated DEF InHandOf
<1>5. SaidInQueue'
  BY <1>1, <1>4 DEF RatingsFollow, SaidInQueue, Behind
<1>6. SaidInHand'
  BY <1>2 DEF SaidInHand, Says
<1>7. RatingsCurrent'
  BY <1>1, <1>4, ComesIs DEF RatingsFollow, RatingsCurrent
<1>8. QED
  BY <1>5, <1>6, <1>7 DEF RatingsFollow

\* A verification reads the rating that IDUNA has now, or none.
LEMMA FollowsVerify ==
    ASSUME TypeOK, RatingsFollow, Verify, UNCHANGED <<player_id, rating>>
    PROVE  RatingsFollow'
<1>1. /\ worker = "work" /\ worker' = "push" /\ answer' \in VerifyAnswersTo(job)
      /\ UNCHANGED <<rq, recorded, unheard>>
  BY DEF Verify, queues, iduna
<1>2. answer'.type = "verify"
  BY <1>1 DEF VerifyAnswersTo
<1>3. \A p : ~InHandOf(p) /\ ~InHandOf(p)'
  BY <1>1, <1>2 DEF InHandOf, Brings
<1>4. SaidInQueue'
  BY <1>1, <1>3 DEF RatingsFollow, SaidInQueue, Behind
<1>5. ASSUME NEW p \in Players, NEW v, Says(answer', p, v) PROVE v = RatingOf(p, recorded)
  <2>1. answer'.id = p /\ answer'.rating = v /\ v # -1 /\ p # None
    BY <1>2, <1>5, NoneIsNothing DEF Says
  <2>2. p = job.token /\ v \in {RatingOf(q, recorded) : q \in {job.token} \ {None}}
    BY <1>1, <2>1 DEF VerifyAnswersTo
  <2>3. QED
    BY <2>2
<1>6. SaidInHand'
  BY <1>1, <1>5 DEF SaidInHand
<1>7. RatingsCurrent'
  BY <1>1, <1>3, ComesIs DEF RatingsFollow, RatingsCurrent
<1>8. QED
  BY <1>4, <1>6, <1>7 DEF RatingsFollow

\* An answer is put behind the others, or dropped, and then it is known who heard nothing.
LEMMA FollowsPush ==
    ASSUME TypeOK, RatingsFollow, Push, UNCHANGED <<player_id, rating>>
    PROVE  RatingsFollow'
<1>1. /\ worker = "push" /\ worker' = "wake" /\ recorded' = recorded /\ unheard \subseteq unheard'
      /\ answer \in Answers /\ rq \in Seq(Answers) /\ Len(rq) \in Nat
  BY LenProperties DEF Push, TypeOK, WorkerOK, LoopOK
<1>2. \A p : ~InHandOf(p)' /\ (InHandOf(p) <=> Brings(answer, p))
  BY <1>1 DEF InHandOf
<1>3. SaidInHand'
  BY <1>1 DEF SaidInHand
<1>4. CASE Len(rq) < JQ
  <2>1. rq' = Append(rq, answer) /\ unheard' = unheard
    BY <1>4 DEF Push
  <2>2. /\ Len(rq') = Len(rq) + 1 /\ rq'[Len(rq) + 1] = answer /\ Len(rq) + 1 \in 1 .. Len(rq')
        /\ \A i \in 1 .. Len(rq) : rq'[i] = rq[i] /\ i \in 1 .. Len(rq')
        /\ \A i \in 1 .. Len(rq') : i \in 1 .. Len(rq) \/ i = Len(rq) + 1
    BY <1>1, <2>1, AppendProperties
  <2>3. ASSUME NEW i \in 1 .. Len(rq), NEW p PROVE Behind(i, p) => Behind(i, p)'
    <3>1. /\ \A k \in i + 1 .. Len(rq) : k \in i + 1 .. Len(rq') /\ rq'[k] = rq[k]
          /\ Len(rq) + 1 \in i + 1 .. Len(rq')
      BY <1>1, <2>2
    <3>2. QED
      BY <1>2, <2>2, <3>1 DEF Behind
  <2>4. SaidInQueue'
    <3> SUFFICES ASSUME NEW i \in 1 .. Len(rq'), NEW p \in Players \ unheard, NEW v \in Int,
                        Says(rq'[i], p, v), ~Behind(i, p)'
                 PROVE  v = RatingOf(p, recorded)
      BY <1>1, <2>1 DEF SaidInQueue
    <3>1. CASE i \in 1 .. Len(rq)
      BY <2>2, <2>3, <3>1 DEF RatingsFollow, SaidInQueue
    <3>2. CASE i = Len(rq) + 1
      BY <1>1, <2>2, <3>2 DEF RatingsFollow, SaidInHand
    <3>3. QED
      BY <2>2, <3>1, <3>2
  <2>5. \A p : RatingComes(p) => RatingComes(p)'
    BY <1>2, <2>2, ComesIs
  <2>6. RatingsCurrent'
    BY <1>1, <2>1, <2>5 DEF RatingsFollow, RatingsCurrent
  <2>7. QED
    BY <1>3, <2>4, <2>6 DEF RatingsFollow
<1>5. CASE ~(Len(rq) < JQ)
  <2>1. rq' = rq
    BY <1>5 DEF Push
  <2>2. \A p : InHandOf(p) => p \in unheard'
    BY <1>2, <1>5 DEF Push, Brings
  <2>3. SaidInQueue'
    BY <1>1, <2>1, <2>2 DEF RatingsFollow, SaidInQueue, Behind
  <2>4. \A p : RatingComes(p) => RatingComes(p)' \/ p \in unheard'
    BY <2>1, <2>2, ComesIs
  <2>5. RatingsCurrent'
    BY <1>1, <2>4 DEF RatingsFollow, RatingsCurrent
  <2>6. QED
    BY <1>3, <2>3, <2>5 DEF RatingsFollow
<1>6. QED
  BY <1>4, <1>5

\* The worker's steps.
LEMMA WorkerFollows ==
    ASSUME TypeOK, RatingsFollow, WorkerSteps \/ SpuriousWakeup \/ AgentExpires, UNCHANGED <<player_id, rating>>
    PROVE  RatingsFollow'
<1>1. CASE Sleep \/ SpuriousWakeup \/ Leave \/ Take \/ Wake
  <2>1. UNCHANGED <<rq, recorded, unheard>> /\ worker # "push" /\ worker' # "push"
    BY <1>1 DEF Sleep, SpuriousWakeup, Leave, Take, Wake, queues, iduna
  <2>2. QED
    BY <2>1, FollowsSame
<1>2. CASE AgentExpires \/ UNCHANGED <<worker, answer, rq, recorded, unheard>>
  <2>1. UNCHANGED <<worker, answer, rq, recorded, unheard>>
    BY <1>2 DEF AgentExpires, queues
  <2>2. QED
    BY <2>1, FollowsSame
<1>3. ASSUME worker = "work", ReportFails(recorded) \/ ReportFails(recorded \cup {job}) PROVE RatingsFollow'
  <2>1. worker' = "run" /\ UNCHANGED rq
    BY <1>3 DEF ReportFails, queues
  <2>2. \/ recorded' = recorded /\ unheard \subseteq unheard'
        \/ recorded' = recorded \cup {job} /\ unheard' = unheard \cup {job.seats[0], job.seats[1]}
    BY <1>3 DEF ReportFails
  <2>3. QED
    BY <1>3, <2>1, <2>2, FollowsUnheard
<1>4. CASE Login
  BY <1>2, <1>3, <1>4 DEF Login, queues
<1>5. CASE Report
  <2>1. worker = "work"
    BY <1>5 DEF Report
  <2>2. CASE Rejected
    BY <1>2, <1>3, <2>1, <2>2 DEF Rejected, queues
  <2>3. CASE AnswerLost
    BY <1>3, <2>1, <2>3 DEF AnswerLost
  <2>4. CASE NoRatings
    BY <2>1, <2>4, FollowsUnheard DEF NoRatings, queues
  <2>5. QED
    BY <1>5, <2>2, <2>3, <2>4, FollowsAccepted DEF Report
<1>6. QED
  BY <1>1, <1>2, <1>4, <1>5, FollowsVerify, FollowsPush DEF WorkerSteps

\* What an answer that is popped says is true if no new rating of that player comes then.
LEMMA PopTells ==
    ASSUME TypeOK, RatingsFollow, Pop
    PROVE  /\ SaidInQueue' /\ SaidInHand'
           /\ Head(rq) \in Answers
           /\ \A p : RatingComes(p) => RatingComes(p)' \/ Brings(Head(rq), p)
           /\ \A p \in Players \ unheard, v \in Int :
                  Says(Head(rq), p, v) /\ ~RatingComes(p)' => v = RatingOf(p, recorded)
<1>1. /\ rq \in Seq(Answers) /\ rq # <<>> /\ rq' = Tail(rq)
      /\ UNCHANGED <<worker, answer, recorded, unheard>>
  BY DEF Pop, LoopLeaves, TypeOK, LoopOK, iduna
<1>2. /\ Len(rq) \in Nat \ {0} /\ Len(rq') = Len(rq) - 1 /\ Head(rq) = rq[1] /\ Head(rq) \in Answers
      /\ \A i \in 1 .. Len(rq) - 1 : rq'[i] = rq[i + 1]
  BY <1>1, EmptySeq, HeadTailProperties
<1>3. \A p : InHandOf(p)' <=> InHandOf(p)
  BY <1>1 DEF InHandOf
<1>4. ASSUME NEW i \in 0 .. Len(rq) - 1, NEW p, NEW k \in i + 2 .. Len(rq), Brings(rq[k], p)
      PROVE  \E l \in i + 1 .. Len(rq') : Brings(rq'[l], p)
  <2>1. k - 1 \in i + 1 .. Len(rq') /\ k - 1 \in 1 .. Len(rq) - 1 /\ (k - 1) + 1 = k
    BY <1>2
  <2>2. rq'[k - 1] = rq[k]
    BY <1>2, <2>1
  <2>3. QED
    BY <1>4, <2>1, <2>2
<1>5. SaidInQueue'
  <2> SUFFICES ASSUME NEW i \in 1 .. Len(rq'), NEW p \in Players \ unheard, NEW v \in Int,
                      Says(rq'[i], p, v), ~Behind(i, p)'
               PROVE  v = RatingOf(p, recorded)
    BY <1>1 DEF SaidInQueue
  <2>1. i + 1 \in 1 .. Len(rq) /\ rq'[i] = rq[i + 1] /\ i \in 0 .. Len(rq) - 1 /\ i + 1 + 1 = i + 2
    BY <1>2
  <2>2. ~Behind(i + 1, p)
    BY <1>3, <1>4, <2>1 DEF Behind
  <2>3. QED
    BY <2>1, <2>2 DEF RatingsFollow, SaidInQueue
<1>6. SaidInHand'
  BY <1>1 DEF RatingsFollow, SaidInHand
<1>7. 0 \in 0 .. Len(rq) - 1 /\ 0 + 2 = 2 /\ 0 + 1 = 1 /\ 1 + 1 = 2 /\ 1 \in 1 .. Len(rq)
  BY <1>2
<1>8. \A p : (\E k \in 2 .. Len(rq) : Brings(rq[k], p)) => \E l \in 1 .. Len(rq') : Brings(rq'[l], p)
  BY <1>4, <1>7
<1>9. \A p : RatingComes(p) => RatingComes(p)' \/ Brings(Head(rq), p)
  <2>1. \A k \in 1 .. Len(rq) : k = 1 \/ k \in 2 .. Len(rq)
    BY <1>2
  <2>2. QED
    BY <1>2, <1>3, <1>8, <2>1, ComesIs
<1>10. \A p : ~RatingComes(p)' => ~Behind(1, p)
  BY <1>3, <1>7, <1>8, ComesIs DEF Behind
<1>11. QED
  BY <1>2, <1>5, <1>6, <1>7, <1>9, <1>10 DEF RatingsFollow, SaidInQueue

LEMMA VerifyDoneFollows == TypeOK /\ ConnOK /\ RatingsFollow /\ VerifyDone => RatingsFollow'
<1> SUFFICES ASSUME TypeOK, ConnOK, RatingsFollow, VerifyDone PROVE RatingsFollow'
  OBVIOUS
<1> DEFINE r == Head(rq)
<1>1. Pop /\ r.type = "verify" /\ UNCHANGED <<recorded, unheard>>
  BY DEF VerifyDone, Pop, LoopLeaves, iduna
<1>2. /\ SaidInQueue' /\ SaidInHand' /\ r \in Answers
      /\ \A p : RatingComes(p) => RatingComes(p)' \/ Brings(r, p)
      /\ \A p \in Players \ unheard, v \in Int : Says(r, p, v) /\ ~RatingComes(p)' => v = RatingOf(p, recorded)
  BY <1>1, PopTells
<1>3. r.conn \in Conns /\ r.id \in Tokens /\ r.rating \in Int
  BY <1>1, <1>2 DEF Answers, VerifyAnswers, RatingAnswers, Ratings
<1>4. \/ UNCHANGED <<player_id, rating>>
      \/ player_id' = [player_id EXCEPT ![r.conn] = r.id] /\ rating' = [rating EXCEPT ![r.conn] = r.rating]
  BY DEF VerifyDone
<1> HIDE DEF r
<1>5. \A p : RatingComes(p) => RatingComes(p)'
  BY <1>1, <1>2 DEF Brings
<1>6. ASSUME NEW c \in Conns, NEW p, p = player_id'[c], p # None, rating'[c] # -1, p \notin unheard,
             ~RatingComes(p)'
      PROVE  rating'[c] = RatingOf(p, recorded)
  <2>1. CASE player_id'[c] = player_id[c] /\ rating'[c] = rating[c]
    <3>1. p = player_id[c] /\ rating[c] # -1 /\ ~RatingComes(p)
      BY <1>5, <1>6, <2>1
    <3>2. QED
      BY <1>6, <2>1, <3>1 DEF RatingsFollow, RatingsCurrent
  <2>2. CASE player_id'[c] = r.id /\ rating'[c] = r.rating
    <3>1. p = r.id /\ r.rating # -1 /\ p \in Players \ unheard
      BY <1>3, <1>6, <2>2 DEF Tokens
    <3>2. Says(r, p, r.rating)
      BY <1>1, <3>1 DEF Says
    <3>3. r.rating = RatingOf(p, recorded)
      BY <1>2, <1>3, <1>6, <3>1, <3>2
    <3>4. QED
      BY <2>2, <3>3
  <2>3. QED
    BY <1>3, <1>4, <2>1, <2>2 DEF ConnOK
<1>7. RatingsCurrent'
  <2> SUFFICES ASSUME NEW c \in Conns, NEW p, p = player_id'[c],
                      p # None, rating'[c] # -1, p \notin unheard, ~RatingComes(player_id[c])'
               PROVE  rating'[c] = RatingOf(p, recorded)
    BY <1>1 DEF RatingsCurrent
  <2>1. ~RatingComes(p)'
    BY DEF RatingComes
  <2>2. QED
    BY <1>6, <2>1
<1>8. QED
  BY <1>2, <1>7 DEF RatingsFollow

LEMMA RatingUpdateFollows == TypeOK /\ ConnOK /\ RatingsFollow /\ RatingUpdate => RatingsFollow'
<1> SUFFICES ASSUME TypeOK, ConnOK, RatingsFollow, RatingUpdate PROVE RatingsFollow'
  OBVIOUS
<1> DEFINE r == Head(rq)
<1>1. Pop /\ r.type = "rating" /\ UNCHANGED <<recorded, unheard, player_id>>
  BY DEF RatingUpdate, Pop, LoopLeaves, iduna
<1>2. /\ SaidInQueue' /\ SaidInHand' /\ r \in Answers
      /\ \A p : RatingComes(p) => RatingComes(p)' \/ Brings(r, p)
      /\ \A p \in Players \ unheard, v \in Int : Says(r, p, v) /\ ~RatingComes(p)' => v = RatingOf(p, recorded)
  BY <1>1, PopTells
<1>3. r.ratings[0] \in Int /\ r.ratings[1] \in Int
  BY <1>1, <1>2 DEF Answers, VerifyAnswers, RatingAnswers
<1>4. \A c \in Conns : \/ player_id[c] = r.pid[0] /\ rating'[c] = r.ratings[0]
                       \/ player_id[c] = r.pid[1] /\ rating'[c] = r.ratings[1]
                       \/ player_id[c] \notin {r.pid[0], r.pid[1]} /\ rating'[c] = rating[c]
  BY DEF RatingUpdate, Holders
<1> HIDE DEF r
<1>5. ASSUME NEW c \in Conns, player_id[c] # None, rating'[c] # -1, player_id[c] \notin unheard,
             ~RatingComes(player_id[c])'
      PROVE  rating'[c] = RatingOf(player_id[c], recorded)
  <2> DEFINE p == player_id[c]
  <2>1. p \in Players /\ p \notin unheard
    BY <1>5 DEF ConnOK, Tokens
  <2>2. CASE p = r.pid[0] /\ rating'[c] = r.ratings[0]
    <3>1. Says(r, p, r.ratings[0])
      BY <1>1, <2>2 DEF Says
    <3>2. QED
      BY <1>1, <1>2, <1>3, <1>5, <2>1, <2>2, <3>1 DEF RatingComes
  <2>3. CASE p = r.pid[1] /\ rating'[c] = r.ratings[1]
    <3>1. Says(r, p, r.ratings[1])
      BY <1>1, <2>3 DEF Says
    <3>2. QED
      BY <1>1, <1>2, <1>3, <1>5, <2>1, <2>3, <3>1 DEF RatingComes
  <2>4. CASE p \notin {r.pid[0], r.pid[1]} /\ rating'[c] = rating[c]
    <3>1. ~Brings(r, p)
      BY <2>4 DEF Brings
    <3>2. ~RatingComes(p)
      BY <1>1, <1>2, <1>5, <3>1 DEF RatingComes
    <3>3. QED
      BY <1>5, <2>4, <3>2 DEF RatingsFollow, RatingsCurrent
  <2>5. QED
    BY <1>4, <2>2, <2>3, <2>4
<1>6. RatingsCurrent'
  BY <1>1, <1>5 DEF RatingsCurrent
<1>7. QED
  BY <1>2, <1>6 DEF RatingsFollow

\* What the connections do leaves the answers alone; a slot that is cleared forgets its player.
LEMMA ConnStepFollows ==
    \A c \in Conns : ConnOK /\ RatingsFollow /\ ConnStep(c) => RatingsFollow'
<1> SUFFICES ASSUME NEW c \in Conns, ConnOK, RatingsFollow, ConnStep(c) PROVE RatingsFollow'
  OBVIOUS
<1>1. CASE Accept(c) \/ BadMessage(c) \/ HangUp(c) \/ TimePasses(c)
  <2>1. UNCHANGED <<rq, recorded, unheard, worker, answer>>
    BY <1>1 DEF Accept, BadMessage, HangUp, TimePasses, AsksNothing, wvars, queues, iduna
  <2>2. \A d \in Conns : player_id'[d] = None \/ (player_id'[d] = player_id[d] /\ rating'[d] = rating[d])
    BY <1>1 DEF Accept, BadMessage, HangUp, TimePasses, Clear
  <2>3. QED
    BY <2>1, <2>2, FollowsSame
<1>2. CASE Auth(c) \/ (\E k \in Kinds : Hello(c, k)) \/ (\E d \in Conns : MatchEnds(c, d))
  <2>1. UNCHANGED <<player_id, rating>>
    BY <1>2 DEF Auth, Hello, MatchEnds, conn
  <2>2. AsksNothing \/ (EnqueueLeaves /\ \E j : Enqueue(j))
    BY <1>2 DEF Auth, Hello, MatchEnds, StartVerify
  <2>3. /\ UNCHANGED <<rq, recorded, unheard, answer>>
        /\ worker' = worker \/ (worker = "asleep" /\ worker' = "run")
    BY <2>2 DEF AsksNothing, wvars, queues, iduna, EnqueueLeaves, Enqueue, Signal
  <2>4. QED
    BY <2>1, <2>3, FollowsSame
<1>3. QED
  BY <1>1, <1>2 DEF ConnStep

LEMMA RatingsStep == TypeOK /\ ConnOK /\ RatingsFollow /\ [Next]_vars => RatingsFollow'
<1> SUFFICES ASSUME TypeOK, ConnOK, RatingsFollow, [Next]_vars PROVE RatingsFollow'
  OBVIOUS
<1>1. CASE EndRound \/ Shutdown
  <2>1. /\ UNCHANGED <<rq, recorded, unheard, answer>>
        /\ worker' = worker \/ (worker = "asleep" /\ worker' = "run")
    BY <1>1 DEF EndRound, Shutdown, RoundEnds, Stop, Signal, LoopLeaves, iduna
  <2>2. \A d \in Conns : player_id'[d] = None \/ (player_id'[d] = player_id[d] /\ rating'[d] = rating[d])
    BY <1>1 DEF EndRound, Shutdown, Clear
  <2>3. QED
    BY <2>1, <2>2, FollowsSame
<1>2. CASE Elsewhere
  <2>1. UNCHANGED <<player_id, rating>>
    BY <1>2 DEF Elsewhere, conn
  <2>2. CASE PollReturns \/ Drained \/ Joined
    <3>1. UNCHANGED <<rq, recorded, unheard, worker, answer>>
      BY <2>2 DEF PollReturns, Drained, Joined, LoopLeaves, queues, iduna
    <3>2. QED
      BY <2>1, <3>1, FollowsSame
  <2>3. QED
    BY <1>2, <2>1, <2>2, WorkerFollows DEF Elsewhere
<1>3. CASE UNCHANGED vars
  BY <1>3, FollowsSame DEF vars, wvars, queues, iduna, conn
<1>4. QED
  BY <1>1, <1>2, <1>3, ConnStepFollows, VerifyDoneFollows, RatingUpdateFollows DEF Next

\* The rating the server keeps is IDUNA's, unless a newer one is on its way or got lost,
\* however the verifications and the reports of one player cross.
THEOREM RatingsStayCurrent == Spec => []RatingsCurrent
<1>1. Init => RatingsFollow
  <2> SUFFICES ASSUME Init PROVE RatingsFollow
    OBVIOUS
  <2>1. rq = <<>> /\ worker = "run" /\ player_id = [c \in Conns |-> None]
    BY DEF Init, WorkerInit
  <2>2. QED
    BY <2>1 DEF RatingsFollow, SaidInQueue, SaidInHand, RatingsCurrent
<1>2. RatingsFollow => RatingsCurrent
  BY DEF RatingsFollow
<1>3. QED
  BY <1>1, <1>2, InitOK, ServerStep, RatingsStep, PTL DEF Spec

=============================================================================
