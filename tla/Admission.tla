----------------------------- MODULE Admission -----------------------------
(***************************************************************************)
(* From accept() to READY: HELLO, AUTH, the verification by the worker     *)
(* thread, the HELLO timeout (apps/server/main.c), composed with           *)
(* IdunaWorker, whose queues carry the questions and the answers.          *)
(*                                                                         *)
(* READY stands for every later state too: what a connection does once it  *)
(* is admitted is Matchmaking's, except that matches end and are reported. *)
(***************************************************************************)
EXTENDS IdunaWorker

CONSTANTS
    Bots,        \* the players whose identity at IDUNA is a bot's
    NoAuth,      \* the values of --no-auth and of --auth-fail-open with which
    FailOpen     \* the server may be started

ASSUME BotsOK == Bots \subseteq Players
ASSUME StartOptionsOK == NoAuth \subseteq BOOLEAN /\ FailOpen \subseteq BOOLEAN
ASSUME SessionsOK == Sessions \subseteq Nat \ {0}

VARIABLES
    opt_noauth, opt_fail_open,   \* the options of the command line
    state,           \* Conn.state
    kind,            \* what the client said it is
    session_id,      \* 0 until HELLO
    next_session,
    token,           \* history: the token the connection presented
    player_id,       \* None until IDUNA has said who it is
    rating,          \* -1: unknown
    closing,         \* close_after_flush
    late             \* the connections whose HELLO timer has run out

options == <<opt_noauth, opt_fail_open>>
conn    == <<state, kind, session_id, token, player_id, rating, closing, late>>
vars    == <<wvars, options, next_session, conn>>

Kinds == {"human", "bot"}
KindOf(p) == IF p \in Bots THEN "bot" ELSE "human"

\* Those whom the HELLO timer concerns.
Pending == {"CONNECTED", "NEEDAUTH", "VERIFYING"}

Live == {c \in Conns : state[c] # "FREE"}

Init ==
    /\ WorkerInit
    /\ opt_noauth \in NoAuth /\ opt_fail_open \in FailOpen
    /\ state = [c \in Conns |-> "FREE"] /\ kind = [c \in Conns |-> "human"]
    /\ session_id = [c \in Conns |-> 0] /\ next_session = 1
    /\ token = [c \in Conns |-> None] /\ player_id = [c \in Conns |-> None]
    /\ rating = [c \in Conns |-> -1]
    /\ closing = {} /\ late = {}

-----------------------------------------------------------------------------
(***************************************************************************)
(* Parts of handlers.                                                      *)
(***************************************************************************)

SendError(c) == closing' = closing \cup {c}

\* memset of the Conn: nothing of the connections C survives in their slots.
Clear(C) ==
    /\ state' = [c \in Conns |-> IF c \in C THEN "FREE" ELSE state[c]]
    /\ kind' = [c \in Conns |-> IF c \in C THEN "human" ELSE kind[c]]
    /\ session_id' = [c \in Conns |-> IF c \in C THEN 0 ELSE session_id[c]]
    /\ token' = [c \in Conns |-> IF c \in C THEN None ELSE token[c]]
    /\ player_id' = [c \in Conns |-> IF c \in C THEN None ELSE player_id[c]]
    /\ rating' = [c \in Conns |-> IF c \in C THEN -1 ELSE rating[c]]

AsksNothing == UNCHANGED wvars

\* fault: a refused job is not an error
StartVerifyUnchecked(c, s) ==
    \/ SendError(c) /\ AsksNothing /\ UNCHANGED <<state, token>>
    \/ \E t \in Tokens :
          /\ state' = [state EXCEPT ![c] = "VERIFYING"]
          /\ token' = [token EXCEPT ![c] = t]
          /\ Enqueue([type |-> "verify", conn |-> c, gen |-> s, token |-> t])
          /\ EnqueueLeaves /\ UNCHANGED <<loop, closing>>

\* start_verify, for the session id s.  The connection is VERIFYING before the job is
\* enqueued; a token with characters no token has, and a full ring, are errors.
StartVerify(c, s) ==
    \/ SendError(c) /\ AsksNothing /\ UNCHANGED <<state, token>>
    \/ \E t \in Tokens :
          /\ state' = [state EXCEPT ![c] = "VERIFYING"]
          /\ token' = [token EXCEPT ![c] = t]
          /\ Enqueue([type |-> "verify", conn |-> c, gen |-> s, token |-> t])
          /\ EnqueueLeaves /\ UNCHANGED loop
          /\ IF jq_n < JQ THEN UNCHANGED closing ELSE SendError(c)

-----------------------------------------------------------------------------
(***************************************************************************)
(* Events of a round.  A connection with an ERROR on its way is not read.  *)
(***************************************************************************)

Accept(c) == /\ loop = "events" /\ state[c] = "FREE"
             /\ state' = [state EXCEPT ![c] = "CONNECTED"]
             /\ AsksNothing
             /\ UNCHANGED <<options, next_session, kind, session_id, token, player_id, rating, closing, late>>

Reads(c) == loop = "events" /\ c \in Live \ closing

\* A good HELLO; next_session in Sessions bounds the model.
Hello(c, k) ==
    /\ Reads(c) /\ state[c] = "CONNECTED" /\ next_session \in Sessions
    /\ kind' = [kind EXCEPT ![c] = k]
    /\ session_id' = [session_id EXCEPT ![c] = next_session]
    /\ next_session' = next_session + 1
    /\ \/ /\ opt_noauth
          /\ state' = [state EXCEPT ![c] = "READY"]
          /\ AsksNothing /\ UNCHANGED <<token, closing>>
       \/ ~opt_noauth /\ StartVerify(c, next_session)
       \/ /\ ~opt_noauth
          /\ state' = [state EXCEPT ![c] = "NEEDAUTH"]
          /\ AsksNothing /\ UNCHANGED <<token, closing>>
    /\ UNCHANGED <<options, player_id, rating, late>>

Auth(c) == /\ Reads(c) /\ state[c] = "NEEDAUTH"
           /\ StartVerify(c, session_id[c])
           /\ UNCHANGED <<options, next_session, kind, session_id, player_id, rating, late>>

\* Whatever the state does not allow, and whatever does not decode.
BadMessage(c) == /\ Reads(c)
                 /\ SendError(c)
                 /\ AsksNothing
                 /\ UNCHANGED <<options, next_session, state, kind, session_id, token, player_id, rating, late>>

\* fault: a new Conn starts with the flags of the old one
HangUpLeavesFlags(c) ==
    /\ loop = "events" /\ c \in Live
    /\ Clear({c}) /\ UNCHANGED <<closing, late>>
    /\ AsksNothing
    /\ UNCHANGED <<options, next_session>>

\* conn_close.  If the connection is in a match, a MatchEnds comes just before.
HangUp(c) == /\ loop = "events" /\ c \in Live
             /\ Clear({c}) /\ closing' = closing \ {c} /\ late' = late \ {c}
             /\ AsksNothing
             /\ UNCHANGED <<options, next_session>>

\* end_match: a match between two connections that IDUNA knows is reported.
MatchEnds(c, d) ==
    /\ loop = "events" /\ c # d
    /\ state[c] = "READY" /\ state[d] = "READY"
    /\ player_id[c] # None /\ player_id[d] # None
    /\ \E m \in Matches :
          /\ \A r \in sent : r.match # m
          /\ Enqueue([type |-> "report", match |-> m,
                      seats |-> [s \in 0 .. 1 |-> IF s = 0 THEN player_id[c] ELSE player_id[d]]])
    /\ EnqueueLeaves
    /\ UNCHANGED <<loop, options, next_session, conn>>

-----------------------------------------------------------------------------
(***************************************************************************)
(* The end of a round, and the draining of results.                        *)
(***************************************************************************)

\* fault: the timer does not concern connections whose token is with IDUNA
TimedOutUnasked == {c \in late \ closing : state[c] \in Pending \ {"VERIFYING"}}

\* Those to whom expire_timers sends an ERROR, once the closing pass is over.
TimedOut == {c \in late \ closing : state[c] \in Pending}

\* The closing pass, then the HELLO timeouts, then drain_results empties the pipe.
\* A timeout leaves the connection as it is, but for the ERROR.
EndRound == /\ RoundEnds
            /\ Clear(closing)
            /\ closing' = TimedOut
            /\ late' = late \ closing
            /\ UNCHANGED <<options, next_session>>

\* fault: verify_done does not compare session ids
ConcernsSlot(r) == state[r.conn] = "VERIFYING"

\* The answer is about the session that has the slot now, and it is still waiting.
Concerns(r) == state[r.conn] = "VERIFYING" /\ session_id[r.conn] = r.gen

\* verify_done: an answer for a connection that is gone or was answered is ignored.
VerifyDone ==
    /\ Pop
    /\ LET r == Head(rq)
           c == r.conn
           Refuse == SendError(c) /\ UNCHANGED <<state, player_id, rating>>
       IN  /\ r.type = "verify"
           /\ IF ~Concerns(r)
              THEN UNCHANGED <<state, player_id, rating, closing>>
              ELSE \/ /\ r.rc = "ok" /\ kind[c] = KindOf(r.id)
                      /\ player_id' = [player_id EXCEPT ![c] = r.id]
                      /\ rating' = [rating EXCEPT ![c] = r.rating]
                      /\ state' = [state EXCEPT ![c] = "READY"]
                      /\ UNCHANGED closing
                   \/ r.rc = "ok" /\ kind[c] # KindOf(r.id) /\ Refuse
                   \/ /\ r.rc = "unreachable" /\ opt_fail_open
                      /\ state' = [state EXCEPT ![c] = "READY"]
                      /\ UNCHANGED <<player_id, rating, closing>>
                   \/ r.rc = "unreachable" /\ ~opt_fail_open /\ Refuse
                   \/ r.rc = "refused" /\ Refuse
    /\ UNCHANGED <<options, next_session, kind, session_id, token, late>>

\* fault: rating_update stops at the first connection of a player
FirstHolder(p) == {CHOOSE c \in Conns : \A d \in Conns : player_id[d] = p => player_id[c] = p}

\* The connections of a player.
Holders(p) == {c \in Conns : player_id[c] = p}

\* rating_update: every live connection of the two players learns the new rating.
RatingUpdate ==
    /\ Pop
    /\ LET r == Head(rq)
       IN  /\ r.type = "rating"
           /\ rating' = [c \in Conns |->
                           IF c \in Holders(r.pid[1]) THEN r.ratings[1]
                           ELSE IF c \in Holders(r.pid[0]) THEN r.ratings[0]
                           ELSE rating[c]]
    /\ UNCHANGED <<options, next_session, state, kind, session_id, token, player_id, closing, late>>

\* Time passes while the loop waits: connect_ms is HELLO_TIMEOUT_MS ago.
TimePasses(c) == /\ loop = "poll" /\ state[c] \in Pending
                 /\ late' = late \cup {c}
                 /\ AsksNothing
                 /\ UNCHANGED <<options, next_session, state, kind, session_id, token, player_id, rating, closing>>

\* After the loop every connection is closed, then the worker is stopped.
Shutdown == /\ Stop
            /\ Clear(Conns) /\ closing' = {} /\ late' = {}
            /\ UNCHANGED <<options, next_session>>

ConnStep(c) == \/ Accept(c) \/ Auth(c) \/ BadMessage(c) \/ HangUp(c) \/ TimePasses(c)
               \/ \E k \in Kinds : Hello(c, k)
               \/ \E d \in Conns : MatchEnds(c, d)

Elsewhere == /\ WorkerSteps \/ SpuriousWakeup \/ AgentExpires \/ PollReturns \/ Drained \/ Joined
             /\ UNCHANGED <<options, next_session, conn>>

Next == (\E c \in Conns : ConnStep(c)) \/ EndRound \/ VerifyDone \/ RatingUpdate \/ Shutdown \/ Elsewhere

Spec == Init /\ [][Next]_vars

\* The loop's and the worker's steps are fair as in IdunaWorker; a timer that is not
\* cleared runs out, although the model's clock moves only while the loop waits.
FairSpec == /\ Spec
            /\ WF_vars(WorkerSteps /\ UNCHANGED <<options, next_session, conn>>)
            /\ WF_vars(PollReturns /\ UNCHANGED <<options, next_session, conn>>)
            /\ WF_vars(Drained /\ UNCHANGED <<options, next_session, conn>>)
            /\ WF_vars(VerifyDone \/ RatingUpdate) /\ WF_vars(EndRound)
            /\ \A c \in Conns : SF_vars(TimePasses(c))

-----------------------------------------------------------------------------
(***************************************************************************)
(* Properties                                                              *)
(***************************************************************************)

\* Every variable of a connection keeps its type; a session id is in use or was.
AdmissionTypeOK ==
    /\ TypeOK
    /\ opt_noauth \in BOOLEAN /\ opt_fail_open \in BOOLEAN
    /\ state \in [Conns -> {"FREE", "READY"} \cup Pending]
    /\ kind \in [Conns -> Kinds]
    /\ session_id \in [Conns -> Sessions \cup {0}] /\ next_session \in Nat \ {0}
    /\ \A c \in Conns : session_id[c] < next_session
    /\ token \in [Conns -> Tokens] /\ player_id \in [Conns -> Tokens]
    /\ rating \in [Conns -> Ratings]
    /\ closing \subseteq Live /\ late \subseteq Live

\* A connection is admitted as the player whose token it presented itself, of the kind
\* it said it is, or unverified under --no-auth or --auth-fail-open and then as nobody:
\* never by the answer to a question of the connection that had the slot before.
AdmittedAsItself ==
    \A c \in Conns : state[c] = "READY" =>
        \/ player_id[c] # None /\ player_id[c] = token[c] /\ kind[c] = KindOf(token[c])
        \/ player_id[c] = None /\ (opt_noauth \/ opt_fail_open)

\* Where the question of session g of connection c is, or its answer.
InRing(c, g)    == {i \in 1 .. jq_n : Queued[i].type = "verify" /\ Queued[i].conn = c /\ Queued[i].gen = g}
InResults(c, g) == {i \in 1 .. Len(rq) : rq[i].type = "verify" /\ rq[i].conn = c /\ rq[i].gen = g}
InHand(c, g)    == worker \in {"work", "push"} /\ job.type = "verify" /\ job.conn = c /\ job.gen = g

\* A connection that is VERIFYING and has heard no ERROR has one question on its way,
\* through both queues, or its answer found rq full.
QuestionOpen ==
    \A c \in Conns : state[c] = "VERIFYING" /\ c \notin closing =>
        LET ring    == InRing(c, session_id[c])
            results == InResults(c, session_id[c])
            inHand  == InHand(c, session_id[c])
        IN  /\ ring # {} \/ inHand \/ results # {} \/ session_id[c] \in dropped
            /\ Cardinality(ring) + Cardinality(results) + (IF inHand THEN 1 ELSE 0) <= 1

\* A rating is on its way to the loop.
RatingComes(p) ==
    \/ \E i \in 1 .. Len(rq) : rq[i].type = "rating" /\ p \in {rq[i].pid[0], rq[i].pid[1]}
    \/ worker = "push" /\ answer.type = "rating" /\ p \in {answer.pid[0], answer.pid[1]}

\* The rating the server keeps for a connection is the one IDUNA has, unless a newer one
\* is on its way or got lost, however verifications and reports of one player cross.
RatingsCurrent ==
    \A c \in Conns : player_id[c] # None /\ rating[c] # -1 /\ player_id[c] \notin unheard
                        /\ ~RatingComes(player_id[c])
                     => rating[c] = RatingOf(player_id[c], recorded)

\* Every connection is admitted or closed in the end, whatever its client does or does
\* not send, whether or not IDUNA answers, and even when the worker has died.
Decided == \A c \in Conns : state[c] \in Pending ~> state[c] \in {"READY", "FREE"}

=============================================================================
