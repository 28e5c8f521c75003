----------------------------- MODULE Matchmaking -----------------------------
(***************************************************************************)
(* The match server's poll() loop: the connections it serves, the three    *)
(* queues, how two waiting connections are paired, and the life of a match *)
(* from MATCH_FOUND to MATCH_END (apps/server/main.c).  One thread runs    *)
(* everything, so a handler is one atomic action; what is concurrent is    *)
(* the environment: clients send, hang up and stop reading whenever they   *)
(* like, and time passes between two rounds of the loop.                   *)
(*                                                                         *)
(* The rules of a round are abstract here (a resolved round either decides *)
(* the match or opens the next one), and so is what happens between HELLO  *)
(* and READY when the server asks IDUNA (Admission models it): a           *)
(* connection becomes READY with the rating it will be matched by.         *)
(***************************************************************************)
EXTENDS Integers, FiniteSets

CONSTANTS
    Conns,        \* conns[MAX_CONNS]: the connection slots
    Slots,        \* matches[MAX_MATCHES]: the match slots
    Kinds,        \* the kinds of client that connect, within {"human", "bot"}
    Modes,        \* the modes they ask for, within {"card", "draft", "constructed"}
    Tokens,       \* the duel tokens IDUNA has handed out
    NoToken,      \* QUEUE without a match_token
    Ratings,      \* the ladder ratings a player may have
    DefaultRating,\* DW_DEFAULT_RATING
    MaxRounds,    \* max_rounds(): the round limit of a match
    FastForward,  \* --fast-forward: rounds have no deadline
    Lossy,        \* TRUE: a send may fail or find the reader too slow
    None          \* -1: no match, no seat

Seats == {0, 1}
States == {"FREE", "CONNECTED", "READY", "QUEUED", "DRAFTING", "IN_MATCH"}
Matches == [conn : [Seats -> Conns], locked : SUBSET Seats, round : 1..MaxRounds]
Told == {"none", "WELCOME", "QUEUED", "DRAFT_OFFER", "DRAFT_DONE", "ROUND_START",
         "MATCH_END", "ERROR"}
\* where the loop is: the stages of try_pair are places of their own, since each
\* of them is a loop that pairs until nothing is left to pair
Pairing == {"card", "draft", "constructed", "tick"}
Places == {"poll", "events", "close", "deadlines", "shutdown", "stopped"} \cup Pairing

ASSUME ConnsFinite == IsFiniteSet(Conns) /\ IsFiniteSet(Slots)
ASSUME EnoughSlots == Cardinality(Conns) <= 2 * Cardinality(Slots)
ASSUME ClientsOK == /\ Kinds \subseteq {"human", "bot"}
                    /\ Modes \subseteq {"card", "draft", "constructed"}
ASSUME RatingsOK == Ratings \subseteq Nat /\ DefaultRating \in Nat
ASSUME RoundsOK == MaxRounds \in Nat \ {0}
ASSUME NoneOK == /\ None \notin Matches
                 /\ None \notin Slots \X Seats
                 /\ NoToken \notin Tokens
ASSUME OptionsOK == FastForward \in BOOLEAN /\ Lossy \in BOOLEAN

VARIABLES
    pc,       \* where the loop is
    sweep,    \* the connections the closing pass still has to close
    state,    \* Conn.state
    kind,     \* Conn.kind
    mode,     \* Conn.mode
    token,    \* Conn.match_token
    rating,   \* rating_of(Conn)
    placing,  \* the bots with rated_matches < DW_PLACEMENT_MATCHES
    decked,   \* the connections with deck_n == DW_DRAFT_DECK
    before,   \* queued_seq: who of its kind and mode was waiting when it queued
    rested,   \* the waiting bots for which bot_ready_for_bot holds
    at,       \* Conn.match and Conn.seat, None outside a match
    closing,  \* the connections with close_after_flush set
    told,     \* the last state-changing message written to the connection
    late,     \* the silent connections past HELLO_TIMEOUT_MS
    mt,       \* matches[]: None for an inactive slot
    due       \* the matches whose round deadline has passed

who == <<kind, mode, token, rating, placing, decked>>
lines == <<before, rested>>
play == <<at, mt, due>>
wire == <<closing, told>>
vars == <<pc, sweep, state, kind, mode, token, rating, placing, decked, before, rested,
          at, closing, told, late, mt, due>>

TypeOK ==
    /\ pc \in Places
    /\ sweep \subseteq Conns
    /\ state \in [Conns -> States]
    /\ kind \in [Conns -> {"human", "bot"}]
    /\ mode \in [Conns -> {"card", "draft", "constructed"}]
    /\ token \in [Conns -> Tokens \cup {NoToken}]
    /\ rating \in [Conns -> Ratings \cup {DefaultRating}]
    /\ placing \subseteq Conns
    /\ decked \subseteq Conns
    /\ before \in [Conns -> SUBSET Conns]
    /\ rested \subseteq Conns
    /\ at \in [Conns -> (Slots \X Seats) \cup {None}]
    /\ closing \subseteq Conns
    /\ told \in [Conns -> Told]
    /\ late \subseteq Conns
    /\ mt \in [Slots -> Matches \cup {None}]
    /\ due \subseteq Slots

\* a zeroed Conn in every slot, no match
Init ==
    /\ pc = "poll"
    /\ sweep = {}
    /\ state = [c \in Conns |-> "FREE"]
    /\ kind = [c \in Conns |-> "human"]
    /\ mode = [c \in Conns |-> "card"]
    /\ token = [c \in Conns |-> NoToken]
    /\ rating = [c \in Conns |-> DefaultRating]
    /\ placing = {}
    /\ decked = {}
    /\ before = [c \in Conns |-> {}]
    /\ rested = {}
    /\ at = [c \in Conns |-> None]
    /\ closing = {}
    /\ told = [c \in Conns |-> "none"]
    /\ late = {}
    /\ mt = [m \in Slots |-> None]
    /\ due = {}

-----------------------------------------------------------------------------
(***************************************************************************)
(* Sending.  A message that cannot be written (the peer is gone, or OUTBUF *)
(* is full) is dropped and condemns the connection; the state it is in     *)
(* does not change.                                                        *)
(***************************************************************************)
Undelivered(to) == IF Lossy THEN SUBSET to ELSE {{}}

Send(to, msg) ==
    \E lost \in Undelivered(to) :
        /\ told' = [c \in Conns |-> IF c \in to \ lost THEN msg ELSE told[c]]
        /\ closing' = closing \cup lost

\* send_error: the ERROR frame, then close_after_flush whether it was written or not
SendError(to) ==
    \E lost \in Undelivered(to) :
        /\ told' = [c \in Conns |-> IF c \in to \ lost THEN "ERROR" ELSE told[c]]
        /\ closing' = closing \cup to

-----------------------------------------------------------------------------
(***************************************************************************)
(* The queues.                                                             *)
(***************************************************************************)
InQueue(q) == {c \in Conns : state[c] = "QUEUED" /\ mode[c] = q}

\* fault: no exclusion of match_token holders
WaitingWithTokens(q, k) == {c \in InQueue(q) : kind[c] = k}

\* what oldest_queued and nearest_queued look at: a duelist is never a stranger's
Waiting(q, k) == {c \in InQueue(q) : kind[c] = k /\ token[c] = NoToken}

\* fault: the first slot that qualifies, queued_seq ignored
AnyWaiting(S) == S

Oldest(S) == {c \in S : before[c] \cap S = {}}

Dist(c, r) == IF rating[c] < r THEN r - rating[c] ELSE rating[c] - r

Nearest(S, r) ==
    {c \in S : \A d \in S : \/ Dist(c, r) < Dist(d, r)
                            \/ Dist(c, r) = Dist(d, r) /\ d \notin before[c]}

\* FIFO in the card and draft queues, by rating in the constructed queue
Partner(q, S, a) == IF q = "constructed" THEN Nearest(S, rating[a]) ELSE Oldest(S)

AtLeastTwo(S) == \E a, b \in S : a # b
AtLeastThree(S) == \E a, b, c \in S : a # b /\ b # c /\ a # c

Duels(q) ==
    {p \in InQueue(q) \X InQueue(q) :
        p[1] # p[2] /\ token[p[1]] # NoToken /\ token[p[1]] = token[p[2]]}

HumanPairs(q) ==
    LET H == Waiting(q, "human")
    IN  {p \in Oldest(H) \X H : p[2] \in Partner(q, H \ {p[1]}, p[1])}

\* fault: the bot reserve applied to humans too, the last bot is never given away
HumanBotPairsReserved(q) ==
    LET H == Waiting(q, "human")
        B == Waiting(q, "bot")
    IN  {p \in H \X B : ~AtLeastTwo(H) /\ AtLeastTwo(B) /\ p[2] \in Partner(q, B, p[1])}

HumanBotPairs(q) ==
    LET H == Waiting(q, "human")
        B == Waiting(q, "bot")
    IN  {p \in H \X B : ~AtLeastTwo(H) /\ p[2] \in Partner(q, B, p[1])}

\* fault: the reserve rule off by one, the last two bots are paired
BotPairsGreedy(q) ==
    LET B == Waiting(q, "bot")
    IN  {p \in Oldest(B) \X B :
            /\ Waiting(q, "human") = {}
            /\ p[2] \in Partner(q, B \ {p[1]}, p[1])
            /\ q = "constructed" => {p[1], p[2]} \subseteq rested}

\* fault: the pacing of the constructed queue applied the wrong way round
BotPairsPaced(q) ==
    LET B == Waiting(q, "bot")
    IN  {p \in Oldest(B) \X B :
            /\ Waiting(q, "human") = {}
            /\ AtLeastThree(B)
            /\ p[2] \in Partner(q, B \ {p[1]}, p[1])
            /\ {p[1], p[2]} \cap rested = {}}

\* two bots play each other only while a third one stays for the next human; in
\* the constructed queue both must have waited long enough
BotPairs(q) ==
    LET B == Waiting(q, "bot")
    IN  {p \in Oldest(B) \X B :
            /\ Waiting(q, "human") = {}
            /\ AtLeastThree(B)
            /\ p[2] \in Partner(q, B \ {p[1]}, p[1])
            /\ q = "constructed" => {p[1], p[2]} \subseteq rested}

Pairs(q) ==
    IF Duels(q) # {} THEN Duels(q)
    ELSE HumanPairs(q) \cup HumanBotPairs(q) \cup BotPairs(q)

\* the connections of C leave the queue
Dequeue(C) == [c \in Conns |-> IF c \in C THEN {} ELSE before[c] \ C]

-----------------------------------------------------------------------------
(***************************************************************************)
(* Matches.                                                                *)
(***************************************************************************)
Live == {m \in Slots : mt[m] # None}
Party(m) == {mt[m].conn[s] : s \in Seats}
Parties(E) == UNION {Party(m) : m \in E}

\* fault: the two stay in the queue
StartMatchQueued(a, b, m) ==
    /\ mt' = [mt EXCEPT ![m] = [conn |-> [s \in Seats |-> IF s = 0 THEN a ELSE b],
                                locked |-> {}, round |-> 1]]
    /\ at' = [at EXCEPT ![a] = <<m, 0>>, ![b] = <<m, 1>>]
    /\ Send({a, b}, "ROUND_START")
    /\ UNCHANGED <<state, before, rested>>

\* start_match: slot m, seat 0 for a and seat 1 for b, the first round opened
StartMatch(a, b, m) ==
    /\ mt' = [mt EXCEPT ![m] = [conn |-> [s \in Seats |-> IF s = 0 THEN a ELSE b],
                                locked |-> {}, round |-> 1]]
    /\ state' = [state EXCEPT ![a] = "IN_MATCH", ![b] = "IN_MATCH"]
    /\ at' = [at EXCEPT ![a] = <<m, 0>>, ![b] = <<m, 1>>]
    /\ before' = Dequeue({a, b})
    /\ rested' = rested \ {a, b}
    /\ Send({a, b}, "ROUND_START")

\* end_match on the matches of E: their connections are READY again
StateAfter(E) ==
    [c \in Conns |-> IF state[c] = "IN_MATCH" /\ c \in Parties(E) THEN "READY" ELSE state[c]]
AtAfter(E) ==
    [c \in Conns |-> IF state[c] = "IN_MATCH" /\ c \in Parties(E) THEN None ELSE at[c]]
MtAfter(E) == [m \in Slots |-> IF m \in E THEN None ELSE mt[m]]

\* fault: only the player who decided the match hears of its end
EndMatchOneSided(m) ==
    /\ state' = StateAfter({m})
    /\ at' = AtAfter({m})
    /\ mt' = MtAfter({m})
    /\ due' = due \ {m}
    /\ Send({mt[m].conn[0]}, "MATCH_END")

EndMatch(m) ==
    /\ state' = StateAfter({m})
    /\ at' = AtAfter({m})
    /\ mt' = MtAfter({m})
    /\ due' = due \ {m}
    /\ Send(Party(m), "MATCH_END")

\* fault: the round limit is not looked at
NextRoundUnlimited(m) ==
    /\ mt' = [mt EXCEPT ![m].locked = {}, ![m].round = @ + 1]
    /\ due' = due \ {m}
    /\ Send(Party(m), "ROUND_START")
    /\ UNCHANGED <<state, at>>

\* a new round: begin_round clears the locks, send_round_start sets the deadline
NextRound(m) ==
    /\ mt[m].round < MaxRounds
    /\ mt' = [mt EXCEPT ![m].locked = {}, ![m].round = @ + 1]
    /\ due' = due \ {m}
    /\ Send(Party(m), "ROUND_START")
    /\ UNCHANGED <<state, at>>

\* resolve_round: dw_match_resolve decides the match or leaves it open; it always
\* decides it in the last round
ResolveRound(m) == EndMatch(m) \/ NextRound(m)

\* fault: a connection goes away without forfeiting
ForfeitsNothing(c) == {}

\* the match leave_match_or_queue forfeits
Forfeits(c) ==
    IF state[c] = "IN_MATCH" /\ at[c] # None THEN {at[c][1]} \cap Live ELSE {}

-----------------------------------------------------------------------------
(***************************************************************************)
(* One round of the loop: wait in poll(), serve what is ready, close the   *)
(* condemned, expire timers, then give the constructed queue its tick.     *)
(***************************************************************************)
Poll ==
    /\ pc = "poll"
    /\ pc' = "events"
    /\ UNCHANGED <<sweep, state, who, lines, play, wire, late>>

\* the clock: the loop reads it once per round, so it moves while poll() waits
HelloTimePasses(c) ==
    /\ pc = "poll"
    /\ state[c] = "CONNECTED"
    /\ late' = late \cup {c}
    /\ UNCHANGED <<pc, sweep, state, who, lines, play, wire>>

RoundTimePasses(m) ==
    /\ pc = "poll"
    /\ ~FastForward
    /\ m \in Live
    /\ due' = due \cup {m}
    /\ UNCHANGED <<pc, sweep, state, who, lines, at, wire, late, mt>>

BotTimePasses(c) ==
    /\ pc = "poll"
    /\ c \in Waiting("constructed", "bot")
    /\ rested' = rested \cup {c}
    /\ UNCHANGED <<pc, sweep, state, who, before, play, wire, late>>

\* accept_conns: the code takes the lowest free slot, here it may be any
Accept(c) ==
    /\ pc = "events"
    /\ state[c] = "FREE"
    /\ state' = [state EXCEPT ![c] = "CONNECTED"]
    /\ UNCHANGED <<pc, sweep, who, lines, play, wire, late>>

\* read_conn hands frames to handle_msg while the connection is not condemned
Reads(c) == pc = "events" /\ c \notin closing

\* HELLO, accepted: the connection is READY
Hello(c, k, q, r) ==
    /\ Reads(c)
    /\ state[c] = "CONNECTED"
    /\ state' = [state EXCEPT ![c] = "READY"]
    /\ kind' = [kind EXCEPT ![c] = k]
    /\ mode' = [mode EXCEPT ![c] = q]
    /\ rating' = [rating EXCEPT ![c] = r]
    /\ placing' \in IF <<k, q>> = <<"bot", "constructed">> THEN {placing, placing \cup {c}}
                   ELSE {placing}
    /\ late' = late \ {c}
    /\ Send({c}, "WELCOME")
    /\ UNCHANGED <<pc, sweep, token, decked, lines, play>>

\* enter_queue: QUEUED, then try_pair over the three queues
EnterQueue(c) ==
    /\ state' = [state EXCEPT ![c] = "QUEUED"]
    /\ before' = [before EXCEPT ![c] = {d \in InQueue(mode[c]) : kind[d] = kind[c]}]
    /\ pc' = "card"
    /\ Send({c}, "QUEUED")
    /\ UNCHANGED <<sweep, kind, mode, rating, placing, rested, play, late>>

StartDraft(c) ==
    /\ state' = [state EXCEPT ![c] = "DRAFTING"]
    /\ Send({c}, "DRAFT_OFFER")
    /\ UNCHANGED <<pc, sweep, kind, mode, rating, placing, lines, play, late>>

\* fault: deck_n is not looked at in constructed mode
QueuesUnchecked(c, sameDeck) == mode[c] # "draft" \/ (sameDeck /\ c \in decked)

\* a QUEUE that needs no draft: random mode, or a deck that is there and wanted
QueuesAtOnce(c, sameDeck) ==
    mode[c] = "card" \/ (c \in decked /\ (mode[c] = "draft" => sameDeck))

\* QUEUE: the token is stored first, then the mode decides
Queue(c, tok, sameDeck) ==
    /\ Reads(c)
    /\ state[c] = "READY"
    /\ token' = [token EXCEPT ![c] = tok]
    /\ \/ /\ mode[c] = "constructed"
          /\ c \notin decked
          /\ SendError({c})
          /\ UNCHANGED <<pc, sweep, state, kind, mode, rating, placing, lines, play, late>>
       \/ /\ mode[c] = "draft"
          /\ ~(sameDeck /\ c \in decked)
          /\ StartDraft(c)
       \/ /\ QueuesAtOnce(c, sameDeck)
          /\ EnterQueue(c)
    /\ UNCHANGED decked

\* DRAFT_PICK: refused or not the last one, the offer is sent (again); the last
\* one completes the deck and enters the queue
DraftPick(c) ==
    /\ Reads(c)
    /\ state[c] = "DRAFTING"
    /\ \/ /\ Send({c}, "DRAFT_OFFER")
          /\ UNCHANGED <<pc, sweep, state, kind, mode, rating, placing, decked, lines, play, late>>
       \/ decked' = decked \cup {c} /\ EnterQueue(c)
    /\ UNCHANGED token

\* DRAFT_RESUME with a legal deck
DraftResume(c) ==
    /\ Reads(c)
    /\ state[c] = "READY"
    /\ mode[c] \in {"draft", "constructed"}
    /\ decked' = decked \cup {c}
    /\ Send({c}, "DRAFT_DONE")
    /\ UNCHANGED <<pc, sweep, state, kind, mode, token, rating, placing, lines, play, late>>

\* PLAY for the round in progress by a seat that has not locked (any other PLAY is
\* answered by PLAY_REJECT and changes nothing)
Play(c) ==
    /\ Reads(c)
    /\ state[c] = "IN_MATCH"
    /\ at[c] # None
    /\ LET m == at[c][1]
           s == at[c][2]
       IN  /\ m \in Live
           /\ s \notin mt[m].locked
           /\ \/ /\ mt[m].locked \cup {s} # Seats
                 /\ mt' = [mt EXCEPT ![m].locked = @ \cup {s}]
                 /\ UNCHANGED <<state, at, due, wire>>
              \/ /\ mt[m].locked \cup {s} = Seats
                 /\ ResolveRound(m)
    /\ UNCHANGED <<pc, sweep, who, lines, late>>

\* LEAVE: forfeit the match, or leave the queue or the draft
Leave(c) ==
    /\ Reads(c)
    /\ state[c] \in {"READY", "QUEUED", "DRAFTING", "IN_MATCH"}
    /\ LET E == Forfeits(c)
       IN  /\ state' = [StateAfter(E) EXCEPT
                           ![c] = IF @ \in {"QUEUED", "DRAFTING"} THEN "READY" ELSE @]
           /\ at' = AtAfter(E)
           /\ mt' = MtAfter(E)
           /\ due' = due \ E
           /\ Send(Parties(E), "MATCH_END")
    /\ before' = Dequeue({c})
    /\ rested' = rested \ {c}
    /\ UNCHANGED <<pc, sweep, who, late>>

\* every refused message: a frame that does not decode, a message the state does
\* not allow, an illegal deck
Refuse(c) ==
    /\ Reads(c)
    /\ state[c] # "FREE"
    /\ SendError({c})
    /\ UNCHANGED <<pc, sweep, state, who, lines, play, late>>

\* flush_conn or a reply that changes no state (PONG, PLAY_ACK, PLAY_REJECT) fails
WireFails(c) ==
    /\ pc = "events"
    /\ Lossy
    /\ state[c] # "FREE"
    /\ closing' = closing \cup {c}
    /\ UNCHANGED <<pc, sweep, state, who, lines, play, told, late>>

\* conn_close: leave_match_or_queue, then the slot is zeroed
ConnClose(c) ==
    /\ LET E == Forfeits(c)
       IN  /\ state' = [StateAfter(E) EXCEPT ![c] = "FREE"]
           /\ at' = [AtAfter(E) EXCEPT ![c] = None]
           /\ mt' = MtAfter(E)
           /\ due' = due \ E
           /\ \E lost \in Undelivered(Parties(E)) :
                 /\ told' = [d \in Conns |-> IF d = c THEN "none"
                                             ELSE IF d \in Parties(E) \ lost THEN "MATCH_END"
                                             ELSE told[d]]
                 /\ closing' = (closing \cup lost) \ {c}
    /\ before' = Dequeue({c})
    /\ rested' = rested \ {c}
    /\ late' = late \ {c}
    /\ kind' = [kind EXCEPT ![c] = "human"]
    /\ mode' = [mode EXCEPT ![c] = "card"]
    /\ token' = [token EXCEPT ![c] = NoToken]
    /\ rating' = [rating EXCEPT ![c] = DefaultRating]
    /\ placing' = placing \ {c}
    /\ decked' = decked \ {c}

\* read_conn sees the end of the stream
HangUp(c) ==
    /\ pc = "events"
    /\ state[c] # "FREE"
    /\ ConnClose(c)
    /\ UNCHANGED <<pc, sweep>>

\* drain_results: a match-result response carries a new rating for the player of c;
\* the match it counts may also end the bot's placement and lengthen its wait
RatingUpdate(c, r) ==
    /\ pc = "events" \/ (pc = "deadlines" /\ due \cap Live = {})
    /\ state[c] \notin {"FREE", "CONNECTED"}
    /\ rating' = [rating EXCEPT ![c] = r]
    /\ \/ UNCHANGED <<placing, rested>>
       \/ /\ c \in placing
          /\ placing' = placing \ {c}
          /\ rested' = rested \ {c}
    /\ UNCHANGED <<pc, sweep, state, kind, mode, token, decked, before, play, wire, late>>

\* fault: the closing pass looks only at connections past HELLO
EndEventsSomeClosed ==
    /\ pc = "events"
    /\ pc' = "close"
    /\ sweep' = {c \in closing : state[c] # "CONNECTED"}
    /\ UNCHANGED <<state, who, lines, play, wire, late>>

EndEvents ==
    /\ pc = "events"
    /\ pc' = "close"
    /\ sweep' = closing
    /\ UNCHANGED <<state, who, lines, play, wire, late>>

\* one connection of the closing pass; a connection that its MATCH_END condemns may
\* lie ahead of the pass or behind it
CloseCondemned(c) ==
    /\ pc = "close"
    /\ c \in sweep
    /\ ConnClose(c)
    /\ \E ahead \in SUBSET (closing' \ closing) : sweep' = (sweep \ {c}) \cup ahead
    /\ UNCHANGED pc

\* expire_timers, first loop: everyone still silent after HELLO_TIMEOUT_MS
ExpireHellos ==
    /\ pc = "close"
    /\ sweep = {}
    /\ pc' = "deadlines"
    /\ SendError(late)
    /\ UNCHANGED <<sweep, state, who, lines, play, late>>

\* fault: a match in which nobody locked is passed over
ExpireRoundIfLocked(m) ==
    /\ pc = "deadlines"
    /\ m \in due \cap Live
    /\ \/ mt[m].locked # {} /\ ResolveRound(m)
       \/ /\ mt[m].locked = {}
          /\ due' = due \ {m}
          /\ UNCHANGED <<state, at, mt, wire>>
    /\ UNCHANGED <<pc, sweep, who, lines, late>>

\* expire_timers, second loop: a missing lock is a pass
ExpireRound(m) ==
    /\ pc = "deadlines"
    /\ m \in due \cap Live
    /\ ResolveRound(m)
    /\ UNCHANGED <<pc, sweep, who, lines, late>>

StartTick ==
    /\ pc = "deadlines"
    /\ due \cap Live = {}
    /\ pc' = "tick"
    /\ UNCHANGED <<sweep, state, who, lines, play, wire, late>>

-----------------------------------------------------------------------------
(***************************************************************************)
(* try_pair: each stage pairs until its queue has nothing to pair or no    *)
(* match slot is free.                                                     *)
(***************************************************************************)
QueueOf(place) == IF place = "tick" THEN "constructed" ELSE place

AfterStage(place) ==
    CASE place = "card" -> "draft"
      [] place = "draft" -> "constructed"
      [] place = "constructed" -> "events"
      [] place = "tick" -> "poll"

Pair ==
    /\ pc \in Pairing
    /\ \E p \in Pairs(QueueOf(pc)), m \in Slots \ Live : StartMatch(p[1], p[2], m)
    /\ UNCHANGED <<pc, sweep, who, late, due>>

EndStage ==
    /\ pc \in Pairing
    /\ Pairs(QueueOf(pc)) = {} \/ Live = Slots
    /\ pc' = AfterStage(pc)
    /\ UNCHANGED <<sweep, state, who, lines, play, wire, late>>

-----------------------------------------------------------------------------
(***************************************************************************)
(* Shutdown: SIGINT, SIGTERM or --max-matches; every open match is drawn.  *)
(***************************************************************************)
Stop ==
    /\ pc = "poll"
    /\ pc' = "shutdown"
    /\ UNCHANGED <<sweep, state, who, lines, play, wire, late>>

ShutdownMatch(m) ==
    /\ pc = "shutdown"
    /\ m \in Live
    /\ EndMatch(m)
    /\ UNCHANGED <<pc, sweep, who, lines, late>>

ShutdownClose(c) ==
    /\ pc = "shutdown"
    /\ Live = {}
    /\ state[c] # "FREE"
    /\ ConnClose(c)
    /\ UNCHANGED <<pc, sweep>>

Exit ==
    /\ pc = "shutdown"
    /\ \A c \in Conns : state[c] = "FREE"
    /\ pc' = "stopped"
    /\ UNCHANGED <<sweep, state, who, lines, play, wire, late>>

Stopped == pc = "stopped" /\ UNCHANGED vars

-----------------------------------------------------------------------------
Message(c) ==
    \/ \E k \in Kinds, q \in Modes, r \in Ratings : Hello(c, k, q, r)
    \/ \E tok \in Tokens \cup {NoToken}, sameDeck \in BOOLEAN : Queue(c, tok, sameDeck)
    \/ DraftPick(c)
    \/ DraftResume(c)
    \/ Play(c)
    \/ Leave(c)
    \/ Refuse(c)

Environment ==
    \/ \E c \in Conns : HelloTimePasses(c) \/ BotTimePasses(c) \/ Accept(c) \/ Message(c)
                        \/ WireFails(c) \/ HangUp(c)
    \/ \E c \in Conns, r \in Ratings : RatingUpdate(c, r)
    \/ \E m \in Slots : RoundTimePasses(m)
    \/ Stop

Loop ==
    \/ Poll \/ EndEvents \/ ExpireHellos \/ StartTick \/ Pair \/ EndStage \/ Exit
    \/ \E c \in Conns : CloseCondemned(c) \/ ShutdownClose(c)
    \/ \E m \in Slots : ExpireRound(m) \/ ShutdownMatch(m)

Next == Environment \/ Loop \/ Stopped

Spec == Init /\ [][Next]_vars

(***************************************************************************)
(* The loop never blocks (poll() returns within 200 ms and a batch of      *)
(* events is finite, hence the strong fairness of EndEvents), and time     *)
(* passes: a deadline that stays set is reached.  Nothing is assumed of    *)
(* the clients.                                                            *)
(***************************************************************************)
LoopFairness ==
    /\ WF_vars(Poll)
    /\ SF_vars(EndEvents)
    /\ WF_vars(ExpireHellos)
    /\ WF_vars(StartTick)
    /\ WF_vars(Pair)
    /\ WF_vars(EndStage)
    /\ WF_vars(Exit)
    /\ \A c \in Conns : WF_vars(CloseCondemned(c)) /\ WF_vars(ShutdownClose(c))
    /\ \A m \in Slots : WF_vars(ExpireRound(m)) /\ WF_vars(ShutdownMatch(m))

TimeFairness ==
    /\ \A m \in Slots : SF_vars(RoundTimePasses(m))
    /\ \A c \in Conns : SF_vars(BotTimePasses(c)) /\ SF_vars(HelloTimePasses(c))

FairSpec == Spec /\ LoopFairness /\ TimeFairness
-----------------------------------------------------------------------------
(***************************************************************************)
(* What the server guarantees.                                             *)
(***************************************************************************)

\* A match and its two connections agree about each other: two different
\* connections, each IN_MATCH and pointing back at its own seat, and nobody is
\* IN_MATCH without a live match (start_match, end_match, leave_match_or_queue and
\* conn_close each write only part of this).
MatchesAgree ==
    /\ \A m \in Live :
          /\ mt[m].conn[0] # mt[m].conn[1]
          /\ \A s \in Seats : /\ state[mt[m].conn[s]] = "IN_MATCH"
                              /\ at[mt[m].conn[s]] = <<m, s>>
    /\ \A c \in Conns :
          IF state[c] = "IN_MATCH"
          THEN /\ at[c] # None
               /\ at[c][1] \in Live
               /\ mt[at[c][1]].conn[at[c][2]] = c
          ELSE at[c] = None

\* A pair that the queue rules choose always gets a match: start_match never
\* returns 0, so no pair is left waiting until the next arrival.
PairFindsSlot == pc \in Pairing /\ Pairs(QueueOf(pc)) # {} => Live # Slots

\* Two who meet chose the same mode, and a duelist meets only the holder of the
\* same match_token: never a stranger from the same queue.
PartnersBelong ==
    \A m \in Live : LET a == mt[m].conn[0]
                        b == mt[m].conn[1]
                    IN  mode[a] = mode[b] /\ token[a] = token[b]

\* A draft or constructed match is played with two completed decks: start_match
\* copies Conn.deck without looking at deck_n.
DeckedMatches ==
    \A m \in Live, s \in Seats :
        mode[mt[m].conn[s]] \in {"draft", "constructed"} => mt[m].conn[s] \in decked

\* what try_pair leaves behind in queue q: no two holders of one token, no two
\* humans, no human beside a bot, and in the FIFO queues at most two bots
Settled(q) ==
    /\ Duels(q) = {}
    /\ ~AtLeastTwo(Waiting(q, "human"))
    /\ Waiting(q, "human") = {} \/ Waiting(q, "bot") = {}
    /\ q = "constructed" \/ ~AtLeastThree(Waiting(q, "bot"))

\* the queues whose stage of try_pair is still ahead
StillToPair ==
    CASE pc = "card" -> {"card", "draft", "constructed"}
      [] pc = "draft" -> {"draft", "constructed"}
      [] pc = "constructed" -> {"constructed"}
      [] OTHER -> {}

\* Nobody waits who could play: try_pair runs only when somebody queues, so no leave,
\* hang-up, end of a match or condemned connection may open a pairing that it would miss.
QueuesSettled == \A q \in {"card", "draft", "constructed"} \ StillToPair : Settled(q)

\* The client's picture is right: unless its connection is condemned, the last
\* message it was sent tells it the state the server has it in.
ClientInStep ==
    \A c \in Conns \ closing :
        CASE state[c] = "FREE" -> told[c] = "none"
          [] state[c] = "CONNECTED" -> told[c] = "none"
          [] state[c] = "READY" -> told[c] \notin {"none", "ROUND_START", "ERROR"}
          [] state[c] = "QUEUED" -> told[c] = "QUEUED"
          [] state[c] = "DRAFTING" -> told[c] = "DRAFT_OFFER"
          [] state[c] = "IN_MATCH" -> told[c] = "ROUND_START"

\* The last waiting bot is kept for a human: a step that makes two bots play each
\* other (outside a duel) leaves a third bot waiting in that queue.
BotsReserved ==
    [][\A m \in Slots \ Live :
          m \in Live' =>
             LET a == mt'[m].conn[0]
                 b == mt'[m].conn[1]
             IN  kind[a] = "bot" /\ kind[b] = "bot" /\ token[a] = NoToken =>
                    \E c \in Conns : /\ state'[c] = "QUEUED" /\ kind[c] = "bot"
                                     /\ mode[c] = mode[a] /\ token[c] = NoToken]_vars

\* First come, first served in the card and draft queues: nobody is taken out of
\* the line into a match while somebody of the same kind who queued earlier stays.
NoOvertaking ==
    [][\A c, d \in Conns :
          /\ state[c] = "QUEUED" /\ state'[c] = "IN_MATCH"
          /\ d \in before[c] /\ token[c] = NoToken /\ token[d] = NoToken
          /\ mode[c] # "constructed"
          => state'[d] # "QUEUED"]_vars

\* Every match ends, whatever its players do or fail to do: a silent seat passes at
\* the deadline and the round limit decides.
MatchesEnd == \A m \in Slots : (m \in Live) ~> (m \notin Live)

\* A condemned connection is closed: after an ERROR or a failed send no client keeps
\* its slot.
CondemnedClose == \A c \in Conns : (c \in closing) ~> (c \notin closing)

\* The pacing of the constructed queue only delays: a tick of the loop never ends with
\* three bots waiting that have all waited long enough.
TickPairsRested ==
    [][pc = "tick" /\ pc' = "poll" =>
          ~(/\ Waiting("constructed", "human") = {}
            /\ AtLeastThree(Waiting("constructed", "bot"))
            /\ Waiting("constructed", "bot") \subseteq rested)]_vars

\* docs/WIRE_PROTOCOL.md:35 and :40 say that an ERROR closes the connection: after the
\* ERROR frame a client gets nothing but the end of the stream.
ErrorIsFinal ==
    [][\A c \in Conns : told[c] = "ERROR" => told'[c] \in {"ERROR", "none"}]_vars
=============================================================================
