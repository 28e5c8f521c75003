-------------------------------- MODULE Play --------------------------------
(***************************************************************************)
(* The client driver of the bots and of the command-line client            *)
(* (src/core/client.c, the reconnect loop of src/apps/bot/main.c) against  *)
(* the server's handlers for QUEUE, DRAFT_PICK, DRAFT_RESUME and PLAY      *)
(* (src/apps/server/main.c), message by message: both sides know of each   *)
(* other only what is in the two byte streams between them.  Messages      *)
(* carry what the handlers compare: match id, round, slot, deck id.        *)
(* Connections break, the server crashes and is started again, and round   *)
(* deadlines fire at any time.                                             *)
(*                                                                         *)
(* Left to other modules: the pairing rules, connection slots and the      *)
(* closing pass (Matchmaking), HELLO and AUTH (Admission), the bytes of a  *)
(* message (Framing), what a round does (MatchRules): here the cards that  *)
(* may be played and the outcome of a round are any.                       *)
(***************************************************************************)
EXTENDS Draft, Sequences

CONSTANTS
    Clients,        \* processes that run dwc_run
    Conns,          \* TCP connections, numbered in the order they are made
    Modes,          \* what a client may be started with: "card", "draft", "constructed"
    Hands,          \* the sets of hand slots of which a round may leave a player the choice
    MaxRounds,      \* the most rounds of a match, by mode; max_rounds() for each in the code
    Target,         \* --matches of every client
    MaxFaults,      \* bound: connections that break and crashes of the server
    None

ASSUME PlayConstants ==
    /\ Conns \subseteq Nat /\ IsFiniteSet(Conns)
    /\ Modes \subseteq {"card", "draft", "constructed"}
    /\ MaxRounds \in [Modes -> Nat \ {0}] /\ Target \in [Clients -> Nat \ {0}]
    /\ MaxFaults \in Nat
    /\ None \notin Conns \cup Decks
    /\ -1 \notin UNION Hands

VARIABLES
    client,     \* of every client: DwRunOpts.mode and .done, dwc_run's match_id,
                \* the connection it uses, what it is doing, and decided (history):
                \* the last PLAY it chose at a ROUND_START
    conn,       \* the server's Conn: state, mode, draft, deck (None while deck_n is 0), deck_id
    matches,    \* the active matches
    next_match,
    next_deck,
    drafts,     \* decks.ndjson: its "draft" records
    games,      \* decks.ndjson: its "match" records, with the deck that was played
    up,         \* messages on their way to the server
    down,       \* messages on their way to the client
    cut,        \* connections that broke or that the client has closed
    closing,    \* connections with close_after_flush
    faults      \* cuts and crashes so far

logVars == <<drafts, games>>
wireVars == <<up, down, cut, closing, faults>>
vars == <<client, conn, matches, next_match, next_deck, logVars, wireVars>>

Pass == -1
Results == {<<"win", "loss">>, <<"loss", "win">>, <<"draw", "draw">>}

NoConn == [state |-> "FREE", mode |-> None, draft |-> None, deck |-> None, deck_id |-> 0]

Live == {c \in Conns : conn[c].state # "FREE"}
Unused == {c \in Conns : c \notin cut /\ conn[c].state = "FREE" /\ \A p \in Clients : client[p].at # c}
MatchOf(c) == CHOOSE m \in matches : c \in {m.conn[1], m.conn[2]}
SeatOf(m, c) == IF m.conn[1] = c THEN 1 ELSE 2

Init ==
    /\ client \in [Clients -> [mode : Modes, phase : {"off"}, at : {None}, match_id : {0},
                               done : {0}, decided : {None}]]
    /\ conn = [c \in Conns |-> NoConn]
    /\ matches = {}
    /\ next_match = 1
    /\ next_deck = 1
    /\ drafts = {}
    /\ games = {}
    /\ up = [c \in Conns |-> << >>]
    /\ down = [c \in Conns |-> << >>]
    /\ cut = {}
    /\ closing = {}
    /\ faults = 0

-----------------------------------------------------------------------------
(* What the server sends.  Every handler hands the messages it sends, per      *)
(* connection and in order, to Deliver; what goes to a broken or closed        *)
(* connection is lost.  QUEUED, PLAY_ACK and ROUND_RESULT are left out: the    *)
(* driver reads them and does nothing that matters here.                       *)

Nothing == [c \in Conns |-> << >>]
Only(c, msgs) == [Nothing EXCEPT ![c] = msgs]
Both(ms1, ms2) == [c \in Conns |-> ms1[c] \o ms2[c]]

Deliver(msgs) ==
    down' = [c \in Conns |-> IF c \in cut \/ conn'[c].state = "FREE" THEN down[c] ELSE down[c] \o msgs[c]]

Error == <<[type |-> "ERROR"]>>
Refuse(c) ==
    /\ closing' = closing \cup {c}
    /\ UNCHANGED <<client, conn, matches, next_match, next_deck, logVars, cut, faults>>
    /\ Deliver(Only(c, Error))

\* send_round_start: the view tells each seat which of its slots may be played.
RoundStart(m) ==
    [c \in Conns |-> IF c \in {m.conn[1], m.conn[2]}
                     THEN <<[type |-> "ROUND_START", round |-> m.round, legal |-> m.legal[SeatOf(m, c)]]>>
                     ELSE << >>]

\* dw_match_begin_round: hands, energy and locked slots are any.
BeginRounds(m) ==
    {[m EXCEPT !.round = @ + 1, !.legal = l, !.lock = <<None, None>>] :
       l \in [1 .. 2 -> Hands]}

\* end_match and write_match_log: tell both, make them READY again, and log the game of a draft deck.
EndMessages(m, result) ==
    [c \in Conns |-> IF c \in {m.conn[1], m.conn[2]}
                     THEN <<[type |-> "MATCH_END", match |-> m.id, result |-> result[SeatOf(m, c)]]>>
                     ELSE << >>]
AfterMatch(m) ==
    [c \in Conns |-> IF c \in {m.conn[1], m.conn[2]} /\ conn[c].state = "IN_MATCH"
                     THEN [conn[c] EXCEPT !.state = "READY"] ELSE conn[c]]
LogGame(m) ==
    games' = IF m.mode = "draft" THEN games \cup {[id |-> m.deck_id[s], deck |-> m.deck[s]] : s \in 1 .. 2}
             ELSE games

\* resolve_round with both seats locked, for one of its outcomes.
MatchOver(m) ==
    \E result \in Results :
      /\ matches' = matches \ {MatchOf(m.conn[1])}
      /\ conn' = AfterMatch(m)
      /\ LogGame(m)
      /\ Deliver(EndMessages(m, result))
NextRound(m) ==
    /\ m.round < MaxRounds[m.mode]
    /\ UNCHANGED <<conn, games>>
    /\ \E n \in BeginRounds(m) :
         /\ matches' = (matches \ {MatchOf(m.conn[1])}) \cup {n}
         /\ Deliver(RoundStart(n))
ResolveRound(m) == MatchOver(m) \/ NextRound(m)

-----------------------------------------------------------------------------
(* The server's handlers.                                                      *)

\* enter_queue with c's Conn as it is by now: pair it with whoever waits in the same queue
\* (start_match).  The messages in first go out before.
EnterQueue(c, self, first) ==
    LET here == [conn EXCEPT ![c] = [self EXCEPT !.state = "QUEUED"]]
        rivals == {d \in Conns \ {c} : conn[d].state = "QUEUED" /\ conn[d].mode = self.mode}
    IN  \/ /\ rivals = {}
           /\ conn' = here
           /\ Deliver(first)
           /\ UNCHANGED <<matches, next_match>>
        \/ \E d \in rivals :
             LET m0 == [id |-> next_match, conn |-> <<d, c>>, mode |-> self.mode, round |-> 0,
                        legal |-> <<{}, {}>>, lock |-> <<None, None>>,
                        deck |-> <<here[d].deck, here[c].deck>>,
                        deck_id |-> <<here[d].deck_id, here[c].deck_id>>]
                 found == [x \in Conns |-> IF x \in {c, d} THEN <<[type |-> "MATCH_FOUND", match |-> next_match]>>
                                           ELSE << >>]
             IN  /\ conn' = [x \in Conns |-> IF x \in {c, d} THEN [here[x] EXCEPT !.state = "IN_MATCH"] ELSE here[x]]
                 /\ next_match' = next_match + 1
                 /\ \E m \in BeginRounds(m0) :
                      /\ matches' = matches \cup {m}
                      /\ Deliver(Both(first, Both(found, RoundStart(m))))

Offer(d) == <<[type |-> "DRAFT_OFFER", offer |-> d.offer, left |-> d.left]>>

\* start_draft: the draft begins afresh whatever deck the connection still has.
StartDraft(c) ==
    \E d \in NewDrafts :
      /\ conn' = [conn EXCEPT ![c] = [@ EXCEPT !.state = "DRAFTING", !.draft = d]]
      /\ Deliver(Only(c, Offer(d)))

QueuesAtOnce(c, msg) ==
    \/ conn[c].mode = "card"
    \/ conn[c].mode = "constructed"
    \/ conn[c].mode = "draft" /\ msg.same_deck /\ conn[c].deck # None

Queue(c, msg) ==
    IF conn[c].state # "READY" \/ (conn[c].mode = "constructed" /\ conn[c].deck = None)
    THEN Refuse(c)
    ELSE /\ IF QueuesAtOnce(c, msg)
            THEN EnterQueue(c, conn[c], Nothing)
            ELSE StartDraft(c) /\ UNCHANGED <<matches, next_match>>
         /\ UNCHANGED <<client, next_deck, logVars, cut, closing, faults>>

DraftDoneMsg(id, cards) == <<[type |-> "DRAFT_DONE", deck_id |-> id, cards |-> cards]>>
\* log_deck
LogDeck(id, cards) == drafts' = drafts \cup {[id |-> id, deck |-> cards]}

\* draft_pick: an invalid pick is answered by the same offer, the last one by the deck and the queue.
DraftPick(c, msg) ==
    IF conn[c].state # "DRAFTING" THEN Refuse(c)
    ELSE /\ IF ~PickValid(conn[c].draft, msg.index, msg.mult)
            THEN /\ UNCHANGED <<conn, matches, next_match, next_deck, drafts>>
                 /\ Deliver(Only(c, Offer(conn[c].draft)))
            ELSE \E d \in Picked(conn[c].draft, msg.index, msg.mult) :
                   IF DraftDone(d)
                   THEN /\ next_deck' = next_deck + 1
                        /\ LogDeck(next_deck, d.deck)
                        /\ EnterQueue(c, [conn[c] EXCEPT !.draft = None, !.deck = d.deck, !.deck_id = next_deck],
                                      Only(c, DraftDoneMsg(next_deck, d.deck)))
                   ELSE /\ conn' = [conn EXCEPT ![c].draft = d]
                        /\ Deliver(Only(c, Offer(d)))
                        /\ UNCHANGED <<matches, next_match, next_deck, drafts>>
         /\ UNCHANGED <<client, games, cut, closing, faults>>

\* DRAFT_RESUME: a whole deck; one for the constructed queue is not a draft and is not logged.
DraftResume(c, msg) ==
    IF conn[c].state # "READY" \/ conn[c].mode = "card" \/ ~DeckValid(msg.cards) THEN Refuse(c)
    ELSE /\ conn' = [conn EXCEPT ![c] = [@ EXCEPT !.deck = msg.cards, !.deck_id = next_deck]]
         /\ next_deck' = next_deck + 1
         /\ IF conn[c].mode = "draft" THEN LogDeck(next_deck, msg.cards) ELSE UNCHANGED drafts
         /\ Deliver(Only(c, DraftDoneMsg(next_deck, msg.cards)))
         /\ UNCHANGED <<client, matches, next_match, games, cut, closing, faults>>

\* Why dw_match_lock and the PLAY handler refuse a play, "" when they do not.  "illegal card" stands
\* for DW_REJ_BAD_SLOT too: the driver answers both with a pass.
InMatchOf(c, msg) == conn[c].state = "IN_MATCH" /\ msg.match = MatchOf(c).id
\* Mutant: a play is taken for whatever round the match is in.
InAnyRound(c, msg) == InMatchOf(c, msg)
InRoundOf(c, msg) == msg.round = MatchOf(c).round
Reason(c, msg) ==
    CASE ~InMatchOf(c, msg) -> "no match"
      [] InMatchOf(c, msg) /\ ~InRoundOf(c, msg) -> "wrong round"
      [] OTHER -> LET m == MatchOf(c)  s == SeatOf(m, c)
                  IN  IF m.lock[s] # None THEN "already locked"
                      ELSE IF msg.slot \notin m.legal[s] \cup {Pass} THEN "illegal card" ELSE ""

Play(c, msg) ==
    /\ LET reason == Reason(c, msg)
           m == MatchOf(c)
           locked == [m EXCEPT !.lock[SeatOf(m, c)] = msg.slot]
       IN  IF reason # ""
           THEN /\ UNCHANGED <<conn, matches, games>>
                /\ Deliver(Only(c, <<[type |-> "PLAY_REJECT", match |-> msg.match, round |-> msg.round,
                                      reason |-> reason]>>))
           ELSE IF None \in {locked.lock[1], locked.lock[2]}
           THEN /\ matches' = (matches \ {m}) \cup {locked}
                /\ UNCHANGED <<conn, games, down>>
           ELSE ResolveRound(locked)
    /\ UNCHANGED <<client, next_match, next_deck, drafts, cut, closing, faults>>

\* read_conn and handle_msg, one message of a connection that is not condemned.
ServerReads(c) ==
    /\ c \in Live \ closing
    /\ up[c] # << >>
    /\ up' = [up EXCEPT ![c] = Tail(@)]
    /\ LET msg == Head(up[c])
       IN  CASE msg.type = "QUEUE" -> Queue(c, msg)
             [] msg.type = "DRAFT_PICK" -> DraftPick(c, msg)
             [] msg.type = "DRAFT_RESUME" -> DraftResume(c, msg)
             [] msg.type = "PLAY" -> Play(c, msg)

\* expire_timers: a missing lock is a pass.
Deadline(m) ==
    /\ LET late == [m EXCEPT !.lock = [s \in 1 .. 2 |-> IF m.lock[s] = None THEN Pass ELSE m.lock[s]]]
       IN  ResolveRound(late)
    /\ UNCHANGED <<client, next_match, next_deck, drafts, up, cut, closing, faults>>

\* conn_close, after a broken connection was noticed or by the closing pass: the match is forfeited.
ConnClose(c) ==
    /\ c \in Live
    /\ c \in cut \cup closing
    /\ IF conn[c].state = "IN_MATCH"
       THEN LET m == MatchOf(c)
                result == IF SeatOf(m, c) = 1 THEN <<"loss", "win">> ELSE <<"win", "loss">>
            IN  /\ matches' = matches \ {m}
                /\ conn' = [AfterMatch(m) EXCEPT ![c] = NoConn]
                /\ LogGame(m)
                /\ Deliver(EndMessages(m, result))
       ELSE /\ conn' = [conn EXCEPT ![c] = NoConn]
            /\ UNCHANGED <<matches, games, down>>
    /\ closing' = closing \ {c}
    /\ up' = [up EXCEPT ![c] = << >>]
    /\ UNCHANGED <<client, next_match, next_deck, drafts, cut, faults>>

\* Mutant: the highest logged id is given again.
ResumedAtHighest ==
    LET ids == {r.id : r \in drafts}
    IN  IF ids = {} THEN 1 ELSE CHOOSE i \in ids : \A j \in ids : j <= i

\* The server dies and is started again: nothing is left of it but decks.ndjson, from
\* which resume_deck_ids takes the next deck id.
ResumedDeckId ==
    LET ids == {r.id : r \in drafts}
    IN  IF ids = {} THEN 1 ELSE 1 + (CHOOSE i \in ids : \A j \in ids : j <= i)

Crash ==
    /\ faults < MaxFaults
    /\ faults' = faults + 1
    /\ conn' = [c \in Conns |-> NoConn]
    /\ matches' = {}
    /\ next_match' = 1
    /\ next_deck' = ResumedDeckId
    /\ up' = [c \in Conns |-> << >>]
    /\ cut' = cut \cup Live
    /\ closing' = {}
    /\ UNCHANGED <<client, logVars, down>>

Cut(c) ==
    /\ faults < MaxFaults
    /\ faults' = faults + 1
    /\ c \in Live \ cut
    /\ cut' = cut \cup {c}
    /\ UNCHANGED <<client, conn, matches, next_match, next_deck, logVars, up, down, closing>>

-----------------------------------------------------------------------------
(* The client driver.                                                          *)

\* dwc_connect and HELLO; the server's WELCOME makes the connection READY.
Connect(p) ==
    /\ client[p].phase = "off"
    /\ \E c \in Unused :
         /\ \A x \in Unused : c <= x
         /\ client' = [client EXCEPT ![p] = [@ EXCEPT !.phase = "on", !.at = c]]
         /\ conn' = [conn EXCEPT ![c] = [NoConn EXCEPT !.state = "READY", !.mode = client[p].mode]]
         /\ down' = [down EXCEPT ![c] = <<[type |-> "WELCOME"]>>]
    /\ UNCHANGED <<matches, next_match, next_deck, logVars, up, cut, closing, faults>>

Send(c, msg) == up' = [up EXCEPT ![c] = IF c \in cut \/ conn[c].state = "FREE" THEN @ ELSE Append(@, msg)]

QueueMsg(same) == [type |-> "QUEUE", same_deck |-> same]
SendDeck(c) == \E cards \in LegalDecks : Send(c, [type |-> "DRAFT_RESUME", cards |-> cards])

Welcomed(p, c) ==
    IF client[p].mode = "constructed" THEN SendDeck(c) ELSE Send(c, QueueMsg(FALSE))

\* bot_draft_pick: either card, and a number of copies that is left.
Offered(c, msg) ==
    \E idx \in 1 .. 2, mult \in {k \in Copies : msg.left[k] > 0} :
      Send(c, [type |-> "DRAFT_PICK", index |-> idx, mult |-> mult])

\* Mutant: every deck is queued with, as if the server did not do that for drafted ones.
DraftedTwice(p, c) == Send(c, QueueMsg(TRUE))
Drafted(p, c) == IF client[p].mode = "constructed" THEN Send(c, QueueMsg(TRUE)) ELSE UNCHANGED up

\* Mutant: every rejection is answered.
RejectedAny(c, msg) == Send(c, [type |-> "PLAY", match |-> msg.match, round |-> msg.round, slot |-> Pass])

\* A rejected card is passed instead; any other rejection is left unanswered.
Rejected(c, msg) ==
    IF msg.reason = "illegal card"
    THEN Send(c, [type |-> "PLAY", match |-> msg.match, round |-> msg.round, slot |-> Pass])
    ELSE UNCHANGED up

\* dw_policy_choose: a slot the ROUND_START says is legal, or none.
Choose(p, c, msg) ==
    \E slot \in msg.legal \cup {Pass} :
      LET play == [type |-> "PLAY", match |-> client[p].match_id, round |-> msg.round, slot |-> slot]
      IN  /\ Send(c, play)
          /\ client' = [client EXCEPT ![p].decided = [match |-> play.match, round |-> play.round, slot |-> slot]]
          /\ UNCHANGED cut

\* dwc_run returns: the caller closes the connection, and reconnects unless its target is reached.
Return(p, c, to) ==
    /\ client' = [client EXCEPT ![p] = [@ EXCEPT !.phase = to, !.at = None, !.match_id = 0, !.decided = None,
                                                 !.done = client[p].done + (IF to = "finished" THEN 1 ELSE 0)]]
    /\ cut' = cut \cup {c}
    /\ UNCHANGED up

Requeue(p, c, msg) ==
    /\ client' = [client EXCEPT ![p].done = @ + 1]
    /\ IF client[p].mode = "constructed" THEN SendDeck(c)
       ELSE Send(c, QueueMsg(client[p].mode = "draft" /\ msg.result # "loss"))
    /\ UNCHANGED cut

\* One message in dwc_run's loop.
ClientReads(p) ==
    LET c == client[p].at
    IN  /\ client[p].phase = "on"
        /\ down[c] # << >>
        /\ LET msg == Head(down[c])
           IN  CASE msg.type = "WELCOME" -> Welcomed(p, c) /\ UNCHANGED <<client, cut>>
                 [] msg.type = "DRAFT_OFFER" -> Offered(c, msg) /\ UNCHANGED <<client, cut>>
                 [] msg.type = "DRAFT_DONE" -> Drafted(p, c) /\ UNCHANGED <<client, cut>>
                 [] msg.type = "MATCH_FOUND" -> /\ client' = [client EXCEPT ![p].match_id = msg.match]
                                                /\ UNCHANGED <<up, cut>>
                 [] msg.type = "ROUND_START" -> Choose(p, c, msg)
                 [] msg.type = "PLAY_REJECT" -> Rejected(c, msg) /\ UNCHANGED <<client, cut>>
                 [] msg.type = "MATCH_END" -> IF client[p].done + 1 >= Target[p] THEN Return(p, c, "finished")
                                              ELSE Requeue(p, c, msg)
                 [] msg.type = "ERROR" -> Return(p, c, "off")
        /\ down' = [down EXCEPT ![c] = IF client'[p].phase = "on" THEN Tail(@) ELSE << >>]
        /\ UNCHANGED <<conn, matches, next_match, next_deck, logVars, closing, faults>>

\* The connection is gone: at once when it broke, after the last message when the server closed it.
Lost(p) ==
    LET c == client[p].at
    IN  /\ client[p].phase = "on"
        /\ c \in cut \/ (conn[c].state = "FREE" /\ down[c] = << >>)
        /\ Return(p, c, "off")
        /\ down' = [down EXCEPT ![c] = << >>]
        /\ UNCHANGED <<conn, matches, next_match, next_deck, logVars, closing, faults>>

-----------------------------------------------------------------------------
Next ==
    \/ \E c \in Conns : ServerReads(c) \/ ConnClose(c) \/ Cut(c)
    \/ \E m \in matches : Deadline(m)
    \/ \E p \in Clients : Connect(p) \/ ClientReads(p) \/ Lost(p)
    \/ Crash

Spec == Init /\ [][Next]_vars

\* Sockets deliver, the loop reads what it is sent and notices what is closed, drivers
\* run, and the backoff of the reconnect loop ends.
FairSpec ==
    /\ Spec
    /\ \A c \in Conns : WF_vars(ServerReads(c)) /\ WF_vars(ConnClose(c))
    /\ \A p \in Clients : WF_vars(Connect(p)) /\ WF_vars(ClientReads(p)) /\ WF_vars(Lost(p))

-----------------------------------------------------------------------------
(* Properties.                                                                 *)

PlayTypeOK ==
    /\ \A c \in Conns :
         /\ conn[c].state \in {"FREE", "READY", "DRAFTING", "QUEUED", "IN_MATCH"}
         /\ conn[c].deck # None => DeckValid(conn[c].deck)
         /\ conn[c].state = "DRAFTING" => DraftOK(conn[c].draft) /\ ~DraftDone(conn[c].draft)
         /\ conn[c].state \in {"QUEUED", "IN_MATCH"} /\ conn[c].mode # "card" => conn[c].deck # None
    /\ \A m \in matches : m.round \in 1 .. MaxRounds[m.mode] /\ None \in {m.lock[1], m.lock[2]}

\* What the server has locked for a seat is what the driver of that connection chose when it
\* saw that very match and round, although deadlines resolve rounds while it is choosing.
LockedAsDecided ==
    \A m \in matches, s \in 1 .. 2, p \in Clients :
      m.lock[s] # None /\ client[p].at = m.conn[s]
        => client[p].decided = [match |-> m.id, round |-> m.round, slot |-> m.lock[s]]

\* A driver is never sent an ERROR, and its plays are only ever refused for being late.
NeverRefused ==
    /\ closing = {}
    /\ \A c \in Conns : \A i \in DOMAIN down[c] :
         down[c][i].type = "PLAY_REJECT" => down[c][i].reason \in {"no match", "wrong round"}

\* decks.ndjson can be keyed by deck id: ids are logged once, and every game logged under an
\* id was played with the deck logged under it, whatever crashes and restarts there were.
DecksKeyed ==
    /\ \A r, q \in drafts : r.id = q.id => r = q
    /\ \A g \in games : g \in drafts
    /\ \A r \in drafts : r.id < next_deck

\* In the end every driver has played the matches it was asked for, or waits in a queue in which
\* nobody else waits, and nothing is on its way: no play and rejection go back and forth forever.
Waits(p) ==
    /\ client[p].phase = "on"
    /\ conn[client[p].at].state = "QUEUED"
    /\ \A c \in Conns \ {client[p].at} :
         ~(conn[c].state = "QUEUED" /\ conn[c].mode = client[p].mode)
DriversSettle ==
    <>[](/\ \A p \in Clients : client[p].phase = "finished" \/ Waits(p)
         /\ \A c \in Conns : up[c] = << >> /\ (c \notin cut => down[c] = << >>))

=============================================================================
