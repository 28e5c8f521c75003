------------------------------ MODULE Session ------------------------------
(***************************************************************************)
(* The session of the Android client (core/Session.java): its state, moved *)
(* by a reader thread, a writer thread and the screen, against the state   *)
(* the server (src/apps/server/main.c) has of the same connection.         *)
(* Messages are their types; "SAME" is a QUEUE with same_deck.  What a     *)
(* match consists of is in Play: no PLAY changes either state.             *)
(***************************************************************************)
EXTENDS Integers, Sequences

CONSTANTS
    Modes,          \* among "card" and "draft"
    Picks,          \* DW_DRAFT_PICKS
    MaxTaps         \* bound: times the screen calls the session

VARIABLES
    mode,           \* Session.mode and Conn.mode; never changes
    state,          \* Session.state
    reader,         \* thread dw-session: "none", "connect", "read", "fail" (inside fail), "done"
    failing,        \* thread dw-writer is inside fail
    shut,           \* writer.shutdown() was called
    open,           \* the transport: "no", "yes", "closed"
    autoQueue, hasDeck,             \* Session.autoQueue; Session.deck # null
    outbox,         \* frames handed to the writer
    up, down,       \* frames on their way
    srv,            \* Conn.state, "none" before accept, "verify" before WELCOME
    picked, srvDeck,                \* DwDraft.picks; Conn.deck_n # 0
    taps            \* count of calls from the screen

session == <<mode, state, reader, failing, shut, open, autoQueue, hasDeck, outbox, taps>>
server == <<srv, picked, srvDeck>>
vars == <<session, server, up, down>>

Init ==
    /\ mode \in Modes
    /\ state = "IDLE" /\ reader = "none" /\ failing = FALSE /\ shut = FALSE
    /\ open = "no"
    /\ autoQueue \in BOOLEAN /\ hasDeck = FALSE
    /\ outbox = << >> /\ up = << >> /\ down = << >>
    /\ srv = "none" /\ picked = 0 /\ srvDeck = FALSE
    /\ taps = 0

-----------------------------------------------------------------------------
(* The session.                                                                *)

\* A frame handed to a writer that is shut down is lost.
Send(msg) == outbox' = IF shut THEN outbox ELSE Append(outbox, msg)

Start ==
    /\ reader = "none"
    /\ state' = "CONNECTING"
    /\ reader' = "connect"
    /\ UNCHANGED <<mode, failing, shut, open, autoQueue, hasDeck, outbox, taps, server, up, down>>

\* transport.connect(), then HELLO and the token.
Connect ==
    /\ reader = "connect"
    /\ open' = "yes"
    /\ up' = Append(up, "HELLO")
    /\ srv' = "connected"
    /\ reader' = "read"
    /\ UNCHANGED <<mode, state, failing, shut, autoQueue, hasDeck, outbox, taps, picked, srvDeck, down>>

\* The reader gets an exception or the end of the stream: whoever finds the session CLOSED
\* leaves it at that.
ReaderFails ==
    /\ \/ reader = "connect"
       \/ reader = "read" /\ (open = "closed" \/ (srv = "free" /\ down = << >>))
    /\ reader' = IF state = "CLOSED" THEN "done" ELSE "fail"
    /\ UNCHANGED <<mode, state, failing, shut, open, autoQueue, hasDeck, outbox, taps, server, up, down>>

\* The rest of fail, after its check of the state.
Fail(thread) ==
    /\ IF thread = "reader" THEN reader = "fail" /\ reader' = "done" /\ UNCHANGED failing
                            ELSE failing /\ failing' = FALSE /\ UNCHANGED reader
    /\ state' = "CLOSED" /\ shut' = TRUE
    /\ open' = IF open = "yes" THEN "closed" ELSE open
    /\ UNCHANGED <<mode, autoQueue, hasDeck, outbox, taps, server, up, down>>

\* The state that each message puts the session in; the others leave it as it is.
Moves == [WELCOME |-> "READY", QUEUED |-> "QUEUED", OFFER |-> "DRAFTING", FOUND |-> "IN_MATCH", END |-> "READY"]

\* handle(m), which a close() in the meantime does not stop.
Handle ==
    /\ reader = "read" /\ down # << >>
    /\ LET m == Head(down) IN
         IF m = "ERROR"
         THEN /\ reader' = IF state = "CLOSED" THEN "done" ELSE "fail"
              /\ UNCHANGED <<state, autoQueue, hasDeck, outbox>>
         ELSE /\ state' = IF m \in DOMAIN Moves THEN Moves[m] ELSE state
              /\ hasDeck' = (hasDeck \/ m = "DONE")
              /\ autoQueue' = (autoQueue /\ m # "WELCOME")
              /\ IF m = "WELCOME" /\ autoQueue THEN Send("QUEUE") ELSE UNCHANGED outbox
              /\ UNCHANGED reader
    /\ down' = Tail(down)
    /\ UNCHANGED <<mode, failing, shut, open, taps, server, up>>

\* The writer takes the next frame: it is written, or the write fails.
Written ==
    /\ outbox # << >> /\ ~failing
    /\ \/ open = "yes" /\ up' = Append(up, Head(outbox)) /\ UNCHANGED failing
       \/ /\ open # "yes" \/ srv = "free"
          /\ failing' = (state # "CLOSED")
          /\ UNCHANGED up
    /\ outbox' = Tail(outbox)
    /\ UNCHANGED <<mode, state, reader, shut, open, autoQueue, hasDeck, taps, server, down>>

\* The states of the session in which the screen's calls send a frame, and which.
Taps == {"READY"} \X {"QUEUE", "SAME"} \cup {<<"DRAFTING", "PICK">>} \cup {"QUEUED", "IN_MATCH", "DRAFTING"} \X {"LEAVE"}

Tap(msg) ==
    /\ taps < MaxTaps
    /\ taps' = taps + 1
    /\ <<state, msg>> \in Taps
    /\ Send(IF msg = "SAME" /\ ~hasDeck THEN "QUEUE" ELSE msg)
    /\ UNCHANGED <<mode, state, reader, failing, shut, open, autoQueue, hasDeck, server, up, down>>

\* close(): it does not wait for what the writer has.
Disconnect ==
    /\ taps < MaxTaps
    /\ taps' = taps + 1
    /\ state # "CLOSED"
    /\ state' = "CLOSED" /\ shut' = TRUE
    /\ open' = IF open = "yes" THEN "closed" ELSE open
    /\ UNCHANGED <<mode, reader, failing, autoQueue, hasDeck, outbox, server, up, down>>

-----------------------------------------------------------------------------
(* The server's side.                                                          *)

Answer(s, msgs) == srv' = s /\ down' = down \o msgs

\* handle_msg
Read ==
    /\ up # << >> /\ srv \notin {"none", "free"}
    /\ up' = Tail(up)
    /\ LET m == Head(up)
           drafts == mode = "draft" /\ ~(m = "SAME" /\ srvDeck)
           last == picked + 1 = Picks
       IN  CASE m = "HELLO" /\ srv = "connected" -> Answer("verify", << >>) /\ UNCHANGED <<picked, srvDeck>>
             [] m \in {"QUEUE", "SAME"} /\ srv = "ready" ->
                  /\ Answer(IF drafts THEN "drafting" ELSE "queued", IF drafts THEN <<"OFFER">> ELSE <<"QUEUED">>)
                  /\ picked' = 0
                  /\ UNCHANGED srvDeck
             [] m = "PICK" /\ srv = "drafting" ->
                  \/ Answer(srv, <<"OFFER">>) /\ UNCHANGED <<picked, srvDeck>>   \* an invalid pick
                  \/ /\ Answer(IF last THEN "queued" ELSE "drafting", IF last THEN <<"DONE", "QUEUED">> ELSE <<"OFFER">>)
                     /\ picked' = picked + 1
                     /\ srvDeck' = (srvDeck \/ last)
             [] m = "LEAVE" /\ srv \notin {"connected", "verify"} ->
                  /\ Answer("ready", IF srv = "match" THEN <<"END">> ELSE << >>)
                  /\ UNCHANGED <<picked, srvDeck>>
             [] OTHER -> Answer("free", <<"ERROR">>) /\ UNCHANGED <<picked, srvDeck>>
    /\ UNCHANGED session

\* become_ready, or the token is refused.
Verified ==
    /\ srv = "verify"
    /\ Answer("ready", <<"WELCOME">>) \/ Answer("free", <<"ERROR">>)
    /\ UNCHANGED <<session, picked, srvDeck, up>>

\* try_pair, start_match; resolve_round or the opponent ends the match.
Paired == srv = "queued" /\ Answer("match", <<"FOUND">>) /\ UNCHANGED <<session, picked, srvDeck, up>>
Ended == srv = "match" /\ Answer("ready", <<"END">>) /\ UNCHANGED <<session, picked, srvDeck, up>>

\* read_conn finds the stream ended, or the connection broken.
Gone == srv \notin {"none", "free"} /\ srv' = "free" /\ UNCHANGED <<session, picked, srvDeck, up, down>>

Next ==
    \/ Start \/ Connect \/ ReaderFails \/ Handle
    \/ Fail("reader") \/ Fail("writer") \/ Written
    \/ \E msg \in {"QUEUE", "SAME", "PICK", "LEAVE"} : Tap(msg)
    \/ Disconnect
    \/ Read \/ Verified \/ Paired \/ Ended \/ Gone

Spec == Init /\ [][Next]_vars

-----------------------------------------------------------------------------
(* Properties.                                                                 *)

\* The session's QUEUED is the server's (Session.java:8, docs/WIRE_PROTOCOL.md:14): with nothing
\* on its way, a session that is up is QUEUED just when the server has it in the queue.  The
\* server does not answer the LEAVE of one that waits, so the session stays QUEUED when it has
\* left: the screen goes on searching, and neither CANCEL nor queue() changes that.
Quiet == outbox = << >> /\ up = << >> /\ down = << >>
SearchesWhileQueued ==
    Quiet /\ reader = "read" /\ open = "yes" /\ ~failing /\ srv # "free"
      => (state = "QUEUED" <=> srv = "queued")

=============================================================================
