-------------------------------- MODULE Gui --------------------------------
(***************************************************************************)
(* The desktop client (apps/gui/main.c) of a player with an account: its   *)
(* screens, its connection to the match server and the draft runs it buys  *)
(* from IDUNA.  App is the struct A; a field keeps its name.  A deck is the*)
(* number of the run in which it was drafted, 0 for none.                  *)
(*                                                                         *)
(* A match is FOUND and END here (Play has the rest), accounts, friends    *)
(* and drawing are left out.  IDUNA's own code is not in the repository: a *)
(* call either fails without effect or does what its caller relies on.     *)
(***************************************************************************)
EXTENDS Integers, Sequences

CONSTANTS
    Picks,       \* DW_DRAFT_PICKS
    MaxRuns,     \* bound: draft runs begun
    Tickets,     \* tickets at the start, and bound of what is granted
    MaxUp        \* bound: frames under way while the player picks once more

VARIABLES
    A,           \* the client
    idu,         \* IDUNA: run (0: none active), its deck, the balance, runs begun
    srv,         \* the server's Conn: state, mode, deck, picks
    up, down     \* frames to the server, frames to the client

vars == <<A, idu, srv, up, down>>
net == <<srv, up, down>>

NoConn == [state |-> "free", mode |-> "card", deck |-> 0, picks |-> 0]

\* The client starts with what IDUNA tells it of the run, or nothing when it does not answer.
Init ==
    \E active, drafted, told \in BOOLEAN :
        /\ idu = [run |-> IF active THEN 1 ELSE 0, deck |-> IF active /\ drafted THEN 1 ELSE 0,
                  balance |-> Tickets, runs |-> 1]
        /\ A = [screen |-> IF active /\ told THEN "hub" ELSE "menu", mode |-> "card",
                connected |-> FALSE, tickets |-> Tickets, hub_active |-> active /\ told,
                hub_deck |-> IF told THEN idu.deck ELSE 0, hub_deck_n |-> told /\ idu.deck # 0,
                deck |-> 0, deck_n |-> FALSE, resume_pending |-> FALSE,
                awaiting_resume_queue |-> FALSE, pending_match_token |-> FALSE, end_wait |-> FALSE]
        /\ srv = NoConn /\ up = << >> /\ down = << >>

-----------------------------------------------------------------------------
(***************************************************************************)
(* What the handlers share; a is the client as changed so far.             *)
(***************************************************************************)

\* IDUNA, told of the end of a draft match, may end the run and pay for it.
Reported ==
    \/ UNCHANGED idu
    \/ /\ srv.mode = "draft" /\ idu.run # 0
       /\ \E granted \in 0 .. Tickets - idu.balance :
              idu' = [idu EXCEPT !.run = 0, !.deck = 0, !.balance = @ + granted]

\* The connection goes away: in a match, of which the client may not know yet, that is a forfeit.
Forfeits == IF srv.state = "match" THEN Reported ELSE UNCHANGED idu

Closed == srv' = NoConn /\ up' = << >> /\ down' = << >>

\* to_menu, with a balance that IDUNA may not answer
to_menu(a) ==
    /\ \E t \in {a.tickets, idu.balance} :
           A' = [a EXCEPT !.screen = "menu", !.connected = FALSE, !.tickets = t]
    /\ Closed

\* dwc_send: when the server has hung up the frame may be lost or refused; without a
\* connection it is refused.
Sends(a, msg) ==
    \/ srv.state # "free" /\ A' = a /\ up' = Append(up, msg) /\ UNCHANGED <<srv, down>>
    \/ srv.state = "free" /\ a.connected /\ A' = a /\ UNCHANGED net
    \/ srv.state = "free" /\ to_menu(a)

\* do_connect: no connection, one that is lost before HELLO is sent, or a good one
do_connect(a) ==
    \/ A' = a /\ UNCHANGED net
    \/ to_menu(a)
    \/ /\ A' = [a EXCEPT !.connected = TRUE, !.screen = "queue",
                         !.deck_n = a.deck_n /\ a.resume_pending]
       /\ srv' = [NoConn EXCEPT !.state = "connected"]
       /\ up' = << <<"HELLO", a.mode>> >> /\ down' = << >>

\* refresh_draft_hub: an empty deck leaves the cards of an earlier one in place
Refreshed(a) ==
    {a, [a EXCEPT !.hub_active = idu.run # 0, !.hub_deck_n = idu.deck # 0,
                  !.hub_deck = IF idu.deck # 0 THEN idu.deck ELSE @]}

requeue(same_deck) == Sends([A EXCEPT !.screen = "queue"], <<IF same_deck THEN "SAME" ELSE "QUEUE", 0>>)

-----------------------------------------------------------------------------
(***************************************************************************)
(* The player.                                                             *)
(***************************************************************************)

\* start_draft_run, when IDUNA answers.  It spends a ticket unless a run is active.  When
\* do_connect leaves the client without a connection the run is given up for its ticket; if
\* that call fails too, the balance shown becomes 0.
start_draft_run ==
    /\ A.screen = "menu" /\ A.tickets > 0
    /\ \/ /\ idu.run # 0
          /\ \E t \in {A.tickets, idu.balance} : \E b \in Refreshed([A EXCEPT !.tickets = t]) :
                 A' = [b EXCEPT !.hub_active = TRUE, !.screen = "hub"]
          /\ UNCHANGED <<idu, net>>
       \/ /\ idu.run = 0 /\ idu.balance = 0
          /\ \E t \in {A.tickets, 0} : A' = [A EXCEPT !.tickets = t]
          /\ UNCHANGED <<idu, net>>
       \/ /\ idu.run = 0 /\ idu.balance > 0 /\ idu.runs < MaxRuns
          /\ LET begun == [idu EXCEPT !.run = idu.runs + 1, !.runs = @ + 1, !.deck = 0, !.balance = @ - 1]
             IN  \/ /\ \E t \in {A.tickets, begun.balance} :
                           do_connect([A EXCEPT !.tickets = t, !.mode = "draft"])
                    /\ A'.connected
                    /\ idu' = begun
                 \/ /\ A' = [A EXCEPT !.mode = "draft", !.tickets = idu.balance]
                    /\ idu' = [idu EXCEPT !.runs = @ + 1]
                    /\ UNCHANGED net
                 \/ /\ A' = [A EXCEPT !.mode = "draft", !.tickets = 0]
                    /\ idu' = begun
                    /\ UNCHANGED net

Play == A.screen = "menu" /\ do_connect([A EXCEPT !.mode = "card"]) /\ UNCHANGED idu

\* social_play_duel
PlayDuel ==
    /\ A.screen = "social"
    /\ do_connect([A EXCEPT !.pending_match_token = TRUE, !.mode = "card"])
    /\ UNCHANGED idu

\* The menu's other screens, and F2
Switch ==
    /\ \/ A.screen = "menu" /\ A' = [A EXCEPT !.screen = "social"]
       \/ A.screen = "social" /\ A' = [A EXCEPT !.screen = "menu"]
       \/ A.screen = "menu" /\ A' = [A EXCEPT !.mode = IF @ = "draft" THEN "card" ELSE "draft"]
    /\ UNCHANGED <<idu, net>>

do_resume_uplink ==
    /\ A.screen = "hub"
    /\ IF A.connected THEN requeue(TRUE)
       ELSE do_connect([A EXCEPT !.mode = "draft", !.deck = A.hub_deck, !.deck_n = A.hub_deck_n,
                                 !.resume_pending = TRUE])
    /\ UNCHANGED idu

\* do_draft_abort, when IDUNA answers
do_draft_abort ==
    /\ A.screen = "hub" /\ idu.run # 0
    /\ \E granted \in 0 .. Tickets :
           /\ idu.balance + granted <= Tickets
           /\ idu' = [idu EXCEPT !.run = 0, !.deck = 0, !.balance = @ + granted]
           /\ A' = [A EXCEPT !.tickets = idu.balance + granted, !.hub_active = FALSE, !.connected = FALSE,
                             !.screen = "menu"]
    /\ Closed

\* CANCEL in the queue and LEAVE in the draft send LEAVE and hang up; MENU only hangs up.
Leave == A.screen \in {"queue", "draft", "end"} /\ to_menu(A) /\ Forfeits

\* Any click on an offer; nothing stops a second one before the answer.
Pick ==
    /\ A.screen = "draft" /\ Len(up) + Len(down) < MaxUp
    /\ Sends(A, <<"PICK", 0>>)
    /\ UNCHANGED idu

\* DRAFT HUB or PLAY AGAIN after a match
Again ==
    /\ A.screen = "end"
    /\ IF A.mode = "draft" /\ A.deck_n
       THEN \E b \in Refreshed(A) :
                IF b.hub_active THEN A' = [b EXCEPT !.screen = "hub"] /\ UNCHANGED <<idu, net>>
                ELSE to_menu(b) /\ Forfeits
       ELSE requeue(FALSE) /\ UNCHANGED idu

\* The last animation of a match is over.
EndShown ==
    /\ A.end_wait
    /\ A' = [A EXCEPT !.end_wait = FALSE, !.screen = "end"]
    /\ UNCHANGED <<idu, net>>

-----------------------------------------------------------------------------
(***************************************************************************)
(* handle_msg: the next message of the server.                             *)
(***************************************************************************)

\* Reads message m and sends msg.
Answers(a, msg) ==
    \/ srv.state # "free" /\ A' = a /\ up' = Append(up, msg) /\ down' = Tail(down) /\ UNCHANGED srv
    \/ srv.state = "free" /\ A' = a /\ down' = Tail(down) /\ UNCHANGED <<srv, up>>
    \/ srv.state = "free" /\ to_menu(a)

Shows(a) == A' = a /\ down' = Tail(down) /\ UNCHANGED <<srv, up>>

Welcome ==
    CASE A.resume_pending ->
           Answers([A EXCEPT !.resume_pending = FALSE, !.awaiting_resume_queue = TRUE], <<"RESUME", A.deck>>)
      [] ~A.resume_pending /\ A.pending_match_token ->
           Answers([A EXCEPT !.pending_match_token = FALSE], <<"QUEUE", 0>>)
      [] OTHER -> Answers(A, <<"QUEUE", 0>>)

\* The deck of a draft is saved in IDUNA, one that was resumed is queued with.
DraftDone(deck) ==
    LET a == [A EXCEPT !.deck = deck, !.deck_n = TRUE, !.screen = "queue"]
    IN  IF A.awaiting_resume_queue
        THEN Answers([a EXCEPT !.awaiting_resume_queue = FALSE], <<"SAME", 0>>) /\ UNCHANGED idu
        ELSE Shows(a) /\ idu' \in {idu, [idu EXCEPT !.deck = IF idu.run # 0 THEN deck ELSE @]}

Receive ==
    /\ A.connected /\ down # << >>
    /\ LET m == Head(down) IN
       \/ m[1] = "WELCOME" /\ Welcome /\ UNCHANGED idu
       \/ m[1] = "QUEUED" /\ Shows(A) /\ UNCHANGED idu
       \/ m[1] = "OFFER" /\ Shows([A EXCEPT !.screen = "draft"]) /\ UNCHANGED idu
       \/ m[1] = "DONE" /\ DraftDone(m[2])
       \/ m[1] = "FOUND" /\ Shows([A EXCEPT !.screen = "match", !.end_wait = FALSE]) /\ UNCHANGED idu
       \/ m[1] = "END" /\ Shows([A EXCEPT !.screen = "end"]) /\ UNCHANGED idu
       \/ m[1] = "END" /\ A.screen = "match" /\ Shows([A EXCEPT !.end_wait = TRUE]) /\ UNCHANGED idu
       \/ m[1] = "ERROR" /\ to_menu(A) /\ UNCHANGED idu

\* pump finds the connection ended.
Lost == A.connected /\ down = << >> /\ srv.state = "free" /\ to_menu(A) /\ UNCHANGED idu

-----------------------------------------------------------------------------
(***************************************************************************)
(* The server's side (apps/server/main.c).                                 *)
(***************************************************************************)

Answer(conn, msgs) == srv' = conn /\ down' = down \o msgs
Refuse == Answer([srv EXCEPT !.state = "free"], << <<"ERROR", 0>> >>)

Read ==
    /\ up # << >> /\ srv.state # "free"
    /\ up' = Tail(up)
    /\ LET m == Head(up)
           drafts == srv.mode = "draft" /\ ~(m[1] = "SAME" /\ srv.deck # 0)
       IN  CASE m[1] = "PICK" /\ srv.state = "drafting" ->
                  \/ Answer(srv, << <<"OFFER", 0>> >>)               \* an invalid pick
                  \/ /\ srv.picks + 1 < Picks
                     /\ Answer([srv EXCEPT !.picks = @ + 1], << <<"OFFER", 0>> >>)
                  \/ /\ srv.picks + 1 = Picks
                     /\ Answer([srv EXCEPT !.state = "queued", !.deck = idu.runs],
                               << <<"DONE", idu.runs>>, <<"QUEUED", 0>> >>)
             [] m[1] = "HELLO" /\ srv.state = "connected" ->
                  Answer([srv EXCEPT !.state = "verify", !.mode = m[2]], << >>)
             [] m[1] \in {"QUEUE", "SAME"} /\ srv.state = "ready" ->
                  IF drafts THEN Answer([srv EXCEPT !.state = "drafting", !.picks = 0], << <<"OFFER", 0>> >>)
                            ELSE Answer([srv EXCEPT !.state = "queued"], << <<"QUEUED", 0>> >>)
             [] m[1] = "RESUME" /\ srv.state = "ready" /\ srv.mode = "draft" /\ m[2] # 0 ->
                  Answer([srv EXCEPT !.deck = m[2]], << <<"DONE", m[2]>> >>)
             [] OTHER -> Refuse
    /\ UNCHANGED <<A, idu>>

Verified ==
    /\ srv.state = "verify"
    /\ Answer([srv EXCEPT !.state = "ready"], << <<"WELCOME", 0>> >>) \/ Refuse
    /\ UNCHANGED <<A, idu, up>>

Paired ==
    /\ srv.state = "queued"
    /\ Answer([srv EXCEPT !.state = "match"], << <<"FOUND", 0>> >>)
    /\ UNCHANGED <<A, idu, up>>

Ended ==
    /\ srv.state = "match"
    /\ Answer([srv EXCEPT !.state = "ready"], << <<"END", 0>> >>)
    /\ Reported
    /\ UNCHANGED <<A, up>>

\* The server closes the connection, or loses it.
Gone ==
    /\ srv.state # "free"
    /\ srv' = [srv EXCEPT !.state = "free"]
    /\ Forfeits
    /\ UNCHANGED <<A, up, down>>

Next ==
    \/ start_draft_run \/ Play \/ PlayDuel \/ Switch
    \/ do_resume_uplink \/ do_draft_abort \/ Leave \/ Pick \/ Again \/ EndShown
    \/ Receive \/ Lost
    \/ Read \/ Verified \/ Paired \/ Ended \/ Gone

Spec == Init /\ [][Next]_vars

-----------------------------------------------------------------------------
(* Properties.                                                             *)

\* main.c:312 "fresh run: draft as usual, deck saved to IDUNA on DW_S_DRAFT_DONE": who waits
\* in the draft queue or plays in a run waits with the deck drafted in that run.  A
\* RESUME UPLINK that did not get a connection leaves resume_pending set; after
\* ABORT & EXTRACT the next run, bought with a ticket, resumes the deck of the run before.
FreshRunDrafts ==
    srv.mode = "draft" /\ srv.state \in {"queued", "match"} => srv.deck = idu.runs
=============================================================================
