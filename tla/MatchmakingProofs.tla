-------------------------- MODULE MatchmakingProofs --------------------------
(***************************************************************************)
(* Theorems about Matchmaking, for any number of connections, match slots, *)
(* tokens and ratings.                                                     *)
(***************************************************************************)
EXTENDS Matchmaking, FiniteSetTheorems, WellFoundedInduction, TLAPS

-----------------------------------------------------------------------------
(***************************************************************************)
(* Types.                                                                  *)
(***************************************************************************)

\* Sending changes only who has been told what and who is condemned.
LEMMA SendTypes ==
    ASSUME TypeOK, NEW to \in SUBSET Conns, NEW msg \in Told,
           Send(to, msg) \/ SendError(to)
    PROVE  told' \in [Conns -> Told] /\ closing' \in SUBSET Conns
BY DEF TypeOK, Send, SendError, Undelivered, Told

\* The connections of a live match are connections.
LEMMA PartyTypes ==
    ASSUME TypeOK, NEW E \in SUBSET Live
    PROVE  Parties(E) \in SUBSET Conns /\ \A m \in Live : Party(m) \in SUBSET Conns
<1>1. \A m \in Live : Party(m) \in SUBSET Conns
  BY DEF TypeOK, Live, Party, Matches
<1>2. QED
  BY <1>1 DEF Parties

\* Ending matches keeps the types of what it writes.
LEMMA EndTypes ==
    ASSUME TypeOK, NEW E \in SUBSET Live
    PROVE  /\ StateAfter(E) \in [Conns -> States]
           /\ AtAfter(E) \in [Conns -> (Slots \X Seats) \cup {None}]
           /\ MtAfter(E) \in [Slots -> Matches \cup {None}]
BY DEF TypeOK, StateAfter, AtAfter, MtAfter, States

LEMMA ForfeitTypes ==
    ASSUME TypeOK, NEW c \in Conns
    PROVE  Forfeits(c) \in SUBSET Live
BY DEF Forfeits, Live

LEMMA EndMatchTypes ==
    ASSUME TypeOK, NEW m \in Live, EndMatch(m)
    PROVE  /\ state' \in [Conns -> States]
           /\ at' \in [Conns -> (Slots \X Seats) \cup {None}]
           /\ mt' \in [Slots -> Matches \cup {None}]
           /\ due' \in SUBSET Slots
           /\ told' \in [Conns -> Told]
           /\ closing' \in SUBSET Conns
<1>1. {m} \in SUBSET Live
  OBVIOUS
<1>2. Send(Party(m), "MATCH_END") /\ Party(m) \in SUBSET Conns
  BY PartyTypes DEF EndMatch
<1>3. "MATCH_END" \in Told
  BY DEF Told
<1>4. told' \in [Conns -> Told] /\ closing' \in SUBSET Conns
  BY <1>2, <1>3, SendTypes
<1>5. QED
  BY <1>1, <1>4, EndTypes DEF EndMatch, TypeOK
LEMMA NextRoundTypes ==
    ASSUME TypeOK, NEW m \in Live, NextRound(m)
    PROVE  /\ mt' \in [Slots -> Matches \cup {None}]
           /\ due' \in SUBSET Slots
           /\ told' \in [Conns -> Told]
           /\ closing' \in SUBSET Conns
           /\ UNCHANGED <<state, at>>
<1>1. Send(Party(m), "ROUND_START") /\ Party(m) \in SUBSET Conns
  BY PartyTypes DEF NextRound
<1>2. told' \in [Conns -> Told] /\ closing' \in SUBSET Conns
  BY <1>1, SendTypes DEF Told
<1>3. mt[m] \in Matches /\ mt[m].round + 1 \in 1..MaxRounds
  BY RoundsOK DEF TypeOK, Live, Matches, NextRound
<1>4. [mt[m] EXCEPT !.locked = {}, !.round = @ + 1] \in Matches
  BY <1>3 DEF Matches
<1>5. mt' \in [Slots -> Matches \cup {None}]
  BY <1>4 DEF NextRound, TypeOK, Live
<1>6. QED
  BY <1>2, <1>5 DEF NextRound, TypeOK

LEMMA ResolveTypes ==
    ASSUME TypeOK, NEW m \in Live, ResolveRound(m)
    PROVE  /\ state' \in [Conns -> States]
           /\ at' \in [Conns -> (Slots \X Seats) \cup {None}]
           /\ mt' \in [Slots -> Matches \cup {None}]
           /\ due' \in SUBSET Slots
           /\ told' \in [Conns -> Told]
           /\ closing' \in SUBSET Conns
BY EndMatchTypes, NextRoundTypes DEF ResolveRound, TypeOK

LEMMA ConnCloseTypes ==
    ASSUME TypeOK, NEW c \in Conns, ConnClose(c)
    PROVE  /\ state' \in [Conns -> States]
           /\ at' \in [Conns -> (Slots \X Seats) \cup {None}]
           /\ mt' \in [Slots -> Matches \cup {None}]
           /\ due' \in SUBSET Slots
           /\ told' \in [Conns -> Told]
           /\ closing' \in SUBSET Conns
           /\ before' \in [Conns -> SUBSET Conns]
           /\ rested' \in SUBSET Conns
           /\ late' \in SUBSET Conns
           /\ kind' \in [Conns -> {"human", "bot"}]
           /\ mode' \in [Conns -> {"card", "draft", "constructed"}]
           /\ token' \in [Conns -> Tokens \cup {NoToken}]
           /\ rating' \in [Conns -> Ratings \cup {DefaultRating}]
           /\ placing' \in SUBSET Conns
           /\ decked' \in SUBSET Conns
<1> DEFINE E == Forfeits(c)
<1>1. E \in SUBSET Live
  BY ForfeitTypes
<1>2. /\ StateAfter(E) \in [Conns -> States]
      /\ AtAfter(E) \in [Conns -> (Slots \X Seats) \cup {None}]
      /\ MtAfter(E) \in [Slots -> Matches \cup {None}]
      /\ Parties(E) \in SUBSET Conns
  BY <1>1, EndTypes, PartyTypes
<1>3. /\ state' \in [Conns -> States]
      /\ at' \in [Conns -> (Slots \X Seats) \cup {None}]
      /\ mt' \in [Slots -> Matches \cup {None}]
      /\ due' \in SUBSET Slots
  BY <1>2 DEF ConnClose, States, TypeOK
<1>4. told' \in [Conns -> Told] /\ closing' \in SUBSET Conns
  BY <1>2 DEF ConnClose, TypeOK, Told, Undelivered
<1>5. QED
  BY <1>3, <1>4 DEF ConnClose, TypeOK, Dequeue

LEMMA StartMatchTypes ==
    ASSUME TypeOK, NEW a \in Conns, NEW b \in Conns, NEW m \in Slots, StartMatch(a, b, m)
    PROVE  /\ state' \in [Conns -> States]
           /\ at' \in [Conns -> (Slots \X Seats) \cup {None}]
           /\ mt' \in [Slots -> Matches \cup {None}]
           /\ before' \in [Conns -> SUBSET Conns]
           /\ rested' \in SUBSET Conns
           /\ told' \in [Conns -> Told]
           /\ closing' \in SUBSET Conns
<1>1. told' \in [Conns -> Told] /\ closing' \in SUBSET Conns
  BY SendTypes DEF StartMatch, Told
<1>2. [conn |-> [s \in Seats |-> IF s = 0 THEN a ELSE b], locked |-> {}, round |-> 1] \in Matches
  BY RoundsOK DEF Matches
<1>3. mt' \in [Slots -> Matches \cup {None}]
  BY <1>2 DEF StartMatch, TypeOK
<1>4. <<m, 0>> \in Slots \X Seats /\ <<m, 1>> \in Slots \X Seats
  BY DEF Seats
<1>5. at' \in [Conns -> (Slots \X Seats) \cup {None}]
  BY <1>4 DEF StartMatch, TypeOK
<1>6. QED
  BY <1>1, <1>3, <1>5 DEF StartMatch, TypeOK, States, Dequeue

\* What the queue rules choose are two different connections that wait in that queue,
\* for duelists with one token, otherwise without any.
LEMMA PairsQueued ==
    ASSUME TypeOK, NEW q, NEW p \in Pairs(q)
    PROVE  /\ p = <<p[1], p[2]>>
           /\ p[1] \in InQueue(q) /\ p[2] \in InQueue(q)
           /\ p[1] # p[2]
           /\ token[p[1]] = token[p[2]]
<1>1. CASE Duels(q) # {}
  BY <1>1 DEF Pairs, Duels
<1>2. CASE Duels(q) = {}
  <2>1. \A S, a : Partner(q, S, a) \subseteq S
    BY DEF Partner, Nearest, Oldest
  <2>2. \A k : Waiting(q, k) \subseteq InQueue(q) /\ \A c \in Waiting(q, k) : token[c] = NoToken /\ kind[c] = k
    BY DEF Waiting
  <2>3. CASE p \in HumanPairs(q)
    BY <2>1, <2>2, <2>3 DEF HumanPairs, Oldest
  <2>4. CASE p \in HumanBotPairs(q)
    BY <2>1, <2>2, <2>4 DEF HumanBotPairs
  <2>5. CASE p \in BotPairs(q)
    BY <2>1, <2>2, <2>5 DEF BotPairs, Oldest
  <2>6. QED
    BY <1>2, <2>3, <2>4, <2>5 DEF Pairs
<1>3. QED
  BY <1>1, <1>2
LEMMA InitTypes == Init => TypeOK
BY DEF Init, TypeOK, States, Told, Places

LEMMA TypeStep == TypeOK /\ [Next]_vars => TypeOK'
<1> SUFFICES ASSUME TypeOK, [Next]_vars PROVE TypeOK'
  OBVIOUS
<1> USE DEF who, lines, play, wire
<1>1. CASE Environment
  <2>1. ASSUME NEW c \in Conns, HelloTimePasses(c) \/ BotTimePasses(c) \/ Accept(c) PROVE TypeOK'
    BY <2>1 DEF HelloTimePasses, BotTimePasses, Accept, TypeOK, States
  <2>2. ASSUME NEW c \in Conns, Message(c) PROVE TypeOK'
    <3>1. ASSUME NEW k \in Kinds, NEW q \in Modes, NEW r \in Ratings, Hello(c, k, q, r) PROVE TypeOK'
      <4>1. told' \in [Conns -> Told] /\ closing' \in SUBSET Conns
        BY <3>1, SendTypes DEF Hello, Told
      <4>2. QED
        BY <3>1, <4>1, ClientsOK DEF Hello, Reads, TypeOK, States
    <3>2. ASSUME NEW tok \in Tokens \cup {NoToken}, NEW sameDeck \in BOOLEAN, Queue(c, tok, sameDeck)
          PROVE TypeOK'
      <4>1. told' \in [Conns -> Told] /\ closing' \in SUBSET Conns
        BY <3>2, SendTypes DEF Queue, EnterQueue, StartDraft, Told
      <4>2. token' \in [Conns -> Tokens \cup {NoToken}] /\ decked' = decked
        BY <3>2 DEF Queue, TypeOK
      <4>3. CASE SendError({c}) /\ UNCHANGED <<pc, sweep, state, kind, mode, rating, placing, lines, play, late>>
        BY <4>1, <4>2, <4>3 DEF TypeOK
      <4>4. CASE StartDraft(c)
        BY <4>1, <4>2, <4>4 DEF StartDraft, TypeOK, States
      <4>5. CASE EnterQueue(c)
        BY <4>1, <4>2, <4>5 DEF EnterQueue, InQueue, TypeOK, States, Places, Pairing
      <4>6. QED
        BY <3>2, <4>3, <4>4, <4>5 DEF Queue
    <3>3. CASE DraftPick(c)
      <4>1. told' \in [Conns -> Told] /\ closing' \in SUBSET Conns
        BY <3>3, SendTypes DEF DraftPick, EnterQueue, Told
      <4>2. QED
        BY <3>3, <4>1 DEF DraftPick, EnterQueue, InQueue, TypeOK, States, Places, Pairing
    <3>4. CASE DraftResume(c)
      <4>1. told' \in [Conns -> Told] /\ closing' \in SUBSET Conns
        BY <3>4, SendTypes DEF DraftResume, Told
      <4>2. QED
        BY <3>4, <4>1 DEF DraftResume, TypeOK
    <3>5. CASE Play(c)
      <4> DEFINE m == at[c][1]
                 s == at[c][2]
      <4>1. m \in Live /\ s \in Seats
        BY <3>5 DEF Play, TypeOK
      <4>2. CASE ResolveRound(m)
        BY <3>5, <4>1, <4>2, ResolveTypes DEF Play, TypeOK
      <4>3. CASE mt' = [mt EXCEPT ![m].locked = @ \cup {s}] /\ UNCHANGED <<state, at, due, wire>>
        <5>1. [mt[m] EXCEPT !.locked = @ \cup {s}] \in Matches
          BY <4>1 DEF TypeOK, Live, Matches
        <5>2. QED
          BY <3>5, <4>1, <4>3, <5>1 DEF Play, TypeOK, Live
      <4>4. QED
        BY <3>5, <4>2, <4>3 DEF Play
    <3>6. CASE Leave(c)
      <4> DEFINE E == Forfeits(c)
      <4>1. E \in SUBSET Live /\ Parties(E) \in SUBSET Conns
        BY ForfeitTypes, PartyTypes
      <4>2. told' \in [Conns -> Told] /\ closing' \in SUBSET Conns
        BY <3>6, <4>1, SendTypes DEF Leave, Told
      <4>3. QED
        BY <3>6, <4>1, <4>2, EndTypes DEF Leave, Dequeue, TypeOK, States
    <3>7. CASE Refuse(c)
      <4>1. told' \in [Conns -> Told] /\ closing' \in SUBSET Conns
        BY <3>7, SendTypes DEF Refuse, Told
      <4>2. QED
        BY <3>7, <4>1 DEF Refuse, TypeOK
    <3>8. QED
      BY <2>2, <3>1, <3>2, <3>3, <3>4, <3>5, <3>6, <3>7 DEF Message
  <2>3. ASSUME NEW c \in Conns, WireFails(c) PROVE TypeOK'
    BY <2>3 DEF WireFails, TypeOK
  <2>4. ASSUME NEW c \in Conns, HangUp(c) PROVE TypeOK'
    BY <2>4, ConnCloseTypes DEF HangUp, TypeOK
  <2>5. ASSUME NEW c \in Conns, NEW r \in Ratings, RatingUpdate(c, r) PROVE TypeOK'
    BY <2>5 DEF RatingUpdate, TypeOK
  <2>6. ASSUME NEW m \in Slots, RoundTimePasses(m) PROVE TypeOK'
    BY <2>6 DEF RoundTimePasses, TypeOK
  <2>7. CASE Stop
    BY <2>7 DEF Stop, TypeOK, Places
  <2>8. QED
    BY <1>1, <2>1, <2>2, <2>3, <2>4, <2>5, <2>6, <2>7 DEF Environment
<1>2. CASE Loop
  <2>1. CASE Poll \/ EndEvents \/ StartTick \/ EndStage \/ Exit
    BY <2>1 DEF Poll, EndEvents, StartTick, EndStage, Exit, AfterStage, Pairing, TypeOK, Places
  <2>2. CASE ExpireHellos
    <3>1. told' \in [Conns -> Told] /\ closing' \in SUBSET Conns
      BY <2>2, SendTypes DEF ExpireHellos, Told, TypeOK
    <3>2. QED
      BY <2>2, <3>1 DEF ExpireHellos, TypeOK, Places
  <2>3. CASE Pair
    <3>1. PICK p \in Pairs(QueueOf(pc)), m \in Slots \ Live : StartMatch(p[1], p[2], m)
      BY <2>3 DEF Pair
    <3>2. p[1] \in Conns /\ p[2] \in Conns
      BY PairsQueued DEF InQueue
    <3>3. QED
      BY <2>3, <3>1, <3>2, StartMatchTypes DEF Pair, TypeOK
  <2>4. ASSUME NEW c \in Conns, CloseCondemned(c) \/ ShutdownClose(c) PROVE TypeOK'
    BY <2>4, ConnCloseTypes DEF CloseCondemned, ShutdownClose, TypeOK
  <2>5. ASSUME NEW m \in Slots, ExpireRound(m) \/ ShutdownMatch(m) PROVE TypeOK'
    <3>1. CASE m \in Live /\ ResolveRound(m)
      BY <2>5, <3>1, ResolveTypes DEF ExpireRound, ShutdownMatch, TypeOK
    <3>2. CASE m \in Live /\ EndMatch(m)
      BY <2>5, <3>2, EndMatchTypes DEF ExpireRound, ShutdownMatch, TypeOK
    <3>3. QED
      BY <2>5, <3>1, <3>2 DEF ExpireRound, ShutdownMatch
  <2>6. QED
    BY <1>2, <2>1, <2>2, <2>3, <2>4, <2>5 DEF Loop
<1>3. CASE Stopped \/ UNCHANGED vars
  BY <1>3 DEF Stopped, vars, TypeOK
<1>4. QED
  BY <1>1, <1>2, <1>3 DEF Next

\* Every variable of the loop keeps its type.
THEOREM TypeCorrect == Spec => []TypeOK
<1>1. QED
  BY InitTypes, TypeStep, PTL DEF Spec

-----------------------------------------------------------------------------
(***************************************************************************)
(* A match and its two connections agree.  MatchesAgree is inductive       *)
(* relative to TypeOK.  A step does one of three things to it: it leaves   *)
(* every seat alone, it ends some matches, or it starts one.               *)
(***************************************************************************)

\* Steps that move nobody into or out of a match; locks and rounds may change.
SeatsKept ==
    /\ at' = at
    /\ \A c \in Conns : state'[c] = "IN_MATCH" <=> state[c] = "IN_MATCH"
    /\ \A m \in Slots : mt'[m] = None <=> mt[m] = None
    /\ \A m \in Live : mt'[m].conn = mt[m].conn

\* Steps that end exactly the matches of E.
MatchesEnded(E) ==
    /\ mt' = MtAfter(E)
    /\ \A c \in Conns :
          /\ state'[c] = "IN_MATCH" <=> state[c] = "IN_MATCH" /\ c \notin Parties(E)
          /\ at'[c] = IF c \in Parties(E) THEN None ELSE at[c]

LEMMA AgreeSeatsKept ==
    ASSUME TypeOK, MatchesAgree, SeatsKept
    PROVE  MatchesAgree'
<1>1. Live' = Live
  BY DEF SeatsKept, Live
<1>2. \A m \in Live, s \in Seats : mt[m].conn[s] \in Conns
  BY DEF TypeOK, Live, Matches
<1>3. QED
  BY <1>1, <1>2 DEF MatchesAgree, SeatsKept, TypeOK

\* Who belongs to two live matches would be in both: the parties are disjoint.
LEMMA PartiesDisjoint ==
    ASSUME TypeOK, MatchesAgree, NEW E \in SUBSET Live, NEW m \in Live, NEW s \in Seats
    PROVE  mt[m].conn[s] \in Parties(E) <=> m \in E
<1>1. ASSUME NEW e \in E, NEW t \in Seats, mt[m].conn[s] = mt[e].conn[t] PROVE m = e
  BY <1>1 DEF MatchesAgree
<1>2. QED
  BY <1>1 DEF Parties, Party

\* Somebody IN_MATCH belongs to E exactly when its match is in E.
LEMMA PartiesOf ==
    ASSUME TypeOK, MatchesAgree, NEW E \in SUBSET Live, NEW c \in Conns
    PROVE  c \in Parties(E) <=> state[c] = "IN_MATCH" /\ at[c][1] \in E
<1>1. CASE state[c] = "IN_MATCH"
  <2>1. at[c][1] \in Live /\ at[c][2] \in Seats /\ mt[at[c][1]].conn[at[c][2]] = c
    BY <1>1 DEF MatchesAgree, TypeOK
  <2>2. QED
    BY <1>1, <2>1, PartiesDisjoint
<1>2. CASE state[c] # "IN_MATCH"
  BY <1>2 DEF MatchesAgree, Parties, Party
<1>3. QED
  BY <1>1, <1>2

LEMMA AgreeMatchesEnded ==
    ASSUME TypeOK, MatchesAgree, NEW E \in SUBSET Live, MatchesEnded(E)
    PROVE  MatchesAgree'
<1>1. Live' = Live \ E /\ \A m \in Live \ E : mt'[m] = mt[m]
  BY DEF MatchesEnded, MtAfter, Live
<1>2. ASSUME NEW m \in Live \ E, NEW s \in Seats
      PROVE  mt[m].conn[s] \in Conns \ Parties(E)
  BY <1>2, PartiesDisjoint DEF TypeOK, Live, Matches
<1>3. ASSUME NEW m \in Live'
      PROVE  /\ mt'[m].conn[0] # mt'[m].conn[1]
             /\ \A s \in Seats : /\ state'[mt'[m].conn[s]] = "IN_MATCH"
                                 /\ at'[mt'[m].conn[s]] = <<m, s>>
  <2>1. m \in Live \ E /\ mt'[m] = mt[m]
    BY <1>1, <1>3
  <2>2. \A s \in Seats : state[mt[m].conn[s]] = "IN_MATCH" /\ at[mt[m].conn[s]] = <<m, s>>
    BY <2>1 DEF MatchesAgree
  <2>3. \A s \in Seats : mt[m].conn[s] \in Conns \ Parties(E)
    BY <1>2, <2>1
  <2>4. mt[m].conn[0] # mt[m].conn[1]
    BY <2>1 DEF MatchesAgree
  <2>5. QED
    BY <2>1, <2>2, <2>3, <2>4 DEF MatchesEnded
<1>4. ASSUME NEW c \in Conns
      PROVE  IF state'[c] = "IN_MATCH"
             THEN /\ at'[c] # None
                  /\ at'[c][1] \in Live'
                  /\ mt'[at'[c][1]].conn[at'[c][2]] = c
             ELSE at'[c] = None
  <2>1. c \in Parties(E) <=> state[c] = "IN_MATCH" /\ at[c][1] \in E
    BY PartiesOf
  <2>2. CASE c \in Parties(E)
    BY <2>2 DEF MatchesEnded
  <2>3. CASE c \notin Parties(E) /\ state[c] = "IN_MATCH"
    <3>1. at[c] # None /\ at[c][1] \in Live \ E /\ mt[at[c][1]].conn[at[c][2]] = c
      BY <2>1, <2>3 DEF MatchesAgree
    <3>2. at'[c] = at[c] /\ state'[c] = "IN_MATCH"
      BY <2>3 DEF MatchesEnded
    <3>3. QED
      BY <1>1, <3>1, <3>2
  <2>4. CASE c \notin Parties(E) /\ state[c] # "IN_MATCH"
    BY <2>4 DEF MatchesAgree, MatchesEnded
  <2>5. QED
    BY <2>2, <2>3, <2>4
<1>5. QED
  BY <1>3, <1>4 DEF MatchesAgree

LEMMA AgreeStartMatch ==
    ASSUME TypeOK, MatchesAgree, NEW a \in Conns, NEW b \in Conns, NEW m \in Slots \ Live,
           a # b, state[a] = "QUEUED", state[b] = "QUEUED", StartMatch(a, b, m)
    PROVE  MatchesAgree'
<1>1. /\ mt'[m].conn[0] = a /\ mt'[m].conn[1] = b
      /\ mt'[m] # None
      /\ \A n \in Slots \ {m} : mt'[n] = mt[n]
  <2> DEFINE new == [conn |-> [s \in Seats |-> IF s = 0 THEN a ELSE b], locked |-> {}, round |-> 1]
  <2>1. new \in Matches
    BY RoundsOK DEF Matches
  <2>2. mt' = [mt EXCEPT ![m] = new]
    BY DEF StartMatch
  <2>3. new.conn[0] = a /\ new.conn[1] = b
    BY DEF Seats
  <2>4. new # None
    BY <2>1, NoneOK
  <2> HIDE DEF new
  <2>5. QED
    BY <2>2, <2>3, <2>4 DEF TypeOK
<1>2. Live' = Live \cup {m}
  BY <1>1 DEF Live
<1>3. /\ at'[a] = <<m, 0>> /\ at'[b] = <<m, 1>>
      /\ state'[a] = "IN_MATCH" /\ state'[b] = "IN_MATCH"
      /\ \A c \in Conns \ {a, b} : at'[c] = at[c] /\ state'[c] = state[c]
  BY DEF StartMatch, TypeOK
<1>4. <<m, 0>> # None /\ <<m, 1>> # None
  <2>1. <<m, 0>> \in Slots \X Seats /\ <<m, 1>> \in Slots \X Seats
    BY DEF Seats
  <2>2. QED
    BY <2>1, NoneOK
<1>5. \A n \in Live, s \in Seats : mt[n].conn[s] \in Conns \ {a, b}
  BY DEF MatchesAgree, TypeOK, Live, Matches
<1>6. ASSUME NEW n \in Live'
      PROVE  /\ mt'[n].conn[0] # mt'[n].conn[1]
             /\ \A s \in Seats : /\ state'[mt'[n].conn[s]] = "IN_MATCH"
                                 /\ at'[mt'[n].conn[s]] = <<n, s>>
  <2>1. CASE n = m
    BY <2>1, <1>1, <1>3 DEF Seats
  <2>2. CASE n \in Live
    <3>1. mt'[n] = mt[n]
      BY <2>2, <1>1 DEF Live
    <3>2. \A s \in Seats : state[mt[n].conn[s]] = "IN_MATCH" /\ at[mt[n].conn[s]] = <<n, s>>
      BY <2>2 DEF MatchesAgree
    <3>3. \A s \in Seats : mt[n].conn[s] \in Conns \ {a, b}
      BY <2>2, <1>5
    <3>4. mt[n].conn[0] # mt[n].conn[1]
      BY <2>2 DEF MatchesAgree
    <3>5. QED
      BY <1>3, <3>1, <3>2, <3>3, <3>4
  <2>3. QED
    BY <1>2, <1>6, <2>1, <2>2
<1>7. ASSUME NEW c \in Conns
      PROVE  IF state'[c] = "IN_MATCH"
             THEN /\ at'[c] # None
                  /\ at'[c][1] \in Live'
                  /\ mt'[at'[c][1]].conn[at'[c][2]] = c
             ELSE at'[c] = None
  <2>1. CASE c \in {a, b}
    BY <2>1, <1>1, <1>2, <1>3, <1>4, SMTT(40)
  <2>2. CASE c \notin {a, b}
    BY <2>2, <1>1, <1>2, <1>3 DEF MatchesAgree, Live
  <2>3. QED
    BY <2>1, <2>2
<1>8. QED
  BY <1>6, <1>7 DEF MatchesAgree

\* The match somebody forfeits is live, and it is its own.
LEMMA ForfeitsOwn ==
    ASSUME TypeOK, MatchesAgree, NEW c \in Conns
    PROVE  /\ Forfeits(c) \in SUBSET Live
           /\ state[c] = "IN_MATCH" <=> c \in Parties(Forfeits(c))
           /\ \A d \in Parties(Forfeits(c)) : state[d] = "IN_MATCH"
<1>1. Forfeits(c) \in SUBSET Live
  BY ForfeitTypes
<1>2. state[c] = "IN_MATCH" => Forfeits(c) = {at[c][1]}
  BY DEF Forfeits, MatchesAgree
<1>3. QED
  BY <1>1, <1>2, PartiesOf, PartyTypes

\* What end_match does to a set of matches ends exactly those.
LEMMA EndsMatches ==
    ASSUME TypeOK, MatchesAgree, NEW E \in SUBSET Live,
           state' = StateAfter(E), at' = AtAfter(E), mt' = MtAfter(E)
    PROVE  MatchesEnded(E)
<1>1. \A c \in Conns : c \in Parties(E) => state[c] = "IN_MATCH"
  BY PartiesOf
<1>2. QED
  BY <1>1 DEF MatchesEnded, StateAfter, AtAfter

LEMMA AgreeResolve ==
    ASSUME TypeOK, MatchesAgree, NEW m \in Live, ResolveRound(m)
    PROVE  MatchesAgree'
<1>1. CASE EndMatch(m)
  <2>1. MatchesEnded({m})
    BY <1>1, EndsMatches DEF EndMatch
  <2>2. QED
    BY <2>1, AgreeMatchesEnded
<1>2. CASE NextRound(m)
  <2>1. mt[m] \in Matches /\ mt'[m] = [mt[m] EXCEPT !.locked = {}, !.round = @ + 1]
    BY <1>2 DEF NextRound, TypeOK, Live
  <2>2. mt'[m] # None /\ mt'[m].conn = mt[m].conn
    <3>1. mt[m].round + 1 \in 1..MaxRounds
      BY <1>2, <2>1, RoundsOK DEF NextRound, Matches
    <3>2. mt'[m] \in Matches
      BY <2>1, <3>1 DEF Matches
    <3>3. QED
      BY <2>1, <3>2, NoneOK DEF Matches
  <2>3. SeatsKept
    BY <1>2, <2>2 DEF SeatsKept, NextRound, TypeOK, Live
  <2>4. QED
    BY <2>3, AgreeSeatsKept
<1>3. QED
  BY <1>1, <1>2 DEF ResolveRound

LEMMA AgreeConnClose ==
    ASSUME TypeOK, MatchesAgree, NEW c \in Conns, ConnClose(c)
    PROVE  MatchesAgree'
<1> DEFINE E == Forfeits(c)
<1>1. E \in SUBSET Live /\ (state[c] = "IN_MATCH" <=> c \in Parties(E))
  BY ForfeitsOwn
<1>2. \A d \in Parties(E) : state[d] = "IN_MATCH"
  BY ForfeitsOwn
<1>3. mt' = MtAfter(E)
  BY DEF ConnClose
<1>4. ASSUME NEW d \in Conns
      PROVE  /\ state'[d] = "IN_MATCH" <=> state[d] = "IN_MATCH" /\ d \notin Parties(E)
             /\ at'[d] = IF d \in Parties(E) THEN None ELSE at[d]
  <2>1. CASE d = c
    BY <2>1, <1>1 DEF ConnClose, StateAfter, AtAfter, MatchesAgree
  <2>2. CASE d # c
    BY <2>2, <1>2 DEF ConnClose, StateAfter, AtAfter
  <2>3. QED
    BY <2>1, <2>2
<1>5. MatchesEnded(E)
  BY <1>3, <1>4 DEF MatchesEnded
<1>6. QED
  BY <1>1, <1>5, AgreeMatchesEnded

LEMMA AgreeStep == TypeOK /\ MatchesAgree /\ [Next]_vars => MatchesAgree'
<1> SUFFICES ASSUME TypeOK, MatchesAgree, [Next]_vars PROVE MatchesAgree'
  OBVIOUS
<1> USE DEF who, lines, play, wire
<1>1. CASE Environment
  <2>1. ASSUME NEW c \in Conns, HelloTimePasses(c) \/ BotTimePasses(c) \/ Accept(c) PROVE MatchesAgree'
    <3>1. SeatsKept
      BY <2>1 DEF HelloTimePasses, BotTimePasses, Accept, SeatsKept, TypeOK
    <3>2. QED
      BY <3>1, AgreeSeatsKept
  <2>2. ASSUME NEW c \in Conns, Message(c) PROVE MatchesAgree'
    <3>1. ASSUME NEW k \in Kinds, NEW q \in Modes, NEW r \in Ratings, Hello(c, k, q, r)
          PROVE  MatchesAgree'
      BY <3>1, AgreeSeatsKept DEF Hello, SeatsKept, TypeOK
    <3>2. ASSUME NEW tok \in Tokens \cup {NoToken}, NEW sameDeck \in BOOLEAN, Queue(c, tok, sameDeck)
          PROVE MatchesAgree'
      <4>1. SeatsKept
        BY <3>2 DEF Queue, EnterQueue, StartDraft, SeatsKept, TypeOK
      <4>2. QED
        BY <4>1, AgreeSeatsKept
    <3>3. CASE DraftPick(c)
      <4>1. SeatsKept
        BY <3>3 DEF DraftPick, EnterQueue, SeatsKept, TypeOK
      <4>2. QED
        BY <4>1, AgreeSeatsKept
    <3>4. CASE DraftResume(c) \/ Refuse(c)
      BY <3>4, AgreeSeatsKept DEF DraftResume, Refuse, SeatsKept
    <3>5. CASE Play(c)
      <4> DEFINE m == at[c][1]
                 s == at[c][2]
      <4>1. m \in Live /\ s \in Seats
        BY <3>5 DEF Play, TypeOK
      <4>2. CASE ResolveRound(m)
        BY <4>1, <4>2, AgreeResolve
      <4>3. CASE mt' = [mt EXCEPT ![m].locked = @ \cup {s}] /\ UNCHANGED <<state, at, due, wire>>
        <5>1. mt[m] \in Matches /\ mt'[m] = [mt[m] EXCEPT !.locked = @ \cup {s}]
          BY <4>1, <4>3 DEF TypeOK, Live
        <5>2. mt'[m] \in Matches /\ mt'[m].conn = mt[m].conn
          BY <4>1, <5>1 DEF Matches
        <5>3. SeatsKept
          BY <4>1, <4>3, <5>2, NoneOK DEF SeatsKept, TypeOK, Live
        <5>4. QED
          BY <5>3, AgreeSeatsKept
      <4>4. QED
        BY <3>5, <4>2, <4>3 DEF Play
    <3>6. CASE Leave(c)
      <4> DEFINE E == Forfeits(c)
      <4>1. E \in SUBSET Live /\ \A d \in Parties(E) : state[d] = "IN_MATCH"
        BY ForfeitsOwn
      <4>2. mt' = MtAfter(E) /\ at' = AtAfter(E)
        BY <3>6 DEF Leave
      <4>3. \A d \in Conns : state'[d] = "IN_MATCH" <=> state[d] = "IN_MATCH" /\ d \notin Parties(E)
        BY <3>6 DEF Leave, StateAfter
      <4>4. MatchesEnded(E)
        BY <4>1, <4>2, <4>3 DEF MatchesEnded, AtAfter
      <4>5. QED
        BY <4>1, <4>4, AgreeMatchesEnded
    <3>7. QED
      BY <2>2, <3>1, <3>2, <3>3, <3>4, <3>5, <3>6 DEF Message
  <2>3. ASSUME NEW c \in Conns, WireFails(c) PROVE MatchesAgree'
    BY <2>3, AgreeSeatsKept DEF WireFails, SeatsKept
  <2>4. ASSUME NEW c \in Conns, HangUp(c) PROVE MatchesAgree'
    BY <2>4, AgreeConnClose DEF HangUp
  <2>5. ASSUME NEW c \in Conns, NEW r \in Ratings, RatingUpdate(c, r) PROVE MatchesAgree'
    BY <2>5, AgreeSeatsKept DEF RatingUpdate, SeatsKept
  <2>6. ASSUME NEW m \in Slots, RoundTimePasses(m) PROVE MatchesAgree'
    BY <2>6, AgreeSeatsKept DEF RoundTimePasses, SeatsKept
  <2>7. CASE Stop
    BY <2>7, AgreeSeatsKept DEF Stop, SeatsKept
  <2>8. QED
    BY <1>1, <2>1, <2>2, <2>3, <2>4, <2>5, <2>6, <2>7 DEF Environment
<1>2. CASE Loop
  <2>1. CASE Poll \/ EndEvents \/ StartTick \/ EndStage \/ Exit \/ ExpireHellos
    <3>1. SeatsKept
      BY <2>1 DEF Poll, EndEvents, StartTick, EndStage, Exit, ExpireHellos, SeatsKept
    <3>2. QED
      BY <3>1, AgreeSeatsKept
  <2>2. CASE Pair
    <3>1. PICK p \in Pairs(QueueOf(pc)), m \in Slots \ Live : StartMatch(p[1], p[2], m)
      BY <2>2 DEF Pair
    <3>2. /\ p[1] \in Conns /\ p[2] \in Conns /\ p[1] # p[2]
          /\ state[p[1]] = "QUEUED" /\ state[p[2]] = "QUEUED"
      BY PairsQueued DEF InQueue
    <3>3. QED
      BY <3>1, <3>2, AgreeStartMatch
  <2>3. ASSUME NEW c \in Conns, CloseCondemned(c) \/ ShutdownClose(c) PROVE MatchesAgree'
    BY <2>3, AgreeConnClose DEF CloseCondemned, ShutdownClose
  <2>4. ASSUME NEW m \in Slots, ExpireRound(m) PROVE MatchesAgree'
    BY <2>4, AgreeResolve DEF ExpireRound
  <2>5. ASSUME NEW m \in Slots, ShutdownMatch(m) PROVE MatchesAgree'
    BY <2>5, AgreeResolve DEF ShutdownMatch, ResolveRound
  <2>6. QED
    BY <1>2, <2>1, <2>2, <2>3, <2>4, <2>5 DEF Loop
<1>3. CASE Stopped \/ UNCHANGED vars
  BY <1>3, AgreeSeatsKept DEF Stopped, vars, SeatsKept
<1>4. QED
  BY <1>1, <1>2, <1>3 DEF Next

LEMMA InitAgrees == Init => MatchesAgree
BY DEF Init, MatchesAgree, Live

\* However many clients leave, hang up, are condemned or let a deadline pass, a match
\* and its two connections always agree about each other.
THEOREM MatchesAlwaysAgree == Spec => []MatchesAgree
<1>1. QED
  BY InitTypes, TypeStep, InitAgrees, AgreeStep, PTL DEF Spec
=============================================================================
