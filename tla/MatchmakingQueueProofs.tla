------------------------ MODULE MatchmakingQueueProofs ------------------------
(***************************************************************************)
(* Theorems about the pairing rules of Matchmaking: who is paired with     *)
(* whom, with which deck, that there is always a slot for the match, and   *)
(* that the line is served in order and never left unserved.               *)
(***************************************************************************)
EXTENDS MatchmakingProofs

-----------------------------------------------------------------------------
(***************************************************************************)
(* Every live match after a step was live before it with the same two      *)
(* players, or Pair has just started it.                                   *)
(***************************************************************************)
MatchesOnlyEnd == \A m \in Live' : m \in Live /\ mt'[m].conn = mt[m].conn

LEMMA ResolveOnlyEnds ==
    ASSUME TypeOK, NEW m \in Live, ResolveRound(m) PROVE MatchesOnlyEnd
<1>1. CASE EndMatch(m)
  BY <1>1 DEF EndMatch, MtAfter, MatchesOnlyEnd, Live
<1>2. CASE NextRound(m)
  <2>1. mt[m] \in Matches /\ mt' = [mt EXCEPT ![m] = [mt[m] EXCEPT !.locked = {}, !.round = @ + 1]]
    BY <1>2 DEF NextRound, TypeOK, Live
  <2>2. [mt[m] EXCEPT !.locked = {}, !.round = @ + 1].conn = mt[m].conn
    BY <2>1 DEF Matches
  <2>3. QED
    BY <2>1, <2>2 DEF MatchesOnlyEnd, Live, TypeOK
<1>3. QED
  BY <1>1, <1>2 DEF ResolveRound

LEMMA MatchesOnlyEndStep ==
    ASSUME TypeOK, Next, ~Pair PROVE MatchesOnlyEnd
<1> USE DEF who, lines, play, wire
<1>1. CASE mt' = mt
  BY <1>1 DEF MatchesOnlyEnd, Live
<1>2. ASSUME NEW E, mt' = MtAfter(E) PROVE MatchesOnlyEnd
  BY <1>2 DEF MtAfter, MatchesOnlyEnd, Live
<1>3. ASSUME NEW c \in Conns, Message(c) PROVE MatchesOnlyEnd
  <2>1. CASE Play(c)
    <3> DEFINE m == at[c][1]
               s == at[c][2]
    <3>1. m \in Live
      BY <2>1 DEF Play
    <3>2. CASE ResolveRound(m)
      BY <3>1, <3>2, ResolveOnlyEnds
    <3>3. CASE mt' = [mt EXCEPT ![m].locked = @ \cup {s}]
      <4>1. mt[m] \in Matches /\ mt' = [mt EXCEPT ![m] = [mt[m] EXCEPT !.locked = @ \cup {s}]]
        BY <3>1, <3>3 DEF TypeOK, Live
      <4>2. [mt[m] EXCEPT !.locked = @ \cup {s}].conn = mt[m].conn
        BY <4>1 DEF Matches
      <4>3. QED
        BY <3>1, <4>1, <4>2 DEF MatchesOnlyEnd, Live, TypeOK
    <3>4. QED
      BY <2>1, <3>2, <3>3 DEF Play
  <2>2. CASE Leave(c)
    BY <2>2, <1>2 DEF Leave
  <2>3. CASE \E k \in Kinds, q \in Modes, r \in Ratings : Hello(c, k, q, r)
    BY <2>3, <1>1 DEF Hello
  <2>4. CASE \E tok \in Tokens \cup {NoToken}, sameDeck \in BOOLEAN : Queue(c, tok, sameDeck)
    BY <2>4, <1>1 DEF Queue, StartDraft, EnterQueue
  <2>5. CASE DraftPick(c) \/ DraftResume(c) \/ Refuse(c)
    BY <2>5, <1>1 DEF DraftPick, DraftResume, Refuse, EnterQueue
  <2>6. QED
    BY <1>3, <2>1, <2>2, <2>3, <2>4, <2>5 DEF Message
<1>4. CASE Environment
  <2>1. ASSUME NEW c \in Conns, HelloTimePasses(c) \/ BotTimePasses(c) \/ Accept(c) \/ WireFails(c)
        PROVE  MatchesOnlyEnd
    BY <2>1, <1>1 DEF HelloTimePasses, BotTimePasses, Accept, WireFails
  <2>2. ASSUME NEW c \in Conns, HangUp(c) PROVE MatchesOnlyEnd
    BY <2>2, <1>2 DEF HangUp, ConnClose
  <2>3. ASSUME NEW c \in Conns, NEW r \in Ratings, RatingUpdate(c, r) PROVE MatchesOnlyEnd
    BY <2>3, <1>1 DEF RatingUpdate
  <2>4. ASSUME NEW m \in Slots, RoundTimePasses(m) PROVE MatchesOnlyEnd
    BY <2>4, <1>1 DEF RoundTimePasses
  <2>5. CASE Stop
    BY <2>5, <1>1 DEF Stop
  <2>6. QED
    BY <1>3, <1>4, <2>1, <2>2, <2>3, <2>4, <2>5 DEF Environment
<1>5. CASE Loop
  <2>1. CASE Poll \/ EndEvents \/ ExpireHellos \/ StartTick \/ EndStage \/ Exit
    BY <2>1, <1>1 DEF Poll, EndEvents, ExpireHellos, StartTick, EndStage, Exit
  <2>2. ASSUME NEW c \in Conns, CloseCondemned(c) \/ ShutdownClose(c) PROVE MatchesOnlyEnd
    BY <2>2, <1>2 DEF CloseCondemned, ShutdownClose, ConnClose
  <2>3. ASSUME NEW m \in Slots, ExpireRound(m) \/ ShutdownMatch(m) PROVE MatchesOnlyEnd
    BY <2>3, ResolveOnlyEnds DEF ExpireRound, ShutdownMatch, ResolveRound
  <2>4. QED
    BY <1>5, <2>1, <2>2, <2>3 DEF Loop
<1>6. CASE Stopped
  BY <1>6, <1>1 DEF Stopped, vars
<1>7. QED
  BY <1>4, <1>5, <1>6 DEF Next

\* Pair starts one match, between two whom the queue rules choose, and ends none.
LEMMA PairStarts ==
    ASSUME TypeOK, Pair
    PROVE  \E p \in Pairs(QueueOf(pc)), m \in Slots \ Live :
              /\ StartMatch(p[1], p[2], m)
              /\ Live' = Live \cup {m}
              /\ mt'[m].conn[0] = p[1] /\ mt'[m].conn[1] = p[2]
              /\ \A n \in Live : mt'[n] = mt[n]
<1>1. PICK p \in Pairs(QueueOf(pc)), m \in Slots \ Live : StartMatch(p[1], p[2], m)
  BY DEF Pair
<1> DEFINE new == [conn |-> [s \in Seats |-> IF s = 0 THEN p[1] ELSE p[2]], locked |-> {}, round |-> 1]
<1>2. p[1] \in Conns /\ p[2] \in Conns
  BY PairsQueued DEF InQueue
<1>3. new \in Matches /\ new # None
  BY <1>2, RoundsOK, NoneOK DEF Matches
<1>4. mt' = [mt EXCEPT ![m] = new]
  BY <1>1 DEF StartMatch
<1>5. new.conn[0] = p[1] /\ new.conn[1] = p[2]
  BY DEF Seats
<1> HIDE DEF new
<1>6. Live' = Live \cup {m} /\ mt'[m] = new /\ \A n \in Live : mt'[n] = mt[n]
  BY <1>3, <1>4 DEF Live, TypeOK
<1>7. QED
  BY <1>1, <1>5, <1>6

\* Kind, mode and token change only between HELLO and QUEUE and when the slot is freed:
\* never while their connection is in the queue or in a match.
LEMMA SettledWho ==
    ASSUME TypeOK, [Next]_vars, NEW c \in Conns,
           state[c] \in {"QUEUED", "IN_MATCH"}, state'[c] \in {"QUEUED", "IN_MATCH"}
    PROVE  kind'[c] = kind[c] /\ mode'[c] = mode[c] /\ token'[c] = token[c]
<1> USE DEF who, lines, play, wire
<1>1. ASSUME NEW d \in Conns, ConnClose(d)
      PROVE  kind'[c] = kind[c] /\ mode'[c] = mode[c] /\ token'[c] = token[c]
  BY <1>1 DEF ConnClose, StateAfter, TypeOK
<1>2. ASSUME NEW d \in Conns, Message(d)
      PROVE  kind'[c] = kind[c] /\ mode'[c] = mode[c] /\ token'[c] = token[c]
  <2>1. CASE \E k \in Kinds, q \in Modes, r \in Ratings : Hello(d, k, q, r)
    BY <2>1 DEF Hello, TypeOK
  <2>2. CASE \E tok \in Tokens \cup {NoToken}, sameDeck \in BOOLEAN : Queue(d, tok, sameDeck)
    <3>1. kind' = kind /\ mode' = mode /\ state[d] = "READY" /\ \E tok : token' = [token EXCEPT ![d] = tok]
      BY <2>2 DEF Queue, EnterQueue, StartDraft
    <3>2. QED
      BY <3>1 DEF TypeOK
  <2>3. CASE DraftPick(d) \/ DraftResume(d) \/ Play(d) \/ Leave(d) \/ Refuse(d)
    BY <2>3 DEF DraftPick, EnterQueue, DraftResume, Play, Leave, Refuse
  <2>4. QED
    BY <1>2, <2>1, <2>2, <2>3 DEF Message
<1>3. CASE Environment
  BY <1>3, <1>1, <1>2 DEF Environment, HelloTimePasses, BotTimePasses, Accept, WireFails, HangUp,
                          RatingUpdate, RoundTimePasses, Stop
<1>4. CASE Loop
  BY <1>4, <1>1 DEF Loop, Poll, EndEvents, ExpireHellos, StartTick, Pair, EndStage, Exit, CloseCondemned,
                    ShutdownClose, ExpireRound, ShutdownMatch
<1>5. CASE Stopped \/ UNCHANGED vars
  BY <1>5 DEF Stopped, vars
<1>6. QED
  BY <1>3, <1>4, <1>5 DEF Next

-----------------------------------------------------------------------------
(***************************************************************************)
(* Partners.                                                               *)
(***************************************************************************)
LEMMA PartnersStep ==
    TypeOK /\ MatchesAgree /\ PartnersBelong /\ [Next]_vars => PartnersBelong'
<1> SUFFICES ASSUME TypeOK, MatchesAgree, PartnersBelong, [Next]_vars, NEW m \in Live'
             PROVE  /\ mode'[mt'[m].conn[0]] = mode'[mt'[m].conn[1]]
                    /\ token'[mt'[m].conn[0]] = token'[mt'[m].conn[1]]
  BY DEF PartnersBelong
<1>0. TypeOK' /\ MatchesAgree'
  BY TypeStep, AgreeStep
<1>1. CASE m \in Live /\ mt'[m].conn = mt[m].conn
  <2>1. \A s \in Seats : mt[m].conn[s] \in Conns
    BY <1>1 DEF TypeOK, Live, Matches
  <2>2. \A s \in Seats : state[mt[m].conn[s]] = "IN_MATCH" /\ state'[mt'[m].conn[s]] = "IN_MATCH"
    BY <1>0, <1>1 DEF MatchesAgree
  <2>3. \A s \in Seats : /\ mode'[mt[m].conn[s]] = mode[mt[m].conn[s]]
                         /\ token'[mt[m].conn[s]] = token[mt[m].conn[s]]
    BY <1>1, <2>1, <2>2, SettledWho
  <2>4. QED
    BY <1>1, <2>3 DEF PartnersBelong, Seats
<1>2. CASE Pair
  <2>1. PICK p \in Pairs(QueueOf(pc)), n \in Slots \ Live :
              /\ Live' = Live \cup {n}
              /\ mt'[n].conn[0] = p[1] /\ mt'[n].conn[1] = p[2]
              /\ \A l \in Live : mt'[l] = mt[l]
    BY <1>2, PairStarts
  <2>2. mode' = mode /\ token' = token
    BY <1>2 DEF Pair, who
  <2>3. mode[p[1]] = mode[p[2]] /\ token[p[1]] = token[p[2]]
    BY PairsQueued DEF InQueue
  <2>4. CASE m = n
    BY <2>1, <2>2, <2>3, <2>4
  <2>5. CASE m \in Live
    BY <1>1, <2>1, <2>5
  <2>6. QED
    BY <2>1, <2>4, <2>5
<1>3. CASE Next /\ ~Pair
  BY <1>1, <1>3, MatchesOnlyEndStep DEF MatchesOnlyEnd
<1>4. CASE UNCHANGED vars
  BY <1>1, <1>4 DEF vars, Live
<1>5. QED
  BY <1>2, <1>3, <1>4

\* Whoever queues, redrafts, leaves and queues again with another token: two who are in
\* a match have one mode and one token.
THEOREM PartnersAlwaysBelong == Spec => []PartnersBelong
<1>1. Init => PartnersBelong
  BY DEF Init, PartnersBelong, Live
<1>2. QED
  BY <1>1, InitTypes, TypeStep, InitAgrees, AgreeStep, PartnersStep, PTL DEF Spec

-----------------------------------------------------------------------------
(***************************************************************************)
(* Decks.  DeckedMatches alone is not inductive: the deck was completed    *)
(* before its owner queued.                                                *)
(***************************************************************************)
DecksReady == \A c \in Conns : state[c] \in {"QUEUED", "IN_MATCH"} /\ mode[c] # "card" => c \in decked

LEMMA DecksReadyStep ==
    TypeOK /\ DecksReady /\ [Next]_vars => DecksReady'
<1> SUFFICES ASSUME TypeOK, DecksReady, [Next]_vars,
                    NEW c \in Conns, state'[c] \in {"QUEUED", "IN_MATCH"}, mode'[c] # "card"
             PROVE  c \in decked'
  BY DEF DecksReady
<1> USE DEF who, lines, play, wire
\* the steps in which nobody enters a queue or a match and no deck is lost
<1>1. CASE /\ state[c] = "QUEUED" \/ state[c] = "IN_MATCH"
           /\ decked \subseteq decked'
  BY <1>1, SettledWho DEF DecksReady
<1>2. ASSUME NEW d \in Conns, ConnClose(d) PROVE c \in decked'
  <2>1. c # d /\ state[c] \in {"QUEUED", "IN_MATCH"}
    BY <1>2 DEF ConnClose, StateAfter, TypeOK
  <2>2. QED
    BY <1>2, <2>1, SettledWho DEF ConnClose, DecksReady
<1>3. ASSUME NEW m \in Slots, ResolveRound(m), decked' = decked PROVE c \in decked'
  BY <1>1, <1>3 DEF ResolveRound, EndMatch, NextRound, StateAfter
<1>4. ASSUME NEW d \in Conns, Message(d) PROVE c \in decked'
  <2>1. CASE \E k \in Kinds, q \in Modes, r \in Ratings : Hello(d, k, q, r)
    BY <1>1, <2>1 DEF Hello, TypeOK
  <2>2. ASSUME NEW tok \in Tokens \cup {NoToken}, NEW sameDeck \in BOOLEAN, Queue(d, tok, sameDeck)
        PROVE  c \in decked'
    <3>1. mode' = mode /\ decked' = decked
      BY <2>2 DEF Queue, EnterQueue, StartDraft
    <3>2. CASE state[c] \in {"QUEUED", "IN_MATCH"}
      BY <1>1, <3>1, <3>2
    <3>3. CASE c = d /\ QueuesAtOnce(d, sameDeck)
      BY <3>1, <3>3 DEF QueuesAtOnce
    <3>4. QED
      BY <2>2, <3>2, <3>3 DEF Queue, EnterQueue, StartDraft, TypeOK
  <2>3. CASE DraftPick(d)
    BY <1>1, <2>3 DEF DraftPick, EnterQueue, TypeOK
  <2>4. CASE DraftResume(d) \/ Refuse(d)
    BY <1>1, <2>4 DEF DraftResume, Refuse
  <2>5. CASE Play(d)
    <3>1. CASE state' = state /\ decked' = decked
      BY <1>1, <3>1
    <3>2. CASE ResolveRound(at[d][1])
      BY <1>3, <2>5, <3>2 DEF Play, Live
    <3>3. QED
      BY <2>5, <3>1, <3>2 DEF Play
  <2>6. CASE Leave(d)
    BY <1>1, <2>6 DEF Leave, StateAfter, TypeOK
  <2>7. QED
    BY <1>4, <2>1, <2>2, <2>3, <2>4, <2>5, <2>6 DEF Message
<1>5. CASE Environment
  <2>1. ASSUME NEW d \in Conns, HelloTimePasses(d) \/ BotTimePasses(d) \/ Accept(d) \/ WireFails(d)
        PROVE  c \in decked'
    BY <1>1, <2>1 DEF HelloTimePasses, BotTimePasses, Accept, WireFails, TypeOK
  <2>2. QED
    BY <1>1, <1>2, <1>4, <1>5, <2>1 DEF Environment, HangUp, RatingUpdate, RoundTimePasses, Stop
<1>6. CASE Loop
  <2>1. CASE Pair
    <3>1. PICK p \in Pairs(QueueOf(pc)), m \in Slots \ Live : StartMatch(p[1], p[2], m)
      BY <2>1, PairStarts
    <3>2. p[1] \in InQueue(QueueOf(pc)) /\ p[2] \in InQueue(QueueOf(pc))
      BY PairsQueued
    <3>3. state[c] \in {"QUEUED", "IN_MATCH"}
      BY <3>1, <3>2 DEF StartMatch, InQueue, TypeOK
    <3>4. QED
      BY <1>1, <2>1, <3>3 DEF Pair
  <2>2. ASSUME NEW m \in Slots, ExpireRound(m) \/ ShutdownMatch(m) PROVE c \in decked'
    BY <1>3, <2>2 DEF ExpireRound, ShutdownMatch, ResolveRound
  <2>3. CASE Poll \/ EndEvents \/ ExpireHellos \/ StartTick \/ EndStage \/ Exit
    BY <1>1, <2>3 DEF Poll, EndEvents, ExpireHellos, StartTick, EndStage, Exit
  <2>4. QED
    BY <1>2, <1>6, <2>1, <2>2, <2>3 DEF Loop, CloseCondemned, ShutdownClose
<1>7. CASE Stopped \/ UNCHANGED vars
  BY <1>1, <1>7 DEF Stopped, vars
<1>8. QED
  BY <1>5, <1>6, <1>7 DEF Next

LEMMA DecksReadySuffices == TypeOK /\ MatchesAgree /\ DecksReady => DeckedMatches
BY DEF TypeOK, MatchesAgree, DecksReady, DeckedMatches, Live, Matches

\* No draft or constructed match is ever started with a deck that is not complete.
THEOREM MatchesAlwaysDecked == Spec => []DeckedMatches
<1>1. Init => DecksReady
  BY DEF Init, DecksReady
<1>2. QED
  BY <1>1, InitTypes, TypeStep, InitAgrees, AgreeStep, DecksReadyStep, DecksReadySuffices, PTL DEF Spec

-----------------------------------------------------------------------------
(***************************************************************************)
(* Slots.  Every live match holds two connections of its own, and the two  *)
(* who are to be paired are in none: with at least half as many slots as   *)
(* connections one is free.                                                *)
(***************************************************************************)
LEMMA SlotForPair ==
    ASSUME TypeOK, MatchesAgree, NEW c \in Conns, state[c] = "QUEUED"
    PROVE  Live # Slots
<1> SUFFICES ASSUME Live = Slots PROVE FALSE
  OBVIOUS
<1> DEFINE seat == [x \in Slots \X Seats |-> mt[x[1]].conn[x[2]]]
           others == Conns \ {c}
<1>1. ASSUME NEW x \in Slots \X Seats
      PROVE  seat[x] \in Conns /\ state[seat[x]] = "IN_MATCH" /\ at[seat[x]] = x
  <2>1. x = <<x[1], x[2]>> /\ x[1] \in Live /\ x[2] \in Seats
    BY <1>1
  <2>2. mt[x[1]] \in Matches
    BY <2>1 DEF TypeOK, Live
  <2>3. mt[x[1]].conn[x[2]] \in Conns
    BY <2>1, <2>2 DEF Matches
  <2>4. state[mt[x[1]].conn[x[2]]] = "IN_MATCH" /\ at[mt[x[1]].conn[x[2]]] = <<x[1], x[2]>>
    BY <2>1 DEF MatchesAgree
  <2>5. QED
    BY <2>1, <2>3, <2>4
<1>2. seat \in Injection(Slots \X Seats, others)
  BY <1>1 DEF Injection, IsInjective
<1>3. IsFiniteSet(others) /\ Cardinality(others) = Cardinality(Conns) - 1
  BY FS_RemoveElement, ConnsFinite
<1>4. Cardinality(Slots \X Seats) <= Cardinality(others)
  BY <1>2, <1>3, FS_Injection
<1>5. IsFiniteSet(Seats) /\ Cardinality(Seats) = 2
  <2>1. IsFiniteSet({0}) /\ Cardinality({0}) = 1
    BY FS_Singleton
  <2>2. ASSUME NEW S, S = {0}, NEW x, x = 1
        PROVE  IsFiniteSet(S \cup {x}) /\ Cardinality(S \cup {x}) = 2
    <3>1. /\ IsFiniteSet(S \cup {x})
          /\ Cardinality(S \cup {x}) = IF x \in S THEN Cardinality(S) ELSE Cardinality(S) + 1
      BY <2>1, <2>2, FS_AddElement
    <3>2. QED
      BY <2>1, <2>2, <3>1
  <2>3. Seats = {0} \cup {1}
    BY DEF Seats
  <2>4. QED
    BY <2>2, <2>3
<1>6. Cardinality(Slots \X Seats) = Cardinality(Slots) * 2
  BY <1>5, FS_Product, ConnsFinite
<1>7. Cardinality(Slots) \in Nat /\ Cardinality(Conns) \in Nat
  BY FS_CardinalityType, ConnsFinite
<1>8. QED
  BY <1>3, <1>4, <1>6, <1>7, EnoughSlots

LEMMA PairHasSlot == TypeOK /\ MatchesAgree => PairFindsSlot
<1> SUFFICES ASSUME TypeOK, MatchesAgree, NEW p \in Pairs(QueueOf(pc)) PROVE Live # Slots
  BY DEF PairFindsSlot
<1>1. QED
  BY PairsQueued, SlotForPair DEF InQueue

\* start_match never fails for want of a slot, as long as MAX_CONNS <= 2 * MAX_MATCHES.
THEOREM PairsAlwaysFindSlots == Spec => []PairFindsSlot
BY InitTypes, TypeStep, InitAgrees, AgreeStep, PairHasSlot, PTL DEF Spec

-----------------------------------------------------------------------------
(***************************************************************************)
(* The order of the line.                                                  *)
(***************************************************************************)

\* before is an order on those who wait in one queue with one kind.
QueueOrder ==
    \A c \in Conns :
        /\ state[c] # "QUEUED" => before[c] = {}
        /\ \A d \in before[c] : /\ state[d] = "QUEUED" /\ kind[d] = kind[c] /\ mode[d] = mode[c]
                                /\ d # c
                                /\ before[d] \subseteq before[c]

\* Steps in which exactly the connections of C leave the line and nobody enters it.
LineLeft(C) ==
    /\ before' = Dequeue(C)
    /\ \A c \in Conns : state'[c] = "QUEUED" <=> state[c] = "QUEUED" /\ c \notin C

LEMMA LineKept ==
    ASSUME TypeOK, before' = before,
           \A c \in Conns : state'[c] = "QUEUED" <=> state[c] = "QUEUED"
    PROVE  \E C \in SUBSET Conns : LineLeft(C)
<1>1. Dequeue({}) = before
  BY DEF Dequeue, TypeOK
<1>2. LineLeft({})
  BY <1>1 DEF LineLeft
<1>3. QED
  BY <1>2

LEMMA LineResolve ==
    ASSUME TypeOK, NEW m \in Slots, ResolveRound(m), before' = before
    PROVE  \E C \in SUBSET Conns : LineLeft(C)
BY LineKept DEF ResolveRound, EndMatch, NextRound, StateAfter

LEMMA LineConnClose ==
    ASSUME TypeOK, NEW c \in Conns, ConnClose(c)
    PROVE  \E C \in SUBSET Conns : LineLeft(C)
<1>1. LineLeft({c})
  BY DEF ConnClose, StateAfter, LineLeft, TypeOK
<1>2. QED
  BY <1>1

\* Every step either lets some leave the line or is the entry of one connection.
LEMMA LineSteps ==
    ASSUME TypeOK, [Next]_vars
    PROVE  \/ \E C \in SUBSET Conns : LineLeft(C)
           \/ \E c \in Conns : EnterQueue(c) /\ state[c] \in {"READY", "DRAFTING"}
<1> USE DEF who, lines, play, wire
<1>1. ASSUME NEW d \in Conns, Message(d)
      PROVE  \/ \E C \in SUBSET Conns : LineLeft(C)
             \/ \E c \in Conns : EnterQueue(c) /\ state[c] \in {"READY", "DRAFTING"}
  <2>1. CASE \E k \in Kinds, q \in Modes, r \in Ratings : Hello(d, k, q, r)
    BY <2>1, LineKept DEF Hello, TypeOK
  <2>2. ASSUME NEW tok \in Tokens \cup {NoToken}, NEW sameDeck \in BOOLEAN, Queue(d, tok, sameDeck)
        PROVE  \/ \E C \in SUBSET Conns : LineLeft(C)
               \/ EnterQueue(d) /\ state[d] \in {"READY", "DRAFTING"}
    <3>1. CASE StartDraft(d)
      BY <2>2, <3>1, LineKept DEF StartDraft, Queue, TypeOK
    <3>2. CASE UNCHANGED <<pc, sweep, state, kind, mode, rating, placing, lines, play, late>>
      BY <3>2, LineKept
    <3>3. QED
      BY <2>2, <3>1, <3>2 DEF Queue
  <2>3. CASE DraftPick(d)
    BY <2>3, LineKept DEF DraftPick
  <2>4. CASE DraftResume(d) \/ Refuse(d)
    BY <2>4, LineKept DEF DraftResume, Refuse
  <2>5. CASE Play(d)
    BY <2>5, LineKept, LineResolve DEF Play, Live
  <2>6. CASE Leave(d)
    <3>1. LineLeft({d})
      BY <2>6 DEF Leave, StateAfter, LineLeft, TypeOK
    <3>2. QED
      BY <3>1
  <2>7. QED
    BY <1>1, <2>1, <2>2, <2>3, <2>4, <2>5, <2>6 DEF Message
<1>2. CASE Environment
  <2>1. ASSUME NEW d \in Conns, HelloTimePasses(d) \/ BotTimePasses(d) \/ Accept(d) \/ WireFails(d)
        PROVE  \E C \in SUBSET Conns : LineLeft(C)
    BY <2>1, LineKept DEF HelloTimePasses, BotTimePasses, Accept, WireFails, TypeOK
  <2>2. ASSUME NEW d \in Conns, NEW r \in Ratings, RatingUpdate(d, r)
        PROVE  \E C \in SUBSET Conns : LineLeft(C)
    BY <2>2, LineKept DEF RatingUpdate
  <2>3. QED
    BY <1>1, <1>2, <2>1, <2>2, LineKept, LineConnClose DEF Environment, HangUp, RoundTimePasses, Stop
<1>3. CASE Loop
  <2>1. CASE Pair
    <3>1. PICK p \in Pairs(QueueOf(pc)), m \in Slots \ Live : StartMatch(p[1], p[2], m)
      BY <2>1, PairStarts
    <3>2. p[1] \in Conns /\ p[2] \in Conns
      BY PairsQueued DEF InQueue
    <3>3. LineLeft({p[1], p[2]})
      BY <3>1, <3>2 DEF StartMatch, LineLeft, TypeOK
    <3>4. QED
      BY <3>2, <3>3
  <2>2. ASSUME NEW m \in Slots, ExpireRound(m) \/ ShutdownMatch(m)
        PROVE  \E C \in SUBSET Conns : LineLeft(C)
    BY <2>2, LineResolve DEF ExpireRound, ShutdownMatch, ResolveRound
  <2>3. CASE Poll \/ EndEvents \/ ExpireHellos \/ StartTick \/ EndStage \/ Exit
    BY <2>3, LineKept DEF Poll, EndEvents, ExpireHellos, StartTick, EndStage, Exit
  <2>4. QED
    BY <1>3, <2>1, <2>2, <2>3, LineConnClose DEF Loop, CloseCondemned, ShutdownClose
<1>4. CASE Stopped \/ UNCHANGED vars
  BY <1>4, LineKept DEF Stopped, vars
<1>5. QED
  BY <1>2, <1>3, <1>4 DEF Next

LEMMA QueueOrderStep == TypeOK /\ QueueOrder /\ [Next]_vars => QueueOrder'
<1> SUFFICES ASSUME TypeOK, QueueOrder, [Next]_vars PROVE QueueOrder'
  OBVIOUS
<1>0. \A c \in Conns : state[c] = "QUEUED" /\ state'[c] = "QUEUED" => kind'[c] = kind[c] /\ mode'[c] = mode[c]
  BY SettledWho
<1>1. ASSUME NEW C \in SUBSET Conns, LineLeft(C) PROVE QueueOrder'
  <2>1. \A c \in Conns : before'[c] = IF c \in C THEN {} ELSE before[c] \ C
    BY <1>1 DEF LineLeft, Dequeue
  <2> SUFFICES ASSUME NEW c \in Conns
               PROVE  /\ state'[c] # "QUEUED" => before'[c] = {}
                      /\ \A d \in before'[c] : /\ state'[d] = "QUEUED" /\ kind'[d] = kind'[c] /\ mode'[d] = mode'[c]
                                               /\ d # c
                                               /\ before'[d] \subseteq before'[c]
    BY DEF QueueOrder
  <2>2. state'[c] # "QUEUED" => before'[c] = {}
    BY <1>1, <2>1 DEF LineLeft, QueueOrder
  <2>3. ASSUME NEW d \in before'[c]
        PROVE  /\ state'[d] = "QUEUED" /\ kind'[d] = kind'[c] /\ mode'[d] = mode'[c]
               /\ d # c
               /\ before'[d] \subseteq before'[c]
    <3>1. c \notin C /\ d \in before[c] \ C /\ d \in Conns
      BY <2>1, <2>3 DEF TypeOK
    <3>2. /\ state[d] = "QUEUED" /\ kind[d] = kind[c] /\ mode[d] = mode[c]
          /\ d # c /\ before[d] \subseteq before[c] /\ state[c] = "QUEUED"
      BY <3>1 DEF QueueOrder
    <3>3. state'[d] = "QUEUED" /\ state'[c] = "QUEUED"
      BY <1>1, <3>1, <3>2 DEF LineLeft
    <3>4. QED
      BY <1>0, <2>1, <3>1, <3>2, <3>3
  <2>4. QED
    BY <2>2, <2>3
<1>2. ASSUME NEW c \in Conns, EnterQueue(c), state[c] \in {"READY", "DRAFTING"} PROVE QueueOrder'
  <2>1. /\ before' = [before EXCEPT ![c] = {d \in InQueue(mode[c]) : kind[d] = kind[c]}]
        /\ state' = [state EXCEPT ![c] = "QUEUED"]
        /\ kind' = kind /\ mode' = mode
    BY <1>2 DEF EnterQueue
  <2>2. before'[c] = {d \in Conns : state[d] = "QUEUED" /\ mode[d] = mode[c] /\ kind[d] = kind[c]}
    BY <2>1 DEF TypeOK, InQueue
  <2>3. ASSUME NEW d \in Conns, d # c
        PROVE  /\ state'[d] # "QUEUED" => before'[d] = {}
               /\ \A e \in before'[d] : /\ state'[e] = "QUEUED" /\ kind'[e] = kind'[d] /\ mode'[e] = mode'[d]
                                        /\ e # d
                                        /\ before'[e] \subseteq before'[d]
    <3>1. before'[d] = before[d] /\ state'[d] = state[d]
      BY <2>1, <2>3 DEF TypeOK
    <3>2. ASSUME NEW e \in before[d] PROVE e # c /\ e \in Conns
      BY <1>2, <3>2 DEF QueueOrder, TypeOK
    <3>3. QED
      BY <2>1, <3>1, <3>2 DEF QueueOrder, TypeOK
  <2>4. ASSUME NEW e \in before'[c]
        PROVE  /\ state'[e] = "QUEUED" /\ kind'[e] = kind'[c] /\ mode'[e] = mode'[c]
               /\ e # c
               /\ before'[e] \subseteq before'[c]
    <3>1. e \in Conns /\ state[e] = "QUEUED" /\ mode[e] = mode[c] /\ kind[e] = kind[c]
      BY <2>2, <2>4
    <3>2. e # c
      BY <1>2, <3>1
    <3>3. before'[e] = before[e] /\ state'[e] = "QUEUED"
      BY <2>1, <3>1, <3>2 DEF TypeOK
    <3>4. \A f \in before[e] : f \in Conns /\ state[f] = "QUEUED" /\ mode[f] = mode[e] /\ kind[f] = kind[e]
      BY <3>1 DEF QueueOrder, TypeOK
    <3>5. QED
      BY <2>1, <2>2, <3>1, <3>2, <3>3, <3>4
  <2>5. state'[c] = "QUEUED"
    BY <2>1 DEF TypeOK
  <2>6. QED
    BY <2>3, <2>4, <2>5 DEF QueueOrder
<1>3. QED
  BY <1>1, <1>2, LineSteps

LEMMA InitOrdered == Init => QueueOrder
BY DEF Init, QueueOrder

-----------------------------------------------------------------------------
(***************************************************************************)
(* What Pair does to the line: first come, first served, and the reserve   *)
(* of bots.                                                                *)
(***************************************************************************)

\* Two whom the rules choose without a token: nobody of their kind in a FIFO queue was
\* there before the first, and nobody but the first was there before the second.
LEMMA FirstInLine ==
    ASSUME TypeOK, QueueOrder, NEW q, q # "constructed", NEW p \in Pairs(q), token[p[1]] = NoToken,
           NEW c \in {p[1], p[2]}, NEW d \in before[c], token[d] = NoToken
    PROVE  d \in {p[1], p[2]}
<1>1. Duels(q) = {}
  <2>1. \A x \in Duels(q) : token[x[1]] # NoToken
    BY DEF Duels
  <2>2. QED
    BY <2>1 DEF Pairs
<1>2. c \in Conns /\ state[c] = "QUEUED" /\ mode[c] = q /\ token[c] = NoToken
  BY PairsQueued DEF InQueue
<1>3. d \in Waiting(q, kind[c]) /\ d # c /\ c \in Waiting(q, kind[c])
  BY <1>2 DEF QueueOrder, Waiting, InQueue, TypeOK
<1>4. \A S, a : Partner(q, S, a) = Oldest(S)
  BY DEF Partner
<1>5. \A k, x : x \in Waiting(q, k) => kind[x] = k
  BY DEF Waiting
<1>6. CASE p \in HumanPairs(q)
  <2>1. p[1] \in Oldest(Waiting(q, "human")) /\ p[2] \in Oldest(Waiting(q, "human") \ {p[1]})
    BY <1>4, <1>6 DEF HumanPairs
  <2>2. QED
    BY <1>3, <1>5, <2>1 DEF Oldest
<1>7. CASE p \in HumanBotPairs(q)
  <2>1. /\ p[1] \in Waiting(q, "human") /\ ~AtLeastTwo(Waiting(q, "human"))
        /\ p[2] \in Oldest(Waiting(q, "bot"))
    BY <1>4, <1>7 DEF HumanBotPairs
  <2>2. c # p[1]
    BY <1>3, <1>5, <2>1 DEF AtLeastTwo
  <2>3. QED
    BY <1>3, <1>5, <2>1, <2>2 DEF Oldest
<1>8. CASE p \in BotPairs(q)
  <2>1. p[1] \in Oldest(Waiting(q, "bot")) /\ p[2] \in Oldest(Waiting(q, "bot") \ {p[1]})
    BY <1>4, <1>8 DEF BotPairs
  <2>2. QED
    BY <1>3, <1>5, <2>1 DEF Oldest
<1>9. QED
  BY <1>1, <1>6, <1>7, <1>8 DEF Pairs

\* Only Pair takes somebody from the queue into a match.
LEMMA OnlyPairSeats ==
    ASSUME TypeOK, MatchesAgree, Next, NEW c \in Conns, state[c] = "QUEUED", state'[c] = "IN_MATCH"
    PROVE  Pair
<1>1. SUFFICES ASSUME ~Pair PROVE FALSE
  OBVIOUS
<1>2. MatchesOnlyEnd
  BY <1>1, MatchesOnlyEndStep
<1>3. TypeOK' /\ MatchesAgree'
  BY TypeStep, AgreeStep
<1> DEFINE m == at'[c][1]
           s == at'[c][2]
<1>4. m \in Live' /\ s \in Seats /\ mt'[m].conn[s] = c
  BY <1>3 DEF MatchesAgree, TypeOK
<1>5. m \in Live /\ mt[m].conn[s] = c
  BY <1>2, <1>4 DEF MatchesOnlyEnd
<1>6. QED
  BY <1>4, <1>5 DEF MatchesAgree

\* First come, first served, through any number of pairings, departures and slot reuses.
THEOREM NobodyOvertakes == Spec => NoOvertaking
<1>1. ASSUME TypeOK, MatchesAgree, QueueOrder, [Next]_vars
      PROVE  [\A c, d \in Conns :
                /\ state[c] = "QUEUED" /\ state'[c] = "IN_MATCH"
                /\ d \in before[c] /\ token[c] = NoToken /\ token[d] = NoToken
                /\ mode[c] # "constructed"
                => state'[d] # "QUEUED"]_vars
  <2> SUFFICES ASSUME Next, NEW c \in Conns, NEW d \in Conns,
                      state[c] = "QUEUED", state'[c] = "IN_MATCH", d \in before[c],
                      token[c] = NoToken, token[d] = NoToken, mode[c] # "constructed"
               PROVE  state'[d] # "QUEUED"
    BY <1>1
  <2>1. Pair
    BY <1>1, OnlyPairSeats
  <2>2. PICK p \in Pairs(QueueOf(pc)), m \in Slots \ Live : StartMatch(p[1], p[2], m)
    BY <1>1, <2>1, PairStarts
  <2>3. /\ p[1] \in InQueue(QueueOf(pc)) /\ p[2] \in InQueue(QueueOf(pc))
        /\ token[p[1]] = token[p[2]]
    BY <1>1, PairsQueued
  <2>4. c \in {p[1], p[2]}
    BY <1>1, <2>2, <2>3 DEF StartMatch, InQueue, TypeOK
  <2>5. QueueOf(pc) # "constructed" /\ token[p[1]] = NoToken
    BY <2>3, <2>4 DEF InQueue
  <2>6. d \in {p[1], p[2]}
    BY <1>1, <2>4, <2>5, FirstInLine
  <2>7. QED
    BY <1>1, <2>2, <2>3, <2>6 DEF StartMatch, InQueue, TypeOK
<1>2. QED
  BY <1>1, InitTypes, TypeStep, InitAgrees, AgreeStep, InitOrdered, QueueOrderStep, PTL DEF Spec, NoOvertaking

\* Two bots meet only while a third waits: the next human finds an opponent.
THEOREM BotsAlwaysReserved == Spec => BotsReserved
<1>1. ASSUME TypeOK, MatchesAgree, [Next]_vars
      PROVE  [\A m \in Slots \ Live :
                m \in Live' =>
                   LET a == mt'[m].conn[0]
                       b == mt'[m].conn[1]
                   IN  kind[a] = "bot" /\ kind[b] = "bot" /\ token[a] = NoToken =>
                          \E c \in Conns : /\ state'[c] = "QUEUED" /\ kind[c] = "bot"
                                           /\ mode[c] = mode[a] /\ token[c] = NoToken]_vars
  <2> SUFFICES ASSUME Next, NEW m \in Slots \ Live, m \in Live',
                      kind[mt'[m].conn[0]] = "bot", kind[mt'[m].conn[1]] = "bot",
                      token[mt'[m].conn[0]] = NoToken
               PROVE  \E c \in Conns : /\ state'[c] = "QUEUED" /\ kind[c] = "bot"
                                       /\ mode[c] = mode[mt'[m].conn[0]] /\ token[c] = NoToken
    BY <1>1
  <2>1. Pair
    BY <1>1, MatchesOnlyEndStep DEF MatchesOnlyEnd
  <2>2. PICK p \in Pairs(QueueOf(pc)), n \in Slots \ Live :
              /\ StartMatch(p[1], p[2], n)
              /\ Live' = Live \cup {n}
              /\ mt'[n].conn[0] = p[1] /\ mt'[n].conn[1] = p[2]
    BY <1>1, <2>1, PairStarts
  <2>3. kind[p[1]] = "bot" /\ kind[p[2]] = "bot" /\ token[p[1]] = NoToken /\ m = n
    BY <2>2
  <2> DEFINE q == QueueOf(pc)
             B == Waiting(q, "bot")
  <2>4. Duels(q) = {}
    <3>1. \A x \in Duels(q) : token[x[1]] # NoToken
      BY DEF Duels
    <3>2. QED
      BY <2>3, <3>1 DEF Pairs
  <2>5. p \in BotPairs(q)
    <3>1. p \notin HumanPairs(q) /\ p \notin HumanBotPairs(q)
      BY <2>3 DEF HumanPairs, HumanBotPairs, Oldest, Waiting
    <3>2. QED
      BY <2>4, <3>1 DEF Pairs
  <2>6. PICK c \in B : c # p[1] /\ c # p[2]
    BY <2>5 DEF BotPairs, AtLeastThree
  <2>7. p[1] \in InQueue(q)
    BY <1>1, PairsQueued
  <2>8. state'[c] = "QUEUED" /\ kind[c] = "bot" /\ mode[c] = mode[p[1]] /\ token[c] = NoToken /\ c \in Conns
    BY <1>1, <2>2, <2>6, <2>7 DEF StartMatch, Waiting, InQueue, TypeOK
  <2>9. QED
    BY <2>2, <2>3, <2>8
<1>2. QED
  BY <1>1, InitTypes, TypeStep, InitAgrees, AgreeStep, PTL DEF Spec, BotsReserved

-----------------------------------------------------------------------------
(***************************************************************************)
(* There is always an oldest and a nearest candidate.                      *)
(***************************************************************************)
LEMMA LeastValue ==
    ASSUME NEW S, S # {}, NEW f \in [S -> Nat]
    PROVE  \E x \in S : \A y \in S : f[x] <= f[y]
<1> DEFINE T == {f[x] : x \in S}
           R == {ss \in Nat \X Nat : ss[1] < ss[2]}
<1>1. IsWellFoundedOn(R, Nat)
  BY NatLessThanWellFounded DEF OpToRel
<1>2. T \subseteq Nat /\ T # {}
  OBVIOUS
<1> HIDE DEF T, R
<1>3. \E t \in T : \A u \in T : <<u, t>> \notin R
  BY <1>1, <1>2, WFMin
<1>4. PICK t \in T : \A u \in T : ~(u < t)
  BY <1>2, <1>3 DEF R
<1>5. PICK x \in S : f[x] = t
  BY DEF T
<1>6. \A y \in S : f[y] \in T
  BY DEF T
<1>7. QED
  BY <1>2, <1>4, <1>5, <1>6

\* How many waited before somebody orders the line.
LEMMA EarlierSmaller ==
    ASSUME TypeOK, QueueOrder
    PROVE  /\ \A c \in Conns : Cardinality(before[c]) \in Nat
           /\ \A c \in Conns : \A d \in before[c] : Cardinality(before[d]) < Cardinality(before[c])
<1>1. ASSUME NEW c \in Conns PROVE IsFiniteSet(before[c]) /\ Cardinality(before[c]) \in Nat
  <2>1. before[c] \in SUBSET Conns
    BY DEF TypeOK
  <2>2. IsFiniteSet(before[c])
    BY <2>1, ConnsFinite, FS_Subset
  <2>3. QED
    BY <2>2, FS_CardinalityType
<1>2. ASSUME NEW c \in Conns, NEW d \in before[c] PROVE Cardinality(before[d]) < Cardinality(before[c])
  <2>1. d \in Conns /\ before[d] \in SUBSET before[c] /\ d \notin before[d]
    BY DEF TypeOK, QueueOrder
  <2>2. Cardinality(before[d]) <= Cardinality(before[c]) /\ Cardinality(before[d]) # Cardinality(before[c])
    BY <1>1, <1>2, <2>1, FS_Subset
  <2>3. QED
    BY <1>1, <2>1, <2>2
<1>3. QED
  BY <1>1, <1>2

LEMMA OldestExists ==
    ASSUME TypeOK, QueueOrder, NEW S \in SUBSET Conns, S # {}
    PROVE  Oldest(S) # {}
<1> DEFINE f == [c \in S |-> Cardinality(before[c])]
<1>1. f \in [S -> Nat]
  BY EarlierSmaller
<1>2. PICK c \in S : \A d \in S : f[c] <= f[d]
  BY <1>1, LeastValue
<1>3. \A d \in S : d \notin before[c]
  BY <1>2, EarlierSmaller
<1>4. QED
  BY <1>3 DEF Oldest

LEMMA NearestExists ==
    ASSUME TypeOK, QueueOrder, NEW S \in SUBSET Conns, S # {}, NEW r \in Nat
    PROVE  Nearest(S, r) # {}
<1> DEFINE f == [c \in S |-> Dist(c, r)]
<1>1. f \in [S -> Nat]
  <2>1. \A c \in S : rating[c] \in Nat
    BY RatingsOK DEF TypeOK
  <2>2. QED
    BY <2>1 DEF Dist
<1>2. PICK a \in S : \A d \in S : f[a] <= f[d]
  BY <1>1, LeastValue
<1> DEFINE T == {c \in S : Dist(c, r) = Dist(a, r)}
<1>3. T \in SUBSET Conns /\ T # {}
  OBVIOUS
<1>4. PICK c \in Oldest(T) : TRUE
  BY <1>3, OldestExists
<1>5. c \in T /\ \A d \in T : d \notin before[c]
  BY <1>4 DEF Oldest
<1>6. \A d \in S : Dist(d, r) \in Nat /\ Dist(a, r) <= Dist(d, r)
  BY <1>1, <1>2
<1>7. ASSUME NEW d \in S
      PROVE  \/ Dist(c, r) < Dist(d, r)
             \/ Dist(c, r) = Dist(d, r) /\ d \notin before[c]
  BY <1>5, <1>6
<1>8. c \in Nearest(S, r)
  BY <1>5, <1>7 DEF Nearest
<1>9. QED
  BY <1>8

LEMMA PartnerExists ==
    ASSUME TypeOK, QueueOrder, NEW q, NEW S \in SUBSET Conns, S # {}, NEW a \in Conns
    PROVE  Partner(q, S, a) # {}
<1>1. rating[a] \in Nat
  BY RatingsOK DEF TypeOK
<1>2. QED
  BY <1>1, OldestExists, NearestExists DEF Partner

-----------------------------------------------------------------------------
(***************************************************************************)
(* Nobody waits who could play.  When the rules find no pair, the queue is *)
(* settled; what leaves the line keeps it settled; and whoever enters it   *)
(* starts all three stages.                                                *)
(***************************************************************************)
LEMMA NoPairSettles ==
    ASSUME TypeOK, QueueOrder, NEW q, Pairs(q) = {}
    PROVE  Settled(q)
<1> DEFINE H == Waiting(q, "human")
           B == Waiting(q, "bot")
<1>1. /\ Duels(q) = {}
      /\ HumanPairs(q) = {} /\ HumanBotPairs(q) = {} /\ BotPairs(q) = {}
  BY DEF Pairs
<1>2. H \in SUBSET Conns /\ B \in SUBSET Conns
  BY DEF Waiting, InQueue
<1>3. ~AtLeastTwo(H)
  <2> SUFFICES ASSUME AtLeastTwo(H) PROVE FALSE
    OBVIOUS
  <2>1. PICK a \in Oldest(H) : TRUE
    BY <1>2, OldestExists DEF AtLeastTwo
  <2>2. H \ {a} # {} /\ a \in H
    BY <2>1 DEF AtLeastTwo, Oldest
  <2>3. PICK b \in Partner(q, H \ {a}, a) : TRUE
    BY <1>2, <2>2, PartnerExists
  <2>4. b \in H
    BY <2>3 DEF Partner, Nearest, Oldest
  <2>5. <<a, b>> \in HumanPairs(q)
    BY <2>1, <2>3, <2>4 DEF HumanPairs
  <2>6. QED
    BY <1>1, <2>5
<1>4. H = {} \/ B = {}
  <2> SUFFICES ASSUME H # {}, B # {} PROVE FALSE
    OBVIOUS
  <2>1. PICK a \in H : TRUE
    OBVIOUS
  <2>2. PICK b \in Partner(q, B, a) : TRUE
    BY <1>2, <2>1, PartnerExists
  <2>3. b \in B
    BY <2>2 DEF Partner, Nearest, Oldest
  <2>4. <<a, b>> \in HumanBotPairs(q)
    BY <1>3, <2>1, <2>2, <2>3 DEF HumanBotPairs
  <2>5. QED
    BY <1>1, <2>4
<1>5. q = "constructed" \/ ~AtLeastThree(B)
  <2> SUFFICES ASSUME q # "constructed", AtLeastThree(B) PROVE FALSE
    OBVIOUS
  <2>1. PICK a \in Oldest(B) : TRUE
    BY <1>2, OldestExists DEF AtLeastThree
  <2>2. B \ {a} # {} /\ a \in B
    BY <2>1 DEF AtLeastThree, Oldest
  <2>3. PICK b \in Partner(q, B \ {a}, a) : TRUE
    BY <1>2, <2>2, PartnerExists
  <2>4. b \in B
    BY <2>3 DEF Partner, Nearest, Oldest
  <2>5. H = {}
    BY <1>4, <2>2
  <2>6. <<a, b>> \in BotPairs(q)
    BY <2>1, <2>3, <2>4, <2>5 DEF BotPairs
  <2>7. QED
    BY <1>1, <2>6
<1>6. QED
  BY <1>1, <1>3, <1>4, <1>5 DEF Settled

LEMMA LineLeftSettles ==
    ASSUME TypeOK, [Next]_vars, NEW C \in SUBSET Conns, LineLeft(C), NEW q, Settled(q)
    PROVE  Settled(q)'
<1>1. \A c \in InQueue(q)' : c \in InQueue(q) /\ kind'[c] = kind[c] /\ token'[c] = token[c]
  BY SettledWho DEF LineLeft, InQueue
<1>2. \A k : Waiting(q, k)' \subseteq Waiting(q, k)
  BY <1>1 DEF Waiting
<1>3. Duels(q)' \subseteq Duels(q)
  BY <1>1 DEF Duels
<1>4. /\ AtLeastTwo(Waiting(q, "human"))' => AtLeastTwo(Waiting(q, "human"))
      /\ AtLeastThree(Waiting(q, "bot"))' => AtLeastThree(Waiting(q, "bot"))
  BY <1>2 DEF AtLeastTwo, AtLeastThree
<1>5. QED
  BY <1>2, <1>3, <1>4 DEF Settled

\* Only EndStage moves the loop from one stage of try_pair to the next.
LEMMA StagesKept ==
    ASSUME TypeOK, [Next]_vars, ~EndStage, \A c \in Conns : ~EnterQueue(c)
    PROVE  StillToPair' = StillToPair
<1> USE DEF who, lines, play, wire, StillToPair
<1>1. ASSUME NEW d \in Conns, Message(d) PROVE pc' = pc
  BY <1>1 DEF Message, Hello, Queue, StartDraft, DraftPick, DraftResume, Play, Leave, Refuse
<1>2. CASE Environment
  BY <1>1, <1>2 DEF Environment, HelloTimePasses, BotTimePasses, Accept, WireFails, HangUp,
                    RatingUpdate, RoundTimePasses, Stop
<1>3. CASE Loop
  BY <1>3 DEF Loop, Poll, EndEvents, ExpireHellos, StartTick, Pair, Exit, CloseCondemned,
              ShutdownClose, ExpireRound, ShutdownMatch
<1>4. CASE Stopped \/ UNCHANGED vars
  BY <1>4 DEF Stopped, vars
<1>5. QED
  BY <1>2, <1>3, <1>4 DEF Next

LEMMA SettledStep ==
    TypeOK /\ MatchesAgree /\ QueueOrder /\ QueuesSettled /\ [Next]_vars => QueuesSettled'
<1> SUFFICES ASSUME TypeOK, MatchesAgree, QueueOrder, QueuesSettled, [Next]_vars,
                    NEW q \in {"card", "draft", "constructed"} \ StillToPair'
             PROVE  Settled(q)'
  BY DEF QueuesSettled
<1>1. ASSUME NEW c \in Conns, EnterQueue(c) PROVE FALSE
  BY <1>1 DEF EnterQueue, StillToPair
<1>2. PICK C \in SUBSET Conns : LineLeft(C)
  BY <1>1, LineSteps
<1>3. CASE q \notin StillToPair
  BY <1>2, <1>3, LineLeftSettles DEF QueuesSettled
<1>4. CASE q \in StillToPair
  <2>1. EndStage
    BY <1>1, <1>4, StagesKept
  <2>2. q = QueueOf(pc) /\ pc \in Pairing
    BY <1>4, <2>1 DEF EndStage, AfterStage, StillToPair, QueueOf, Pairing
  <2>3. Pairs(q) = {}
    <3>1. Pairs(q) = {} \/ Live = Slots
      BY <2>1, <2>2 DEF EndStage
    <3>2. PairFindsSlot
      BY PairHasSlot
    <3>3. QED
      BY <2>2, <3>1, <3>2 DEF PairFindsSlot
  <2>4. Settled(q)
    BY <2>3, NoPairSettles
  <2>5. QED
    BY <1>2, <2>4, LineLeftSettles
<1>5. QED
  BY <1>3, <1>4

\* Outside the stages of try_pair nobody waits in a queue who could be paired: not after a
\* departure, a refused message, the end of a match or a deadline.
THEOREM QueuesAlwaysSettled == Spec => []QueuesSettled
<1>1. Init => QueuesSettled
  BY DEF Init, QueuesSettled, Settled, Duels, Waiting, InQueue, AtLeastTwo, AtLeastThree
<1>2. QED
  BY <1>1, InitTypes, TypeStep, InitAgrees, AgreeStep, InitOrdered, QueueOrderStep, SettledStep, PTL DEF Spec

\* The tick of the constructed queue leaves no three bots that have all waited long enough.
THEOREM TickAlwaysPairsRested == Spec => TickPairsRested
<1>1. ASSUME TypeOK, MatchesAgree, QueueOrder, [Next]_vars
      PROVE  [pc = "tick" /\ pc' = "poll" =>
                ~(/\ Waiting("constructed", "human") = {}
                  /\ AtLeastThree(Waiting("constructed", "bot"))
                  /\ Waiting("constructed", "bot") \subseteq rested)]_vars
  <2> DEFINE H == Waiting("constructed", "human")
             B == Waiting("constructed", "bot")
  <2> SUFFICES ASSUME Next, pc = "tick", pc' = "poll", H = {}, AtLeastThree(B), B \subseteq rested
               PROVE  FALSE
    BY <1>1
  <2>1. EndStage
    <3>1. ~Environment
      BY DEF Environment, HelloTimePasses, BotTimePasses, Accept, WireFails, HangUp, RatingUpdate,
             RoundTimePasses, Stop, Message, Hello, Queue, DraftPick, DraftResume, Play, Leave, Refuse, Reads
    <3>2. ~Stopped
      BY DEF Stopped
    <3>3. QED
      BY <3>1, <3>2 DEF Next, Loop, Poll, EndEvents, ExpireHellos, StartTick, Pair, Exit, CloseCondemned,
                        ShutdownClose, ExpireRound, ShutdownMatch
  <2>2. B \in SUBSET Conns
    BY DEF Waiting, InQueue
  <2>3. PICK a \in Oldest(B) : TRUE
    BY <1>1, <2>2, OldestExists DEF AtLeastThree
  <2>4. B \ {a} # {} /\ a \in B
    BY <2>3 DEF AtLeastThree, Oldest
  <2>5. PICK b \in Partner("constructed", B \ {a}, a) : TRUE
    BY <1>1, <2>2, <2>4, PartnerExists
  <2>6. b \in B
    BY <2>5 DEF Partner, Nearest
  <2>7. Duels("constructed") # {} \/ <<a, b>> \in Pairs("constructed")
    BY <2>3, <2>4, <2>5, <2>6 DEF Pairs, BotPairs
  <2>8. Pairs("constructed") # {}
    BY <2>7 DEF Pairs
  <2>9. Live # Slots
    <3>1. PairFindsSlot
      BY <1>1, PairHasSlot
    <3>2. QED
      BY <2>8, <3>1 DEF PairFindsSlot, Pairing, QueueOf
  <2>10. QED
    BY <2>1, <2>8, <2>9 DEF EndStage, QueueOf
<1>2. QED
  BY <1>1, InitTypes, TypeStep, InitAgrees, AgreeStep, InitOrdered, QueueOrderStep, PTL DEF Spec, TickPairsRested

-----------------------------------------------------------------------------
(***************************************************************************)
(* What the clients believe.                                               *)
(***************************************************************************)
InStep(c) ==
    CASE state[c] = "FREE" -> told[c] = "none"
      [] state[c] = "CONNECTED" -> told[c] = "none"
      [] state[c] = "READY" -> told[c] \notin {"none", "ROUND_START", "ERROR"}
      [] state[c] = "QUEUED" -> told[c] = "QUEUED"
      [] state[c] = "DRAFTING" -> told[c] = "DRAFT_OFFER"
      [] state[c] = "IN_MATCH" -> told[c] = "ROUND_START"

\* The receivers of a send either hear it or are condemned; nobody else is touched.
LEMMA SendReaches ==
    ASSUME TypeOK, NEW to \in SUBSET Conns, NEW msg, Send(to, msg),
           NEW c \in Conns, c \notin closing'
    PROVE  c \notin closing /\ told'[c] = IF c \in to THEN msg ELSE told[c]
BY DEF Send, TypeOK

LEMMA SendErrorReaches ==
    ASSUME TypeOK, NEW to \in SUBSET Conns, SendError(to), NEW c \in Conns, c \notin closing'
    PROVE  c \notin closing /\ told'[c] = told[c] /\ c \notin to
BY DEF SendError, TypeOK

LEMMA InStepKept ==
    ASSUME TypeOK, ClientInStep, NEW c \in Conns, c \notin closing,
           state'[c] = state[c], told'[c] = told[c]
    PROVE  InStep(c)'
<1>1. InStep(c)
  BY DEF ClientInStep, InStep
<1>2. state[c] \in States
  BY DEF TypeOK
<1>3. QED
  BY <1>1, <1>2 DEF InStep, States

LEMMA InStepEnd ==
    ASSUME TypeOK, MatchesAgree, ClientInStep, NEW m \in Live, EndMatch(m),
           NEW c \in Conns, c \notin closing'
    PROVE  InStep(c)'
<1>1. Party(m) \in SUBSET Conns /\ Parties({m}) = Party(m) /\ {m} \in SUBSET Live
  BY PartyTypes DEF Parties
<1>2. c \notin closing /\ told'[c] = IF c \in Party(m) THEN "MATCH_END" ELSE told[c]
  BY <1>1, SendReaches DEF EndMatch
<1>3. c \in Party(m) => state[c] = "IN_MATCH"
  BY <1>1, PartiesOf
<1>4. state'[c] = IF c \in Party(m) THEN "READY" ELSE state[c]
  BY <1>1, <1>3 DEF EndMatch, StateAfter
<1>5. CASE c \in Party(m)
  BY <1>2, <1>4, <1>5 DEF InStep
<1>6. CASE c \notin Party(m)
  BY <1>2, <1>4, <1>6, InStepKept
<1>7. QED
  BY <1>5, <1>6

LEMMA InStepResolve ==
    ASSUME TypeOK, MatchesAgree, ClientInStep, NEW m \in Live, ResolveRound(m),
           NEW c \in Conns, c \notin closing'
    PROVE  InStep(c)'
<1>1. CASE NextRound(m)
  <2>1. Party(m) \in SUBSET Conns /\ Parties({m}) = Party(m) /\ {m} \in SUBSET Live
    BY PartyTypes DEF Parties
  <2>2. c \notin closing /\ told'[c] = IF c \in Party(m) THEN "ROUND_START" ELSE told[c]
    BY <1>1, <2>1, SendReaches DEF NextRound
  <2>3. state' = state /\ (c \in Party(m) => state[c] = "IN_MATCH")
    BY <1>1, <2>1, PartiesOf DEF NextRound
  <2>4. CASE c \in Party(m)
    BY <2>2, <2>3, <2>4 DEF InStep
  <2>5. CASE c \notin Party(m)
    BY <2>2, <2>3, <2>5, InStepKept
  <2>6. QED
    BY <2>4, <2>5
<1>2. QED
  BY <1>1, InStepEnd DEF ResolveRound

LEMMA InStepClose ==
    ASSUME TypeOK, MatchesAgree, ClientInStep, NEW d \in Conns, ConnClose(d),
           NEW c \in Conns, c \notin closing'
    PROVE  InStep(c)'
<1> DEFINE E == Forfeits(d)
<1>1. E \in SUBSET Live /\ \A e \in Parties(E) : state[e] = "IN_MATCH"
  BY ForfeitsOwn
<1>2. CASE c = d
  BY <1>2 DEF ConnClose, InStep, StateAfter, TypeOK
<1>3. CASE c # d
  <2>1. c \notin closing /\ told'[c] = IF c \in Parties(E) THEN "MATCH_END" ELSE told[c]
    BY <1>3 DEF ConnClose
  <2>2. state'[c] = IF c \in Parties(E) THEN "READY" ELSE state[c]
    BY <1>1, <1>3 DEF ConnClose, StateAfter, TypeOK
  <2>3. CASE c \in Parties(E)
    BY <2>1, <2>2, <2>3 DEF InStep
  <2>4. CASE c \notin Parties(E)
    BY <2>1, <2>2, <2>4, InStepKept
  <2>5. QED
    BY <2>3, <2>4
<1>4. QED
  BY <1>2, <1>3

LEMMA InStepMessage ==
    ASSUME TypeOK, MatchesAgree, ClientInStep, NEW d \in Conns, Message(d),
           NEW c \in Conns, c \notin closing'
    PROVE  InStep(c)'
<1> USE DEF who, lines, play, wire
<1>1. ASSUME NEW k \in Kinds, NEW q \in Modes, NEW r \in Ratings, Hello(d, k, q, r) PROVE InStep(c)'
  <2>1. c \notin closing /\ told'[c] = (IF c \in {d} THEN "WELCOME" ELSE told[c])
    BY <1>1, SendReaches DEF Hello
  <2>2. state'[c] = IF c = d THEN "READY" ELSE state[c]
    BY <1>1 DEF Hello, TypeOK
  <2>3. CASE c = d
    BY <2>1, <2>2, <2>3 DEF InStep
  <2>4. CASE c # d
    BY <2>1, <2>2, <2>4, InStepKept
  <2>5. QED
    BY <2>3, <2>4
<1>2. ASSUME EnterQueue(d) PROVE InStep(c)'
  <2>1. c \notin closing /\ told'[c] = (IF c \in {d} THEN "QUEUED" ELSE told[c])
    BY <1>2, SendReaches DEF EnterQueue
  <2>2. state'[c] = IF c = d THEN "QUEUED" ELSE state[c]
    BY <1>2 DEF EnterQueue, TypeOK
  <2>3. CASE c = d
    BY <2>1, <2>2, <2>3 DEF InStep
  <2>4. CASE c # d
    BY <2>1, <2>2, <2>4, InStepKept
  <2>5. QED
    BY <2>3, <2>4
<1>3. ASSUME StartDraft(d) PROVE InStep(c)'
  <2>1. c \notin closing /\ told'[c] = (IF c \in {d} THEN "DRAFT_OFFER" ELSE told[c])
    BY <1>3, SendReaches DEF StartDraft
  <2>2. state'[c] = IF c = d THEN "DRAFTING" ELSE state[c]
    BY <1>3 DEF StartDraft, TypeOK
  <2>3. CASE c = d
    BY <2>1, <2>2, <2>3 DEF InStep
  <2>4. CASE c # d
    BY <2>1, <2>2, <2>4, InStepKept
  <2>5. QED
    BY <2>3, <2>4
<1>4. ASSUME SendError({d}), state' = state PROVE InStep(c)'
  BY <1>4, SendErrorReaches, InStepKept
<1>5. ASSUME NEW tok \in Tokens \cup {NoToken}, NEW sameDeck \in BOOLEAN, Queue(d, tok, sameDeck)
      PROVE  InStep(c)'
  BY <1>2, <1>3, <1>4, <1>5 DEF Queue
<1>6. CASE DraftPick(d)
  <2>1. CASE Send({d}, "DRAFT_OFFER") /\ state' = state
    <3>1. c \notin closing /\ told'[c] = (IF c \in {d} THEN "DRAFT_OFFER" ELSE told[c])
      BY <2>1, SendReaches
    <3>2. CASE c = d
      BY <1>6, <2>1, <3>1, <3>2 DEF DraftPick, InStep
    <3>3. QED
      BY <2>1, <3>1, <3>2, InStepKept
  <2>2. QED
    BY <1>2, <1>6, <2>1 DEF DraftPick
<1>7. CASE DraftResume(d)
  <2>1. c \notin closing /\ told'[c] = (IF c \in {d} THEN "DRAFT_DONE" ELSE told[c])
    BY <1>7, SendReaches DEF DraftResume
  <2>2. CASE c = d
    BY <1>7, <2>1, <2>2 DEF DraftResume, InStep
  <2>3. QED
    BY <1>7, <2>1, <2>2, InStepKept DEF DraftResume
<1>8. CASE Play(d)
  <2>1. CASE UNCHANGED <<state, at, due, wire>>
    BY <2>1, InStepKept
  <2>2. CASE ResolveRound(at[d][1])
    BY <1>8, <2>2, InStepResolve DEF Play
  <2>3. QED
    BY <1>8, <2>1, <2>2 DEF Play
<1>9. CASE Leave(d)
  <2> DEFINE E == Forfeits(d)
  <2>1. E \in SUBSET Live /\ Parties(E) \in SUBSET Conns /\ \A e \in Parties(E) : state[e] = "IN_MATCH"
    BY ForfeitsOwn, PartyTypes
  <2>2. c \notin closing /\ told'[c] = IF c \in Parties(E) THEN "MATCH_END" ELSE told[c]
    BY <1>9, <2>1, SendReaches DEF Leave
  <2>3. state' = [StateAfter(E) EXCEPT ![d] = IF @ \in {"QUEUED", "DRAFTING"} THEN "READY" ELSE @]
    BY <1>9 DEF Leave
  <2>4. state'[c] = IF c \in Parties(E) \/ (c = d /\ state[c] \in {"QUEUED", "DRAFTING"})
                    THEN "READY" ELSE state[c]
    BY <2>1, <2>3 DEF StateAfter, TypeOK
  <2>5. CASE c \in Parties(E)
    BY <2>2, <2>4, <2>5 DEF InStep
  <2>6. CASE c \notin Parties(E) /\ c = d /\ state[c] \in {"QUEUED", "DRAFTING"}
    BY <2>2, <2>4, <2>6 DEF InStep, ClientInStep
  <2>7. CASE c \notin Parties(E) /\ ~(c = d /\ state[c] \in {"QUEUED", "DRAFTING"})
    BY <2>2, <2>4, <2>7, InStepKept
  <2>8. QED
    BY <2>5, <2>6, <2>7
<1>10. CASE Refuse(d)
  BY <1>4, <1>10 DEF Refuse
<1>11. QED
  BY <1>1, <1>5, <1>6, <1>7, <1>8, <1>9, <1>10 DEF Message

LEMMA ClientInStepStep ==
    TypeOK /\ MatchesAgree /\ ClientInStep /\ [Next]_vars => ClientInStep'
<1> SUFFICES ASSUME TypeOK, MatchesAgree, ClientInStep, [Next]_vars, NEW c \in Conns, c \notin closing'
             PROVE  InStep(c)'
  BY DEF ClientInStep, InStep
<1> USE DEF who, lines, play, wire
<1>1. CASE Environment
  <2>1. ASSUME NEW d \in Conns, Accept(d) PROVE InStep(c)'
    <3>1. CASE c = d
      BY <2>1, <3>1 DEF Accept, TypeOK, InStep, ClientInStep
    <3>2. CASE c # d
      BY <2>1, <3>2, InStepKept DEF Accept, TypeOK
    <3>3. QED
      BY <3>1, <3>2
  <2>2. ASSUME NEW d \in Conns, HelloTimePasses(d) \/ BotTimePasses(d) \/ WireFails(d) PROVE InStep(c)'
    BY <2>2, InStepKept DEF HelloTimePasses, BotTimePasses, WireFails
  <2>3. ASSUME NEW d \in Conns, NEW r \in Ratings, RatingUpdate(d, r) PROVE InStep(c)'
    BY <2>3, InStepKept DEF RatingUpdate
  <2>4. ASSUME NEW m \in Slots, RoundTimePasses(m) PROVE InStep(c)'
    BY <2>4, InStepKept DEF RoundTimePasses
  <2>5. CASE Stop
    BY <2>5, InStepKept DEF Stop
  <2>6. QED
    BY <1>1, <2>1, <2>2, <2>3, <2>4, <2>5, InStepMessage, InStepClose DEF Environment, HangUp
<1>2. CASE Loop
  <2>1. CASE Pair
    <3>1. PICK p \in Pairs(QueueOf(pc)), m \in Slots \ Live : StartMatch(p[1], p[2], m)
      BY <2>1, PairStarts
    <3>2. {p[1], p[2]} \in SUBSET Conns
      BY PairsQueued DEF InQueue
    <3>3. c \notin closing /\ told'[c] = IF c \in {p[1], p[2]} THEN "ROUND_START" ELSE told[c]
      BY <3>1, <3>2, SendReaches DEF StartMatch
    <3>4. state'[c] = IF c \in {p[1], p[2]} THEN "IN_MATCH" ELSE state[c]
      BY <3>1, <3>2 DEF StartMatch, TypeOK
    <3>5. CASE c \in {p[1], p[2]}
      BY <3>3, <3>4, <3>5 DEF InStep
    <3>6. CASE c \notin {p[1], p[2]}
      BY <3>3, <3>4, <3>6, InStepKept
    <3>7. QED
      BY <3>5, <3>6
  <2>2. CASE ExpireHellos
    <3>1. late \in SUBSET Conns
      BY DEF TypeOK
    <3>2. QED
      BY <2>2, <3>1, SendErrorReaches, InStepKept DEF ExpireHellos
  <2>3. ASSUME NEW m \in Slots, ExpireRound(m) \/ ShutdownMatch(m) PROVE InStep(c)'
    BY <2>3, InStepResolve, InStepEnd DEF ExpireRound, ShutdownMatch
  <2>4. CASE Poll \/ EndEvents \/ StartTick \/ EndStage \/ Exit
    BY <2>4, InStepKept DEF Poll, EndEvents, StartTick, EndStage, Exit
  <2>5. QED
    BY <1>2, <2>1, <2>2, <2>3, <2>4, InStepClose DEF Loop, CloseCondemned, ShutdownClose
<1>3. CASE Stopped \/ UNCHANGED vars
  BY <1>3, InStepKept DEF Stopped, vars
<1>4. QED
  BY <1>1, <1>2, <1>3 DEF Next

\* Whatever sends fail in the middle of whatever handler, a client that is not condemned
\* has been told the state the server has it in.
THEOREM ClientsAlwaysInStep == Spec => []ClientInStep
<1>1. Init => ClientInStep
  BY DEF Init, ClientInStep
<1>2. QED
  BY <1>1, InitTypes, TypeStep, InitAgrees, AgreeStep, ClientInStepStep, PTL DEF Spec
=============================================================================
