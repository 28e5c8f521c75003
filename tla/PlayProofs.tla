----------------------------- MODULE PlayProofs -----------------------------
(***************************************************************************)
(* Theorems about Play, for any number of drivers, connections, cards,     *)
(* copies and rounds, and any number of faults.                            *)
(*                                                                         *)
(* The invariant is about the two streams of a connection.  A driver asks  *)
(* for something only when it is asked to (WELCOME, DRAFT_OFFER,           *)
(* MATCH_END), so at most one question or request is under way, behind it  *)
(* come nothing but rejections of late plays, and it fits the state of the *)
(* server's Conn (Talk).  In a match the rounds of the plays on their way  *)
(* up, followed by those of the ROUND_STARTs on their way down, increase   *)
(* to the round the match is in (Playing), and the play of that round is   *)
(* the one the driver last decided on (Told).                              *)
(***************************************************************************)
EXTENDS Play, FiniteSetTheorems, SequenceTheorems, WellFoundedInduction, TLAPS

Slots == (UNION Hands) \cup {Pass}
Plays == [match : Nat, round : Nat, slot : Slots]

\* The messages there are: no ERROR, no rejection but of a late play.
UpMsgs ==
    [type : {"QUEUE"}, same_deck : BOOLEAN]
      \cup [type : {"DRAFT_PICK"}, index : 1 .. 2, mult : Copies]
      \cup [type : {"DRAFT_RESUME"}, cards : LegalDecks]
      \cup [type : {"PLAY"}, match : Nat, round : Nat, slot : Slots]
DownMsgs ==
    [type : {"WELCOME"}]
      \cup [type : {"DRAFT_OFFER"}, offer : {<< >>} \cup Cards \X Cards, left : [Copies -> Nat]]
      \cup [type : {"DRAFT_DONE"}, deck_id : Nat, cards : Decks]
      \cup [type : {"MATCH_FOUND"}, match : Nat]
      \cup [type : {"ROUND_START"}, round : Nat, legal : Hands]
      \cup [type : {"PLAY_REJECT"}, match : Nat, round : Nat, reason : {"no match", "wrong round"}]
      \cup [type : {"MATCH_END"}, match : Nat, result : {"win", "loss", "draw"}]

States == {"FREE", "READY", "DRAFTING", "QUEUED", "IN_MATCH"}
DraftRecs == [pick_no : Nat, left : [Copies -> Nat], offer : {<< >>} \cup Cards \X Cards, deck : Decks]
ConnRecs == [state : States, mode : Modes \cup {None}, draft : DraftRecs \cup {None},
             deck : Decks \cup {None}, deck_id : Nat]
ClientRecs == [mode : Modes, phase : {"off", "on", "finished"}, at : Conns \cup {None}, match_id : Nat,
               done : Nat, decided : Plays \cup {None}]
MatchRecs == [id : Nat, conn : [1 .. 2 -> Conns], mode : Modes, round : Nat, legal : [1 .. 2 -> Hands],
              lock : [1 .. 2 -> Slots \cup {None}], deck : [1 .. 2 -> Decks \cup {None}], deck_id : [1 .. 2 -> Nat]]
DeckRecs == [id : Nat, deck : Decks]

StreamsOK ==
    /\ up \in [Conns -> Seq(UpMsgs)] /\ down \in [Conns -> Seq(DownMsgs)]
    /\ cut \in SUBSET Conns /\ closing = {}

RecordsOK ==
    /\ conn \in [Conns -> ConnRecs]
    /\ client \in [Clients -> ClientRecs]
    /\ matches \in SUBSET MatchRecs
    /\ next_match \in Nat /\ next_deck \in Nat
    /\ drafts \in SUBSET DeckRecs
    /\ games \in SUBSET DeckRecs

\* A connection and its driver belong together until one of them is gone.
DriversOK ==
    /\ \A p \in Clients : client[p].phase = "on" <=> client[p].at # None
    /\ \A p, q \in Clients : client[p].at # None /\ client[p].at = client[q].at => p = q
    /\ \A p \in Clients : client[p].at # None =>
         \/ client[p].at \in cut /\ conn[client[p].at].state = "FREE"
         \/ conn[client[p].at].state # "FREE" /\ conn[client[p].at].mode = client[p].mode

\* A Conn as its handlers leave it, with what is logged of decks.
ConnOK(cn, log) ==
    /\ cn.state # "FREE" => cn.mode \in Modes
    /\ cn.deck # None => DeckValid(cn.deck)
    /\ cn.deck # None /\ cn.mode = "draft" => [id |-> cn.deck_id, deck |-> cn.deck] \in log
    /\ cn.state = "DRAFTING" => cn.mode = "draft" /\ DraftOK(cn.draft) /\ ~DraftDone(cn.draft)
    /\ cn.state \in {"QUEUED", "IN_MATCH"} /\ cn.mode # "card" => cn.deck # None
ConnsOK == \A c \in Conns : ConnOK(conn[c], drafts) /\ (conn[c].state = "FREE" => up[c] = << >>)

\* A match has two connections that are in no other one.
MatchOK(m) ==
    /\ m.conn[1] # m.conn[2]
    /\ \A s \in 1 .. 2 : conn[m.conn[s]].state = "IN_MATCH"
    /\ m.mode = "draft" => \A s \in 1 .. 2 : [id |-> m.deck_id[s], deck |-> m.deck[s]] \in drafts
    /\ m.round \in 1 .. MaxRounds[m.mode]
    /\ None \in {m.lock[1], m.lock[2]}
MatchesOK ==
    /\ \A m \in matches : MatchOK(m)
    /\ \A m, n \in matches, s, t \in 1 .. 2 : m.conn[s] = n.conn[t] => m = n
    /\ \A c \in Conns : conn[c].state = "IN_MATCH" => \E m \in matches, s \in 1 .. 2 : m.conn[s] = c

-----------------------------------------------------------------------------
Request(x) == x.type # "PLAY"
RequestFits(cn, x) ==
    /\ x.type = "QUEUE" => cn.state = "READY" /\ (cn.mode = "constructed" => cn.deck # None)
    /\ x.type = "DRAFT_RESUME" => cn.state = "READY" /\ cn.mode = "constructed"
    /\ x.type = "DRAFT_PICK" => cn.state = "DRAFTING" /\ cn.draft.left[x.mult] > 0

Ask(mode, x) ==
    \/ x.type \in {"WELCOME", "DRAFT_OFFER", "MATCH_END"}
    \/ x.type = "DRAFT_DONE" /\ mode = "constructed"
AskFits(cn, x) ==
    /\ x.type \in {"WELCOME", "MATCH_END"} => cn.state = "READY"
    /\ x.type = "DRAFT_DONE" => cn.state = "READY" /\ cn.deck # None
    /\ x.type = "DRAFT_OFFER" => cn.state = "DRAFTING" /\ x.left = cn.draft.left

AllRejects(d) == \A j \in 1 .. Len(d) : d[j].type = "PLAY_REJECT"

Talk(cn, u, d) ==
    /\ \A i \in 1 .. Len(u) : Request(u[i]) => i = Len(u) /\ RequestFits(cn, u[i]) /\ AllRejects(d)
    /\ \A j \in 1 .. Len(d) : Ask(cn.mode, d[j]) =>
         AskFits(cn, d[j]) /\ \A k \in 1 .. Len(d) : j < k => d[k].type = "PLAY_REJECT"
    /\ cn.state = "QUEUED" => u = << >> /\ \A j \in 1 .. Len(d) : d[j].type \in {"PLAY_REJECT", "DRAFT_DONE"}

Starts(x) == x.type = "ROUND_START"

Playing(m, s, u, d) ==
    /\ \A i \in 1 .. Len(u) :
         /\ u[i].type = "PLAY" /\ u[i].match = m.id /\ u[i].round <= m.round
         /\ u[i].round = m.round => u[i].slot \in m.legal[s] \cup {Pass}
    /\ \A i, k \in 1 .. Len(u) : i < k => u[i].round < u[k].round
    /\ \A j \in 1 .. Len(d) : d[j].type = "MATCH_FOUND" => d[j].match = m.id
    /\ \A j \in 1 .. Len(d) : Starts(d[j]) =>
         /\ d[j].round <= m.round
         /\ d[j].round = m.round => d[j].legal = m.legal[s]
         /\ \A i \in 1 .. Len(u) : u[i].round < d[j].round
    /\ \A j, k \in 1 .. Len(d) : Starts(d[j]) /\ Starts(d[k]) /\ j < k => d[j].round < d[k].round
    /\ m.lock[s] # None => u = << >> /\ \A j \in 1 .. Len(d) : ~Starts(d[j])

Decision(m, slot) == [match |-> m.id, round |-> m.round, slot |-> slot]
Told(m, s, u, d, cl) ==
    /\ \A j \in 1 .. Len(d) : Starts(d[j]) =>
         cl.match_id = m.id \/ \E i \in 1 .. Len(d) : i < j /\ d[i].type = "MATCH_FOUND"
    /\ \A i \in 1 .. Len(u) : u[i].round = m.round => cl.decided = Decision(m, u[i].slot)
    /\ m.lock[s] # None => cl.decided = Decision(m, m.lock[s])

\* The driver of a connection that works knows which match it is in, or is about to.
Introduced(m, d, cl) == cl.match_id = m.id \/ \E i \in 1 .. Len(d) : d[i].type = "MATCH_FOUND"

\* The streams, with U for what is on its way up: a play is first taken out of it, and then handled.
Talks(U) == \A c \in Conns : conn[c].state # "FREE" => Talk(conn[c], U[c], down[c])
Playings(U) == \A m \in matches, s \in 1 .. 2 : Playing(m, s, U[m.conn[s]], down[m.conn[s]])
Tolds(U) == \A m \in matches, s \in 1 .. 2, p \in Clients :
    client[p].at = m.conn[s] =>
      /\ Told(m, s, U[m.conn[s]], down[m.conn[s]], client[p])
      /\ m.conn[s] \notin cut => Introduced(m, down[m.conn[s]], client[p])

\* decks.ndjson.
LogOK ==
    /\ \A r \in drafts : r.id < next_deck
    /\ \A r, q \in drafts : r.id = q.id => r = q
    /\ games \subseteq drafts

Inv == /\ StreamsOK /\ RecordsOK /\ DriversOK /\ ConnsOK /\ MatchesOK /\ LogOK
       /\ Talks(up) /\ Playings(up) /\ Tolds(up)

-----------------------------------------------------------------------------
(***************************************************************************)
(* Drafts.                                                                 *)
(***************************************************************************)

LEMMA PicksNat ==
    /\ Copies = {1, 2, 3} /\ Buckets[1] \in Nat /\ Buckets[2] \in Nat /\ Buckets[3] \in Nat
    /\ Picks \in Nat /\ Picks > 0
<1>1. Copies = {1, 2, 3}
  BY DEF Copies
<1>2. Buckets[1] \in Nat /\ Buckets[2] \in Nat /\ Buckets[3] \in Nat
  BY <1>1, BucketsOK
<1>3. QED
  BY <1>1, <1>2, CatalogOK DEF Picks

\* Sets of cards are finite, and one more card is one more.
LEMMA CardsCounted ==
    ASSUME NEW S \in SUBSET Cards
    PROVE  /\ IsFiniteSet(S) /\ Cardinality(S) \in Nat
           /\ \A x \in Cards \ S : Cardinality(S \cup {x}) = Cardinality(S) + 1
<1>1. IsFiniteSet(S)
  BY CatalogOK, FS_Subset
<1>2. QED
  BY <1>1, FS_CardinalityType, FS_AddElement

\* A draft begins with nothing taken.
LEMMA NewDraftOK ==
    ASSUME NEW d \in NewDrafts
    PROVE  DraftOK(d) /\ ~DraftDone(d) /\ d \in DraftRecs
<1>1. PICK o \in Offers(0, {}) :
        d = [pick_no |-> 0, left |-> Buckets, offer |-> o, deck |-> [c \in Cards |-> 0]]
  BY DEF NewDrafts
<1>2. d.pick_no = 0 /\ d.left = Buckets /\ d.offer = o /\ d.deck = [c \in Cards |-> 0]
  BY <1>1
<1>3. Taken(d.deck) = {} /\ \A k \in Copies : CardsWith(d.deck, k) = {}
  BY <1>2, PicksNat DEF Taken, CardsWith
<1>4. Cardinality({}) = 0
  BY FS_EmptySet
<1>5. o \in (Cards \ {}) \X (Cards \ {}) /\ o[1] # o[2] /\ Picks # 0
  BY PicksNat DEF Offers
<1>6. d.deck \in Decks
  BY <1>2 DEF Decks
<1>7. OfferOK(d)
  BY <1>2, <1>3, <1>5 DEF OfferOK
<1>8. \A k \in Copies : Cardinality(CardsWith(d.deck, k)) + d.left[k] = Buckets[k]
  BY <1>2, <1>3, <1>4, PicksNat
<1>9. d.pick_no + d.left[1] + d.left[2] + d.left[3] = Picks /\ d.pick_no \in 0 .. Picks
  BY <1>2, PicksNat DEF Picks
<1>10. DraftOK(d)
  BY <1>2, <1>3, <1>4, <1>6, <1>7, <1>8, <1>9, BucketsOK DEF DraftOK
<1>11. d \in DraftRecs
  BY <1>1, <1>2, <1>5, <1>6, BucketsOK DEF DraftRecs
<1>12. QED
  BY <1>2, <1>10, <1>11, PicksNat DEF DraftDone

\* A valid pick takes one more card, with one of the numbers of copies that are left.
LEMMA PickedOK ==
    ASSUME NEW d, DraftOK(d), NEW idx, NEW mult, PickValid(d, idx, mult), NEW e \in Picked(d, idx, mult)
    PROVE  DraftOK(e) /\ e \in DraftRecs
<1> DEFINE card == d.offer[idx]
           deck == [d.deck EXCEPT ![card] = mult]
           left == [d.left EXCEPT ![mult] = @ - 1]
<1>1. PICK o \in Offers(d.pick_no + 1, Taken(deck)) :
        e = [pick_no |-> d.pick_no + 1, left |-> left, offer |-> o, deck |-> deck]
  BY DEF Picked
<1>2. e.pick_no = d.pick_no + 1 /\ e.left = left /\ e.offer = o /\ e.deck = deck
  BY <1>1
<1>3. d.pick_no \in 0 .. Picks - 1 /\ mult \in {1, 2, 3} /\ d.left[mult] > 0 /\ idx \in {1, 2}
  BY PicksNat DEF DraftOK, PickValid
<1>4. d.left \in [Copies -> Nat] /\ d.deck \in [Cards -> 0 .. 3]
  BY DEF DraftOK, Decks
<1>5. card \in Cards /\ card \notin Taken(d.deck)
  BY <1>3, PicksNat DEF DraftOK, OfferOK
<1>6. d.deck[card] = 0
  BY <1>4, <1>5 DEF Taken
<1>7. /\ left \in [Copies -> Nat] /\ left[mult] = d.left[mult] - 1
      /\ \A k \in Copies : k # mult => left[k] = d.left[k]
  BY <1>3, <1>4, PicksNat
<1>8. deck \in [Cards -> 0 .. 3] /\ deck[card] = mult /\ \A c \in Cards : c # card => deck[c] = d.deck[c]
  BY <1>3, <1>4, <1>5
<1> HIDE DEF card, deck, left
<1>9. Taken(deck) = Taken(d.deck) \cup {card}
  BY <1>3, <1>4, <1>5, <1>6, <1>8 DEF Taken
<1>10. CardsWith(deck, mult) = CardsWith(d.deck, mult) \cup {card} /\ card \notin CardsWith(d.deck, mult)
  BY <1>3, <1>5, <1>6, <1>8 DEF CardsWith
<1>11. \A k \in Copies : k # mult => CardsWith(deck, k) = CardsWith(d.deck, k)
  BY <1>3, <1>5, <1>6, <1>8, PicksNat DEF CardsWith
<1>12. Taken(d.deck) \in SUBSET Cards /\ \A k \in Copies : CardsWith(d.deck, k) \in SUBSET Cards
  BY DEF Taken, CardsWith
<1>13. Cardinality(Taken(deck)) = d.pick_no + 1
  BY <1>5, <1>9, <1>12, CardsCounted DEF DraftOK
<1>14. /\ Cardinality(CardsWith(deck, mult)) = Cardinality(CardsWith(d.deck, mult)) + 1
       /\ Cardinality(CardsWith(d.deck, mult)) \in Nat
  BY <1>3, <1>5, <1>10, <1>12, CardsCounted, PicksNat
<1>15. ASSUME NEW k \in Copies
       PROVE  Cardinality(CardsWith(deck, k)) + left[k] = Buckets[k]
  <2>1. Cardinality(CardsWith(d.deck, k)) + d.left[k] = Buckets[k]
    BY DEF DraftOK
  <2>2. CASE k = mult
    BY <2>1, <2>2, <1>3, <1>4, <1>7, <1>14
  <2>3. CASE k # mult
    BY <2>1, <2>3, <1>7, <1>11
  <2>4. QED
    BY <2>2, <2>3
<1>16. d.pick_no + 1 + left[1] + left[2] + left[3] = Picks
  <2>1. d.pick_no + d.left[1] + d.left[2] + d.left[3] = Picks
    BY DEF DraftOK
  <2>2. d.left[1] \in Nat /\ d.left[2] \in Nat /\ d.left[3] \in Nat
    BY <1>4, PicksNat
  <2>3. CASE mult = 1
    <3>1. left[1] = d.left[1] - 1 /\ left[2] = d.left[2] /\ left[3] = d.left[3]
      BY <2>3, <1>7, PicksNat
    <3>2. QED
      BY <2>1, <2>2, <3>1, <1>3, PicksNat
  <2>4. CASE mult = 2
    <3>1. left[2] = d.left[2] - 1 /\ left[1] = d.left[1] /\ left[3] = d.left[3]
      BY <2>4, <1>7, PicksNat
    <3>2. QED
      BY <2>1, <2>2, <3>1, <1>3, PicksNat
  <2>5. CASE mult = 3
    <3>1. left[3] = d.left[3] - 1 /\ left[1] = d.left[1] /\ left[2] = d.left[2]
      BY <2>5, <1>7, PicksNat
    <3>2. QED
      BY <2>1, <2>2, <3>1, <1>3, PicksNat
  <2>6. QED
    BY <2>3, <2>4, <2>5, <1>3
<1>17. /\ d.pick_no + 1 = Picks => o = << >>
       /\ d.pick_no + 1 # Picks =>
            o \in (Cards \ Taken(deck)) \X (Cards \ Taken(deck)) /\ o[1] # o[2]
  BY <1>1, <1>3, PicksNat DEF Offers
<1>18. OfferOK(e)
  BY <1>2, <1>17 DEF OfferOK
<1>19. DraftOK(e)
  BY <1>2, <1>3, <1>7, <1>8, <1>13, <1>15, <1>16, <1>18, PicksNat DEF DraftOK, Decks
<1>20. e \in DraftRecs
  BY <1>1, <1>3, <1>7, <1>8, <1>17, PicksNat DEF DraftRecs, Decks
<1>21. QED
  BY <1>19, <1>20

\* The deck of a draft that is done is one the server would take from anybody.
LEMMA DoneIsValid ==
    ASSUME NEW d, DraftOK(d), DraftDone(d)
    PROVE  DeckValid(d.deck) /\ d.deck \in Decks
<1>1. d.pick_no = Picks /\ d.pick_no + d.left[1] + d.left[2] + d.left[3] = Picks
  BY PicksNat DEF DraftOK, DraftDone
<1>2. d.left[1] \in Nat /\ d.left[2] \in Nat /\ d.left[3] \in Nat
  BY PicksNat DEF DraftOK
<1>3. d.left[1] = 0 /\ d.left[2] = 0 /\ d.left[3] = 0
  BY <1>1, <1>2, PicksNat
<1>4. ASSUME NEW k \in Copies
      PROVE  Cardinality(CardsWith(d.deck, k)) = Buckets[k]
  <2>1. CardsWith(d.deck, k) \in SUBSET Cards
    BY DEF CardsWith
  <2>2. Cardinality(CardsWith(d.deck, k)) \in Nat
    BY <2>1, CardsCounted
  <2>3. d.left[k] = 0
    BY <1>3, PicksNat
  <2>4. QED
    BY <2>2, <2>3 DEF DraftOK
<1>5. QED
  BY <1>4 DEF DeckValid, DraftOK

-----------------------------------------------------------------------------
(***************************************************************************)
(* Streams: the first message is read, one more is sent.                   *)
(***************************************************************************)

LEMMA Popped ==
    ASSUME NEW S, NEW q \in Seq(S), q # << >>
    PROVE  /\ Len(q) \in Nat /\ Len(q) >= 1 /\ 1 \in 1 .. Len(q) /\ Head(q) = q[1] /\ q[1] \in S
           /\ Tail(q) \in Seq(S) /\ Len(Tail(q)) = Len(q) - 1
           /\ \A i \in 1 .. Len(Tail(q)) : i + 1 \in 1 .. Len(q) /\ Tail(q)[i] = q[i + 1]
<1>1. Len(q) \in Nat /\ Len(q) # 0
  BY EmptySeq, LenProperties
<1>2. Tail(q) \in Seq(S) /\ Len(Tail(q)) = Len(q) - 1
  BY HeadTailProperties
<1>3. \A i \in 1 .. Len(Tail(q)) : Tail(q)[i] = q[i + 1]
  BY HeadTailProperties
<1>4. Head(q) = q[1] /\ 1 \in 1 .. Len(q)
  BY <1>1
<1>5. q[1] \in S
  BY <1>4, ElementOfSeq
<1>6. QED
  BY <1>1, <1>2, <1>3, <1>4, <1>5

LEMMA Added ==
    ASSUME NEW S, NEW q \in Seq(S), NEW x \in S
    PROVE  /\ q \o <<x>> \in Seq(S) /\ Append(q, x) = q \o <<x>>
           /\ Len(q) \in Nat /\ Len(q \o <<x>>) = Len(q) + 1
           /\ \A i \in 1 .. Len(q) : (q \o <<x>>)[i] = q[i]
           /\ (q \o <<x>>)[Len(q) + 1] = x
<1>1. <<x>> \in Seq(S) /\ Len(<<x>>) = 1 /\ <<x>>[1] = x
  OBVIOUS
<1>2. Len(q) \in Nat
  BY LenProperties
<1>3. /\ q \o <<x>> \in Seq(S) /\ Len(q \o <<x>>) = Len(q) + 1
      /\ \A i \in 1 .. Len(q) + 1 : (q \o <<x>>)[i] = IF i <= Len(q) THEN q[i] ELSE <<x>>[i - Len(q)]
  BY <1>1, ConcatProperties
<1>4. Append(q, x) = q \o <<x>>
  <2>1. Append(q, x) \in Seq(S) /\ Len(Append(q, x)) = Len(q) + 1
    OBVIOUS
  <2>2. \A i \in 1 .. Len(q) + 1 : Append(q, x)[i] = (q \o <<x>>)[i]
    BY <1>1, <1>2, <1>3
  <2>3. QED
    BY <2>1, <2>2, <1>3, SeqEqual
<1>5. \A i \in 1 .. Len(q) : (q \o <<x>>)[i] = q[i]
  BY <1>2, <1>3
<1>6. (q \o <<x>>)[Len(q) + 1] = x
  BY <1>1, <1>2, <1>3
<1>7. QED
  BY <1>2, <1>3, <1>4, <1>5, <1>6

\* The empty stream.
LEMMA NoMessages ==
    ASSUME NEW S
    PROVE  << >> \in Seq(S) /\ Len(<< >>) = 0 /\ \A i \in 1 .. Len(<< >>) : FALSE
OBVIOUS

LEMMA Regroup ==
    \A s, t, v \in Seq(DownMsgs) : s \o (t \o v) = (s \o t) \o v
BY ConcatAssociative

\* What messages hold.
LEMMA UpCases ==
    ASSUME NEW x \in UpMsgs
    PROVE  /\ x.type \in {"QUEUE", "DRAFT_PICK", "DRAFT_RESUME", "PLAY"}
           /\ x.type = "DRAFT_PICK" => x.index \in 1 .. 2 /\ x.mult \in Copies
           /\ x.type = "DRAFT_RESUME" => x.cards \in LegalDecks
           /\ x.type = "PLAY" => x.match \in Nat /\ x.round \in Nat /\ x.slot \in Slots
BY DEF UpMsgs

LEMMA DownCases ==
    ASSUME NEW x \in DownMsgs
    PROVE  /\ x.type \in {"WELCOME", "DRAFT_OFFER", "DRAFT_DONE", "MATCH_FOUND", "ROUND_START", "PLAY_REJECT",
                          "MATCH_END"}
           /\ x.type = "DRAFT_OFFER" => x.left \in [Copies -> Nat]
           /\ x.type = "MATCH_FOUND" => x.match \in Nat
           /\ x.type = "ROUND_START" => x.round \in Nat /\ x.legal \in Hands
           /\ x.type = "PLAY_REJECT" => x.reason \in {"no match", "wrong round"}
BY DEF DownMsgs

-----------------------------------------------------------------------------
(***************************************************************************)
(* What a connection is asked and asks for.                                *)
(***************************************************************************)

\* No question and no request is under way.
Quiet(cn, u, d) ==
    /\ \A i \in 1 .. Len(u) : ~Request(u[i])
    /\ \A j \in 1 .. Len(d) : ~Ask(cn.mode, d[j])

\* Nobody is asked anything while he waits or plays.
LEMMA QuietWhenWaiting ==
    ASSUME NEW cn, NEW u \in Seq(UpMsgs), NEW d \in Seq(DownMsgs), Talk(cn, u, d), cn.state \in {"QUEUED", "IN_MATCH"}
    PROVE  Quiet(cn, u, d)
<1>1. ASSUME NEW i \in 1 .. Len(u)
      PROVE  ~Request(u[i])
  <2>1. u[i] \in UpMsgs
    BY ElementOfSeq
  <2>2. QED
    BY <2>1, UpCases DEF Talk, RequestFits, Request
<1>2. ASSUME NEW j \in 1 .. Len(d)
      PROVE  ~Ask(cn.mode, d[j])
  BY DEF Talk, AskFits, Ask
<1>3. QED
  BY <1>1, <1>2 DEF Quiet

LEMMA QuietTalk ==
    ASSUME NEW cn, NEW u, NEW d, Quiet(cn, u, d), cn.state # "QUEUED"
    PROVE  Talk(cn, u, d)
BY DEF Talk, Quiet

LEMMA RejectsQuiet ==
    ASSUME NEW cn, NEW d, AllRejects(d)
    PROVE  Quiet(cn, << >>, d) /\ Talk(cn, << >>, d)
<1>1. Quiet(cn, << >>, d)
  BY NoMessages DEF Quiet, AllRejects, Ask
<1>2. Talk(cn, << >>, d)
  BY NoMessages DEF Talk, AllRejects, Ask
<1>3. QED
  BY <1>1, <1>2

\* The mode decides what is a question.
LEMMA QuietMode ==
    ASSUME NEW cn, NEW en, NEW u, NEW d, Quiet(cn, u, d), en.mode = cn.mode
    PROVE  Quiet(en, u, d)
BY DEF Quiet

\* The server takes a request: it was the only one, and the driver waits for an answer.
LEMMA TakesRequest ==
    ASSUME NEW cn, NEW u \in Seq(UpMsgs), NEW d \in Seq(DownMsgs), Talk(cn, u, d), u # << >>, Request(u[1])
    PROVE  Tail(u) = << >> /\ AllRejects(d) /\ RequestFits(cn, u[1])
<1>1. 1 = Len(u) /\ AllRejects(d) /\ RequestFits(cn, u[1])
  BY Popped DEF Talk
<1>2. Tail(u) \in Seq(UpMsgs) /\ Len(Tail(u)) = 0
  BY <1>1, Popped
<1>3. QED
  BY <1>1, <1>2, EmptySeq

\* The server takes a play, and nothing else changes.
LEMMA TakesPlay ==
    ASSUME NEW cn, NEW u \in Seq(UpMsgs), NEW d \in Seq(DownMsgs), Talk(cn, u, d), u # << >>, u[1].type = "PLAY"
    PROVE  Talk(cn, Tail(u), d)
<1> DEFINE v == Tail(u)
<1>1. /\ Len(u) \in Nat /\ Len(v) = Len(u) - 1
      /\ \A i \in 1 .. Len(v) : i + 1 \in 1 .. Len(u) /\ v[i] = u[i + 1]
  BY Popped
<1> HIDE DEF v
<1>2. ASSUME NEW i \in 1 .. Len(v), Request(v[i])
      PROVE  i = Len(v) /\ RequestFits(cn, v[i]) /\ AllRejects(d)
  <2>1. i + 1 \in 1 .. Len(u) /\ v[i] = u[i + 1] /\ Request(u[i + 1])
    BY <1>1, <1>2
  <2>2. i + 1 = Len(u) /\ RequestFits(cn, u[i + 1]) /\ AllRejects(d)
    BY <2>1 DEF Talk
  <2>3. QED
    BY <1>1, <2>1, <2>2
<1>3. cn.state # "QUEUED"
  BY DEF Talk
<1>4. Talk(cn, v, d)
  BY <1>2, <1>3 DEF Talk
<1>5. QED
  BY <1>4 DEF v

\* The server says something that is no question.
LEMMA Tells ==
    ASSUME NEW cn, NEW u \in Seq(UpMsgs), NEW d \in Seq(DownMsgs), Talk(cn, u, d), NEW x \in DownMsgs,
           \/ x.type = "PLAY_REJECT"
           \/ Quiet(cn, u, d) /\ ~Ask(cn.mode, x) /\ (cn.state = "QUEUED" => x.type = "DRAFT_DONE")
    PROVE  Talk(cn, u, d \o <<x>>)
<1> DEFINE e == d \o <<x>>
<1>1. /\ Len(d) \in Nat /\ Len(e) = Len(d) + 1 /\ e[Len(d) + 1] = x
      /\ \A i \in 1 .. Len(d) : e[i] = d[i]
  BY Added
<1> HIDE DEF e
<1>2. \A j \in 1 .. Len(e) : j = Len(d) + 1 \/ j \in 1 .. Len(d)
  BY <1>1
<1>3. ASSUME NEW i \in 1 .. Len(u), Request(u[i])
      PROVE  i = Len(u) /\ RequestFits(cn, u[i]) /\ AllRejects(e)
  <2>1. i = Len(u) /\ RequestFits(cn, u[i]) /\ AllRejects(d)
    BY <1>3 DEF Talk
  <2>2. x.type = "PLAY_REJECT"
    BY <1>3 DEF Quiet
  <2>3. AllRejects(e)
    BY <1>1, <1>2, <2>1, <2>2 DEF AllRejects
  <2>4. QED
    BY <2>1, <2>3
<1>4. ASSUME NEW j \in 1 .. Len(e), Ask(cn.mode, e[j])
      PROVE  AskFits(cn, e[j]) /\ \A k \in 1 .. Len(e) : j < k => e[k].type = "PLAY_REJECT"
  <2>1. j \in 1 .. Len(d) /\ e[j] = d[j] /\ x.type = "PLAY_REJECT"
    <3>1. ~Ask(cn.mode, x)
      BY DEF Ask
    <3>2. j \in 1 .. Len(d)
      BY <1>1, <1>2, <1>4, <3>1
    <3>3. QED
      BY <1>1, <1>4, <3>2 DEF Quiet
  <2>2. AskFits(cn, d[j]) /\ \A k \in 1 .. Len(d) : j < k => d[k].type = "PLAY_REJECT"
    BY <1>4, <2>1 DEF Talk
  <2>3. QED
    BY <1>1, <1>2, <2>1, <2>2
<1>5. cn.state = "QUEUED" => u = << >> /\ \A j \in 1 .. Len(e) : e[j].type \in {"PLAY_REJECT", "DRAFT_DONE"}
  BY <1>1, <1>2 DEF Talk
<1>6. Talk(cn, u, e)
  BY <1>3, <1>4, <1>5 DEF Talk
<1>7. QED
  BY <1>6 DEF e

\* The server asks, when nothing else is asked.
LEMMA Asks ==
    ASSUME NEW cn, NEW u \in Seq(UpMsgs), NEW d \in Seq(DownMsgs), Quiet(cn, u, d), NEW x \in DownMsgs,
           AskFits(cn, x), cn.state # "QUEUED"
    PROVE  Talk(cn, u, d \o <<x>>)
<1> DEFINE e == d \o <<x>>
<1>1. /\ Len(d) \in Nat /\ Len(e) = Len(d) + 1 /\ e[Len(d) + 1] = x
      /\ \A i \in 1 .. Len(d) : e[i] = d[i]
  BY Added
<1> HIDE DEF e
<1>2. \A j \in 1 .. Len(e) : j = Len(d) + 1 \/ j \in 1 .. Len(d)
  BY <1>1
<1>3. ASSUME NEW j \in 1 .. Len(e), Ask(cn.mode, e[j])
      PROVE  AskFits(cn, e[j]) /\ \A k \in 1 .. Len(e) : j < k => e[k].type = "PLAY_REJECT"
  <2>1. j = Len(d) + 1
    BY <1>1, <1>2, <1>3 DEF Quiet
  <2>2. QED
    BY <1>1, <2>1
<1>4. Talk(cn, u, e)
  BY <1>3 DEF Talk, Quiet
<1>5. QED
  BY <1>4 DEF e

\* The driver reads a question: no request is under way, and what follows is rejections.
LEMMA ReadsAsk ==
    ASSUME NEW cn, NEW u \in Seq(UpMsgs), NEW d \in Seq(DownMsgs), Talk(cn, u, d), d # << >>, Ask(cn.mode, d[1])
    PROVE  AllRejects(Tail(d)) /\ AskFits(cn, d[1]) /\ \A i \in 1 .. Len(u) : ~Request(u[i])
<1>1. 1 \in 1 .. Len(d) /\ Len(d) \in Nat /\ Tail(d) \in Seq(DownMsgs) /\ Len(Tail(d)) = Len(d) - 1
      /\ \A i \in 1 .. Len(Tail(d)) : i + 1 \in 1 .. Len(d) /\ Tail(d)[i] = d[i + 1]
  BY Popped
<1>2. AskFits(cn, d[1]) /\ \A k \in 1 .. Len(d) : 1 < k => d[k].type = "PLAY_REJECT"
  BY <1>1 DEF Talk
<1>3. AllRejects(Tail(d))
  <2>1. ASSUME NEW i \in 1 .. Len(Tail(d))
        PROVE  Tail(d)[i].type = "PLAY_REJECT"
    BY <1>1, <1>2
  <2>2. QED
    BY <2>1 DEF AllRejects
<1>4. ~AllRejects(d)
  BY <1>1 DEF AllRejects, Ask
<1>5. QED
  BY <1>2, <1>3, <1>4 DEF Talk

\* It reads anything, and says nothing.
LEMMA Reads ==
    ASSUME NEW cn, NEW u \in Seq(UpMsgs), NEW d \in Seq(DownMsgs), Talk(cn, u, d), d # << >>
    PROVE  Talk(cn, u, Tail(d))
<1>1. Len(d) \in Nat /\ Tail(d) \in Seq(DownMsgs) /\ Len(Tail(d)) = Len(d) - 1
      /\ \A i \in 1 .. Len(Tail(d)) : i + 1 \in 1 .. Len(d) /\ Tail(d)[i] = d[i + 1]
  BY Popped
<1>2. AllRejects(d) => AllRejects(Tail(d))
  BY <1>1 DEF AllRejects
<1>3. ASSUME NEW j \in 1 .. Len(Tail(d)), Ask(cn.mode, Tail(d)[j])
      PROVE  AskFits(cn, Tail(d)[j]) /\ \A k \in 1 .. Len(Tail(d)) : j < k => Tail(d)[k].type = "PLAY_REJECT"
  <2>1. j + 1 \in 1 .. Len(d) /\ Tail(d)[j] = d[j + 1]
    BY <1>1
  <2>2. AskFits(cn, d[j + 1]) /\ \A k \in 1 .. Len(d) : j + 1 < k => d[k].type = "PLAY_REJECT"
    BY <1>3, <2>1 DEF Talk
  <2>3. ASSUME NEW k \in 1 .. Len(Tail(d)), j < k
        PROVE  Tail(d)[k].type = "PLAY_REJECT"
    <3>1. k + 1 \in 1 .. Len(d) /\ Tail(d)[k] = d[k + 1] /\ j + 1 < k + 1
      BY <1>1, <2>3
    <3>2. QED
      BY <2>2, <3>1
  <2>4. QED
    BY <2>1, <2>2, <2>3
<1>4. cn.state = "QUEUED" =>
        u = << >> /\ \A j \in 1 .. Len(Tail(d)) : Tail(d)[j].type \in {"PLAY_REJECT", "DRAFT_DONE"}
  BY <1>1 DEF Talk
<1>5. QED
  BY <1>2, <1>3, <1>4 DEF Talk

\* It sends a request when it was asked, and a play at the start of a round.
LEMMA Sends ==
    ASSUME NEW cn, NEW u \in Seq(UpMsgs), NEW d \in Seq(DownMsgs), NEW x \in UpMsgs, cn.state # "QUEUED",
           \A i \in 1 .. Len(u) : ~Request(u[i]), Talk(cn, u, d),
           Request(x) => RequestFits(cn, x) /\ AllRejects(d)
    PROVE  Talk(cn, Append(u, x), d)
<1> DEFINE v == Append(u, x)
<1>1. /\ Len(u) \in Nat /\ Len(v) = Len(u) + 1 /\ v[Len(u) + 1] = x
      /\ \A i \in 1 .. Len(u) : v[i] = u[i]
  BY Added
<1> HIDE DEF v
<1>2. ASSUME NEW i \in 1 .. Len(v), Request(v[i])
      PROVE  i = Len(v) /\ RequestFits(cn, v[i]) /\ AllRejects(d)
  <2>1. i = Len(u) + 1
    BY <1>1, <1>2
  <2>2. QED
    BY <1>1, <1>2, <2>1
<1>3. Talk(cn, v, d)
  BY <1>2 DEF Talk
<1>4. QED
  BY <1>3 DEF v

-----------------------------------------------------------------------------
(***************************************************************************)
(* The rounds of a match in the streams of a seat.                         *)
(***************************************************************************)

\* A match begins with empty streams but for old answers.
LEMMA MatchBegins ==
    ASSUME NEW m, NEW s, NEW d \in Seq(DownMsgs), m.lock[s] = None,
           \A j \in 1 .. Len(d) : d[j].type \in {"PLAY_REJECT", "DRAFT_DONE"}
    PROVE  Playing(m, s, << >>, d) /\ \A cl : Told(m, s, << >>, d, cl)
<1>1. Playing(m, s, << >>, d)
  BY NoMessages DEF Playing, Starts
<1>2. \A cl : Told(m, s, << >>, d, cl)
  BY NoMessages DEF Told, Starts
<1>3. QED
  BY <1>1, <1>2

\* Any message but ROUND_START.
LEMMA PlayTells ==
    ASSUME NEW m, NEW s, NEW u \in Seq(UpMsgs), NEW d \in Seq(DownMsgs), Playing(m, s, u, d),
           NEW x \in DownMsgs, ~Starts(x), x.type = "MATCH_FOUND" => x.match = m.id
    PROVE  /\ Playing(m, s, u, d \o <<x>>)
           /\ \A cl : Told(m, s, u, d, cl) => Told(m, s, u, d \o <<x>>, cl)
           /\ \A cl : Introduced(m, d, cl) \/ x.type = "MATCH_FOUND" => Introduced(m, d \o <<x>>, cl)
<1> DEFINE e == d \o <<x>>
<1>1. /\ Len(d) \in Nat /\ Len(e) = Len(d) + 1 /\ e[Len(d) + 1] = x
      /\ \A i \in 1 .. Len(d) : e[i] = d[i]
  BY Added
<1> HIDE DEF e
<1>2. \A j \in 1 .. Len(e) : j = Len(d) + 1 \/ j \in 1 .. Len(d)
  BY <1>1
<1>3. \A j \in 1 .. Len(d) : j \in 1 .. Len(e)
  BY <1>1
<1>4. \A j \in 1 .. Len(e) : Starts(e[j]) => j \in 1 .. Len(d) /\ e[j] = d[j]
  BY <1>1, <1>2
<1>5. \A j \in 1 .. Len(e) : e[j].type = "MATCH_FOUND" => e[j].match = m.id
  BY <1>1, <1>2 DEF Playing
<1>6. \A j \in 1 .. Len(e) : Starts(e[j]) =>
         /\ e[j].round <= m.round
         /\ e[j].round = m.round => e[j].legal = m.legal[s]
         /\ \A i \in 1 .. Len(u) : u[i].round < e[j].round
  BY <1>4 DEF Playing
<1>7. \A j, k \in 1 .. Len(e) : Starts(e[j]) /\ Starts(e[k]) /\ j < k => e[j].round < e[k].round
  <2>1. ASSUME NEW j \in 1 .. Len(e), NEW k \in 1 .. Len(e), Starts(e[j]), Starts(e[k]), j < k
        PROVE  e[j].round < e[k].round
    <3>1. j \in 1 .. Len(d) /\ e[j] = d[j] /\ k \in 1 .. Len(d) /\ e[k] = d[k]
      BY <2>1, <1>4
    <3>2. QED
      BY <2>1, <3>1 DEF Playing
  <2>2. QED
    BY <2>1
<1>8. m.lock[s] # None => u = << >> /\ \A j \in 1 .. Len(e) : ~Starts(e[j])
  BY <1>4 DEF Playing
<1>9. Playing(m, s, u, e)
  BY <1>5, <1>6, <1>7, <1>8 DEF Playing
<1>10. ASSUME NEW cl, Told(m, s, u, d, cl)
       PROVE  Told(m, s, u, e, cl)
  <2>1. ASSUME NEW j \in 1 .. Len(e), Starts(e[j])
        PROVE  cl.match_id = m.id \/ \E i \in 1 .. Len(e) : i < j /\ e[i].type = "MATCH_FOUND"
    <3>1. j \in 1 .. Len(d) /\ e[j] = d[j]
      BY <1>4, <2>1
    <3>2. cl.match_id = m.id \/ \E i \in 1 .. Len(d) : i < j /\ d[i].type = "MATCH_FOUND"
      BY <1>10, <2>1, <3>1 DEF Told
    <3>3. QED
      BY <1>1, <1>3, <3>2
  <2>2. QED
    BY <1>10, <2>1 DEF Told
<1>11. ASSUME NEW cl, Introduced(m, d, cl) \/ x.type = "MATCH_FOUND"
       PROVE  Introduced(m, e, cl)
  <2>1. Len(d) + 1 \in 1 .. Len(e)
    BY <1>1
  <2>2. QED
    BY <1>1, <1>3, <1>11, <2>1 DEF Introduced
<1>12. QED
  BY <1>9, <1>10, <1>11 DEF e

\* A ROUND_START later than all plays and starts before it.
LEMMA PlayStarts ==
    ASSUME NEW m, NEW s, NEW u \in Seq(UpMsgs), NEW d \in Seq(DownMsgs), Playing(m, s, u, d), m.lock[s] = None,
           m.round \in Nat, NEW x \in DownMsgs, x.type = "ROUND_START", x.round = m.round, x.legal = m.legal[s],
           \A i \in 1 .. Len(u) : u[i].round < m.round,
           \A j \in 1 .. Len(d) : Starts(d[j]) => d[j].round < m.round
    PROVE  /\ Playing(m, s, u, d \o <<x>>)
           /\ \A cl : Told(m, s, u, d, cl) /\ Introduced(m, d, cl) =>
                Told(m, s, u, d \o <<x>>, cl) /\ Introduced(m, d \o <<x>>, cl)
<1> DEFINE e == d \o <<x>>
<1>1. /\ Len(d) \in Nat /\ Len(e) = Len(d) + 1 /\ e[Len(d) + 1] = x
      /\ \A i \in 1 .. Len(d) : e[i] = d[i]
  BY Added
<1> HIDE DEF e
<1>2. \A j \in 1 .. Len(e) : j = Len(d) + 1 \/ j \in 1 .. Len(d)
  BY <1>1
<1>3. \A j \in 1 .. Len(d) : j \in 1 .. Len(e)
  BY <1>1
<1>4. \A j \in 1 .. Len(e) : e[j].type = "MATCH_FOUND" => e[j].match = m.id
  BY <1>1, <1>2 DEF Playing
<1>5. ASSUME NEW j \in 1 .. Len(e), Starts(e[j])
      PROVE  /\ e[j].round <= m.round
             /\ e[j].round = m.round => e[j].legal = m.legal[s]
             /\ \A i \in 1 .. Len(u) : u[i].round < e[j].round
  <2>1. CASE j = Len(d) + 1
    BY <1>1, <2>1
  <2>2. CASE j \in 1 .. Len(d)
    BY <1>1, <1>5, <2>2 DEF Playing
  <2>3. QED
    BY <1>2, <2>1, <2>2
<1>6. ASSUME NEW j \in 1 .. Len(e), NEW k \in 1 .. Len(e), Starts(e[j]), Starts(e[k]), j < k
      PROVE  e[j].round < e[k].round
  <2>1. j \in 1 .. Len(d) /\ e[j] = d[j]
    BY <1>1, <1>6
  <2>2. CASE k = Len(d) + 1
    BY <1>1, <1>6, <2>1, <2>2
  <2>3. CASE k \in 1 .. Len(d)
    BY <1>1, <1>6, <2>1, <2>3 DEF Playing
  <2>4. QED
    BY <1>2, <2>2, <2>3
<1>7. Playing(m, s, u, e)
  BY <1>4, <1>5, <1>6 DEF Playing
<1>8. ASSUME NEW cl, Told(m, s, u, d, cl), Introduced(m, d, cl)
      PROVE  Told(m, s, u, e, cl) /\ Introduced(m, e, cl)
  <2>1. ASSUME NEW j \in 1 .. Len(e), Starts(e[j])
        PROVE  cl.match_id = m.id \/ \E i \in 1 .. Len(e) : i < j /\ e[i].type = "MATCH_FOUND"
    <3>1. CASE j = Len(d) + 1
      <4>1. \A i \in 1 .. Len(d) : i < j
        BY <1>1, <3>1
      <4>2. QED
        BY <1>1, <1>3, <1>8, <4>1 DEF Introduced
    <3>2. CASE j \in 1 .. Len(d)
      <4>1. cl.match_id = m.id \/ \E i \in 1 .. Len(d) : i < j /\ d[i].type = "MATCH_FOUND"
        BY <1>1, <1>8, <2>1, <3>2 DEF Told
      <4>2. QED
        BY <1>1, <1>3, <4>1
    <3>3. QED
      BY <1>2, <3>1, <3>2
  <2>2. Told(m, s, u, e, cl)
    BY <1>8, <2>1 DEF Told
  <2>3. Introduced(m, e, cl)
    BY <1>1, <1>3, <1>8 DEF Introduced
  <2>4. QED
    BY <2>2, <2>3
<1>9. QED
  BY <1>7, <1>8 DEF e

\* The next round: whatever is on its way is for an earlier one.
LEMMA NextRoundComes ==
    ASSUME NEW m, NEW n, NEW s, NEW u \in Seq(UpMsgs), NEW d \in Seq(DownMsgs), Playing(m, s, u, d),
           m.round \in Nat, n.id = m.id, n.round = m.round + 1, n.lock[s] = None
    PROVE  /\ Playing(n, s, u, d)
           /\ \A cl : Told(m, s, u, d, cl) => Told(n, s, u, d, cl)
           /\ \A cl : Introduced(m, d, cl) => Introduced(n, d, cl)
           /\ \A i \in 1 .. Len(u) : u[i].round < n.round
           /\ \A j \in 1 .. Len(d) : Starts(d[j]) => d[j].round < n.round
<1>1. ASSUME NEW i \in 1 .. Len(u)
      PROVE  u[i].round < n.round /\ u[i].round <= n.round /\ u[i].round # n.round
  <2>1. u[i].round \in Nat /\ u[i].round <= m.round
    BY ElementOfSeq, UpCases DEF Playing
  <2>2. QED
    BY <2>1
<1>2. ASSUME NEW j \in 1 .. Len(d), Starts(d[j])
      PROVE  d[j].round < n.round /\ d[j].round <= n.round /\ d[j].round # n.round
  <2>1. d[j].round \in Nat /\ d[j].round <= m.round
    BY <1>2, ElementOfSeq, DownCases DEF Playing, Starts
  <2>2. QED
    BY <2>1
<1>3. Playing(n, s, u, d)
  BY <1>1, <1>2 DEF Playing
<1>4. \A cl : Told(m, s, u, d, cl) => Told(n, s, u, d, cl)
  BY <1>1 DEF Told
<1>5. QED
  BY <1>1, <1>2, <1>3, <1>4 DEF Introduced

\* The server takes a play, and nothing else changes.
LEMMA PlayTaken ==
    ASSUME NEW m, NEW s, NEW u \in Seq(UpMsgs), NEW d \in Seq(DownMsgs), Playing(m, s, u, d), u # << >>
    PROVE  /\ Playing(m, s, Tail(u), d) /\ m.lock[s] = None
           /\ \A cl : Told(m, s, u, d, cl) => Told(m, s, Tail(u), d, cl)
<1> DEFINE v == Tail(u)
<1>1. /\ Len(u) \in Nat /\ Len(v) = Len(u) - 1
      /\ \A i \in 1 .. Len(v) : i + 1 \in 1 .. Len(u) /\ v[i] = u[i + 1]
  BY Popped
<1> HIDE DEF v
<1>2. m.lock[s] = None
  BY DEF Playing
<1>3. ASSUME NEW i \in 1 .. Len(v), NEW k \in 1 .. Len(v), i < k
      PROVE  v[i].round < v[k].round
  <2>1. i + 1 < k + 1
    BY <1>3
  <2>2. QED
    BY <1>1, <2>1 DEF Playing
<1>4. /\ \A i \in 1 .. Len(v) :
           /\ v[i].type = "PLAY" /\ v[i].match = m.id /\ v[i].round <= m.round
           /\ v[i].round = m.round => v[i].slot \in m.legal[s] \cup {Pass}
      /\ \A j \in 1 .. Len(d) : Starts(d[j]) => \A i \in 1 .. Len(v) : v[i].round < d[j].round
  BY <1>1 DEF Playing
<1>5. Playing(m, s, v, d)
  BY <1>2, <1>3, <1>4 DEF Playing
<1>6. \A cl : Told(m, s, u, d, cl) => Told(m, s, v, d, cl)
  BY <1>1, <1>2 DEF Told
<1>7. QED
  BY <1>2, <1>5, <1>6 DEF v

\* A play of the round the match is in is the last thing on its way in either direction.
LEMMA PlayIsLast ==
    ASSUME NEW m, NEW s, NEW u \in Seq(UpMsgs), NEW d \in Seq(DownMsgs), Playing(m, s, u, d), u # << >>,
           m.round \in Nat, u[1].round = m.round
    PROVE  Tail(u) = << >> /\ \A j \in 1 .. Len(d) : ~Starts(d[j])
<1>1. Len(u) \in Nat /\ Len(u) >= 1 /\ 1 \in 1 .. Len(u) /\ Tail(u) \in Seq(UpMsgs)
  BY Popped
<1>2. Len(u) = 1
  <2>1. ASSUME Len(u) >= 2
        PROVE  FALSE
    <3>1. 2 \in 1 .. Len(u) /\ 1 < 2
      BY <1>1, <2>1
    <3>2. u[1].round < u[2].round /\ u[2].round <= m.round /\ u[2] \in UpMsgs /\ u[2].type = "PLAY"
      BY <1>1, <3>1, ElementOfSeq DEF Playing
    <3>3. u[2].round \in Nat
      BY <3>2, UpCases
    <3>4. QED
      BY <3>2, <3>3
  <2> DEFINE n == Len(u)
  <2>2. n \in Nat /\ n >= 1 /\ ~(n >= 2)
    BY <1>1, <2>1
  <2> HIDE DEF n
  <2>3. n = 1
    BY <2>2
  <2>4. QED
    BY <2>3 DEF n
<1>3. Len(Tail(u)) = 0
  BY <1>1, <1>2, Popped
<1>4. Tail(u) = << >>
  BY <1>1, <1>3, EmptySeq
<1>5. ASSUME NEW j \in 1 .. Len(d), Starts(d[j])
      PROVE  FALSE
  <2>1. u[1].round < d[j].round /\ d[j].round <= m.round
    BY <1>1, <1>5 DEF Playing
  <2>2. d[j].round \in Nat
    BY <1>5, ElementOfSeq, DownCases DEF Starts
  <2>3. QED
    BY <2>1, <2>2
<1>6. QED
  BY <1>4, <1>5

\* The driver reads anything but a ROUND_START.
LEMMA PlayReads ==
    ASSUME NEW m, NEW s, NEW u \in Seq(UpMsgs), NEW d \in Seq(DownMsgs), Playing(m, s, u, d), d # << >>
    PROVE  /\ Playing(m, s, u, Tail(d))
           /\ \A cl, dl :
                /\ Told(m, s, u, d, cl) /\ ~Starts(d[1]) /\ dl.decided = cl.decided
                /\ d[1].type = "MATCH_FOUND" => dl.match_id = d[1].match
                /\ d[1].type # "MATCH_FOUND" => dl.match_id = cl.match_id
                => /\ Told(m, s, u, Tail(d), dl)
                   /\ Introduced(m, d, cl) => Introduced(m, Tail(d), dl)
<1> DEFINE e == Tail(d)
<1>1. /\ Len(d) \in Nat /\ Len(e) = Len(d) - 1 /\ 1 \in 1 .. Len(d)
      /\ \A i \in 1 .. Len(e) : i + 1 \in 1 .. Len(d) /\ e[i] = d[i + 1]
  BY Popped
<1>2. \A i \in 1 .. Len(d) : i # 1 => i - 1 \in 1 .. Len(e) /\ e[i - 1] = d[i]
  <2>1. ASSUME NEW i \in 1 .. Len(d), i # 1
        PROVE  i - 1 \in 1 .. Len(d) - 1 /\ (i - 1) + 1 = i
    BY <1>1, <2>1
  <2> HIDE DEF e
  <2>2. QED
    BY <1>1, <2>1
<1> HIDE DEF e
<1>3. ASSUME NEW j \in 1 .. Len(e), NEW k \in 1 .. Len(e), Starts(e[j]), Starts(e[k]), j < k
      PROVE  e[j].round < e[k].round
  <2>1. j + 1 < k + 1
    BY <1>3
  <2>2. QED
    BY <1>1, <1>3, <2>1 DEF Playing
<1>4. /\ \A j \in 1 .. Len(e) : e[j].type = "MATCH_FOUND" => e[j].match = m.id
      /\ \A j \in 1 .. Len(e) : Starts(e[j]) =>
           /\ e[j].round <= m.round
           /\ e[j].round = m.round => e[j].legal = m.legal[s]
           /\ \A i \in 1 .. Len(u) : u[i].round < e[j].round
      /\ m.lock[s] # None => u = << >> /\ \A j \in 1 .. Len(e) : ~Starts(e[j])
  BY <1>1 DEF Playing
<1>5. Playing(m, s, u, e)
  BY <1>3, <1>4 DEF Playing
<1>6. ASSUME NEW cl, Told(m, s, u, d, cl), ~Starts(d[1]), NEW dl, dl.decided = cl.decided,
             d[1].type = "MATCH_FOUND" => dl.match_id = d[1].match,
             d[1].type # "MATCH_FOUND" => dl.match_id = cl.match_id
      PROVE  Told(m, s, u, e, dl) /\ (Introduced(m, d, cl) => Introduced(m, e, dl))
  <2>1. CASE d[1].type = "MATCH_FOUND"
    <3>1. dl.match_id = m.id
      BY <1>1, <1>6, <2>1 DEF Playing
    <3>2. QED
      BY <1>6, <3>1 DEF Told, Introduced
  <2>2. CASE d[1].type # "MATCH_FOUND"
    <3>1. dl.match_id = cl.match_id
      BY <1>6, <2>2
    <3>2. ASSUME NEW j \in 1 .. Len(e), Starts(e[j])
          PROVE  dl.match_id = m.id \/ \E i \in 1 .. Len(e) : i < j /\ e[i].type = "MATCH_FOUND"
      <4>1. cl.match_id = m.id \/ \E i \in 1 .. Len(d) : i < j + 1 /\ d[i].type = "MATCH_FOUND"
        BY <1>1, <1>6, <3>2 DEF Told
      <4>2. ASSUME NEW i \in 1 .. Len(d), i < j + 1, d[i].type = "MATCH_FOUND"
            PROVE  i - 1 \in 1 .. Len(e) /\ i - 1 < j /\ e[i - 1].type = "MATCH_FOUND"
        BY <1>1, <1>2, <2>2, <4>2
      <4>3. QED
        BY <3>1, <4>1, <4>2
    <3>3. Introduced(m, d, cl) => Introduced(m, e, dl)
      BY <1>2, <2>2, <3>1 DEF Introduced
    <3>4. QED
      BY <1>6, <3>2, <3>3 DEF Told
  <2>3. QED
    BY <2>1, <2>2
<1>7. QED
  BY <1>5, <1>6 DEF e

\* The driver reads a ROUND_START and decides on a play, which may reach the server or not.
LEMMA PlaySends ==
    ASSUME NEW m, NEW s, NEW u \in Seq(UpMsgs), NEW d \in Seq(DownMsgs), Playing(m, s, u, d), m.round \in Nat,
           d # << >>, Starts(d[1]), NEW cl, Told(m, s, u, d, cl), NEW x \in UpMsgs, x.type = "PLAY",
           x.match = cl.match_id, x.round = d[1].round, x.slot \in d[1].legal \cup {Pass},
           NEW dl, dl.match_id = cl.match_id,
           dl.decided = [match |-> x.match, round |-> x.round, slot |-> x.slot]
    PROVE  /\ Playing(m, s, Append(u, x), Tail(d))
           /\ Told(m, s, Append(u, x), Tail(d), dl) /\ Told(m, s, u, Tail(d), dl)
           /\ Introduced(m, d, cl) => Introduced(m, Tail(d), dl)
<1> DEFINE e == Tail(d)
           v == Append(u, x)
<1>1. /\ Len(d) \in Nat /\ Len(e) = Len(d) - 1 /\ 1 \in 1 .. Len(d) /\ d[1] \in DownMsgs
      /\ \A i \in 1 .. Len(e) : i + 1 \in 1 .. Len(d) /\ e[i] = d[i + 1]
  BY Popped
<1>2. /\ Len(u) \in Nat /\ Len(v) = Len(u) + 1 /\ v[Len(u) + 1] = x
      /\ \A i \in 1 .. Len(u) : v[i] = u[i]
  BY Added
<1>3. Playing(m, s, u, e)
  BY PlayReads
<1> HIDE DEF e, v
<1>4. cl.match_id = m.id
  BY <1>1 DEF Told
<1>5. m.lock[s] = None
  BY <1>1 DEF Playing
<1>6. x.round \in Nat /\ x.round <= m.round /\ (x.round = m.round => x.slot \in m.legal[s] \cup {Pass})
  BY <1>1, UpCases DEF Playing
<1>7. \A i \in 1 .. Len(u) : u[i].round < x.round /\ u[i].round # m.round
  <2>1. ASSUME NEW i \in 1 .. Len(u)
        PROVE  u[i].round < x.round /\ u[i].round # m.round
    <3>1. u[i].round < x.round
      BY <1>1 DEF Playing
    <3>2. u[i].round \in Nat
      BY ElementOfSeq, UpCases DEF Playing
    <3>3. QED
      BY <1>6, <3>1, <3>2
  <2>2. QED
    BY <2>1
<1>8. \A j \in 1 .. Len(e) : Starts(e[j]) => x.round < e[j].round
  <2>1. ASSUME NEW j \in 1 .. Len(e), Starts(e[j])
        PROVE  x.round < e[j].round
    <3>1. j + 1 \in 1 .. Len(d) /\ e[j] = d[j + 1] /\ 1 < j + 1
      BY <1>1
    <3>2. QED
      BY <1>1, <2>1, <3>1 DEF Playing
  <2>2. QED
    BY <2>1
<1>9. \A i \in 1 .. Len(v) : i = Len(u) + 1 \/ i \in 1 .. Len(u)
  BY <1>2
<1>10. ASSUME NEW i \in 1 .. Len(v)
       PROVE  /\ v[i].type = "PLAY" /\ v[i].match = m.id /\ v[i].round <= m.round
              /\ v[i].round = m.round => v[i].slot \in m.legal[s] \cup {Pass}
              /\ \A j \in 1 .. Len(e) : Starts(e[j]) => v[i].round < e[j].round
  <2>1. CASE i = Len(u) + 1
    BY <1>2, <1>4, <1>6, <1>8, <2>1
  <2>2. CASE i \in 1 .. Len(u)
    BY <1>2, <1>3, <2>2 DEF Playing
  <2>3. QED
    BY <1>9, <2>1, <2>2
<1>11. ASSUME NEW i \in 1 .. Len(v), NEW k \in 1 .. Len(v), i < k
       PROVE  v[i].round < v[k].round
  <2>1. i \in 1 .. Len(u)
    BY <1>2, <1>11
  <2>2. CASE k = Len(u) + 1
    BY <1>2, <1>7, <2>1, <2>2
  <2>3. CASE k \in 1 .. Len(u)
    BY <1>2, <1>3, <1>11, <2>1, <2>3 DEF Playing
  <2>4. QED
    BY <1>9, <2>2, <2>3
<1>12. Playing(m, s, v, e)
  BY <1>3, <1>5, <1>10, <1>11 DEF Playing
<1>13. Told(m, s, u, e, dl)
  BY <1>4, <1>5, <1>7 DEF Told
<1>14. ASSUME NEW i \in 1 .. Len(v), v[i].round = m.round
       PROVE  dl.decided = Decision(m, v[i].slot)
  <2>1. i = Len(u) + 1
    BY <1>2, <1>7, <1>9, <1>14
  <2>2. QED
    BY <1>2, <1>4, <1>14, <2>1 DEF Decision
<1>15. Told(m, s, v, e, dl)
  BY <1>4, <1>5, <1>14 DEF Told
<1>16. Introduced(m, e, dl)
  BY <1>4 DEF Introduced
<1>17. QED
  BY <1>12, <1>13, <1>15, <1>16 DEF e, v

-----------------------------------------------------------------------------
(***************************************************************************)
(* The server's handlers.                                                  *)
(***************************************************************************)

\* What is sent is added to a stream, or lost.
LEMMA Delivered ==
    ASSUME StreamsOK, NEW msgs \in [Conns -> Seq(DownMsgs)], Deliver(msgs)
    PROVE  /\ down' \in [Conns -> Seq(DownMsgs)]
           /\ \A x \in Conns : \/ down'[x] = down[x] /\ (x \in cut \/ conn'[x].state = "FREE")
                               \/ down'[x] = down[x] \o msgs[x] /\ x \notin cut
           /\ \A x \in Conns : msgs[x] = << >> => down'[x] = down[x]
<1>1. ASSUME NEW x \in Conns
      PROVE  /\ down[x] \o msgs[x] \in Seq(DownMsgs) /\ down[x] \in Seq(DownMsgs)
             /\ msgs[x] = << >> => down[x] \o msgs[x] = down[x]
  BY ConcatProperties, ConcatEmptySeq DEF StreamsOK
<1>2. \A x \in Conns : \/ down'[x] = down[x] /\ (x \in cut \/ conn'[x].state = "FREE")
                       \/ down'[x] = down[x] \o msgs[x] /\ x \notin cut
  BY DEF Deliver
<1>3. down' \in [Conns -> Seq(DownMsgs)]
  BY <1>1 DEF Deliver
<1>4. QED
  BY <1>1, <1>2, <1>3

LEMMA OnlyTo ==
    ASSUME NEW c \in Conns, NEW x \in DownMsgs
    PROVE  /\ Only(c, <<x>>) \in [Conns -> Seq(DownMsgs)] /\ Only(c, <<x>>)[c] = <<x>>
           /\ \A y \in Conns \ {c} : Only(c, <<x>>)[y] = << >>
<1>1. <<x>> \in Seq(DownMsgs) /\ << >> \in Seq(DownMsgs)
  OBVIOUS
<1>2. QED
  BY <1>1 DEF Only, Nothing

LEMMA DeliveredTo ==
    ASSUME StreamsOK, NEW c \in Conns, NEW x \in DownMsgs, Deliver(Only(c, <<x>>))
    PROVE  /\ down' \in [Conns -> Seq(DownMsgs)] /\ \A y \in Conns \ {c} : down'[y] = down[y]
           /\ down'[c] = down[c] \/ down'[c] = down[c] \o <<x>>
<1> DEFINE msgs == Only(c, <<x>>)
<1>1. msgs \in [Conns -> Seq(DownMsgs)] /\ msgs[c] = <<x>> /\ \A y \in Conns \ {c} : msgs[y] = << >>
  BY OnlyTo
<1>2. Deliver(msgs)
  OBVIOUS
<1> HIDE DEF msgs
<1>3. /\ down' \in [Conns -> Seq(DownMsgs)]
      /\ \A y \in Conns : \/ down'[y] = down[y] /\ (y \in cut \/ conn'[y].state = "FREE")
                          \/ down'[y] = down[y] \o msgs[y] /\ y \notin cut
      /\ \A y \in Conns : msgs[y] = << >> => down'[y] = down[y]
  BY <1>1, <1>2, Delivered
<1>4. QED
  BY <1>1, <1>3

\* A driver whose request was taken is asked the next question.
LEMMA AsksNext ==
    ASSUME Inv, NEW c \in Conns, conn[c].state \in {"READY", "DRAFTING"},
           up' = [up EXCEPT ![c] = << >>], AllRejects(down[c]),
           NEW cn \in ConnRecs, conn' = [conn EXCEPT ![c] = cn], cn.state \in {"READY", "DRAFTING"},
           cn.mode = conn[c].mode, ConnOK(cn, drafts'),
           NEW x \in DownMsgs, AskFits(cn, x), Deliver(Only(c, <<x>>)),
           UNCHANGED <<client, matches, next_match, games, cut, closing>>,
           drafts \subseteq drafts', LogOK', next_deck' \in Nat, drafts' \in SUBSET DeckRecs
    PROVE  Inv'
<1>1. /\ down' \in [Conns -> Seq(DownMsgs)] /\ \A y \in Conns \ {c} : down'[y] = down[y]
      /\ down'[c] = down[c] \/ down'[c] = down[c] \o <<x>>
  BY DeliveredTo DEF Inv
<1>2. /\ conn' \in [Conns -> ConnRecs] /\ conn'[c] = cn /\ \A y \in Conns \ {c} : conn'[y] = conn[y]
  BY DEF Inv, RecordsOK
<1>3. << >> \in Seq(UpMsgs) /\ up \in [Conns -> Seq(UpMsgs)] /\ down[c] \in Seq(DownMsgs)
  BY DEF Inv, StreamsOK
<1>4. up' \in [Conns -> Seq(UpMsgs)] /\ up'[c] = << >> /\ \A y \in Conns \ {c} : up'[y] = up[y]
  BY <1>3
<1>5. StreamsOK' /\ RecordsOK'
  BY <1>1, <1>2, <1>4 DEF Inv, StreamsOK, RecordsOK
<1>6. DriversOK'
  BY <1>2 DEF Inv, DriversOK, RecordsOK, ClientRecs
<1>7. ConnsOK'
  BY <1>2, <1>4 DEF Inv, ConnsOK, ConnOK
<1>8. \A m \in matches, s \in 1 .. 2 : m.conn[s] \in Conns \ {c}
  <2>1. ASSUME NEW m \in matches, NEW s \in 1 .. 2
        PROVE  m.conn[s] \in Conns \ {c}
    <3>1. m \in MatchRecs /\ MatchOK(m)
      BY DEF Inv, RecordsOK, MatchesOK
    <3>2. m.conn[s] \in Conns /\ conn[m.conn[s]].state = "IN_MATCH"
      BY <3>1 DEF MatchRecs, MatchOK
    <3>3. QED
      BY <3>2
  <2>2. QED
    BY <2>1
<1>9. MatchesOK'
  BY <1>2, <1>8 DEF Inv, MatchesOK, MatchOK
<1>10. Talk(cn, << >>, down[c]) /\ Talk(cn, << >>, down[c] \o <<x>>)
  <2>1. Quiet(cn, << >>, down[c]) /\ Talk(cn, << >>, down[c])
    BY RejectsQuiet
  <2>2. cn.state # "QUEUED"
    OBVIOUS
  <2>3. QED
    BY <1>3, <2>1, <2>2, Asks
<1>11. Talks(up)'
  BY <1>1, <1>2, <1>4, <1>10 DEF Inv, Talks
<1>12. Playings(up)'
  BY <1>1, <1>4, <1>8 DEF Inv, Playings
<1>13. Tolds(up)'
  <2>1. \A m \in matches, s \in 1 .. 2 : up'[m.conn[s]] = up[m.conn[s]] /\ down'[m.conn[s]] = down[m.conn[s]]
    BY <1>1, <1>4, <1>8
  <2>2. QED
    BY <2>1 DEF Inv, Tolds
<1>14. QED
  BY <1>5, <1>6, <1>7, <1>9, <1>11, <1>12, <1>13 DEF Inv

\* A connection in a match is in that one only, at one seat.
LEMMA SeatedAt ==
    ASSUME MatchesOK, RecordsOK, NEW m \in matches, NEW s \in 1 .. 2
    PROVE  /\ m.conn[s] \in Conns /\ MatchOf(m.conn[s]) = m /\ SeatOf(m, m.conn[s]) = s
           /\ m.conn[1] \in Conns /\ m.conn[2] \in Conns /\ m.conn[1] # m.conn[2]
           /\ conn[m.conn[s]].state = "IN_MATCH"
<1>1. /\ m.conn[1] \in Conns /\ m.conn[2] \in Conns /\ m.conn[s] \in Conns /\ m.conn[1] # m.conn[2]
      /\ conn[m.conn[s]].state = "IN_MATCH" /\ s \in {1, 2}
  <2>1. m.conn \in [1 .. 2 -> Conns]
    BY DEF RecordsOK, MatchRecs
  <2>2. m.conn[1] # m.conn[2] /\ conn[m.conn[s]].state = "IN_MATCH"
    BY DEF MatchesOK, MatchOK
  <2>3. QED
    BY <2>1, <2>2
<1>2. \A n \in matches : m.conn[s] \in {n.conn[1], n.conn[2]} => n = m
  <2>1. ASSUME NEW n \in matches, m.conn[s] \in {n.conn[1], n.conn[2]}
        PROVE  n = m
    <3>1. \E t \in 1 .. 2 : m.conn[s] = n.conn[t]
      BY <2>1
    <3>2. QED
      BY <3>1 DEF MatchesOK
  <2>2. QED
    BY <2>1
<1>3. m.conn[s] \in {m.conn[1], m.conn[2]}
  BY <1>1
<1>4. MatchOf(m.conn[s]) = m
  BY <1>2, <1>3 DEF MatchOf
<1>5. SeatOf(m, m.conn[s]) = s
  BY <1>1 DEF SeatOf
<1>6. QED
  BY <1>1, <1>4, <1>5

LEMMA InSomeMatch ==
    ASSUME MatchesOK, RecordsOK, NEW c \in Conns, conn[c].state = "IN_MATCH"
    PROVE  MatchOf(c) \in matches /\ SeatOf(MatchOf(c), c) \in 1 .. 2 /\ MatchOf(c).conn[SeatOf(MatchOf(c), c)] = c
<1>1. PICK m \in matches, s \in 1 .. 2 : m.conn[s] = c
  BY DEF MatchesOK
<1>2. MatchOf(c) = m /\ SeatOf(m, c) = s
  BY <1>1, SeatedAt
<1>3. QED
  BY <1>1, <1>2

\* What is sent to both seats.
LEMMA RoundStartTo ==
    ASSUME NEW m, m.conn[1] \in Conns, m.conn[2] \in Conns, m.conn[1] # m.conn[2],
           m.round \in Nat, m.legal \in [1 .. 2 -> Hands]
    PROVE  /\ RoundStart(m) \in [Conns -> Seq(DownMsgs)]
           /\ \A s \in 1 .. 2 :
                /\ RoundStart(m)[m.conn[s]] = <<[type |-> "ROUND_START", round |-> m.round, legal |-> m.legal[s]]>>
                /\ [type |-> "ROUND_START", round |-> m.round, legal |-> m.legal[s]] \in DownMsgs
           /\ \A c \in Conns : c \notin {m.conn[1], m.conn[2]} => RoundStart(m)[c] = << >>
<1>1. \A s \in 1 .. 2 : [type |-> "ROUND_START", round |-> m.round, legal |-> m.legal[s]] \in DownMsgs
  <2>1. \A s \in 1 .. 2 : m.legal[s] \in Hands
    OBVIOUS
  <2>2. QED
    BY <2>1 DEF DownMsgs
<1>2. \A c \in Conns : SeatOf(m, c) \in 1 .. 2
  BY DEF SeatOf
<1>3. \A s \in 1 .. 2 : SeatOf(m, m.conn[s]) = s /\ m.conn[s] \in Conns /\ m.conn[s] \in {m.conn[1], m.conn[2]}
  BY DEF SeatOf
<1>4. \A x \in DownMsgs : <<x>> \in Seq(DownMsgs)
  OBVIOUS
<1>5. << >> \in Seq(DownMsgs)
  OBVIOUS
<1>6. RoundStart(m) \in [Conns -> Seq(DownMsgs)]
  BY <1>1, <1>2, <1>4, <1>5 DEF RoundStart
<1>7. \A s \in 1 .. 2 :
        RoundStart(m)[m.conn[s]] = <<[type |-> "ROUND_START", round |-> m.round, legal |-> m.legal[s]]>>
  BY <1>3 DEF RoundStart
<1>8. QED
  BY <1>1, <1>6, <1>7 DEF RoundStart

LEMMA EndMessagesTo ==
    ASSUME NEW m, m.conn[1] \in Conns, m.conn[2] \in Conns, m.conn[1] # m.conn[2], m.id \in Nat,
           NEW result, result \in Results
    PROVE  /\ EndMessages(m, result) \in [Conns -> Seq(DownMsgs)]
           /\ \A s \in 1 .. 2 :
                /\ EndMessages(m, result)[m.conn[s]] = <<[type |-> "MATCH_END", match |-> m.id, result |-> result[s]]>>
                /\ [type |-> "MATCH_END", match |-> m.id, result |-> result[s]] \in DownMsgs
           /\ \A c \in Conns : c \notin {m.conn[1], m.conn[2]} => EndMessages(m, result)[c] = << >>
<1>1. \A s \in 1 .. 2 : [type |-> "MATCH_END", match |-> m.id, result |-> result[s]] \in DownMsgs
  <2>1. \A s \in 1 .. 2 : result[s] \in {"win", "loss", "draw"}
    BY DEF Results
  <2>2. QED
    BY <2>1 DEF DownMsgs
<1>2. \A c \in Conns : SeatOf(m, c) \in 1 .. 2
  BY DEF SeatOf
<1>3. \A s \in 1 .. 2 : SeatOf(m, m.conn[s]) = s /\ m.conn[s] \in Conns /\ m.conn[s] \in {m.conn[1], m.conn[2]}
  BY DEF SeatOf
<1>4. \A x \in DownMsgs : <<x>> \in Seq(DownMsgs)
  OBVIOUS
<1>5. << >> \in Seq(DownMsgs)
  OBVIOUS
<1>6. EndMessages(m, result) \in [Conns -> Seq(DownMsgs)]
  BY <1>1, <1>2, <1>4, <1>5 DEF EndMessages
<1>7. \A s \in 1 .. 2 :
        EndMessages(m, result)[m.conn[s]] = <<[type |-> "MATCH_END", match |-> m.id, result |-> result[s]]>>
  BY <1>3 DEF EndMessages
<1>8. QED
  BY <1>1, <1>6, <1>7 DEF EndMessages

\* A match, between two rounds or before the first.
Unfought(m) ==
    /\ m.id \in Nat /\ m.conn \in [1 .. 2 -> Conns] /\ m.mode \in Modes /\ m.round \in Nat
    /\ m.deck \in [1 .. 2 -> Decks \cup {None}] /\ m.deck_id \in [1 .. 2 -> Nat]
    /\ m = [id |-> m.id, conn |-> m.conn, mode |-> m.mode, round |-> m.round, legal |-> m.legal, lock |-> m.lock,
            deck |-> m.deck, deck_id |-> m.deck_id]

\* The next round of a match, or the first.
LEMMA BeginRoundsOK ==
    ASSUME NEW m, Unfought(m), NEW n \in BeginRounds(m)
    PROVE  /\ n \in MatchRecs /\ n.round = m.round + 1 /\ n.lock[1] = None /\ n.lock[2] = None
           /\ n.id = m.id /\ n.conn = m.conn /\ n.mode = m.mode /\ n.deck = m.deck /\ n.deck_id = m.deck_id
<1>1. PICK l \in [1 .. 2 -> Hands] : n = [m EXCEPT !.round = @ + 1, !.legal = l, !.lock = <<None, None>>]
  BY DEF BeginRounds
<1>9. m = [id |-> m.id, conn |-> m.conn, mode |-> m.mode, round |-> m.round, legal |-> m.legal, lock |-> m.lock,
            deck |-> m.deck, deck_id |-> m.deck_id]
  BY DEF Unfought
<1>2. /\ n.id = m.id /\ n.conn = m.conn /\ n.mode = m.mode /\ n.deck = m.deck /\ n.deck_id = m.deck_id
      /\ n.round = m.round + 1 /\ n.legal = l /\ n.lock = <<None, None>>
  BY <1>1, <1>9
<1>3. <<None, None>> \in [1 .. 2 -> Slots \cup {None}]
  OBVIOUS
<1>4. n \in MatchRecs
  <2>1. n = [id |-> m.id, conn |-> m.conn, mode |-> m.mode, round |-> m.round + 1, legal |-> l,
             lock |-> <<None, None>>, deck |-> m.deck, deck_id |-> m.deck_id]
    BY <1>1, <1>9
  <2>2. /\ m.id \in Nat /\ m.conn \in [1 .. 2 -> Conns] /\ m.mode \in Modes /\ m.round + 1 \in Nat
        /\ m.deck \in [1 .. 2 -> Decks \cup {None}] /\ m.deck_id \in [1 .. 2 -> Nat]
    BY DEF Unfought
  <2>3. QED
    BY <1>3, <2>1, <2>2 DEF MatchRecs
<1>5. QED
  BY <1>2, <1>4

\* One seat of a match that begins, and the messages f and r that say so.
Beginning(cn, d, m, s, f, r) ==
    /\ cn.state = "IN_MATCH" /\ d \in Seq(DownMsgs)
    /\ \A j \in 1 .. Len(d) : d[j].type \in {"PLAY_REJECT", "DRAFT_DONE"} /\ ~Ask(cn.mode, d[j])
    /\ m.lock[s] = None /\ m.round \in Nat
    /\ f \in DownMsgs /\ f.type = "MATCH_FOUND" /\ f.match = m.id
    /\ r \in DownMsgs /\ r.type = "ROUND_START" /\ r.round = m.round /\ r.legal = m.legal[s]

\* The driver may be told of it or not.
LEMMA SeatBegins ==
    ASSUME NEW cn, NEW d, NEW m, NEW s, NEW f, NEW r, Beginning(cn, d, m, s, f, r)
    PROVE  /\ Talk(cn, << >>, d) /\ Talk(cn, << >>, (d \o <<f>>) \o <<r>>)
           /\ Playing(m, s, << >>, d) /\ Playing(m, s, << >>, (d \o <<f>>) \o <<r>>)
           /\ \A cl : Told(m, s, << >>, d, cl) /\ Told(m, s, << >>, (d \o <<f>>) \o <<r>>, cl)
           /\ \A cl : Introduced(m, (d \o <<f>>) \o <<r>>, cl)
<1> DEFINE e == d \o <<f>>
<1>0. /\ cn.state = "IN_MATCH" /\ d \in Seq(DownMsgs)
      /\ \A j \in 1 .. Len(d) : d[j].type \in {"PLAY_REJECT", "DRAFT_DONE"} /\ ~Ask(cn.mode, d[j])
      /\ m.lock[s] = None /\ m.round \in Nat
      /\ f \in DownMsgs /\ f.type = "MATCH_FOUND" /\ f.match = m.id
      /\ r \in DownMsgs /\ r.type = "ROUND_START" /\ r.round = m.round /\ r.legal = m.legal[s]
  BY DEF Beginning
<1>1. /\ e \in Seq(DownMsgs) /\ Len(d) \in Nat /\ Len(e) = Len(d) + 1 /\ e[Len(d) + 1] = f
      /\ \A i \in 1 .. Len(d) : e[i] = d[i]
  BY <1>0, Added
<1>2. << >> \in Seq(UpMsgs)
  OBVIOUS
<1>3. Quiet(cn, << >>, d)
  BY <1>0, NoMessages DEF Quiet
<1>4. ~Ask(cn.mode, f) /\ ~Ask(cn.mode, r) /\ ~Starts(f)
  BY <1>0 DEF Ask, Starts
<1>5. Talk(cn, << >>, d)
  BY <1>0, <1>3, QuietTalk
<1>6. Talk(cn, << >>, e)
  BY <1>0, <1>2, <1>3, <1>4, <1>5, Tells
<1>7. Quiet(cn, << >>, e)
  BY <1>0, <1>1, <1>2, <1>6, QuietWhenWaiting
<1>8. Talk(cn, << >>, e \o <<r>>)
  BY <1>0, <1>1, <1>2, <1>4, <1>6, <1>7, Tells
<1>9. Playing(m, s, << >>, d) /\ \A cl : Told(m, s, << >>, d, cl)
  BY <1>0, MatchBegins
<1>10. /\ Playing(m, s, << >>, e)
       /\ \A cl : Told(m, s, << >>, e, cl) /\ Introduced(m, e, cl)
  BY <1>0, <1>2, <1>4, <1>9, PlayTells
<1>11. \A j \in 1 .. Len(e) : ~Starts(e[j])
  <2> HIDE DEF e
  <2>1. \A j \in 1 .. Len(e) : j = Len(d) + 1 \/ j \in 1 .. Len(d)
    BY <1>1
  <2>2. QED
    BY <1>0, <1>1, <1>4, <2>1 DEF Starts
<1> HIDE DEF e
<1>12. /\ Playing(m, s, << >>, e \o <<r>>)
       /\ \A cl : Told(m, s, << >>, e, cl) /\ Introduced(m, e, cl) =>
            Told(m, s, << >>, e \o <<r>>, cl) /\ Introduced(m, e \o <<r>>, cl)
  <2>1. \A i \in 1 .. Len(<< >>) : FALSE
    BY NoMessages
  <2>2. /\ \A i \in 1 .. Len(<< >>) : << >>[i].round < m.round
        /\ \A j \in 1 .. Len(e) : Starts(e[j]) => e[j].round < m.round
    BY <2>1, <1>11
  <2>3. QED
    BY <1>0, <1>1, <1>2, <1>10, <2>2, PlayStarts
<1>13. QED
  BY <1>5, <1>8, <1>9, <1>10, <1>12 DEF e

\* A Conn that goes from the queue into a match, or back to READY, is in order.
LEMMA ConnMoves ==
    ASSUME NEW cn \in ConnRecs, NEW log, ConnOK(cn, log), cn.state \in {"QUEUED", "IN_MATCH"},
           NEW st \in {"IN_MATCH", "READY"}
    PROVE  /\ [cn EXCEPT !.state = st] \in ConnRecs /\ ConnOK([cn EXCEPT !.state = st], log)
           /\ [cn EXCEPT !.state = st].state = st /\ [cn EXCEPT !.state = st].mode = cn.mode
           /\ [cn EXCEPT !.state = st].deck = cn.deck /\ [cn EXCEPT !.state = st].deck_id = cn.deck_id
BY DEF ConnRecs, ConnOK, States

\* The last answer of a draft, or none, before the queue.
LEMMA Answered ==
    ASSUME NEW mode, NEW d \in Seq(DownMsgs), AllRejects(d), NEW a,
           a = << >> \/ (mode # "constructed" /\ \E x \in DownMsgs : a = <<x>> /\ x.type = "DRAFT_DONE")
    PROVE  /\ a \in Seq(DownMsgs) /\ d \o a \in Seq(DownMsgs)
           /\ \A j \in 1 .. Len(d) : d[j].type \in {"PLAY_REJECT", "DRAFT_DONE"} /\ ~Ask(mode, d[j])
           /\ \A j \in 1 .. Len(d \o a) :
                (d \o a)[j].type \in {"PLAY_REJECT", "DRAFT_DONE"} /\ ~Ask(mode, (d \o a)[j])
<1>1. \A j \in 1 .. Len(d) : d[j].type \in {"PLAY_REJECT", "DRAFT_DONE"} /\ ~Ask(mode, d[j])
  BY DEF AllRejects, Ask
<1>2. CASE a = << >>
  BY <1>1, <1>2, ConcatEmptySeq
<1>3. CASE a # << >>
  <2>1. PICK x \in DownMsgs : a = <<x>> /\ x.type = "DRAFT_DONE"
    BY <1>3
  <2>2. mode # "constructed"
    BY <1>3
  <2> DEFINE e == d \o <<x>>
  <2>3. /\ e \in Seq(DownMsgs) /\ Len(d) \in Nat /\ Len(e) = Len(d) + 1 /\ e[Len(d) + 1] = x
        /\ \A i \in 1 .. Len(d) : e[i] = d[i]
    BY Added
  <2>4. a \in Seq(DownMsgs)
    BY <2>1
  <2> HIDE DEF e
  <2>5. \A j \in 1 .. Len(e) : j = Len(d) + 1 \/ j \in 1 .. Len(d)
    BY <2>3
  <2>6. \A j \in 1 .. Len(e) : e[j].type \in {"PLAY_REJECT", "DRAFT_DONE"} /\ ~Ask(mode, e[j])
    BY <1>1, <2>1, <2>2, <2>3, <2>5 DEF Ask
  <2>7. d \o a = e
    BY <2>1 DEF e
  <2>8. QED
    BY <1>1, <2>3, <2>4, <2>6, <2>7
<1>4. QED
  BY <1>2, <1>3

\* enter_queue, when nobody waits.
LEMMA QueuesAlone ==
    ASSUME Inv, NEW c \in Conns, conn[c].state \in {"READY", "DRAFTING"},
           up' = [up EXCEPT ![c] = << >>], AllRejects(down[c]),
           NEW cn \in ConnRecs, conn' = [conn EXCEPT ![c] = cn], cn.state = "QUEUED",
           cn.mode = conn[c].mode, ConnOK(cn, drafts'),
           NEW first \in [Conns -> Seq(DownMsgs)], \A y \in Conns \ {c} : first[y] = << >>,
           \/ first[c] = << >>
           \/ cn.mode # "constructed" /\ \E x \in DownMsgs : first[c] = <<x>> /\ x.type = "DRAFT_DONE",
           Deliver(first), UNCHANGED <<client, matches, next_match, games, cut, closing>>,
           drafts \subseteq drafts', LogOK', next_deck' \in Nat, drafts' \in SUBSET DeckRecs
    PROVE  Inv'
<1>1. /\ down' \in [Conns -> Seq(DownMsgs)] /\ \A y \in Conns \ {c} : down'[y] = down[y]
      /\ down'[c] = down[c] \/ down'[c] = down[c] \o first[c]
  BY Delivered DEF Inv
<1>2. /\ conn' \in [Conns -> ConnRecs] /\ conn'[c] = cn /\ \A y \in Conns \ {c} : conn'[y] = conn[y]
  BY DEF Inv, RecordsOK
<1>3. << >> \in Seq(UpMsgs) /\ up \in [Conns -> Seq(UpMsgs)] /\ down[c] \in Seq(DownMsgs)
  BY DEF Inv, StreamsOK
<1>4. up' \in [Conns -> Seq(UpMsgs)] /\ up'[c] = << >> /\ \A y \in Conns \ {c} : up'[y] = up[y]
  BY <1>3
<1>5. StreamsOK' /\ RecordsOK'
  BY <1>1, <1>2, <1>4 DEF Inv, StreamsOK, RecordsOK
<1>6. DriversOK'
  BY <1>2 DEF Inv, DriversOK, RecordsOK, ClientRecs
<1>7. ConnsOK'
  BY <1>2, <1>4 DEF Inv, ConnsOK, ConnOK
<1>8. \A m \in matches, s \in 1 .. 2 : m.conn[s] \in Conns \ {c}
  BY SeatedAt DEF Inv
<1>9. MatchesOK'
  BY <1>2, <1>8 DEF Inv, MatchesOK, MatchOK
<1>10. Talk(cn, << >>, down'[c])
  <2>1. /\ \A j \in 1 .. Len(down[c]) :
             down[c][j].type \in {"PLAY_REJECT", "DRAFT_DONE"} /\ ~Ask(cn.mode, down[c][j])
        /\ \A j \in 1 .. Len(down[c] \o first[c]) :
             /\ (down[c] \o first[c])[j].type \in {"PLAY_REJECT", "DRAFT_DONE"}
             /\ ~Ask(cn.mode, (down[c] \o first[c])[j])
    BY <1>3, Answered
  <2>2. \A j \in 1 .. Len(down'[c]) : down'[c][j].type \in {"PLAY_REJECT", "DRAFT_DONE"} /\ ~Ask(cn.mode, down'[c][j])
    BY <1>1, <2>1
  <2>3. QED
    BY <2>2, NoMessages DEF Talk
<1>11. Talks(up)'
  BY <1>1, <1>2, <1>4, <1>10 DEF Inv, Talks
<1>12. Playings(up)'
  BY <1>1, <1>4, <1>8 DEF Inv, Playings
<1>13. Tolds(up)'
  <2>1. \A m \in matches, s \in 1 .. 2 : up'[m.conn[s]] = up[m.conn[s]] /\ down'[m.conn[s]] = down[m.conn[s]]
    BY <1>1, <1>4, <1>8
  <2>2. QED
    BY <2>1 DEF Inv, Tolds
<1>14. QED
  BY <1>5, <1>6, <1>7, <1>9, <1>11, <1>12, <1>13 DEF Inv

\* start_match for c and e, who waited.
LEMMA Pairs ==
    ASSUME Inv, NEW c \in Conns, conn[c].state \in {"READY", "DRAFTING"},
           up' = [up EXCEPT ![c] = << >>], AllRejects(down[c]),
           NEW cn \in ConnRecs, cn.state = "QUEUED", cn.mode = conn[c].mode, ConnOK(cn, drafts'),
           NEW e \in Conns \ {c}, conn[e].state = "QUEUED", conn[e].mode = cn.mode,
           conn' = [x \in Conns |-> IF x = c THEN [cn EXCEPT !.state = "IN_MATCH"]
                                    ELSE IF x = e THEN [conn[e] EXCEPT !.state = "IN_MATCH"] ELSE conn[x]],
           NEW first \in [Conns -> Seq(DownMsgs)], \A y \in Conns \ {c} : first[y] = << >>,
           \/ first[c] = << >>
           \/ cn.mode # "constructed" /\ \E x \in DownMsgs : first[c] = <<x>> /\ x.type = "DRAFT_DONE",
           NEW m \in MatchRecs, m.id = next_match, m.conn = <<e, c>>, m.mode = cn.mode, m.round = 1,
           m.lock[1] = None, m.lock[2] = None,
           m.deck = <<conn[e].deck, cn.deck>>, m.deck_id = <<conn[e].deck_id, cn.deck_id>>,
           matches' = matches \cup {m}, next_match' = next_match + 1,
           NEW found, found = [x \in Conns |-> IF x \in {c, e} THEN <<[type |-> "MATCH_FOUND", match |-> next_match]>>
                                              ELSE << >>],
           Deliver(Both(first, Both(found, RoundStart(m)))),
           UNCHANGED <<client, games, cut, closing>>,
           drafts \subseteq drafts', LogOK', next_deck' \in Nat, drafts' \in SUBSET DeckRecs
    PROVE  Inv'
<1> DEFINE f == [type |-> "MATCH_FOUND", match |-> next_match]
           r(s) == [type |-> "ROUND_START", round |-> m.round, legal |-> m.legal[s]]
           msgs == Both(first, Both(found, RoundStart(m)))
<1>1. m.conn[1] = e /\ m.conn[2] = c /\ m.legal \in [1 .. 2 -> Hands] /\ m.round \in Nat /\ next_match \in Nat
  BY DEF MatchRecs, Inv, RecordsOK
<1>2. f \in DownMsgs /\ f.type = "MATCH_FOUND" /\ f.match = m.id
  BY <1>1 DEF DownMsgs
<1>3. /\ RoundStart(m) \in [Conns -> Seq(DownMsgs)]
      /\ RoundStart(m)[e] = <<r(1)>> /\ r(1) \in DownMsgs /\ RoundStart(m)[c] = <<r(2)>> /\ r(2) \in DownMsgs
      /\ \A x \in Conns : x \notin {c, e} => RoundStart(m)[x] = << >>
  <2>1. m.conn[1] \in Conns /\ m.conn[2] \in Conns /\ m.conn[1] # m.conn[2] /\ 1 \in 1 .. 2 /\ 2 \in 1 .. 2
    BY <1>1
  <2>2. QED
    BY ZenonT(60), <1>1, <2>1, RoundStartTo
<1>4. /\ r(1).type = "ROUND_START" /\ r(1).round = m.round /\ r(1).legal = m.legal[1]
      /\ r(2).type = "ROUND_START" /\ r(2).round = m.round /\ r(2).legal = m.legal[2]
  OBVIOUS
<1> HIDE DEF f, r
<1>5. found[c] = <<f>> /\ found[e] = <<f>> /\ \A x \in Conns : x \notin {c, e} => found[x] = << >>
  BY DEF f
<1>6. found \in [Conns -> Seq(DownMsgs)]
  <2>1. <<f>> \in Seq(DownMsgs) /\ << >> \in Seq(DownMsgs)
    BY <1>2
  <2>2. QED
    BY <2>1 DEF f
<1>7. msgs \in [Conns -> Seq(DownMsgs)] /\ \A x \in Conns : msgs[x] = first[x] \o (found[x] \o RoundStart(m)[x])
  BY <1>3, <1>6, ConcatProperties DEF Both
<1>8. StreamsOK /\ RecordsOK /\ << >> \in Seq(UpMsgs) /\ up \in [Conns -> Seq(UpMsgs)]
      /\ down \in [Conns -> Seq(DownMsgs)] /\ conn \in [Conns -> ConnRecs]
  BY DEF Inv, StreamsOK, RecordsOK
<1>9. /\ conn' \in [Conns -> ConnRecs] /\ conn'[c] = [cn EXCEPT !.state = "IN_MATCH"]
      /\ conn'[e] = [conn[e] EXCEPT !.state = "IN_MATCH"] /\ \A y \in Conns \ {c, e} : conn'[y] = conn[y]
  BY <1>8 DEF ConnRecs, States
<1>10. /\ conn'[c].state = "IN_MATCH" /\ conn'[c].mode = cn.mode /\ ConnOK(conn'[c], drafts')
       /\ conn'[e].state = "IN_MATCH" /\ conn'[e].mode = cn.mode /\ ConnOK(conn'[e], drafts')
  <2>1. ConnOK(conn[e], drafts')
    BY DEF Inv, ConnsOK, ConnOK
  <2>2. QED
    BY <1>8, <1>9, <2>1, ConnMoves
<1>11. up' \in [Conns -> Seq(UpMsgs)] /\ up'[c] = << >> /\ \A y \in Conns \ {c} : up'[y] = up[y]
  BY <1>8
<1>12. /\ Talk(conn[e], up[e], down[e]) /\ up[e] = << >>
       /\ \A j \in 1 .. Len(down[e]) : down[e][j].type \in {"PLAY_REJECT", "DRAFT_DONE"} /\ ~Ask(cn.mode, down[e][j])
  <2>1. Talk(conn[e], up[e], down[e])
    BY DEF Inv, Talks
  <2>2. Quiet(conn[e], up[e], down[e])
    BY <1>8, <2>1, QuietWhenWaiting
  <2>3. QED
    BY <2>1, <2>2 DEF Talk, Quiet
<1>13. /\ down[c] \in Seq(DownMsgs) /\ first[c] \in Seq(DownMsgs) /\ down[c] \o first[c] \in Seq(DownMsgs)
       /\ \A j \in 1 .. Len(down[c]) : down[c][j].type \in {"PLAY_REJECT", "DRAFT_DONE"} /\ ~Ask(cn.mode, down[c][j])
       /\ \A j \in 1 .. Len(down[c] \o first[c]) :
            /\ (down[c] \o first[c])[j].type \in {"PLAY_REJECT", "DRAFT_DONE"}
            /\ ~Ask(cn.mode, (down[c] \o first[c])[j])
  BY <1>8, Answered
<1>14. /\ down' \in [Conns -> Seq(DownMsgs)]
       /\ \A x \in Conns : \/ down'[x] = down[x] /\ (x \in cut \/ conn'[x].state = "FREE")
                           \/ down'[x] = down[x] \o msgs[x]
       /\ \A x \in Conns : msgs[x] = << >> => down'[x] = down[x]
  <2>1. Deliver(msgs)
    BY DEF msgs
  <2> HIDE DEF msgs
  <2>2. QED
    BY <1>7, <1>8, <2>1, Delivered
<1>15. \A x \in Conns \ {c, e} : down'[x] = down[x]
  <2>1. ASSUME NEW x \in Conns \ {c, e}
        PROVE  msgs[x] = << >>
    <3>1. first[x] = << >> /\ found[x] = << >> /\ RoundStart(m)[x] = << >>
      BY <1>3, <1>5
    <3>2. << >> \o (<< >> \o << >>) = << >>
      OBVIOUS
    <3> HIDE DEF msgs
    <3>3. msgs[x] = first[x] \o (found[x] \o RoundStart(m)[x])
      BY <1>7
    <3>4. QED
      BY <3>1, <3>2, <3>3, Zenon
  <2> HIDE DEF msgs
  <2>2. QED
    BY <1>14, <2>1
<1>16. down[c] \o msgs[c] = ((down[c] \o first[c]) \o <<f>>) \o <<r(2)>>
  <2>1. <<f>> \in Seq(DownMsgs) /\ <<r(2)>> \in Seq(DownMsgs)
    BY <1>2, <1>3
  <2>2. msgs[c] = first[c] \o (<<f>> \o <<r(2)>>)
    BY <1>3, <1>5, <1>7
  <2>3. <<f>> \o <<r(2)>> \in Seq(DownMsgs)
    BY <2>1, ConcatProperties
  <2>4. down[c] \in Seq(DownMsgs) /\ first[c] \in Seq(DownMsgs) /\ down[c] \o first[c] \in Seq(DownMsgs)
    BY <1>13
  <2>5. \A z \in Seq(DownMsgs) : down[c] \o (first[c] \o z) = (down[c] \o first[c]) \o z
    BY <2>1, <2>3, <2>4, Regroup, Zenon
  <2>6. (down[c] \o first[c]) \o (<<f>> \o <<r(2)>>) = ((down[c] \o first[c]) \o <<f>>) \o <<r(2)>>
    BY <2>1, <2>4, Regroup, Zenon
  <2>7. QED
    BY <2>2, <2>3, <2>5, <2>6
<1>17. down[e] \o msgs[e] = (down[e] \o <<f>>) \o <<r(1)>>
  <2>1. <<f>> \in Seq(DownMsgs) /\ <<r(1)>> \in Seq(DownMsgs) /\ down[e] \in Seq(DownMsgs)
    BY <1>2, <1>3, <1>8
  <2>2. msgs[e] = << >> \o (<<f>> \o <<r(1)>>)
    BY <1>3, <1>5, <1>7
  <2>3. <<f>> \o <<r(1)>> \in Seq(DownMsgs)
    BY <2>1, ConcatProperties
  <2>4. << >> \o (<<f>> \o <<r(1)>>) = <<f>> \o <<r(1)>>
    BY <2>3, ConcatEmptySeq
  <2>5. down[e] \o (<<f>> \o <<r(1)>>) = (down[e] \o <<f>>) \o <<r(1)>>
    BY <2>1, ConcatAssociative
  <2>6. QED
    BY <2>2, <2>4, <2>5
<1> HIDE DEF msgs
<1>18. /\ Talk(conn'[c], << >>, down'[c]) /\ Playing(m, 2, << >>, down'[c])
       /\ \A cl : Told(m, 2, << >>, down'[c], cl) /\ (c \notin cut => Introduced(m, down'[c], cl))
  <2> DEFINE d1 == down[c] \o first[c]
             d2 == (d1 \o <<f>>) \o <<r(2)>>
  <2>1. (down'[c] = down[c] /\ c \in cut) \/ down'[c] = d2
    BY <1>10, <1>14, <1>16
  <2>2. /\ down[c] \in Seq(DownMsgs) /\ d1 \in Seq(DownMsgs) /\ conn'[c].state = "IN_MATCH" /\ m.round \in Nat
        /\ \A j \in 1 .. Len(down[c]) :
             down[c][j].type \in {"PLAY_REJECT", "DRAFT_DONE"} /\ ~Ask(conn'[c].mode, down[c][j])
        /\ \A j \in 1 .. Len(d1) : d1[j].type \in {"PLAY_REJECT", "DRAFT_DONE"} /\ ~Ask(conn'[c].mode, d1[j])
    BY <1>1, <1>10, <1>13
  <2>3. /\ f \in DownMsgs /\ f.type = "MATCH_FOUND" /\ f.match = m.id
        /\ r(2) \in DownMsgs /\ r(2).type = "ROUND_START" /\ r(2).round = m.round /\ r(2).legal = m.legal[2]
        /\ m.lock[2] = None
    BY <1>2, <1>3, <1>4
  <2>7. Beginning(conn'[c], down[c], m, 2, f, r(2))
    BY <2>2, <2>3 DEF Beginning
  <2>8. Beginning(conn'[c], d1, m, 2, f, r(2))
    BY <2>2, <2>3 DEF Beginning
  <2> HIDE DEF d1
  <2>4. /\ Talk(conn'[c], << >>, down[c]) /\ Playing(m, 2, << >>, down[c])
        /\ \A cl : Told(m, 2, << >>, down[c], cl)
    BY <2>7, SeatBegins
  <2>5. /\ Talk(conn'[c], << >>, d2) /\ Playing(m, 2, << >>, d2)
        /\ \A cl : Told(m, 2, << >>, d2, cl) /\ Introduced(m, d2, cl)
    BY <2>8, SeatBegins
  <2> HIDE DEF d2
  <2>6. QED
    BY <2>1, <2>4, <2>5
<1>19. /\ Talk(conn'[e], << >>, down'[e]) /\ Playing(m, 1, << >>, down'[e])
       /\ \A cl : Told(m, 1, << >>, down'[e], cl) /\ (e \notin cut => Introduced(m, down'[e], cl))
  <2> DEFINE d2 == (down[e] \o <<f>>) \o <<r(1)>>
  <2>1. (down'[e] = down[e] /\ e \in cut) \/ down'[e] = d2
    BY <1>10, <1>14, <1>17
  <2>2. /\ down[e] \in Seq(DownMsgs) /\ conn'[e].state = "IN_MATCH" /\ m.round \in Nat
        /\ \A j \in 1 .. Len(down[e]) :
             down[e][j].type \in {"PLAY_REJECT", "DRAFT_DONE"} /\ ~Ask(conn'[e].mode, down[e][j])
    BY <1>1, <1>8, <1>10, <1>12
  <2>3. /\ f \in DownMsgs /\ f.type = "MATCH_FOUND" /\ f.match = m.id
        /\ r(1) \in DownMsgs /\ r(1).type = "ROUND_START" /\ r(1).round = m.round /\ r(1).legal = m.legal[1]
        /\ m.lock[1] = None
    BY <1>2, <1>3, <1>4
  <2>7. Beginning(conn'[e], down[e], m, 1, f, r(1))
    BY <2>2, <2>3 DEF Beginning
  <2>4. /\ Talk(conn'[e], << >>, down[e]) /\ Playing(m, 1, << >>, down[e])
        /\ \A cl : Told(m, 1, << >>, down[e], cl)
    BY <2>7, SeatBegins
  <2>5. /\ Talk(conn'[e], << >>, d2) /\ Playing(m, 1, << >>, d2)
        /\ \A cl : Told(m, 1, << >>, d2, cl) /\ Introduced(m, d2, cl)
    BY <2>7, SeatBegins
  <2> HIDE DEF d2
  <2>6. QED
    BY <2>1, <2>4, <2>5
<1>20. \A n \in matches, s \in 1 .. 2 : n.conn[s] \in Conns \ {c, e}
  BY SeatedAt DEF Inv
<1>21. /\ up'[e] = << >>
       /\ \A n \in matches, s \in 1 .. 2 : up'[n.conn[s]] = up[n.conn[s]] /\ down'[n.conn[s]] = down[n.conn[s]]
  BY <1>11, <1>12, <1>15, <1>20
<1>22. StreamsOK' /\ RecordsOK'
  <2>1. StreamsOK'
    BY <1>8, <1>11, <1>14 DEF StreamsOK
  <2>2. matches' \in SUBSET MatchRecs /\ next_match' \in Nat /\ games' \in SUBSET DeckRecs
        /\ client' \in [Clients -> ClientRecs]
    BY <1>1, <1>8 DEF RecordsOK
  <2>3. QED
    BY <1>9, <2>1, <2>2 DEF RecordsOK
<1>23. DriversOK'
  <2>1. \A y \in Conns : conn[y].state # "FREE" => conn'[y].state # "FREE" /\ conn'[y].mode = conn[y].mode
    BY <1>9, <1>10
  <2>2. \A y \in Conns : conn[y].state = "FREE" => conn'[y].state = "FREE"
    BY <1>9
  <2>3. QED
    BY <2>1, <2>2 DEF Inv, DriversOK, RecordsOK, ClientRecs
<1>24. ConnsOK'
  <2>1. \A y \in Conns \ {c, e} : ConnOK(conn'[y], drafts') /\ (conn'[y].state = "FREE" => up'[y] = << >>)
    BY <1>9, <1>11 DEF Inv, ConnsOK, ConnOK
  <2>2. QED
    BY <1>10, <2>1 DEF ConnsOK
<1>25. MatchOK(m)'
  <2>1. m.mode = "draft" => /\ [id |-> conn[e].deck_id, deck |-> conn[e].deck] \in drafts'
                            /\ [id |-> cn.deck_id, deck |-> cn.deck] \in drafts'
    BY DEF Inv, ConnsOK, ConnOK
  <2>2. m.deck[1] = conn[e].deck /\ m.deck[2] = cn.deck /\ m.deck_id[1] = conn[e].deck_id /\ m.deck_id[2] = cn.deck_id
    OBVIOUS
  <2>3. \A s \in 1 .. 2 : s = 1 \/ s = 2
    OBVIOUS
  <2>4. m.round \in 1 .. MaxRounds[m.mode]
    <3>1. m.mode \in Modes
      BY DEF MatchRecs
    <3>2. MaxRounds[m.mode] \in Nat \ {0}
      BY <3>1, PlayConstants
    <3>3. QED
      BY <3>2
  <2>5. \A s \in 1 .. 2 : conn'[m.conn[s]].state = "IN_MATCH"
    BY <1>1, <1>10, <2>3
  <2>6. m.mode = "draft" => \A s \in 1 .. 2 : [id |-> m.deck_id[s], deck |-> m.deck[s]] \in drafts'
    BY <2>1, <2>2, <2>3
  <2>7. QED
    BY <1>1, <2>4, <2>5, <2>6 DEF MatchOK
<1>26. MatchesOK'
  <2>1. \A n \in matches : MatchOK(n)'
    BY <1>9, <1>20 DEF Inv, MatchesOK, MatchOK
  <2>2. \A s \in 1 .. 2 : m.conn[s] \in {c, e}
    BY <1>1
  <2>3. \A a, b \in matches', s, t \in 1 .. 2 : a.conn[s] = b.conn[t] => a = b
    BY <1>20, <2>2 DEF Inv, MatchesOK
  <2>4. \A y \in Conns : conn'[y].state = "IN_MATCH" => \E n \in matches', s \in 1 .. 2 : n.conn[s] = y
    <3>1. \A y \in Conns \ {c, e} : conn'[y].state = "IN_MATCH" => \E n \in matches', s \in 1 .. 2 : n.conn[s] = y
      BY <1>9 DEF Inv, MatchesOK
    <3>2. \A y \in {c, e} : \E s \in 1 .. 2 : m.conn[s] = y
      BY <1>1
    <3>3. QED
      BY <3>1, <3>2
  <2>5. QED
    BY <1>25, <2>1, <2>3, <2>4 DEF MatchesOK
<1>27. Talks(up)'
  BY <1>9, <1>11, <1>15, <1>18, <1>19, <1>21 DEF Inv, Talks
<1>28. Playings(up)'
  <2>1. \A n \in matches, s \in 1 .. 2 : Playing(n, s, up'[n.conn[s]], down'[n.conn[s]])
    BY <1>21 DEF Inv, Playings
  <2>2. \A s \in 1 .. 2 : Playing(m, s, up'[m.conn[s]], down'[m.conn[s]])
    BY <1>1, <1>11, <1>18, <1>19, <1>21
  <2>3. QED
    BY <2>1, <2>2 DEF Playings
<1>29. Tolds(up)'
  <2>1. \A n \in matches, s \in 1 .. 2, p \in Clients :
          client'[p].at = n.conn[s] => /\ Told(n, s, up'[n.conn[s]], down'[n.conn[s]], client'[p])
                                       /\ n.conn[s] \notin cut' => Introduced(n, down'[n.conn[s]], client'[p])
    BY <1>21 DEF Inv, Tolds
  <2>2. \A s \in 1 .. 2, p \in Clients :
          /\ Told(m, s, up'[m.conn[s]], down'[m.conn[s]], client'[p])
          /\ m.conn[s] \notin cut' => Introduced(m, down'[m.conn[s]], client'[p])
    BY <1>1, <1>11, <1>18, <1>19, <1>21
  <2>3. QED
    BY <2>1, <2>2 DEF Tolds
<1>30. LogOK'
  OBVIOUS
<1>31. QED
  BY <1>22, <1>23, <1>24, <1>26, <1>27, <1>28, <1>29, <1>30 DEF Inv

\* log_deck: an id that no deck had.
LEMMA DeckLogged ==
    ASSUME LogOK, RecordsOK, NEW cards \in Decks, LogDeck(next_deck, cards), next_deck' = next_deck + 1, games' = games
    PROVE  /\ LogOK' /\ drafts \subseteq drafts' /\ drafts' \in SUBSET DeckRecs
           /\ next_deck' \in Nat /\ [id |-> next_deck, deck |-> cards] \in drafts'
<1> DEFINE r == [id |-> next_deck, deck |-> cards]
<1>1. drafts' = drafts \cup {r} /\ next_deck \in Nat /\ r \in DeckRecs /\ r.id = next_deck
  BY DEF LogDeck, RecordsOK, DeckRecs
<1> HIDE DEF r
<1>2. \A q \in drafts : q.id \in Nat /\ q.id < next_deck
  BY DEF LogOK, RecordsOK, DeckRecs
<1>3. \A q \in drafts' : q.id < next_deck'
  BY <1>1, <1>2
<1>4. \A p, q \in drafts' : p.id = q.id => p = q
  BY <1>1, <1>2 DEF LogOK
<1>5. LogOK'
  BY <1>1, <1>3, <1>4 DEF LogOK
<1>6. QED
  BY <1>1, <1>5 DEF RecordsOK, r

LEMMA EntersQueue ==
    ASSUME Inv, NEW c \in Conns, conn[c].state \in {"READY", "DRAFTING"},
           up' = [up EXCEPT ![c] = << >>], AllRejects(down[c]),
           NEW self \in ConnRecs, self.mode = conn[c].mode, ConnOK([self EXCEPT !.state = "QUEUED"], drafts'),
           NEW first \in [Conns -> Seq(DownMsgs)], \A y \in Conns \ {c} : first[y] = << >>,
           \/ first[c] = << >>
           \/ self.mode # "constructed" /\ \E x \in DownMsgs : first[c] = <<x>> /\ x.type = "DRAFT_DONE",
           EnterQueue(c, self, first), UNCHANGED <<client, games, cut, closing>>,
           drafts \subseteq drafts', LogOK', next_deck' \in Nat, drafts' \in SUBSET DeckRecs
    PROVE  Inv'
<1> DEFINE cn == [self EXCEPT !.state = "QUEUED"]
           here == [conn EXCEPT ![c] = cn]
           rivals == {d \in Conns \ {c} : conn[d].state = "QUEUED" /\ conn[d].mode = self.mode}
<1>1. /\ cn \in ConnRecs /\ cn.state = "QUEUED" /\ cn.mode = self.mode /\ cn.deck = self.deck
      /\ cn.deck_id = self.deck_id /\ ConnOK(cn, drafts')
  BY DEF ConnRecs, States
<1>2. conn \in [Conns -> ConnRecs] /\ next_match \in Nat
  BY DEF Inv, RecordsOK
<1> HIDE DEF cn
<1>3. CASE conn' = here /\ Deliver(first) /\ UNCHANGED <<matches, next_match>>
  BY <1>1, <1>3, QueuesAlone
<1>4. CASE \E d \in rivals :
             LET m0 == [id |-> next_match, conn |-> <<d, c>>, mode |-> self.mode, round |-> 0,
                        legal |-> <<{}, {}>>, lock |-> <<None, None>>,
                        deck |-> <<here[d].deck, here[c].deck>>,
                        deck_id |-> <<here[d].deck_id, here[c].deck_id>>]
                 found == [x \in Conns |-> IF x \in {c, d} THEN <<[type |-> "MATCH_FOUND", match |-> next_match]>>
                                           ELSE << >>]
             IN  /\ conn' = [x \in Conns |-> IF x \in {c, d} THEN [here[x] EXCEPT !.state = "IN_MATCH"] ELSE here[x]]
                 /\ next_match' = next_match + 1
                 /\ \E m \in BeginRounds(m0) :
                      /\ matches' = matches \cup {m}
                      /\ Deliver(Both(first, Both(found, RoundStart(m))))
  <2>1. PICK e \in rivals :
             LET m0 == [id |-> next_match, conn |-> <<e, c>>, mode |-> self.mode, round |-> 0,
                        legal |-> <<{}, {}>>, lock |-> <<None, None>>,
                        deck |-> <<here[e].deck, here[c].deck>>,
                        deck_id |-> <<here[e].deck_id, here[c].deck_id>>]
                 found == [x \in Conns |-> IF x \in {c, e} THEN <<[type |-> "MATCH_FOUND", match |-> next_match]>>
                                           ELSE << >>]
             IN  /\ conn' = [x \in Conns |-> IF x \in {c, e} THEN [here[x] EXCEPT !.state = "IN_MATCH"] ELSE here[x]]
                 /\ next_match' = next_match + 1
                 /\ \E m \in BeginRounds(m0) :
                      /\ matches' = matches \cup {m}
                      /\ Deliver(Both(first, Both(found, RoundStart(m))))
    BY <1>4
  <2> DEFINE m0 == [id |-> next_match, conn |-> <<e, c>>, mode |-> self.mode, round |-> 0,
                    legal |-> <<{}, {}>>, lock |-> <<None, None>>,
                    deck |-> <<here[e].deck, here[c].deck>>,
                    deck_id |-> <<here[e].deck_id, here[c].deck_id>>]
             found == [x \in Conns |-> IF x \in {c, e} THEN <<[type |-> "MATCH_FOUND", match |-> next_match]>>
                                       ELSE << >>]
  <2>2. PICK m \in BeginRounds(m0) : matches' = matches \cup {m} /\ Deliver(Both(first, Both(found, RoundStart(m))))
    BY <2>1
  <2>3. e \in Conns \ {c} /\ conn[e].state = "QUEUED" /\ conn[e].mode = self.mode /\ conn[e] \in ConnRecs
    BY <1>2
  <2>4. here[c] = cn /\ here[e] = conn[e] /\ \A x \in Conns \ {c} : here[x] = conn[x]
    BY <1>2, <2>3
  <2>5. conn' = [x \in Conns |-> IF x \in {c, e} THEN [here[x] EXCEPT !.state = "IN_MATCH"] ELSE here[x]]
    BY <2>1
  <2>6. conn' = [x \in Conns |-> IF x = c THEN [cn EXCEPT !.state = "IN_MATCH"]
                                 ELSE IF x = e THEN [conn[e] EXCEPT !.state = "IN_MATCH"] ELSE conn[x]]
    <3> HIDE DEF here
    <3>1. \A x \in Conns : (IF x \in {c, e} THEN [here[x] EXCEPT !.state = "IN_MATCH"] ELSE here[x])
                          = (IF x = c THEN [cn EXCEPT !.state = "IN_MATCH"]
                             ELSE IF x = e THEN [conn[e] EXCEPT !.state = "IN_MATCH"] ELSE conn[x])
      BY <2>3, <2>4
    <3>2. QED
      BY <2>5, <3>1
  <2>7. /\ m0.id = next_match /\ m0.conn = <<e, c>> /\ m0.mode = cn.mode /\ m0.round = 0
        /\ m0.deck = <<conn[e].deck, cn.deck>> /\ m0.deck_id = <<conn[e].deck_id, cn.deck_id>>
    BY <1>1, <2>4
  <2>8. Unfought(m0)
    <3>1. <<e, c>> \in [1 .. 2 -> Conns]
      BY <2>3
    <3>2. <<here[e].deck, here[c].deck>> \in [1 .. 2 -> Decks \cup {None}]
      <4>1. here[e].deck \in Decks \cup {None} /\ here[c].deck \in Decks \cup {None}
        BY <1>1, <2>3, <2>4 DEF ConnRecs
      <4>2. QED
        BY <4>1
    <3>3. <<here[e].deck_id, here[c].deck_id>> \in [1 .. 2 -> Nat]
      <4>1. here[e].deck_id \in Nat /\ here[c].deck_id \in Nat
        BY <1>1, <2>3, <2>4 DEF ConnRecs
      <4>2. QED
        BY <4>1
    <3>4. self.mode \in Modes
      BY DEF Inv, ConnsOK, ConnOK
    <3> HIDE DEF here
    <3>5. QED
      BY <1>2, <3>1, <3>2, <3>3, <3>4 DEF Unfought
  <2> HIDE DEF m0
  <2>9. /\ m \in MatchRecs /\ m.round = m0.round + 1 /\ m.lock[1] = None /\ m.lock[2] = None
        /\ m.id = m0.id /\ m.conn = m0.conn /\ m.mode = m0.mode /\ m.deck = m0.deck /\ m.deck_id = m0.deck_id
    BY <2>2, <2>8, BeginRoundsOK
  <2>10. m.round = 1
    BY <2>7, <2>9
  <2>11. next_match' = next_match + 1
    BY <2>1
  <2> HIDE DEF here, rivals
  <2>12. QED
    BY ZenonT(60), <1>1, <2>2, <2>3, <2>6, <2>7, <2>9, <2>10, <2>11, Pairs
<1>5. QED
  BY <1>3, <1>4 DEF EnterQueue, cn

\* What every handler of a request finds.
LEMMA RequestRead ==
    ASSUME Inv, NEW c \in Conns, conn[c].state # "FREE", up[c] # << >>, up' = [up EXCEPT ![c] = Tail(@)],
           Head(up[c]).type # "PLAY"
    PROVE  /\ up' = [up EXCEPT ![c] = << >>] /\ AllRejects(down[c]) /\ RequestFits(conn[c], Head(up[c]))
           /\ Head(up[c]) \in UpMsgs /\ conn[c].mode \in Modes /\ conn[c] \in ConnRecs /\ ConnOK(conn[c], drafts)
<1>1. up[c] \in Seq(UpMsgs) /\ down[c] \in Seq(DownMsgs) /\ Talk(conn[c], up[c], down[c])
  BY DEF Inv, StreamsOK, Talks
<1>2. Head(up[c]) = up[c][1] /\ up[c][1] \in UpMsgs
  BY <1>1, Popped
<1>3. Request(up[c][1])
  BY <1>2 DEF Request
<1>4. Tail(up[c]) = << >> /\ AllRejects(down[c]) /\ RequestFits(conn[c], up[c][1])
  BY <1>1, <1>3, TakesRequest
<1>5. up' = [up EXCEPT ![c] = << >>]
  BY <1>4
<1>6. conn[c].mode \in Modes /\ conn[c] \in ConnRecs /\ ConnOK(conn[c], drafts)
  BY DEF Inv, RecordsOK, ConnsOK, ConnOK
<1>7. QED
  BY <1>2, <1>4, <1>5, <1>6

\* What is sent to one connection before the queue: nothing.
LEMMA NothingTo ==
    Nothing \in [Conns -> Seq(DownMsgs)] /\ \A c \in Conns : Nothing[c] = << >>
<1>1. << >> \in Seq(DownMsgs)
  OBVIOUS
<1>2. QED
  BY <1>1 DEF Nothing

\* An offer, as a message.
LEMMA OfferSent ==
    ASSUME NEW d \in DraftRecs
    PROVE  \E x \in DownMsgs : Offer(d) = <<x>> /\ x.type = "DRAFT_OFFER" /\ x.left = d.left
<1> DEFINE x == [type |-> "DRAFT_OFFER", offer |-> d.offer, left |-> d.left]
<1>1. x \in DownMsgs
  BY DEF DownMsgs, DraftRecs
<1>2. x.type = "DRAFT_OFFER" /\ x.left = d.left /\ Offer(d) = <<x>>
  BY DEF Offer
<1>3. QED
  BY <1>1, <1>2

LEMMA QueueStep ==
    ASSUME Inv, NEW c \in Conns, conn[c].state # "FREE", up[c] # << >>, up' = [up EXCEPT ![c] = Tail(@)],
           Head(up[c]).type = "QUEUE", Queue(c, Head(up[c]))
    PROVE  Inv'
<1>1. /\ up' = [up EXCEPT ![c] = << >>] /\ AllRejects(down[c]) /\ RequestFits(conn[c], Head(up[c]))
      /\ conn[c].mode \in Modes /\ conn[c] \in ConnRecs /\ ConnOK(conn[c], drafts)
  BY RequestRead
<1>2. conn[c].state = "READY" /\ (conn[c].mode = "constructed" => conn[c].deck # None)
  BY <1>1 DEF RequestFits
<1>3. /\ QueuesAtOnce(c, Head(up[c])) => EnterQueue(c, conn[c], Nothing)
      /\ ~QueuesAtOnce(c, Head(up[c])) => StartDraft(c) /\ UNCHANGED <<matches, next_match>>
      /\ UNCHANGED <<client, next_deck, logVars, cut, closing, faults>>
  BY <1>2 DEF Queue
<1>4. /\ client' = client /\ next_deck' = next_deck /\ drafts' = drafts /\ games' = games /\ cut' = cut
      /\ closing' = closing /\ LogOK' /\ next_deck' \in Nat /\ drafts' \in SUBSET DeckRecs
  BY <1>3 DEF logVars, Inv, LogOK, RecordsOK
<1>5. CASE QueuesAtOnce(c, Head(up[c]))
  <2>1. conn[c].mode # "card" => conn[c].deck # None
    BY <1>2, <1>5 DEF QueuesAtOnce
  <2>2. ConnOK([conn[c] EXCEPT !.state = "QUEUED"], drafts')
    BY <1>1, <1>2, <1>4, <2>1 DEF ConnOK, ConnRecs
  <2>3. EnterQueue(c, conn[c], Nothing)
    BY <1>3, <1>5
  <2>4. QED
    BY <1>1, <1>2, <1>4, <2>2, <2>3, NothingTo, EntersQueue
<1>6. CASE ~QueuesAtOnce(c, Head(up[c]))
  <2>1. conn[c].mode = "draft"
    BY <1>1, <1>2, <1>6, PlayConstants DEF QueuesAtOnce
  <2>2. PICK d \in NewDrafts :
          /\ conn' = [conn EXCEPT ![c] = [@ EXCEPT !.state = "DRAFTING", !.draft = d]]
          /\ Deliver(Only(c, Offer(d)))
    BY <1>3, <1>6 DEF StartDraft
  <2> DEFINE cn == [conn[c] EXCEPT !.state = "DRAFTING", !.draft = d]
  <2>3. DraftOK(d) /\ ~DraftDone(d) /\ d \in DraftRecs
    BY NewDraftOK
  <2>4. /\ cn \in ConnRecs /\ cn.state = "DRAFTING" /\ cn.mode = conn[c].mode /\ cn.draft = d /\ cn.deck = conn[c].deck
        /\ cn.deck_id = conn[c].deck_id
    BY <1>1, <2>3 DEF ConnRecs, States
  <2>5. conn' = [conn EXCEPT ![c] = cn]
    BY <2>2
  <2> HIDE DEF cn
  <2>6. ConnOK(cn, drafts')
    BY <1>1, <1>2, <1>4, <2>1, <2>3, <2>4 DEF ConnOK
  <2>7. PICK x \in DownMsgs : Offer(d) = <<x>> /\ x.type = "DRAFT_OFFER" /\ x.left = d.left
    BY <2>3, OfferSent
  <2>8. AskFits(cn, x)
    BY <2>4, <2>7 DEF AskFits
  <2>9. Deliver(Only(c, <<x>>))
    BY <2>2, <2>7
  <2>10. UNCHANGED <<client, matches, next_match, games, cut, closing>>
    BY <1>3, <1>4, <1>6
  <2>11. QED
    BY <1>1, <1>2, <1>4, <2>4, <2>5, <2>6, <2>8, <2>9, <2>10, AsksNext
<1>7. QED
  BY <1>5, <1>6

\* The deck is done, as a message.
LEMMA DoneSent ==
    ASSUME NEW id \in Nat, NEW cards \in Decks
    PROVE  \E x \in DownMsgs : DraftDoneMsg(id, cards) = <<x>> /\ x.type = "DRAFT_DONE"
<1> DEFINE x == [type |-> "DRAFT_DONE", deck_id |-> id, cards |-> cards]
<1>1. x \in DownMsgs
  BY DEF DownMsgs
<1>2. x.type = "DRAFT_DONE" /\ DraftDoneMsg(id, cards) = <<x>>
  BY DEF DraftDoneMsg
<1>3. QED
  BY <1>1, <1>2

LEMMA DraftPickStep ==
    ASSUME Inv, NEW c \in Conns, conn[c].state # "FREE", up[c] # << >>, up' = [up EXCEPT ![c] = Tail(@)],
           Head(up[c]).type = "DRAFT_PICK", DraftPick(c, Head(up[c]))
    PROVE  Inv'
<1> DEFINE msg == Head(up[c])
           dr == conn[c].draft
<1>1. /\ up' = [up EXCEPT ![c] = << >>] /\ AllRejects(down[c]) /\ RequestFits(conn[c], msg) /\ msg \in UpMsgs
      /\ conn[c].mode \in Modes /\ conn[c] \in ConnRecs /\ ConnOK(conn[c], drafts)
  BY RequestRead
<1>2. conn[c].state = "DRAFTING" /\ dr.left[msg.mult] > 0
  BY <1>1 DEF RequestFits
<1>3. conn[c].mode = "draft" /\ DraftOK(dr) /\ ~DraftDone(dr)
  BY <1>1, <1>2 DEF ConnOK
<1>4. PickValid(dr, msg.index, msg.mult)
  BY SMTT(30), <1>1, <1>2, <1>3, UpCases, PicksNat DEF PickValid, DraftOK, DraftDone
<1>5. UNCHANGED <<client, games, cut, closing, faults>>
  BY <1>2 DEF DraftPick
<1>6. PICK d \in Picked(dr, msg.index, msg.mult) :
        IF DraftDone(d)
        THEN /\ next_deck' = next_deck + 1
             /\ LogDeck(next_deck, d.deck)
             /\ EnterQueue(c, [conn[c] EXCEPT !.draft = None, !.deck = d.deck, !.deck_id = next_deck],
                           Only(c, DraftDoneMsg(next_deck, d.deck)))
        ELSE /\ conn' = [conn EXCEPT ![c].draft = d]
             /\ Deliver(Only(c, Offer(d)))
             /\ UNCHANGED <<matches, next_match, next_deck, drafts>>
  BY <1>2, <1>4 DEF DraftPick
<1>7. DraftOK(d) /\ d \in DraftRecs
  BY <1>3, <1>4, PickedOK
<1>8. next_deck \in Nat /\ LogOK /\ RecordsOK
  BY DEF Inv, RecordsOK
<1> HIDE DEF msg, dr
<1>9. CASE DraftDone(d)
  <2> DEFINE self == [conn[c] EXCEPT !.draft = None, !.deck = d.deck, !.deck_id = next_deck]
             first == Only(c, DraftDoneMsg(next_deck, d.deck))
             cn == [self EXCEPT !.state = "QUEUED"]
  <2>1. DeckValid(d.deck) /\ d.deck \in Decks
    BY <1>7, <1>9, DoneIsValid
  <2>2. next_deck' = next_deck + 1 /\ LogDeck(next_deck, d.deck) /\ EnterQueue(c, self, first)
    BY <1>6, <1>9
  <2>3. /\ LogOK' /\ drafts \subseteq drafts' /\ drafts' \in SUBSET DeckRecs
        /\ next_deck' \in Nat /\ [id |-> next_deck, deck |-> d.deck] \in drafts'
    BY <1>5, <1>8, <2>1, <2>2, DeckLogged
  <2>4. self \in ConnRecs /\ self.mode = conn[c].mode
    BY <1>1, <1>8, <2>1 DEF ConnRecs
  <2>5. /\ cn.state = "QUEUED" /\ cn.mode = conn[c].mode /\ cn.deck = d.deck /\ cn.deck_id = next_deck
    BY <1>1 DEF ConnRecs
  <2>6. d.deck # None
    BY <2>1, PlayConstants
  <2> HIDE DEF self, cn
  <2>7. ConnOK(cn, drafts')
    BY <1>1, <2>1, <2>3, <2>5, <2>6 DEF ConnOK
  <2>8. PICK x \in DownMsgs : DraftDoneMsg(next_deck, d.deck) = <<x>> /\ x.type = "DRAFT_DONE"
    BY <1>8, <2>1, DoneSent
  <2>9. first \in [Conns -> Seq(DownMsgs)] /\ first[c] = <<x>> /\ \A y \in Conns \ {c} : first[y] = << >>
    BY <2>8, OnlyTo
  <2>10. self.mode # "constructed" /\ \E z \in DownMsgs : first[c] = <<z>> /\ z.type = "DRAFT_DONE"
    BY <1>3, <2>4, <2>8, <2>9
  <2>11. ConnOK([self EXCEPT !.state = "QUEUED"], drafts')
    BY <2>7 DEF cn
  <2>12. UNCHANGED <<client, games, cut, closing>>
    BY <1>5
  <2> HIDE DEF first
  <2>13. QED
    BY <1>1, <1>2, <2>2, <2>3, <2>4, <2>9, <2>10, <2>11, <2>12, EntersQueue
<1>10. CASE ~DraftDone(d)
  <2> DEFINE cn == [conn[c] EXCEPT !.draft = d]
  <2>1. /\ conn' = [conn EXCEPT ![c] = cn] /\ Deliver(Only(c, Offer(d)))
        /\ UNCHANGED <<matches, next_match, next_deck, drafts>>
    BY <1>6, <1>10
  <2>2. /\ cn \in ConnRecs /\ cn.state = "DRAFTING" /\ cn.mode = conn[c].mode /\ cn.draft = d /\ cn.deck = conn[c].deck
        /\ cn.deck_id = conn[c].deck_id
    BY <1>1, <1>2, <1>7 DEF ConnRecs, States
  <2> HIDE DEF cn
  <2>3. ConnOK(cn, drafts')
    BY <1>1, <1>2, <1>3, <1>7, <1>10, <2>1, <2>2 DEF ConnOK
  <2>4. PICK x \in DownMsgs : Offer(d) = <<x>> /\ x.type = "DRAFT_OFFER" /\ x.left = d.left
    BY <1>7, OfferSent
  <2>5. AskFits(cn, x) /\ Deliver(Only(c, <<x>>))
    BY <2>1, <2>2, <2>4 DEF AskFits
  <2>6. LogOK' /\ next_deck' \in Nat /\ drafts' \in SUBSET DeckRecs /\ drafts' = drafts
    BY <1>5, <1>8, <2>1 DEF LogOK, RecordsOK
  <2>7. UNCHANGED <<client, matches, next_match, games, cut, closing>>
    BY <1>5, <2>1
  <2>8. QED
    BY <1>1, <1>2, <2>1, <2>2, <2>3, <2>5, <2>6, <2>7, AsksNext
<1>11. QED
  BY <1>9, <1>10

LEMMA DraftResumeStep ==
    ASSUME Inv, NEW c \in Conns, conn[c].state # "FREE", up[c] # << >>, up' = [up EXCEPT ![c] = Tail(@)],
           Head(up[c]).type = "DRAFT_RESUME", DraftResume(c, Head(up[c]))
    PROVE  Inv'
<1> DEFINE msg == Head(up[c])
           cn == [conn[c] EXCEPT !.deck = msg.cards, !.deck_id = next_deck]
<1>1. /\ up' = [up EXCEPT ![c] = << >>] /\ AllRejects(down[c]) /\ RequestFits(conn[c], msg) /\ msg \in UpMsgs
      /\ conn[c].mode \in Modes /\ conn[c] \in ConnRecs /\ ConnOK(conn[c], drafts)
  BY RequestRead
<1>2. conn[c].state = "READY" /\ conn[c].mode = "constructed"
  BY <1>1 DEF RequestFits
<1>3. msg.cards \in Decks /\ DeckValid(msg.cards) /\ msg.cards # None
  BY <1>1, UpCases, PlayConstants DEF LegalDecks
<1>4. /\ conn' = [conn EXCEPT ![c] = cn] /\ next_deck' = next_deck + 1 /\ drafts' = drafts
      /\ Deliver(Only(c, DraftDoneMsg(next_deck, msg.cards)))
      /\ UNCHANGED <<client, matches, next_match, games, cut, closing, faults>>
  BY <1>2, <1>3 DEF DraftResume
<1>5. next_deck \in Nat /\ LogOK /\ RecordsOK
  BY DEF Inv, RecordsOK
<1> HIDE DEF msg
<1>6. /\ cn \in ConnRecs /\ cn.state = "READY" /\ cn.mode = conn[c].mode /\ cn.deck = msg.cards
  BY <1>1, <1>2, <1>3, <1>5 DEF ConnRecs
<1> HIDE DEF cn
<1>7. ConnOK(cn, drafts')
  BY <1>1, <1>2, <1>3, <1>6 DEF ConnOK
<1>8. PICK x \in DownMsgs : DraftDoneMsg(next_deck, msg.cards) = <<x>> /\ x.type = "DRAFT_DONE"
  BY <1>3, <1>5, DoneSent
<1>9. AskFits(cn, x) /\ Deliver(Only(c, <<x>>))
  BY <1>3, <1>4, <1>6, <1>8 DEF AskFits
<1>10. /\ LogOK' /\ next_deck' \in Nat /\ drafts' \in SUBSET DeckRecs
  <2>1. \A r \in drafts : r.id \in Nat /\ r.id < next_deck
    BY <1>5 DEF LogOK, RecordsOK, DeckRecs
  <2>2. \A r \in drafts' : r.id < next_deck'
    BY <1>4, <1>5, <2>1
  <2>3. QED
    BY <1>4, <1>5, <2>2 DEF LogOK, RecordsOK
<1>11. UNCHANGED <<client, matches, next_match, games, cut, closing>>
  BY <1>4
<1>12. QED
  BY <1>1, <1>2, <1>4, <1>6, <1>7, <1>9, <1>10, <1>11, AsksNext

-----------------------------------------------------------------------------
(***************************************************************************)
(* Plays, deadlines and connections that close.                            *)
(***************************************************************************)

\* What holds when U is left of up and the handler has still to act.
Midway(U) ==
    /\ StreamsOK /\ RecordsOK /\ DriversOK /\ ConnsOK /\ MatchesOK /\ LogOK
    /\ U \in [Conns -> Seq(UpMsgs)] /\ \A x \in Conns : conn[x].state = "FREE" => U[x] = << >>
    /\ Talks(U) /\ Playings(U) /\ Tolds(U)

\* m is the match m0, with whatever locks.
SameMatch(m, m0) ==
    /\ Unfought(m) /\ m.id = m0.id /\ m.conn = m0.conn /\ m.mode = m0.mode /\ m.round = m0.round
    /\ m.deck = m0.deck /\ m.deck_id = m0.deck_id

LEMMA LocksOnly ==
    ASSUME NEW m0 \in MatchRecs, NEW k
    PROVE  SameMatch([m0 EXCEPT !.lock = k], m0) /\ [m0 EXCEPT !.lock = k].lock = k
<1> DEFINE m == [m0 EXCEPT !.lock = k]
<1>1. m0 = [id |-> m0.id, conn |-> m0.conn, mode |-> m0.mode, round |-> m0.round, legal |-> m0.legal,
            lock |-> m0.lock, deck |-> m0.deck, deck_id |-> m0.deck_id]
  BY DEF MatchRecs
<1>2. m = [id |-> m0.id, conn |-> m0.conn, mode |-> m0.mode, round |-> m0.round, legal |-> m0.legal,
           lock |-> k, deck |-> m0.deck, deck_id |-> m0.deck_id]
  BY <1>1
<1>3. /\ m0.id \in Nat /\ m0.conn \in [1 .. 2 -> Conns] /\ m0.mode \in Modes /\ m0.round \in Nat
      /\ m0.deck \in [1 .. 2 -> Decks \cup {None}] /\ m0.deck_id \in [1 .. 2 -> Nat]
  BY DEF MatchRecs
<1> HIDE DEF m
<1>4. /\ m.id = m0.id /\ m.conn = m0.conn /\ m.mode = m0.mode /\ m.round = m0.round
      /\ m.deck = m0.deck /\ m.deck_id = m0.deck_id /\ m.legal = m0.legal /\ m.lock = k
  BY <1>2
<1>5. Unfought(m)
  <2>1. m = [id |-> m.id, conn |-> m.conn, mode |-> m.mode, round |-> m.round, legal |-> m.legal,
             lock |-> m.lock, deck |-> m.deck, deck_id |-> m.deck_id]
    BY <1>2, <1>4
  <2>2. QED
    BY <1>3, <1>4, <2>1 DEF Unfought
<1>6. QED
  BY <1>4, <1>5 DEF SameMatch, m

\* A play is read.
LEMMA PlayRead ==
    ASSUME Inv, NEW c \in Conns, conn[c].state # "FREE", up[c] # << >>, up' = [up EXCEPT ![c] = Tail(@)],
           Head(up[c]).type = "PLAY"
    PROVE  Midway(up')
<1>1. up \in [Conns -> Seq(UpMsgs)] /\ up[c] \in Seq(UpMsgs) /\ \A x \in Conns : down[x] \in Seq(DownMsgs)
  BY DEF Inv, StreamsOK
<1>2. Head(up[c]) = up[c][1] /\ Tail(up[c]) \in Seq(UpMsgs)
  BY <1>1, Popped
<1>3. up' \in [Conns -> Seq(UpMsgs)] /\ up'[c] = Tail(up[c]) /\ \A x \in Conns \ {c} : up'[x] = up[x]
  BY <1>1, <1>2
<1>4. \A x \in Conns : conn[x].state = "FREE" => up'[x] = << >>
  BY <1>3 DEF Inv, ConnsOK
<1>5. Talks(up')
  <2>1. ASSUME NEW x \in Conns, conn[x].state # "FREE"
        PROVE  Talk(conn[x], up'[x], down[x])
    <3>1. Talk(conn[x], up[x], down[x])
      BY <2>1 DEF Inv, Talks
    <3>2. CASE x = c
      BY <1>1, <1>2, <1>3, <3>1, <3>2, TakesPlay
    <3>3. CASE x # c
      BY <1>3, <3>1, <3>3
    <3>4. QED
      BY <3>2, <3>3
  <2>2. QED
    BY <2>1 DEF Talks
<1>6. ASSUME NEW m \in matches, NEW s \in 1 .. 2
      PROVE  /\ Playing(m, s, up'[m.conn[s]], down[m.conn[s]])
             /\ \A cl : Told(m, s, up[m.conn[s]], down[m.conn[s]], cl) =>
                        Told(m, s, up'[m.conn[s]], down[m.conn[s]], cl)
  <2>1. Playing(m, s, up[m.conn[s]], down[m.conn[s]])
    BY DEF Inv, Playings
  <2>2. m.conn[s] \in Conns
    BY SeatedAt DEF Inv
  <2>3. CASE m.conn[s] = c
    <3>1. /\ Playing(m, s, Tail(up[c]), down[c])
          /\ \A cl : Told(m, s, up[c], down[c], cl) => Told(m, s, Tail(up[c]), down[c], cl)
      BY <1>1, <2>1, <2>3, PlayTaken
    <3>2. QED
      BY <1>3, <2>3, <3>1
  <2>4. CASE m.conn[s] # c
    BY <1>3, <2>1, <2>2, <2>4
  <2>5. QED
    BY <2>3, <2>4
<1>7. Playings(up')
  BY <1>6 DEF Playings
<1>8. Tolds(up')
  BY <1>6 DEF Inv, Tolds
<1>9. QED
  BY <1>3, <1>4, <1>5, <1>7, <1>8 DEF Inv, Midway

\* A late play is rejected.
LEMMA Rejects ==
    ASSUME Midway(up'), NEW c \in Conns, NEW x \in DownMsgs, x.type = "PLAY_REJECT", Deliver(Only(c, <<x>>)),
           UNCHANGED <<client, conn, matches, next_match, next_deck, drafts, games, cut, closing>>
    PROVE  Inv'
<1>1. /\ down' \in [Conns -> Seq(DownMsgs)] /\ \A y \in Conns \ {c} : down'[y] = down[y]
      /\ down'[c] = down[c] \/ down'[c] = down[c] \o <<x>>
  <2>1. StreamsOK
    BY DEF Midway
  <2>2. QED
    BY <2>1, DeliveredTo
<1>2. StreamsOK' /\ RecordsOK' /\ DriversOK' /\ MatchesOK' /\ LogOK' /\ ConnsOK'
  <2>1. StreamsOK'
    BY <1>1 DEF Midway, StreamsOK
  <2>2. RecordsOK'
    BY DEF Midway, RecordsOK
  <2>3. DriversOK'
    BY DEF Midway, DriversOK
  <2>4. MatchesOK'
    BY DEF Midway, MatchesOK, MatchOK
  <2>5. LogOK'
    BY DEF Midway, LogOK
  <2>6. ConnsOK'
    BY DEF Midway, ConnsOK
  <2>7. QED
    BY <2>1, <2>2, <2>3, <2>4, <2>5, <2>6
<1>3. \A y \in Conns : up'[y] \in Seq(UpMsgs) /\ down[y] \in Seq(DownMsgs)
  BY DEF Midway, StreamsOK
<1>4. Talks(up)'
  <2>1. ASSUME NEW y \in Conns, conn[y].state # "FREE"
        PROVE  Talk(conn[y], up'[y], down'[y])
    <3>1. Talk(conn[y], up'[y], down[y])
      BY <2>1 DEF Midway, Talks
    <3>2. Talk(conn[y], up'[y], down[y] \o <<x>>)
      BY <1>3, <3>1, Tells
    <3>3. QED
      BY <1>1, <3>1, <3>2
  <2>2. QED
    BY <2>1 DEF Talks
<1>5. ASSUME NEW m \in matches, NEW s \in 1 .. 2
      PROVE  /\ Playing(m, s, up'[m.conn[s]], down'[m.conn[s]])
             /\ \A cl : Told(m, s, up'[m.conn[s]], down[m.conn[s]], cl) =>
                        Told(m, s, up'[m.conn[s]], down'[m.conn[s]], cl)
             /\ \A cl : Introduced(m, down[m.conn[s]], cl) => Introduced(m, down'[m.conn[s]], cl)
  <2>1. Playing(m, s, up'[m.conn[s]], down[m.conn[s]])
    BY DEF Midway, Playings
  <2>2. m.conn[s] \in Conns
    BY SeatedAt DEF Midway
  <2>3. ~Starts(x)
    BY DEF Starts
  <2>4. /\ Playing(m, s, up'[m.conn[s]], down[m.conn[s]] \o <<x>>)
        /\ \A cl : Told(m, s, up'[m.conn[s]], down[m.conn[s]], cl) =>
                   Told(m, s, up'[m.conn[s]], down[m.conn[s]] \o <<x>>, cl)
        /\ \A cl : Introduced(m, down[m.conn[s]], cl) => Introduced(m, down[m.conn[s]] \o <<x>>, cl)
    BY <1>3, <2>1, <2>2, <2>3, PlayTells
  <2>5. QED
    BY <1>1, <2>1, <2>2, <2>4
<1>6. Playings(up)'
  BY <1>5 DEF Playings
<1>7. Tolds(up)'
  BY <1>5 DEF Midway, Tolds
<1>8. QED
  BY <1>2, <1>4, <1>6, <1>7 DEF Inv

\* A match is replaced by its next state: it is in the same connections.
LEMMA Replaced ==
    ASSUME MatchesOK, NEW m \in matches, NEW n, n.conn = m.conn, MatchOK(n)',
           matches' = (matches \ {m}) \cup {n}, conn' = conn, drafts' = drafts
    PROVE  MatchesOK'
<1>1. \A x, y \in matches, i, j \in 1 .. 2 : x.conn[i] = y.conn[j] => x = y
  BY DEF MatchesOK
<1>2. \A x \in matches' : MatchOK(x)'
  <2>1. ASSUME NEW x \in matches
        PROVE  MatchOK(x)'
    <3>1. MatchOK(x)
      BY DEF MatchesOK
    <3>2. QED
      BY <3>1 DEF MatchOK
  <2>2. QED
    BY <2>1
<1>3. ASSUME NEW x \in matches', NEW y \in matches', NEW i \in 1 .. 2, NEW j \in 1 .. 2, x.conn[i] = y.conn[j]
      PROVE  x = y
  <2>1. CASE x = n /\ y = n
    BY <2>1
  <2>2. CASE x = n /\ y # n
    <3>1. y \in matches /\ y # m /\ m.conn[i] = y.conn[j]
      BY <1>3, <2>2
    <3>2. QED
      BY <1>1, <3>1
  <2>3. CASE x # n /\ y = n
    <3>1. x \in matches /\ x # m /\ x.conn[i] = m.conn[j]
      BY <1>3, <2>3
    <3>2. QED
      BY <1>1, <3>1
  <2>4. CASE x # n /\ y # n
    BY <1>1, <1>3, <2>4
  <2>5. QED
    BY <2>1, <2>2, <2>3, <2>4
<1>4. ASSUME NEW x \in Conns, conn[x].state = "IN_MATCH"
      PROVE  \E y \in matches', i \in 1 .. 2 : y.conn[i] = x
  <2>1. PICK y \in matches, i \in 1 .. 2 : y.conn[i] = x
    BY <1>4 DEF MatchesOK
  <2>2. CASE y = m
    BY <2>1, <2>2
  <2>3. CASE y # m
    BY <2>1, <2>3
  <2>4. QED
    BY <2>2, <2>3
<1>5. QED
  BY <1>2, <1>3, <1>4 DEF MatchesOK

\* The first play of a round is locked; it was the last one of its seat.
LEMMA Locks ==
    ASSUME Inv, NEW m \in matches, NEW s \in 1 .. 2, NEW c, c = m.conn[s],
           up[c] # << >>, up' = [up EXCEPT ![c] = Tail(@)], up[c][1].round = m.round,
           NEW n, n = [m EXCEPT !.lock[s] = up[c][1].slot], None \in {n.lock[1], n.lock[2]},
           matches' = (matches \ {m}) \cup {n},
           UNCHANGED <<client, conn, next_match, next_deck, drafts, games, cut, closing, down>>
    PROVE  Inv'
<1> DEFINE slot == up[c][1].slot
<1>1. c \in Conns /\ conn[c].state = "IN_MATCH" /\ m \in MatchRecs /\ m.lock \in [1 .. 2 -> Slots \cup {None}]
  BY SeatedAt DEF Inv, RecordsOK, MatchRecs
<1>2. up \in [Conns -> Seq(UpMsgs)] /\ up[c] \in Seq(UpMsgs) /\ \A x \in Conns : down[x] \in Seq(DownMsgs)
  BY <1>1 DEF Inv, StreamsOK
<1>3. up[c][1] \in UpMsgs /\ Len(up[c]) \in Nat /\ 1 \in 1 .. Len(up[c])
  BY <1>2, Popped
<1>4. Playing(m, s, up[c], down[c]) /\ m.round \in Nat
  BY <1>1 DEF Inv, Playings, MatchRecs
<1>5. up[c][1].type = "PLAY"
  BY <1>3, <1>4 DEF Playing
<1>6. slot \in Slots
  BY <1>3, <1>5, UpCases
<1>7. Tail(up[c]) = << >> /\ \A j \in 1 .. Len(down[c]) : ~Starts(down[c][j])
  <2> DEFINE u == up[c]
             d == down[c]
  <2>1. u \in Seq(UpMsgs) /\ d \in Seq(DownMsgs) /\ u # << >> /\ Playing(m, s, u, d) /\ u[1].round = m.round
    BY <1>1, <1>2, <1>4
  <2> HIDE DEF u, d
  <2>2. Tail(u) = << >> /\ \A j \in 1 .. Len(d) : ~Starts(d[j])
    BY <1>4, <2>1, PlayIsLast
  <2>3. QED
    BY <2>2 DEF u, d
<1> HIDE DEF slot
<1>8. n = [m EXCEPT !.lock = [m.lock EXCEPT ![s] = slot]]
  BY <1>1 DEF slot, MatchRecs
<1>9. /\ n \in MatchRecs /\ n.id = m.id /\ n.conn = m.conn /\ n.mode = m.mode /\ n.round = m.round
      /\ n.legal = m.legal /\ n.deck = m.deck /\ n.deck_id = m.deck_id /\ n.lock = [m.lock EXCEPT ![s] = slot]
  <2>1. [m.lock EXCEPT ![s] = slot] \in [1 .. 2 -> Slots \cup {None}]
    BY <1>1, <1>6
  <2> DEFINE k == [m.lock EXCEPT ![s] = slot]
  <2> HIDE DEF k
  <2>2. n = [m EXCEPT !.lock = k] /\ k \in [1 .. 2 -> Slots \cup {None}]
    BY <1>8, <2>1 DEF k
  <2>3. /\ n \in MatchRecs /\ n.id = m.id /\ n.conn = m.conn /\ n.mode = m.mode /\ n.round = m.round
        /\ n.legal = m.legal /\ n.deck = m.deck /\ n.deck_id = m.deck_id /\ n.lock = k
    BY <1>1, <2>2 DEF MatchRecs
  <2>4. QED
    BY <2>3 DEF k
<1>10. n.lock[s] = slot /\ \A t \in 1 .. 2 : t # s => n.lock[t] = m.lock[t]
  BY <1>1, <1>9
<1>11. Midway(up')
  <2>1. conn[c].state # "FREE" /\ Head(up[c]).type = "PLAY"
    BY <1>1, <1>2, <1>5, Popped
  <2>2. QED
    BY <1>1, <2>1, PlayRead
<1>12. up'[c] = << >>
  BY <1>1, <1>2, <1>7
<1>13. StreamsOK' /\ RecordsOK' /\ DriversOK' /\ ConnsOK' /\ LogOK'
  <2>1. StreamsOK'
    BY <1>11 DEF Midway, StreamsOK
  <2>2. RecordsOK'
    BY <1>9, <1>11 DEF Midway, RecordsOK
  <2>3. DriversOK'
    BY <1>11 DEF Midway, DriversOK
  <2>4. ConnsOK'
    BY <1>11 DEF Midway, ConnsOK
  <2>5. LogOK'
    BY <1>11 DEF Midway, LogOK
  <2>6. QED
    BY <2>1, <2>2, <2>3, <2>4, <2>5
<1>14. MatchesOK'
  <2>1. MatchOK(n)'
    <3>1. MatchOK(m)
      BY DEF Inv, MatchesOK
    <3>2. QED
      BY <1>9, <3>1 DEF MatchOK
  <2>2. QED
    BY <1>9, <2>1, Replaced DEF Inv
<1>15. Talks(up)'
  BY <1>11 DEF Midway, Talks
<1>16. ASSUME NEW t \in 1 .. 2
       PROVE  /\ Playing(n, t, up'[n.conn[t]], down[n.conn[t]])
              /\ \A p \in Clients : client[p].at = n.conn[t] =>
                   /\ Told(n, t, up'[n.conn[t]], down[n.conn[t]], client[p])
                   /\ n.conn[t] \notin cut => Introduced(n, down[n.conn[t]], client[p])
  <2>1. /\ Playing(m, t, up'[m.conn[t]], down[m.conn[t]])
        /\ \A p \in Clients : client[p].at = m.conn[t] =>
             /\ Told(m, t, up'[m.conn[t]], down[m.conn[t]], client[p])
             /\ m.conn[t] \notin cut => Introduced(m, down[m.conn[t]], client[p])
    BY <1>11 DEF Midway, Playings, Tolds
  <2>2. CASE t = s
    <3>1. Playing(n, t, up'[n.conn[t]], down[n.conn[t]])
      <4>1. Playing(m, s, << >>, down[c])
        BY <1>12, <2>1, <2>2
      <4>2. Playing(n, s, << >>, down[c])
        BY <1>7, <1>9, <4>1, NoMessages DEF Playing
      <4>3. QED
        BY <1>9, <1>12, <2>2, <4>2
    <3>2. ASSUME NEW p \in Clients, client[p].at = c
          PROVE  Told(n, s, << >>, down[c], client[p]) /\ (c \notin cut => Introduced(n, down[c], client[p]))
      <4>1. Told(m, s, << >>, down[c], client[p]) /\ (c \notin cut => Introduced(m, down[c], client[p]))
        BY <1>12, <2>1, <2>2, <3>2
      <4>2. Told(m, s, up[c], down[c], client[p])
        BY <3>2 DEF Inv, Tolds
      <4>3. client[p].decided = Decision(m, slot)
        BY <1>3, <4>2 DEF Told, slot
      <4>4. Decision(m, slot) = Decision(n, slot)
        BY <1>9 DEF Decision
      <4>5. Told(n, s, << >>, down[c], client[p])
        BY <1>9, <1>10, <4>1, <4>3, <4>4, NoMessages DEF Told
      <4>6. QED
        BY <1>9, <4>1, <4>5 DEF Introduced
    <3>3. QED
      BY ZenonT(60), <1>9, <1>12, <2>2, <3>1, <3>2
  <2>3. CASE t # s
    <3>1. n.lock[t] = m.lock[t]
      BY <1>10, <2>3
    <3>2. Playing(n, t, up'[n.conn[t]], down[n.conn[t]])
      <4>1. \A u, d : Playing(m, t, u, d) => Playing(n, t, u, d)
        BY <1>9, <3>1 DEF Playing
      <4>2. QED
        BY <1>9, <2>1, <4>1
    <3>3. \A u, d, cl : /\ Told(m, t, u, d, cl) => Told(n, t, u, d, cl)
                        /\ Introduced(m, d, cl) => Introduced(n, d, cl)
      BY <1>9, <3>1 DEF Told, Introduced, Decision
    <3>4. QED
      BY <1>9, <2>1, <3>2, <3>3
  <2>4. QED
    BY <2>2, <2>3
<1>17. Playings(up)'
  <2>1. Playings(up')
    BY <1>11 DEF Midway
  <2>2. QED
    BY ZenonT(60), <1>16, <2>1 DEF Playings
<1>18. Tolds(up)'
  <2>1. ASSUME NEW x \in matches', NEW t \in 1 .. 2, NEW p \in Clients, client[p].at = x.conn[t]
        PROVE  /\ Told(x, t, up'[x.conn[t]], down[x.conn[t]], client[p])
               /\ x.conn[t] \notin cut => Introduced(x, down[x.conn[t]], client[p])
    <3>1. CASE x = n
      BY <1>16, <2>1, <3>1
    <3>2. CASE x \in matches
      BY <1>11, <2>1, <3>2 DEF Midway, Tolds
    <3>3. QED
      BY <3>1, <3>2
  <2>2. QED
    BY <2>1 DEF Tolds
<1>19. QED
  BY <1>13, <1>14, <1>15, <1>17, <1>18 DEF Inv

\* end_match: both are asked whether they go on, but for those in gone, which are closed.
LEMMA MatchEnds ==
    ASSUME Midway(up'), NEW m0 \in matches, NEW m, SameMatch(m, m0), NEW gone \in SUBSET cut, gone \in SUBSET Conns,
           \A x \in gone : up'[x] = << >> /\ (conn[x].state = "IN_MATCH" => x \in {m0.conn[1], m0.conn[2]}),
           conn' = [x \in Conns |-> IF x \in gone THEN NoConn ELSE AfterMatch(m)[x]],
           matches' = matches \ {m0}, LogGame(m), NEW result \in Results, Deliver(EndMessages(m, result)),
           UNCHANGED <<client, next_match, next_deck, drafts, cut, closing>>
    PROVE  Inv'
<1> DEFINE seats == {m0.conn[1], m0.conn[2]}
           msgs == EndMessages(m, result)
<1>1. /\ StreamsOK /\ RecordsOK /\ DriversOK /\ ConnsOK /\ MatchesOK /\ LogOK
      /\ up' \in [Conns -> Seq(UpMsgs)] /\ down \in [Conns -> Seq(DownMsgs)] /\ conn \in [Conns -> ConnRecs]
  BY DEF Midway, StreamsOK, RecordsOK
<1>2. /\ m0.conn[1] \in Conns /\ m0.conn[2] \in Conns /\ m0.conn[1] # m0.conn[2] /\ m.conn = m0.conn /\ m.id \in Nat
      /\ \A s \in 1 .. 2 : conn[m0.conn[s]].state = "IN_MATCH"
  BY <1>1, SeatedAt DEF SameMatch, Unfought
<1>3. \A x \in seats : conn[x].state = "IN_MATCH" /\ x \in Conns
  BY <1>2
<1>4. \A y \in matches' : y \in matches /\ y # m0 /\ \A s \in 1 .. 2 : y.conn[s] \in Conns \ seats
  <2>1. ASSUME NEW y \in matches, y # m0, NEW s \in 1 .. 2
        PROVE  y.conn[s] \in Conns /\ y.conn[s] # m0.conn[1] /\ y.conn[s] # m0.conn[2]
    <3>1. 1 \in 1 .. 2 /\ 2 \in 1 .. 2
      OBVIOUS
    <3>2. y.conn[s] # m0.conn[1] /\ y.conn[s] # m0.conn[2]
      BY <1>1, <2>1, <3>1 DEF MatchesOK
    <3>3. QED
      BY <1>1, <3>2, SeatedAt
  <2>2. QED
    BY <2>1
<1>5. /\ msgs \in [Conns -> Seq(DownMsgs)]
      /\ \A x \in Conns : x \notin seats => msgs[x] = << >>
      /\ \A x \in seats : \E y \in DownMsgs : msgs[x] = <<y>> /\ y.type = "MATCH_END"
  <2>1. /\ msgs \in [Conns -> Seq(DownMsgs)]
        /\ \A s \in 1 .. 2 :
             /\ msgs[m.conn[s]] = <<[type |-> "MATCH_END", match |-> m.id, result |-> result[s]]>>
             /\ [type |-> "MATCH_END", match |-> m.id, result |-> result[s]] \in DownMsgs
        /\ \A x \in Conns : x \notin {m.conn[1], m.conn[2]} => msgs[x] = << >>
    BY <1>2, EndMessagesTo
  <2> HIDE DEF msgs
  <2>2. \A s \in 1 .. 2 : \E y \in DownMsgs : msgs[m.conn[s]] = <<y>> /\ y.type = "MATCH_END"
    BY <2>1
  <2>3. QED
    BY <1>2, <2>1, <2>2
<1>6. Deliver(msgs)
  OBVIOUS
<1> HIDE DEF msgs
<1>7. /\ down' \in [Conns -> Seq(DownMsgs)]
      /\ \A x \in Conns : \/ down'[x] = down[x] \/ down'[x] = down[x] \o msgs[x]
      /\ \A x \in Conns : msgs[x] = << >> => down'[x] = down[x]
  BY <1>1, <1>5, <1>6, Delivered
<1>8. /\ \A x \in seats \ gone : conn'[x] = [conn[x] EXCEPT !.state = "READY"]
      /\ \A x \in gone : conn'[x] = NoConn
      /\ \A x \in Conns : x \notin seats \cup gone => conn'[x] = conn[x]
  BY <1>2, <1>3 DEF AfterMatch
<1>9. \A x \in seats : conn[x] \in ConnRecs /\ ConnOK(conn[x], drafts)
  BY <1>1, <1>3 DEF ConnsOK
<1>10. \A x \in seats \ gone :
         /\ conn'[x] \in ConnRecs /\ ConnOK(conn'[x], drafts) /\ conn'[x].state = "READY"
         /\ conn'[x].mode = conn[x].mode
  <2>1. ASSUME NEW x \in seats \ gone
        PROVE  /\ conn'[x] \in ConnRecs /\ ConnOK(conn'[x], drafts) /\ conn'[x].state = "READY"
               /\ conn'[x].mode = conn[x].mode
    <3>1. conn[x] \in ConnRecs /\ ConnOK(conn[x], drafts) /\ conn[x].state = "IN_MATCH"
      BY <1>3, <1>9
    <3>2. /\ [conn[x] EXCEPT !.state = "READY"] \in ConnRecs /\ ConnOK([conn[x] EXCEPT !.state = "READY"], drafts)
          /\ [conn[x] EXCEPT !.state = "READY"].state = "READY"
          /\ [conn[x] EXCEPT !.state = "READY"].mode = conn[x].mode
      BY <3>1, ConnMoves
    <3>3. QED
      BY <1>8, <3>2
  <2>2. QED
    BY <2>1
<1>11. NoConn \in ConnRecs /\ ConnOK(NoConn, drafts) /\ NoConn.state = "FREE"
  BY DEF NoConn, ConnRecs, ConnOK, States
<1>12. conn' \in [Conns -> ConnRecs]
  <2>1. \A x \in Conns : conn'[x] \in ConnRecs
    BY <1>1, <1>8, <1>10, <1>11
  <2>2. QED
    BY <2>1
<1>13. StreamsOK'
  BY <1>1, <1>7 DEF StreamsOK
<1>14. games' \subseteq drafts /\ games' \in SUBSET DeckRecs
  <2>1. games \subseteq drafts /\ drafts \in SUBSET DeckRecs
    BY <1>1 DEF LogOK, RecordsOK
  <2>2. m0.mode = "draft" => \A s \in 1 .. 2 : [id |-> m0.deck_id[s], deck |-> m0.deck[s]] \in drafts
    BY <1>1 DEF MatchesOK, MatchOK
  <2>3. CASE m.mode = "draft"
    <3>1. games' = games \cup {[id |-> m.deck_id[s], deck |-> m.deck[s]] : s \in 1 .. 2}
      BY <2>3 DEF LogGame
    <3>2. QED
      BY <2>1, <2>2, <2>3, <3>1 DEF SameMatch
  <2>4. CASE m.mode # "draft"
    BY <2>1, <2>4 DEF LogGame
  <2>5. QED
    BY <2>3, <2>4
<1>15. RecordsOK'
  <2>1. matches' \in SUBSET MatchRecs
    BY <1>1 DEF RecordsOK
  <2>2. QED
    BY <1>1, <1>12, <1>14, <2>1 DEF RecordsOK
<1>16. LogOK'
  BY <1>1, <1>14 DEF LogOK
<1>17. DriversOK'
  <2>1. ASSUME NEW p \in Clients, client[p].at # None
        PROVE  \/ client[p].at \in cut /\ conn'[client[p].at].state = "FREE"
               \/ conn'[client[p].at].state # "FREE" /\ conn'[client[p].at].mode = client[p].mode
    <3> DEFINE x == client[p].at
    <3>1. x \in Conns
      BY <1>1, <2>1 DEF RecordsOK, ClientRecs
    <3>2. (x \in cut /\ conn[x].state = "FREE") \/ (conn[x].state # "FREE" /\ conn[x].mode = client[p].mode)
      BY <1>1, <2>1 DEF DriversOK
    <3> HIDE DEF x
    <3>3. CASE x \in gone
      BY <1>8, <1>11, <3>3 DEF x
    <3>4. CASE x \in seats \ gone
      BY <1>3, <1>10, <3>2, <3>4 DEF x
    <3>5. CASE x \notin seats \cup gone
      BY <1>8, <3>1, <3>2, <3>5 DEF x
    <3>6. QED
      BY <3>3, <3>4, <3>5
  <2>2. QED
    BY <1>1, <2>1 DEF DriversOK
<1>18. ConnsOK'
  <2>1. ASSUME NEW x \in Conns
        PROVE  ConnOK(conn'[x], drafts) /\ (conn'[x].state = "FREE" => up'[x] = << >>)
    <3>1. CASE x \in gone
      BY <1>8, <1>11, <3>1
    <3>2. CASE x \in seats \ gone
      BY <1>10, <3>2
    <3>3. CASE x \notin seats \cup gone
      BY <1>1, <1>8, <3>3 DEF ConnsOK, Midway
    <3>4. QED
      BY <3>1, <3>2, <3>3
  <2>2. QED
    BY <2>1 DEF ConnsOK
<1>19. \A y \in matches', s \in 1 .. 2 :
         /\ y.conn[s] \notin gone /\ conn'[y.conn[s]] = conn[y.conn[s]] /\ down'[y.conn[s]] = down[y.conn[s]]
         /\ conn[y.conn[s]].state = "IN_MATCH"
  <2>1. ASSUME NEW y \in matches', NEW s \in 1 .. 2
        PROVE  y.conn[s] \in Conns /\ y.conn[s] \notin seats /\ conn[y.conn[s]].state = "IN_MATCH"
    BY <1>1, <1>4, SeatedAt
  <2>2. QED
    BY <1>5, <1>7, <1>8, <2>1
<1>20. MatchesOK'
  <2>1. ASSUME NEW y \in matches'
        PROVE  MatchOK(y)'
    <3>1. MatchOK(y)
      BY <1>1, <1>4 DEF MatchesOK
    <3>2. QED
      BY <1>19, <3>1 DEF MatchOK
  <2>2. \A x, y \in matches', s, t \in 1 .. 2 : x.conn[s] = y.conn[t] => x = y
    BY <1>1, <1>4 DEF MatchesOK
  <2>3. ASSUME NEW x \in Conns, conn'[x].state = "IN_MATCH"
        PROVE  \E y \in matches', s \in 1 .. 2 : y.conn[s] = x
    <3>1. x \notin gone /\ x \notin seats
      BY <1>8, <1>10, <1>11, <2>3
    <3>2. conn[x].state = "IN_MATCH"
      BY <1>8, <2>3, <3>1
    <3>3. PICK y \in matches, s \in 1 .. 2 : y.conn[s] = x
      BY <1>1, <3>2 DEF MatchesOK
    <3>4. s = 1 \/ s = 2
      OBVIOUS
    <3>5. y # m0
      BY <3>1, <3>3, <3>4
    <3>6. QED
      BY <3>3, <3>5
  <2>4. QED
    BY <2>1, <2>2, <2>3 DEF MatchesOK
<1>21. Talks(up)'
  <2>1. ASSUME NEW x \in Conns, conn'[x].state # "FREE"
        PROVE  Talk(conn'[x], up'[x], down'[x])
    <3>1. x \notin gone
      BY <1>8, <1>11, <2>1
    <3>2. CASE x \in seats
      <4>1. conn[x].state = "IN_MATCH" /\ up'[x] \in Seq(UpMsgs) /\ down[x] \in Seq(DownMsgs)
        BY <1>1, <1>3, <3>2
      <4>2. Talk(conn[x], up'[x], down[x])
        BY <4>1 DEF Midway, Talks
      <4>3. Quiet(conn[x], up'[x], down[x])
        BY <4>1, <4>2, QuietWhenWaiting
      <4>4. conn'[x].state = "READY" /\ conn'[x].mode = conn[x].mode
        BY <1>10, <3>1, <3>2
      <4>5. Quiet(conn'[x], up'[x], down[x])
        BY <4>3, <4>4, QuietMode
      <4>6. Talk(conn'[x], up'[x], down[x])
        BY <4>4, <4>5, QuietTalk
      <4>7. PICK y \in DownMsgs : msgs[x] = <<y>> /\ y.type = "MATCH_END"
        BY <1>5, <3>2
      <4>8. AskFits(conn'[x], y)
        BY <4>4, <4>7 DEF AskFits
      <4>9. Talk(conn'[x], up'[x], down[x] \o <<y>>)
        BY <4>1, <4>4, <4>5, <4>8, Asks
      <4>10. QED
        BY <1>7, <4>6, <4>7, <4>9
    <3>3. CASE x \notin seats
      BY <1>5, <1>7, <1>8, <2>1, <3>1, <3>3 DEF Midway, Talks
    <3>4. QED
      BY <3>2, <3>3
  <2>2. QED
    BY <2>1 DEF Talks
<1>22. Playings(up)'
  BY <1>4, <1>19 DEF Midway, Playings
<1>23. Tolds(up)'
  BY <1>4, <1>19 DEF Midway, Tolds
<1>24. QED
  BY <1>13, <1>15, <1>16, <1>17, <1>18, <1>20, <1>21, <1>22, <1>23 DEF Inv

\* The next round begins: both seats are told.
LEMMA RoundBegins ==
    ASSUME Midway(up'), NEW m0 \in matches, NEW m, SameMatch(m, m0), m.round < MaxRounds[m.mode],
           NEW n \in BeginRounds(m), matches' = (matches \ {m0}) \cup {n}, Deliver(RoundStart(n)),
           UNCHANGED <<client, conn, next_match, next_deck, drafts, games, cut, closing>>
    PROVE  Inv'
<1> DEFINE seats == {m0.conn[1], m0.conn[2]}
           msgs == RoundStart(n)
<1>1. /\ StreamsOK /\ RecordsOK /\ DriversOK /\ ConnsOK /\ MatchesOK /\ LogOK
      /\ up' \in [Conns -> Seq(UpMsgs)] /\ down \in [Conns -> Seq(DownMsgs)] /\ conn \in [Conns -> ConnRecs]
  BY DEF Midway, StreamsOK, RecordsOK
<1>2. /\ m0.conn[1] \in Conns /\ m0.conn[2] \in Conns /\ m0.conn[1] # m0.conn[2] /\ m0 \in MatchRecs
      /\ \A s \in 1 .. 2 : conn[m0.conn[s]].state = "IN_MATCH" /\ m0.conn[s] \in Conns
      /\ m0.round \in 1 .. MaxRounds[m0.mode] /\ m0.mode \in Modes
  <2>1. 1 \in 1 .. 2
    OBVIOUS
  <2>2. /\ m0.conn[1] \in Conns /\ m0.conn[2] \in Conns /\ m0.conn[1] # m0.conn[2]
        /\ \A s \in 1 .. 2 : conn[m0.conn[s]].state = "IN_MATCH" /\ m0.conn[s] \in Conns
    BY <1>1, <2>1, SeatedAt
  <2>3. MatchOK(m0) /\ m0 \in MatchRecs
    BY <1>1 DEF RecordsOK, MatchesOK
  <2>4. m0.round \in 1 .. MaxRounds[m0.mode] /\ m0.mode \in Modes
    BY <2>3 DEF MatchOK, MatchRecs
  <2>5. QED
    BY <2>2, <2>3, <2>4
<1>3. /\ n \in MatchRecs /\ n.round = m0.round + 1 /\ n.lock[1] = None /\ n.lock[2] = None
      /\ n.id = m0.id /\ n.conn = m0.conn /\ n.mode = m0.mode /\ n.deck = m0.deck /\ n.deck_id = m0.deck_id
      /\ m0.round < MaxRounds[m0.mode]
  <2>1. /\ Unfought(m) /\ m.id = m0.id /\ m.conn = m0.conn /\ m.mode = m0.mode /\ m.round = m0.round
        /\ m.deck = m0.deck /\ m.deck_id = m0.deck_id
    BY DEF SameMatch
  <2>2. /\ n \in MatchRecs /\ n.round = m.round + 1 /\ n.lock[1] = None /\ n.lock[2] = None
        /\ n.id = m.id /\ n.conn = m.conn /\ n.mode = m.mode /\ n.deck = m.deck /\ n.deck_id = m.deck_id
    BY <2>1, BeginRoundsOK
  <2>3. QED
    BY <2>1, <2>2
<1>4. n.round \in Nat /\ n.legal \in [1 .. 2 -> Hands] /\ m0.round \in Nat
  BY <1>2, <1>3 DEF MatchRecs
<1>5. MatchesOK'
  <2>1. MatchOK(m0) /\ MaxRounds[m0.mode] \in Nat
    BY <1>1, <1>2, PlayConstants DEF MatchesOK
  <2>2. n.round \in 1 .. MaxRounds[n.mode]
    BY <1>3, <1>4, <2>1
  <2>3. MatchOK(n)'
    BY <1>3, <2>1, <2>2 DEF MatchOK
  <2>4. QED
    BY <1>1, <1>3, <2>3, Replaced
<1>6. /\ msgs \in [Conns -> Seq(DownMsgs)]
      /\ \A s \in 1 .. 2 :
           /\ msgs[m0.conn[s]] = <<[type |-> "ROUND_START", round |-> n.round, legal |-> n.legal[s]]>>
           /\ [type |-> "ROUND_START", round |-> n.round, legal |-> n.legal[s]] \in DownMsgs
      /\ \A x \in Conns : x \notin seats => msgs[x] = << >>
  BY <1>2, <1>3, <1>4, RoundStartTo
<1>7. Deliver(msgs)
  OBVIOUS
<1> HIDE DEF msgs
<1>8. /\ down' \in [Conns -> Seq(DownMsgs)]
      /\ \A x \in Conns : \/ down'[x] = down[x] /\ (x \in cut \/ conn'[x].state = "FREE")
                          \/ down'[x] = down[x] \o msgs[x] /\ x \notin cut
      /\ \A x \in Conns : msgs[x] = << >> => down'[x] = down[x]
  BY <1>1, <1>6, <1>7, Delivered
<1>9. StreamsOK' /\ RecordsOK' /\ DriversOK' /\ ConnsOK' /\ LogOK'
  <2>1. StreamsOK'
    BY <1>1, <1>8 DEF StreamsOK
  <2>2. RecordsOK'
    BY <1>1, <1>3 DEF RecordsOK
  <2>3. DriversOK'
    BY <1>1 DEF DriversOK
  <2>4. ConnsOK'
    BY <1>1 DEF Midway, ConnsOK
  <2>5. LogOK'
    BY <1>1 DEF LogOK
  <2>6. QED
    BY <2>1, <2>2, <2>3, <2>4, <2>5
<1>10. \A y \in matches : y # m0 => \A s \in 1 .. 2 : down'[y.conn[s]] = down[y.conn[s]]
  <2>1. ASSUME NEW y \in matches, y # m0, NEW s \in 1 .. 2
        PROVE  y.conn[s] \in Conns /\ y.conn[s] # m0.conn[1] /\ y.conn[s] # m0.conn[2]
    <3>1. 1 \in 1 .. 2 /\ 2 \in 1 .. 2
      OBVIOUS
    <3>2. y.conn[s] # m0.conn[1] /\ y.conn[s] # m0.conn[2]
      BY <1>1, <2>1, <3>1 DEF MatchesOK
    <3>3. QED
      BY <1>1, <3>2, SeatedAt
  <2>2. QED
    BY <1>6, <1>8, <2>1
<1>11. ASSUME NEW s \in 1 .. 2
       PROVE  /\ Talk(conn[m0.conn[s]], up'[m0.conn[s]], down'[m0.conn[s]])
              /\ Playing(n, s, up'[m0.conn[s]], down'[m0.conn[s]])
              /\ \A p \in Clients : client[p].at = m0.conn[s] =>
                   /\ Told(n, s, up'[m0.conn[s]], down'[m0.conn[s]], client[p])
                   /\ m0.conn[s] \notin cut => Introduced(n, down'[m0.conn[s]], client[p])
  <2> DEFINE c == m0.conn[s]
             u == up'[c]
             d == down[c]
             x == [type |-> "ROUND_START", round |-> n.round, legal |-> n.legal[s]]
  <2>1. /\ c \in Conns /\ conn[c].state = "IN_MATCH" /\ u \in Seq(UpMsgs) /\ d \in Seq(DownMsgs)
        /\ x \in DownMsgs /\ x.type = "ROUND_START" /\ x.round = n.round /\ x.legal = n.legal[s]
        /\ msgs[c] = <<x>> /\ n.lock[s] = None
    BY <1>1, <1>2, <1>3, <1>6
  <2>2. \/ down'[c] = d /\ c \in cut
        \/ down'[c] = d \o <<x>> /\ c \notin cut
    BY <1>8, <2>1
  <2>3. Talk(conn[c], u, d)
    BY <2>1 DEF Midway, Talks
  <2>4. Playing(m0, s, u, d)
    BY DEF Midway, Playings
  <2>5. ASSUME NEW p \in Clients, client[p].at = c
        PROVE  Told(m0, s, u, d, client[p]) /\ (c \notin cut => Introduced(m0, d, client[p]))
    BY <2>5 DEF Midway, Tolds
  <2> HIDE DEF c, u, d, x
  <2>6. /\ Playing(n, s, u, d)
        /\ \A cl : Told(m0, s, u, d, cl) => Told(n, s, u, d, cl)
        /\ \A cl : Introduced(m0, d, cl) => Introduced(n, d, cl)
        /\ \A i \in 1 .. Len(u) : u[i].round < n.round
        /\ \A j \in 1 .. Len(d) : Starts(d[j]) => d[j].round < n.round
    BY <1>3, <1>4, <2>1, <2>4, NextRoundComes
  <2>7. /\ Playing(n, s, u, d \o <<x>>)
        /\ \A cl : Told(n, s, u, d, cl) /\ Introduced(n, d, cl) =>
                     Told(n, s, u, d \o <<x>>, cl) /\ Introduced(n, d \o <<x>>, cl)
    BY <1>4, <2>1, <2>6, PlayStarts
  <2>8. Talk(conn[c], u, d \o <<x>>)
    <3>1. Quiet(conn[c], u, d)
      BY <2>1, <2>3, QuietWhenWaiting
    <3>2. ~Ask(conn[c].mode, x)
      BY <2>1 DEF Ask
    <3>3. QED
      BY <2>1, <2>3, <3>1, <3>2, Tells
  <2>9. QED
    <3>1. CASE down'[c] = d /\ c \in cut
      BY <2>3, <2>5, <2>6, <3>1 DEF c, u
    <3>2. CASE down'[c] = d \o <<x>> /\ c \notin cut
      BY <2>5, <2>6, <2>7, <2>8, <3>2 DEF c, u
    <3>3. QED
      BY <2>2, <3>1, <3>2
<1>12. Talks(up)'
  <2>1. ASSUME NEW x \in Conns, conn[x].state # "FREE"
        PROVE  Talk(conn[x], up'[x], down'[x])
    <3>1. CASE x \in seats
      <4>1. 1 \in 1 .. 2 /\ 2 \in 1 .. 2
        OBVIOUS
      <4>2. QED
        BY <1>11, <3>1, <4>1
    <3>2. CASE x \notin seats
      BY <1>6, <1>8, <2>1, <3>2 DEF Midway, Talks
    <3>3. QED
      BY <3>1, <3>2
  <2>2. QED
    BY <2>1 DEF Talks
<1>13. Playings(up)'
  <2>1. ASSUME NEW y \in matches', NEW s \in 1 .. 2
        PROVE  Playing(y, s, up'[y.conn[s]], down'[y.conn[s]])
    <3>1. CASE y = n
      BY <1>3, <1>11, <3>1
    <3>2. CASE y \in matches /\ y # m0
      BY <1>10, <3>2 DEF Midway, Playings
    <3>3. QED
      BY <3>1, <3>2
  <2>2. QED
    BY <2>1 DEF Playings
<1>14. Tolds(up)'
  <2>1. ASSUME NEW y \in matches', NEW s \in 1 .. 2, NEW p \in Clients, client[p].at = y.conn[s]
        PROVE  /\ Told(y, s, up'[y.conn[s]], down'[y.conn[s]], client[p])
               /\ y.conn[s] \notin cut => Introduced(y, down'[y.conn[s]], client[p])
    <3>1. CASE y = n
      BY <1>3, <1>11, <2>1, <3>1
    <3>2. CASE y \in matches /\ y # m0
      BY <1>10, <2>1, <3>2 DEF Midway, Tolds
    <3>3. QED
      BY <3>1, <3>2
  <2>2. QED
    BY <2>1 DEF Tolds
<1>15. QED
  BY <1>5, <1>9, <1>12, <1>13, <1>14 DEF Inv

\* resolve_round: the match ends, or its next round begins.
LEMMA Resolves ==
    ASSUME Midway(up'), NEW m0 \in matches, NEW m, SameMatch(m, m0), ResolveRound(m),
           UNCHANGED <<client, next_match, next_deck, drafts, cut, closing>>
    PROVE  Inv'
<1>1. MatchOf(m.conn[1]) = m0
  <2>1. MatchesOK /\ RecordsOK /\ 1 \in 1 .. 2 /\ m.conn = m0.conn
    BY DEF Midway, SameMatch
  <2>2. QED
    BY <2>1, SeatedAt
<1>2. CASE MatchOver(m)
  <2>1. PICK result \in Results :
          /\ matches' = matches \ {m0} /\ conn' = AfterMatch(m) /\ LogGame(m)
          /\ Deliver(EndMessages(m, result))
    BY <1>1, <1>2 DEF MatchOver
  <2>2. conn' = [x \in Conns |-> IF x \in {} THEN NoConn ELSE AfterMatch(m)[x]]
    BY <2>1 DEF AfterMatch
  <2>3. {} \in SUBSET cut /\ {} \subseteq Conns
    OBVIOUS
  <2> DEFINE gone == {}
  <2>4. /\ gone \in SUBSET cut /\ gone \subseteq Conns
        /\ \A x \in gone : up'[x] = << >> /\ (conn[x].state = "IN_MATCH" => x \in {m0.conn[1], m0.conn[2]})
        /\ conn' = [x \in Conns |-> IF x \in gone THEN NoConn ELSE AfterMatch(m)[x]]
    BY <2>2, <2>3
  <2> HIDE DEF gone
  <2>5. QED
    BY <2>1, <2>4, MatchEnds
<1>3. CASE NextRound(m)
  <2>1. /\ m.round < MaxRounds[m.mode] /\ conn' = conn /\ games' = games
        /\ \E n \in BeginRounds(m) : matches' = (matches \ {m0}) \cup {n} /\ Deliver(RoundStart(n))
    BY <1>1, <1>3 DEF NextRound
  <2>2. QED
    BY <2>1, RoundBegins
<1>4. QED
  BY <1>2, <1>3 DEF ResolveRound

\* What the server finds when it reads a play of a connection that is in a match.
LEMMA PlayFound ==
    ASSUME Inv, NEW c \in Conns, conn[c].state = "IN_MATCH", up[c] # << >>, Head(up[c]).type = "PLAY"
    PROVE  /\ MatchOf(c) \in matches /\ SeatOf(MatchOf(c), c) \in 1 .. 2 /\ MatchOf(c).conn[SeatOf(MatchOf(c), c)] = c
           /\ Head(up[c]).match = MatchOf(c).id /\ MatchOf(c).lock[SeatOf(MatchOf(c), c)] = None
           /\ Head(up[c]).round = MatchOf(c).round =>
                Head(up[c]).slot \in MatchOf(c).legal[SeatOf(MatchOf(c), c)] \cup {Pass}
<1> DEFINE m == MatchOf(c)
           s == SeatOf(m, c)
           u == up[c]
           d == down[c]
<1>1. m \in matches /\ s \in 1 .. 2 /\ m.conn[s] = c
  BY InSomeMatch DEF Inv
<1>2. u \in Seq(UpMsgs) /\ d \in Seq(DownMsgs)
  BY DEF Inv, StreamsOK
<1>3. Head(u) = u[1] /\ 1 \in 1 .. Len(u)
  BY <1>2, Popped
<1>4. Playing(m, s, u, d)
  BY <1>1 DEF Inv, Playings
<1> HIDE DEF m, s, u, d
<1>5. m.lock[s] = None
  <2>1. u # << >>
    BY DEF u
  <2>2. QED
    BY <1>4, <2>1 DEF Playing
<1>6. u[1].match = m.id /\ (u[1].round = m.round => u[1].slot \in m.legal[s] \cup {Pass})
  BY <1>3, <1>4 DEF Playing
<1>7. QED
  BY <1>1, <1>3, <1>5, <1>6 DEF m, s, u

LEMMA PlayStep ==
    ASSUME Inv, NEW c \in Conns, conn[c].state # "FREE", up[c] # << >>, up' = [up EXCEPT ![c] = Tail(@)],
           Head(up[c]).type = "PLAY", Play(c, Head(up[c]))
    PROVE  Inv'
<1> DEFINE msg == Head(up[c])
           m == MatchOf(c)
           s == SeatOf(m, c)
           reason == Reason(c, msg)
           locked == [m EXCEPT !.lock[s] = msg.slot]
<1>1. Midway(up')
  BY PlayRead
<1>2. up[c] \in Seq(UpMsgs)
  BY DEF Inv, StreamsOK
<1>3. msg = up[c][1] /\ msg \in UpMsgs
  BY <1>2, Popped
<1>4. msg.match \in Nat /\ msg.round \in Nat
  BY <1>3, UpCases
<1>5. UNCHANGED <<client, next_match, next_deck, drafts, cut, closing, faults>>
  BY DEF Play
<1>6. \/ reason = "no match" \/ reason = "wrong round"
      \/ reason = "" /\ conn[c].state = "IN_MATCH" /\ msg.round = m.round
  <2>1. CASE ~InMatchOf(c, msg)
    BY <2>1 DEF Reason
  <2>2. CASE InMatchOf(c, msg) /\ ~InRoundOf(c, msg)
    BY <2>2 DEF Reason
  <2>3. CASE InMatchOf(c, msg) /\ InRoundOf(c, msg)
    <3>1. conn[c].state = "IN_MATCH" /\ msg.round = m.round
      BY <2>3 DEF InMatchOf, InRoundOf
    <3>2. m.lock[s] = None /\ msg.slot \in m.legal[s] \cup {Pass}
      BY <3>1, PlayFound
    <3>3. reason = ""
      BY <2>3, <3>2 DEF Reason
    <3>4. QED
      BY <3>1, <3>3
  <2>4. QED
    BY <2>1, <2>2, <2>3
<1>7. CASE reason # ""
  <2> DEFINE x == [type |-> "PLAY_REJECT", match |-> msg.match, round |-> msg.round, reason |-> reason]
  <2>1. conn' = conn /\ matches' = matches /\ games' = games /\ Deliver(Only(c, <<x>>))
    BY <1>7 DEF Play
  <2>2. reason \in {"no match", "wrong round"}
    BY <1>6, <1>7
  <2> HIDE DEF msg, reason
  <2>3. x \in DownMsgs /\ x.type = "PLAY_REJECT"
    BY <1>4, <2>2 DEF DownMsgs
  <2> HIDE DEF x
  <2>4. QED
    BY <1>1, <1>5, <2>1, <2>3, Rejects
<1>8. CASE reason = ""
  <2>1. m \in matches /\ s \in 1 .. 2 /\ m.conn[s] = c /\ msg.round = m.round
    BY <1>6, <1>8, PlayFound
  <2>2. CASE None \in {locked.lock[1], locked.lock[2]}
    <3>1. matches' = (matches \ {m}) \cup {locked} /\ conn' = conn /\ games' = games /\ down' = down
      BY <1>8, <2>2 DEF Play
    <3>2. locked = [m EXCEPT !.lock[s] = up[c][1].slot] /\ up[c][1].round = m.round
      BY <1>3, <2>1
    <3> HIDE DEF m, s, msg, reason, locked
    <3>3. QED
      BY <1>5, <2>1, <2>2, <3>1, <3>2, Locks
  <2>3. CASE None \notin {locked.lock[1], locked.lock[2]}
    <3>1. ResolveRound(locked)
      BY <1>8, <2>3 DEF Play
    <3>2. m \in MatchRecs
      BY <2>1 DEF Inv, RecordsOK
    <3> DEFINE k == [m.lock EXCEPT ![s] = msg.slot]
    <3>3. locked = [m EXCEPT !.lock = k]
      OBVIOUS
    <3> HIDE DEF m, s, msg, reason, locked, k
    <3>4. SameMatch(locked, m)
      BY <3>2, <3>3, LocksOnly
    <3>5. QED
      BY <1>1, <1>5, <2>1, <3>1, <3>4, Resolves
  <2>4. QED
    BY <2>2, <2>3
<1>9. QED
  BY <1>7, <1>8

\* One message of a driver is handled.
LEMMA ServerReadsStep ==
    ASSUME Inv, NEW c \in Conns, ServerReads(c)
    PROVE  Inv'
<1>1. conn[c].state # "FREE" /\ up[c] # << >> /\ up' = [up EXCEPT ![c] = Tail(@)]
  BY DEF ServerReads, Live
<1>2. Head(up[c]).type \in {"QUEUE", "DRAFT_PICK", "DRAFT_RESUME", "PLAY"}
  <2>1. up[c] \in Seq(UpMsgs)
    BY DEF Inv, StreamsOK
  <2>2. Head(up[c]) \in UpMsgs
    BY <1>1, <2>1, Popped
  <2>3. QED
    BY <2>2, UpCases
<1>3. CASE Head(up[c]).type = "QUEUE"
  <2>1. Queue(c, Head(up[c]))
    BY <1>3 DEF ServerReads
  <2>2. QED
    BY <1>1, <1>3, <2>1, QueueStep
<1>4. CASE Head(up[c]).type = "DRAFT_PICK"
  <2>1. DraftPick(c, Head(up[c]))
    BY <1>4 DEF ServerReads
  <2>2. QED
    BY <1>1, <1>4, <2>1, DraftPickStep
<1>5. CASE Head(up[c]).type = "DRAFT_RESUME"
  <2>1. DraftResume(c, Head(up[c]))
    BY <1>5 DEF ServerReads
  <2>2. QED
    BY <1>1, <1>5, <2>1, DraftResumeStep
<1>6. CASE Head(up[c]).type = "PLAY"
  <2>1. Play(c, Head(up[c]))
    BY <1>6 DEF ServerReads
  <2>2. QED
    BY <1>1, <1>6, <2>1, PlayStep
<1>7. QED
  BY <1>2, <1>3, <1>4, <1>5, <1>6

\* Nothing is read.
LEMMA NoneRead ==
    ASSUME Inv, up' = up
    PROVE  Midway(up')
BY DEF Inv, Midway, StreamsOK, ConnsOK, Talks, Playings, Tolds

LEMMA DeadlineStep ==
    ASSUME Inv, NEW m \in matches, Deadline(m)
    PROVE  Inv'
<1> DEFINE k == [s \in 1 .. 2 |-> IF m.lock[s] = None THEN Pass ELSE m.lock[s]]
           late == [m EXCEPT !.lock = k]
<1>1. ResolveRound(late) /\ UNCHANGED <<client, next_match, next_deck, drafts, up, cut, closing, faults>>
  BY DEF Deadline
<1>2. Midway(up')
  BY <1>1, NoneRead
<1>3. m \in MatchRecs
  BY DEF Inv, RecordsOK
<1> HIDE DEF k
<1>4. SameMatch(late, m)
  BY <1>3, LocksOnly
<1> HIDE DEF late
<1>5. QED
  BY <1>1, <1>2, <1>4, Resolves

\* conn_close: what was on its way up from the connection is gone.
LEMMA Silenced ==
    ASSUME Inv, NEW c \in Conns, up' = [up EXCEPT ![c] = << >>]
    PROVE  Midway(up') /\ up'[c] = << >>
<1>1. up \in [Conns -> Seq(UpMsgs)] /\ << >> \in Seq(UpMsgs)
  BY DEF Inv, StreamsOK
<1>2. up' \in [Conns -> Seq(UpMsgs)] /\ up'[c] = << >> /\ \A x \in Conns \ {c} : up'[x] = up[x]
  BY <1>1
<1>3. \A x \in Conns : conn[x].state = "FREE" => up'[x] = << >>
  BY <1>2 DEF Inv, ConnsOK
<1>4. \A cn, u, d : Talk(cn, u, d) => Talk(cn, << >>, d)
  BY NoMessages DEF Talk
<1>5. \A m, s, u, d : Playing(m, s, u, d) => Playing(m, s, << >>, d)
  BY NoMessages DEF Playing
<1>6. \A m, s, u, d, cl : Told(m, s, u, d, cl) => Told(m, s, << >>, d, cl)
  BY NoMessages DEF Told
<1>7. \A x \in Conns : up'[x] = up[x] \/ up'[x] = << >>
  BY <1>2
<1>8. Talks(up')
  BY <1>4, <1>7 DEF Inv, Talks
<1>9. \A m \in matches, s \in 1 .. 2 : m.conn[s] \in Conns
  BY SeatedAt DEF Inv
<1>10. Playings(up')
  BY <1>5, <1>7, <1>9 DEF Inv, Playings
<1>11. Tolds(up')
  <2>1. ASSUME NEW m \in matches, NEW s \in 1 .. 2, NEW p \in Clients, client[p].at = m.conn[s]
        PROVE  /\ Told(m, s, up'[m.conn[s]], down[m.conn[s]], client[p])
               /\ m.conn[s] \notin cut => Introduced(m, down[m.conn[s]], client[p])
    <3>1. /\ Told(m, s, up[m.conn[s]], down[m.conn[s]], client[p])
          /\ m.conn[s] \notin cut => Introduced(m, down[m.conn[s]], client[p])
      BY <2>1 DEF Inv, Tolds
    <3>2. QED
      BY <1>6, <1>7, <1>9, <3>1
  <2>2. QED
    BY <2>1 DEF Tolds
<1>12. QED
  BY <1>2, <1>3, <1>8, <1>10, <1>11 DEF Inv, Midway

LEMMA ConnCloseStep ==
    ASSUME Inv, NEW c \in Conns, ConnClose(c)
    PROVE  Inv'
<1>1. /\ c \in cut /\ conn[c].state # "FREE" /\ up' = [up EXCEPT ![c] = << >>] /\ closing' = closing
      /\ UNCHANGED <<client, next_match, next_deck, drafts, cut>>
  BY DEF ConnClose, Live, Inv, StreamsOK
<1>2. Midway(up') /\ up'[c] = << >>
  BY <1>1, Silenced
<1>3. CASE conn[c].state = "IN_MATCH"
  <2> DEFINE m == MatchOf(c)
             result == IF SeatOf(m, c) = 1 THEN <<"loss", "win">> ELSE <<"win", "loss">>
  <2>1. m \in matches /\ SeatOf(m, c) \in 1 .. 2 /\ m.conn[SeatOf(m, c)] = c
    BY <1>3, InSomeMatch DEF Inv
  <2>2. /\ matches' = matches \ {m} /\ conn' = [AfterMatch(m) EXCEPT ![c] = NoConn] /\ LogGame(m)
        /\ Deliver(EndMessages(m, result))
    BY <1>3 DEF ConnClose
  <2>3. result \in Results
    BY DEF Results
  <2> DEFINE gone == {c}
  <2>4. conn' = [x \in Conns |-> IF x \in gone THEN NoConn ELSE AfterMatch(m)[x]]
    BY <2>2 DEF AfterMatch
  <2>5. c \in {m.conn[1], m.conn[2]}
    BY <2>1
  <2>6. gone \in SUBSET cut /\ gone \subseteq Conns
        /\ \A x \in gone : up'[x] = << >> /\ (conn[x].state = "IN_MATCH" => x \in {m.conn[1], m.conn[2]})
    BY <1>1, <1>2, <2>5
  <2>7. m \in MatchRecs
    BY <2>1 DEF Inv, RecordsOK
  <2> HIDE DEF m, gone, result
  <2>8. SameMatch(m, m)
    <3>1. m = [m EXCEPT !.lock = m.lock]
      BY <2>7 DEF MatchRecs
    <3>2. SameMatch([m EXCEPT !.lock = m.lock], m)
      BY <2>7, LocksOnly
    <3>3. QED
      BY <3>1, <3>2
  <2>9. QED
    BY <1>1, <1>2, <2>1, <2>2, <2>3, <2>4, <2>6, <2>8, MatchEnds
<1>4. CASE conn[c].state # "IN_MATCH"
  <2>1. conn' = [conn EXCEPT ![c] = NoConn] /\ matches' = matches /\ games' = games /\ down' = down
    BY <1>4 DEF ConnClose
  <2>2. /\ StreamsOK /\ RecordsOK /\ DriversOK /\ ConnsOK /\ MatchesOK /\ LogOK /\ conn \in [Conns -> ConnRecs]
        /\ up' \in [Conns -> Seq(UpMsgs)]
    BY <1>2 DEF Midway, RecordsOK
  <2>3. NoConn \in ConnRecs /\ ConnOK(NoConn, drafts) /\ NoConn.state = "FREE"
    BY DEF NoConn, ConnRecs, ConnOK, States
  <2>4. conn' \in [Conns -> ConnRecs] /\ conn'[c] = NoConn /\ \A x \in Conns \ {c} : conn'[x] = conn[x]
    BY <2>1, <2>2, <2>3
  <2>5. StreamsOK' /\ RecordsOK' /\ LogOK'
    <3>1. StreamsOK'
      BY <1>1, <2>1, <2>2 DEF StreamsOK
    <3>2. RecordsOK'
      BY <1>1, <2>1, <2>2, <2>4 DEF RecordsOK
    <3>3. LogOK'
      BY <1>1, <2>1, <2>2 DEF LogOK
    <3>4. QED
      BY <3>1, <3>2, <3>3
  <2>6. DriversOK'
    <3>1. ASSUME NEW p \in Clients, client[p].at # None
          PROVE  \/ client[p].at \in cut /\ conn'[client[p].at].state = "FREE"
                 \/ conn'[client[p].at].state # "FREE" /\ conn'[client[p].at].mode = client[p].mode
      <4>1. client[p].at \in Conns
        BY <2>2, <3>1 DEF RecordsOK, ClientRecs
      <4>2. CASE client[p].at = c
        BY <1>1, <2>3, <2>4, <4>2
      <4>3. CASE client[p].at # c
        BY <2>2, <2>4, <3>1, <4>1, <4>3 DEF DriversOK
      <4>4. QED
        BY <4>2, <4>3
    <3>2. QED
      BY <1>1, <2>2, <3>1 DEF DriversOK
  <2>7. ConnsOK'
    BY <1>1, <1>2, <2>2, <2>3, <2>4 DEF ConnsOK, Midway
  <2>8. \A m \in matches, s \in 1 .. 2 : m.conn[s] \in Conns \ {c}
    BY <1>4, <2>2, SeatedAt
  <2>9. MatchesOK'
    BY <1>1, <2>1, <2>2, <2>3, <2>4, <2>8 DEF MatchesOK, MatchOK
  <2>10. Talks(up)'
    BY <1>2, <2>1, <2>3, <2>4 DEF Midway, Talks
  <2>11. Playings(up)'
    BY <1>2, <2>1 DEF Midway, Playings
  <2>12. Tolds(up)'
    BY <1>1, <1>2, <2>1 DEF Midway, Tolds
  <2>13. QED
    BY <2>5, <2>6, <2>7, <2>9, <2>10, <2>11, <2>12 DEF Inv
<1>5. QED
  BY <1>3, <1>4

\* A bounded set of numbers has a greatest one.
LEMMA Greatest ==
    ASSUME NEW S \in SUBSET Nat, S # {}, NEW b \in Nat, \A i \in S : i < b
    PROVE  \E i \in S : \A j \in S : j <= i
<1> DEFINE T == {b - i : i \in S}
           R == OpToRel(<, Nat)
<1>1. T \subseteq Nat /\ T # {}
  <2>1. \A i \in S : b - i \in Nat
    OBVIOUS
  <2>2. PICK i \in S : TRUE
    OBVIOUS
  <2>3. b - i \in T
    BY <2>2
  <2>4. T \subseteq Nat
    BY <2>1
  <2>5. QED
    BY <2>3, <2>4
<1>2. IsWellFoundedOn(R, Nat)
  BY NatLessThanWellFounded
<1>3. \A x, y \in Nat : x < y => <<x, y>> \in R
  BY DEF OpToRel
<1> HIDE DEF T, R
<1>4. PICK x \in T : \A y \in T : ~ (<<y, x>> \in R)
  BY <1>1, <1>2, WFMin
<1>5. \A y \in T : ~(y < x)
  BY <1>1, <1>3, <1>4
<1>6. PICK i \in S : x = b - i
  BY <1>4 DEF T
<1>7. ASSUME NEW j \in S
      PROVE  j <= i
  <2>1. ~(b - j < b - i)
    BY <1>5, <1>6 DEF T
  <2>2. QED
    BY <2>1
<1>8. QED
  BY <1>7

LEMMA CrashStep ==
    ASSUME Inv, Crash
    PROVE  Inv'
<1>1. /\ conn' = [c \in Conns |-> NoConn] /\ matches' = {} /\ next_match' = 1 /\ next_deck' = ResumedDeckId
      /\ up' = [c \in Conns |-> << >>] /\ cut' = cut \cup Live /\ closing' = {}
      /\ client' = client /\ drafts' = drafts /\ games' = games /\ down' = down
  BY DEF Crash, logVars
<1>2. NoConn \in ConnRecs /\ ConnOK(NoConn, drafts) /\ NoConn.state = "FREE"
  BY DEF NoConn, ConnRecs, ConnOK, States
<1>3. next_deck' \in Nat /\ \A r \in drafts : r.id < next_deck'
  <2> DEFINE ids == {r.id : r \in drafts}
  <2>1. ids \in SUBSET Nat /\ next_deck \in Nat /\ \A i \in ids : i < next_deck
    BY DEF Inv, RecordsOK, LogOK, DeckRecs
  <2>2. CASE ids = {}
    BY <1>1, <2>2 DEF ResumedDeckId
  <2>3. CASE ids # {}
    <3> DEFINE top == CHOOSE i \in ids : \A j \in ids : j <= i
    <3>1. next_deck' = 1 + top
      BY <1>1, <2>3 DEF ResumedDeckId
    <3>2. \A r \in drafts : r.id \in ids
      OBVIOUS
    <3> HIDE DEF ids
    <3>3. \E i \in ids : \A j \in ids : j <= i
      BY <2>1, <2>3, Greatest
    <3>4. top \in ids /\ \A j \in ids : j <= top
      BY <3>3
    <3> HIDE DEF top
    <3>5. top \in Nat /\ \A j \in ids : j < 1 + top
      BY <2>1, <3>4
    <3>6. QED
      BY <3>1, <3>2, <3>5
  <2>4. QED
    BY <2>2, <2>3
<1>4. StreamsOK'
  <2>1. << >> \in Seq(UpMsgs) /\ Live \subseteq Conns
    BY DEF Live
  <2>2. QED
    BY <1>1, <2>1 DEF Inv, StreamsOK
<1>5. RecordsOK'
  BY <1>1, <1>2, <1>3 DEF Inv, RecordsOK
<1>6. DriversOK'
  <2>1. ASSUME NEW p \in Clients, client[p].at # None
        PROVE  client[p].at \in cut' /\ conn'[client[p].at].state = "FREE"
    <3>1. client[p].at \in Conns
      BY <2>1 DEF Inv, RecordsOK, ClientRecs
    <3>2. client[p].at \in cut \/ conn[client[p].at].state # "FREE"
      BY <2>1 DEF Inv, DriversOK
    <3>3. QED
      BY <1>1, <1>2, <3>1, <3>2 DEF Live
  <2>2. QED
    BY <1>1, <2>1 DEF Inv, DriversOK
<1>7. ConnsOK'
  BY <1>1, <1>2 DEF ConnsOK
<1>8. MatchesOK'
  BY <1>1, <1>2 DEF MatchesOK
<1>9. LogOK'
  BY <1>1, <1>3 DEF Inv, LogOK
<1>10. Talks(up)' /\ Playings(up)' /\ Tolds(up)'
  BY <1>1, <1>2 DEF Talks, Playings, Tolds
<1>11. QED
  BY <1>4, <1>5, <1>6, <1>7, <1>8, <1>9, <1>10 DEF Inv

LEMMA CutStep ==
    ASSUME Inv, NEW c \in Conns, Cut(c)
    PROVE  Inv'
<1>1. /\ cut' = cut \cup {c} /\ conn[c].state # "FREE"
      /\ UNCHANGED <<client, conn, matches, next_match, next_deck, drafts, games, up, down, closing>>
  BY DEF Cut, Live, logVars
<1>2. StreamsOK' /\ RecordsOK' /\ DriversOK' /\ ConnsOK' /\ MatchesOK' /\ LogOK'
  <2>1. StreamsOK'
    BY <1>1 DEF Inv, StreamsOK
  <2>2. RecordsOK'
    BY <1>1 DEF Inv, RecordsOK
  <2>3. DriversOK'
    BY <1>1 DEF Inv, DriversOK
  <2>4. ConnsOK' /\ LogOK'
    BY <1>1 DEF Inv, ConnsOK, LogOK
  <2>5. MatchesOK'
    BY <1>1 DEF Inv, MatchesOK, MatchOK
  <2>6. QED
    BY <2>1, <2>2, <2>3, <2>4, <2>5
<1>3. Talks(up)'
  BY <1>1 DEF Inv, Talks
<1>4. Playings(up)'
  BY <1>1 DEF Inv, Playings
<1>5. Tolds(up)'
  BY <1>1 DEF Inv, Tolds
<1>6. QED
  BY <1>2, <1>3, <1>4, <1>5 DEF Inv

LEMMA ConnectStep ==
    ASSUME Inv, NEW p \in Clients, Connect(p)
    PROVE  Inv'
<1>1. PICK c \in Unused :
        /\ client' = [client EXCEPT ![p] = [@ EXCEPT !.phase = "on", !.at = c]]
        /\ conn' = [conn EXCEPT ![c] = [NoConn EXCEPT !.state = "READY", !.mode = client[p].mode]]
        /\ down' = [down EXCEPT ![c] = <<[type |-> "WELCOME"]>>]
  BY DEF Connect
<1> DEFINE cn == [NoConn EXCEPT !.state = "READY", !.mode = client[p].mode]
           x == [type |-> "WELCOME"]
<1>2. /\ client[p].phase = "off"
      /\ UNCHANGED <<matches, next_match, next_deck, drafts, games, up, cut, closing>>
  BY DEF Connect, logVars
<1>3. /\ c \in Conns /\ c \notin cut /\ conn[c].state = "FREE" /\ \A q \in Clients : client[q].at # c
      /\ c # None
  BY PlayConstants DEF Unused
<1>4. /\ StreamsOK /\ RecordsOK /\ DriversOK /\ ConnsOK /\ MatchesOK /\ LogOK
      /\ client \in [Clients -> ClientRecs] /\ conn \in [Conns -> ConnRecs] /\ client[p] \in ClientRecs
  BY DEF Inv, RecordsOK
<1>5. client[p].mode \in Modes
  BY <1>4 DEF ClientRecs
<1>6. cn \in ConnRecs /\ cn.state = "READY" /\ cn.mode = client[p].mode /\ ConnOK(cn, drafts)
  BY <1>5 DEF NoConn, ConnRecs, ConnOK, States
<1>7. x \in DownMsgs /\ x.type = "WELCOME"
  BY DEF DownMsgs
<1>8. [client[p] EXCEPT !.phase = "on", !.at = c] \in ClientRecs
  BY <1>3, <1>4 DEF ClientRecs
<1>9. /\ client' \in [Clients -> ClientRecs] /\ client'[p].phase = "on" /\ client'[p].at = c
      /\ client'[p].mode = client[p].mode
      /\ \A q \in Clients \ {p} : client'[q] = client[q]
  <2>1. client' = [client EXCEPT ![p] = [client[p] EXCEPT !.phase = "on", !.at = c]]
    BY <1>1
  <2>2. /\ client' \in [Clients -> ClientRecs] /\ client'[p] = [client[p] EXCEPT !.phase = "on", !.at = c]
        /\ \A q \in Clients \ {p} : client'[q] = client[q]
    BY <1>4, <1>8, <2>1
  <2>3. QED
    BY <1>4, <2>2 DEF ClientRecs
<1> HIDE DEF cn, x
<1>10. conn' \in [Conns -> ConnRecs] /\ conn'[c] = cn /\ \A y \in Conns \ {c} : conn'[y] = conn[y]
  BY <1>1, <1>3, <1>4, <1>6 DEF cn
<1>11. /\ down' \in [Conns -> Seq(DownMsgs)] /\ down'[c] = <<x>> /\ \A y \in Conns \ {c} : down'[y] = down[y]
  <2>1. <<x>> \in Seq(DownMsgs) /\ down \in [Conns -> Seq(DownMsgs)]
    BY <1>4, <1>7 DEF StreamsOK
  <2>2. down' = [down EXCEPT ![c] = <<x>>]
    BY <1>1 DEF x
  <2>3. QED
    BY <1>3, <2>1, <2>2
<1>12. StreamsOK'
  BY <1>2, <1>4, <1>11 DEF StreamsOK
<1>13. RecordsOK'
  BY <1>2, <1>4, <1>9, <1>10 DEF RecordsOK
<1>14. DriversOK'
  <2>1. \A q \in Clients : client'[q].phase = "on" <=> client'[q].at # None
    BY <1>3, <1>4, <1>9 DEF DriversOK
  <2>2. \A q, r \in Clients : client'[q].at # None /\ client'[q].at = client'[r].at => q = r
    <3>1. \A q, r \in Clients : client[q].at # None /\ client[q].at = client[r].at => q = r
      BY <1>4 DEF DriversOK
    <3>2. QED
      BY <1>3, <1>9, <3>1
  <2>3. ASSUME NEW q \in Clients, client'[q].at # None
        PROVE  \/ client'[q].at \in cut /\ conn'[client'[q].at].state = "FREE"
               \/ conn'[client'[q].at].state # "FREE" /\ conn'[client'[q].at].mode = client'[q].mode
    <3>1. CASE q = p
      BY <1>6, <1>9, <1>10, <3>1
    <3>2. CASE q # p
      <4>1. client'[q] = client[q] /\ client[q].at \in Conns /\ client[q].at # c
        BY <1>3, <1>4, <1>9, <2>3, <3>2 DEF ClientRecs
      <4>2. conn'[client[q].at] = conn[client[q].at]
        BY <1>10, <4>1
      <4>3. QED
        BY <1>4, <2>3, <4>1, <4>2 DEF DriversOK
    <3>3. QED
      BY <3>1, <3>2
  <2>4. QED
    BY <1>2, <2>1, <2>2, <2>3 DEF DriversOK
<1>15. ConnsOK'
  BY <1>2, <1>4, <1>6, <1>10 DEF ConnsOK
<1>16. \A m \in matches, s \in 1 .. 2 : m.conn[s] \in Conns \ {c}
  BY <1>3, <1>4, SeatedAt
<1>17. MatchesOK'
  BY <1>2, <1>4, <1>6, <1>10, <1>16 DEF MatchesOK, MatchOK
<1>18. up[c] = << >>
  BY <1>3, <1>4 DEF ConnsOK
<1>19. Talk(cn, << >>, <<x>>)
  <2>1. Len(<<x>>) = 1 /\ <<x>>[1] = x
    OBVIOUS
  <2>2. AskFits(cn, x)
    BY <1>6, <1>7 DEF AskFits
  <2>3. \A j \in 1 .. Len(<<x>>) : j = 1
    BY <2>1
  <2>4. QED
    BY <1>6, <2>1, <2>2, <2>3, NoMessages DEF Talk
<1>20. Talks(up)'
  BY <1>2, <1>10, <1>11, <1>18, <1>19 DEF Inv, Talks
<1>21. Playings(up)'
  BY <1>2, <1>11, <1>16 DEF Inv, Playings
<1>22. Tolds(up)'
  <2>1. ASSUME NEW m \in matches, NEW s \in 1 .. 2, NEW q \in Clients, client'[q].at = m.conn[s]
        PROVE  q # p /\ client'[q] = client[q] /\ down'[m.conn[s]] = down[m.conn[s]]
    BY <1>9, <1>11, <1>16, <2>1
  <2>2. QED
    BY <1>2, <2>1 DEF Inv, Tolds
<1>23. LogOK'
  BY <1>2, <1>4 DEF LogOK
<1>24. QED
  BY <1>12, <1>13, <1>14, <1>15, <1>17, <1>20, <1>21, <1>22, <1>23 DEF Inv

-----------------------------------------------------------------------------
(***************************************************************************)
(* The drivers.                                                            *)
(***************************************************************************)

\* What a driver that reads a message leaves: its own record cl, and u on the way up.
Stays(p, c, cl, u) ==
    /\ cl \in ClientRecs /\ cl.mode = client[p].mode /\ cl.phase = "on" /\ cl.at = c
    /\ u \in Seq(UpMsgs) /\ (conn[c].state = "FREE" => u = << >>)
    /\ client' = [client EXCEPT ![p] = cl] /\ up' = [up EXCEPT ![c] = u]
    /\ down' = [down EXCEPT ![c] = Tail(@)] /\ cut' = cut
    /\ UNCHANGED <<conn, matches, next_match, next_deck, drafts, games, closing>>

\* It may do so when the streams of its connection remain in order.
LEMMA DriverStays ==
    ASSUME Inv, NEW p \in Clients, NEW c \in Conns, client[p].at = c, down[c] # << >>, NEW cl, NEW u,
           Stays(p, c, cl, u), conn[c].state # "FREE" => Talk(conn[c], u, Tail(down[c])),
           \A m \in matches, s \in 1 .. 2 : m.conn[s] = c =>
             /\ Playing(m, s, u, Tail(down[c])) /\ Told(m, s, u, Tail(down[c]), cl)
             /\ c \notin cut => Introduced(m, Tail(down[c]), cl)
    PROVE  Inv'
<1>1. /\ cl \in ClientRecs /\ cl.mode = client[p].mode /\ cl.phase = "on" /\ cl.at = c
      /\ u \in Seq(UpMsgs) /\ (conn[c].state = "FREE" => u = << >>)
      /\ client' = [client EXCEPT ![p] = cl] /\ up' = [up EXCEPT ![c] = u]
      /\ down' = [down EXCEPT ![c] = Tail(@)] /\ cut' = cut
      /\ UNCHANGED <<conn, matches, next_match, next_deck, drafts, games, closing>>
  BY DEF Stays
<1>2. /\ StreamsOK /\ RecordsOK /\ DriversOK /\ ConnsOK /\ MatchesOK /\ LogOK
      /\ client \in [Clients -> ClientRecs] /\ up \in [Conns -> Seq(UpMsgs)] /\ down \in [Conns -> Seq(DownMsgs)]
  BY DEF Inv, RecordsOK, StreamsOK
<1>3. client' \in [Clients -> ClientRecs] /\ client'[p] = cl /\ \A q \in Clients \ {p} : client'[q] = client[q]
  BY <1>1, <1>2
<1>4. up' \in [Conns -> Seq(UpMsgs)] /\ up'[c] = u /\ \A x \in Conns \ {c} : up'[x] = up[x]
  BY <1>1, <1>2
<1>5. /\ down' \in [Conns -> Seq(DownMsgs)] /\ down'[c] = Tail(down[c])
      /\ \A x \in Conns \ {c} : down'[x] = down[x]
  <2>1. Tail(down[c]) \in Seq(DownMsgs)
    BY <1>2, Popped
  <2>2. QED
    BY <1>1, <1>2, <2>1
<1>6. StreamsOK' /\ RecordsOK' /\ MatchesOK' /\ LogOK'
  <2>1. StreamsOK'
    BY <1>1, <1>2, <1>4, <1>5 DEF StreamsOK
  <2>2. RecordsOK'
    BY <1>1, <1>2, <1>3 DEF RecordsOK
  <2>3. MatchesOK'
    BY <1>1, <1>2 DEF MatchesOK, MatchOK
  <2>4. LogOK'
    BY <1>1, <1>2 DEF LogOK
  <2>5. QED
    BY <2>1, <2>2, <2>3, <2>4
<1>7. ConnsOK'
  BY <1>1, <1>2, <1>4 DEF ConnsOK
<1>8. \A q \in Clients : client'[q].at = client[q].at /\ client'[q].mode = client[q].mode
  BY <1>1, <1>3
<1>9. DriversOK'
  <2>1. c # None /\ client[p].phase = "on"
    BY <1>2, PlayConstants DEF DriversOK
  <2>2. \A q \in Clients : client'[q].phase = "on" <=> client'[q].at # None
    BY <1>1, <1>2, <1>3, <1>8, <2>1 DEF DriversOK
  <2>3. QED
    BY <1>1, <1>2, <1>8, <2>2 DEF DriversOK
<1>10. Talks(up)'
  BY <1>1, <1>4, <1>5 DEF Inv, Talks
<1>11. \A m \in matches, s \in 1 .. 2 : m.conn[s] \in Conns
  BY <1>2, SeatedAt
<1>12. Playings(up)'
  BY <1>1, <1>4, <1>5, <1>11 DEF Inv, Playings
<1>13. Tolds(up)'
  <2>1. ASSUME NEW m \in matches, NEW s \in 1 .. 2, NEW q \in Clients, client'[q].at = m.conn[s]
        PROVE  /\ Told(m, s, up'[m.conn[s]], down'[m.conn[s]], client'[q])
               /\ m.conn[s] \notin cut => Introduced(m, down'[m.conn[s]], client'[q])
    <3>1. CASE m.conn[s] = c
      <4>1. q = p
        BY <1>2, <1>8, <2>1, <3>1, PlayConstants DEF DriversOK
      <4>2. QED
        BY <1>3, <1>4, <1>5, <3>1, <4>1
    <3>2. CASE m.conn[s] # c
      <4>1. q # p
        BY <1>8, <2>1, <3>2
      <4>2. QED
        BY <1>3, <1>4, <1>5, <1>8, <1>11, <2>1, <3>2, <4>1 DEF Inv, Tolds
    <3>3. QED
      BY <3>1, <3>2
  <2>2. QED
    BY <1>1, <2>1 DEF Tolds
<1>14. QED
  BY <1>6, <1>7, <1>9, <1>10, <1>12, <1>13 DEF Inv

\* The driver closes its connection.
LEMMA DriverLeaves ==
    ASSUME Inv, NEW p \in Clients, NEW c \in Conns, client[p].at = c, NEW to \in {"off", "finished"}, Return(p, c, to),
           down' = [down EXCEPT ![c] = << >>],
           UNCHANGED <<conn, matches, next_match, next_deck, drafts, games, closing>>
    PROVE  Inv'
<1> DEFINE cl == [client[p] EXCEPT !.phase = to, !.at = None, !.match_id = 0, !.decided = None,
                                   !.done = client[p].done + (IF to = "finished" THEN 1 ELSE 0)]
<1>1. client' = [client EXCEPT ![p] = cl] /\ cut' = cut \cup {c} /\ up' = up
  BY DEF Return
<1>2. /\ StreamsOK /\ RecordsOK /\ DriversOK /\ ConnsOK /\ MatchesOK /\ LogOK
      /\ client \in [Clients -> ClientRecs] /\ up \in [Conns -> Seq(UpMsgs)] /\ down \in [Conns -> Seq(DownMsgs)]
  BY DEF Inv, RecordsOK, StreamsOK
<1>3. cl \in ClientRecs /\ cl.phase # "on" /\ cl.at = None
  <2>1. client[p] \in ClientRecs
    BY <1>2
  <2>2. client[p].done + (IF to = "finished" THEN 1 ELSE 0) \in Nat
    BY <2>1 DEF ClientRecs
  <2>3. QED
    BY <2>1, <2>2 DEF ClientRecs
<1> HIDE DEF cl
<1>4. client' \in [Clients -> ClientRecs] /\ client'[p] = cl /\ \A q \in Clients \ {p} : client'[q] = client[q]
  BY <1>1, <1>2, <1>3
<1>5. /\ down' \in [Conns -> Seq(DownMsgs)] /\ down'[c] = << >>
      /\ \A x \in Conns \ {c} : down'[x] = down[x]
  <2>1. << >> \in Seq(DownMsgs)
    OBVIOUS
  <2>2. QED
    BY <1>2, <2>1
<1>6. StreamsOK' /\ RecordsOK' /\ MatchesOK' /\ LogOK' /\ ConnsOK'
  <2>1. StreamsOK'
    BY <1>1, <1>2, <1>5 DEF StreamsOK
  <2>2. RecordsOK'
    BY <1>1, <1>2, <1>4 DEF RecordsOK
  <2>3. MatchesOK'
    BY <1>1, <1>2 DEF MatchesOK, MatchOK
  <2>4. LogOK' /\ ConnsOK'
    BY <1>1, <1>2 DEF LogOK, ConnsOK
  <2>5. QED
    BY <2>1, <2>2, <2>3, <2>4
<1>7. \A q \in Clients : client'[q].at # None => q # p /\ client'[q] = client[q]
  BY <1>3, <1>4
<1>8. DriversOK'
  <2>1. \A q \in Clients : client'[q].phase = "on" <=> client'[q].at # None
    BY <1>2, <1>3, <1>4 DEF DriversOK
  <2>2. QED
    BY <1>1, <1>2, <1>7, <2>1 DEF DriversOK
<1>9. \A cn, u, d : Talk(cn, u, d) => Talk(cn, u, << >>)
  BY NoMessages DEF Talk, AllRejects
<1>10. \A m, s, u, d : Playing(m, s, u, d) => Playing(m, s, u, << >>)
  BY NoMessages DEF Playing
<1>11. \A x \in Conns : down'[x] = down[x] \/ down'[x] = << >>
  BY <1>5
<1>12. Talks(up)'
  BY <1>1, <1>9, <1>11 DEF Inv, Talks
<1>13. \A m \in matches, s \in 1 .. 2 : m.conn[s] \in Conns
  BY <1>2, SeatedAt
<1>14. Playings(up)'
  BY <1>1, <1>10, <1>11, <1>13 DEF Inv, Playings
<1>15. Tolds(up)'
  <2>1. ASSUME NEW m \in matches, NEW s \in 1 .. 2, NEW q \in Clients, client'[q].at = m.conn[s]
        PROVE  client'[q] = client[q] /\ down'[m.conn[s]] = down[m.conn[s]]
    <3>1. m.conn[s] # None
      BY <1>13, PlayConstants
    <3>2. q # p /\ client'[q] = client[q]
      BY <1>7, <2>1, <3>1
    <3>3. m.conn[s] # c
      BY <1>2, <2>1, <3>1, <3>2 DEF DriversOK
    <3>4. QED
      BY <1>5, <1>13, <3>2, <3>3
  <2>2. QED
    BY <1>1, <2>1 DEF Inv, Tolds
<1>16. QED
  BY <1>6, <1>8, <1>12, <1>14, <1>15 DEF Inv

\* What a driver finds on a connection that answers, and where no question is asked.
LEMMA DriverAt ==
    ASSUME Inv, NEW p \in Clients, client[p].phase = "on"
    PROVE  /\ client[p].at \in Conns /\ client[p] \in ClientRecs
           /\ conn[client[p].at].state # "FREE" =>
                /\ conn[client[p].at].mode = client[p].mode
                /\ Talk(conn[client[p].at], up[client[p].at], down[client[p].at])
           /\ conn[client[p].at].state = "FREE" => client[p].at \in cut /\ up[client[p].at] = << >>
           /\ up[client[p].at] \in Seq(UpMsgs) /\ down[client[p].at] \in Seq(DownMsgs)
<1>1. client[p].at # None /\ client[p] \in ClientRecs
  BY DEF Inv, RecordsOK, DriversOK
<1>2. client[p].at \in Conns
  BY <1>1 DEF ClientRecs
<1>3. \/ client[p].at \in cut /\ conn[client[p].at].state = "FREE"
      \/ conn[client[p].at].state # "FREE" /\ conn[client[p].at].mode = client[p].mode
  BY <1>1 DEF Inv, DriversOK
<1>4. up[client[p].at] \in Seq(UpMsgs) /\ down[client[p].at] \in Seq(DownMsgs)
  BY <1>2 DEF Inv, StreamsOK
<1>5. conn[client[p].at].state = "FREE" => up[client[p].at] = << >>
  BY <1>2 DEF Inv, ConnsOK
<1>6. conn[client[p].at].state # "FREE" => Talk(conn[client[p].at], up[client[p].at], down[client[p].at])
  BY <1>2 DEF Inv, Talks
<1>7. QED
  BY <1>1, <1>2, <1>3, <1>4, <1>5, <1>6

\* Whoever is asked is in no match.
LEMMA AskedOutside ==
    ASSUME Inv, NEW p \in Clients, client[p].phase = "on", down[client[p].at] # << >>,
           Ask(client[p].mode, down[client[p].at][1])
    PROVE  \A m \in matches, s \in 1 .. 2 : m.conn[s] # client[p].at
<1> DEFINE c == client[p].at
<1>1. ASSUME NEW m \in matches, NEW s \in 1 .. 2, m.conn[s] = c
      PROVE  FALSE
  <2>1. conn[c].state = "IN_MATCH"
    BY <1>1, SeatedAt DEF Inv
  <2>2. /\ conn[c].mode = client[p].mode /\ Talk(conn[c], up[c], down[c])
        /\ up[c] \in Seq(UpMsgs) /\ down[c] \in Seq(DownMsgs)
    BY <2>1, DriverAt
  <2> HIDE DEF c
  <2>3. Quiet(conn[c], up[c], down[c])
    BY <2>1, <2>2, QuietWhenWaiting
  <2>4. 1 \in 1 .. Len(down[c])
    BY <2>2, Popped DEF c
  <2>5. QED
    BY <2>2, <2>3, <2>4 DEF Quiet, c
<1>2. QED
  BY <1>1

\* The answer to a question: one request, on its way or lost.
LEMMA Answers ==
    ASSUME Inv, NEW p \in Clients, client[p].phase = "on", NEW c, c = client[p].at, down[c] # << >>,
           Ask(client[p].mode, down[c][1]), NEW cl \in ClientRecs, cl.mode = client[p].mode, cl.phase = "on", cl.at = c,
           client' = [client EXCEPT ![p] = cl], NEW x \in UpMsgs, Request(x),
           conn[c].state # "FREE" /\ conn[c].mode = client[p].mode /\ AskFits(conn[c], down[c][1]) => RequestFits(conn[c], x),
           Send(c, x), down' = [down EXCEPT ![c] = Tail(@)], cut' = cut,
           UNCHANGED <<conn, matches, next_match, next_deck, drafts, games, closing>>
    PROVE  Inv'
<1> DEFINE u == IF c \in cut \/ conn[c].state = "FREE" THEN up[c] ELSE Append(up[c], x)
           d == down[c]
<1>1. /\ c \in Conns /\ up[c] \in Seq(UpMsgs) /\ d \in Seq(DownMsgs)
      /\ conn[c].state # "FREE" => conn[c].mode = client[p].mode /\ Talk(conn[c], up[c], d)
      /\ conn[c].state = "FREE" => c \in cut /\ up[c] = << >>
  BY DriverAt
<1>2. up' = [up EXCEPT ![c] = u]
  BY DEF Send
<1>3. u \in Seq(UpMsgs)
  BY <1>1, Added
<1>4. Stays(p, c, cl, u)
  <2>1. conn[c].state = "FREE" => u = << >>
    BY <1>1
  <2> HIDE DEF u
  <2>2. QED
    BY <1>2, <1>3, <2>1 DEF Stays
<1>5. ASSUME conn[c].state # "FREE"
      PROVE  Talk(conn[c], u, Tail(d))
  <2>1. conn[c].mode = client[p].mode /\ Talk(conn[c], up[c], d) /\ Ask(conn[c].mode, d[1]) /\ d # << >>
    BY <1>1, <1>5
  <2> HIDE DEF d
  <2>2. AllRejects(Tail(d)) /\ AskFits(conn[c], d[1]) /\ \A i \in 1 .. Len(up[c]) : ~Request(up[c][i])
    BY <1>1, <2>1, ReadsAsk
  <2>3. Talk(conn[c], up[c], Tail(d)) /\ Tail(d) \in Seq(DownMsgs)
    BY <1>1, <2>1, Reads, Popped
  <2>4. RequestFits(conn[c], x)
    BY <1>5, <2>1, <2>2 DEF d
  <2>5. conn[c].state # "QUEUED"
    BY <2>4, UpCases DEF RequestFits, Request
  <2>6. Talk(conn[c], Append(up[c], x), Tail(d))
    BY <1>1, <2>2, <2>3, <2>4, <2>5, Sends
  <2>7. QED
    BY <2>3, <2>6
<1>6. \A m \in matches, s \in 1 .. 2 : m.conn[s] # c
  BY AskedOutside
<1> HIDE DEF u
<1>7. QED
  BY ZenonT(60), <1>1, <1>4, <1>5, <1>6, DriverStays

\* A driver takes note of something and says nothing.
LEMMA Notes ==
    ASSUME Inv, NEW p \in Clients, client[p].phase = "on", NEW c, c = client[p].at, down[c] # << >>,
           ~Starts(down[c][1]), NEW cl \in ClientRecs, cl.mode = client[p].mode, cl.phase = "on", cl.at = c,
           cl.decided = client[p].decided, client' = [client EXCEPT ![p] = cl],
           down[c][1].type = "MATCH_FOUND" => cl.match_id = down[c][1].match,
           down[c][1].type # "MATCH_FOUND" => cl.match_id = client[p].match_id,
           up' = up, down' = [down EXCEPT ![c] = Tail(@)], cut' = cut,
           UNCHANGED <<conn, matches, next_match, next_deck, drafts, games, closing>>
    PROVE  Inv'
<1> DEFINE u == up[c]
           d == down[c]
<1>1. /\ c \in Conns /\ u \in Seq(UpMsgs) /\ d \in Seq(DownMsgs)
      /\ conn[c].state # "FREE" => conn[c].mode = client[p].mode /\ Talk(conn[c], u, d)
      /\ conn[c].state = "FREE" => c \in cut /\ u = << >>
  BY DriverAt
<1>2. up' = [up EXCEPT ![c] = u]
  BY DEF Inv, StreamsOK
<1>3. Stays(p, c, cl, u)
  <2> HIDE DEF u
  <2>1. QED
    BY <1>1, <1>2 DEF Stays
<1>4. conn[c].state # "FREE" => Talk(conn[c], u, Tail(d))
  BY <1>1, Reads
<1>5. ASSUME NEW m \in matches, NEW s \in 1 .. 2, m.conn[s] = c
      PROVE  /\ Playing(m, s, u, Tail(d)) /\ Told(m, s, u, Tail(d), cl)
             /\ c \notin cut => Introduced(m, Tail(d), cl)
  <2>1. Playing(m, s, u, d)
    BY <1>5 DEF Inv, Playings
  <2>2. Told(m, s, u, d, client[p]) /\ (c \notin cut => Introduced(m, d, client[p]))
    BY <1>5 DEF Inv, Tolds
  <2>3. /\ d # << >> /\ ~Starts(d[1])
        /\ d[1].type = "MATCH_FOUND" => cl.match_id = d[1].match
        /\ d[1].type # "MATCH_FOUND" => cl.match_id = client[p].match_id
    OBVIOUS
  <2> HIDE DEF u, d
  <2>4. /\ Playing(m, s, u, Tail(d))
        /\ \A al, dl :
             /\ Told(m, s, u, d, al) /\ ~Starts(d[1]) /\ dl.decided = al.decided
             /\ d[1].type = "MATCH_FOUND" => dl.match_id = d[1].match
             /\ d[1].type # "MATCH_FOUND" => dl.match_id = al.match_id
             => /\ Told(m, s, u, Tail(d), dl)
                /\ Introduced(m, d, al) => Introduced(m, Tail(d), dl)
    BY <1>1, <2>1, <2>3, PlayReads
  <2>5. QED
    BY <2>2, <2>3, <2>4
<1> HIDE DEF u
<1>6. QED
  BY <1>1, <1>3, <1>4, <1>5, DriverStays

\* It decides on a play for the round that it is told of.
LEMMA Chooses ==
    ASSUME Inv, NEW p \in Clients, client[p].phase = "on", NEW c, c = client[p].at, down[c] # << >>,
           Starts(down[c][1]), Choose(p, c, down[c][1]), down' = [down EXCEPT ![c] = Tail(@)],
           UNCHANGED <<conn, matches, next_match, next_deck, drafts, games, closing>>
    PROVE  Inv'
<1> DEFINE d == down[c]
<1>1. /\ c \in Conns /\ client[p] \in ClientRecs /\ up[c] \in Seq(UpMsgs) /\ d \in Seq(DownMsgs)
      /\ conn[c].state # "FREE" => conn[c].mode = client[p].mode /\ Talk(conn[c], up[c], d)
      /\ conn[c].state = "FREE" => c \in cut /\ up[c] = << >>
  BY DriverAt
<1>2. d[1] \in DownMsgs /\ d # << >> /\ Starts(d[1]) /\ 1 \in 1 .. Len(d)
  BY <1>1, Popped
<1>3. d[1].round \in Nat /\ d[1].legal \in Hands
  BY <1>2, DownCases DEF Starts
<1>4. PICK slot \in d[1].legal \cup {Pass} :
        LET play == [type |-> "PLAY", match |-> client[p].match_id, round |-> d[1].round, slot |-> slot]
        IN  /\ Send(c, play)
            /\ client' = [client EXCEPT ![p].decided = [match |-> play.match, round |-> play.round, slot |-> slot]]
            /\ UNCHANGED cut
  BY DEF Choose
<1> DEFINE x == [type |-> "PLAY", match |-> client[p].match_id, round |-> d[1].round, slot |-> slot]
           dc == [match |-> client[p].match_id, round |-> d[1].round, slot |-> slot]
           cl == [client[p] EXCEPT !.decided = dc]
           u == IF c \in cut \/ conn[c].state = "FREE" THEN up[c] ELSE Append(up[c], x)
<1>5. Send(c, x) /\ client' = [client EXCEPT ![p] = cl] /\ cut' = cut
  <2>1. Send(c, x) /\ client' = [client EXCEPT ![p].decided = dc] /\ cut' = cut
    BY <1>4
  <2>2. QED
    BY <2>1
<1>6. slot \in Slots /\ client[p].match_id \in Nat
  <2>1. \A hand \in Hands : \A k \in hand \cup {Pass} : k \in Slots
    <3>1. ASSUME NEW hand \in Hands, NEW k \in hand \cup {Pass}
          PROVE  k \in UNION Hands \/ k = Pass
      OBVIOUS
    <3>2. QED
      BY <3>1 DEF Slots
  <2>2. slot \in d[1].legal \cup {Pass}
    OBVIOUS
  <2>3. slot \in Slots
    BY <1>3, <2>1, <2>2, Zenon
  <2>4. client[p].match_id \in Nat
    BY <1>1 DEF ClientRecs
  <2>5. QED
    BY <2>3, <2>4
<1>7. /\ x \in UpMsgs /\ x.type = "PLAY" /\ x.match = client[p].match_id /\ x.round = d[1].round
      /\ x.slot \in d[1].legal \cup {Pass} /\ x.slot = slot
  BY <1>3, <1>6 DEF UpMsgs
<1>8. dc \in Plays
  BY <1>3, <1>6 DEF Plays
<1>9. dc = [match |-> x.match, round |-> x.round, slot |-> x.slot]
  BY <1>7
<1>10. up' = [up EXCEPT ![c] = u]
  BY <1>5 DEF Send
<1> HIDE DEF x, dc, d
<1>11. /\ cl \in ClientRecs /\ cl.mode = client[p].mode /\ cl.phase = "on" /\ cl.at = c
       /\ cl.match_id = client[p].match_id /\ cl.decided = dc
  BY <1>1, <1>8 DEF ClientRecs
<1>12. u \in Seq(UpMsgs) /\ (conn[c].state = "FREE" => u = << >>) /\ (u = up[c] \/ u = Append(up[c], x))
  BY <1>1, <1>7, Added
<1> HIDE DEF cl, u
<1>13. Stays(p, c, cl, u)
  BY <1>5, <1>10, <1>11, <1>12 DEF Stays
<1>14. ASSUME conn[c].state # "FREE"
       PROVE  Talk(conn[c], u, Tail(d))
  <2>1. Talk(conn[c], up[c], d)
    BY <1>1, <1>14
  <2>2. Talk(conn[c], up[c], Tail(d)) /\ Tail(d) \in Seq(DownMsgs)
    BY <1>1, <1>2, <2>1, Reads, Popped
  <2>3. conn[c].state # "QUEUED" /\ ~AllRejects(d)
    BY <1>2, <2>1 DEF Talk, Starts, AllRejects
  <2>4. \A i \in 1 .. Len(up[c]) : ~Request(up[c][i])
    BY <2>1, <2>3 DEF Talk
  <2>5. ~Request(x)
    BY <1>7 DEF Request
  <2>6. Talk(conn[c], Append(up[c], x), Tail(d))
    BY <1>1, <1>7, <2>2, <2>3, <2>4, <2>5, Sends
  <2>7. QED
    BY <1>12, <2>2, <2>6
<1>15. ASSUME NEW m \in matches, NEW s \in 1 .. 2, m.conn[s] = c
       PROVE  /\ Playing(m, s, u, Tail(d)) /\ Told(m, s, u, Tail(d), cl)
              /\ c \notin cut => Introduced(m, Tail(d), cl)
  <2>1. Playing(m, s, up[c], d) /\ m.round \in Nat
    BY <1>15 DEF Inv, Playings, RecordsOK, MatchRecs, d
  <2>2. Told(m, s, up[c], d, client[p]) /\ (c \notin cut => Introduced(m, d, client[p]))
    BY <1>15 DEF Inv, Tolds, d
  <2>3. /\ Playing(m, s, Append(up[c], x), Tail(d))
        /\ Told(m, s, Append(up[c], x), Tail(d), cl) /\ Told(m, s, up[c], Tail(d), cl)
        /\ Introduced(m, d, client[p]) => Introduced(m, Tail(d), cl)
    <3> DEFINE v == up[c]
    <3>1. v \in Seq(UpMsgs) /\ Playing(m, s, v, d) /\ Told(m, s, v, d, client[p])
      BY <1>1, <2>1, <2>2
    <3> HIDE DEF v
    <3>2. /\ Playing(m, s, Append(v, x), Tail(d))
          /\ Told(m, s, Append(v, x), Tail(d), cl) /\ Told(m, s, v, Tail(d), cl)
          /\ Introduced(m, d, client[p]) => Introduced(m, Tail(d), cl)
      BY <1>1, <1>2, <1>7, <1>9, <1>11, <2>1, <3>1, PlaySends
    <3>3. QED
      BY <3>2 DEF v
  <2>4. Playing(m, s, up[c], Tail(d))
    BY <1>1, <1>2, <2>1, PlayReads
  <2>5. QED
    BY <1>12, <2>2, <2>3, <2>4
<1>16. QED
  BY <1>1, <1>13, <1>14, <1>15, DriverStays DEF d

\* The requests.
LEMMA RequestsAre ==
    /\ \A b \in BOOLEAN : QueueMsg(b) \in UpMsgs /\ QueueMsg(b).type = "QUEUE"
    /\ \A cards \in LegalDecks :
         /\ [type |-> "DRAFT_RESUME", cards |-> cards] \in UpMsgs
         /\ [type |-> "DRAFT_RESUME", cards |-> cards].type = "DRAFT_RESUME"
    /\ \A i \in 1 .. 2, k \in Copies :
         /\ [type |-> "DRAFT_PICK", index |-> i, mult |-> k] \in UpMsgs
         /\ [type |-> "DRAFT_PICK", index |-> i, mult |-> k].type = "DRAFT_PICK"
         /\ [type |-> "DRAFT_PICK", index |-> i, mult |-> k].mult = k
BY DEF UpMsgs, QueueMsg

LEMMA ClientReadsStep ==
    ASSUME Inv, NEW p \in Clients, ClientReads(p)
    PROVE  Inv'
<1> DEFINE c == client[p].at
           msg == Head(down[c])
           x == down[c][1]
<1>1. /\ client[p].phase = "on" /\ down[c] # << >>
      /\ down' = [down EXCEPT ![c] = IF client'[p].phase = "on" THEN Tail(@) ELSE << >>]
      /\ UNCHANGED <<conn, matches, next_match, next_deck, drafts, games, closing>>
  BY DEF ClientReads, logVars
<1>2. c \in Conns /\ client[p] \in ClientRecs /\ down[c] \in Seq(DownMsgs) /\ client \in [Clients -> ClientRecs]
  BY <1>1, DriverAt DEF Inv, RecordsOK
<1>3. msg = x /\ x \in DownMsgs
  BY <1>1, <1>2, Popped
<1>4. CASE x.type = "WELCOME"
  <2>1. Welcomed(p, c) /\ client' = client /\ cut' = cut
    BY <1>3, <1>4 DEF ClientReads
  <2>2. down' = [down EXCEPT ![c] = Tail(@)]
    BY <1>1, <2>1
  <2>3. client' = [client EXCEPT ![p] = client[p]]
    BY <1>2, <2>1
  <2>4. Ask(client[p].mode, x)
    BY <1>4 DEF Ask
  <2>5. CASE client[p].mode = "constructed"
    <3>1. PICK cards \in LegalDecks : Send(c, [type |-> "DRAFT_RESUME", cards |-> cards])
      BY <2>1, <2>5 DEF Welcomed, SendDeck
    <3> DEFINE y == [type |-> "DRAFT_RESUME", cards |-> cards]
    <3>2. y \in UpMsgs /\ y.type = "DRAFT_RESUME" /\ Send(c, y)
      BY <3>1, RequestsAre
    <3> HIDE DEF y
    <3>3. conn[c].mode = client[p].mode /\ AskFits(conn[c], x) => RequestFits(conn[c], y)
      BY <1>4, <2>5, <3>2 DEF AskFits, RequestFits
    <3>4. QED
      BY <1>1, <1>2, <2>1, <2>2, <2>3, <2>4, <3>2, <3>3, Answers DEF Request
  <2>6. CASE client[p].mode # "constructed"
    <3>1. Send(c, QueueMsg(FALSE))
      BY <2>1, <2>6 DEF Welcomed
    <3> DEFINE y == QueueMsg(FALSE)
    <3>2. y \in UpMsgs /\ y.type = "QUEUE" /\ Send(c, y)
      BY <3>1, RequestsAre
    <3> HIDE DEF y
    <3>3. conn[c].mode = client[p].mode /\ AskFits(conn[c], x) => RequestFits(conn[c], y)
      BY <1>4, <2>6, <3>2 DEF AskFits, RequestFits
    <3>4. QED
      BY <1>1, <1>2, <2>1, <2>2, <2>3, <2>4, <3>2, <3>3, Answers DEF Request
  <2>7. QED
    BY <2>5, <2>6
<1>5. CASE x.type = "DRAFT_OFFER"
  <2>1. Offered(c, x) /\ client' = client /\ cut' = cut
    BY <1>3, <1>5 DEF ClientReads
  <2>2. down' = [down EXCEPT ![c] = Tail(@)]
    BY <1>1, <2>1
  <2>3. client' = [client EXCEPT ![p] = client[p]]
    BY <1>2, <2>1
  <2>4. PICK idx \in 1 .. 2, mult \in {k \in Copies : x.left[k] > 0} :
          Send(c, [type |-> "DRAFT_PICK", index |-> idx, mult |-> mult])
    BY <2>1 DEF Offered
  <2> DEFINE y == [type |-> "DRAFT_PICK", index |-> idx, mult |-> mult]
  <2>5. y \in UpMsgs /\ y.type = "DRAFT_PICK" /\ y.mult = mult /\ x.left[mult] > 0 /\ Send(c, y)
    BY <2>4, RequestsAre
  <2> HIDE DEF y
  <2>6. AskFits(conn[c], x) => RequestFits(conn[c], y)
    BY <1>5, <2>5 DEF AskFits, RequestFits
  <2>7. Ask(client[p].mode, x)
    BY <1>5 DEF Ask
  <2>8. QED
    BY <1>1, <1>2, <2>1, <2>2, <2>3, <2>5, <2>6, <2>7, Answers DEF Request
<1>6. CASE x.type = "DRAFT_DONE"
  <2>1. Drafted(p, c) /\ client' = client /\ cut' = cut
    BY <1>3, <1>6 DEF ClientReads
  <2>2. down' = [down EXCEPT ![c] = Tail(@)]
    BY <1>1, <2>1
  <2>3. client' = [client EXCEPT ![p] = client[p]]
    BY <1>2, <2>1
  <2>4. CASE client[p].mode = "constructed"
    <3>1. Send(c, QueueMsg(TRUE))
      BY <2>1, <2>4 DEF Drafted
    <3> DEFINE y == QueueMsg(TRUE)
    <3>2. y \in UpMsgs /\ y.type = "QUEUE" /\ Send(c, y)
      BY <3>1, RequestsAre
    <3> HIDE DEF y
    <3>3. AskFits(conn[c], x) => RequestFits(conn[c], y)
      BY <1>6, <3>2 DEF AskFits, RequestFits
    <3>4. Ask(client[p].mode, x)
      BY <1>6, <2>4 DEF Ask
    <3>5. QED
      BY <1>1, <1>2, <2>1, <2>2, <2>3, <3>2, <3>3, <3>4, Answers DEF Request
  <2>5. CASE client[p].mode # "constructed"
    <3>1. up' = up
      BY <2>1, <2>5 DEF Drafted
    <3>2. ~Starts(x)
      BY <1>6 DEF Starts
    <3>3. QED
      BY <1>1, <1>2, <1>6, <2>1, <2>2, <2>3, <3>1, <3>2, Notes
  <2>6. QED
    BY <2>4, <2>5
<1>7. CASE x.type = "MATCH_FOUND"
  <2>1. client' = [client EXCEPT ![p].match_id = x.match] /\ up' = up /\ cut' = cut
    BY <1>3, <1>7 DEF ClientReads
  <2> DEFINE cl == [client[p] EXCEPT !.match_id = x.match]
  <2>2. client' = [client EXCEPT ![p] = cl]
    BY <2>1
  <2>3. x.match \in Nat
    BY <1>3, <1>7, DownCases
  <2>4. /\ cl \in ClientRecs /\ cl.mode = client[p].mode /\ cl.phase = "on" /\ cl.at = c
        /\ cl.decided = client[p].decided /\ cl.match_id = x.match
    BY <1>1, <1>2, <2>3 DEF ClientRecs
  <2> HIDE DEF cl
  <2>5. client'[p] = cl
    BY <1>2, <2>2
  <2>6. down' = [down EXCEPT ![c] = Tail(@)]
    BY <1>1, <2>4, <2>5
  <2>7. ~Starts(x)
    BY <1>7 DEF Starts
  <2>8. /\ x.type = "MATCH_FOUND" => cl.match_id = x.match
        /\ x.type # "MATCH_FOUND" => cl.match_id = client[p].match_id
    BY <1>7, <2>4
  <2>9. up' = up /\ cut' = cut
    BY <2>1
  <2>10. QED
    BY <1>1, <2>2, <2>4, <2>6, <2>7, <2>8, <2>9, Notes
<1>8. CASE x.type = "ROUND_START"
  <2>1. Choose(p, c, x)
    BY <1>3, <1>8 DEF ClientReads
  <2>2. client'[p].phase = "on"
    <3>1. PICK y : client' = [client EXCEPT ![p].decided = y]
      BY <2>1 DEF Choose
    <3>2. client'[p] = [client[p] EXCEPT !.decided = y]
      BY <1>2, <3>1
    <3>3. QED
      BY <1>1, <1>2, <3>2 DEF ClientRecs
  <2>3. down' = [down EXCEPT ![c] = Tail(@)]
    BY <1>1, <2>2
  <2>4. Starts(x)
    BY <1>8 DEF Starts
  <2>5. QED
    BY <1>1, <2>1, <2>3, <2>4, Chooses
<1>9. CASE x.type = "PLAY_REJECT"
  <2>1. Rejected(c, x) /\ client' = client /\ cut' = cut
    BY <1>3, <1>9 DEF ClientReads
  <2>2. x.reason # "illegal card"
    BY <1>3, <1>9, DownCases
  <2>3. up' = up
    BY <2>1, <2>2 DEF Rejected
  <2>4. down' = [down EXCEPT ![c] = Tail(@)]
    BY <1>1, <2>1
  <2>5. client' = [client EXCEPT ![p] = client[p]]
    BY <1>2, <2>1
  <2>6. ~Starts(x)
    BY <1>9 DEF Starts
  <2>7. QED
    BY <1>1, <1>2, <1>9, <2>1, <2>3, <2>4, <2>5, <2>6, Notes
<1>10. CASE x.type = "MATCH_END"
  <2>1. CASE client[p].done + 1 >= Target[p]
    <3>1. Return(p, c, "finished")
      BY <1>3, <1>10, <2>1 DEF ClientReads
    <3>2. client'[p].phase = "finished"
      BY <1>2, <3>1 DEF Return, ClientRecs
    <3>3. down' = [down EXCEPT ![c] = << >>]
      BY <1>1, <3>2
    <3>4. QED
      BY <1>1, <1>2, <3>1, <3>3, DriverLeaves
  <2>2. CASE ~(client[p].done + 1 >= Target[p])
    <3>1. Requeue(p, c, x)
      BY <1>3, <1>10, <2>2 DEF ClientReads
    <3> DEFINE cl == [client[p] EXCEPT !.done = @ + 1]
    <3>2. client' = [client EXCEPT ![p] = cl] /\ cut' = cut
      BY <3>1 DEF Requeue
    <3>3. cl \in ClientRecs /\ cl.mode = client[p].mode /\ cl.phase = "on" /\ cl.at = c
      <4>1. client[p].done + 1 \in Nat
        BY <1>2 DEF ClientRecs
      <4>2. QED
        BY <1>1, <1>2, <4>1 DEF ClientRecs
    <3> HIDE DEF cl
    <3>4. client'[p] = cl
      BY <1>2, <3>2
    <3>5. down' = [down EXCEPT ![c] = Tail(@)]
      BY <1>1, <3>3, <3>4
    <3>6. Ask(client[p].mode, x)
      BY <1>10 DEF Ask
    <3>7. CASE client[p].mode = "constructed"
      <4>1. PICK cards \in LegalDecks : Send(c, [type |-> "DRAFT_RESUME", cards |-> cards])
        BY <3>1, <3>7 DEF Requeue, SendDeck
      <4> DEFINE y == [type |-> "DRAFT_RESUME", cards |-> cards]
      <4>2. y \in UpMsgs /\ y.type = "DRAFT_RESUME" /\ Send(c, y)
        BY <4>1, RequestsAre
      <4> HIDE DEF y
      <4>3. conn[c].mode = client[p].mode /\ AskFits(conn[c], x) => RequestFits(conn[c], y)
        BY <1>10, <3>7, <4>2 DEF AskFits, RequestFits
      <4>4. QED
        BY <1>1, <3>2, <3>3, <3>5, <3>6, <4>2, <4>3, Answers DEF Request
    <3>8. CASE client[p].mode # "constructed"
      <4> DEFINE b == client[p].mode = "draft" /\ x.result # "loss"
                 y == QueueMsg(b)
      <4>1. Send(c, y)
        BY <3>1, <3>8 DEF Requeue
      <4>2. b \in BOOLEAN
        OBVIOUS
      <4> HIDE DEF b
      <4>3. y \in UpMsgs /\ y.type = "QUEUE"
        BY <4>2, RequestsAre
      <4> HIDE DEF y
      <4>4. conn[c].mode = client[p].mode /\ AskFits(conn[c], x) => RequestFits(conn[c], y)
        BY <1>10, <3>8, <4>3 DEF AskFits, RequestFits
      <4>5. QED
        BY <1>1, <3>2, <3>3, <3>5, <3>6, <4>1, <4>3, <4>4, Answers DEF Request
    <3>9. QED
      BY <3>7, <3>8
  <2>3. QED
    BY <2>1, <2>2
<1>11. QED
  BY <1>3, <1>4, <1>5, <1>6, <1>7, <1>8, <1>9, <1>10, DownCases

LEMMA LostStep ==
    ASSUME Inv, NEW p \in Clients, Lost(p)
    PROVE  Inv'
<1>1. /\ client[p].phase = "on" /\ Return(p, client[p].at, "off") /\ down' = [down EXCEPT ![client[p].at] = << >>]
      /\ UNCHANGED <<conn, matches, next_match, next_deck, drafts, games, closing>>
  BY DEF Lost, logVars
<1>2. client[p].at \in Conns
  BY <1>1, DriverAt
<1>3. QED
  BY <1>1, <1>2, DriverLeaves

-----------------------------------------------------------------------------
(***************************************************************************)
(* The invariant, and what follows from it.                                *)
(***************************************************************************)

LEMMA InitInv == Init => Inv
<1> SUFFICES ASSUME Init
             PROVE  Inv
  OBVIOUS
<1>1. /\ client \in [Clients -> [mode : Modes, phase : {"off"}, at : {None}, match_id : {0}, done : {0},
                                 decided : {None}]]
      /\ conn = [c \in Conns |-> NoConn] /\ matches = {} /\ next_match = 1 /\ next_deck = 1
      /\ drafts = {} /\ games = {} /\ up = [c \in Conns |-> << >>] /\ down = [c \in Conns |-> << >>]
      /\ cut = {} /\ closing = {}
  BY DEF Init
<1>2. NoConn \in ConnRecs /\ ConnOK(NoConn, drafts) /\ NoConn.state = "FREE"
  BY DEF NoConn, ConnRecs, ConnOK, States
<1>3. StreamsOK
  <2>1. << >> \in Seq(UpMsgs) /\ << >> \in Seq(DownMsgs)
    OBVIOUS
  <2>2. QED
    BY <1>1, <2>1 DEF StreamsOK
<1>4. \A p \in Clients : client[p] \in ClientRecs /\ client[p].phase = "off" /\ client[p].at = None
  BY <1>1 DEF ClientRecs
<1>5. RecordsOK
  <2>1. client \in [Clients -> ClientRecs]
    BY <1>1, <1>4
  <2>2. QED
    BY <1>1, <1>2, <2>1 DEF RecordsOK
<1>6. DriversOK
  BY <1>4 DEF DriversOK
<1>7. ConnsOK /\ MatchesOK /\ LogOK
  BY <1>1, <1>2 DEF ConnsOK, MatchesOK, LogOK
<1>8. Talks(up) /\ Playings(up) /\ Tolds(up)
  BY <1>1, <1>2 DEF Talks, Playings, Tolds
<1>9. QED
  BY <1>3, <1>5, <1>6, <1>7, <1>8 DEF Inv

LEMMA InvStep == Inv /\ [Next]_vars => Inv'
<1> SUFFICES ASSUME Inv, [Next]_vars
             PROVE  Inv'
  OBVIOUS
<1>1. ASSUME NEW c \in Conns, ServerReads(c)
      PROVE  Inv'
  BY <1>1, ServerReadsStep
<1>2. ASSUME NEW c \in Conns, ConnClose(c)
      PROVE  Inv'
  BY <1>2, ConnCloseStep
<1>3. ASSUME NEW c \in Conns, Cut(c)
      PROVE  Inv'
  BY <1>3, CutStep
<1>4. ASSUME NEW m \in matches, Deadline(m)
      PROVE  Inv'
  BY <1>4, DeadlineStep
<1>5. ASSUME NEW p \in Clients, Connect(p)
      PROVE  Inv'
  BY <1>5, ConnectStep
<1>6. ASSUME NEW p \in Clients, ClientReads(p)
      PROVE  Inv'
  BY <1>6, ClientReadsStep
<1>7. ASSUME NEW p \in Clients, Lost(p)
      PROVE  Inv'
  BY <1>7, LostStep
<1>8. CASE Crash
  BY <1>8, CrashStep
<1>9. CASE UNCHANGED vars
  <2>1. UNCHANGED <<client, conn, matches, next_match, next_deck, drafts, games, up, down, cut, closing>>
    BY <1>9 DEF vars, logVars, wireVars
  <2>2. StreamsOK' /\ RecordsOK' /\ DriversOK'
    BY <2>1 DEF Inv, StreamsOK, RecordsOK, DriversOK
  <2>3. ConnsOK' /\ LogOK'
    BY <2>1 DEF Inv, ConnsOK, LogOK
  <2>4. MatchesOK'
    BY <2>1 DEF Inv, MatchesOK, MatchOK
  <2>5. Talks(up)' /\ Playings(up)' /\ Tolds(up)'
    BY <2>1 DEF Inv, Talks, Playings, Tolds
  <2>6. QED
    BY <2>2, <2>3, <2>4, <2>5 DEF Inv
<1>10. QED
  BY <1>1, <1>2, <1>3, <1>4, <1>5, <1>6, <1>7, <1>8, <1>9 DEF Next

\* What the streams, the connections, the matches and the log satisfy, whatever breaks and whatever
\* crashes: the invariant that the theorems below are read off.
THEOREM Streams == Spec => []Inv
<1>1. QED
  BY InitInv, InvStep, PTL DEF Spec

\* The handlers keep Conn and match together: nobody is queued or plays without the deck of his mode,
\* a draft that is open is consistent and not done, a match is in one of its rounds, and a round with
\* both locks set is resolved in the step that set them.
THEOREM ConnsStayInOrder == Spec => []PlayTypeOK
<1>1. Inv => PlayTypeOK
  <2> SUFFICES ASSUME Inv
               PROVE  PlayTypeOK
    OBVIOUS
  <2>1. ASSUME NEW c \in Conns
        PROVE  /\ conn[c].state \in {"FREE", "READY", "DRAFTING", "QUEUED", "IN_MATCH"}
               /\ conn[c].deck # None => DeckValid(conn[c].deck)
               /\ conn[c].state = "DRAFTING" => DraftOK(conn[c].draft) /\ ~DraftDone(conn[c].draft)
               /\ conn[c].state \in {"QUEUED", "IN_MATCH"} /\ conn[c].mode # "card" => conn[c].deck # None
    <3>1. conn[c] \in ConnRecs /\ ConnOK(conn[c], drafts)
      BY DEF Inv, RecordsOK, ConnsOK
    <3>2. QED
      BY <3>1 DEF ConnRecs, ConnOK, States
  <2>2. \A m \in matches : m.round \in 1 .. MaxRounds[m.mode] /\ None \in {m.lock[1], m.lock[2]}
    BY DEF Inv, MatchesOK, MatchOK
  <2>3. QED
    BY <2>1, <2>2 DEF PlayTypeOK
<1>2. QED
  BY <1>1, Streams, PTL

\* What the PLAY handler has locked for a seat is what the driver there chose when it read the
\* ROUND_START of that match and that round, although plays, deadlines and the next round's
\* ROUND_START pass each other on the wire.
THEOREM LocksAreDecisions == Spec => []LockedAsDecided
<1>1. Inv => LockedAsDecided
  <2> SUFFICES ASSUME Inv, NEW m \in matches, NEW s \in 1 .. 2, NEW p \in Clients,
                      m.lock[s] # None, client[p].at = m.conn[s]
               PROVE  client[p].decided = [match |-> m.id, round |-> m.round, slot |-> m.lock[s]]
    BY DEF LockedAsDecided
  <2>1. Told(m, s, up[m.conn[s]], down[m.conn[s]], client[p])
    BY DEF Inv, Tolds
  <2>2. QED
    BY <2>1 DEF Told, Decision
<1>2. QED
  BY <1>1, Streams, PTL

\* A driver of this client code is never sent an ERROR, its connection is never condemned by a handler,
\* and the PLAY handler refuses its plays for coming too late and for no other reason.
THEOREM OnlyLatePlaysRefused == Spec => []NeverRefused
<1>1. Inv => NeverRefused
  <2> SUFFICES ASSUME Inv
               PROVE  NeverRefused
    OBVIOUS
  <2>1. closing = {}
    BY DEF Inv, StreamsOK
  <2>2. ASSUME NEW c \in Conns, NEW i \in DOMAIN down[c], down[c][i].type = "PLAY_REJECT"
        PROVE  down[c][i].reason \in {"no match", "wrong round"}
    <3>1. down[c] \in Seq(DownMsgs)
      BY DEF Inv, StreamsOK
    <3>2. down[c][i] \in DownMsgs
      BY <3>1
    <3>3. QED
      BY <2>2, <3>2, DownCases
  <2>3. QED
    BY <2>1, <2>2 DEF NeverRefused
<1>2. QED
  BY <1>1, Streams, PTL

\* decks.ndjson stays keyed by deck id through every crash: resume_deck_ids takes up behind the highest
\* logged id, no id is logged twice, and the games are logged under the id of the deck they were played with.
THEOREM LogKeyedByDeck == Spec => []DecksKeyed
<1>1. Inv => DecksKeyed
  BY DEF Inv, LogOK, DecksKeyed
<1>2. QED
  BY <1>1, Streams, PTL

-----------------------------------------------------------------------------
(***************************************************************************)
(* The loop of make_offer ends: a draft that is open can always go on.     *)
(***************************************************************************)

\* Two cards that were not taken exist as long as fewer than all but one were.
LEMMA OffersExist ==
    ASSUME NEW n \in Nat, NEW used \in SUBSET Cards, Cardinality(used) <= n
    PROVE  Offers(n, used) # {}
<1>1. CASE n >= Picks
  BY <1>1 DEF Offers
<1>2. CASE ~(n >= Picks)
  <2>1. n < Picks /\ Picks < Cardinality(Cards) /\ Cardinality(Cards) \in Nat /\ IsFiniteSet(Cards)
    BY <1>2, PicksNat, CatalogOK, FS_CardinalityType
  <2>2. IsFiniteSet(used) /\ Cardinality(used) \in Nat
    BY CardsCounted
  <2>3. PICK x \in Cards : x \notin used
    <3>1. used # Cards
      BY <2>1, <2>2, PicksNat
    <3>2. QED
      BY <3>1
  <2>4. Cardinality(used \cup {x}) = Cardinality(used) + 1
    BY <2>3, CardsCounted
  <2>5. PICK y \in Cards : y \notin used \cup {x}
    <3>1. used \cup {x} # Cards
      BY <2>1, <2>2, <2>4, PicksNat
    <3>2. QED
      BY <2>3, <3>1
  <2>6. <<x, y>> \in Offers(n, used)
    BY <1>2, <2>3, <2>5 DEF Offers
  <2>7. QED
    BY <2>6
<1>3. QED
  BY <1>1, <1>2

\* Some number of copies is left for the next card, and after every pick there is an offer.
Continues(d) ==
    /\ \E mult \in Copies : PickValid(d, 1, mult) /\ PickValid(d, 2, mult)
    /\ \A idx \in 1 .. 2, mult \in Copies : PickValid(d, idx, mult) => Picked(d, idx, mult) # {}

LEMMA OpenDraftContinues ==
    ASSUME NEW d, DraftOK(d), ~DraftDone(d)
    PROVE  Continues(d)
<1>1. d.pick_no \in Nat /\ d.pick_no < Picks
  BY PicksNat DEF DraftOK, DraftDone
<1>2. \E mult \in Copies : d.left[mult] > 0
  <2>1. d.left[1] \in Nat /\ d.left[2] \in Nat /\ d.left[3] \in Nat
    BY PicksNat DEF DraftOK
  <2>2. d.left[1] + d.left[2] + d.left[3] > 0
    BY <1>1, <2>1, PicksNat DEF DraftOK
  <2>3. d.left[1] > 0 \/ d.left[2] > 0 \/ d.left[3] > 0
    BY <2>1, <2>2
  <2>4. QED
    BY <2>3, PicksNat
<1>3. \E mult \in Copies : PickValid(d, 1, mult) /\ PickValid(d, 2, mult)
  BY <1>1, <1>2 DEF PickValid
<1>4. ASSUME NEW idx \in 1 .. 2, NEW mult \in Copies, PickValid(d, idx, mult)
      PROVE  Picked(d, idx, mult) # {}
  <2> DEFINE card == d.offer[idx]
             deck == [d.deck EXCEPT ![card] = mult]
  <2>1. /\ d.deck \in [Cards -> 0 .. 3] /\ Taken(d.deck) \in SUBSET Cards
        /\ Cardinality(Taken(d.deck)) = d.pick_no
    BY DEF DraftOK, Decks, Taken
  <2>2. idx \in {1, 2} /\ card \in Cards /\ card \notin Taken(d.deck)
    BY <1>1, <1>4, PicksNat DEF DraftOK, OfferOK
  <2>3. \A c \in Cards : c # card => deck[c] = d.deck[c]
    BY <2>1
  <2> HIDE DEF card, deck
  <2>4. Taken(deck) \in SUBSET (Taken(d.deck) \cup {card})
    BY <2>3 DEF Taken
  <2>5. Cardinality(Taken(d.deck) \cup {card}) = d.pick_no + 1
    BY <2>1, <2>2, CardsCounted
  <2>6. Cardinality(Taken(deck)) <= d.pick_no + 1
    BY <2>1, <2>2, <2>4, <2>5, CardsCounted, FS_Subset, Taken(d.deck) \cup {card} \in SUBSET Cards
  <2>7. Taken(deck) \in SUBSET Cards /\ d.pick_no + 1 \in Nat
    BY <1>1 DEF Taken
  <2>8. Offers(d.pick_no + 1, Taken(deck)) # {}
    BY <2>6, <2>7, OffersExist
  <2>9. QED
    BY <2>8 DEF Picked, deck, card
<1>5. QED
  BY <1>3, <1>4 DEF Continues

\* A draft can always be begun.
LEMMA DraftsBegin == NewDrafts # {}
<1>1. Offers(0, {}) # {}
  BY OffersExist, FS_EmptySet
<1>2. QED
  BY <1>1 DEF NewDrafts

\* Every draft on the server can be finished, whatever was offered and picked before: make_offer
\* always finds two cards that were not taken, so that its loop (and with it the server's only
\* thread) never hangs, and a drafter who is shown an offer always has a pick that is accepted.
THEOREM DraftsGoOn == Spec => [](\A c \in Conns : conn[c].state = "DRAFTING" => Continues(conn[c].draft))
<1>1. PlayTypeOK => \A c \in Conns : conn[c].state = "DRAFTING" => Continues(conn[c].draft)
  BY OpenDraftContinues DEF PlayTypeOK
<1>2. QED
  BY <1>1, ConnsStayInOrder, PTL

=============================================================================
