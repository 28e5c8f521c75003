----------------------------- MODULE JobService -----------------------------
(***************************************************************************)
(* What the match server expects of its IDUNA worker, whatever queues and  *)
(* threads lie between: a service that is asked questions, gives each of   *)
(* them up or answers it once, with an answer to that very question, in    *)
(* the order in which they were asked.                                     *)
(***************************************************************************)
EXTENDS Naturals, Sequences

CONSTANTS
    Jobs,           \* the questions
    AnswersTo(_)    \* the answers that fit a question

VARIABLES
    asked,          \* the questions still open, oldest first
    answered,       \* the answers not yet collected, oldest first
    open            \* is the asker still there?

vars == <<asked, answered, open>>

Init == asked = <<>> /\ answered = <<>> /\ open = TRUE

Ask == /\ open
       /\ \E j \in Jobs : asked' = Append(asked, j)
       /\ UNCHANGED <<answered, open>>

Answer == /\ open /\ asked # <<>>
          /\ \E r \in AnswersTo(Head(asked)) : answered' = Append(answered, r)
          /\ asked' = Tail(asked)
          /\ UNCHANGED open

GiveUp == /\ asked # <<>>
          /\ asked' = Tail(asked)
          /\ UNCHANGED <<answered, open>>

Collect == /\ answered # <<>>
           /\ answered' = Tail(answered)
           /\ UNCHANGED <<asked, open>>

\* The asker goes: it wants no more answers, but what it asked is still worked off.
Close == /\ open
         /\ open' = FALSE /\ answered' = <<>>
         /\ UNCHANGED asked

Next == Ask \/ Answer \/ GiveUp \/ Collect \/ Close

Spec == Init /\ [][Next]_vars

\* No question stays open, and no answer stays uncollected.
FairSpec == Spec /\ WF_vars(Answer \/ GiveUp) /\ WF_vars(Collect)

=============================================================================
