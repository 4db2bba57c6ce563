------------------------------ MODULE AnswerTable ------------------------------
(***************************************************************************)
(* What the log says of Streamline's answers                               *)
(* (src/src/streamline/streamline.cpp, AnswerChanged and the hooks of      *)
(* slIsFeatureSupported and slIsFeatureLoaded).  A game asks on every      *)
(* frame and from any thread; an answer is logged when it is not the one   *)
(* given before.  Each question has a table without a lock, whose slots    *)
(* are claimed by the features as they come.                               *)
(***************************************************************************)
EXTENDS Naturals

CONSTANTS Threads,           \* threads of the game
          Questions,         \* the hooked questions
          Features,          \* Streamline's features
          Answers,           \* result and state as one word
          kTrackedFeatures,  \* slots of a table
          kEmptySlot,        \* the owner of a slot nobody has claimed
          NoAnswer           \* the result of a slot nothing was stored in

ASSUME AnswerTableAssumption ==
    /\ kTrackedFeatures \in Nat \ {0}
    /\ kEmptySlot \notin Features
    /\ NoAnswer \notin Answers

VARIABLES feature,  \* the owner of each slot
          result,   \* the answer in each slot
          told,     \* the answer reported last, of each question and feature
          asked,    \* the question, feature and answer each thread is at
          slot,     \* the slot it has come to
          pc        \* where it is in AnswerChanged

vars == <<feature, result, told, asked, slot, pc>>

Slots == 1..kTrackedFeatures
Query == [question : Questions, feature : Features, answer : Answers]
NoQuery == [question |-> "none"]

Init ==
    /\ feature = [q \in Questions |-> [i \in Slots |-> kEmptySlot]]
    /\ result = [q \in Questions |-> [i \in Slots |-> NoAnswer]]
    /\ told = [q \in Questions |-> [f \in Features |-> NoAnswer]]
    /\ asked = [t \in Threads |-> NoQuery]
    /\ slot = [t \in Threads |-> 1]
    /\ pc = [t \in Threads |-> "idle"]

-----------------------------------------------------------------------------
Goto(t, from, to) == pc[t] = from /\ pc' = [pc EXCEPT ![t] = to]

\* The game asks, Streamline answers, and the answer is looked up in the table.
Ask(t, query) ==
    /\ Goto(t, "idle", "load")
    /\ asked' = [asked EXCEPT ![t] = query]
    /\ slot' = [slot EXCEPT ![t] = 1]
    /\ UNCHANGED <<feature, result, told>>

Last(i) == i = kTrackedFeatures

\* The rest of an iteration, once it knows who owns the slot.
Visit(t, owner) ==
    \/ /\ owner = asked[t].feature
       /\ Goto(t, pc[t], "exchange")
       /\ UNCHANGED slot
    \/ /\ owner # asked[t].feature /\ ~Last(slot[t])
       /\ Goto(t, pc[t], "load")
       /\ slot' = [slot EXCEPT ![t] = @ + 1]
    \/ /\ owner # asked[t].feature /\ Last(slot[t])
       /\ Goto(t, pc[t], "quiet")
       /\ UNCHANGED slot

Owner(t) == feature[asked[t].question][slot[t]]

Load(t) ==
    /\ pc[t] = "load"
    /\ \/ Owner(t) = kEmptySlot /\ Goto(t, "load", "claim") /\ UNCHANGED slot
       \/ Owner(t) # kEmptySlot /\ Visit(t, Owner(t))
    /\ UNCHANGED <<feature, result, told, asked>>

\* A mutant of Exchanged: who loses the slot does not look who has won it.
Beaten(found, desired) == IF found = kEmptySlot THEN desired ELSE kEmptySlot

\* The owner a thread goes on with after its compare-and-swap found `found`.
Exchanged(found, desired) == IF found = kEmptySlot THEN desired ELSE found

Claim(t) ==
    /\ pc[t] = "claim"
    /\ feature' = IF Owner(t) = kEmptySlot
                  THEN [feature EXCEPT ![asked[t].question][slot[t]] = asked[t].feature]
                  ELSE feature
    /\ Visit(t, Exchanged(Owner(t), asked[t].feature))
    /\ UNCHANGED <<result, told, asked>>

\* The answer is stored, and reported if another one was in its place.
Exchange(t) ==
    LET q == asked[t].question
        changed == result[q][slot[t]] # asked[t].answer
    IN /\ Goto(t, "exchange", IF changed THEN "report" ELSE "unchanged")
       /\ result' = [result EXCEPT ![q][slot[t]] = asked[t].answer]
       /\ told' = IF changed THEN [told EXCEPT ![q][asked[t].feature] = asked[t].answer] ELSE told
       /\ UNCHANGED <<feature, asked, slot>>

\* The hook has logged the answer, or nothing, and returns.
Answered(t) ==
    /\ pc[t] \in {"report", "unchanged", "quiet"}
    /\ Goto(t, pc[t], "idle")
    /\ asked' = [asked EXCEPT ![t] = NoQuery]
    /\ slot' = [slot EXCEPT ![t] = 1]
    /\ UNCHANGED <<feature, result, told>>

Next ==
    \E t \in Threads :
        \/ \E query \in Query : Ask(t, query)
        \/ Load(t) \/ Claim(t) \/ Exchange(t) \/ Answered(t)

Spec == Init /\ [][Next]_vars
-----------------------------------------------------------------------------
\* Types of the variables; the slot a thread is at is one of the table.
TypeOK ==
    /\ feature \in [Questions -> [Slots -> Features \cup {kEmptySlot}]]
    /\ result \in [Questions -> [Slots -> Answers \cup {NoAnswer}]]
    /\ told \in [Questions -> [Features -> Answers \cup {NoAnswer}]]
    /\ asked \in [Threads -> Query \cup {NoQuery}]
    /\ slot \in [Threads -> Slots]
    /\ pc \in [Threads -> {"idle", "load", "claim", "exchange", "report", "unchanged", "quiet"}]

\* An answer goes unreported for want of a slot only when every slot belongs to a
\* feature of its own, and none to this one (streamline.cpp:295).
QuietOnlyWhenFull ==
    \A t \in Threads : pc[t] = "quiet" =>
        LET owner == feature[asked[t].question]
        IN /\ \A i \in Slots : owner[i] \notin {kEmptySlot, asked[t].feature}
           /\ \A i, j \in Slots : owner[i] = owner[j] => i = j

\* However the threads interleave, an answer that is stored is reported exactly if it is
\* not the one reported last for this question and feature (streamline.cpp:271-272).
ReportsChanges ==
    [][\A t \in Threads : pc[t] = "exchange" /\ pc'[t] # "exchange" =>
          (pc'[t] = "report" <=>
              told[asked[t].question][asked[t].feature] # asked[t].answer)]_vars
=============================================================================
