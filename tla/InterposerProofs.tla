--------------------------- MODULE InterposerProofs ---------------------------
(***************************************************************************)
(* Proofs about Interposer and the AnswerTable it is made with, for any    *)
(* number of threads, features, slots, exports and reloads of the plugin.  *)
(* The table: slots are claimed in their order and never change their      *)
(* owner, so a thread that has come to a slot knows that those before it   *)
(* belong to others.  A feature therefore never gets a second slot, and    *)
(* its slot holds the answer reported last.  The interposer's hooks        *)
(* implement the table; their wrapper is handed out only after what it     *)
(* calls was kept, also to a thread that got it from somewhere else.       *)
(***************************************************************************)
EXTENDS Interposer, TLAPS

USE AnswerTableAssumption

\* A thread that is not idle has a query.
Asking == \A t \in Threads : pc[t] # "idle" => asked[t] \in Query

\* The slots that are claimed come first, each of them for another feature.
Claimed ==
    \A q \in Questions : \A i, j \in Slots :
        /\ i < j /\ feature[q][i] = kEmptySlot => feature[q][j] = kEmptySlot
        /\ feature[q][i] = feature[q][j] /\ feature[q][i] # kEmptySlot => i = j

\* The slot is claimed, but not for the feature t asks about.
Taken(t, i) == feature[asked[t].question][i] \notin {kEmptySlot, asked[t].feature}

\* What a thread knows of the slots it has passed, and of its own.
Passed ==
    \A t \in Threads :
        /\ pc[t] \in {"load", "claim"} => \A i \in Slots : i < slot[t] => Taken(t, i)
        /\ pc[t] = "exchange" => Owner(t) = asked[t].feature
        /\ pc[t] = "quiet" => \A i \in Slots : Taken(t, i)

\* A slot holds what was reported last of its feature; of the others nothing was.
Reported ==
    \A q \in Questions :
        /\ \A i \in Slots : feature[q][i] # kEmptySlot => result[q][i] = told[q][feature[q][i]]
        /\ \A i \in Slots : feature[q][i] = kEmptySlot => result[q][i] = NoAnswer
        /\ \A f \in Features : (\A i \in Slots : feature[q][i] # f) => told[q][f] = NoAnswer

TableInv == TypeOK /\ Asking /\ Claimed /\ Passed /\ Reported

-----------------------------------------------------------------------------

\* A visit moves only the thread, to a place that fits what it was told of the slot.
LEMMA Visiting ==
    ASSUME TypeOK, NEW t \in Threads, NEW owner, Visit(t, owner)
    PROVE  /\ \A u \in Threads : u # t => pc'[u] = pc[u] /\ slot'[u] = slot[u]
           /\ slot' \in [Threads -> Slots]
           /\ pc' \in [Threads -> {"idle", "load", "claim", "exchange", "report", "unchanged",
                                   "quiet"}]
           /\ \/ owner = asked[t].feature /\ pc'[t] = "exchange" /\ slot'[t] = slot[t]
              \/ owner # asked[t].feature /\ pc'[t] = "load" /\ slot'[t] = slot[t] + 1
              \/ /\ owner # asked[t].feature /\ pc'[t] = "quiet" /\ slot'[t] = slot[t]
                 /\ slot[t] = kTrackedFeatures
<1> USE DEF TypeOK, Goto, Slots, Last
<1>1. CASE owner = asked[t].feature
  BY <1>1 DEF Visit
<1>2. CASE owner # asked[t].feature /\ ~Last(slot[t])
  <2>1. slot[t] \in 1..kTrackedFeatures /\ slot[t] + 1 \in 1..kTrackedFeatures
    BY <1>2
  <2> QED
    BY <1>2, <2>1 DEF Visit
<1>3. CASE owner # asked[t].feature /\ Last(slot[t])
  BY <1>3 DEF Visit
<1> QED
  BY <1>1, <1>2, <1>3

\* Asking, storing and returning leave the owners of the slots alone.
LEMMA AskKeeps ==
    ASSUME TableInv, NEW t \in Threads, NEW query \in Query, Ask(t, query)
    PROVE  TableInv'
<1> USE DEF TableInv
<1>1. TypeOK' /\ Asking'
  BY DEF Ask, Goto, TypeOK, Asking, Slots
<1>2. Claimed' /\ Reported'
  BY DEF Ask, Claimed, Reported
<1>3. Passed'
  <2>1. \A i \in Slots : ~(i < slot'[t])
    BY DEF Ask, TypeOK, Slots
  <2>2. pc'[t] = "load"
    BY DEF Ask, Goto, TypeOK
  <2> QED
    BY <2>1, <2>2 DEF Ask, Goto, TypeOK, Passed, Taken, Owner
<1> QED
  BY <1>1, <1>2, <1>3

LEMMA AnsweredKeeps ==
    ASSUME TableInv, NEW t \in Threads, Answered(t)
    PROVE  TableInv'
<1> USE DEF TableInv, Answered, Goto
<1>1. TypeOK' /\ Asking'
  BY DEF TypeOK, Asking, Slots
<1>2. Claimed' /\ Reported'
  BY DEF Claimed, Reported
<1>3. Passed'
  BY DEF TypeOK, Passed, Taken, Owner
<1> QED
  BY <1>1, <1>2, <1>3

\* Reading a slot.
LEMMA LoadKeeps ==
    ASSUME TableInv, NEW t \in Threads, Load(t)
    PROVE  TableInv'
<1> USE DEF TableInv
<1>1. asked[t] \in Query /\ Owner(t) \in Features \cup {kEmptySlot} /\ slot[t] \in Slots
  BY DEF Load, Asking, TypeOK, Owner, Query
<1>2. \A i \in Slots : i < slot[t] => Taken(t, i)
  BY DEF Load, Passed
<1>3. Claimed' /\ Reported'
  BY DEF Load, Claimed, Reported
<1>4. CASE Owner(t) = kEmptySlot
  <2>1. pc' = [pc EXCEPT ![t] = "claim"] /\ UNCHANGED <<feature, result, told, asked, slot>>
    BY <1>1, <1>4 DEF Load, Goto
  <2>2. TypeOK' /\ Asking'
    BY <1>1, <2>1 DEF TypeOK, Asking
  <2>3. Passed'
    BY <1>2, <2>1 DEF TypeOK, Passed, Taken, Owner
  <2> QED
    BY <1>3, <2>2, <2>3
<1>5. CASE Owner(t) # kEmptySlot
  <2>1. Visit(t, Owner(t)) /\ UNCHANGED <<feature, result, told, asked>>
    BY <1>5 DEF Load
  <2>2. TypeOK' /\ Asking'
    BY <1>1, <2>1, Visiting DEF TypeOK, Asking
  <2>3. Passed'
    <3> SUFFICES ASSUME NEW u \in Threads
                 PROVE  /\ pc'[u] \in {"load", "claim"} =>
                             \A i \in Slots : i < slot'[u] => Taken(u, i)'
                        /\ pc'[u] = "exchange" => Owner(u)' = asked'[u].feature
                        /\ pc'[u] = "quiet" => \A i \in Slots : Taken(u, i)'
      BY DEF Passed
    <3>1. CASE u # t
      BY <2>1, <3>1, Visiting DEF Passed, Taken, Owner
    <3>2. CASE u = t /\ Owner(t) = asked[t].feature
      BY <2>1, <3>2, Visiting DEF Owner
    <3>3. CASE u = t /\ Owner(t) # asked[t].feature
      <4>1. Taken(t, slot[t])
        BY <1>5, <3>3 DEF Owner, Taken
      <4>2. \A i \in Slots : i < slot[t] + 1 => Taken(t, i)
        BY <1>1, <1>2, <4>1 DEF Slots
      <4>3. slot[t] = kTrackedFeatures => \A i \in Slots : Taken(t, i)
        BY <4>2 DEF Slots
      <4>4. \A i \in Slots : Taken(t, i)' <=> Taken(t, i)
        BY <2>1 DEF Taken
      <4> QED
        BY <2>1, <3>3, <4>2, <4>3, <4>4, Visiting
    <3> QED
      BY <3>1, <3>2, <3>3
  <2> QED
    BY <1>3, <2>2, <2>3
<1> QED
  BY <1>4, <1>5

\* Winning a slot: it is the first empty one, and no other belongs to the feature.
LEMMA ClaimWon ==
    ASSUME TableInv, NEW t \in Threads, Claim(t), Owner(t) = kEmptySlot
    PROVE  TableInv'
<1> USE DEF TableInv
<1> DEFINE q == asked[t].question
           f == asked[t].feature
           s == slot[t]
<1>1. q \in Questions /\ f \in Features /\ s \in Slots /\ f # kEmptySlot
  BY DEF Claim, Asking, TypeOK, Query
<1>2. feature[q][s] = kEmptySlot
  BY DEF Owner
<1>3. \A i \in Slots : i < s => feature[q][i] \notin {kEmptySlot, f}
  BY DEF Claim, Passed, Taken
<1>4. \A i \in Slots : s < i => feature[q][i] = kEmptySlot
  BY <1>1, <1>2 DEF Claimed
<1>5. \A i \in Slots : feature[q][i] # f
  BY <1>1, <1>2, <1>3, <1>4 DEF Slots
<1>6. /\ feature' = [feature EXCEPT ![q][s] = f]
      /\ Visit(t, f) /\ UNCHANGED <<result, told, asked>>
  BY DEF Claim, Exchanged
<1>7. /\ \A p \in Questions, i \in Slots : feature'[p][i] = IF p = q /\ i = s THEN f
                                                            ELSE feature[p][i]
      /\ feature' \in [Questions -> [Slots -> Features \cup {kEmptySlot}]]
  BY <1>1, <1>6 DEF TypeOK
<1>8. pc'[t] = "exchange" /\ slot'[t] = s
  BY <1>6, Visiting
<1> HIDE DEF q, f, s
<1>9. TypeOK' /\ Asking'
  <2>1. TypeOK'
    BY <1>6, <1>7, Visiting DEF TypeOK
  <2>2. Asking'
    BY <1>1, <1>6, Visiting DEF Asking, Claim
  <2> QED
    BY <2>1, <2>2
<1>10. Claimed'
  <2> SUFFICES ASSUME NEW p \in Questions, NEW i \in Slots, NEW j \in Slots
               PROVE  /\ i < j /\ feature'[p][i] = kEmptySlot => feature'[p][j] = kEmptySlot
                      /\ feature'[p][i] = feature'[p][j] /\ feature'[p][i] # kEmptySlot => i = j
    BY DEF Claimed
  <2>1. CASE p # q
    BY <1>7, <2>1 DEF Claimed
  <2>2. CASE p = q
    BY <1>1, <1>3, <1>4, <1>5, <1>7, <2>2 DEF Claimed, Slots
  <2> QED
    BY <2>1, <2>2
<1>11. Passed'
  <2> SUFFICES ASSUME NEW u \in Threads
               PROVE  /\ pc'[u] \in {"load", "claim"} =>
                           \A i \in Slots : i < slot'[u] => Taken(u, i)'
                      /\ pc'[u] = "exchange" => Owner(u)' = asked'[u].feature
                      /\ pc'[u] = "quiet" => \A i \in Slots : Taken(u, i)'
    BY DEF Passed
  <2>1. CASE u = t
    BY <1>1, <1>6, <1>7, <1>8, <2>1 DEF Owner, q, f, s
  <2>2. CASE u # t
    <3>1. pc'[u] = pc[u] /\ slot'[u] = slot[u] /\ asked'[u] = asked[u]
      BY <1>6, <2>2, Visiting
    <3>2. pc[u] # "idle" => asked[u].question \in Questions /\ asked[u].feature \in Features
      BY DEF Asking, Query
    <3>3. \A i \in Slots : pc[u] # "idle" /\ Taken(u, i) => Taken(u, i)'
      BY <1>2, <1>7, <3>1, <3>2 DEF Taken
    <3>4. pc[u] = "exchange" => Owner(u)' = Owner(u)
      <4>1. slot[u] \in Slots
        BY DEF TypeOK
      <4>2. pc[u] = "exchange" => Owner(u) = asked[u].feature
        BY DEF Passed
      <4> QED
        BY <1>2, <1>7, <3>1, <3>2, <4>1, <4>2 DEF Owner
    <3> QED
      BY <3>1, <3>3, <3>4 DEF Passed
  <2> QED
    BY <2>1, <2>2
<1>12. Reported'
  <2> SUFFICES ASSUME NEW p \in Questions
               PROVE  /\ \A i \in Slots : feature'[p][i] # kEmptySlot =>
                             result'[p][i] = told'[p][feature'[p][i]]
                      /\ \A i \in Slots : feature'[p][i] = kEmptySlot => result'[p][i] = NoAnswer
                      /\ \A g \in Features :
                            (\A i \in Slots : feature'[p][i] # g) => told'[p][g] = NoAnswer
    BY DEF Reported
  <2>1. CASE p # q
    BY <1>6, <1>7, <2>1 DEF Reported
  <2>2. CASE p = q
    <3>1. told[q][f] = NoAnswer /\ result[q][s] = NoAnswer
      BY <1>1, <1>2, <1>5 DEF Reported
    <3> QED
      BY <1>1, <1>2, <1>6, <1>7, <2>2, <3>1 DEF Reported
  <2> QED
    BY <2>1, <2>2
<1> QED
  BY <1>9, <1>10, <1>11, <1>12

\* Losing it: the thread goes on with the feature that has won.
LEMMA ClaimLost ==
    ASSUME TableInv, NEW t \in Threads, Claim(t), Owner(t) # kEmptySlot
    PROVE  TableInv'
<1> USE DEF TableInv
<1>1. asked[t] \in Query /\ slot[t] \in Slots
  BY DEF Claim, Asking, TypeOK
<1>2. \A i \in Slots : i < slot[t] => Taken(t, i)
  BY DEF Claim, Passed
<1>3. Visit(t, Owner(t)) /\ UNCHANGED <<feature, result, told, asked>>
  BY DEF Claim, Exchanged
<1>4. Claimed' /\ Reported'
  BY <1>3 DEF Claimed, Reported
<1>5. TypeOK' /\ Asking'
  BY <1>1, <1>3, Visiting DEF TypeOK, Asking
<1>6. Passed'
  <2> SUFFICES ASSUME NEW u \in Threads
               PROVE  /\ pc'[u] \in {"load", "claim"} =>
                           \A i \in Slots : i < slot'[u] => Taken(u, i)'
                      /\ pc'[u] = "exchange" => Owner(u)' = asked'[u].feature
                      /\ pc'[u] = "quiet" => \A i \in Slots : Taken(u, i)'
    BY DEF Passed
  <2>1. CASE u # t
    BY <1>3, <2>1, Visiting DEF Passed, Taken, Owner
  <2>2. CASE u = t /\ Owner(t) = asked[t].feature
    BY <1>3, <2>2, Visiting DEF Owner
  <2>3. CASE u = t /\ Owner(t) # asked[t].feature
    <3>1. Taken(t, slot[t])
      BY <2>3 DEF Owner, Taken
    <3>2. \A i \in Slots : i < slot[t] + 1 => Taken(t, i)
      BY <1>1, <1>2, <3>1 DEF Slots
    <3>3. slot[t] = kTrackedFeatures => \A i \in Slots : Taken(t, i)
      BY <3>2 DEF Slots
    <3>4. \A i \in Slots : Taken(t, i)' <=> Taken(t, i)
      BY <1>3 DEF Taken
    <3> QED
      BY <1>3, <2>3, <3>2, <3>3, <3>4, Visiting
  <2> QED
    BY <2>1, <2>2, <2>3
<1> QED
  BY <1>4, <1>5, <1>6

\* Storing an answer, in the only slot of its feature.
LEMMA ExchangeKeeps ==
    ASSUME TableInv, NEW t \in Threads, Exchange(t)
    PROVE  TableInv'
<1> USE DEF TableInv
<1> DEFINE q == asked[t].question
           f == asked[t].feature
           s == slot[t]
           a == asked[t].answer
<1>1. q \in Questions /\ f \in Features /\ a \in Answers /\ s \in Slots /\ f # kEmptySlot
  BY DEF Exchange, Goto, Asking, TypeOK, Query
<1>2. feature[q][s] = f
  BY DEF Exchange, Goto, Passed, Owner
<1>3. result[q][s] = told[q][f]
  BY <1>1, <1>2 DEF Reported
<1>4. /\ result' = [result EXCEPT ![q][s] = a] /\ UNCHANGED <<feature, asked, slot>>
      /\ told' = [told EXCEPT ![q][f] = a]
  <2>1. CASE result[q][s] # a
    BY <2>1 DEF Exchange
  <2>2. CASE result[q][s] = a
    <3>1. told' = told
      BY <2>2 DEF Exchange
    <3>2. told = [told EXCEPT ![q][f] = a]
      BY <1>1, <1>3, <2>2 DEF TypeOK
    <3> QED
      BY <3>1, <3>2 DEF Exchange
  <2> QED
    BY <2>1, <2>2
<1>5. /\ pc'[t] \in {"report", "unchanged"}
      /\ pc' = [pc EXCEPT ![t] = pc'[t]]
  BY DEF Exchange, Goto, TypeOK
<1> HIDE DEF q, f, s, a
<1>6. TypeOK' /\ Asking'
  <2>1. /\ result' \in [Questions -> [Slots -> Answers \cup {NoAnswer}]]
        /\ told' \in [Questions -> [Features -> Answers \cup {NoAnswer}]]
    BY <1>1, <1>4 DEF TypeOK
  <2>2. TypeOK'
    BY <1>4, <1>5, <2>1 DEF TypeOK
  <2>3. Asking'
    BY <1>4, <1>5 DEF TypeOK, Asking, Exchange, Goto
  <2> QED
    BY <2>2, <2>3
<1>7. Claimed'
  BY <1>4 DEF Claimed
<1>8. Passed'
  BY <1>4, <1>5 DEF TypeOK, Passed, Taken, Owner
<1>9. Reported'
  <2> SUFFICES ASSUME NEW p \in Questions
               PROVE  /\ \A i \in Slots : feature[p][i] # kEmptySlot =>
                             result'[p][i] = told'[p][feature[p][i]]
                      /\ \A i \in Slots : feature[p][i] = kEmptySlot => result'[p][i] = NoAnswer
                      /\ \A g \in Features :
                            (\A i \in Slots : feature[p][i] # g) => told'[p][g] = NoAnswer
    BY <1>4 DEF Reported
  <2>1. CASE p # q
    BY <1>4, <2>1 DEF TypeOK, Reported
  <2>2. CASE p = q
    <3>1. \A i \in Slots : result'[q][i] = IF i = s THEN a ELSE result[q][i]
      BY <1>1, <1>4 DEF TypeOK
    <3>2. \A g \in Features : told'[q][g] = IF g = f THEN a ELSE told[q][g]
      BY <1>1, <1>4 DEF TypeOK
    <3>3. \A i \in Slots : feature[q][i] = f => i = s
      BY <1>1, <1>2 DEF Claimed
    <3>4. \A i \in Slots : feature[q][i] \in Features \cup {kEmptySlot}
      BY <1>1 DEF TypeOK
    <3> QED
      BY <1>1, <1>2, <2>2, <3>1, <3>2, <3>3, <3>4 DEF Reported
  <2> QED
    BY <2>1, <2>2
<1> QED
  BY <1>6, <1>7, <1>8, <1>9

\* The invariant, for every step.
LEMMA TableInvariant == Spec => []TableInv
<1>1. Init => TableInv
  BY DEF Init, TableInv, TypeOK, Asking, Claimed, Passed, Reported, Slots
<1>2. TableInv /\ [Next]_vars => TableInv'
  <2> SUFFICES ASSUME TableInv, [Next]_vars PROVE TableInv'
    OBVIOUS
  <2>1. ASSUME NEW t \in Threads, NEW query \in Query, Ask(t, query) PROVE TableInv'
    BY <2>1, AskKeeps
  <2>2. ASSUME NEW t \in Threads, Load(t) PROVE TableInv'
    BY <2>2, LoadKeeps
  <2>3. ASSUME NEW t \in Threads, Claim(t) PROVE TableInv'
    BY <2>3, ClaimWon, ClaimLost
  <2>4. ASSUME NEW t \in Threads, Exchange(t) PROVE TableInv'
    BY <2>4, ExchangeKeeps
  <2>5. ASSUME NEW t \in Threads, Answered(t) PROVE TableInv'
    BY <2>5, AnsweredKeeps
  <2>6. CASE UNCHANGED vars
    BY <2>6 DEF vars, TableInv, TypeOK, Asking, Claimed, Passed, Taken, Owner, Reported
  <2> QED
    BY <2>1, <2>2, <2>3, <2>4, <2>5, <2>6 DEF Next
<1> QED
  BY <1>1, <1>2, PTL DEF Spec

-----------------------------------------------------------------------------

\* The table keeps its types, and no thread leaves it (streamline.cpp:286-296).
THEOREM TableTypes == Spec => []TypeOK
<1>1. TableInv => TypeOK
  BY DEF TableInv
<1> QED
  BY <1>1, TableInvariant, PTL

\* A table is quiet only about features beyond the ones it has slots for
\* (streamline.cpp:295).
THEOREM QuietOnlyBeyondSlots == Spec => []QuietOnlyWhenFull
<1>1. TableInv => QuietOnlyWhenFull
  <2> SUFFICES ASSUME TableInv, NEW t \in Threads, pc[t] = "quiet"
               PROVE  LET owner == feature[asked[t].question]
                      IN /\ \A i \in Slots : owner[i] \notin {kEmptySlot, asked[t].feature}
                         /\ \A i, j \in Slots : owner[i] = owner[j] => i = j
    BY DEF QuietOnlyWhenFull
  <2>1. \A i \in Slots : Taken(t, i)
    BY DEF TableInv, Passed
  <2>2. asked[t].question \in Questions
    BY DEF TableInv, Asking, Query
  <2> QED
    BY <2>1, <2>2 DEF Taken, TableInv, Claimed
<1> QED
  BY <1>1, TableInvariant, PTL

\* What a thread stores is reported exactly if it is not what was reported last, however
\* many threads race for a slot (streamline.cpp:271-272).
THEOREM ReportsOnlyChanges == Spec => ReportsChanges
<1>1. TableInv /\ [Next]_vars =>
        [\A t \in Threads : pc[t] = "exchange" /\ pc'[t] # "exchange" =>
            (pc'[t] = "report" <=>
                told[asked[t].question][asked[t].feature] # asked[t].answer)]_vars
  <2> SUFFICES ASSUME TableInv, Next, NEW t \in Threads,
                      pc[t] = "exchange", pc'[t] # "exchange"
               PROVE  pc'[t] = "report" <=>
                        told[asked[t].question][asked[t].feature] # asked[t].answer
    OBVIOUS
  <2> USE DEF TableInv
  <2>1. asked[t].question \in Questions /\ asked[t].feature \in Features /\ slot[t] \in Slots
    BY DEF Asking, Query, TypeOK
  <2>2. Owner(t) = asked[t].feature
    BY DEF Passed
  <2>3. result[asked[t].question][slot[t]] = told[asked[t].question][asked[t].feature]
    BY <2>1, <2>2 DEF Reported, Owner
  <2>4. Exchange(t)
    <3>1. PICK u \in Threads : \/ \E query \in Query : Ask(u, query)
                               \/ Load(u) \/ Claim(u) \/ Exchange(u) \/ Answered(u)
      BY DEF Next
    <3>2. pc'[t] # pc[t] => u = t
      BY <3>1, Visiting DEF Ask, Load, Claim, Exchange, Answered, Goto, TypeOK
    <3>3. u = t
      BY <3>2
    <3> QED
      BY <3>1, <3>3 DEF Ask, Load, Claim, Answered, Goto
  <2> QED
    BY <2>3, <2>4 DEF Exchange, Goto, TypeOK
<1> QED
  BY <1>1, TableInvariant, PTL DEF Spec, ReportsChanges
-----------------------------------------------------------------------------

\* The hooks of the interposer implement the table, whichever of them are live.
THEOREM InterposerImplementsTable == InterposerSpec => Spec
<1>1. InterposerInit => Init
  BY DEF InterposerInit
<1>2. [InterposerNext]_allVars => [Next]_vars
  <2> SUFFICES ASSUME [InterposerNext]_allVars  PROVE [Next]_vars
    OBVIOUS
  <2>1. ASSUME NEW t \in Threads, NEW query \in Query, AskHooked(t, query)  PROVE Next
    BY <2>1 DEF AskHooked, Next
  <2>2. ASSUME NEW t \in Threads, AnswerQuestion(t)  PROVE Next
    BY <2>2 DEF AnswerQuestion, Next
  <2>3. ASSUME NEW t \in Threads, GetFeatureFunction(t) \/ KeepFunction(t) \/ ReturnWrapper(t)
        PROVE UNCHANGED vars
    BY <2>3 DEF GetFeatureFunction, KeepFunction, ReturnWrapper
  <2>4. ASSUME InstallExport \/ SetFeatureLoaded \/ UNCHANGED allVars  PROVE UNCHANGED vars
    BY <2>4 DEF InstallExport, SetFeatureLoaded, allVars
  <2> QED
    BY <2>1, <2>2, <2>3, <2>4 DEF InterposerNext
<1> QED
  BY <1>1, <1>2, PTL DEF InterposerSpec, Spec

\* What is reported is what changed, whichever hooks are live.
THEOREM InterposerReportsChanges == InterposerSpec => ReportsChanges
  BY InterposerImplementsTable, ReportsOnlyChanges, PTL

\* A thread the wrapper is about to be returned to, as one that holds it, finds the function
\* of the loaded plugin kept; what a thread was answered with cannot be outdated.
Reaching ==
    /\ loaded \in Functions
    /\ resolved \in [Threads -> Functions \cup {HookSetOptions, Nothing}]
    /\ \A t \in Threads : resolved[t] \in Functions => resolved[t] = loaded
    /\ held = HookSetOptions \/ (\E t \in Threads : resolved[t] = HookSetOptions)
          => set_options = loaded

\* The wrapper reaches the plugin, however often it is loaded again and whoever resolves it.
THEOREM WrapperReachesPluginAlways == InterposerSpec => []WrapperReachesPlugin
<1> USE InterposerAssumption
<1>1. InterposerInit => Reaching
  BY DEF InterposerInit, Reaching
<1>2. Reaching /\ [InterposerNext]_allVars => Reaching'
  <2> SUFFICES ASSUME Reaching, [InterposerNext]_allVars  PROVE Reaching'
    OBVIOUS
  <2> USE DEF Reaching, hookVars
  <2>1. ASSUME NEW t \in Threads, GetFeatureFunction(t)  PROVE Reaching'
    BY <2>1 DEF GetFeatureFunction, Answer, Idle
  <2>2. ASSUME NEW t \in Threads, KeepFunction(t)  PROVE Reaching'
    BY <2>2 DEF KeepFunction, Kept
  <2>3. ASSUME NEW t \in Threads, ReturnWrapper(t)  PROVE Reaching'
    BY <2>3 DEF ReturnWrapper
  <2>4. CASE SetFeatureLoaded
    BY <2>4 DEF SetFeatureLoaded
  <2>5. CASE InstallExport \/ UNCHANGED allVars
    BY <2>5 DEF InstallExport, allVars
  <2>6. ASSUME NEW t \in Threads, AnswerQuestion(t) \/ \E query \in Query : AskHooked(t, query)
        PROVE Reaching'
    BY <2>6 DEF AnswerQuestion, AskHooked
  <2> QED
    BY <2>1, <2>2, <2>3, <2>4, <2>5, <2>6 DEF InterposerNext
<1>3. Reaching => WrapperReachesPlugin
  BY DEF Reaching, WrapperReachesPlugin
<1> QED
  BY <1>1, <1>2, <1>3, PTL DEF InterposerSpec
===============================================================================
