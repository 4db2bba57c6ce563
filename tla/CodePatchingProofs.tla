--------------------------- MODULE CodePatchingProofs ---------------------------
(***************************************************************************)
(* Proofs about CodePatching, for images of any length, however many gates *)
(* a runtime may have and however far the scans look.                      *)
(***************************************************************************)
EXTENDS CodePatching, SequenceTheorems, FiniteSetTheorems, WellFoundedInduction, TLAPS

-----------------------------------------------------------------------------
(* Sets of places, and the rewrites of a set in order. *)

\* The first of some places.
LEMMA Least ==
    ASSUME NEW S \in SUBSET Nat, S # {}
    PROVE  Min(S) \in S /\ \A y \in S : Min(S) <= y
<1>1. PICK x \in S : \A y \in S : ~(<<y, x>> \in OpToRel(<, Nat))
  BY NatLessThanWellFounded, WFMin, Zenon
<1>2. \A y \in S : ~(y < x)
  BY <1>1, Zenon DEF OpToRel
<1>3. \A y \in S : x <= y
  BY <1>2
<1> QED
  BY <1>3 DEF Min

\* What is made of each element of a finite set.
LEMMA FiniteImage ==
    ASSUME NEW S, IsFiniteSet(S), NEW f, NEW T, \A t \in T : \E s \in S : t = f[s]
    PROVE  IsFiniteSet(T)
<1> DEFINE g == [s \in S |-> f[s]]
           all == {f[s] : s \in S}
<1>1. g \in Surjection(S, all)
  BY DEF Surjection
<1>2. IsFiniteSet(all)
  BY <1>1, FS_Surjection
<1> QED
  BY <1>2, FS_Subset

\* Ordered leaves none out.
LEMMA OrderedHasAll ==
    ASSUME NEW T, IsFiniteSet(T), \A r \in T : r.at \in Int,
           \A r, s \in T : r.at = s.at => r = s
    PROVE  Ordered(T) \in Seq(T) /\ ToSet(Ordered(T)) = T
<1> DEFINE n == Cardinality(T)
           Before(r) == {s \in T : s.at < r.at}
           rank == [r \in T |-> Cardinality(Before(r)) + 1]
<1>1. n \in Nat
  BY FS_CardinalityType
<1>2. ASSUME NEW r \in T
      PROVE  IsFiniteSet(Before(r)) /\ Cardinality(Before(r)) \in Nat
  <2>1. Before(r) \in SUBSET T
    OBVIOUS
  <2> QED
    BY <2>1, FS_Subset, FS_CardinalityType
<1>3. ASSUME NEW r \in T, NEW U \in SUBSET T, Before(r) \subseteq U, r \in U
      PROVE  Cardinality(Before(r)) + 1 <= Cardinality(U)
  <2>1. IsFiniteSet(Before(r)) /\ Cardinality(Before(r)) \in Nat
    BY <1>2
  <2>2. IsFiniteSet(U) /\ Cardinality(U) \in Nat
    BY FS_Subset, FS_CardinalityType
  <2>3. r \notin Before(r)
    OBVIOUS
  <2> HIDE DEF Before
  <2>4. Cardinality(Before(r) \cup {r}) = Cardinality(Before(r)) + 1
    BY <2>1, <2>3, FS_AddElement
  <2>5. Before(r) \cup {r} \in SUBSET U
    BY <1>3
  <2>6. Cardinality(Before(r) \cup {r}) <= Cardinality(U)
    BY <2>2, <2>5, FS_Subset
  <2> QED
    BY <2>4, <2>6
<1>4. ASSUME NEW r \in T PROVE rank[r] \in 1..n
  <2>1. Before(r) \subseteq T
    OBVIOUS
  <2> HIDE DEF Before
  <2>2. Cardinality(Before(r)) + 1 <= n
    BY <1>3, <2>1
  <2> QED
    BY <1>1, <1>2, <2>2
<1>5. ASSUME NEW r \in T, NEW s \in T, r.at < s.at PROVE rank[r] < rank[s]
  <2>1. Before(r) \subseteq Before(s) /\ r \in Before(s) /\ Before(s) \in SUBSET T
    BY <1>5
  <2> HIDE DEF Before
  <2>2. Cardinality(Before(r)) + 1 <= Cardinality(Before(s))
    BY <1>3, <2>1
  <2>3. Cardinality(Before(r)) \in Nat /\ Cardinality(Before(s)) \in Nat
    BY <1>2
  <2> QED
    BY <2>2, <2>3
<1>6. ASSUME NEW r \in T, NEW s \in T, rank[r] = rank[s] PROVE r = s
  <2> HIDE DEF rank
  <2>1. rank[r] \in Int /\ rank[s] \in Int
    BY <1>1, <1>4
  <2>2. ~(r.at < s.at) /\ ~(s.at < r.at)
    BY <1>5, <1>6, <2>1
  <2> QED
    BY <2>2
<1>7. rank \in Injection(T, 1..n)
  <2>1. rank \in [T -> 1..n]
    <3>1. \A r \in T : rank[r] \in 1..n
      BY <1>4
    <3>2. rank = [r \in T |-> rank[r]]
      OBVIOUS
    <3> HIDE DEF rank, n
    <3> QED
      BY <3>1, <3>2
  <2> HIDE DEF rank, n
  <2> QED
    BY <1>6, <2>1 DEF Injection, IsInjective
<1>8. rank \in Surjection(T, 1..n)
  <2>1. IsFiniteSet(1..n) /\ Cardinality(1..n) = n
    BY <1>1, FS_Interval
  <2> HIDE DEF rank
  <2> QED
    BY <1>7, <2>1, FS_Injection
<1> DEFINE At(k) == CHOOSE r \in T : Cardinality(Before(r)) = k - 1
<1>9. ASSUME NEW k \in 1..n PROVE At(k) \in T /\ rank[At(k)] = k
  <2>1. \E r \in T : rank[r] = k
    <3> HIDE DEF rank, n
    <3> QED
      BY <1>8 DEF Surjection
  <2>2. PICK r \in T : Cardinality(Before(r)) + 1 = k
    BY <2>1
  <2>3. Cardinality(Before(r)) \in Nat
    BY <1>2
  <2> HIDE DEF Before
  <2>4. Cardinality(Before(r)) = k - 1
    BY <1>1, <2>2, <2>3
  <2>5. At(k) \in T /\ Cardinality(Before(At(k))) = k - 1
    BY <2>4
  <2> HIDE DEF At
  <2> QED
    BY <1>1, <2>5
<1>10. Ordered(T) = [k \in 1..n |-> At(k)]
  BY DEF Ordered
<1> HIDE DEF At, n
<1>11. Ordered(T) \in [1..n -> T]
  BY <1>9, <1>10
<1>12. ASSUME NEW r \in T PROVE r \in ToSet(Ordered(T))
  <2>1. rank[r] \in 1..n
    BY <1>4
  <2> HIDE DEF rank
  <2>2. At(rank[r]) = r
    BY <1>6, <1>9, <2>1
  <2> QED
    BY <1>10, <2>1, <2>2 DEF ToSet
<1>13. Ordered(T) \in Seq(T)
  BY <1>1, <1>11
<1>14. ToSet(Ordered(T)) \subseteq T
  BY <1>11 DEF ToSet
<1> QED
  BY <1>12, <1>13, <1>14

LEMMA SeqWithin ==
    ASSUME NEW S, NEW T, S \subseteq T, NEW s \in Seq(S)
    PROVE  s \in Seq(T)
OBVIOUS

\* One list after another has the elements of both.
LEMMA ConcatHasAll ==
    ASSUME NEW S, NEW s \in Seq(S), NEW t \in Seq(S)
    PROVE  s \o t \in Seq(S) /\ ToSet(s \o t) = ToSet(s) \cup ToSet(t)
<1>1. /\ s \o t \in Seq(S) /\ Len(s \o t) = Len(s) + Len(t)
      /\ \A k \in 1..(Len(s) + Len(t)) :
           (s \o t)[k] = IF k <= Len(s) THEN s[k] ELSE t[k - Len(s)]
  BY ConcatProperties
<1>2. Len(s) \in Nat /\ Len(t) \in Nat /\ DOMAIN s = 1..Len(s) /\ DOMAIN t = 1..Len(t)
  OBVIOUS
<1>3. DOMAIN (s \o t) = 1..(Len(s) + Len(t))
  BY <1>1
<1>4. ASSUME NEW k \in 1..(Len(s) + Len(t)) PROVE (s \o t)[k] \in ToSet(s) \cup ToSet(t)
  <2>1. CASE k <= Len(s)
    BY <1>1, <1>2, <2>1 DEF ToSet
  <2>2. CASE ~(k <= Len(s))
    <3>1. k - Len(s) \in 1..Len(t)
      BY <1>2, <2>2
    <3> QED
      BY <1>1, <1>2, <2>2, <3>1 DEF ToSet
  <2> QED
    BY <2>1, <2>2
<1>5. ASSUME NEW k \in 1..Len(s) PROVE s[k] \in ToSet(s \o t)
  BY <1>1, <1>2, <1>3 DEF ToSet
<1>6. ASSUME NEW k \in 1..Len(t) PROVE t[k] \in ToSet(s \o t)
  <2>1. Len(s) + k \in 1..(Len(s) + Len(t)) /\ ~(Len(s) + k <= Len(s)) /\ (Len(s) + k) - Len(s) = k
    BY <1>2
  <2>2. (s \o t)[Len(s) + k] = t[k]
    BY <1>1, <2>1
  <2> QED
    BY <1>3, <2>1, <2>2 DEF ToSet
<1> QED
  BY <1>1, <1>2, <1>3, <1>4, <1>5, <1>6 DEF ToSet

-----------------------------------------------------------------------------
(* Gates. *)

\* An instruction is one of seven kinds.
LEMMA Typed ==
    ASSUME NEW built \in Images, NEW i \in DOMAIN built.code
    PROVE  /\ built.code \in Seq(Instructions) /\ DOMAIN built.code = 1..Len(built.code)
           /\ Len(built.code) \in Nat /\ DOMAIN built.code \subseteq Nat /\ i \in Nat
           /\ built.code[i] \in Instructions
<1>1. built.code \in Seq(Instructions)
  BY CodePatchingAssumption
<1> HIDE DEF Instructions
<1> QED
  BY <1>1

\* The scan after a comparison stops at the first name, or before anything that does not
\* decode, and finds what the comparison publishes.
LEMMA PublishedIs ==
    ASSUME NEW c, NEW i \in Nat
    PROVE  /\ \A name \in Parameters : Publishes(c, i, name) => PublishedParameter(c, i + 1) = name
           /\ \/ PublishedParameter(c, i + 1) = ""
              \/ \E name \in Parameters :
                   Publishes(c, i, name) /\ PublishedParameter(c, i + 1) = name
<1> DEFINE n == kInstructionsToPublication
           near == {j \in Window(c, i + 1, n) : c[j].op = "lea" /\ c[j].to \in Parameters}
<1>1. n \in Nat
  BY CodeAnalysisAssumption
<1>2. Window(c, i + 1, n) = {j \in i + 1..i + n : \A k \in i + 1..j : Decodes(c, k)}
  BY <1>1 DEF Window
<1>3. near \in SUBSET Nat
  BY <1>1, <1>2
<1>4. PublishedParameter(c, i + 1) = IF near = {} THEN "" ELSE c[Min(near)].to
  BY DEF PublishedParameter
<1>5. ASSUME NEW name \in Parameters, Publishes(c, i, name)
      PROVE  PublishedParameter(c, i + 1) = name
  <2>1. PICK last \in i + 1..i + n :
          /\ \A j \in i + 1..last : Decodes(c, j)
          /\ c[last].op = "lea" /\ c[last].to = name
          /\ \A j \in i + 1..last - 1 : c[j].op = "lea" => c[j].to \notin Parameters
    BY <1>5 DEF Publishes
  <2>2. last \in near
    BY <1>2, <2>1
  <2>3. ASSUME NEW j \in near PROVE last <= j
    <3>1. j \in i + 1..i + n /\ c[j].op = "lea" /\ c[j].to \in Parameters
      BY <1>2
    <3> HIDE DEF near
    <3>2. j \notin i + 1..last - 1
      BY <2>1, <3>1
    <3> QED
      BY <1>1, <2>1, <3>1, <3>2
  <2> HIDE DEF near
  <2>4. Min(near) \in near /\ Min(near) <= last
    BY <1>3, <2>2, Least
  <2>5. Min(near) \in Nat /\ last \in Nat
    BY <1>3, <2>2, <2>4
  <2>6. last <= Min(near)
    BY <2>3, <2>4
  <2>7. Min(near) = last
    BY <2>4, <2>5, <2>6
  <2> QED
    BY <1>4, <2>1, <2>2, <2>7
<1>6. ASSUME near # {}
      PROVE  \E name \in Parameters : Publishes(c, i, name) /\ PublishedParameter(c, i + 1) = name
  <2> DEFINE last == Min(near)
  <2>1. last \in near /\ \A j \in near : last <= j
    <3> HIDE DEF near
    <3> QED
      BY <1>3, <1>6, Least
  <2> HIDE DEF last
  <2>2. /\ last \in i + 1..i + n /\ \A j \in i + 1..last : Decodes(c, j)
        /\ c[last].op = "lea" /\ c[last].to \in Parameters
    BY <1>2, <2>1
  <2>3. ASSUME NEW j \in i + 1..last - 1, c[j].op = "lea" PROVE c[j].to \notin Parameters
    <3>1. j \in i + 1..i + n /\ i + 1..j \subseteq i + 1..last /\ ~(last <= j)
      BY <1>1, <2>2
    <3> QED
      BY <1>2, <2>1, <2>2, <2>3, <3>1
  <2>4. Publishes(c, i, c[last].to)
    BY <2>2, <2>3 DEF Publishes
  <2> QED
    BY <1>4, <1>6, <2>2, <2>4 DEF last
<1> QED
  BY <1>4, <1>5, <1>6

\* A comparison that is rewritten.
IsGate(c, i) ==
    /\ i \in DOMAIN c /\ c[i].op = "cmp" /\ c[i].imm = kNvApiBlackwell
    /\ ConditionTested(c, i + 1) = "Ordering"
    /\ PublishedParameter(c, i + 1) \in {"", kMultiFrameParameter}

\* The gates are rewritten, all of them if any, and nothing else is.
LEMMA GatesRewritten ==
    ASSUME NEW c \in Seq(Instructions)
    PROVE  /\ UnlockMultiFrame(c) \in Seq(ToSet(UnlockMultiFrame(c)))
           /\ \A r \in ToSet(UnlockMultiFrame(c)) :
                IsGate(c, r.at) /\ r.as = [c[r.at] EXCEPT !.imm = kNvApiAda]
           /\ UnlockMultiFrame(c) # <<>> =>
                \A i : IsGate(c, i) => \E r \in ToSet(UnlockMultiFrame(c)) : r.at = i
<1> DEFINE gates == FindMultiFrameGates(c)
           unlocked(length) == {gate \in gates : Unlocks(gate) /\ c[gate.at].length = length}
           rewrites(length) == {Rewrite(gate.at, [c[gate.at] EXCEPT !.imm = kNvApiAda],
                                        length - 4, 4) : gate \in unlocked(length)}
           u == UnlockMultiFrame(c)
           five == rewrites(5)
           six == rewrites(6)
           both == Ordered(five) \o Ordered(six)
<1>1. u = IF Cardinality(gates) > kMaxGates THEN <<>> ELSE both
  BY DEF UnlockMultiFrame
<1>2. DOMAIN c = 1..Len(c) /\ Len(c) \in Nat /\ \A i \in 1..Len(c) : c[i] \in Instructions
  <2> HIDE DEF Instructions
  <2> QED
    OBVIOUS
<1>3. IsFiniteSet(DOMAIN c)
  BY <1>2, FS_Interval
<1>4. ASSUME NEW length, NEW r \in rewrites(length)
      PROVE  /\ IsGate(c, r.at) /\ c[r.at].length = length
             /\ r = Rewrite(r.at, [c[r.at] EXCEPT !.imm = kNvApiAda], length - 4, 4)
             /\ r.as = [c[r.at] EXCEPT !.imm = kNvApiAda]
  <2>1. PICK gate \in gates :
          /\ Unlocks(gate) /\ c[gate.at].length = length
          /\ r = Rewrite(gate.at, [c[gate.at] EXCEPT !.imm = kNvApiAda], length - 4, 4)
    OBVIOUS
  <2>2. PICK i \in DOMAIN c :
          /\ c[i].op = "cmp" /\ c[i].imm = kNvApiBlackwell
          /\ gate = [at |-> i, condition |-> ConditionTested(c, i + 1),
                     publishes |-> PublishedParameter(c, i + 1)]
    BY DEF FindMultiFrameGates
  <2>3. gate.at = i /\ IsGate(c, i)
    BY <2>1, <2>2 DEF Unlocks, IsGate
  <2>4. r.at = i /\ r.as = [c[i] EXCEPT !.imm = kNvApiAda]
    BY <2>1, <2>3 DEF Rewrite
  <2> QED
    BY <2>1, <2>3, <2>4
<1>5. ASSUME NEW i, IsGate(c, i)
      PROVE  \E r \in rewrites(c[i].length) : r.at = i
  <2> DEFINE gate == [at |-> i, condition |-> ConditionTested(c, i + 1),
                      publishes |-> PublishedParameter(c, i + 1)]
             r == Rewrite(i, [c[i] EXCEPT !.imm = kNvApiAda], c[i].length - 4, 4)
  <2>1. gate \in gates
    BY <1>5 DEF FindMultiFrameGates, IsGate
  <2>2. Unlocks(gate) /\ gate.at = i
    BY <1>5 DEF Unlocks, IsGate
  <2> HIDE DEF gate, gates
  <2>3. r \in rewrites(c[i].length)
    BY <2>1, <2>2
  <2>4. r.at = i
    BY DEF Rewrite
  <2> QED
    BY <2>3, <2>4
<1>6. ASSUME NEW i, IsGate(c, i) PROVE c[i].length \in {5, 6}
  BY <1>2, <1>6 DEF IsGate, Instructions
<1>7. ASSUME NEW length
      PROVE  Ordered(rewrites(length)) \in Seq(rewrites(length))
             /\ ToSet(Ordered(rewrites(length))) = rewrites(length)
  <2> DEFINE f == [i \in DOMAIN c |-> Rewrite(i, [c[i] EXCEPT !.imm = kNvApiAda], length - 4, 4)]
             T == rewrites(length)
  <2>1. \A t \in T : t.at \in DOMAIN c /\ t = f[t.at]
    <3> SUFFICES ASSUME NEW t \in T PROVE t.at \in DOMAIN c /\ t = f[t.at]
      OBVIOUS
    <3>1. IsGate(c, t.at) /\ t = Rewrite(t.at, [c[t.at] EXCEPT !.imm = kNvApiAda], length - 4, 4)
      BY <1>4
    <3> HIDE DEF rewrites
    <3> QED
      BY <3>1 DEF IsGate
  <2> HIDE DEF T, f
  <2>2. IsFiniteSet(T)
    BY <1>3, <2>1, FiniteImage
  <2>3. \A r \in T : r.at \in Int
    BY <1>2, <2>1
  <2>4. \A r, s \in T : r.at = s.at => r = s
    BY <2>1
  <2>5. Ordered(T) \in Seq(T) /\ ToSet(Ordered(T)) = T
    BY <2>2, <2>3, <2>4, OrderedHasAll
  <2> QED
    BY <2>5 DEF T
<1>8. both \in Seq(five \cup six) /\ ToSet(both) = five \cup six
  <2>1. /\ Ordered(five) \in Seq(five) /\ ToSet(Ordered(five)) = five
        /\ Ordered(six) \in Seq(six) /\ ToSet(Ordered(six)) = six
    BY <1>7
  <2> DEFINE a == Ordered(five)
             b == Ordered(six)
  <2> HIDE DEF five, six, a, b
  <2>2. a \o b \in Seq(five \cup six) /\ ToSet(a \o b) = ToSet(a) \cup ToSet(b)
    <3> DEFINE all == five \cup six
    <3>1. a \in Seq(all) /\ b \in Seq(all)
      BY <2>1 DEF a, b
    <3> HIDE DEF all
    <3>2. a \o b \in Seq(all) /\ ToSet(a \o b) = ToSet(a) \cup ToSet(b)
      BY <3>1, ConcatHasAll
    <3> QED
      BY <3>2 DEF all
  <2> QED
    BY <2>1, <2>2 DEF a, b
<1>9. u = <<>> \/ (u \in Seq(five \cup six) /\ ToSet(u) = five \cup six)
  <2> HIDE DEF five, six, u, both, gates
  <2> QED
    BY <1>1, <1>8
<1>10. u \in Seq(ToSet(u))
  <2> HIDE DEF five, six, u
  <2>1. CASE u = <<>>
    BY <2>1
  <2>2. CASE u \in Seq(five \cup six) /\ ToSet(u) = five \cup six
    BY <2>2
  <2> QED
    BY <1>9, <2>1, <2>2
<1>11. ASSUME NEW r \in ToSet(u)
       PROVE  IsGate(c, r.at) /\ r.as = [c[r.at] EXCEPT !.imm = kNvApiAda]
  <2>1. r \in five \/ r \in six
    <3> HIDE DEF five, six, u
    <3> QED
      BY <1>9 DEF ToSet
  <2>2. CASE r \in rewrites(5)
    <3> HIDE DEF rewrites, u
    <3> QED
      BY <1>4, <2>2
  <2>3. CASE r \in rewrites(6)
    <3> HIDE DEF rewrites, u
    <3> QED
      BY <1>4, <2>3
  <2> HIDE DEF rewrites, u
  <2> QED
    BY <2>1, <2>2, <2>3
<1>12. ASSUME u # <<>>, NEW i, IsGate(c, i)
       PROVE  \E r \in ToSet(u) : r.at = i
  <2>1. \E r \in five \cup six : r.at = i
    <3>1. PICK r \in rewrites(c[i].length) : r.at = i
      BY <1>5, <1>12
    <3>2. c[i].length = 5 \/ c[i].length = 6
      BY <1>6, <1>12
    <3>3. r \in five \/ r \in six
      BY <3>1, <3>2
    <3> HIDE DEF five, six
    <3> QED
      BY <3>1, <3>3
  <2> HIDE DEF five, six, u
  <2> QED
    BY <1>9, <1>12, <2>1
<1> QED
  BY <1>10, <1>11, <1>12

-----------------------------------------------------------------------------
(* The stores of the flag, and the frame clamp. *)

LEMMA Places ==
    ASSUME NEW c \in Seq(Instructions)
    PROVE  /\ IsFiniteSet(DOMAIN c) /\ DOMAIN c \subseteq Nat /\ 0 \notin DOMAIN c
           /\ \A i \in DOMAIN c : c[i] \in Instructions
<1>1. DOMAIN c = 1..Len(c) /\ Len(c) \in Nat /\ \A i \in DOMAIN c : c[i] \in Instructions
  <2> HIDE DEF Instructions
  <2> QED
    OBVIOUS
<1>2. IsFiniteSet(1..Len(c))
  BY <1>1, FS_Interval
<1> HIDE DEF Instructions
<1> QED
  BY <1>1, <1>2

\* The first site is one, of the first reference that has any.
LEMMA FirstSiteIs ==
    ASSUME NEW sites, DOMAIN sites \subseteq Nat, \A r \in DOMAIN sites : sites[r] \subseteq Nat,
           ~NoSite(sites)
    PROVE  \E r \in DOMAIN sites :
             /\ FirstSite(sites) \in sites[r]
             /\ \A q \in DOMAIN sites : sites[q] # {} => r <= q
             /\ \A y \in sites[r] : FirstSite(sites) <= y
<1> DEFINE some == {r \in DOMAIN sites : sites[r] # {}}
           r == Min(some)
<1>1. some \in SUBSET Nat /\ some # {}
  BY DEF NoSite
<1>2. r \in some /\ \A q \in some : r <= q
  <2> HIDE DEF some
  <2> QED
    BY <1>1, Least
<1>3. FirstSite(sites) = Min(sites[r])
  BY DEF FirstSite
<1> HIDE DEF r
<1>4. sites[r] \in SUBSET Nat /\ sites[r] # {}
  BY <1>2
<1>5. FirstSite(sites) \in sites[r] /\ \A y \in sites[r] : FirstSite(sites) <= y
  BY <1>3, <1>4, Least
<1> QED
  BY <1>2, <1>5

\* A store that would turn metering on.
OnStore(c, displacement, off, i) ==
    /\ i \in DOMAIN c /\ c[i].op = "store"
    /\ c[i].field.displacement = displacement /\ c[i].value = 1 - off

LEMMA StoresOfOnAll ==
    ASSUME NEW c \in Seq(Instructions), NEW displacement, NEW off,
           NEW stores, stores = StoresOfOn(c, displacement, off)
    PROVE  /\ stores \in Seq(ToSet(stores))
           /\ \A r \in ToSet(stores) :
                OnStore(c, displacement, off, r.at) /\ r.as = [c[r.at] EXCEPT !.value = off]
           /\ \A i : OnStore(c, displacement, off, i) => \E r \in ToSet(stores) : r.at = i
<1> DEFINE on == {j \in DOMAIN c : /\ c[j].op = "store"
                                   /\ c[j].field.displacement = displacement
                                   /\ c[j].value = 1 - off}
           f == [i \in DOMAIN c |-> Rewrite(i, [c[i] EXCEPT !.value = off], c[i].length - 1, 1)]
           T == {Rewrite(i, [c[i] EXCEPT !.value = off], c[i].length - 1, 1) : i \in on}
<1>1. stores = Ordered(T)
  BY DEF StoresOfOn
<1>2. ASSUME NEW r \in T PROVE r.at \in on /\ r = f[r.at] /\ r.as = [c[r.at] EXCEPT !.value = off]
  <2>1. PICK i \in on : r = Rewrite(i, [c[i] EXCEPT !.value = off], c[i].length - 1, 1)
    OBVIOUS
  <2>2. i \in DOMAIN c /\ f[i] = Rewrite(i, [c[i] EXCEPT !.value = off], c[i].length - 1, 1)
    OBVIOUS
  <2>3. r.at = i /\ r.as = [c[i] EXCEPT !.value = off]
    BY <2>1 DEF Rewrite
  <2> HIDE DEF on, f
  <2> QED
    BY <2>1, <2>2, <2>3
<1>3. ASSUME NEW i \in on PROVE \E r \in T : r.at = i
  <2> DEFINE r == Rewrite(i, [c[i] EXCEPT !.value = off], c[i].length - 1, 1)
  <2>1. r \in T
    OBVIOUS
  <2>2. r.at = i
    BY DEF Rewrite
  <2> QED
    BY <2>1, <2>2
<1>4. on \in SUBSET DOMAIN c
  OBVIOUS
<1>5. \A i : OnStore(c, displacement, off, i) <=> i \in on
  BY DEF OnStore
<1> HIDE DEF on, f, T
<1>6. \A r \in T : r.at \in Int
  <2>1. on \subseteq Nat
    BY <1>4, Places
  <2>2. \A r \in T : r.at \in on
    BY <1>2
  <2>3. \A i \in on : i \in Int
    BY <2>1
  <2> QED
    BY <2>2, <2>3, Zenon
<1>7. IsFiniteSet(T)
  <2>1. \A t \in T : \E s \in DOMAIN c : t = f[s]
    BY <1>2, <1>4
  <2> QED
    BY <2>1, Places, FiniteImage
<1>8. \A r, s \in T : r.at = s.at => r = s
  BY <1>2
<1>9. stores \in Seq(T) /\ ToSet(stores) = T
  BY <1>1, <1>6, <1>7, <1>8, OrderedHasAll
<1> QED
  BY <1>2, <1>3, <1>5, <1>9

\* The stores after the references to the model version, and those after the marker's.
ModelStores(c, flag) ==
    [reference \in FindReferences(c, kModelVersionParameter) |->
       {i \in StraightLine(c, reference) :
          c[i].op \in {"store", "register store"} /\ c[i].field = flag}]
MarkerStores(c) ==
    [reference \in FindReferences(c, kFlipMeteringMarker) |-> FallbackStores(c, reference)]

\* A window ends where something does not decode.
LEMMA WindowIn ==
    ASSUME NEW c \in Seq(Instructions), NEW i \in DOMAIN c, NEW n \in Nat
    PROVE  Window(c, i, n) \subseteq DOMAIN c
<1> SUFFICES ASSUME NEW j \in i..i+n-1, \A k \in i..j : Decodes(c, k)
             PROVE  j \in DOMAIN c
  BY DEF Window
<1>1. i \in Nat /\ j \in i..j
  BY Places
<1> QED
  BY <1>1 DEF Decodes

LEMMA SitesIn ==
    ASSUME NEW c \in Seq(Instructions)
    PROVE  /\ DOMAIN MarkerStores(c) \subseteq Nat
           /\ \A r \in DOMAIN MarkerStores(c) :
                MarkerStores(c)[r] \subseteq DOMAIN c /\ MarkerStores(c)[r] \subseteq Nat
           /\ \A flag :
                /\ DOMAIN ModelStores(c, flag) \subseteq Nat
                /\ \A r \in DOMAIN ModelStores(c, flag) :
                     ModelStores(c, flag)[r] \subseteq DOMAIN c /\ ModelStores(c, flag)[r] \subseteq Nat
<1>1. DOMAIN c \subseteq Nat
  BY Places
<1>2. \A text : FindReferences(c, text) \subseteq DOMAIN c
  BY DEF FindReferences
<1>3. \A i \in DOMAIN c :
        FallbackStores(c, i) \subseteq DOMAIN c /\ StraightLine(c, i) \subseteq DOMAIN c
  BY WindowIn, CodeAnalysisAssumption DEF FallbackStores, StraightLine
<1> QED
  BY <1>1, <1>2, <1>3 DEF MarkerStores, ModelStores

\* The re-encoded store.
IsReencoded(c, flag, off, r) ==
    /\ r.at \in DOMAIN c /\ c[r.at].op = "register store" /\ c[r.at].field = flag
    /\ r.as = StoreByte(flag.base, flag.displacement, off)

\* The store after the model-version check is rewritten, is constant, or does not fit.
ModelStoreDone(c, flag, unfit, rewrites) ==
    LET found == FirstSite(ModelStores(c, flag)) IN
    \/ NoSite(ModelStores(c, flag))
    \/ c[found].op = "store"
    \/ unfit = "unfit"
    \/ \E r \in rewrites : r.at = found

LEMMA ModelVersionStoreIs ==
    ASSUME NEW c \in Seq(Instructions), NEW flag, NEW off,
           NEW store, store = AnalyzeModelVersionStore(c, flag, off)
    PROVE  /\ store.rewrites \in Seq(ToSet(store.rewrites))
           /\ \A r \in ToSet(store.rewrites) : IsReencoded(c, flag, off, r)
           /\ ModelStoreDone(c, flag, store.model_version_store, ToSet(store.rewrites))
<1> DEFINE sites == ModelStores(c, flag)
           found == FirstSite(sites)
           new == StoreByte(flag.base, flag.displacement, off)
           r == Rewrite(found, new, 0, c[found].length)
<1>1. store = IF NoSite(sites) THEN [model_version_store |-> "absent", rewrites |-> <<>>]
              ELSE IF c[found].op = "store"
                   THEN [model_version_store |-> "constant", rewrites |-> <<>>]
              ELSE IF ~FitsInPlace(c[found])
                   THEN [model_version_store |-> "unfit", rewrites |-> <<>>]
              ELSE [model_version_store |-> "register", rewrites |-> <<r>>]
  BY DEF AnalyzeModelVersionStore, ModelStores
<1>2. r.at = found /\ r.as = new
  BY DEF Rewrite
<1>3. ASSUME ~NoSite(sites)
      PROVE  /\ found \in DOMAIN c /\ c[found].op \in {"store", "register store"}
             /\ c[found].field = flag
  <2>1. PICK q \in DOMAIN sites : found \in sites[q]
    BY <1>3, SitesIn, FirstSiteIs
  <2>2. sites[q] \subseteq DOMAIN c
    BY SitesIn
  <2>3. c[found].op \in {"store", "register store"} /\ c[found].field = flag
    <3> HIDE DEF found
    <3> QED
      BY <2>1 DEF ModelStores
  <2> QED
    BY <2>1, <2>2, <2>3
<1> HIDE DEF sites, found, new, r
<1>4. CASE store.rewrites = <<>>
  <2>1. ToSet(<<>>) = {}
    BY DEF ToSet
  <2>2. <<>> \in Seq({})
    OBVIOUS
  <2>3. ~NoSite(sites) => c[found].op = "store" \/ store.model_version_store = "unfit"
    <3>1. <<r>> # <<>>
      OBVIOUS
    <3> QED
      BY <1>1, <1>4, <3>1
  <2> QED
    BY <1>4, <2>1, <2>2, <2>3 DEF sites, found, ModelStoreDone
<1>5. CASE store.rewrites = <<r>> /\ ~NoSite(sites) /\ c[found].op # "store"
  <2>1. ToSet(<<r>>) = {r}
    BY DEF ToSet
  <2>2. <<r>> \in Seq({r})
    OBVIOUS
  <2>3. c[found].op = "register store"
    BY <1>3, <1>5
  <2> QED
    BY <1>2, <1>3, <1>5, <2>1, <2>2, <2>3 DEF sites, found, new, IsReencoded, ModelStoreDone
<1>6. store.rewrites = <<>> \/ (store.rewrites = <<r>> /\ ~NoSite(sites) /\ c[found].op # "store")
  BY <1>1
<1> QED
  BY <1>4, <1>5, <1>6

\* Everything about the stores of a flag that has been found.
FlipDone(c, flip) ==
    /\ flip.off_value \in {0, 1} /\ flip.flag \in Fields
    /\ \E i \in DOMAIN c : c[i].op = "store" /\ c[i].field = flip.flag /\ c[i].value <= 1
    /\ flip.rewrites \in Seq(ToSet(flip.rewrites))
    /\ \A r \in ToSet(flip.rewrites) :
         \/ /\ OnStore(c, flip.flag.displacement, flip.off_value, r.at)
            /\ r.as = [c[r.at] EXCEPT !.value = flip.off_value]
         \/ IsReencoded(c, flip.flag, flip.off_value, r)
    /\ \A i : OnStore(c, flip.flag.displacement, flip.off_value, i) =>
         \E r \in ToSet(flip.rewrites) : r.at = i
    /\ ModelStoreDone(c, flip.flag, flip.model_version_store, ToSet(flip.rewrites))

LEMMA FlipRewritten ==
    ASSUME NEW c \in Seq(Instructions), NEW forced \in {-1, 0, 1},
           NEW flip, flip = AnalyzeFlipMetering(c, forced), flip.found
    PROVE  FlipDone(c, flip)
<1> DEFINE fallback == c[FirstSite(MarkerStores(c))]
           flag == fallback.field
           off == IF forced >= 0 THEN forced ELSE fallback.value
           on == StoresOfOn(c, flag.displacement, off)
           store == AnalyzeModelVersionStore(c, flag, off)
<1>1. flip = IF NoSite(MarkerStores(c)) THEN NoFlipMetering
             ELSE [found |-> TRUE, flag |-> flag, off_value |-> off,
                   model_version_store |-> store.model_version_store,
                   rewrites |-> on \o store.rewrites]
  BY DEF AnalyzeFlipMetering, MarkerStores
<1>2. NoFlipMetering.found = FALSE
  BY DEF NoFlipMetering
<1>3. PICK i \in DOMAIN c : fallback = c[i] /\ c[i].op = "store" /\ c[i].value <= 1
  <2>1. ~NoSite(MarkerStores(c))
    BY <1>1, <1>2
  <2>2. PICK q \in DOMAIN MarkerStores(c) : FirstSite(MarkerStores(c)) \in MarkerStores(c)[q]
    BY <2>1, SitesIn, FirstSiteIs
  <2>3. MarkerStores(c)[q] = FallbackStores(c, q) /\ MarkerStores(c)[q] \subseteq DOMAIN c
    BY SitesIn DEF MarkerStores
  <2> QED
    BY <2>2, <2>3 DEF FallbackStores
<1> HIDE DEF fallback
<1>4. fallback.field \in Fields /\ fallback.value \in {0, 1}
  <2>1. c[i] \in Instructions
    BY Places
  <2>2. c[i].field \in Fields /\ c[i].value \in 0..255
    BY <1>3, <2>1 DEF Instructions
  <2>3. \A v \in 0..255 : v <= 1 => v \in {0, 1}
    OBVIOUS
  <2>4. c[i].value \in {0, 1}
    BY <1>3, <2>2, <2>3, Zenon
  <2> QED
    BY <1>3, <2>2, <2>4
<1>5. off \in {0, 1} /\ flag \in Fields
  BY <1>4
<1> HIDE DEF flag, off
<1>6. /\ flip.flag = flag /\ flip.off_value = off
      /\ flip.model_version_store = store.model_version_store
      /\ flip.rewrites = on \o store.rewrites
  <2> HIDE DEF on, store
  <2> QED
    BY <1>1, <1>2
<1>7. /\ on \in Seq(ToSet(on))
      /\ \A r \in ToSet(on) :
           OnStore(c, flag.displacement, off, r.at) /\ r.as = [c[r.at] EXCEPT !.value = off]
      /\ \A j : OnStore(c, flag.displacement, off, j) => \E r \in ToSet(on) : r.at = j
  <2> HIDE DEF on
  <2>1. on = StoresOfOn(c, flag.displacement, off)
    BY DEF on
  <2> QED
    BY <2>1, StoresOfOnAll
<1>8. /\ store.rewrites \in Seq(ToSet(store.rewrites))
      /\ \A r \in ToSet(store.rewrites) : IsReencoded(c, flag, off, r)
      /\ ModelStoreDone(c, flag, store.model_version_store, ToSet(store.rewrites))
  <2> HIDE DEF store
  <2>1. store = AnalyzeModelVersionStore(c, flag, off)
    BY DEF store
  <2> QED
    BY <2>1, ModelVersionStoreIs
<1> DEFINE rest == store.rewrites
           all == ToSet(on) \cup ToSet(rest)
<1>9. on \o rest \in Seq(all) /\ ToSet(on \o rest) = all
  <2> HIDE DEF on, rest
  <2>1. on \in Seq(all) /\ rest \in Seq(all)
    <3>1. on \in Seq(ToSet(on)) /\ ToSet(on) \subseteq all
      BY <1>7
    <3>2. rest \in Seq(ToSet(rest)) /\ ToSet(rest) \subseteq all
      BY <1>8 DEF rest
    <3> HIDE DEF all
    <3> QED
      BY <3>1, <3>2, SeqWithin
  <2> HIDE DEF all
  <2>2. on \o rest \in Seq(all) /\ ToSet(on \o rest) = ToSet(on) \cup ToSet(rest)
    BY <2>1, ConcatHasAll
  <2> QED
    BY <2>2 DEF all
<1> HIDE DEF on, store
<1>10. flip.rewrites \in Seq(all) /\ ToSet(flip.rewrites) = all
  BY <1>6, <1>9
<1> QED
  <2>1. fallback.field = flag
    BY DEF flag
  <2>2. /\ flip.off_value \in {0, 1} /\ flip.flag \in Fields
        /\ c[i].op = "store" /\ c[i].field = flip.flag /\ c[i].value <= 1
    BY <1>3, <1>5, <1>6, <2>1
  <2>3. ModelStoreDone(c, flag, store.model_version_store, all)
    BY <1>8 DEF ModelStoreDone
  <2> QED
    BY <1>6, <1>7, <1>8, <1>10, <2>2, <2>3 DEF FlipDone

\* The no-op takes the place of a clamp.
LEMMA ClampRewritten ==
    ASSUME NEW c \in Seq(Instructions)
    PROVE  /\ AnalyzeFrameClamp(c) \in Seq(ToSet(AnalyzeFrameClamp(c)))
           /\ \A r \in ToSet(AnalyzeFrameClamp(c)) :
                r.at \in DOMAIN c /\ c[r.at].op = "clamp" /\ r.as.op = "unclamped"
<1> DEFINE matches == {i \in DOMAIN c : c[i].op = "clamp"}
           r == Rewrite(Min(matches), [op |-> "unclamped", length |-> 10], 7, 3)
<1>1. AnalyzeFrameClamp(c) = IF Cardinality(matches) = 1
                                /\ c[Min(matches)].limit \in 1..kMaxPlausibleFrameLimit
                             THEN <<r>> ELSE <<>>
  BY DEF AnalyzeFrameClamp
<1>2. CASE AnalyzeFrameClamp(c) = <<>>
  <2>1. ToSet(<<>>) = {} /\ <<>> \in Seq({})
    BY DEF ToSet
  <2> QED
    BY <1>2, <2>1
<1>3. CASE Cardinality(matches) = 1 /\ AnalyzeFrameClamp(c) = <<r>>
  <2>1. matches # {}
    <3> SUFFICES ASSUME matches = {} PROVE FALSE
      OBVIOUS
    <3>1. Cardinality(matches) = 0
      BY FS_EmptySet
    <3> HIDE DEF matches, r
    <3> QED
      BY <1>3, <3>1
  <2>2. matches \in SUBSET Nat
    BY Places
  <2>3. Min(matches) \in matches
    <3> HIDE DEF matches
    <3> QED
      BY <2>1, <2>2, Least
  <2>4. r.at = Min(matches) /\ r.as.op = "unclamped"
    BY DEF Rewrite
  <2>5. r.at \in DOMAIN c /\ c[r.at].op = "clamp"
    BY <2>3, <2>4
  <2> HIDE DEF r
  <2>6. ToSet(<<r>>) = {r} /\ <<r>> \in Seq({r})
    BY DEF ToSet
  <2> QED
    BY <1>3, <2>4, <2>5, <2>6
<1> QED
  BY <1>1, <1>2, <1>3

-----------------------------------------------------------------------------
(* The rewriting. *)

Clamps == IF image.kind = "plugin" THEN AnalyzeFrameClamp(image.code) ELSE <<>>
Planned == ToSet(Rewrites) \cup ToSet(Clamps)

\* What is left to do is part of the plan, and an instruction that is being written is the
\* next one, at load.
Pending ==
    /\ todo \in Seq(Planned)
    /\ stage = "loaded" => todo = <<>>
    /\ torn # 0 => at_load /\ todo # <<>> /\ torn = Head(todo).at

\* The code is what the image was built with but for what has been written of the plan.
Rewritten ==
    \A i \in DOMAIN code :
        IF i \in written THEN \E r \in Planned : r.at = i /\ code[i] = r.as
        ELSE code[i] = image.code[i]

\* What has been reported as done is done.
Reported ==
    report = "info" =>
        /\ Rewrites # <<>>
        /\ \A r \in ToSet(Rewrites) : r.at \in written
        /\ image.kind = "plugin" =>
             AnalyzeFlipMetering(image.code, image.forced).model_version_store # "unfit"

LEMMA ImageTyped ==
    ASSUME image \in Images
    PROVE  /\ image.kind \in {"runtime", "plugin"} /\ image.code \in Seq(Instructions)
           /\ image.forced \in {-1, 0, 1}
BY CodePatchingAssumption

\* What is planned, by the kind of the image.
LEMMA RuntimePlan ==
    ASSUME image \in Images, image.kind = "runtime"
    PROVE  /\ Rewrites = UnlockMultiFrame(image.code) /\ Planned = ToSet(Rewrites)
           /\ Rewrites \in Seq(ToSet(Rewrites)) /\ Clamps = <<>>
           /\ \A r \in Planned :
                IsGate(image.code, r.at) /\ r.as = [image.code[r.at] EXCEPT !.imm = kNvApiAda]
           /\ Rewrites # <<>> => \A i : IsGate(image.code, i) => \E r \in Planned : r.at = i
<1>1. Rewrites = UnlockMultiFrame(image.code) /\ Clamps = <<>>
  BY DEF Rewrites, Clamps
<1>2. Planned = ToSet(Rewrites)
  BY <1>1 DEF Planned, ToSet
<1>3. image.code \in Seq(Instructions)
  BY ImageTyped
<1> QED
  BY <1>1, <1>2, <1>3, GatesRewritten

LEMMA PluginDone ==
    ASSUME image \in Images,
           NEW flip, flip = AnalyzeFlipMetering(image.code, image.forced), flip.found
    PROVE  FlipDone(image.code, flip)
BY ImageTyped, FlipRewritten

LEMMA PluginPlan ==
    ASSUME image \in Images, image.kind = "plugin",
           NEW flip, flip = AnalyzeFlipMetering(image.code, image.forced)
    PROVE  /\ Rewrites = IF flip.found THEN flip.rewrites ELSE <<>>
           /\ Clamps = AnalyzeFrameClamp(image.code)
           /\ Rewrites \in Seq(ToSet(Rewrites)) /\ Clamps \in Seq(ToSet(Clamps))
           /\ \A r \in ToSet(Rewrites) :
                /\ flip.found
                /\ \/ /\ OnStore(image.code, flip.flag.displacement, flip.off_value, r.at)
                      /\ r.as = [image.code[r.at] EXCEPT !.value = flip.off_value]
                   \/ IsReencoded(image.code, flip.flag, flip.off_value, r)
           /\ \A r \in ToSet(Clamps) :
                /\ r.at \in DOMAIN image.code /\ image.code[r.at].op = "clamp"
                /\ r.as.op = "unclamped"
<1>1. image.code \in Seq(Instructions) /\ image.forced \in {-1, 0, 1}
  BY ImageTyped
<1>2. Rewrites = (IF flip.found THEN flip.rewrites ELSE <<>>) /\ Clamps = AnalyzeFrameClamp(image.code)
  BY DEF Rewrites, Clamps
<1>3. <<>> \in Seq(ToSet(<<>>)) /\ ToSet(<<>>) = {}
  BY DEF ToSet
<1>4. CASE flip.found
  <2>1. /\ flip.rewrites \in Seq(ToSet(flip.rewrites))
        /\ \A r \in ToSet(flip.rewrites) :
             \/ /\ OnStore(image.code, flip.flag.displacement, flip.off_value, r.at)
                /\ r.as = [image.code[r.at] EXCEPT !.value = flip.off_value]
             \/ IsReencoded(image.code, flip.flag, flip.off_value, r)
    BY <1>1, <1>4, FlipRewritten DEF FlipDone
  <2> QED
    BY <1>1, <1>2, <1>4, <2>1, ClampRewritten
<1>5. CASE ~flip.found
  BY <1>1, <1>2, <1>3, <1>5, ClampRewritten
<1> QED
  BY <1>4, <1>5

LEMMA PlannedSites ==
    ASSUME image \in Images
    PROVE  /\ Rewrites \in Seq(Planned) /\ Clamps \in Seq(Planned)
           /\ \A r \in Planned : r.at \in DOMAIN image.code
<1>1. CASE image.kind = "runtime"
  <2>1. <<>> \in Seq(Planned)
    OBVIOUS
  <2>2. \A r \in Planned : IsGate(image.code, r.at)
    BY <1>1, RuntimePlan
  <2>3. Rewrites \in Seq(Planned) /\ Clamps = <<>>
    BY <1>1, RuntimePlan
  <2> QED
    BY <2>1, <2>2, <2>3 DEF IsGate
<1>2. CASE image.kind = "plugin"
  <2> DEFINE flip == AnalyzeFlipMetering(image.code, image.forced)
             f == ToSet(Rewrites)
             k == ToSet(Clamps)
  <2>1. /\ Rewrites \in Seq(f) /\ Clamps \in Seq(k)
        /\ \A r \in f : \/ OnStore(image.code, flip.flag.displacement, flip.off_value, r.at)
                        \/ IsReencoded(image.code, flip.flag, flip.off_value, r)
        /\ \A r \in k : r.at \in DOMAIN image.code
    <3> HIDE DEF flip
    <3>1. flip = AnalyzeFlipMetering(image.code, image.forced)
      BY DEF flip
    <3> QED
      BY <1>2, <3>1, PluginPlan
  <2>2. \A r \in f : r.at \in DOMAIN image.code
    BY <2>1 DEF OnStore, IsReencoded
  <2>3. f \subseteq Planned /\ k \subseteq Planned /\ Planned \subseteq f \cup k
    BY DEF Planned
  <2> HIDE DEF f, k
  <2>4. Rewrites \in Seq(Planned) /\ Clamps \in Seq(Planned)
    BY <2>1, <2>3, SeqWithin
  <2> QED
    BY <2>1, <2>2, <2>3, <2>4
<1> QED
  BY <1>1, <1>2, ImageTyped

\* Moving a gate from Blackwell to Ada changes one byte.
LEMMA OneByte == DifferingBytes(kNvApiBlackwell, kNvApiAda) = 1
<1> DEFINE K == {k \in {1, 256, 65536} : (432 \div k) % 256 # (400 \div k) % 256}
<1>1. /\ (432 \div 1) % 256 = 176 /\ (400 \div 1) % 256 = 144
      /\ (432 \div 256) % 256 = 1 /\ (400 \div 256) % 256 = 1
      /\ (432 \div 65536) % 256 = 0 /\ (400 \div 65536) % 256 = 0
  OBVIOUS
<1>2. K = {1}
  BY <1>1
<1>3. Cardinality({1}) = 1
  BY FS_Singleton
<1> QED
  BY <1>2, <1>3 DEF DifferingBytes, kNvApiAda, kNvApiBlackwell

\* Nothing is written byte by byte where a thread may run.
LEMMA TornAtLoad ==
    ASSUME image \in Images, at_load \in BOOLEAN, NEW r \in Planned, MayWrite(r), ~AtOnce(r)
    PROVE  at_load
<1> SUFFICES ASSUME ~at_load PROVE FALSE
  OBVIOUS
<1>1. image.kind = "runtime"
  BY DEF MayWrite, AtOnce, WithPatchCode
<1>2. IsGate(image.code, r.at) /\ r.as = [image.code[r.at] EXCEPT !.imm = kNvApiAda]
  BY <1>1, RuntimePlan
<1>3. image.code[r.at] \in Instructions
  BY <1>2, ImageTyped, Places DEF IsGate
<1>4. r.as.imm = kNvApiAda
  BY <1>2, <1>3 DEF Instructions, IsGate
<1>5. Changes(r) = 1
  BY <1>2, <1>4, OneByte DEF Changes, IsGate
<1> QED
  BY <1>5 DEF AtOnce

\* An instruction that has been written.
LEMMA WritingStep ==
    ASSUME TypeOK, Pending, Rewritten, todo # <<>>, Written(Head(todo)), UNCHANGED <<image, stage>>
    PROVE  /\ Rewritten' /\ torn' = 0 /\ todo' \in Seq(Planned) /\ stage # "loaded"
           /\ DOMAIN code' = DOMAIN code /\ written \subseteq written' /\ written' \subseteq DOMAIN code
<1> DEFINE r == Head(todo)
<1>1. r \in Planned /\ Tail(todo) \in Seq(Planned) /\ stage # "loaded"
  BY DEF Pending
<1>2. /\ code' = [code EXCEPT ![r.at] = r.as] /\ written' = written \cup {r.at}
      /\ todo' = Tail(todo) /\ torn' = 0
  BY DEF Written
<1>3. r.at \in DOMAIN code
  BY <1>1, PlannedSites DEF TypeOK
<1>4. Planned' = Planned
  BY DEF Planned, Rewrites, Clamps
<1> HIDE DEF r
<1>5. /\ DOMAIN code' = DOMAIN code
      /\ code'[r.at] = r.as /\ \A i \in DOMAIN code \ {r.at} : code'[i] = code[i]
  BY <1>2, <1>3
<1>6. Rewritten'
  <2> SUFFICES ASSUME NEW i \in DOMAIN code
               PROVE  IF i \in written' THEN \E s \in Planned : s.at = i /\ code'[i] = s.as
                      ELSE code'[i] = image'.code[i]
    BY <1>4, <1>5 DEF Rewritten
  <2>1. CASE i = r.at
    BY <1>1, <1>2, <1>5, <2>1
  <2>2. CASE i # r.at
    BY <1>2, <1>5, <2>2 DEF Rewritten
  <2> QED
    BY <2>1, <2>2
<1> QED
  BY <1>1, <1>2, <1>3, <1>5, <1>6 DEF TypeOK

PatchingInv == TypeOK /\ Pending /\ Rewritten /\ Reported

LEMMA PatchingKept == PatchingInv /\ [Next]_vars => PatchingInv'
<1> SUFFICES ASSUME PatchingInv, [Next]_vars PROVE PatchingInv'
  OBVIOUS
<1> USE DEF PatchingInv
<1>1. UNCHANGED <<image, at_load>> => Planned' = Planned /\ Rewrites' = Rewrites /\ Clamps' = Clamps
  BY DEF Planned, Rewrites, Clamps
<1>2. image \in Images /\ Rewrites \in Seq(Planned) /\ Clamps \in Seq(Planned)
  BY PlannedSites DEF TypeOK
<1>3. CASE UNCHANGED vars
  BY <1>1, <1>3 DEF vars, TypeOK, Pending, Rewritten, Reported
<1>4. CASE Analyze
  <2>1. TypeOK'
    BY <1>4 DEF Analyze, TypeOK
  <2>2. torn = 0
    BY <1>4 DEF Analyze, Pending
  <2>3. Pending'
    BY <1>1, <1>2, <1>4, <2>2 DEF Analyze, Pending
  <2>4. Rewritten' /\ Reported'
    BY <1>1, <1>4 DEF Analyze, Rewritten, Reported
  <2> QED
    BY <2>1, <2>3, <2>4
<1>5. ASSUME todo # <<>>, Written(Head(todo)), UNCHANGED <<image, at_load, stage, report>>
      PROVE  PatchingInv'
  <2>1. /\ Rewritten' /\ torn' = 0 /\ todo' \in Seq(Planned) /\ stage # "loaded"
        /\ DOMAIN code' = DOMAIN code /\ written \subseteq written' /\ written' \subseteq DOMAIN code
    BY <1>5, WritingStep
  <2>2. TypeOK' /\ Pending'
    BY <1>1, <1>5, <2>1 DEF TypeOK, Pending
  <2>3. Reported'
    BY <1>1, <1>5, <2>1 DEF Reported
  <2> QED
    BY <2>1, <2>2, <2>3
<1>6. CASE Patch
  <2> DEFINE r == Head(todo)
  <2>1. CASE Written(r)
    BY <1>5, <1>6, <2>1 DEF Patch
  <2>2. CASE MayWrite(r) /\ ~AtOnce(r) /\ torn' = r.at /\ UNCHANGED <<code, todo, written>>
    <3>1. r \in Planned /\ todo # <<>> /\ UNCHANGED <<image, at_load, stage, report>>
      BY <1>6 DEF Patch, Pending
    <3>2. at_load
      BY <2>2, <3>1, TornAtLoad DEF TypeOK
    <3>3. r.at \in DOMAIN code
      BY <3>1, PlannedSites DEF TypeOK
    <3>4. TypeOK' /\ Pending'
      BY <1>1, <2>2, <3>1, <3>2, <3>3 DEF TypeOK, Pending
    <3>5. Rewritten' /\ Reported'
      BY <1>1, <2>2, <3>1 DEF Rewritten, Reported
    <3> QED
      BY <3>4, <3>5
  <2> QED
    BY <1>6, <2>1, <2>2 DEF Patch
<1>7. CASE FinishPatch
  BY <1>5, <1>7 DEF FinishPatch, Pending
<1>8. CASE SkipPatch
  <2>1. Tail(todo) \in Seq(Planned) /\ stage # "loaded"
    BY <1>8 DEF SkipPatch, Pending
  <2>2. TypeOK' /\ Pending'
    BY <1>1, <1>8, <2>1 DEF SkipPatch, TypeOK, Pending
  <2>3. Rewritten' /\ Reported'
    BY <1>1, <1>8 DEF SkipPatch, Rewritten, Reported
  <2> QED
    BY <2>2, <2>3
<1>9. CASE Report
  <2>1. torn = 0
    BY <1>9 DEF Report, Pending
  <2>2. todo' = Clamps
    BY <1>9 DEF Report, Clamps
  <2>3. TypeOK' /\ Pending'
    BY <1>1, <1>2, <1>9, <2>1, <2>2 DEF Report, TypeOK, Pending
  <2>4. Rewritten'
    BY <1>1, <1>9 DEF Report, Rewritten
  <2>5. Complete(Rewrites) =>
          /\ Rewrites # <<>> /\ \A r \in ToSet(Rewrites) : r.at \in written
          /\ image.kind = "plugin" =>
               AnalyzeFlipMetering(image.code, image.forced).model_version_store # "unfit"
    BY DEF Complete, ToSet
  <2>6. Reported'
    <3>1. /\ report' = (IF Complete(Rewrites) THEN "info" ELSE "warning")
          /\ UNCHANGED <<image, at_load, written>>
      BY <1>9 DEF Report
    <3> QED
      BY <1>1, <2>5, <3>1 DEF Reported
  <2> QED
    BY <2>3, <2>4, <2>6
<1> QED
  BY <1>3, <1>4, <1>6, <1>7, <1>8, <1>9 DEF Next

LEMMA PatchingHolds == Spec => []PatchingInv
<1>1. Init => PatchingInv
  <2> SUFFICES ASSUME Init PROVE PatchingInv
    OBVIOUS
  <2>1. TypeOK /\ Pending /\ Rewritten /\ Reported
    BY DEF Init, TypeOK, Pending, Rewritten, Reported
  <2> QED
    BY <2>1 DEF PatchingInv
<1> QED
  BY <1>1, PatchingKept, PTL DEF Spec

-----------------------------------------------------------------------------
(* The theorems. *)

\* The rewriting keeps the types: no instruction is added or removed, and none outside the
\* code is touched.
THEOREM CodePatchingTypes == Spec => []TypeOK
<1>1. PatchingInv => TypeOK
  BY DEF PatchingInv
<1> QED
  BY <1>1, PatchingHolds, PTL

\* A gate is moved by a change of one byte, and a longer rewrite is one store of an aligned
\* word or happens within the load (PatchCode, PatchRunningCode and WritePatch): whatever
\* the image, no thread that runs it ever meets half an instruction.
THEOREM NeverTornAlways == Spec => []NeverTorn
<1>1. PatchingInv => NeverTorn
  BY DEF PatchingInv, Pending, NeverTorn
<1> QED
  BY <1>1, PatchingHolds, PTL

\* Where a runtime has been rewritten, a gate has: it is moved to Ada.
LEMMA RuntimeRewritten ==
    ASSUME PatchingInv, image.kind = "runtime", NEW i \in DOMAIN image.code
    PROVE  \/ code[i] = image.code[i] /\ i \notin written
           \/ IsGate(image.code, i) /\ code[i] = [image.code[i] EXCEPT !.imm = kNvApiAda]
<1>1. CASE i \notin written
  BY <1>1 DEF PatchingInv, TypeOK, Rewritten
<1>2. CASE i \in written
  <2>1. PICK r \in Planned : r.at = i /\ code[i] = r.as
    BY <1>2 DEF PatchingInv, TypeOK, Rewritten
  <2>2. IsGate(image.code, r.at) /\ r.as = [image.code[r.at] EXCEPT !.imm = kNvApiAda]
    BY <2>1, RuntimePlan DEF PatchingInv, TypeOK
  <2> QED
    BY <2>1, <2>2
<1> QED
  BY <1>1, <1>2

\* The reader of a comparison stays as it is.
LEMMA ReaderStays ==
    ASSUME PatchingInv, image.kind = "runtime", NEW i \in Comparisons
    PROVE  /\ i + 1 \in DOMAIN image.code /\ code[i + 1] = image.code[i + 1]
           /\ ConditionTested(image.code, i + 1) = FromConditionCode(Reader(i))
           /\ Reader(i) \in 0..15
<1>1. /\ i + 1 \in DOMAIN image.code
      /\ image.code[i + 1].op \in {"jcc", "setcc", "cmovcc"}
      /\ ConditionTested(image.code, i + 1) = FromConditionCode(Reader(i))
  BY DEF Comparisons, ConditionTested, Decodes, Reader
<1>2. code[i + 1] = image.code[i + 1]
  BY <1>1, RuntimeRewritten DEF IsGate
<1>3. image.code[i + 1] \in Instructions
  BY <1>1, ImageTyped, Places DEF PatchingInv, TypeOK
<1>4. Reader(i) \in 0..15
  BY <1>1, <1>3 DEF Instructions, Reader
<1> QED
  BY <1>1, <1>2, <1>4

LEMMA EqualityCodes == FromConditionCode(4) = "Equality" /\ FromConditionCode(5) = "Equality"
<1> DEFINE ordering == {2, 3, 6, 7, 12, 13, 14, 15}
<1>1. 4 \notin ordering /\ 5 \notin ordering
  OBVIOUS
<1> QED
  BY <1>1 DEF FromConditionCode

\* A comparison that is read for equality, or that decides another capability and publishes
\* it, is never moved (FindMultiFrameGates): before, between and after the writes, which may
\* fail, it answers as it was built to.
THEOREM OtherAnswersStayAlways == Spec => []OtherAnswersStay
<1> SUFFICES PatchingInv => OtherAnswersStay
  BY PatchingHolds, PTL
<1> SUFFICES ASSUME PatchingInv, image.kind = "runtime",
                    NEW i \in Comparisons, NEW a \in Architectures,
                    Reader(i) \in {4, 5} \/ image.code[i].decides = "another capability"
             PROVE  Answer(code, i, a) = Answer(image.code, i, a)
  BY DEF OtherAnswersStay
<1>1. i \in DOMAIN image.code /\ image \in Images
  BY DEF Comparisons, PatchingInv, TypeOK
<1>2. ~IsGate(image.code, i)
  <2> SUFFICES ASSUME IsGate(image.code, i) PROVE FALSE
    OBVIOUS
  <2>1. /\ image.code[i].op = "cmp" /\ image.code[i].imm = kNvApiBlackwell
        /\ ConditionTested(image.code, i + 1) = "Ordering"
        /\ PublishedParameter(image.code, i + 1) \in {"", kMultiFrameParameter}
    BY DEF IsGate
  <2>2. Reader(i) \notin {4, 5}
    <3>1. FromConditionCode(Reader(i)) = "Ordering"
      BY <2>1, ReaderStays
    <3>2. FromConditionCode(4) = "Equality" /\ FromConditionCode(5) = "Equality"
      BY EqualityCodes
    <3> HIDE DEF Reader
    <3> QED
      BY <3>1, <3>2
  <2>3. PICK name \in Parameters \ {kMultiFrameParameter, ""} : Publishes(image.code, i, name)
    BY <1>1, <2>1, <2>2, BuildsAssumption
  <2>4. i \in Nat
    BY <1>1, ImageTyped, Places
  <2>5. PublishedParameter(image.code, i + 1) = name
    BY <2>3, <2>4, PublishedIs
  <2> QED
    BY <2>1, <2>3, <2>5
<1>3. code[i] = image.code[i]
  BY <1>1, <1>2, RuntimeRewritten
<1> QED
  BY <1>3, ReaderStays DEF Answer

\* A floor answers Ada, once it is moved there, as it answered Blackwell.
LEMMA MovedFloor ==
    ASSUME NEW a \in Architectures, NEW condition \in AtOrAbove
    PROVE  Holds(condition, a, kNvApiAda)
             = Holds(condition, IF a = kNvApiAda THEN kNvApiBlackwell ELSE a, kNvApiBlackwell)
<1>1. a \in Nat /\ (a <= 400 \/ a >= 432)
  <2>1. a \in Nat /\ Architectures \cap 400..432 = {400, 432}
    BY CodePatchingAssumption DEF kNvApiAda, kNvApiBlackwell
  <2>2. a \in 400..432 => a \in {400, 432}
    BY <2>1, Zenon
  <2> QED
    BY <2>1, <2>2
<1>2. \A b, n \in Nat :
        /\ Holds(2, b, n) = (b < n)
        /\ Holds(3, b, n) = ~(b < n)
        /\ Holds(12, b, n) = (b < n)
        /\ Holds(13, b, n) = ~(b < n)
  BY DEF Holds
<1>3. condition = 2 \/ condition = 3 \/ condition = 12 \/ condition = 13
  BY DEF AtOrAbove
<1> QED
  BY <1>1, <1>2, <1>3 DEF kNvApiAda, kNvApiBlackwell

\* multi_frame_unlocked without a warning means that every gate has been moved, whatever
\* writes failed meanwhile: each floor of the frame count takes Ada for Blackwell, and
\* nothing below Ada for either (UnlockMultiFrame).
THEOREM AdaCountsAsBlackwellAlways == Spec => []AdaCountsAsBlackwell
<1> SUFFICES PatchingInv => AdaCountsAsBlackwell
  BY PatchingHolds, PTL
<1> SUFFICES ASSUME PatchingInv, image.kind = "runtime", report = "info",
                    NEW i \in Comparisons, NEW a \in Architectures,
                    image.code[i].decides = "frame count", Reader(i) \in AtOrAbove,
                    image.code[i].imm = kNvApiBlackwell
             PROVE  Answer(code, i, a) =
                      Answer(image.code, i, IF a = kNvApiAda THEN kNvApiBlackwell ELSE a)
  BY DEF AdaCountsAsBlackwell
<1>1. i \in DOMAIN image.code /\ image.code[i].op = "cmp" /\ image \in Images
  BY DEF Comparisons, PatchingInv, TypeOK
<1>2. i \in Nat /\ image.code[i] \in Instructions
  BY <1>1, ImageTyped, Places
<1>3. ConditionTested(image.code, i + 1) = "Ordering"
  BY ReaderStays DEF AtOrAbove, FromConditionCode
<1>4. PublishedParameter(image.code, i + 1) \in {"", kMultiFrameParameter}
  <2>1. \A name \in Parameters : Publishes(image.code, i, name) => name = kMultiFrameParameter
    BY <1>1, <1>3, BuildsAssumption
  <2> QED
    BY <1>2, <2>1, PublishedIs
<1>5. IsGate(image.code, i)
  BY <1>1, <1>3, <1>4 DEF IsGate
<1>6. i \in written
  <2>1. Rewrites # <<>> /\ \A r \in ToSet(Rewrites) : r.at \in written
    BY DEF PatchingInv, Reported
  <2>2. Planned = ToSet(Rewrites) /\ \E r \in Planned : r.at = i
    BY <1>1, <1>5, <2>1, RuntimePlan
  <2> QED
    BY <2>1, <2>2
<1>7. code[i] = [image.code[i] EXCEPT !.imm = kNvApiAda]
  BY <1>1, <1>6, RuntimeRewritten
<1>8. code[i].imm = kNvApiAda
  BY <1>1, <1>2, <1>7 DEF Instructions
<1>9. /\ Answer(code, i, a) = Holds(Reader(i), a, kNvApiAda)
      /\ \A b : Answer(image.code, i, b) = Holds(Reader(i), b, kNvApiBlackwell)
  BY <1>8, ReaderStays DEF Answer, Reader
<1> QED
  BY <1>9, MovedFloor

\* Where a plugin has been rewritten, a store of the flag turns metering off or the clamp is
\* gone.
LEMMA PluginRewritten ==
    ASSUME PatchingInv, image.kind = "plugin", NEW i \in DOMAIN image.code,
           NEW flip, flip = AnalyzeFlipMetering(image.code, image.forced)
    PROVE  \/ code[i] = image.code[i] /\ i \notin written
           \/ /\ flip.found /\ OnStore(image.code, flip.flag.displacement, flip.off_value, i)
              /\ code[i] = [image.code[i] EXCEPT !.value = flip.off_value]
           \/ /\ flip.found /\ image.code[i].op = "register store" /\ image.code[i].field = flip.flag
              /\ code[i] = StoreByte(flip.flag.base, flip.flag.displacement, flip.off_value)
           \/ image.code[i].op = "clamp" /\ code[i].op = "unclamped"
<1>1. image \in Images
  BY DEF PatchingInv, TypeOK
<1>2. CASE i \notin written
  BY <1>2 DEF PatchingInv, TypeOK, Rewritten
<1>3. CASE i \in written
  <2>1. PICK r \in Planned : r.at = i /\ code[i] = r.as
    BY <1>3 DEF PatchingInv, TypeOK, Rewritten
  <2>2. CASE r \in ToSet(Rewrites)
    <3>1. /\ flip.found
          /\ \/ /\ OnStore(image.code, flip.flag.displacement, flip.off_value, r.at)
                /\ r.as = [image.code[r.at] EXCEPT !.value = flip.off_value]
             \/ IsReencoded(image.code, flip.flag, flip.off_value, r)
      BY <1>1, <2>2, PluginPlan
    <3> QED
      BY <2>1, <3>1 DEF IsReencoded
  <2>3. CASE r \in ToSet(Clamps)
    <3>1. image.code[r.at].op = "clamp" /\ r.as.op = "unclamped"
      BY <1>1, <2>3, PluginPlan
    <3> QED
      BY <2>1, <3>1
  <2> QED
    BY <2>2, <2>3 DEF Planned
<1> QED
  BY <1>2, <1>3

\* What a rewrite of a plugin leaves as it was: what ends a scan, and what stores the flag.
LEMMA ScanStays ==
    ASSUME PatchingInv, image.kind = "plugin", NEW i \in DOMAIN image.code,
           NEW flip, flip = AnalyzeFlipMetering(image.code, image.forced), flip.found
    PROVE  /\ code[i].op \in {"ret", "jmp", "bad"} <=> image.code[i].op \in {"ret", "jmp", "bad"}
           /\ (code[i].op \in {"store", "register store"} /\ code[i].field = flip.flag)
                <=> (/\ image.code[i].op \in {"store", "register store"}
                     /\ image.code[i].field = flip.flag)
<1>1. image.code \in Seq(Instructions) /\ image.forced \in {-1, 0, 1}
  BY ImageTyped DEF PatchingInv, TypeOK
<1>2. image.code[i] \in Instructions
  BY <1>1, Places
<1>3. flip.flag \in Fields
  BY <1>1, FlipRewritten DEF FlipDone
<1>4. CASE code[i] = image.code[i]
  BY <1>4
<1>5. CASE /\ image.code[i].op = "store"
           /\ code[i] = [image.code[i] EXCEPT !.value = flip.off_value]
  <2>1. code[i].op = "store" /\ code[i].field = image.code[i].field
    BY <1>2, <1>5 DEF Instructions
  <2> QED
    BY <1>5, <2>1
<1>6. CASE /\ image.code[i].op = "register store" /\ image.code[i].field = flip.flag
           /\ code[i] = StoreByte(flip.flag.base, flip.flag.displacement, flip.off_value)
  <2>1. flip.flag = [base |-> flip.flag.base, displacement |-> flip.flag.displacement]
    BY <1>3 DEF Fields
  <2>2. /\ code[i].op = "store"
        /\ code[i].field = [base |-> flip.flag.base, displacement |-> flip.flag.displacement]
    <3>1. \A b, d, v : /\ StoreByte(b, d, v).op = "store"
                       /\ StoreByte(b, d, v).field = [base |-> b, displacement |-> d]
      BY DEF StoreByte
    <3> DEFINE new == StoreByte(flip.flag.base, flip.flag.displacement, flip.off_value)
    <3>2. new.op = "store"
      BY <3>1
    <3>3. new.field = [base |-> flip.flag.base, displacement |-> flip.flag.displacement]
      BY <3>1
    <3>4. code[i] = new
      BY <1>6
    <3> HIDE DEF new
    <3> QED
      BY <3>2, <3>3, <3>4
  <2> QED
    BY <1>6, <2>1, <2>2
<1>7. CASE image.code[i].op = "clamp" /\ code[i].op = "unclamped"
  BY <1>7
<1> QED
  BY <1>4, <1>5, <1>6, <1>7, PluginRewritten DEF OnStore

\* The i-th instruction stores the flag, and is reached from the one at r.
Reaches(flag, r, i) ==
    /\ i \in r..r + kInstructionsAfterModelVersion - 1
    /\ code[i].op \in {"store", "register store"} /\ code[i].field = flag
    /\ \A j \in r..i : code[j].op \notin {"ret", "jmp", "bad"}

\* The stores that are reached are those that the analysis finds, before and after they are
\* rewritten.
LEMMA ReachedAreSites ==
    ASSUME PatchingInv, image.kind = "plugin",
           NEW flip, flip = AnalyzeFlipMetering(image.code, image.forced), flip.found,
           NEW r \in FindReferences(image.code, kModelVersionParameter)
    PROVE  \A i \in DOMAIN code :
             Reaches(flip.flag, r, i) <=> i \in ModelStores(image.code, flip.flag)[r]
<1> DEFINE c == image.code
           n == kInstructionsAfterModelVersion
           Ends(op) == op \in {"ret", "jmp", "bad"}
           Stores(instruction) ==
             instruction.op \in {"store", "register store"} /\ instruction.field = flip.flag
<1> SUFFICES ASSUME NEW i \in DOMAIN code
             PROVE  Reaches(flip.flag, r, i) <=> i \in ModelStores(c, flip.flag)[r]
  OBVIOUS
<1>1. DOMAIN code = DOMAIN c /\ c \in Seq(Instructions)
  BY ImageTyped DEF PatchingInv, TypeOK
<1>2. r \in DOMAIN c /\ DOMAIN c = 1..Len(c) /\ Len(c) \in Nat
  <2>1. DOMAIN c = 1..Len(c) /\ Len(c) \in Nat
    <3> HIDE DEF Instructions
    <3> QED
      BY <1>1
  <2> QED
    BY <2>1 DEF FindReferences
<1>3. \A j \in r..i : j \in DOMAIN c
  BY <1>1, <1>2
<1>4. \A j \in DOMAIN c : (Ends(code[j].op) <=> Ends(c[j].op)) /\ (Stores(code[j]) <=> Stores(c[j]))
  BY ScanStays
<1>5. Reaches(flip.flag, r, i)
        <=> i \in r..r+n-1 /\ Stores(c[i]) /\ \A j \in r..i : ~Ends(c[j].op)
  BY <1>1, <1>3, <1>4 DEF Reaches
<1>6. i \in ModelStores(c, flip.flag)[r]
        <=> /\ i \in r..r+n-1 /\ \A j \in r..i : Decodes(c, j)
            /\ \A j \in r..i : ~IsReturnOrJump(c[j])
            /\ Stores(c[i])
  <2>1. ModelStores(c, flip.flag)[r] = {j \in StraightLine(c, r) : Stores(c[j])}
    BY DEF ModelStores
  <2> HIDE DEF Stores
  <2> QED
    BY <2>1 DEF StraightLine, Window
<1>7. \A j \in r..i : ~Ends(c[j].op) <=> Decodes(c, j) /\ ~IsReturnOrJump(c[j])
  BY <1>3 DEF Decodes, IsReturnOrJump
<1> HIDE DEF Ends, Stores, c, n
<1> QED
  BY <1>5, <1>6, <1>7 DEF c

\* Of those, the one that ModelVersionStores looks at is the one that is found.
LEMMA ModelStoreFound ==
    ASSUME PatchingInv, image.kind = "plugin",
           NEW flip, flip = AnalyzeFlipMetering(image.code, image.forced), flip.found,
           NEW i \in ModelVersionStores(flip.flag)
    PROVE  LET sites == ModelStores(image.code, flip.flag) IN
           /\ ~NoSite(sites) /\ i = FirstSite(sites) /\ i \in DOMAIN image.code
           /\ image.code[i].op \in {"store", "register store"} /\ image.code[i].field = flip.flag
<1> DEFINE sites == ModelStores(image.code, flip.flag)
           references == FindReferences(image.code, kModelVersionParameter)
           first == FirstSite(sites)
<1>1. image.code \in Seq(Instructions) /\ DOMAIN code = DOMAIN image.code
  BY ImageTyped DEF PatchingInv, TypeOK
<1>2. PICK q \in references :
        /\ i \in DOMAIN code /\ Reaches(flip.flag, q, i)
        /\ \A r \in references, j \in DOMAIN code :
             Reaches(flip.flag, r, j) => q <= r /\ (q = r => i <= j)
  <2> DEFINE pairs == {p \in references \X DOMAIN code : Reaches(flip.flag, p[1], p[2])}
  <2>1. ModelVersionStores(flip.flag)
          = {p[2] : p \in {q \in pairs :
               \A o \in pairs : q[1] <= o[1] /\ (q[1] = o[1] => q[2] <= o[2])}}
    BY DEF ModelVersionStores, Reaches
  <2> HIDE DEF pairs
  <2>2. PICK p \in pairs :
          i = p[2] /\ \A o \in pairs : p[1] <= o[1] /\ (p[1] = o[1] => p[2] <= o[2])
    BY <2>1
  <2>3. p[1] \in references /\ p[2] \in DOMAIN code /\ Reaches(flip.flag, p[1], p[2])
    BY DEF pairs
  <2>4. ASSUME NEW r \in references, NEW j \in DOMAIN code, Reaches(flip.flag, r, j)
        PROVE  p[1] <= r /\ (p[1] = r => p[2] <= j)
    <3>1. <<r, j>> \in pairs
      BY <2>4 DEF pairs
    <3> QED
      BY <2>2, <3>1
  <2> QED
    BY <2>2, <2>3, <2>4
<1>3. DOMAIN sites = references
  BY DEF ModelStores
<1>4. \A r \in references : sites[r] \subseteq DOMAIN code /\ sites[r] \subseteq Nat
  BY <1>1, <1>3, SitesIn
<1>5. references \subseteq Nat
  BY <1>1, <1>3, SitesIn
<1>6. \A r \in references, j \in DOMAIN code : Reaches(flip.flag, r, j) <=> j \in sites[r]
  BY ReachedAreSites
<1>7. i \in sites[q]
  BY <1>2, <1>6
<1>8. /\ i \in DOMAIN image.code
      /\ image.code[i].op \in {"store", "register store"} /\ image.code[i].field = flip.flag
  BY <1>1, <1>2, <1>7 DEF ModelStores
<1> HIDE DEF sites, references
<1>9. ~NoSite(sites)
  BY <1>2, <1>3, <1>7 DEF NoSite
<1>10. PICK r \in references :
         /\ first \in sites[r]
         /\ \A s \in references : sites[s] # {} => r <= s
         /\ \A y \in sites[r] : first <= y
  <2>1. DOMAIN sites \subseteq Nat /\ \A s \in DOMAIN sites : sites[s] \subseteq Nat
    BY <1>3, <1>4, <1>5
  <2> QED
    BY <1>3, <1>9, <2>1, FirstSiteIs
<1>11. r <= q /\ q <= r /\ (q = r => i <= first)
  <2>1. Reaches(flip.flag, r, first) /\ first \in DOMAIN code
    BY <1>4, <1>6, <1>10
  <2> QED
    BY <1>2, <1>7, <1>10, <2>1
<1>12. q = r /\ i = first
  <2>1. q \in Nat /\ r \in Nat
    BY <1>5
  <2>2. q = r
    BY <1>11, <2>1
  <2>3. i <= first /\ first <= i
    BY <1>7, <1>10, <1>11, <2>2
  <2>4. i \in Nat /\ first \in Nat
    BY <1>4, <1>7, <1>10
  <2> QED
    BY <2>2, <2>3, <2>4
<1> QED
  BY <1>8, <1>9, <1>12 DEF sites

\* flip_metering_forced without a warning means what it says (PatchFlipMetering): every
\* store of the on value is rewritten, whatever writes were skipped or failed meanwhile, the
\* store after the model-version check is one of them, is re-encoded or was off, and the
\* later patch of the clamp undoes none of it.
THEOREM InfoMeansOffAlways == Spec => []InfoMeansOff
<1> SUFFICES PatchingInv => InfoMeansOff
  BY PatchingHolds, PTL
<1> SUFFICES ASSUME PatchingInv, image.kind = "plugin", report = "info" PROVE InfoMeansOff
  BY DEF InfoMeansOff
<1> DEFINE c == image.code
           flip == AnalyzeFlipMetering(image.code, image.forced)
           off == flip.off_value
<1>1. image \in Images /\ c \in Seq(Instructions) /\ image.forced \in {-1, 0, 1}
      /\ DOMAIN code = DOMAIN c
  BY ImageTyped DEF PatchingInv, TypeOK
<1>2. /\ Rewrites # <<>> /\ \A r \in ToSet(Rewrites) : r.at \in written
      /\ flip.model_version_store # "unfit"
  BY DEF PatchingInv, Reported
<1> HIDE DEF flip
<1>3. flip = AnalyzeFlipMetering(image.code, image.forced)
  BY DEF flip
<1>4. flip.found /\ Rewrites = flip.rewrites
  BY <1>1, <1>2, <1>3, PluginPlan
<1>5. /\ off \in {0, 1} /\ flip.flag \in Fields
      /\ \E i \in DOMAIN c : c[i].op = "store" /\ c[i].field = flip.flag /\ c[i].value <= 1
      /\ \A i : OnStore(c, flip.flag.displacement, off, i) => i \in written
      /\ \/ NoSite(ModelStores(c, flip.flag))
         \/ c[FirstSite(ModelStores(c, flip.flag))].op = "store"
         \/ FirstSite(ModelStores(c, flip.flag)) \in written
  <2>1. FlipDone(c, flip)
    BY <1>1, <1>3, <1>4, PluginDone
  <2> HIDE DEF c
  <2> QED
    BY <1>2, <1>4, <2>1 DEF FlipDone, ModelStoreDone
<1>6. ASSUME NEW i \in DOMAIN c
      PROVE  \/ code[i] = c[i] /\ i \notin written
             \/ /\ c[i].op = "store" /\ code[i].op = "store" /\ code[i].value = off
             \/ /\ c[i].op = "register store" /\ code[i].op = "store" /\ code[i].value = off
             \/ c[i].op = "clamp" /\ code[i].op = "unclamped"
  <2>1. c[i] \in Instructions
    BY <1>1, Places
  <2>2. OnStore(c, flip.flag.displacement, off, i)
        /\ code[i] = [c[i] EXCEPT !.value = off] =>
          c[i].op = "store" /\ code[i].op = "store" /\ code[i].value = off
    BY <2>1 DEF OnStore, Instructions
  <2>3. code[i] = StoreByte(flip.flag.base, flip.flag.displacement, off) =>
          code[i].op = "store" /\ code[i].value = off
    BY DEF StoreByte
  <2> QED
    BY <1>3, <2>2, <2>3, PluginRewritten
<1>7. ASSUME NEW i \in DOMAIN code, code[i].op = "store",
             code[i].field.displacement = flip.flag.displacement
      PROVE  code[i].value # 1 - off
  <2>1. off # 1 - off
    BY <1>5
  <2>2. CASE code[i] = c[i] /\ i \notin written
    BY <1>1, <1>5, <1>7, <2>2 DEF OnStore
  <2> QED
    BY <1>1, <1>6, <1>7, <2>1, <2>2
<1>8. ASSUME NEW i \in ModelVersionStores(flip.flag)
      PROVE  code[i].op = "store" /\ code[i].value = off
  <2>1. /\ ~NoSite(ModelStores(c, flip.flag)) /\ i = FirstSite(ModelStores(c, flip.flag))
        /\ i \in DOMAIN c
        /\ c[i].op \in {"store", "register store"} /\ c[i].field = flip.flag
    BY <1>3, <1>4, ModelStoreFound
  <2>2. c[i].op = "store" \/ i \in written
    BY <1>5, <2>1
  <2>3. CASE i \in written
    BY <1>6, <2>1, <2>3
  <2>4. CASE code[i] = c[i] /\ c[i].op = "store"
    <3>1. code[i].value # 1 - off
      BY <1>1, <1>7, <2>1, <2>4
    <3>2. c[i].value <= 1
      BY <1>1, <1>5, <2>1, <2>4, BuildsAssumption
    <3>3. c[i] \in Instructions
      BY <1>1, <2>1, Places
    <3>4. c[i].value \in 0..255
      BY <2>4, <3>3 DEF Instructions
    <3>5. \A v \in 0..255, o \in {0, 1} : v <= 1 /\ v # 1 - o => v = o
      OBVIOUS
    <3> QED
      BY <1>5, <2>4, <3>1, <3>2, <3>4, <3>5
  <2> QED
    BY <1>6, <2>1, <2>2, <2>3, <2>4
<1> QED
  BY <1>7, <1>8 DEF InfoMeansOff, flip
=============================================================================
