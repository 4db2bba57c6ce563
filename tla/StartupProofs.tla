----------------------------- MODULE StartupProofs -----------------------------
(***************************************************************************)
(* Proofs about Startup, for any number of processes, whatever the ini     *)
(* file of the folder holds and however many logs are kept.                *)
(***************************************************************************)
EXTENDS Startup, SequenceTheorems, FiniteSetTheorems, WellFoundedInduction, TLAPS

USE StartupAssumption

-----------------------------------------------------------------------------
(* Reading the ini file line by line. *)

\* Some number is the least of a set.
LEMMA Least ==
    ASSUME NEW S \in SUBSET Nat, S # {}
    PROVE  \E x \in S : \A y \in S : x <= y
<1>1. PICK x \in S : \A y \in S : ~(<<y, x>> \in OpToRel(<, Nat))
  BY NatLessThanWellFounded, WFMin, Zenon
<1>2. \A y \in S : ~(y < x)
  BY <1>1, Zenon DEF OpToRel
<1> QED
  BY <1>2

\* Load goes on from what it has made of the lines before, at whichever line.
LEMMA ReadingIs ==
    ASSUME NEW lines, NEW n \in Nat, Len(lines) = n
    PROVE  LET read == Reading(lines) IN
           /\ read[0] = [section |-> NoText, values |-> <<>>]
           /\ \A i \in 1..n : read[i] = ReadLine(read[i - 1], lines[i])
<1> DEFINE start == [section |-> NoText, values |-> <<>>]
           After(g, i) == IF i = 0 THEN start ELSE ReadLine(g[i - 1], lines[i])
           reads(m) == \E g : g = [i \in 0..m |-> After(g, i)]
           bad == {m \in 0..n : ~reads(m)}
<1> HIDE DEF start
<1>1. bad = {}
  <2> SUFFICES ASSUME bad # {} PROVE FALSE
    OBVIOUS
  <2>1. PICK m \in bad : \A k \in bad : m <= k
    <3>1. bad \in SUBSET Nat
      OBVIOUS
    <3> HIDE DEF bad
    <3> QED
      BY <3>1, Least
  <2>2. CASE m = 0
    <3> DEFINE g == [i \in 0..0 |-> start]
    <3>1. g = [i \in 0..0 |-> After(g, i)]
      OBVIOUS
    <3>2. reads(0)
      BY <3>1
    <3> QED
      BY <2>2, <3>2
  <2>3. CASE m # 0
    <3>1. m - 1 \in 0..n /\ m \in 1..n
      BY <2>3
    <3>2. m - 1 \notin bad
      BY <2>1, <3>1
    <3>3. PICK g : g = [i \in 0..m - 1 |-> After(g, i)]
      BY <3>1, <3>2
    <3> DEFINE h == [i \in 0..m |-> IF i = m THEN ReadLine(g[m - 1], lines[m]) ELSE g[i]]
    <3>4. ASSUME NEW i \in 0..m PROVE h[i] = After(h, i)
      <4>1. CASE i = 0
        <5>1. h[i] = g[i] /\ g[i] = After(g, i)
          BY <2>3, <3>1, <3>3, <4>1
        <5> QED
          BY <4>1, <5>1
      <4>2. CASE i # 0 /\ i # m
        <5>1. i \in 0..m - 1 /\ i - 1 \in 0..m /\ i - 1 # m
          BY <3>1, <4>2
        <5>2. h[i] = g[i] /\ h[i - 1] = g[i - 1]
          BY <4>2, <5>1
        <5>3. g[i] = ReadLine(g[i - 1], lines[i])
          BY <3>3, <4>2, <5>1
        <5> QED
          BY <4>2, <5>2, <5>3
      <4>3. CASE i = m
        <5>1. i - 1 \in 0..m /\ i - 1 # m
          BY <3>1, <4>3
        <5>2. h[i] = ReadLine(g[m - 1], lines[m]) /\ h[i - 1] = g[i - 1]
          BY <4>3, <5>1
        <5> QED
          BY <2>3, <4>3, <5>2
      <4> QED
        BY <4>1, <4>2, <4>3
    <3>5. h = [i \in 0..m |-> After(h, i)]
      BY <3>4
    <3>6. reads(m)
      BY <3>5
    <3> QED
      BY <3>6
  <2> QED
    BY <2>2, <2>3
<1>2. reads(n)
  <2>1. n \in 0..n
    OBVIOUS
  <2> HIDE DEF reads
  <2> QED
    BY <1>1, <2>1
<1> DEFINE read == Reading(lines)
<1>3. read = [i \in 0..n |-> After(read, i)]
  BY <1>2 DEF Reading, start
<1> HIDE DEF read
<1>4. read[0] = start /\ \A i \in 1..n : read[i] = ReadLine(read[i - 1], lines[i])
  BY <1>3
<1> QED
  BY <1>4 DEF read, start

\* `next` is what has been read, after one more line.
WithLine(ini, line, next) ==
    /\ next = [section |-> next.section, values |-> next.values]
    /\ next.section = IF line.kind = "section" THEN line.name ELSE ini.section
    /\ ~(line.kind = "pair" /\ line.key # NoText) => next.values = ini.values
    /\ line.kind = "pair" /\ line.key # NoText =>
         /\ DOMAIN next.values = DOMAIN ini.values \cup {<<ini.section, line.key>>}
         /\ \A x \in DOMAIN next.values :
              next.values[x] = IF x = <<ini.section, line.key>> THEN line.value
                               ELSE ini.values[x]

\* That is what Load makes of it.
LEMMA LineRead ==
    ASSUME NEW ini, ini = [section |-> ini.section, values |-> ini.values],
           NEW line \in Lines
    PROVE  WithLine(ini, line, ReadLine(ini, line))
BY DEF ReadLine, WithLine

\* A value of the ini is that of the last pair under its section, wherever sections are
\* opened again, and is missing if there is none.
LEMMA LoadedIs ==
    ASSUME NEW lines \in Seq(Lines), NEW section, NEW key, section # NoText, key # NoText
    PROVE  LET given == Given(lines, section, key)
               values == Load(lines)
               x == <<section, key>>
           IN \/ given = {} /\ x \notin DOMAIN values
              \/ \E i \in given : /\ \A j \in given : j <= i
                                  /\ x \in DOMAIN values /\ values[x] = lines[i].value
<1> DEFINE n == Len(lines)
           read == Reading(lines)
           x == <<section, key>>
           Under(i) == \E j \in 1..i : /\ lines[j] = Section(section)
                                      /\ \A k \in j + 1..i : lines[k].kind # "section"
           Gives(i) == lines[i].kind = "pair" /\ lines[i].key = key /\ Under(i - 1)
           Final(i) == \E j \in 1..i : /\ Gives(j) /\ \A k \in 1..i : Gives(k) => k <= j
                                     /\ x \in DOMAIN read[i].values
                                     /\ read[i].values[x] = lines[j].value
           None(i) == (\A j \in 1..i : ~Gives(j)) /\ x \notin DOMAIN read[i].values
           Good(i) == /\ read[i] = [section |-> read[i].section, values |-> read[i].values]
                      /\ read[i].section = section <=> Under(i)
                      /\ None(i) \/ Final(i)
           bad == {i \in 0..n : ~Good(i)}
<1>1. n \in Nat /\ \A i \in 1..n : lines[i] \in Lines
  OBVIOUS
<1>2. /\ read[0] = [section |-> NoText, values |-> <<>>]
      /\ \A i \in 1..n : read[i] = ReadLine(read[i - 1], lines[i])
  BY <1>1, ReadingIs
<1> HIDE DEF n, read
<1>3. Good(0)
  BY <1>2
<1>4. ASSUME NEW i \in 1..n, Good(i - 1) PROVE Good(i)
  <2> DEFINE line == lines[i]
             ini == read[i - 1]
  <2>1. i - 1 \in Nat /\ line \in Lines
    BY <1>1
  <2>2. Under(i) <=> \/ line = Section(section)
                     \/ line.kind # "section" /\ Under(i - 1)
    <3>1. \A k \in i + 1..i : FALSE
      BY <1>1
    <3>2. line = Section(section) => Under(i)
      BY <3>1
    <3>3. line.kind # "section" /\ Under(i - 1) => Under(i)
      BY <2>1
    <3>4. ASSUME Under(i), line # Section(section)
          PROVE  line.kind # "section" /\ Under(i - 1)
      <4>1. PICK j \in 1..i : /\ lines[j] = Section(section)
                              /\ \A k \in j + 1..i : lines[k].kind # "section"
        BY <3>4
      <4>2. j \in 1..i - 1 /\ i \in j + 1..i /\ \A k \in j + 1..i - 1 : k \in j + 1..i
        BY <2>1, <3>4, <4>1
      <4> QED
        BY <3>4, <4>1, <4>2
    <3> HIDE DEF Under
    <3> QED
      BY <3>2, <3>3, <3>4
  <2>3. WithLine(ini, line, read[i])
    <3>1. ini = [section |-> ini.section, values |-> ini.values]
      BY <1>4
    <3>2. read[i] = ReadLine(ini, line)
      BY <1>2
    <3> HIDE DEF ini, line
    <3> QED
      BY <2>1, <3>1, <3>2, LineRead
  <2>4. line.kind = "section" => (line = Section(section) <=> line.name = section)
    BY <2>1 DEF Lines, Section, Comment
  <2>5. line = Section(section) => line.kind = "section"
    BY DEF Section
  <2> HIDE DEF Under
  <2>6. read[i].section = section <=> Under(i)
    BY <1>4, <2>2, <2>3, <2>4, <2>5 DEF WithLine
  <2>7. CASE Gives(i)
    <3>1. line.kind = "pair" /\ line.key # NoText /\ <<ini.section, line.key>> = x
      BY <1>4, <2>7
    <3>2. x \in DOMAIN read[i].values /\ read[i].values[x] = line.value
      BY <2>3, <3>1 DEF WithLine
    <3>3. \A k \in 1..i : k <= i
      BY <1>1
    <3>4. Final(i)
      BY <2>7, <3>2, <3>3
    <3> QED
      BY <2>3, <2>6, <3>4 DEF WithLine
  <2>8. CASE ~Gives(i)
    <3>1. line.kind = "pair" /\ line.key # NoText => <<ini.section, line.key>> # x
      BY <1>4, <2>8
    <3>2. /\ x \in DOMAIN read[i].values <=> x \in DOMAIN ini.values
          /\ x \in DOMAIN ini.values => read[i].values[x] = ini.values[x]
      BY <2>3, <3>1 DEF WithLine
    <3>3. \A k \in 1..i : k \in 1..i - 1 \/ k = i
      BY <1>1
    <3>4. \A k \in 1..i - 1 : k \in 1..i
      BY <1>1
    <3> HIDE DEF Gives, ini, line, x
    <3>5. None(i - 1) => None(i)
      BY <2>8, <3>2, <3>3 DEF ini
    <3>6. Final(i - 1) => Final(i)
      <4> SUFFICES ASSUME Final(i - 1) PROVE Final(i)
        OBVIOUS
      <4>1. PICK j \in 1..i - 1 : /\ Gives(j) /\ \A k \in 1..i - 1 : Gives(k) => k <= j
                                  /\ x \in DOMAIN ini.values /\ ini.values[x] = lines[j].value
        BY DEF ini
      <4>2. \A k \in 1..i : Gives(k) => k <= j
        BY <2>8, <3>3, <4>1
      <4> QED
        BY <3>2, <3>4, <4>1, <4>2
    <3> QED
      BY <1>4, <2>3, <2>6, <3>5, <3>6 DEF WithLine
  <2> QED
    BY <2>7, <2>8
<1> HIDE DEF Good
<1>5. bad = {}
  <2> SUFFICES ASSUME bad # {} PROVE FALSE
    OBVIOUS
  <2>1. PICK m \in bad : \A k \in bad : m <= k
    <3>1. bad \in SUBSET Nat
      OBVIOUS
    <3> HIDE DEF bad
    <3> QED
      BY <3>1, Least
  <2>2. m \in 1..n /\ m - 1 \in 0..n /\ ~(m <= m - 1)
    BY <1>1, <1>3
  <2>3. Good(m - 1)
    BY <2>1, <2>2
  <2> QED
    BY <1>4, <2>2, <2>3
<1>6. n \in 0..n
  BY <1>1
<1>7. Good(n)
  BY <1>5, <1>6
<1>8. \A i \in 1..n : Gives(i) <=> GivenBy(lines, i, section, key)
  BY DEF GivenBy
<1>9. Given(lines, section, key) = {i \in 1..n : Gives(i)}
  BY <1>8 DEF Given, n
<1>10. Load(lines) = read[n].values
  BY DEF Load, read, n
<1> HIDE DEF Gives, x
<1>11. None(n) \/ Final(n)
  BY <1>7 DEF Good
<1> QED
  BY <1>9, <1>10, <1>11 DEF x

\* What a reader finds is the text that docs/CONFIGURATION.md speaks of.
LEMMA TextIs ==
    ASSUME NEW lines \in Seq(Lines), NEW section, NEW key, section # NoText, key # NoText
    PROVE  /\ Text(Load(lines), <<section, key>>) = GivenText(lines, section, key)
           /\ <<section, key>> \notin DOMAIN Load(lines) => GivenText(lines, section, key) = NoText
<1> DEFINE given == Given(lines, section, key)
           values == Load(lines)
           x == <<section, key>>
<1>1. given \subseteq Nat
  <2>1. DOMAIN lines \subseteq Nat
    OBVIOUS
  <2> QED
    BY <2>1, Zenon DEF Given
<1>2. \/ given = {} /\ x \notin DOMAIN values
      \/ \E i \in given : /\ \A j \in given : j <= i
                          /\ x \in DOMAIN values /\ values[x] = lines[i].value
  BY LoadedIs
<1>3. GivenText(lines, section, key) =
        IF given = {} THEN NoText ELSE lines[CHOOSE i \in given : \A j \in given : j <= i].value
  BY DEF GivenText
<1>4. Text(values, x) = IF x \in DOMAIN values THEN values[x] ELSE NoText
  BY DEF Text
<1> HIDE DEF given, values, x
<1>5. CASE given = {} /\ x \notin DOMAIN values
  BY <1>3, <1>4, <1>5 DEF values, x
<1>6. ASSUME NEW i \in given, \A j \in given : j <= i, x \in DOMAIN values,
             values[x] = lines[i].value
      PROVE  Text(values, x) = GivenText(lines, section, key)
  <2> DEFINE last == CHOOSE k \in given : \A j \in given : j <= k
  <2>1. last \in given /\ \A j \in given : j <= last
    BY <1>6
  <2> HIDE DEF last
  <2>2. last = i
    BY <1>1, <1>6, <2>1
  <2> QED
    BY <1>3, <1>4, <1>6, <2>2 DEF last
<1> QED
  BY <1>2, <1>5, <1>6 DEF values, x

-----------------------------------------------------------------------------
(* The readers. *)

LEMMA NoSwitch == NoText \notin Yes \cup No
BY Zenon DEF NoText, Yes, No

\* A switch.
LEMMA SwitchRead ==
    ASSUME NEW ini, NEW key, NEW default
    PROVE  AsMeant(GetBool(ini, key, default), Text(ini, key), Switch(default))
BY NoSwitch DEF AsMeant, GetBool, Switch, Read, Reject

\* Mode, the only name among them.
LEMMA ModeRead ==
    ASSUME NEW ini, NEW key
    PROVE  AsMeant(ReadMode(ini, key), Text(ini, key), Documented.redirect_runtime[3])
<1>1. NoText \notin {"off", "bundled"}
  BY Zenon DEF NoText
<1> QED
  BY <1>1 DEF AsMeant, ReadMode, Text, Documented, Read, Reject

\* Every documented setting, whatever the file holds.
LEMMA SettingsAsDocumented ==
    ASSUME NEW lines \in Seq(Lines), NEW f \in DOMAIN Documented
    PROVE  AsDocumented(lines, f)
<1> DEFINE ini == Load(lines)
           section == Documented[f][1]
           key == Documented[f][2]
<1>1. NoText \notin {"general", "framegeneration", "compatibility", "kernels", "logging",
                    "runtime"}
      /\ NoText \notin {"enabled", "multiframe", "patchframeclamp", "flipmeteringvalue",
                       "forcemultiplier", "targetsm", "level", "mode"}
  BY Zenon DEF NoText
<1>2. section # NoText /\ key # NoText
  <2>1. section \in {"general", "framegeneration", "compatibility", "kernels", "logging",
                    "runtime"}
    BY DEF Documented
  <2>2. key \in {"enabled", "multiframe", "patchframeclamp", "flipmeteringvalue",
                "forcemultiplier", "targetsm", "level", "mode"}
    BY DEF Documented
  <2> HIDE DEF section, key
  <2> QED
    BY <1>1, <2>1, <2>2, Zenon
<1>3. Text(ini, <<section, key>>) = GivenText(lines, section, key)
  BY <1>2, TextIs
<1>4. AsMeant(FromIni(ini)[f], Text(ini, <<section, key>>), Documented[f][3])
  <2> HIDE DEF ini
  <2>1. CASE f = "enabled"
    BY <2>1, SwitchRead DEF FromIni, Documented
  <2>2. CASE f = "multi_frame"
    BY <2>2, SwitchRead DEF FromIni, Documented
  <2>3. CASE f = "patch_frame_clamp"
    BY <2>3, SwitchRead DEF FromIni, Documented
  <2>4. CASE f = "flip_metering_value"
    <3> DEFINE read == ReadRange(ini, <<section, key>>, -1, -1, 1)
               about == Whole(-1, -1..1)
    <3>1. FromIni(ini)[f] = read /\ Documented[f][3] = about
      BY <2>4 DEF FromIni, Documented
    <3>2. AsMeant(read, Text(ini, <<section, key>>), about)
      <4> HIDE DEF section, key
      <4> QED
        BY SettingsAssumption DEF AsMeant, ReadRange, GetInt, Whole, Read, Reject
    <3> QED
      BY <3>1, <3>2
  <2>5. CASE f = "force_multiplier"
    <3> DEFINE read == ReadOptionalRange(ini, <<section, key>>, 2, 6)
               about == Whole(0, {0} \cup 2..6)
    <3>1. FromIni(ini)[f] = read /\ Documented[f][3] = about
      BY <2>5 DEF FromIni, Documented
    <3>2. AsMeant(read, Text(ini, <<section, key>>), about)
      <4> HIDE DEF section, key
      <4> QED
        BY SettingsAssumption DEF AsMeant, ReadOptionalRange, GetInt, Whole, Read, Reject
    <3> QED
      BY <3>1, <3>2
  <2>6. CASE f = "target_sm"
    <3> DEFINE read == ReadOptionalRange(ini, <<section, key>>, 50, 200)
               about == Whole(0, {0} \cup 50..200)
    <3>1. FromIni(ini)[f] = read /\ Documented[f][3] = about
      BY <2>6 DEF FromIni, Documented
    <3>2. AsMeant(read, Text(ini, <<section, key>>), about)
      <4> HIDE DEF section, key
      <4> QED
        BY SettingsAssumption DEF AsMeant, ReadOptionalRange, GetInt, Whole, Read, Reject
    <3> QED
      BY <3>1, <3>2
  <2>7. CASE f = "log_level"
    <3> DEFINE read == ReadRange(ini, <<section, key>>, 1, 0, 3)
               about == Whole(1, 0..3)
    <3>1. FromIni(ini)[f] = read /\ Documented[f][3] = about
      BY <2>7 DEF FromIni, Documented
    <3>2. AsMeant(read, Text(ini, <<section, key>>), about)
      <4> HIDE DEF section, key
      <4> QED
        BY SettingsAssumption DEF AsMeant, ReadRange, GetInt, Whole, Read, Reject
    <3> QED
      BY <3>1, <3>2
  <2>8. CASE f = "redirect_runtime"
    BY <2>8, ModeRead DEF FromIni, Documented
  <2> QED
    BY <2>1, <2>2, <2>3, <2>4, <2>5, <2>6, <2>7, <2>8 DEF Documented
<1> QED
  BY <1>3, <1>4 DEF AsDocumented

-----------------------------------------------------------------------------
(* Lists of files. *)

\* A file that is listed once is gone from the list, and the others stay in order.
LEMMA RemoveOne ==
    ASSUME NEW S, NEW files \in Seq(S), Distinct(files), NEW i \in 1..Len(files)
    PROVE  RemoveFirst(files, files[i])
             = SubSeq(files, 1, i - 1) \o SubSeq(files, i + 1, Len(files))
<1> DEFINE I == {k \in 1..Len(files) : files[k] = files[i]}
<1>1. I = {i}
  BY DEF Distinct
<1>2. Min(I) = i
  BY <1>1 DEF Min
<1>3. SelectInSeq(files, LAMBDA v : v = files[i]) = i
  BY <1>1, <1>2 DEF SelectInSeq
<1> QED
  BY <1>3 DEF RemoveFirst, RemoveAt

\* The same, place by place.
LEMMA RemovedPlaces ==
    ASSUME NEW S, NEW files \in Seq(S), Distinct(files), NEW i \in 1..Len(files),
           NEW rest, rest = RemoveFirst(files, files[i])
    PROVE  /\ rest \in Seq(S)
           /\ Len(rest) = Len(files) - 1
           /\ \A k \in 1..Len(rest) : rest[k] = IF k < i THEN files[k] ELSE files[k + 1]
<1> DEFINE a == SubSeq(files, 1, i - 1)
           b == SubSeq(files, i + 1, Len(files))
<1>1. Len(files) \in Nat /\ i \in Int /\ \A k \in 1..Len(files) : files[k] \in S
  OBVIOUS
<1>2. /\ a \in Seq(S) /\ Len(a) = i - 1
      /\ \A k \in 1..(i - 1) : a[k] = files[k]
  BY <1>1, SubSeqProperties
<1>3. /\ b \in Seq(S) /\ Len(b) = Len(files) - i
      /\ \A k \in 1..(Len(files) - i) : b[k] = files[k + i]
  BY <1>1, SubSeqProperties
<1>4. rest = a \o b
  BY RemoveOne
<1>5. /\ a \o b \in Seq(S) /\ Len(a \o b) = Len(a) + Len(b)
      /\ \A k \in 1..(Len(a) + Len(b)) : (a \o b)[k] = IF k <= Len(a) THEN a[k] ELSE b[k - Len(a)]
  BY <1>2, <1>3, ConcatProperties
<1> HIDE DEF a, b
<1>6. Len(rest) = Len(files) - 1 /\ Len(a) + Len(b) = Len(files) - 1
  BY <1>1, <1>2, <1>3, <1>4, <1>5
<1>7. ASSUME NEW k \in 1..Len(rest)
      PROVE  rest[k] = IF k < i THEN files[k] ELSE files[k + 1]
  <2>1. rest[k] = IF k <= i - 1 THEN a[k] ELSE b[k - (i - 1)]
    BY <1>1, <1>2, <1>4, <1>5, <1>6
  <2>2. CASE k < i
    BY <1>1, <1>2, <1>6, <2>1, <2>2
  <2>3. CASE ~(k < i)
    <3>1. k - (i - 1) \in 1..(Len(files) - i) /\ k - (i - 1) + i = k + 1
      BY <1>1, <1>6, <2>3
    <3>2. b[k - (i - 1)] = files[k + 1]
      BY <1>3, <3>1
    <3> QED
      BY <1>1, <2>1, <2>3, <3>2
  <2> QED
    BY <2>2, <2>3
<1> QED
  BY <1>4, <1>5, <1>6, <1>7

\* A list without a file has the other files, each once.
LEMMA RemovedFiles ==
    ASSUME NEW S, NEW files \in Seq(S), Distinct(files), NEW file
    PROVE  /\ RemoveFirst(files, file) \in Seq(S)
           /\ Distinct(RemoveFirst(files, file))
           /\ ToSet(RemoveFirst(files, file)) = ToSet(files) \ {file}
<1>1. CASE file \notin ToSet(files)
  <2>1. ~\E i \in 1..Len(files) : files[i] = file
    BY <1>1 DEF ToSet
  <2>2. RemoveFirst(files, file) = files
    BY <2>1 DEF RemoveFirst
  <2> QED
    BY <1>1, <2>2
<1>2. ASSUME NEW i \in 1..Len(files), file = files[i]
      PROVE  /\ RemoveFirst(files, file) \in Seq(S)
             /\ Distinct(RemoveFirst(files, file))
             /\ ToSet(RemoveFirst(files, file)) = ToSet(files) \ {file}
  <2> DEFINE rest == RemoveFirst(files, file)
  <2> HIDE DEF rest
  <2>1. /\ rest \in Seq(S) /\ Len(rest) = Len(files) - 1
        /\ \A k \in 1..Len(rest) : rest[k] = IF k < i THEN files[k] ELSE files[k + 1]
    BY <1>2, RemovedPlaces DEF rest
  <2>2. DOMAIN rest = 1..(Len(files) - 1) /\ DOMAIN files = 1..Len(files) /\ Len(files) \in Nat
    BY <2>1
  <2>3. Distinct(rest)
    <3> SUFFICES ASSUME NEW k \in 1..(Len(files) - 1), NEW m \in 1..(Len(files) - 1), k # m
                 PROVE  rest[k] # rest[m]
      BY <2>2 DEF Distinct
    <3> DEFINE Place(n) == IF n < i THEN n ELSE n + 1
    <3>1. /\ Place(k) \in 1..Len(files) /\ Place(m) \in 1..Len(files)
          /\ Place(k) # Place(m)
      BY <2>2
    <3>2. rest[k] = files[Place(k)] /\ rest[m] = files[Place(m)]
      BY <2>1, <2>2
    <3> HIDE DEF Place
    <3> QED
      BY <2>2, <3>1, <3>2 DEF Distinct
  <2>4. ASSUME NEW f \in ToSet(rest) PROVE f \in ToSet(files) /\ f # file
    <3>1. PICK k \in 1..(Len(files) - 1) : f = rest[k]
      BY <2>2 DEF ToSet
    <3> DEFINE j == IF k < i THEN k ELSE k + 1
    <3>2. j \in 1..Len(files) /\ j # i /\ f = files[j]
      BY <2>1, <2>2, <3>1
    <3> QED
      BY <1>2, <2>2, <3>2 DEF ToSet, Distinct
  <2>5. ASSUME NEW f \in ToSet(files), f # file PROVE f \in ToSet(rest)
    <3>1. PICK j \in 1..Len(files) : f = files[j]
      BY <2>2 DEF ToSet
    <3> DEFINE k == IF j < i THEN j ELSE j - 1
    <3>2. k \in 1..(Len(files) - 1) /\ rest[k] = f
      BY <1>2, <2>1, <2>2, <2>5, <3>1
    <3> QED
      BY <2>2, <3>2 DEF ToSet
  <2> QED
    BY <2>1, <2>3, <2>4, <2>5 DEF rest
<1>3. file \in ToSet(files) => \E i \in 1..Len(files) : file = files[i]
  BY DEF ToSet
<1> QED
  BY <1>1, <1>2, <1>3

\* The first file is gone from the list, and the others follow.
LEMMA RemovedFirst ==
    ASSUME NEW S, NEW files \in Seq(S), Distinct(files), files # <<>>
    PROVE  /\ RemoveFirst(files, files[1]) \in Seq(S)
           /\ Len(RemoveFirst(files, files[1])) = Len(files) - 1
           /\ \A k \in 1..(Len(files) - 1) : RemoveFirst(files, files[1])[k] = files[k + 1]
<1>1. 1 \in 1..Len(files)
  OBVIOUS
<1>2. \A rest : rest = RemoveFirst(files, files[1]) =>
        /\ rest \in Seq(S)
        /\ Len(rest) = Len(files) - 1
        /\ \A k \in 1..Len(rest) : rest[k] = IF k < 1 THEN files[k] ELSE files[k + 1]
  BY <1>1, RemovedPlaces
<1>3. \A k \in 1..(Len(files) - 1) : ~(k < 1)
  OBVIOUS
<1> QED
  BY <1>2, <1>3

\* A file that is put in front of a list without it.
LEMMA InFront ==
    ASSUME NEW S, NEW files \in Seq(S), Distinct(files), NEW file \in S, file \notin ToSet(files)
    PROVE  /\ <<file>> \o files \in Seq(S)
           /\ Distinct(<<file>> \o files)
           /\ ToSet(<<file>> \o files) = ToSet(files) \cup {file}
           /\ RemoveFirst(<<file>> \o files, file) = files
<1> DEFINE all == <<file>> \o files
<1>1. <<file>> \in Seq(S) /\ Len(<<file>>) = 1 /\ <<file>>[1] = file /\ Len(files) \in Nat
  OBVIOUS
<1>2. /\ all \in Seq(S) /\ Len(all) = Len(files) + 1
      /\ all[1] = file /\ \A k \in 1..Len(files) : all[k + 1] = files[k]
  BY <1>1, ConcatProperties
<1> HIDE DEF all
<1>3. DOMAIN all = 1..(Len(files) + 1) /\ DOMAIN files = 1..Len(files)
  BY <1>2
<1>4. \A k \in DOMAIN all : k # 1 => k - 1 \in DOMAIN files /\ all[k] = files[k - 1]
  BY <1>1, <1>2, <1>3
<1>5. Distinct(all)
  <2> SUFFICES ASSUME NEW i \in DOMAIN all, NEW j \in DOMAIN all, all[i] = all[j] PROVE i = j
    BY DEF Distinct
  <2>1. i \in Int /\ j \in Int
    BY <1>3
  <2>2. CASE i # 1 /\ j # 1
    BY <1>4, <2>1, <2>2 DEF Distinct
  <2>3. CASE i = 1 \/ j = 1
    BY <1>2, <1>4, <2>3 DEF ToSet
  <2> QED
    BY <2>2, <2>3
<1>6. ToSet(all) = ToSet(files) \cup {file}
  <2>1. \A f \in ToSet(all) : f \in ToSet(files) \cup {file}
    BY <1>2, <1>4 DEF ToSet
  <2>2. \A f \in ToSet(files) : f \in ToSet(all)
    BY <1>1, <1>2, <1>3 DEF ToSet
  <2>3. file \in ToSet(all)
    BY <1>1, <1>2, <1>3 DEF ToSet
  <2> QED
    BY <2>1, <2>2, <2>3
<1>7. RemoveFirst(all, file) = files
  <2>1. all # <<>> /\ all[1] = file
    BY <1>1, <1>2
  <2>2. /\ RemoveFirst(all, file) \in Seq(S) /\ Len(RemoveFirst(all, file)) = Len(files)
        /\ \A k \in 1..Len(files) : RemoveFirst(all, file)[k] = all[k + 1]
    BY <1>1, <1>2, <1>5, <2>1, RemovedFirst
  <2> QED
    BY <1>2, <2>2, SeqEqual
<1> QED
  BY <1>2, <1>5, <1>6, <1>7 DEF all

\* The first file of the second of two lists is gone from both together.
LEMMA RemovedBetween ==
    ASSUME NEW S, NEW a \in Seq(S), NEW b \in Seq(S), Distinct(a \o b), b # <<>>
    PROVE  RemoveFirst(a \o b, Head(b)) = a \o Tail(b)
<1> DEFINE all == a \o b
           rest == RemoveFirst(all, Head(b))
           wanted == a \o Tail(b)
<1>1. /\ Len(a) \in Nat /\ Len(b) \in Nat \ {0} /\ Head(b) = b[1]
      /\ Tail(b) \in Seq(S) /\ Len(Tail(b)) = Len(b) - 1
      /\ \A k \in 1..(Len(b) - 1) : Tail(b)[k] = b[k + 1]
  BY HeadTailProperties
<1>2. /\ all \in Seq(S) /\ Len(all) = Len(a) + Len(b)
      /\ \A k \in 1..(Len(a) + Len(b)) : all[k] = IF k <= Len(a) THEN a[k] ELSE b[k - Len(a)]
  BY ConcatProperties
<1>3. /\ wanted \in Seq(S) /\ Len(wanted) = Len(a) + Len(b) - 1
      /\ \A k \in 1..(Len(a) + Len(b) - 1) :
           wanted[k] = IF k <= Len(a) THEN a[k] ELSE Tail(b)[k - Len(a)]
  BY <1>1, ConcatProperties
<1>4. Distinct(all)
  OBVIOUS
<1>5. rest = RemoveFirst(all, Head(b))
  OBVIOUS
<1> HIDE DEF all, wanted, rest
<1>6. PICK i \in 1..Len(all) : i = Len(a) + 1 /\ all[i] = Head(b)
  <2>1. /\ Len(a) + 1 \in 1..(Len(a) + Len(b))
        /\ Len(a) + 1 - Len(a) = 1
        /\ ~(Len(a) + 1 <= Len(a))
    BY <1>1
  <2>2. all[Len(a) + 1] = b[Len(a) + 1 - Len(a)]
    BY <1>2, <2>1
  <2>3. all[Len(a) + 1] = Head(b)
    BY <1>1, <2>1, <2>2
  <2> QED
    BY <1>2, <2>1, <2>3
<1>7. \A r : r = RemoveFirst(all, all[i]) =>
        /\ r \in Seq(S) /\ Len(r) = Len(all) - 1
        /\ \A k \in 1..Len(r) : r[k] = IF k < i THEN all[k] ELSE all[k + 1]
  BY <1>2, <1>4, <1>6, RemovedPlaces
<1>8. /\ rest \in Seq(S) /\ Len(rest) = Len(all) - 1
      /\ \A k \in 1..Len(rest) : rest[k] = IF k < i THEN all[k] ELSE all[k + 1]
  BY <1>5, <1>6, <1>7
<1>9. ASSUME NEW k \in 1..Len(rest) PROVE rest[k] = wanted[k]
  <2>1. k \in 1..(Len(a) + Len(b) - 1) /\ k + 1 \in 1..(Len(a) + Len(b)) /\ k \in Int
    BY <1>1, <1>2, <1>8
  <2>2. CASE k <= Len(a)
    <3>1. rest[k] = a[k]
      BY <1>1, <1>2, <1>6, <1>8, <2>1, <2>2
    <3>2. wanted[k] = a[k]
      BY <1>3, <2>1, <2>2
    <3> QED
      BY <3>1, <3>2
  <2>3. CASE ~(k <= Len(a))
    <3>1. k - Len(a) \in 1..(Len(b) - 1) /\ k + 1 - Len(a) = k - Len(a) + 1
      BY <1>1, <2>1, <2>3
    <3>2. rest[k] = b[k - Len(a) + 1]
      <4>1. rest[k] = all[k + 1]
        BY <1>1, <1>6, <1>8, <2>1, <2>3
      <4>2. all[k + 1] = b[k + 1 - Len(a)]
        BY <1>1, <1>2, <2>1, <2>3
      <4> QED
        BY <3>1, <4>1, <4>2
    <3>3. wanted[k] = b[k - Len(a) + 1]
      BY <1>1, <1>3, <2>1, <2>3, <3>1
    <3> QED
      BY <3>2, <3>3
  <2> QED
    BY <2>2, <2>3
<1>10. rest = wanted
  BY <1>1, <1>2, <1>3, <1>8, <1>9, SeqEqual
<1> QED
  BY <1>10 DEF all, rest, wanted

\* A list without repetitions is as long as it has files.
LEMMA DistinctLength ==
    ASSUME NEW S, NEW files \in Seq(S), Distinct(files)
    PROVE  IsFiniteSet(ToSet(files)) /\ Cardinality(ToSet(files)) = Len(files)
<1>1. Len(files) \in Nat /\ DOMAIN files = 1..Len(files)
  OBVIOUS
<1>2. IsFiniteSet(1..Len(files)) /\ Cardinality(1..Len(files)) = Len(files)
  BY <1>1, FS_Interval
<1>3. files \in [1..Len(files) -> ToSet(files)]
  BY <1>1 DEF ToSet
<1>4. files \in Injection(1..Len(files), ToSet(files))
  <2>1. \A i, j \in 1..Len(files) : files[i] = files[j] => i = j
    BY <1>1 DEF Distinct
  <2> QED
    BY <1>3, <2>1 DEF Injection, IsInjective
<1>5. files \in Surjection(1..Len(files), ToSet(files))
  BY <1>1, <1>3 DEF Surjection, ToSet
<1> QED
  BY <1>2, <1>4, <1>5, FS_Bijection DEF Bijection, ExistsBijection

\* Without its files from the k-th on, at most k - 1 are left of a list.
LEMMA FewLeft ==
    ASSUME NEW S, NEW files \in Seq(S), NEW k \in Nat \ {0}
    PROVE  LET left == ToSet(files) \ ToSet(SubSeq(files, k, Len(files)))
           IN  IsFiniteSet(left) /\ Cardinality(left) <= k - 1
<1> DEFINE old == SubSeq(files, k, Len(files))
           first == {i \in 1..(k - 1) : i \in DOMAIN files}
           f == [i \in first |-> files[i]]
           image == {files[i] : i \in first}
<1>1. Len(files) \in Nat /\ k \in Int /\ DOMAIN files = 1..Len(files)
  OBVIOUS
<1>2. /\ old \in Seq(S) /\ Len(old) = IF k <= Len(files) THEN Len(files) - k + 1 ELSE 0
      /\ \A i \in 1..(Len(files) - k + 1) : old[i] = files[k + i - 1]
  BY <1>1, SubSeqProperties
<1>3. IsFiniteSet(1..(k - 1)) /\ Cardinality(1..(k - 1)) = k - 1
  BY <1>1, FS_Interval
<1>4. IsFiniteSet(first) /\ Cardinality(first) <= k - 1 /\ Cardinality(first) \in Nat
  BY <1>3, FS_Subset, FS_CardinalityType
<1>5. f \in Surjection(first, image)
  BY DEF Surjection
<1>6. IsFiniteSet(image) /\ Cardinality(image) <= Cardinality(first)
  BY <1>4, <1>5, FS_Surjection
<1>7. ToSet(files) \ ToSet(old) \subseteq image
  <2> SUFFICES ASSUME NEW i \in DOMAIN files, files[i] \notin ToSet(old) PROVE i < k
    BY <1>1 DEF ToSet
  <2> SUFFICES ASSUME k <= i PROVE FALSE
    BY <1>1
  <2>1. i - k + 1 \in 1..Len(old) /\ old[i - k + 1] = files[i]
    BY <1>1, <1>2
  <2> QED
    BY <1>2, <2>1 DEF ToSet
<1> HIDE DEF image, old
<1>8. /\ IsFiniteSet(ToSet(files) \ ToSet(old))
      /\ Cardinality(ToSet(files) \ ToSet(old)) <= Cardinality(image)
      /\ Cardinality(ToSet(files) \ ToSet(old)) \in Nat /\ Cardinality(image) \in Nat
  BY <1>6, <1>7, FS_Subset, FS_CardinalityType
<1> QED
  BY <1>4, <1>6, <1>8 DEF old

-----------------------------------------------------------------------------
(* The types, and the files that processes have open. *)

\* A process has its log open from the moment it reports its settings, and the file is
\* there: nobody can delete it meanwhile.
LogsOpen ==
    \A p \in Processes : proc[p].log # NoPid =>
        /\ proc[p].log \in ToSet(logs)
        /\ proc[p].stage \in {"report", "disabled", "apply", "run"}

\* A process that runs has an id.
Identified == \A p \in Processes : Running(p) => proc[p].pid \in Pids

Listed == TypeOK /\ Distinct(logs) /\ LogsOpen /\ Identified

\* A line in a log changes the order of the files only.
LEMMA TouchedFiles ==
    ASSUME Listed, NEW p \in Processes
    PROVE  Touched(p) \in Seq(Pids) /\ Distinct(Touched(p)) /\ ToSet(Touched(p)) = ToSet(logs)
<1>1. CASE proc[p].log = NoPid
  BY <1>1 DEF Touched, Listed, TypeOK
<1>2. CASE proc[p].log # NoPid
  <2> DEFINE log == proc[p].log
             rest == RemoveFirst(logs, log)
  <2>1. log \in ToSet(logs) /\ logs \in Seq(Pids) /\ Distinct(logs)
    BY <1>2 DEF Listed, LogsOpen, TypeOK
  <2>2. log \in Pids
    BY <2>1 DEF ToSet
  <2>3. rest \in Seq(Pids) /\ Distinct(rest) /\ ToSet(rest) = ToSet(logs) \ {log}
    BY <2>1, RemovedFiles
  <2> HIDE DEF rest
  <2>4. /\ <<log>> \o rest \in Seq(Pids) /\ Distinct(<<log>> \o rest)
        /\ ToSet(<<log>> \o rest) = ToSet(rest) \cup {log}
    BY <2>2, <2>3, InFront
  <2> QED
    BY <1>2, <2>1, <2>3, <2>4 DEF Touched, rest
<1> QED
  BY <1>1, <1>2

\* What the files are after a step.
LEMMA FilesAfter ==
    ASSUME Listed, [Next]_vars
    PROVE  /\ logs' \in Seq(Pids) /\ Distinct(logs)' /\ UNCHANGED folder
           /\ \A f \in ToSet(logs) : f \in OpenFiles => f \in ToSet(logs')
<1> USE DEF Listed, TypeOK
<1>1. CASE UNCHANGED logs /\ UNCHANGED folder
  BY <1>1 DEF Distinct
<1>2. ASSUME NEW p \in Processes, DeleteOldLog(p)
      PROVE  /\ logs' \in Seq(Pids) /\ Distinct(logs)' /\ UNCHANGED folder
             /\ \A f \in ToSet(logs) : f \in OpenFiles => f \in ToSet(logs')
  <2>1. CASE UNCHANGED logs
    BY <1>1, <1>2, <2>1 DEF DeleteOldLog
  <2>2. CASE ~UNCHANGED logs
    <3> DEFINE file == Head(proc[p].doomed)
    <3>1. logs' = RemoveFirst(logs, file) /\ file \notin OpenFiles /\ UNCHANGED folder
      BY <1>2, <2>2 DEF DeleteOldLog
    <3> HIDE DEF file
    <3>2. /\ logs' \in Seq(Pids) /\ Distinct(RemoveFirst(logs, file))
          /\ ToSet(logs') = ToSet(logs) \ {file}
      BY <3>1, RemovedFiles
    <3> QED
      BY <3>1, <3>2 DEF Distinct
  <2> QED
    BY <2>1, <2>2
<1>3. ASSUME NEW p \in Processes, OpenLog(p)
      PROVE  /\ logs' \in Seq(Pids) /\ Distinct(logs)' /\ UNCHANGED folder
             /\ \A f \in ToSet(logs) : f \in OpenFiles => f \in ToSet(logs')
  <2>1. CASE UNCHANGED logs
    BY <1>1, <1>3, <2>1 DEF OpenLog
  <2>2. CASE ~UNCHANGED logs
    <3>1. ~Contains(logs, proc[p].pid) /\ logs' = <<proc[p].pid>> \o logs /\ UNCHANGED folder
      BY <1>3, <2>2 DEF OpenLog
    <3>2. proc[p].pid \in Pids
      BY <1>3 DEF OpenLog, Step, Identified, Running
    <3>3. proc[p].pid \notin ToSet(logs)
      BY <3>1 DEF Contains, ToSet
    <3>4. /\ logs' \in Seq(Pids) /\ Distinct(<<proc[p].pid>> \o logs)
          /\ ToSet(logs') = ToSet(logs) \cup {proc[p].pid}
      BY <3>1, <3>2, <3>3, InFront
    <3> QED
      BY <3>1, <3>4 DEF Distinct
  <2> QED
    BY <2>1, <2>2
<1>4. ASSUME NEW p \in Processes, ReportSettings(p) \/ WriteEvent(p)
      PROVE  /\ logs' \in Seq(Pids) /\ Distinct(logs)' /\ UNCHANGED folder
             /\ \A f \in ToSet(logs) : f \in OpenFiles => f \in ToSet(logs')
  <2>1. logs' = Touched(p) /\ UNCHANGED folder
    BY <1>4 DEF ReportSettings, WriteEvent
  <2> QED
    BY <2>1, TouchedFiles DEF Distinct
<1>5. ASSUME NEW p \in Processes,
             DllMain(p) \/ FreeLibrary(p) \/ Exit(p) \/ Initialize(p) \/ ListLogs(p) \/ StartEngine(p)
      PROVE  UNCHANGED logs /\ UNCHANGED folder
  BY <1>5 DEF DllMain, FreeLibrary, Exit, Initialize, ListLogs, StartEngine
<1> QED
  BY <1>1, <1>2, <1>3, <1>4, <1>5 DEF Next, vars

\* The engine in a process that has just loaded the DLL.
LEMMA FreshIsTyped ==
    /\ Fresh \in Processing
    /\ \A stage \in Stages, id \in Pids \cup {NoPid}, bound \in BOOLEAN :
         [Fresh EXCEPT !.stage = stage, !.pid = id, !.held = TRUE, !.pinned = TRUE, !.bound = bound]
           \in Processing
<1>1. <<>> \in Seq(Pids) /\ {} \in SUBSET DOMAIN settings /\ "absent" \in Stages
  BY DEF Stages
<1>2. Fresh \in Processing
  BY <1>1 DEF Fresh, Processing
<1>3. ASSUME NEW stage \in Stages, NEW id \in Pids \cup {NoPid}, NEW bound \in BOOLEAN
      PROVE  [Fresh EXCEPT !.stage = stage, !.pid = id, !.held = TRUE, !.pinned = TRUE,
                           !.bound = bound] \in Processing
  BY <1>2 DEF Processing
<1> QED
  BY <1>2, <1>3

\* The two halves of a listing.
LEMMA ListedParts ==
    ASSUME TypeOK
    PROVE  /\ SubSeq(logs, kKeptLogs, Len(logs)) \in Seq(Pids)
           /\ Newest \in Seq(Pids)
           /\ Newest \o SubSeq(logs, kKeptLogs, Len(logs)) = logs
<1> DEFINE shorter == Min({kKeptLogs - 1, Len(logs)})
<1>1. logs \in Seq(Pids) /\ Len(logs) \in Nat /\ kKeptLogs \in Int /\ kKeptLogs >= 1
  BY DEF TypeOK
<1>2. shorter = IF kKeptLogs - 1 <= Len(logs) THEN kKeptLogs - 1 ELSE Len(logs)
  BY <1>1 DEF Min
<1> HIDE DEF shorter
<1>3. SubSeq(logs, kKeptLogs, Len(logs)) \in Seq(Pids) /\ SubSeq(logs, 1, shorter) \in Seq(Pids)
  BY <1>1, <1>2, SubSeqProperties
<1>4. SubSeq(logs, 1, shorter) \o SubSeq(logs, kKeptLogs, Len(logs)) = logs
  <2>1. CASE kKeptLogs - 1 <= Len(logs)
    <3>1. shorter + 1 = kKeptLogs /\ shorter \in 0..Len(logs)
      BY <1>1, <1>2, <2>1
    <3>2. SubSeq(logs, 1, shorter) \o SubSeq(logs, shorter + 1, Len(logs))
            = SubSeq(logs, 1, Len(logs))
      <4>1. /\ 1 \in 1..Len(logs) + 1 /\ shorter \in 1 - 1..Len(logs)
            /\ Len(logs) \in shorter..Len(logs)
        BY <1>1, <3>1
      <4> QED
        BY <1>1, <4>1, ConcatAdjacentSubSeq
    <3> QED
      BY <1>1, <3>1, <3>2, SubSeqFull
  <2>2. CASE ~(kKeptLogs - 1 <= Len(logs))
    <3>1. SubSeq(logs, kKeptLogs, Len(logs)) = <<>> /\ SubSeq(logs, 1, shorter) = logs
      BY <1>1, <1>2, <2>2, SubSeqFull, SubSeqEmpty
    <3> QED
      BY <1>1, <3>1, ConcatEmptySeq
  <2> QED
    BY <2>1, <2>2
<1> QED
  BY <1>3, <1>4 DEF Newest, shorter

LEMMA StepTyped ==
    ASSUME TypeOK, NEW p \in Processes, NEW from, NEW to \in Processing, Step(p, from, to)
    PROVE  proc' \in [Processes -> Processing]
BY DEF TypeOK, Step

\* Every step keeps the types.
LEMMA StepKeepsTypes ==
    ASSUME Listed, [Next]_vars
    PROVE  proc' \in [Processes -> Processing]'
<1>1. UNCHANGED settings
  BY FilesAfter DEF settings
<1>2. Processing' = Processing
  BY <1>1 DEF Processing
<1> SUFFICES proc' \in [Processes -> Processing]
  BY <1>2
<1>3. TypeOK /\ logs \in Seq(Pids) /\ \A q \in Processes : proc[q] \in Processing
  BY DEF Listed, TypeOK
<1>4. <<>> \in Seq(Pids)
  OBVIOUS
<1>5. ASSUME NEW p \in Processes, DllMain(p)
      PROVE  proc' \in [Processes -> Processing]
  <2>1. PICK id \in Pids, next \in {"thread", "inert"} :
          proc' = [q \in Processes |->
                     IF q = p
                     THEN [Fresh EXCEPT !.stage = next, !.pid = id, !.held = TRUE,
                                        !.pinned = Pinned, !.bound = BindActive]
                     ELSE [proc[q] EXCEPT !.alone = FALSE, !.newest = <<>>]]
    BY <1>5 DEF DllMain
  <2>2. [Fresh EXCEPT !.stage = next, !.pid = id, !.held = TRUE, !.pinned = TRUE,
                      !.bound = BindActive] \in Processing
    BY FreshIsTyped DEF BindActive, Stages
  <2>3. ASSUME NEW q \in Processes
        PROVE  [proc[q] EXCEPT !.alone = FALSE, !.newest = <<>>] \in Processing
    BY <1>3, <1>4 DEF Processing
  <2> QED
    BY <2>1, <2>2, <2>3 DEF Pinned
<1>6. ASSUME NEW p \in Processes, FreeLibrary(p)
      PROVE  proc' \in [Processes -> Processing]
  BY <1>3, <1>6 DEF FreeLibrary, TypeOK, Processing
<1>7. ASSUME NEW p \in Processes, Exit(p)
      PROVE  proc' \in [Processes -> Processing]
  BY <1>3, <1>7, FreshIsTyped DEF Exit, TypeOK
<1>8. ASSUME NEW p \in Processes, Initialize(p)
      PROVE  proc' \in [Processes -> Processing]
  <2> DEFINE stage == IF Setting("log_level") = 0 THEN "report" ELSE "list"
  <2>1. stage \in Stages
    BY DEF Stages
  <2>2. [proc[p] EXCEPT !.stage = stage] \in Processing
    BY <1>3, <2>1 DEF Processing
  <2> QED
    BY <1>3, <1>8, <2>2, StepTyped DEF Initialize
<1>9. ASSUME NEW p \in Processes, ListLogs(p)
      PROVE  proc' \in [Processes -> Processing]
  <2> DEFINE doomed == SubSeq(Sorted(logs), FirstOld, Len(logs))
             newest == IF Alone(p) THEN Newest ELSE <<>>
  <2>1. doomed \in Seq(Pids) /\ newest \in Seq(Pids)
    BY <1>3, <1>4, ListedParts DEF Sorted, FirstOld
  <2>2. "prune" \in Stages /\ Alone(p) \in BOOLEAN
    BY DEF Stages, Alone
  <2> HIDE DEF doomed, newest
  <2>3. [proc[p] EXCEPT !.stage = "prune", !.doomed = doomed, !.alone = Alone(p), !.newest = newest]
          \in Processing
    BY <1>3, <2>1, <2>2 DEF Processing
  <2> QED
    BY <1>3, <1>9, <2>3, StepTyped DEF ListLogs, doomed, newest
<1>10. ASSUME NEW p \in Processes, DeleteOldLog(p)
       PROVE  proc' \in [Processes -> Processing]
  <2>1. proc[p].doomed \in Seq(Pids) /\ proc[p].doomed # <<>>
    BY <1>3, <1>10 DEF DeleteOldLog, Processing
  <2>2. Tail(proc[p].doomed) \in Seq(Pids)
    BY <2>1
  <2>3. [proc[p] EXCEPT !.doomed = Tail(proc[p].doomed)] \in Processing
    BY <1>3, <2>2 DEF Processing
  <2>4. Step(p, "prune", [proc[p] EXCEPT !.doomed = Tail(proc[p].doomed)])
    BY <1>10 DEF DeleteOldLog
  <2> QED
    BY <1>3, <2>3, <2>4, StepTyped
<1>11. ASSUME NEW p \in Processes, OpenLog(p)
       PROVE  proc' \in [Processes -> Processing]
  <2>1. "report" \in Stages /\ proc[p].pid \in Pids \cup {NoPid}
    BY <1>3 DEF Stages, Processing
  <2>2. /\ [proc[p] EXCEPT !.stage = "report", !.log = proc[p].pid] \in Processing
        /\ [proc[p] EXCEPT !.stage = "report"] \in Processing
    BY <1>3, <2>1 DEF Processing
  <2> QED
    BY <1>3, <1>11, <2>2, StepTyped DEF OpenLog
<1>12. ASSUME NEW p \in Processes, ReportSettings(p)
       PROVE  proc' \in [Processes -> Processing]
  <2> DEFINE reported == IF proc[p].log = NoPid THEN {} ELSE Rejected
  <2>1. reported \in SUBSET DOMAIN settings /\ AfterReport \in Stages
    BY DEF Rejected, AfterReport, Stages
  <2> HIDE DEF reported
  <2>2. [proc[p] EXCEPT !.stage = AfterReport, !.alone = FALSE, !.newest = <<>>,
                        !.reported = reported] \in Processing
    BY <1>3, <1>4, <2>1 DEF Processing
  <2> QED
    BY <1>3, <1>12, <2>2, StepTyped DEF ReportSettings, reported
<1>13. ASSUME NEW p \in Processes, StartEngine(p)
       PROVE  proc' \in [Processes -> Processing]
  <2>1. PICK exists \in BOOLEAN :
          Step(p, "apply", [proc[p] EXCEPT !.stage = "run",
                                           !.redirect = Setting("redirect_runtime") /\ exists])
    BY <1>13 DEF StartEngine
  <2> DEFINE redirect == Setting("redirect_runtime") /\ exists
  <2>2. redirect \in BOOLEAN /\ "run" \in Stages
    BY DEF Stages
  <2> HIDE DEF redirect
  <2>3. [proc[p] EXCEPT !.stage = "run", !.redirect = redirect] \in Processing
    BY <1>3, <2>2 DEF Processing
  <2> QED
    BY <1>3, <2>1, <2>3, StepTyped DEF redirect
<1>14. CASE UNCHANGED proc
  BY <1>14 DEF Listed, TypeOK
<1> QED
  BY <1>5, <1>6, <1>7, <1>8, <1>9, <1>10, <1>11, <1>12, <1>13, <1>14 DEF Next, WriteEvent, vars

-----------------------------------------------------------------------------
(* What a step changes. *)

\* The process stays the one it is, with or without its log.
Same(p) ==
    /\ proc'[p].pid = proc[p].pid
    /\ proc'[p].pinned = proc[p].pinned
    /\ proc'[p].bound = proc[p].bound

SameLog(p) == Same(p) /\ proc'[p].log = proc[p].log

\* So does what it knows of the other files.
SameList(p) ==
    /\ SameLog(p)
    /\ proc'[p].doomed = proc[p].doomed
    /\ proc'[p].alone = proc[p].alone
    /\ proc'[p].newest = proc[p].newest

\* The other processes are not touched.
Apart(p) == \A q \in Processes \ {p} : proc'[q] = proc[q]

Moves(p, from, to) == proc[p].stage = from /\ proc'[p].stage = to

\* The game's own calls.
LEMMA GameSteps ==
    ASSUME TypeOK, NEW p \in Processes
    PROVE  /\ DllMain(p) =>
                /\ proc[p].stage = "absent" /\ proc'[p].stage \in {"thread", "inert"}
                /\ proc'[p].pid \in Pids /\ proc'[p].log = NoPid
                /\ proc'[p].pinned /\ proc'[p].bound = BindActive /\ ~proc'[p].alone
                /\ \A q \in Processes \ {p} :
                     /\ SameLog(q) /\ proc'[q].stage = proc[q].stage
                     /\ proc'[q].doomed = proc[q].doomed /\ ~proc'[q].alone
                     /\ proc'[q].reported = proc[q].reported
           /\ FreeLibrary(p) =>
                /\ Apart(p) /\ SameList(p) /\ proc'[p].stage = proc[p].stage
                /\ proc'[p].reported = proc[p].reported
           /\ Exit(p) =>
                /\ Apart(p) /\ proc[p].stage # "absent" /\ proc'[p].stage = "absent"
                /\ proc'[p].log = NoPid /\ ~proc'[p].alone
<1>1. proc \in [Processes -> Processing]
  BY DEF TypeOK
<1>2. \A q \in Processes : proc[q] \in Processing
  BY <1>1
<1>3. ASSUME DllMain(p)
      PROVE  /\ proc[p].stage = "absent" /\ proc'[p].stage \in {"thread", "inert"}
             /\ proc'[p].pid \in Pids /\ proc'[p].log = NoPid
             /\ proc'[p].pinned /\ proc'[p].bound = BindActive /\ ~proc'[p].alone
             /\ \A q \in Processes \ {p} :
                  /\ SameLog(q) /\ proc'[q].stage = proc[q].stage
                  /\ proc'[q].doomed = proc[q].doomed /\ ~proc'[q].alone
                  /\ proc'[q].reported = proc[q].reported
  <2>1. PICK id \in Pids, next \in {"thread", "inert"} :
          proc' = [q \in Processes |->
                     IF q = p
                     THEN [Fresh EXCEPT !.stage = next, !.pid = id, !.held = TRUE,
                                        !.pinned = Pinned, !.bound = BindActive]
                     ELSE [proc[q] EXCEPT !.alone = FALSE, !.newest = <<>>]]
    BY <1>3 DEF DllMain
  <2>2. proc'[p] = [Fresh EXCEPT !.stage = next, !.pid = id, !.held = TRUE,
                                 !.pinned = Pinned, !.bound = BindActive]
    BY <2>1
  <2>3. \A q \in Processes \ {p} : proc'[q] = [proc[q] EXCEPT !.alone = FALSE, !.newest = <<>>]
    BY <2>1
  <2>4. /\ proc'[p].stage = next /\ proc'[p].pid = id /\ proc'[p].log = NoPid
        /\ proc'[p].pinned /\ proc'[p].bound = BindActive /\ ~proc'[p].alone
    BY <2>2 DEF Fresh, Pinned
  <2>5. ASSUME NEW q \in Processes \ {p}
        PROVE  /\ SameLog(q) /\ proc'[q].stage = proc[q].stage
               /\ proc'[q].doomed = proc[q].doomed /\ ~proc'[q].alone
               /\ proc'[q].reported = proc[q].reported
    <3>1. proc[q] \in Processing /\ proc'[q] = [proc[q] EXCEPT !.alone = FALSE, !.newest = <<>>]
      BY <1>2, <2>3
    <3> QED
      BY <3>1 DEF Processing, SameLog, Same
  <2> QED
    BY <1>3, <2>4, <2>5 DEF DllMain, Running
<1>4. ASSUME FreeLibrary(p)
      PROVE  /\ Apart(p) /\ SameList(p) /\ proc'[p].stage = proc[p].stage
             /\ proc'[p].reported = proc[p].reported
  <2>1. proc'[p] = [proc[p] EXCEPT !.held = FALSE] /\ Apart(p)
    BY <1>1, <1>4 DEF FreeLibrary, Apart
  <2> QED
    BY <1>2, <2>1 DEF Processing, SameList, SameLog, Same
<1>5. ASSUME Exit(p)
      PROVE  /\ Apart(p) /\ proc[p].stage # "absent" /\ proc'[p].stage = "absent"
             /\ proc'[p].log = NoPid /\ ~proc'[p].alone
  BY <1>1, <1>5 DEF Exit, Running, Apart, Fresh
<1> QED
  BY <1>3, <1>4, <1>5

\* The engine's own steps.
LEMMA StepMoves ==
    ASSUME TypeOK, NEW p \in Processes, NEW from, NEW to, Step(p, from, to)
    PROVE  Apart(p) /\ proc'[p] = to /\ proc[p].stage = from
BY DEF TypeOK, Step, Apart

LEMMA EngineSteps ==
    ASSUME TypeOK, NEW p \in Processes
    PROVE  /\ Initialize(p) =>
                /\ Apart(p) /\ SameList(p)
                /\ proc[p].stage = "thread" /\ proc'[p].stage \in {"report", "list"}
           /\ ListLogs(p) =>
                /\ Apart(p) /\ SameLog(p) /\ Moves(p, "list", "prune")
                /\ proc'[p].doomed = SubSeq(logs, kKeptLogs, Len(logs))
                /\ proc'[p].alone = Alone(p)
                /\ Alone(p) => proc'[p].newest = Newest
           /\ DeleteOldLog(p) =>
                /\ Apart(p) /\ SameLog(p) /\ Moves(p, "prune", "prune")
                /\ proc[p].doomed # <<>> /\ proc'[p].doomed = Tail(proc[p].doomed)
                /\ proc'[p].alone = proc[p].alone /\ proc'[p].newest = proc[p].newest
           /\ OpenLog(p) =>
                /\ Apart(p) /\ Same(p) /\ Moves(p, "prune", "report")
                /\ proc[p].doomed = <<>>
                /\ \/ proc'[p].log = proc[p].log /\ UNCHANGED logs
                   \/ /\ proc'[p].log = proc[p].pid
                      /\ logs' = IF Contains(logs, proc[p].pid) THEN logs
                                ELSE <<proc[p].pid>> \o logs
                /\ proc'[p].alone = proc[p].alone /\ proc'[p].newest = proc[p].newest
           /\ ReportSettings(p) =>
                /\ Apart(p) /\ SameLog(p) /\ proc[p].stage = "report"
                /\ proc'[p].stage \in {"apply", "disabled"} /\ ~proc'[p].alone
                /\ proc'[p].reported = IF proc[p].log = NoPid THEN {} ELSE Rejected
           /\ StartEngine(p) => Apart(p) /\ SameList(p) /\ Moves(p, "apply", "run")
           /\ WriteEvent(p) => UNCHANGED proc
<1>1. proc[p] \in Processing
  BY DEF TypeOK
<1> USE DEF Processing, SameList, SameLog, Same, Moves
<1>2. ASSUME Initialize(p)
      PROVE  /\ Apart(p) /\ SameList(p)
             /\ proc[p].stage = "thread" /\ proc'[p].stage \in {"report", "list"}
  <2> DEFINE stage == IF Setting("log_level") = 0 THEN "report" ELSE "list"
  <2>1. Apart(p) /\ proc[p].stage = "thread" /\ proc'[p] = [proc[p] EXCEPT !.stage = stage]
    BY <1>2, StepMoves DEF Initialize
  <2>2. stage \in {"report", "list"}
    OBVIOUS
  <2> HIDE DEF stage
  <2> QED
    BY <1>1, <2>1, <2>2
<1>3. ASSUME ListLogs(p)
      PROVE  /\ Apart(p) /\ SameLog(p) /\ Moves(p, "list", "prune")
             /\ proc'[p].doomed = SubSeq(logs, kKeptLogs, Len(logs))
             /\ proc'[p].alone = Alone(p)
             /\ Alone(p) => proc'[p].newest = Newest
  <2> DEFINE newest == IF Alone(p) THEN Newest ELSE <<>>
             doomed == SubSeq(Sorted(logs), FirstOld, Len(logs))
  <2>1. /\ Apart(p) /\ proc[p].stage = "list"
        /\ proc'[p] = [proc[p] EXCEPT !.stage = "prune", !.doomed = doomed, !.alone = Alone(p),
                                      !.newest = newest]
    BY <1>3, StepMoves DEF ListLogs
  <2>2. doomed = SubSeq(logs, kKeptLogs, Len(logs)) /\ (Alone(p) => newest = Newest)
    BY DEF Sorted, FirstOld
  <2> HIDE DEF newest, doomed
  <2> QED
    BY <1>1, <2>1, <2>2
<1>4. ASSUME DeleteOldLog(p)
      PROVE  /\ Apart(p) /\ SameLog(p) /\ Moves(p, "prune", "prune")
             /\ proc[p].doomed # <<>> /\ proc'[p].doomed = Tail(proc[p].doomed)
             /\ proc'[p].alone = proc[p].alone /\ proc'[p].newest = proc[p].newest
  <2>1. Apart(p) /\ proc[p].stage = "prune" /\ proc[p].doomed # <<>>
        /\ proc'[p] = [proc[p] EXCEPT !.doomed = Tail(proc[p].doomed)]
    BY <1>4, StepMoves DEF DeleteOldLog
  <2> QED
    BY <1>1, <2>1
<1>5. ASSUME OpenLog(p)
      PROVE  /\ Apart(p) /\ Same(p) /\ Moves(p, "prune", "report")
             /\ proc[p].doomed = <<>>
             /\ \/ proc'[p].log = proc[p].log /\ UNCHANGED logs
                \/ /\ proc'[p].log = proc[p].pid
                   /\ logs' = IF Contains(logs, proc[p].pid) THEN logs
                             ELSE <<proc[p].pid>> \o logs
             /\ proc'[p].alone = proc[p].alone /\ proc'[p].newest = proc[p].newest
  <2>1. /\ Apart(p) /\ proc[p].stage = "prune" /\ proc[p].doomed = <<>>
        /\ \/ /\ proc'[p] = [proc[p] EXCEPT !.stage = "report", !.log = proc[p].pid]
              /\ logs' = IF Contains(logs, proc[p].pid) THEN logs ELSE <<proc[p].pid>> \o logs
           \/ proc'[p] = [proc[p] EXCEPT !.stage = "report"] /\ UNCHANGED logs
    BY <1>5, StepMoves DEF OpenLog
  <2> QED
    BY <1>1, <2>1
<1>6. ASSUME ReportSettings(p)
      PROVE  /\ Apart(p) /\ SameLog(p) /\ proc[p].stage = "report"
             /\ proc'[p].stage \in {"apply", "disabled"} /\ ~proc'[p].alone
             /\ proc'[p].reported = IF proc[p].log = NoPid THEN {} ELSE Rejected
  <2> DEFINE reported == IF proc[p].log = NoPid THEN {} ELSE Rejected
  <2>1. /\ Apart(p) /\ proc[p].stage = "report"
        /\ proc'[p] = [proc[p] EXCEPT !.stage = AfterReport, !.alone = FALSE, !.newest = <<>>,
                                      !.reported = reported]
    BY <1>6, StepMoves DEF ReportSettings
  <2>2. AfterReport \in {"apply", "disabled"}
    BY DEF AfterReport
  <2> HIDE DEF reported
  <2>3. /\ SameLog(p) /\ proc'[p].stage \in {"apply", "disabled"} /\ ~proc'[p].alone
        /\ proc'[p].reported = reported
    BY <1>1, <2>1, <2>2
  <2> QED
    BY <2>1, <2>3 DEF reported
<1>7. ASSUME StartEngine(p)
      PROVE  Apart(p) /\ SameList(p) /\ Moves(p, "apply", "run")
  <2>1. PICK exists \in BOOLEAN :
          Step(p, "apply", [proc[p] EXCEPT !.stage = "run",
                                           !.redirect = Setting("redirect_runtime") /\ exists])
    BY <1>7 DEF StartEngine
  <2> DEFINE redirect == Setting("redirect_runtime") /\ exists
  <2>2. /\ Apart(p) /\ proc[p].stage = "apply"
        /\ proc'[p] = [proc[p] EXCEPT !.stage = "run", !.redirect = redirect]
    BY <2>1, StepMoves
  <2> HIDE DEF redirect
  <2> QED
    BY <1>1, <2>2
<1>8. WriteEvent(p) => UNCHANGED proc
  BY DEF WriteEvent
<1> QED
  BY <1>2, <1>3, <1>4, <1>5, <1>6, <1>7, <1>8

-----------------------------------------------------------------------------
(* The invariants of one process. *)

\* Whichever process has its log open, the file stays.
LEMMA LogsStayOpen ==
    ASSUME Listed, [Next]_vars
    PROVE  LogsOpen' /\ Identified'
<1> DEFINE Good(q) ==
      /\ proc'[q].log # NoPid =>
           /\ proc'[q].log \in ToSet(logs')
           /\ proc'[q].stage \in {"report", "disabled", "apply", "run"}
      /\ proc'[q].stage # "absent" => proc'[q].pid \in Pids
<1>1. TypeOK
  BY DEF Listed
<1>2. ASSUME NEW q \in Processes, SameLog(q), proc'[q].stage = proc[q].stage
      PROVE  Good(q)
  BY <1>2, FilesAfter DEF SameLog, Same, Listed, LogsOpen, OpenFiles, Identified, Running
<1>3. ASSUME NEW q \in Processes, proc'[q] = proc[q]
      PROVE  Good(q)
  BY <1>2, <1>3 DEF SameLog, Same
<1>4. ASSUME NEW q \in Processes, SameLog(q), proc[q].stage # "absent",
             proc'[q].log # NoPid => proc'[q].stage \in {"report", "disabled", "apply", "run"}
      PROVE  Good(q)
  BY <1>4, FilesAfter DEF SameLog, Same, Listed, LogsOpen, OpenFiles, Identified, Running
<1>5. ASSUME NEW p \in Processes, DllMain(p), NEW q \in Processes
      PROVE  Good(q)
  BY <1>1, <1>2, <1>5, GameSteps
<1>6. ASSUME NEW p \in Processes, FreeLibrary(p), NEW q \in Processes
      PROVE  Good(q)
  BY <1>1, <1>2, <1>3, <1>6, GameSteps DEF Apart, SameList
<1>7. ASSUME NEW p \in Processes, Exit(p), NEW q \in Processes
      PROVE  Good(q)
  BY <1>1, <1>3, <1>7, GameSteps DEF Apart
<1>8. ASSUME NEW p \in Processes,
             Initialize(p) \/ ListLogs(p) \/ DeleteOldLog(p) \/ ReportSettings(p) \/ StartEngine(p),
             NEW q \in Processes
      PROVE  Good(q)
  <2>1. Apart(p) /\ SameLog(p) /\ proc[p].stage # "absent"
    BY <1>1, <1>8, EngineSteps DEF SameList, Moves
  <2>2. proc'[p].log # NoPid => proc'[p].stage \in {"report", "disabled", "apply", "run"}
    BY <1>1, <1>8, <2>1, EngineSteps DEF SameLog, Moves, Listed, LogsOpen
  <2> QED
    BY <1>3, <1>4, <2>1, <2>2 DEF Apart
<1>9. ASSUME NEW p \in Processes, OpenLog(p), NEW q \in Processes
      PROVE  Good(q)
  <2>1. /\ Apart(p) /\ Same(p) /\ Moves(p, "prune", "report")
        /\ \/ proc'[p].log = proc[p].log /\ UNCHANGED logs
           \/ /\ proc'[p].log = proc[p].pid
              /\ logs' = IF Contains(logs, proc[p].pid) THEN logs ELSE <<proc[p].pid>> \o logs
    BY <1>1, <1>9, EngineSteps
  <2>2. proc[p].log = NoPid /\ proc[p].pid \in Pids
    BY <2>1 DEF Moves, Listed, LogsOpen, Identified, Running
  <2>3. proc'[p].log # NoPid => proc[p].pid \in ToSet(logs')
    <3>1. CASE Contains(logs, proc[p].pid)
      BY <2>1, <2>2, <3>1 DEF Contains, ToSet, Listed, TypeOK
    <3>2. CASE ~Contains(logs, proc[p].pid)
      <4>1. proc[p].pid \notin ToSet(logs) /\ logs \in Seq(Pids) /\ Distinct(logs)
        BY <3>2 DEF Contains, ToSet, Listed, TypeOK
      <4>2. ToSet(<<proc[p].pid>> \o logs) = ToSet(logs) \cup {proc[p].pid}
        BY <2>2, <4>1, InFront
      <4> QED
        BY <2>1, <2>2, <3>2, <4>2
    <3> QED
      BY <3>1, <3>2
  <2>4. Good(p)
    BY <2>1, <2>2, <2>3 DEF Same, Moves
  <2> QED
    BY <1>3, <2>1, <2>4 DEF Apart
<1>10. ASSUME UNCHANGED proc, NEW q \in Processes
       PROVE  Good(q)
  BY <1>3, <1>10
<1>11. ASSUME NEW q \in Processes PROVE Good(q)
  <2> HIDE DEF Good
  <2> QED
    BY <1>5, <1>6, <1>7, <1>8, <1>9, <1>10 DEF Next, WriteEvent, vars
<1> QED
  BY <1>11 DEF LogsOpen, Identified, Running

LEMMA ListedKept == Listed /\ [Next]_vars => Listed'
<1> SUFFICES ASSUME Listed, [Next]_vars PROVE Listed'
  OBVIOUS
<1>1. logs' \in Seq(Pids) /\ Distinct(logs)' /\ UNCHANGED folder
  BY FilesAfter
<1>2. TypeOK'
  BY <1>1, StepKeepsTypes DEF Listed, TypeOK
<1> QED
  BY <1>1, <1>2, LogsStayOpen DEF Listed

\* Pinned, and bound if it can be.
Usable == \A p \in Processes : Running(p) => proc[p].pinned /\ proc[p].bound = BindActive

LEMMA UsableKept == Listed /\ Usable /\ [Next]_vars => Usable'
<1> SUFFICES ASSUME Listed, Usable, [Next]_vars, NEW q \in Processes, proc'[q].stage # "absent"
             PROVE  proc'[q].pinned /\ proc'[q].bound = BindActive'
  BY DEF Usable, Running
<1>1. TypeOK /\ UNCHANGED folder
  BY FilesAfter DEF Listed
<1>2. BindActive' = BindActive
  BY <1>1 DEF BindActive
<1>3. CASE Same(q) /\ proc[q].stage # "absent"
  BY <1>2, <1>3 DEF Same, Usable, Running
<1>4. CASE proc'[q] = proc[q]
  BY <1>3, <1>4 DEF Same
<1>5. ASSUME NEW p \in Processes, DllMain(p)
      PROVE  proc'[q].pinned /\ proc'[q].bound = BindActive'
  BY <1>1, <1>2, <1>3, <1>5, GameSteps DEF SameLog
<1>6. ASSUME NEW p \in Processes, FreeLibrary(p) \/ Exit(p)
      PROVE  proc'[q].pinned /\ proc'[q].bound = BindActive'
  BY <1>1, <1>3, <1>4, <1>6, GameSteps DEF Apart, SameList, SameLog
<1>7. ASSUME NEW p \in Processes,
             \/ Initialize(p) \/ ListLogs(p) \/ DeleteOldLog(p) \/ OpenLog(p)
             \/ ReportSettings(p) \/ StartEngine(p)
      PROVE  proc'[q].pinned /\ proc'[q].bound = BindActive'
  <2>1. Apart(p) /\ Same(p) /\ proc[p].stage # "absent"
    BY <1>1, <1>7, EngineSteps DEF SameList, SameLog, Moves
  <2> QED
    BY <1>3, <1>4, <2>1 DEF Apart
<1> QED
  BY <1>4, <1>5, <1>6, <1>7 DEF Next, WriteEvent, vars

\* Once the settings have been reported, the log names the rejected ones.
Named ==
    \A p \in Processes : proc[p].stage \in {"disabled", "apply"} /\ proc[p].log # NoPid =>
        proc[p].reported = Rejected

LEMMA NamedKept == Listed /\ Named /\ [Next]_vars => Named'
<1> SUFFICES ASSUME Listed, Named, [Next]_vars, NEW q \in Processes,
                    proc'[q].stage \in {"disabled", "apply"}, proc'[q].log # NoPid
             PROVE  proc'[q].reported = Rejected
  <2> SUFFICES ASSUME Listed, [Next]_vars PROVE Rejected' = Rejected
    BY DEF Named
  <2> QED
    BY FilesAfter DEF Rejected, settings
<1>2. TypeOK
  BY DEF Listed
<1>3. CASE /\ proc'[q].stage = proc[q].stage /\ proc'[q].log = proc[q].log
           /\ proc'[q].reported = proc[q].reported
  BY <1>3 DEF Named
<1>4. CASE proc'[q] = proc[q]
  BY <1>3, <1>4
<1>5. ASSUME NEW p \in Processes, DllMain(p) \/ FreeLibrary(p) \/ Exit(p)
      PROVE  proc'[q].reported = Rejected
  BY <1>2, <1>3, <1>4, <1>5, GameSteps DEF Apart, SameList, SameLog
<1>6. ASSUME ReportSettings(q)
      PROVE  proc'[q].reported = Rejected
  BY <1>2, <1>6, EngineSteps DEF SameLog
<1>7. ASSUME NEW p \in Processes,
             \/ Initialize(p) \/ ListLogs(p) \/ DeleteOldLog(p) \/ OpenLog(p)
             \/ ReportSettings(p) \/ StartEngine(p)
      PROVE  proc'[q].reported = Rejected
  <2>1. /\ Apart(p)
        /\ ~ReportSettings(p) => proc'[p].stage \notin {"disabled", "apply"}
    BY <1>2, <1>7, EngineSteps DEF Moves
  <2> QED
    BY <1>4, <1>6, <2>1 DEF Apart
<1> QED
  BY <1>4, <1>5, <1>7 DEF Next, WriteEvent, vars

\* As long as a process is alone, the files are those it has found to keep and those it
\* has yet to delete; in the end the former and its own.
Undisturbed ==
    \A p \in Processes : proc[p].alone =>
        /\ Alone(p)
        /\ proc[p].stage \in {"prune", "report"}
        /\ proc[p].stage = "prune" => logs = proc[p].newest \o proc[p].doomed

\* One step of one process leaves another one alone only if it is not running.
LEMMA AloneKept ==
    ASSUME Listed, Undisturbed, NewestKept, [Next]_vars, NEW q \in Processes, proc'[q].alone
    PROVE  /\ Alone(q)'
           /\ \/ ListLogs(q) \/ DeleteOldLog(q) \/ OpenLog(q)
              \/ SameList(q) /\ proc'[q].stage = proc[q].stage /\ UNCHANGED logs
<1>1. TypeOK
  BY DEF Listed
<1>2. ASSUME proc'[q].alone = proc[q].alone,
             \A r \in Processes \ {q} : proc[r].stage = "absent" => proc'[r].stage = "absent"
      PROVE  Alone(q)'
  BY <1>2 DEF Undisturbed, Alone, Running
<1>3. ASSUME NEW p \in Processes, DllMain(p)
      PROVE  FALSE
  BY <1>1, <1>3, GameSteps
<1>4. ASSUME NEW p \in Processes, p # q,
             FreeLibrary(p) \/ Exit(p) \/ Initialize(p) \/ ListLogs(p) \/ DeleteOldLog(p)
             \/ OpenLog(p) \/ ReportSettings(p) \/ StartEngine(p) \/ WriteEvent(p)
      PROVE  /\ Alone(q)' /\ SameList(q) /\ proc'[q].stage = proc[q].stage /\ UNCHANGED logs
  <2>1. proc'[q] = proc[q]
    BY <1>1, <1>4, GameSteps, EngineSteps DEF Apart
  <2>2. proc[p].stage = "absent"
    BY <1>4, <2>1 DEF Undisturbed, Alone, Running
  <2>3. FreeLibrary(p)
    BY <1>1, <1>4, <2>2, GameSteps, EngineSteps DEF Moves, WriteEvent
  <2>4. Apart(p) /\ proc'[p].stage = "absent" /\ UNCHANGED logs
    BY <1>1, <2>2, <2>3, GameSteps DEF FreeLibrary
  <2> QED
    BY <1>2, <2>1, <2>4 DEF Apart, SameList, SameLog, Same
<1>5. ASSUME ListLogs(q) \/ DeleteOldLog(q) \/ OpenLog(q)
      PROVE  Alone(q)'
  <2>1. Apart(q) /\ (ListLogs(q) => Alone(q))
    BY <1>1, <1>5, EngineSteps
  <2>2. Alone(q)
    BY <1>1, <1>5, <2>1, EngineSteps DEF Undisturbed
  <2> QED
    BY <2>1, <2>2 DEF Apart, Alone, Running
<1>6. ASSUME FreeLibrary(q)
      PROVE  Alone(q)' /\ SameList(q) /\ proc'[q].stage = proc[q].stage /\ UNCHANGED logs
  BY <1>1, <1>2, <1>6, GameSteps DEF Apart, SameList, FreeLibrary
<1>7. ASSUME Exit(q) \/ Initialize(q) \/ ReportSettings(q) \/ StartEngine(q) \/ WriteEvent(q)
      PROVE  FALSE
  BY <1>1, <1>7, GameSteps, EngineSteps DEF SameList, Moves, Undisturbed, WriteEvent
<1>8. ASSUME UNCHANGED vars
      PROVE  Alone(q)' /\ SameList(q) /\ proc'[q].stage = proc[q].stage /\ UNCHANGED logs
  BY <1>2, <1>8 DEF vars, SameList, SameLog, Same
<1> QED
  BY <1>3, <1>4, <1>5, <1>6, <1>7, <1>8 DEF Next

\* Alone, a process deletes every file it has listed, and opens its own.
LEMMA NewestStay ==
    ASSUME Listed, Undisturbed, NewestKept, [Next]_vars
    PROVE  Undisturbed' /\ NewestKept'
<1> SUFFICES ASSUME NEW q \in Processes, proc'[q].alone
             PROVE  /\ Alone(q)'
                    /\ proc'[q].stage \in {"prune", "report"}
                    /\ proc'[q].stage = "prune" => logs' = proc'[q].newest \o proc'[q].doomed
                    /\ proc'[q].stage = "report" /\ proc'[q].log # NoPid =>
                         RemoveFirst(logs', proc'[q].pid)
                           = RemoveFirst(proc'[q].newest, proc'[q].pid)
  BY DEF Undisturbed, NewestKept
<1>1. TypeOK /\ proc[q] \in Processing
  BY DEF Listed, TypeOK
<1>2. Alone(q)'
  BY AloneKept
<1>3. CASE SameList(q) /\ proc'[q].stage = proc[q].stage /\ UNCHANGED logs
  BY <1>2, <1>3 DEF SameList, SameLog, Same, Undisturbed, NewestKept
<1>4. CASE ListLogs(q)
  <2>1. /\ proc'[q].stage = "prune" /\ UNCHANGED logs
        /\ proc'[q].doomed = SubSeq(logs, kKeptLogs, Len(logs)) /\ proc'[q].newest = Newest
    BY <1>1, <1>4, EngineSteps DEF Moves, ListLogs
  <2> QED
    BY <1>1, <1>2, <2>1, ListedParts
<1>5. CASE DeleteOldLog(q)
  <2> DEFINE file == Head(proc[q].doomed)
  <2>1. /\ proc[q].alone /\ proc[q].stage = "prune" /\ proc'[q].stage = "prune"
        /\ proc[q].doomed # <<>> /\ proc'[q].doomed = Tail(proc[q].doomed)
        /\ proc'[q].newest = proc[q].newest
    BY <1>1, <1>5, EngineSteps DEF Moves
  <2>2. logs = proc[q].newest \o proc[q].doomed /\ Alone(q)
    BY <2>1 DEF Undisturbed
  <2>3. \A r \in Processes : proc[r].log = NoPid
    BY <2>1, <2>2 DEF Listed, LogsOpen, Alone, Running
  <2>4. file \in Pids
    BY <1>1, <2>1 DEF Processing
  <2>5. file \notin OpenFiles
    BY <2>3, <2>4 DEF OpenFiles
  <2>6. logs' = RemoveFirst(logs, file)
    BY <1>5, <2>5 DEF DeleteOldLog
  <2>7. proc[q].newest \in Seq(Pids) /\ proc[q].doomed \in Seq(Pids) /\ Distinct(logs)
    BY <1>1 DEF Processing, Listed
  <2>8. logs' = proc[q].newest \o Tail(proc[q].doomed)
    BY <2>1, <2>2, <2>6, <2>7, RemovedBetween
  <2> QED
    BY <1>2, <2>1, <2>8
<1>6. CASE OpenLog(q)
  <2> DEFINE pid == proc[q].pid
  <2>1. /\ proc[q].alone /\ proc[q].stage = "prune" /\ proc'[q].stage = "report"
        /\ proc[q].doomed = <<>> /\ proc'[q].newest = proc[q].newest /\ proc'[q].pid = pid
        /\ \/ proc'[q].log = proc[q].log /\ UNCHANGED logs
           \/ logs' = IF Contains(logs, pid) THEN logs ELSE <<pid>> \o logs
    BY <1>1, <1>6, EngineSteps DEF Moves, Same
  <2>2. logs = proc[q].newest
    BY <1>1, <2>1, ConcatEmptySeq DEF Undisturbed, Processing
  <2>3. logs \in Seq(Pids) /\ Distinct(logs) /\ pid \in Pids /\ proc[q].log = NoPid
    BY <2>1 DEF Listed, TypeOK, Identified, Running, LogsOpen
  <2>4. ~Contains(logs, pid) => RemoveFirst(<<pid>> \o logs, pid) = logs
    <3>1. ~Contains(logs, pid) => pid \notin ToSet(logs)
      BY <2>3 DEF Contains, ToSet
    <3> QED
      BY <2>3, <3>1, InFront
  <2>5. ~Contains(logs, pid) => RemoveFirst(logs, pid) = logs
    BY DEF Contains, RemoveFirst
  <2> QED
    BY <1>2, <2>1, <2>2, <2>3, <2>4, <2>5
<1> QED
  BY <1>3, <1>4, <1>5, <1>6, AloneKept

-----------------------------------------------------------------------------
(* How many files there are. *)

Pruners == {p \in Processes : proc[p].stage = "prune"}
Writers == {p \in Processes : proc[p].log # NoPid}

\* What is left of the files once some of those that prune have deleted what they have
\* listed, the open ones not counted.
Doomed(S) == UNION {ToSet(proc[p].doomed) : p \in S}
Leftover(S) == (ToSet(logs) \ Doomed(S)) \ OpenFiles

\* Whatever part of those that prune is looked at: each of them accounts for one file less.
Budget ==
    \A S \in SUBSET Pruners :
        Cardinality(Leftover(S)) + Cardinality(Writers) + Cardinality(S)
          <= kKeptLogs - 1 + Cardinality(Processes)

\* These sets are finite.
LEMMA Finite ==
    ASSUME Listed
    PROVE  /\ IsFiniteSet(Writers) /\ Cardinality(Writers) \in Nat
           /\ Cardinality(Processes) \in Nat
           /\ \A S \in SUBSET Processes : IsFiniteSet(S) /\ Cardinality(S) \in Nat
           /\ IsFiniteSet(ToSet(logs)) /\ Cardinality(ToSet(logs)) = Len(logs)
           /\ \A S : IsFiniteSet(Leftover(S)) /\ Cardinality(Leftover(S)) \in Nat
<1>1. IsFiniteSet(ToSet(logs)) /\ Cardinality(ToSet(logs)) = Len(logs)
  BY DistinctLength DEF Listed, TypeOK
<1>2. \A S \in SUBSET Processes : IsFiniteSet(S) /\ Cardinality(S) \in Nat
  BY FS_Subset, FS_CardinalityType
<1>3. ASSUME NEW S
      PROVE  IsFiniteSet(Leftover(S)) /\ Cardinality(Leftover(S)) \in Nat
  <2>1. Leftover(S) \in SUBSET ToSet(logs)
    BY DEF Leftover
  <2> QED
    BY <1>1, <2>1, FS_Subset, FS_CardinalityType
<1> QED
  BY <1>1, <1>2, <1>3 DEF Writers

\* If nothing is pruned the budget bounds the files.
LEMMA BudgetBounds ==
    ASSUME Listed, Budget
    PROVE  LogsBounded
<1> DEFINE f == [p \in Writers |-> proc[p].log]
           open == {proc[p].log : p \in Writers}
<1>1. Cardinality(Leftover({})) + Cardinality(Writers) <= kKeptLogs - 1 + Cardinality(Processes)
  <2>1. {} \in SUBSET Pruners /\ Cardinality({}) = 0
    BY FS_EmptySet
  <2>2. Cardinality(Leftover({})) + Cardinality(Writers) + Cardinality({})
          <= kKeptLogs - 1 + Cardinality(Processes)
    BY <2>1 DEF Budget
  <2> QED
    BY <2>1, <2>2, Finite
<1>2. f \in Surjection(Writers, open)
  BY DEF Surjection
<1>3. IsFiniteSet(open) /\ Cardinality(open) <= Cardinality(Writers) /\ Cardinality(open) \in Nat
  BY <1>2, Finite, FS_Surjection, FS_CardinalityType
<1>4. ToSet(logs) \subseteq Leftover({}) \cup open
  <2>1. NoPid \notin ToSet(logs)
    BY DEF Listed, TypeOK, ToSet
  <2> QED
    BY <2>1 DEF Leftover, Doomed, OpenFiles, Writers
<1> HIDE DEF open
<1>5. /\ IsFiniteSet(Leftover({}) \cup open)
      /\ Cardinality(Leftover({}) \cup open) <= Cardinality(Leftover({})) + Cardinality(open)
      /\ Cardinality(Leftover({}) \cup open) \in Nat
  <2>1. /\ IsFiniteSet(Leftover({}) \cup open)
        /\ Cardinality(Leftover({}) \cup open)
             = Cardinality(Leftover({})) + Cardinality(open) - Cardinality(Leftover({}) \cap open)
    BY <1>3, Finite, FS_Union
  <2>2. Cardinality(Leftover({}) \cap open) \in Nat
    BY Finite, FS_Intersection, FS_CardinalityType
  <2>3. /\ Cardinality(Leftover({})) \in Nat
        /\ Cardinality(Leftover({}) \cup open) \in Nat
    BY <2>1, Finite, FS_CardinalityType
  <2> QED
    BY <1>3, <2>1, <2>2, <2>3
<1>6. Len(logs) <= Cardinality(Leftover({}) \cup open)
  BY <1>4, <1>5, Finite, FS_Subset
<1>7. Len(logs) \in Nat
  BY Finite, FS_CardinalityType
<1>8. /\ Cardinality(Writers) \in Nat /\ Cardinality(Processes) \in Nat
      /\ Cardinality(Leftover({})) \in Nat
  BY Finite
<1> QED
  BY <1>1, <1>3, <1>5, <1>6, <1>7, <1>8 DEF LogsBounded

\* Fewer files are left than before, and no more processes write: within the budget.
LEMMA WithinBudget ==
    ASSUME Listed, Budget, NEW S \in SUBSET Pruners, NEW T, T \subseteq Leftover(S), Writers' = Writers
    PROVE  Cardinality(T) + Cardinality(Writers') + Cardinality(S)
             <= kKeptLogs - 1 + Cardinality(Processes)
<1>1. IsFiniteSet(T) /\ Cardinality(T) <= Cardinality(Leftover(S)) /\ Cardinality(T) \in Nat
  BY Finite, FS_Subset, FS_CardinalityType
<1>2. Cardinality(Leftover(S)) + Cardinality(Writers) + Cardinality(S)
        <= kKeptLogs - 1 + Cardinality(Processes)
  BY DEF Budget
<1>3. S \in SUBSET Processes
  BY DEF Pruners
<1>4. /\ Cardinality(Writers) \in Nat /\ Cardinality(Processes) \in Nat
      /\ Cardinality(Leftover(S)) \in Nat /\ Cardinality(S) \in Nat
  BY <1>3, Finite
<1> QED
  BY <1>1, <1>2, <1>4

\* Most steps neither open nor close a log, nor list or delete files.
LEMMA QuietSteps ==
    ASSUME Listed,
           \/ UNCHANGED vars
           \/ \E p \in Processes :
                \/ DllMain(p) \/ FreeLibrary(p) \/ Initialize(p) \/ ReportSettings(p)
                \/ StartEngine(p) \/ WriteEvent(p)
                \/ Exit(p) /\ proc[p].log = NoPid
    PROVE  /\ ToSet(logs') = ToSet(logs)
           /\ \A q \in Processes :
                /\ proc'[q].log = proc[q].log
                /\ proc'[q].stage = "prune" =>
                     proc[q].stage = "prune" /\ proc'[q].doomed = proc[q].doomed
<1> DEFINE Quiet(q) ==
      /\ proc'[q].log = proc[q].log
      /\ proc'[q].stage = "prune" => proc[q].stage = "prune" /\ proc'[q].doomed = proc[q].doomed
<1>1. TypeOK
  BY DEF Listed
<1>2. ASSUME NEW p \in Processes, ReportSettings(p) \/ WriteEvent(p)
      PROVE  ToSet(logs') = ToSet(logs)
  <2>1. logs' = Touched(p)
    BY <1>2 DEF ReportSettings, WriteEvent
  <2> QED
    BY <2>1, TouchedFiles
<1>3. ToSet(logs') = ToSet(logs)
  BY <1>2 DEF vars, DllMain, FreeLibrary, Initialize, StartEngine, Exit
<1>4. ASSUME UNCHANGED proc, NEW q \in Processes PROVE Quiet(q)
  BY <1>4
<1>5. ASSUME NEW p \in Processes, DllMain(p), NEW q \in Processes PROVE Quiet(q)
  BY <1>1, <1>5, GameSteps DEF SameLog, Listed, LogsOpen
<1>6. ASSUME NEW p \in Processes, Exit(p), proc[p].log = NoPid, NEW q \in Processes PROVE Quiet(q)
  BY <1>1, <1>6, GameSteps DEF Apart
<1>7. ASSUME NEW p \in Processes, FreeLibrary(p), NEW q \in Processes PROVE Quiet(q)
  BY <1>1, <1>7, GameSteps DEF Apart, SameList, SameLog
<1>8. ASSUME NEW p \in Processes, Initialize(p) \/ ReportSettings(p) \/ StartEngine(p),
             NEW q \in Processes
      PROVE  Quiet(q)
  <2>1. Apart(p) /\ SameLog(p) /\ proc'[p].stage # "prune"
    BY <1>1, <1>8, EngineSteps DEF SameList, Moves
  <2> QED
    BY <2>1 DEF Apart, SameLog
<1>9. ASSUME NEW q \in Processes PROVE Quiet(q)
  <2> HIDE DEF Quiet
  <2> QED
    BY <1>4, <1>5, <1>6, <1>7, <1>8, <1>9 DEF WriteEvent, vars
<1> QED
  BY <1>3, <1>9

\* If the files stay, and so do the lists of those that prune, so does what is left.
LEMMA SameLeftover ==
    ASSUME NEW S \in SUBSET Processes, ToSet(logs') \subseteq ToSet(logs),
           \A q \in Processes : proc'[q].log = proc[q].log,
           \A q \in S : proc'[q].doomed = proc[q].doomed
    PROVE  Leftover(S)' \subseteq Leftover(S)
<1>1. OpenFiles' = OpenFiles
  BY DEF OpenFiles
<1>2. Doomed(S)' = Doomed(S)
  BY DEF Doomed
<1> QED
  BY <1>1, <1>2 DEF Leftover

\* A process that lists the files leaves all but kKeptLogs - 1 of them to be deleted.
LEMMA ListingInBudget ==
    ASSUME Listed, NEW p \in Processes, ListLogs(p), NEW S \in SUBSET Pruners', p \in S
    PROVE  Cardinality(Leftover(S)') + Cardinality(Writers') + Cardinality(S)
             <= kKeptLogs - 1 + Cardinality(Processes)
<1> DEFINE old == SubSeq(logs, kKeptLogs, Len(logs))
<1>1. /\ Apart(p) /\ SameLog(p) /\ proc[p].stage = "list" /\ proc'[p].stage = "prune"
      /\ proc'[p].doomed = old /\ UNCHANGED logs
  BY EngineSteps DEF Listed, Moves, ListLogs
<1>2. IsFiniteSet(ToSet(logs) \ ToSet(old)) /\ Cardinality(ToSet(logs) \ ToSet(old)) <= kKeptLogs - 1
  BY FewLeft DEF Listed, TypeOK
<1>3. Leftover(S)' \subseteq ToSet(logs) \ ToSet(old)
  BY <1>1 DEF Leftover, Doomed
<1> HIDE DEF old
<1>4. /\ IsFiniteSet(Leftover(S)') /\ Cardinality(Leftover(S)') \in Nat
      /\ Cardinality(Leftover(S)') <= kKeptLogs - 1
  BY <1>2, <1>3, FS_Subset, FS_CardinalityType
<1>5. Writers' = Writers
  BY <1>1 DEF Writers, Apart, SameLog
<1>6. S \subseteq Processes /\ Writers \cap S = {}
  BY <1>1 DEF Pruners, Writers, Apart, Listed, LogsOpen
<1>7. /\ IsFiniteSet(S) /\ Cardinality(S) \in Nat
      /\ Writers \cup S \in SUBSET Processes
  BY <1>6, Finite DEF Writers
<1>8. Cardinality(Writers \cup S) = Cardinality(Writers) + Cardinality(S)
  <2>1. Cardinality(Writers \cup S)
          = Cardinality(Writers) + Cardinality(S) - Cardinality(Writers \cap S)
    BY <1>7, Finite, FS_Union
  <2>2. Cardinality(Writers \cap S) = 0
    BY <1>6, FS_EmptySet
  <2>3. Cardinality(Writers) \in Nat
    BY Finite
  <2> QED
    BY <1>7, <2>1, <2>2, <2>3
<1>9. Cardinality(Writers \cup S) <= Cardinality(Processes)
  BY <1>7, FS_Subset
<1>10. Cardinality(Writers) \in Nat /\ Cardinality(Processes) \in Nat
  BY Finite
<1> QED
  BY <1>4, <1>5, <1>7, <1>8, <1>9, <1>10

\* A process that opens its log has nothing left to delete, and uses up the file it
\* accounted for.
LEMMA OpeningInBudget ==
    ASSUME Listed, Listed', Budget, NEW p \in Processes, OpenLog(p), NEW S \in SUBSET Pruners'
    PROVE  Cardinality(Leftover(S)') + Cardinality(Writers') + Cardinality(S)
             <= kKeptLogs - 1 + Cardinality(Processes)
<1> DEFINE T == S \cup {p}
           pid == proc[p].pid
<1>1. /\ Apart(p) /\ proc[p].stage = "prune" /\ proc'[p].stage = "report"
      /\ proc[p].doomed = <<>>
      /\ \/ proc'[p].log = proc[p].log /\ UNCHANGED logs
         \/ /\ proc'[p].log = pid
            /\ logs' = IF Contains(logs, pid) THEN logs ELSE <<pid>> \o logs
  BY EngineSteps DEF Listed, Moves
<1>2. proc[p].log = NoPid /\ pid \in Pids
  BY <1>1 DEF Listed, LogsOpen, Identified, Running
<1>3. S \subseteq Processes /\ S \subseteq Pruners /\ p \notin S /\ T \in SUBSET Pruners
  BY <1>1 DEF Pruners, Apart
<1>4. CASE proc'[p].log = proc[p].log /\ UNCHANGED logs
  <2>1. Writers' = Writers
    BY <1>1, <1>4 DEF Apart, Writers
  <2>2. Leftover(S)' \subseteq Leftover(S)
    BY <1>1, <1>3, <1>4, SameLeftover DEF Apart
  <2> QED
    BY <1>3, <2>1, <2>2, WithinBudget
<1>5. CASE /\ proc'[p].log = pid
           /\ logs' = IF Contains(logs, pid) THEN logs ELSE <<pid>> \o logs
  <2>1. Writers' = Writers \cup {p} /\ p \notin Writers
    BY <1>1, <1>2, <1>5 DEF Apart, Writers
  <2>2. Cardinality(Writers') = Cardinality(Writers) + 1
    BY <2>1, Finite, FS_AddElement
  <2>3. Cardinality(T) = Cardinality(S) + 1 /\ Cardinality(S) \in Nat
    BY <1>3, Finite, FS_AddElement
  <2>4. \A f \in ToSet(logs') : f \in ToSet(logs) \cup {pid}
    <3>1. ~Contains(logs, pid) => pid \notin ToSet(logs)
      BY DEF Contains, ToSet, Listed, TypeOK
    <3>2. ~Contains(logs, pid) => ToSet(<<pid>> \o logs) = ToSet(logs) \cup {pid}
      BY <1>2, <3>1, InFront DEF Listed, TypeOK
    <3> QED
      BY <1>5, <3>2
  <2>5. Doomed(S)' = Doomed(T)
    BY <1>1, <1>3 DEF Doomed, Apart, ToSet
  <2>6. pid \in OpenFiles' /\ OpenFiles \subseteq OpenFiles' \cup {NoPid}
    BY <1>1, <1>2, <1>5 DEF OpenFiles, Apart
  <2>7. \A f \in ToSet(logs) : f # NoPid
    BY DEF Listed, TypeOK, ToSet
  <2>8. Leftover(S)' \subseteq Leftover(T)
    BY <2>4, <2>5, <2>6, <2>7 DEF Leftover
  <2>9. /\ IsFiniteSet(Leftover(S)') /\ Cardinality(Leftover(S)') \in Nat
        /\ Cardinality(Leftover(S)') <= Cardinality(Leftover(T))
    BY <2>8, Finite, FS_Subset, FS_CardinalityType
  <2>10. Cardinality(Leftover(T)) + Cardinality(Writers) + Cardinality(T)
           <= kKeptLogs - 1 + Cardinality(Processes)
    BY <1>3 DEF Budget
  <2>11. /\ Cardinality(Writers) \in Nat /\ Cardinality(Processes) \in Nat
         /\ Cardinality(Leftover(T)) \in Nat
    BY Finite
  <2> QED
    BY <2>2, <2>3, <2>9, <2>10, <2>11
<1> QED
  BY <1>1, <1>4, <1>5

\* A process that ends leaves at most its own file behind.
LEMMA EndingInBudget ==
    ASSUME Listed, Budget, NEW p \in Processes, Exit(p), NEW S \in SUBSET Pruners'
    PROVE  Cardinality(Leftover(S)') + Cardinality(Writers') + Cardinality(S)
             <= kKeptLogs - 1 + Cardinality(Processes)
<1> DEFINE log == proc[p].log
<1>1. Apart(p) /\ proc'[p].stage = "absent" /\ proc'[p].log = NoPid /\ UNCHANGED logs
  BY GameSteps DEF Listed, Exit
<1>2. S \in SUBSET Pruners /\ S \in SUBSET Processes /\ p \notin S
  BY <1>1 DEF Pruners, Apart
<1>3. CASE log = NoPid
  <2>1. Writers' = Writers
    BY <1>1, <1>3 DEF Apart, Writers
  <2>2. Leftover(S)' \subseteq Leftover(S)
    BY <1>1, <1>2, <1>3, SameLeftover DEF Apart
  <2> QED
    BY <1>2, <2>1, <2>2, WithinBudget
<1>4. CASE log # NoPid
  <2>1. Writers' = Writers \ {p} /\ p \in Writers
    BY <1>1, <1>4 DEF Apart, Writers
  <2>2. Cardinality(Writers') = Cardinality(Writers) - 1
    BY <2>1, Finite, FS_RemoveElement
  <2>3. Doomed(S)' = Doomed(S)
    BY <1>1, <1>2 DEF Doomed, Apart
  <2>4. OpenFiles \subseteq OpenFiles' \cup {log}
    BY <1>1 DEF OpenFiles, Apart
  <2>5. Leftover(S)' \subseteq Leftover(S) \cup {log}
    BY <1>1, <2>3, <2>4 DEF Leftover
  <2>6. /\ IsFiniteSet(Leftover(S) \cup {log})
        /\ Cardinality(Leftover(S) \cup {log}) <= Cardinality(Leftover(S)) + 1
    <3>1. IsFiniteSet(Leftover(S)) /\ Cardinality(Leftover(S)) \in Nat
      BY Finite
    <3> HIDE DEF log
    <3>2. /\ IsFiniteSet(Leftover(S) \cup {log})
          /\ Cardinality(Leftover(S) \cup {log})
               = IF log \in Leftover(S) THEN Cardinality(Leftover(S))
                 ELSE Cardinality(Leftover(S)) + 1
      BY <3>1, FS_AddElement
    <3> QED
      BY <3>1, <3>2
  <2>7. /\ IsFiniteSet(Leftover(S)') /\ Cardinality(Leftover(S)') \in Nat
        /\ Cardinality(Leftover(S)') <= Cardinality(Leftover(S)) + 1
        /\ Cardinality(Leftover(S) \cup {log}) \in Nat
    BY <2>5, <2>6, Finite, FS_Subset, FS_CardinalityType
  <2>8. Cardinality(Leftover(S)) + Cardinality(Writers) + Cardinality(S)
          <= kKeptLogs - 1 + Cardinality(Processes)
    BY <1>2 DEF Budget
  <2>9. Cardinality(Writers) \in Nat /\ Cardinality(Processes) \in Nat
    BY Finite
  <2>10. Cardinality(Leftover(S)) \in Nat /\ Cardinality(S) \in Nat
    BY <1>2, Finite
  <2> QED
    BY <2>2, <2>7, <2>8, <2>9, <2>10
<1> QED
  BY <1>3, <1>4

\* A deletion, of a file that is open or not, leaves the same files to go.
LEMMA DeletingInBudget ==
    ASSUME Listed, Budget, NEW p \in Processes, DeleteOldLog(p), NEW S \in SUBSET Pruners'
    PROVE  Cardinality(Leftover(S)') + Cardinality(Writers') + Cardinality(S)
             <= kKeptLogs - 1 + Cardinality(Processes)
<1> DEFINE file == Head(proc[p].doomed)
<1>1. /\ Apart(p) /\ SameLog(p) /\ Moves(p, "prune", "prune")
      /\ proc[p].doomed # <<>> /\ proc'[p].doomed = Tail(proc[p].doomed)
  BY EngineSteps DEF Listed
<1>2. S \in SUBSET Pruners /\ S \in SUBSET Processes /\ Writers' = Writers /\ OpenFiles' = OpenFiles
  BY <1>1 DEF Pruners, Apart, Moves, Writers, SameLog, OpenFiles
<1>3. \/ UNCHANGED logs /\ file \in OpenFiles
      \/ ToSet(logs') = ToSet(logs) \ {file}
  BY RemovedFiles DEF Listed, TypeOK, DeleteOldLog
<1>4. \A f \in ToSet(proc[p].doomed) : f = file \/ f \in ToSet(proc'[p].doomed)
  <2> SUFFICES ASSUME NEW i \in DOMAIN proc[p].doomed
               PROVE  proc[p].doomed[i] = file \/ proc[p].doomed[i] \in ToSet(Tail(proc[p].doomed))
    BY <1>1 DEF ToSet
  <2>1. proc[p].doomed \in Seq(Pids)
    BY DEF Listed, TypeOK, Processing
  <2>2. /\ DOMAIN Tail(proc[p].doomed) = 1..(Len(proc[p].doomed) - 1)
        /\ \A k \in 1..(Len(proc[p].doomed) - 1) : Tail(proc[p].doomed)[k] = proc[p].doomed[k + 1]
        /\ file = proc[p].doomed[1]
    BY <1>1, <2>1, HeadTailProperties
  <2>3. CASE i = 1
    BY <2>2, <2>3
  <2>4. CASE i # 1
    <3>1. i - 1 \in 1..(Len(proc[p].doomed) - 1) /\ (i - 1) + 1 = i
      BY <2>1, <2>4
    <3> QED
      BY <2>2, <3>1 DEF ToSet
  <2> QED
    BY <2>3, <2>4
<1> HIDE DEF file
<1>5. Doomed(S) \subseteq Doomed(S)' \cup {file}
  BY <1>1, <1>2, <1>4 DEF Doomed, Apart
<1>6. Leftover(S)' \subseteq Leftover(S)
  BY <1>2, <1>3, <1>5 DEF Leftover
<1> QED
  BY <1>2, <1>6, WithinBudget

LEMMA BudgetKept ==
    ASSUME Listed, Listed', Budget, [Next]_vars
    PROVE  Budget'
<1> SUFFICES ASSUME NEW S \in SUBSET Pruners'
             PROVE  Cardinality(Leftover(S)') + Cardinality(Writers') + Cardinality(S)
                      <= kKeptLogs - 1 + Cardinality(Processes)
  BY DEF Budget
<1>1. CASE \/ UNCHANGED vars
           \/ \E p \in Processes :
                \/ DllMain(p) \/ FreeLibrary(p) \/ Initialize(p) \/ ReportSettings(p)
                \/ StartEngine(p) \/ WriteEvent(p)
  <2>1. /\ ToSet(logs') = ToSet(logs)
        /\ \A q \in Processes :
             /\ proc'[q].log = proc[q].log
             /\ proc'[q].stage = "prune" =>
                  proc[q].stage = "prune" /\ proc'[q].doomed = proc[q].doomed
    BY <1>1, QuietSteps
  <2>2. S \in SUBSET Pruners /\ S \in SUBSET Processes /\ Writers' = Writers
    BY <2>1 DEF Pruners, Writers
  <2>3. Leftover(S)' \subseteq Leftover(S)
    BY <2>1, <2>2, SameLeftover DEF Pruners
  <2> QED
    BY <2>2, <2>3, WithinBudget
<1>2. ASSUME NEW p \in Processes, ListLogs(p), p \notin S
      PROVE  Cardinality(Leftover(S)') + Cardinality(Writers') + Cardinality(S)
               <= kKeptLogs - 1 + Cardinality(Processes)
  <2>1. Apart(p) /\ SameLog(p) /\ UNCHANGED logs
    BY <1>2, EngineSteps DEF Listed, ListLogs
  <2>2. S \in SUBSET Pruners /\ S \in SUBSET Processes /\ Writers' = Writers
    BY <1>2, <2>1 DEF Pruners, Writers, Apart, SameLog
  <2>3. Leftover(S)' \subseteq Leftover(S)
    BY <1>2, <2>1, <2>2, SameLeftover DEF Apart, SameLog
  <2> QED
    BY <2>2, <2>3, WithinBudget
<1> QED
  BY <1>1, <1>2, ListingInBudget, OpeningInBudget, EndingInBudget, DeletingInBudget DEF Next

-----------------------------------------------------------------------------
(* The theorems. *)

\* What holds when no process has loaded the DLL.
LEMMA Begins == Init => Listed /\ Usable /\ Named /\ Undisturbed /\ NewestKept /\ Budget
<1> SUFFICES ASSUME Init PROVE Listed /\ Usable /\ Named /\ Undisturbed /\ NewestKept /\ Budget
  OBVIOUS
<1>1. /\ folder \in Folders /\ logs = <<>>
      /\ proc \in [Processes -> Processing] /\ \A p \in Processes : proc[p] = Fresh
  BY FreshIsTyped DEF Init
<1>2. \A p \in Processes : ~Running(p) /\ proc[p].log = NoPid /\ ~proc[p].alone
  BY <1>1 DEF Fresh, Running
<1>3. Listed
  BY <1>1, <1>2 DEF Listed, TypeOK, Distinct, LogsOpen, Identified
<1>4. Usable /\ Named /\ Undisturbed /\ NewestKept
  BY <1>1, <1>2 DEF Usable, Named, Undisturbed, NewestKept
<1>5. Pruners = {} /\ Writers = {}
  BY <1>2 DEF Pruners, Writers, Running
<1>6. Leftover({}) = {}
  BY <1>1 DEF Leftover, ToSet
<1>7. Cardinality({}) = 0 /\ Cardinality(Processes) \in Nat
  BY FS_EmptySet, FS_CardinalityType
<1>8. Budget
  <2> SUFFICES ASSUME NEW S \in SUBSET Pruners
               PROVE  Cardinality(Leftover(S)) + Cardinality(Writers) + Cardinality(S)
                        <= kKeptLogs - 1 + Cardinality(Processes)
    BY DEF Budget
  <2>1. S = {}
    BY <1>5
  <2>2. Cardinality(Leftover(S)) = 0 /\ Cardinality(Writers) = 0 /\ Cardinality(S) = 0
    BY <1>5, <1>6, <1>7, <2>1
  <2> QED
    BY <1>7, <2>2
<1> QED
  BY <1>3, <1>4, <1>8

LEMMA StartupHolds ==
    Spec => [](Listed /\ Usable /\ Named /\ Undisturbed /\ NewestKept /\ Budget)
<1>1. Listed /\ Usable /\ Named /\ Undisturbed /\ NewestKept /\ Budget /\ [Next]_vars
        => (Listed /\ Usable /\ Named /\ Undisturbed /\ NewestKept /\ Budget)'
  <2> SUFFICES ASSUME Listed, Usable, Named, Undisturbed, NewestKept, Budget, [Next]_vars
               PROVE  Listed' /\ Usable' /\ Named' /\ Undisturbed' /\ NewestKept' /\ Budget'
    OBVIOUS
  <2>1. Listed'
    BY ListedKept
  <2> QED
    BY <2>1, UsableKept, NamedKept, NewestStay, BudgetKept
<1> QED
  BY <1>1, Begins, PTL DEF Spec

\* The start keeps the types of what a process holds and of the log directory.
THEOREM StartupTypes == Spec => []TypeOK
<1>1. Listed => TypeOK
  BY DEF Listed
<1> QED
  BY <1>1, StartupHolds, PTL

\* DllMain has bound the exports and pinned the DLL by the time it returns, so nothing
\* the game does, in whatever order it loads and frees the DLL and other processes come
\* and go, calls an export that leads nowhere or code that is unmapped.
THEOREM UsableOnceLoadedAlways == Spec => []UsableOnceLoaded
<1>1. Listed /\ Usable => UsableOnceLoaded
  BY DEF Listed, TypeOK, Processing, Usable, UsableOnceLoaded, BindActive
<1> QED
  BY <1>1, StartupHolds, PTL

\* Whatever the file holds, whichever sections it opens again and whatever texts are numbers,
\* a setting that is documented here means what is documented, and a text that was not
\* followed is in the log before the engine is started, if there is one.
THEOREM NothingSilentlyDroppedAlways == Spec => []NothingSilentlyDropped
<1>1. Listed /\ Named => NothingSilentlyDropped
  <2> SUFFICES ASSUME Listed, Named, NEW p \in Processes,
                      proc[p].stage \in {"disabled", "apply"}, NEW f \in DOMAIN Documented
               PROVE  /\ AsDocumented(folder.lines, f)
                      /\ settings[f].rejected /\ proc[p].log # NoPid => f \in proc[p].reported
    BY DEF NothingSilentlyDropped
  <2>1. folder.lines \in Seq(Lines)
    BY FoldersAssumption DEF Listed, TypeOK
  <2>2. AsDocumented(folder.lines, f)
    BY <2>1, SettingsAsDocumented
  <2>3. f \in DOMAIN settings
    BY DEF settings, FromIni, Documented
  <2> QED
    BY <2>2, <2>3 DEF Named, Rejected
<1> QED
  BY <1>1, StartupHolds, PTL

\* However many logs are kept, and whichever of them are open, what PruneOldLogs and
\* OpenFile leave of the files is the newest of them, each in its place.
THEOREM NewestKeptAlways == Spec => []NewestKept
BY StartupHolds, PTL

\* Whatever the number of processes that start at once, whichever of their pruning and
\* opening comes first, and however stale the lists they delete by, the directory holds at
\* most a file for each of them beyond those kept.
THEOREM LogsBoundedAlways == Spec => []LogsBounded
<1>1. Listed /\ Budget => LogsBounded
  BY BudgetBounds
<1> QED
  BY <1>1, StartupHolds, PTL
=============================================================================
