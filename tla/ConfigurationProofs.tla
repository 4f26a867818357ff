------------------------- MODULE ConfigurationProofs -------------------------
(***************************************************************************)
(* What the layers of a configuration come to, setting by setting, for any *)
(* data that a TOML file can hold: the later layer where it says anything, *)
(* the earlier one elsewhere, unless the later one has something that is   *)
(* not a table above the setting.                                          *)
(***************************************************************************)
EXTENDS Configuration, SequenceTheorems, TLAPS

(* A setting has two keys, or three that begin with "engines".             *)
LEMMA SettingsListed ==
  ASSUME NEW p \in Settings
  PROVE  \/ \E s \in DOMAIN SectionDefaults : \E key \in DOMAIN SectionDefaults[s] :
              s # "engines" /\ p = <<s, key>>
         \/ \E e \in Engines : \E key \in DOMAIN EngineDefaults : p = <<"engines", e, key>>
<1>1. "engines" \notin DOMAIN SectionDefaults
  BY DEF SectionDefaults
<1>2. QED
  BY <1>1 DEF Settings

LEMMA KindFacts ==
  /\ \A t : Table(t).table = t /\ IsTable(Table(t)) /\ Table(t) # Unset
  /\ ~IsTable(Unset)
  /\ \A v : IsValue(v) => v # Unset
<1>1. DOMAIN Unset = {"unset"} /\ \A t : DOMAIN Table(t) = {"table"}
  BY DEF Unset, Table
<1>2. \A t : Table(t).table = t
  BY DEF Table
<1>3. \A t : IsTable(Table(t)) /\ Table(t) # Unset
  BY <1>1 DEF IsTable, Kind
<1>4. ~IsTable(Unset)
  BY <1>1 DEF IsTable, Kind
<1>5. \A v : IsValue(v) => v # Unset
  BY <1>1 DEF IsValue
<1>6. QED
  BY <1>2, <1>3, <1>4, <1>5

(* What is under the top of the data.                                      *)
Entry(data, key) == IF key \in DOMAIN data THEN data[key] ELSE Unset

LEMMA UnderFacts ==
  ASSUME NEW entries, NEW key
  PROVE  /\ Under(Table(entries), key) = Entry(entries, key)
         /\ Under(Unset, key) = Unset
BY KindFacts DEF Under, Entry

(* Paths of one, two and three keys.                                       *)
LEMMA AtOne ==
  ASSUME NEW data, NEW a
  PROVE  At(data, <<a>>) = Entry(data, a)
<1> DEFINE p == <<a>>
           R(f) == [n \in 0 .. Len(p) |-> IF n = 0 THEN Table(data) ELSE Under(f[n - 1], p[n])]
           w == [n \in 0 .. 1 |-> IF n = 0 THEN Table(data) ELSE Under(Table(data), a)]
<1>1. w = R(w)
  OBVIOUS
<1>2. \E f : f = R(f)
  BY <1>1
<1>3. PICK at : at = R(at) /\ At(data, p) = at[Len(p)]
  BY <1>2 DEF At
<1>4. at[0] = Table(data)
  BY <1>3
<1>5. at[1] = Under(at[0], a)
  BY <1>3
<1>6. QED
  BY <1>3, <1>4, <1>5, UnderFacts

LEMMA AtTwo ==
  ASSUME NEW data, NEW a, NEW b
  PROVE  At(data, <<a, b>>) = Under(Entry(data, a), b)
<1> DEFINE p == <<a, b>>
           R(f) == [n \in 0 .. Len(p) |-> IF n = 0 THEN Table(data) ELSE Under(f[n - 1], p[n])]
           first == Under(Table(data), a)
           w == [n \in 0 .. 2 |-> IF n = 0 THEN Table(data)
                                  ELSE IF n = 1 THEN first ELSE Under(first, b)]
<1>1. w = R(w)
  OBVIOUS
<1>2. \E f : f = R(f)
  BY <1>1
<1>3. PICK at : at = R(at) /\ At(data, p) = at[Len(p)]
  BY <1>2 DEF At
<1>4. at[0] = Table(data) /\ at[1] = Under(at[0], a) /\ at[2] = Under(at[1], b)
  BY <1>3
<1>5. QED
  BY <1>3, <1>4, UnderFacts

LEMMA AtThree ==
  ASSUME NEW data, NEW a, NEW b, NEW c
  PROVE  At(data, <<a, b, c>>) = Under(Under(Entry(data, a), b), c)
<1> DEFINE p == <<a, b, c>>
           R(f) == [n \in 0 .. Len(p) |-> IF n = 0 THEN Table(data) ELSE Under(f[n - 1], p[n])]
           first == Under(Table(data), a)
           w == [n \in 0 .. 3 |-> IF n = 0 THEN Table(data)
                                  ELSE IF n = 1 THEN first
                                  ELSE IF n = 2 THEN Under(first, b)
                                  ELSE Under(Under(first, b), c)]
<1>1. w = R(w)
  OBVIOUS
<1>2. \E f : f = R(f)
  BY <1>1
<1>3. PICK at : at = R(at) /\ At(data, p) = at[Len(p)]
  BY <1>2 DEF At
<1>4. /\ at[0] = Table(data) /\ at[1] = Under(at[0], a)
      /\ at[2] = Under(at[1], b) /\ at[3] = Under(at[2], c)
  BY <1>3
<1>5. QED
  BY <1>3, <1>4, UnderFacts

-----------------------------------------------------------------------------
(* Merging.                                                                *)

(* What is under a key of two layers that are not both tables there.       *)
Later(left, right, key) == IF key \in DOMAIN right THEN right[key] ELSE Entry(left, key)

BothTables(left, right, key) ==
  /\ key \in DOMAIN left \cap DOMAIN right
  /\ IsTable(left[key]) /\ IsTable(right[key])

LEMMA InSectionEntry ==
  ASSUME NEW left, NEW right, NEW key
  PROVE  Entry(MergeInSection(left, right), key) =
           IF BothTables(left, right, key) THEN Table(right[key].table)
           ELSE Later(left, right, key)
BY DEF MergeInSection, Overlay, Entry, BothTables, Later

LEMMA SectionsEntry ==
  ASSUME NEW left, NEW right, NEW key
  PROVE  Entry(MergeSections(left, right), key) =
           IF BothTables(left, right, key)
           THEN Table(MergeInSection(left[key].table, right[key].table))
           ELSE Later(left, right, key)
BY DEF MergeSections, Overlay, Entry, BothTables, Later

LEMMA MergeEntry ==
  ASSUME NEW left, NEW right, NEW key
  PROVE  Entry(DeepMerge(left, right), key) =
           IF BothTables(left, right, key)
           THEN Table(MergeSections(left[key].table, right[key].table))
           ELSE Later(left, right, key)
BY DEF DeepMerge, Overlay, Entry, BothTables, Later

LEMMA Beginnings ==
  ASSUME NEW u, NEW a, NEW b, u[1] = a, u[2] = b
  PROVE  SubSeq(u, 1, 1) = <<a>> /\ SubSeq(u, 1, 2) = <<a, b>>
<1> DEFINE S == {a, b}
           one == SubSeq(u, 1, 1)
           two == SubSeq(u, 1, 2)
<1>1. one \in Seq(S) /\ Len(one) = 1 /\ one[1] = a
  <2>1. \A i \in 1 .. 1 : u[i] \in S
    OBVIOUS
  <2>2. /\ SubSeq(u, 1, 1) \in Seq(S) /\ Len(SubSeq(u, 1, 1)) = 1
        /\ \A i \in 1 .. 1 : SubSeq(u, 1, 1)[i] = u[1 + i - 1]
    BY ONLY <2>1, SubSeqProperties, SMT
  <2>3. QED
    BY <2>2
<1>2. two \in Seq(S) /\ Len(two) = 2 /\ two[1] = a /\ two[2] = b
  <2>1. \A i \in 1 .. 2 : u[i] \in S
    OBVIOUS
  <2>2. /\ SubSeq(u, 1, 2) \in Seq(S) /\ Len(SubSeq(u, 1, 2)) = 2
        /\ \A i \in 1 .. 2 : SubSeq(u, 1, 2)[i] = u[1 + i - 1]
    BY ONLY <2>1, SubSeqProperties, SMT
  <2>3. QED
    BY <2>2
<1> HIDE DEF one, two
<1>3. one = <<a>>
  BY <1>1
<1>4. two = <<a, b>>
  BY <1>2
<1>5. QED
  BY <1>3, <1>4 DEF one, two

LEMMA AboveFacts ==
  ASSUME NEW a, NEW b, NEW c
  PROVE  Above(<<a, b>>) = {<<a>>} /\ Above(<<a, b, c>>) = {<<a>>, <<a, b>>}
<1>1. SubSeq(<<a, b>>, 1, 1) = <<a>>
  BY Beginnings
<1>2. SubSeq(<<a, b, c>>, 1, 1) = <<a>> /\ SubSeq(<<a, b, c>>, 1, 2) = <<a, b>>
  <2>1. <<a, b, c>>[1] = a /\ <<a, b, c>>[2] = b
    OBVIOUS
  <2>2. QED
    BY <2>1, Beginnings
<1>3. 1 .. Len(<<a, b>>) - 1 = {1} /\ 1 .. Len(<<a, b, c>>) - 1 = {1, 2}
  OBVIOUS
<1>4. Above(<<a, b>>) = {<<a>>}
  BY <1>1, <1>3 DEF Above
<1>5. Above(<<a, b, c>>) = {<<a>>, <<a, b>>}
  BY <1>2, <1>3 DEF Above
<1>6. QED
  BY <1>4, <1>5

(* Something in the data that is not a table is above the setting.         *)
Hides(data, p) == \E q \in Above(p) : At(data, q) # Unset /\ ~IsTable(At(data, q))

(* What two layers come to two keys deep.                                  *)
LEMMA SecondLevel ==
  ASSUME NEW left, NEW right, IsData(right), NEW s, NEW key
  PROVE  LET r == Entry(right, s)
             lk == Under(Entry(left, s), key)
             rk == Under(r, key)
             mk == Under(Entry(DeepMerge(left, right), s), key)
         IN  /\ IsTable(lk) /\ IsTable(rk) =>
                  mk = Table(MergeInSection(lk.table, rk.table)) /\ HasValues(rk.table)
             /\ ~(IsTable(lk) /\ IsTable(rk)) /\ rk # Unset => mk = rk
             /\ rk = Unset => mk = IF r # Unset /\ ~IsTable(r) THEN Unset ELSE lk
<1> DEFINE m == Entry(DeepMerge(left, right), s)
           l == Entry(left, s)
           r == Entry(right, s)
           lk == Under(l, key)
           rk == Under(r, key)
           mk == Under(m, key)
<1>1. CASE BothTables(left, right, s)
  <2>1. /\ m = Table(MergeSections(l.table, r.table)) /\ IsTable(l) /\ IsTable(r)
        /\ IsSection(r.table)
    BY <1>1, MergeEntry DEF BothTables, Entry, IsData
  <2>2. /\ mk = Entry(MergeSections(l.table, r.table), key)
        /\ lk = Entry(l.table, key) /\ rk = Entry(r.table, key)
    BY <2>1, UnderFacts DEF Under, Entry
  <2>3. rk = Unset <=> key \notin DOMAIN r.table
    BY <2>1, <2>2, KindFacts DEF IsSection, HasValues, Entry
  <2>4. CASE BothTables(l.table, r.table, key)
    <3>1. /\ mk = Table(MergeInSection(lk.table, rk.table)) /\ IsTable(lk) /\ IsTable(rk)
          /\ HasValues(rk.table)
      BY <2>1, <2>2, <2>4, SectionsEntry DEF BothTables, Entry, IsSection
    <3>2. QED
      BY <3>1, KindFacts
  <2>5. CASE ~BothTables(l.table, r.table, key)
    <3>1. mk = Later(l.table, r.table, key)
      BY <2>2, <2>5, SectionsEntry
    <3>2. mk = IF rk = Unset THEN lk ELSE rk
      BY <2>2, <2>3, <3>1 DEF Later, Entry
    <3>3. ~(IsTable(lk) /\ IsTable(rk))
      BY <2>2, <2>5, KindFacts DEF BothTables, Entry
    <3>4. QED
      BY <2>1, <3>2, <3>3
  <2>6. QED
    BY <2>4, <2>5
<1>2. CASE ~BothTables(left, right, s)
  <2>1. m = Later(left, right, s)
    BY <1>2, MergeEntry
  <2>2. s \in DOMAIN right => m = r /\ r # Unset
    BY <2>1, KindFacts DEF Later, Entry, IsData, HasValues
  <2>3. s \notin DOMAIN right => m = l /\ r = Unset /\ rk = Unset
    BY <2>1, UnderFacts DEF Later, Entry
  <2>4. s \in DOMAIN right /\ IsTable(r) => lk = Unset
    BY <1>2, KindFacts DEF BothTables, Entry, Under
  <2>5. ~IsTable(r) => rk = Unset
    BY DEF Under
  <2>6. QED
    BY <2>2, <2>3, <2>4, <2>5, KindFacts
<1>3. QED
  BY <1>1, <1>2

(* What two layers come to at a setting.                                   *)
MergedAt(left, right, p) ==
  LET merged == At(DeepMerge(left, right), p)
  IN  /\ At(right, p) # Unset => merged = At(right, p) \/ IsTable(merged)
      /\ At(right, p) = Unset => merged = IF Hides(right, p) THEN Unset ELSE At(left, p)

LEMMA LayersAt ==
  ASSUME NEW left, NEW right, IsData(right), NEW p \in Settings
  PROVE  MergedAt(left, right, p)
<1>1. ASSUME NEW s, NEW key, p = <<s, key>>
      PROVE  MergedAt(left, right, p)
  <2>1. /\ At(DeepMerge(left, right), p) = Under(Entry(DeepMerge(left, right), s), key)
        /\ At(left, p) = Under(Entry(left, s), key) /\ At(right, p) = Under(Entry(right, s), key)
        /\ Hides(right, p) = (Entry(right, s) # Unset /\ ~IsTable(Entry(right, s)))
    BY <1>1, AtOne, AtTwo, AboveFacts DEF Hides
  <2> DEFINE r == Entry(right, s)
             lk == Under(Entry(left, s), key)
             rk == Under(r, key)
             mk == Under(Entry(DeepMerge(left, right), s), key)
  <2>2. /\ rk # Unset => mk = rk \/ IsTable(mk)
        /\ rk = Unset => mk = IF r # Unset /\ ~IsTable(r) THEN Unset ELSE lk
    BY SecondLevel, KindFacts
  <2>3. QED
    BY <2>1, <2>2 DEF MergedAt
<1>2. ASSUME NEW s, NEW key, NEW last, p = <<s, key, last>>
      PROVE  MergedAt(left, right, p)
  <2> DEFINE r == Entry(right, s)
             lk == Under(Entry(left, s), key)
             rk == Under(r, key)
             mk == Under(Entry(DeepMerge(left, right), s), key)
  <2>1. /\ At(DeepMerge(left, right), p) = Under(mk, last)
        /\ At(left, p) = Under(lk, last) /\ At(right, p) = Under(rk, last)
        /\ Hides(right, p) = \/ r # Unset /\ ~IsTable(r)
                             \/ rk # Unset /\ ~IsTable(rk)
    <3>1. Above(p) = {<<s>>, <<s, key>>}
      BY <1>2, AboveFacts
    <3>2. At(right, <<s>>) = r /\ At(right, <<s, key>>) = rk
      BY AtOne, AtTwo
    <3>3. Hides(right, p) = \/ r # Unset /\ ~IsTable(r)
                            \/ rk # Unset /\ ~IsTable(rk)
      BY <3>1, <3>2 DEF Hides
    <3>4. QED
      BY <1>2, <3>3, AtThree
  <2>2. CASE IsTable(lk) /\ IsTable(rk)
    <3>1. mk = Table(MergeInSection(lk.table, rk.table)) /\ HasValues(rk.table)
      BY <2>2, SecondLevel
    <3>2. /\ Under(mk, last) = Entry(MergeInSection(lk.table, rk.table), last)
          /\ Under(lk, last) = Entry(lk.table, last) /\ Under(rk, last) = Entry(rk.table, last)
      BY <2>2, <3>1, UnderFacts DEF Under, Entry
    <3>3. Under(rk, last) = Unset <=> last \notin DOMAIN rk.table
      BY <3>1, <3>2, KindFacts DEF HasValues, Entry
    <3>4. IsTable(r) /\ rk # Unset
      BY <2>2, KindFacts DEF Under
    <3>5. CASE BothTables(lk.table, rk.table, last)
      BY <2>1, <3>2, <3>3, <3>5, InSectionEntry, KindFacts DEF MergedAt, BothTables
    <3>6. CASE ~BothTables(lk.table, rk.table, last)
      <4>1. Under(mk, last) = Later(lk.table, rk.table, last)
        BY <3>2, <3>6, InSectionEntry
      <4>2. QED
        BY <2>1, <2>2, <3>2, <3>3, <3>4, <4>1 DEF MergedAt, Later, Entry
    <3>7. QED
      BY <3>5, <3>6
  <2>3. CASE ~(IsTable(lk) /\ IsTable(rk)) /\ rk # Unset
    <3>1. mk = rk
      BY <2>3, SecondLevel
    <3>2. ~IsTable(rk) => Under(rk, last) = Unset
      BY DEF Under
    <3>3. IsTable(rk) => Under(lk, last) = Unset /\ (r = Unset \/ IsTable(r))
      BY <2>3, KindFacts DEF Under
    <3>4. QED
      BY <2>1, <2>3, <3>1, <3>2, <3>3 DEF MergedAt
  <2>4. CASE rk = Unset
    <3>1. mk = IF r # Unset /\ ~IsTable(r) THEN Unset ELSE lk
      BY <2>4, SecondLevel
    <3>2. QED
      BY <2>1, <2>4, <3>1, UnderFacts DEF MergedAt
  <2>5. QED
    BY <2>2, <2>3, <2>4, KindFacts
<1>3. QED
  BY <1>1, <1>2, SettingsListed

-----------------------------------------------------------------------------
(* The layers of the environment and of the options: some settings, each   *)
(* with a value of its own.                                                *)

Inner(values, s, key) ==
  [last \in {p[3] : p \in {q \in DOMAIN values : q[1] = s /\ q[2] = key}} |->
     values[<<s, key, last>>]]
Section(values, s) ==
  [key \in {p[2] : p \in {q \in DOMAIN values : q[1] = s}} |->
     IF <<s, key>> \in DOMAIN values THEN values[<<s, key>>] ELSE Table(Inner(values, s, key))]

LEMMA NestedSections ==
  ASSUME NEW values
  PROVE  Nested(values) =
           [s \in {p[1] : p \in DOMAIN values} |-> Table(Section(values, s))]
BY DEF Nested, Section, Inner

Leaves(values) ==
  /\ DOMAIN values \subseteq Settings
  /\ \A p \in DOMAIN values : IsValue(values[p]) /\ ~IsTable(values[p])

(* A setting that begins like another one is that one.                     *)
LEMMA SettingsApart ==
  ASSUME NEW p \in Settings, NEW s, NEW key, p[1] = s, p[2] = key
  PROVE  /\ s # "engines" => p = <<s, key>>
         /\ s = "engines" => p = <<s, key, p[3]>> /\ <<s, key>> \notin Settings
<1>1. ASSUME NEW t, t # "engines", NEW k, p = <<t, k>>
      PROVE  s # "engines" /\ p = <<s, key>>
  BY <1>1
<1>2. ASSUME NEW e, NEW k, p = <<"engines", e, k>>
      PROVE  s = "engines" /\ p = <<s, key, p[3]>>
  BY <1>2
<1>3. s = "engines" => <<s, key>> \notin Settings
  <2> SUFFICES ASSUME s = "engines", <<s, key>> \in Settings PROVE FALSE
    OBVIOUS
  <2>1. Len(<<s, key>>) = 2 /\ <<s, key>>[1] = "engines"
    OBVIOUS
  <2>2. \A t, k : <<s, key>> = <<t, k>> => t = "engines"
    OBVIOUS
  <2>3. \A e, k : <<s, key>> # <<"engines", e, k>>
    OBVIOUS
  <2>4. QED
    BY <2>2, <2>3, SettingsListed
<1>4. QED
  BY <1>1, <1>2, <1>3, SettingsListed

LEMMA NestedAt ==
  ASSUME NEW values, Leaves(values)
  PROVE  /\ IsData(Nested(values))
         /\ \A p \in Settings :
              /\ At(Nested(values), p) = IF p \in DOMAIN values THEN values[p] ELSE Unset
              /\ ~Hides(Nested(values), p)
<1> DEFINE N == Nested(values)
<1>1. \A t : IsValue(Table(t))
  BY DEF IsValue, Table
<1>2. \A s : Entry(N, s) = IF \E q \in DOMAIN values : q[1] = s
                           THEN Table(Section(values, s)) ELSE Unset
  BY NestedSections DEF Entry
<1>3. \A s, key : Entry(Section(values, s), key) =
        IF \E q \in DOMAIN values : q[1] = s /\ q[2] = key
        THEN IF <<s, key>> \in DOMAIN values THEN values[<<s, key>>]
             ELSE Table(Inner(values, s, key))
        ELSE Unset
  BY DEF Entry, Section
<1>4. \A s, key, last : Entry(Inner(values, s, key), last) =
        IF \E q \in DOMAIN values : q[1] = s /\ q[2] = key /\ q[3] = last
        THEN values[<<s, key, last>>] ELSE Unset
  BY DEF Entry, Inner
<1>5. ASSUME NEW s, NEW q \in DOMAIN values, q[1] = s
      PROVE  IsSection(Section(values, s))
  <2>1. ASSUME NEW key \in DOMAIN Section(values, s)
        PROVE  /\ IsValue(Section(values, s)[key])
               /\ IsTable(Section(values, s)[key]) => HasValues(Section(values, s)[key].table)
    <3>1. PICK p \in DOMAIN values : p[1] = s /\ p[2] = key
      BY <2>1 DEF Section
    <3>2. CASE <<s, key>> \in DOMAIN values
      <4>1. Section(values, s)[key] = values[<<s, key>>]
        BY <2>1, <3>2 DEF Section
      <4>2. QED
        BY <3>2, <4>1 DEF Leaves
    <3>3. CASE <<s, key>> \notin DOMAIN values
      <4>1. Section(values, s)[key] = Table(Inner(values, s, key))
        BY <2>1, <3>3 DEF Section
      <4>2. \A last \in DOMAIN Inner(values, s, key) : <<s, key, last>> \in DOMAIN values
        <5> SUFFICES ASSUME NEW last \in DOMAIN Inner(values, s, key)
                     PROVE  <<s, key, last>> \in DOMAIN values
          OBVIOUS
        <5>1. PICK u \in DOMAIN values : u[1] = s /\ u[2] = key /\ u[3] = last
          BY DEF Inner
        <5>2. QED
          BY <3>3, <5>1, SettingsApart DEF Leaves
      <4>3. HasValues(Inner(values, s, key))
        BY <4>2 DEF HasValues, Inner, Leaves
      <4>4. QED
        BY <1>1, <4>1, <4>3, KindFacts
    <3>4. QED
      BY <3>2, <3>3
  <2>2. QED
    BY <2>1 DEF IsSection, HasValues
<1>6. IsData(N)
  <2>1. \A s \in DOMAIN N : N[s] = Table(Section(values, s)) /\ IsSection(Section(values, s))
    BY <1>5, NestedSections
  <2>2. QED
    BY <1>1, <2>1, KindFacts DEF IsData, HasValues
<1>7. ASSUME NEW p \in Settings
      PROVE  /\ At(N, p) = IF p \in DOMAIN values THEN values[p] ELSE Unset
             /\ ~Hides(N, p)
  <2>1. ASSUME NEW s, NEW key, s # "engines", p = <<s, key>>
        PROVE  /\ At(N, p) = IF p \in DOMAIN values THEN values[p] ELSE Unset
               /\ ~Hides(N, p)
    <3>1. At(N, p) = Under(Entry(N, s), key)
      BY <2>1, AtTwo
    <3>2. \A q \in DOMAIN values : q[1] = s /\ q[2] = key => q = p
      BY <2>1, SettingsApart DEF Leaves
    <3>3. p[1] = s /\ p[2] = key
      BY <2>1
    <3>4. Hides(N, p) = (Entry(N, s) # Unset /\ ~IsTable(Entry(N, s)))
      BY <2>1, AboveFacts, AtOne DEF Hides
    <3> HIDE DEF N
    <3>5. Entry(N, s) = Unset \/ IsTable(Entry(N, s))
      BY <1>2, KindFacts
    <3>6. At(N, p) = IF \E q \in DOMAIN values : q[1] = s /\ q[2] = key
                     THEN IF <<s, key>> \in DOMAIN values THEN values[<<s, key>>]
                          ELSE Table(Inner(values, s, key))
                     ELSE Unset
      BY <1>2, <1>3, <3>1, UnderFacts
    <3>7. QED
      BY <2>1, <3>2, <3>3, <3>4, <3>5, <3>6
  <2>2. ASSUME NEW key, NEW last, p = <<"engines", key, last>>
        PROVE  /\ At(N, p) = IF p \in DOMAIN values THEN values[p] ELSE Unset
               /\ ~Hides(N, p)
    <3> DEFINE s == "engines"
    <3>1. At(N, p) = Under(Under(Entry(N, s), key), last)
      BY <2>2, AtThree
    <3>2. p[1] = s /\ p[2] = key /\ p[3] = last
      BY <2>2
    <3>3. \A q \in DOMAIN values : q[1] = s /\ q[2] = key /\ q[3] = last => q = p
      BY <2>2, SettingsApart DEF Leaves
    <3>4. <<s, key>> \notin DOMAIN values
      BY <3>2, SettingsApart DEF Leaves
    <3>5. At(N, <<s>>) = Entry(N, s) /\ At(N, <<s, key>>) = Under(Entry(N, s), key)
      BY AtOne, AtTwo
    <3>6. Above(p) = {<<s>>, <<s, key>>}
      BY <2>2, AboveFacts
    <3> HIDE DEF N, s
    <3>7. Entry(N, s) = Unset \/ IsTable(Entry(N, s))
      BY <1>2, KindFacts
    <3>8. Under(Entry(N, s), key) = IF \E q \in DOMAIN values : q[1] = s /\ q[2] = key
                                    THEN Table(Inner(values, s, key)) ELSE Unset
      BY <1>2, <1>3, <3>4, UnderFacts
    <3>9. ~Hides(N, p)
      BY <3>5, <3>6, <3>7, <3>8, KindFacts DEF Hides
    <3>10. At(N, p) = IF \E q \in DOMAIN values : q[1] = s /\ q[2] = key /\ q[3] = last
                      THEN values[<<s, key, last>>] ELSE Unset
      BY <1>4, <3>1, <3>8, UnderFacts
    <3>11. QED
      BY <2>2, <3>2, <3>3, <3>9, <3>10 DEF s
  <2>3. QED
    BY <2>1, <2>2, SettingsListed
<1>8. QED
  BY <1>6, <1>7

LEMMA ScalarFacts ==
  ASSUME NEW t
  PROVE  /\ IsValue(Text(t)) /\ ~IsTable(Text(t))
         /\ IsValue(Flag(t)) /\ ~IsTable(Flag(t))
<1>1. DOMAIN Text(t) = {"text"} /\ DOMAIN Flag(t) = {"flag"}
  BY DEF Text, Flag
<1>2. Kind(Text(t)) = "text" /\ Kind(Flag(t)) = "flag"
  BY <1>1 DEF Kind
<1>3. QED
  BY <1>1, <1>2 DEF IsValue, IsTable

LEMMA SettingsFacts ==
  /\ Profile \in Settings /\ Verbose \in Settings /\ Profile # Verbose
  /\ \A name \in DOMAIN EnvMap : EnvMap[name] \in Settings
<1> DEFINE Two == UNION {{<<s, key>> : key \in DOMAIN SectionDefaults[s]} :
                           s \in DOMAIN SectionDefaults}
           Three == {<<"engines", e, key>> : e \in Engines, key \in DOMAIN EngineDefaults}
<1>1. /\ {"app", "quarantine"} \subseteq DOMAIN SectionDefaults
      /\ {"default_profile", "report_output_dir", "verbose"} \subseteq DOMAIN SectionDefaults.app
      /\ "directory" \in DOMAIN SectionDefaults.quarantine
      /\ {"executable", "database_dir", "rules_dir", "manifest"} \subseteq DOMAIN EngineDefaults
  BY DEF SectionDefaults, EngineDefaults
<1>2. /\ {<<"app", "default_profile">>, <<"app", "report_output_dir">>, <<"app", "verbose">>,
          <<"quarantine", "directory">>} \subseteq Two
  BY <1>1
<1>3. \A e \in Engines, key \in DOMAIN EngineDefaults : <<"engines", e, key>> \in Three
  OBVIOUS
<1>4. Settings = Two \cup Three
  BY DEF Settings
<1> HIDE DEF Two, Three
<1>5. Profile \in Settings /\ Verbose \in Settings
  BY <1>2, <1>4 DEF Profile, Verbose
<1>6. Profile # Verbose
  BY DEF Profile, Verbose
<1>7. \A e \in Engines, key \in {"executable", "database_dir", "rules_dir", "manifest"} :
        <<"engines", e, key>> \in Settings
  BY <1>1, <1>3, <1>4
<1>8. ASSUME NEW name \in DOMAIN EnvMap
      PROVE  EnvMap[name] \in Settings
  <2>1. CASE name \in {"SCANBOX_DEFAULT_PROFILE", "SCANBOX_VERBOSE",
                      "SCANBOX_REPORT_OUTPUT_DIR", "SCANBOX_QUARANTINE_DIRECTORY"}
    <3>1. EnvMap[name] \in {<<"app", "default_profile">>, <<"app", "report_output_dir">>,
                           <<"app", "verbose">>, <<"quarantine", "directory">>}
      BY ONLY <2>1 DEF EnvMap
    <3>2. QED
      BY ONLY <1>2, <1>4, <3>1
  <2>2. CASE name \in {"SCANBOX_CLAMAV_EXECUTABLE", "SCANBOX_CLAMAV_DATABASE_DIR",
                      "SCANBOX_YARA_RULES_DIR", "SCANBOX_YARA_MANIFEST",
                      "SCANBOX_CAPA_EXECUTABLE", "SCANBOX_CAPA_RULES_DIR",
                      "SCANBOX_CAPA_MANIFEST"}
    <3>1. PICK e \in Engines, key \in {"executable", "database_dir", "rules_dir", "manifest"} :
            EnvMap[name] = <<"engines", e, key>>
      BY ONLY <2>2 DEF EnvMap, Engines
    <3>2. QED
      BY ONLY <1>7, <3>1
  <2>3. QED
    BY ONLY <2>1, <2>2, <1>8 DEF EnvMap
<1>9. QED
  BY <1>5, <1>6, <1>8

(* The environment says what it says, and hides nothing.                   *)
LEMMA EnvLayer ==
  ASSUME NEW env, DOMAIN env \subseteq DOMAIN EnvMap
  PROVE  /\ IsData(ReadEnv(env))
         /\ \A p \in Settings : /\ At(ReadEnv(env), p) = EnvSays(env, p)
                                /\ ~Hides(ReadEnv(env), p)
<1> DEFINE values == [p \in {EnvMap[name] : name \in DOMAIN env} |->
                        ParseEnvValue(env[CHOOSE name \in EnvNames(env, p) : TRUE])]
<1>1. \A t : IsValue(ParseEnvValue(t)) /\ ~IsTable(ParseEnvValue(t))
  BY ScalarFacts DEF ParseEnvValue
<1>2. Leaves(values)
  BY <1>1, SettingsFacts DEF Leaves
<1>3. ReadEnv(env) = Nested(values)
  BY DEF ReadEnv
<1>4. \A p : EnvSays(env, p) = IF p \in DOMAIN values THEN values[p] ELSE Unset
  BY DEF EnvSays, EnvNames
<1> HIDE DEF values
<1>5. QED
  BY <1>2, <1>3, <1>4, NestedAt

(* So do the options.                                                      *)
LEMMA OptionLayer ==
  ASSUME NEW sources
  PROVE  /\ IsData(CliData(sources))
         /\ \A p \in Settings : /\ At(CliData(sources), p) = OptionSays(sources, p)
                                /\ ~Hides(CliData(sources), p)
<1> DEFINE values == [p \in (IF sources.profile = "" THEN {} ELSE {Profile})
                              \cup (IF sources.verbose THEN {Verbose} ELSE {}) |->
                        IF p = Profile THEN Text(sources.profile) ELSE Flag(TRUE)]
<1>1. Leaves(values)
  BY ScalarFacts, SettingsFacts DEF Leaves
<1>2. CliData(sources) = Nested(values)
  BY DEF CliData
<1>3. \A p : OptionSays(sources, p) = IF p \in DOMAIN values THEN values[p] ELSE Unset
  BY SettingsFacts DEF OptionSays
<1> HIDE DEF values
<1>4. QED
  BY <1>1, <1>2, <1>3, NestedAt

-----------------------------------------------------------------------------
(* All of the layers.                                                      *)

(* No setting has a table for its value.                                   *)
LEMMA AcceptedIsNoTable ==
  ASSUME NEW p, NEW v, Accepts(p, v)
  PROVE  ~IsTable(v)
BY DEF Accepts, IsTable

FileLayers(sources) ==
  IF UsesLocal(sources) THEN DeepMerge(sources.file.data, sources.local.data)
  ELSE sources.file.data
EnvLayers(sources) == DeepMerge(FileLayers(sources), ReadEnv(sources.env))
AllLayers(sources) == DeepMerge(EnvLayers(sources), CliData(sources))

(* What a command that is not rejected runs with is what it is told.       *)
LEMMA LayersAreTold ==
  ASSUME NEW sources, IsData(sources.local.data), DOMAIN sources.env \subseteq DOMAIN EnvMap,
         ~Rejected(AllLayers(sources)), NEW p \in Settings
  PROVE  Configured(AllLayers(sources))[p] = Normalized(p, Told(sources, p))
<1> DEFINE v == At(AllLayers(sources), p)
           local == IF UsesLocal(sources) THEN At(sources.local.data, p) ELSE Unset
           file == IF LocalHides(sources, p) THEN Unset ELSE At(sources.file.data, p)
           env == EnvSays(sources.env, p)
           option == OptionSays(sources, p)
           said == <<file, local, env, option>>
           given == {k \in DOMAIN said : said[k] # Unset}
<1>1. ~IsTable(v)
  BY AcceptedIsNoTable, KindFacts DEF Rejected
<1>2. v = IF option # Unset THEN option ELSE At(EnvLayers(sources), p)
  BY <1>1, OptionLayer, LayersAt DEF MergedAt, AllLayers
<1>3. option = Unset =>
        At(EnvLayers(sources), p) = IF env # Unset THEN env ELSE At(FileLayers(sources), p)
  BY <1>1, <1>2, EnvLayer, LayersAt DEF MergedAt, EnvLayers
<1>4. option = Unset /\ env = Unset =>
        At(FileLayers(sources), p) = IF local # Unset THEN local ELSE file
  <2>1. Hides(sources.local.data, p) /\ UsesLocal(sources) <=> LocalHides(sources, p)
    BY DEF Hides, LocalHides
  <2>2. QED
    BY <1>1, <1>2, <1>3, <2>1, LayersAt DEF MergedAt, FileLayers
<1>5. v = IF option # Unset THEN option ELSE IF env # Unset THEN env
          ELSE IF local # Unset THEN local ELSE file
  BY <1>2, <1>3, <1>4
<1>6. Told(sources, p) = IF given = {} THEN Default(p) ELSE Converted(p, said[Max(given)])
  BY DEF Told
<1> HIDE DEF v, local, file, env, option
<1>7. /\ DOMAIN said = 1 .. 4
      /\ said[1] = file /\ said[2] = local /\ said[3] = env /\ said[4] = option
  OBVIOUS
<1>8. \A k \in given : (\A j \in given : k >= j) => Max(given) = k
  BY <1>7 DEF Max
<1> HIDE DEF said
<1>9. v = IF given = {} THEN Unset ELSE said[Max(given)]
  <2>1. CASE option # Unset
    BY <1>5, <1>7, <1>8, <2>1
  <2>2. CASE option = Unset /\ env # Unset
    BY <1>5, <1>7, <1>8, <2>2
  <2>3. CASE option = Unset /\ env = Unset /\ local # Unset
    BY <1>5, <1>7, <1>8, <2>3
  <2>4. CASE option = Unset /\ env = Unset /\ local = Unset /\ file # Unset
    BY <1>5, <1>7, <1>8, <2>4
  <2>5. CASE option = Unset /\ env = Unset /\ local = Unset /\ file = Unset
    BY <1>5, <1>7, <2>5
  <2>6. QED
    BY <2>1, <2>2, <2>3, <2>4, <2>5
<1>10. v = Unset <=> given = {}
  <2>1. given # {} => Max(given) \in given
    <3>1. \A k \in given : k \in 1 .. 4
      BY <1>7
    <3>2. given # {} => \E k \in given : \A j \in given : k >= j
      BY <3>1
    <3>3. QED
      BY <1>8, <3>2
  <2>2. QED
    BY <1>9, <2>1
<1>11. Told(sources, p) = IF v = Unset THEN Default(p) ELSE Converted(p, v)
  BY <1>6, <1>9, <1>10
<1>12. QED
  BY <1>11 DEF Configured, v
=============================================================================
