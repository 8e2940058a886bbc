--------------------------- MODULE ConfFileProofs ---------------------------
(***************************************************************************)
(* Proofs about configuration files: what survives writing and reading,    *)
(* and that the lookups agree, for every set of names, values and files.   *)
(*                                                                         *)
(* A file is read line by line, so most of the facts are about files of    *)
(* any length.  They are proved by climbing the naturals: a set of         *)
(* naturals that holds 0 and the successor of each of its elements holds   *)
(* them all (Climb).                                                       *)
(***************************************************************************)
EXTENDS ConfFile, WellFoundedInduction, FiniteSetTheorems, SequenceTheorems, TLAPS

-----------------------------------------------------------------------------
(* The naturals.                                                           *)

Below == {p \in Nat \X Nat : p[1] < p[2]}

LEMMA BelowIsWellFounded == IsWellFoundedOn(Below, Nat)
<1>1. IsWellFoundedOn(OpToRel(<, Nat), Nat)
  BY NatLessThanWellFounded
<1>2. OpToRel(<, Nat) = Below
  BY DEF OpToRel, Below
<1> QED BY <1>1, <1>2

(* A set of naturals that is not empty has a least element. *)
LEMMA Least ==
  ASSUME NEW T, T \subseteq Nat, T # {}
  PROVE  \E m \in T : \A k \in T : m <= k
<1>1. \E m \in T : \A k \in T : ~(<<k, m>> \in Below)
  <2>1. IsWellFoundedOn(Below, Nat)
    BY BelowIsWellFounded
  <2> HIDE DEF Below
  <2> QED BY <2>1, WFMin, Zenon
<1>2. \A k, m \in Nat : k < m => <<k, m>> \in Below
  BY DEF Below
<1>3. PICK m \in T : \A k \in T : ~(<<k, m>> \in Below)
  BY <1>1
<1>4. \A k \in T : ~(k < m)
  <2> SUFFICES ASSUME NEW k \in T PROVE ~(k < m)
    OBVIOUS
  <2>1. k \in Nat /\ m \in Nat
    OBVIOUS
  <2> HIDE DEF Below
  <2> QED BY <1>2, <1>3, <2>1, Zenon
<1>5. \A k \in T : m <= k
  BY <1>4
<1> QED BY <1>5

LEMMA Climb ==
  ASSUME NEW T, 0 \in T, \A n \in Nat : n \in T => n + 1 \in T
  PROVE  Nat \subseteq T
<1> DEFINE U == Nat \ T
<1> SUFFICES ASSUME U # {} PROVE FALSE
  OBVIOUS
<1>1. PICK m \in U : \A k \in U : m <= k
  BY Least
<1>2. m # 0 /\ m \in Nat
  BY <1>1
<1>3. m - 1 \in Nat /\ m - 1 \notin U
  BY <1>1, <1>2
<1>4. m - 1 \in T /\ (m - 1) + 1 = m
  BY <1>2, <1>3
<1>5. (m - 1) + 1 \in T
  BY <1>3, <1>4
<1> QED BY <1>1, <1>2, <1>4, <1>5

-----------------------------------------------------------------------------
(* Reading one line after another.                                         *)

(* Take leads from r to r2 over the lines of f. *)
Leads(f, r, r2) ==
  \E st : /\ st = [n \in 0..Len(f) |-> st[n]]
          /\ st[0] = r /\ st[Len(f)] = r2
          /\ \A n \in 1..Len(f) : st[n] = Take(st[n - 1], f[n])

LEMMA LeadsOne ==
  ASSUME NEW l, NEW r
  PROVE  Leads(<<l>>, r, Take(r, l))
<1> DEFINE st == [n \in 0..1 |-> IF n = 0 THEN r ELSE Take(r, l)]
<1>1. Len(<<l>>) = 1 /\ <<l>>[1] = l
  OBVIOUS
<1>2. /\ st = [n \in 0..1 |-> st[n]]
      /\ st[0] = r /\ st[1] = Take(r, l)
  OBVIOUS
<1> HIDE DEF Take
<1>3. \A n \in 1..1 : st[n] = Take(st[n - 1], <<l>>[n])
  BY <1>1
<1> HIDE DEF st
<1> QED BY <1>1, <1>2, <1>3 DEF Leads

LEMMA LeadsNone ==
  ASSUME NEW r
  PROVE  Leads(<<>>, r, r)
<1> DEFINE st == [n \in 0..0 |-> r]
<1>1. st = [n \in 0..0 |-> st[n]] /\ st[0] = r
  OBVIOUS
<1> HIDE DEF st
<1> QED BY <1>1 DEF Leads

(* Two files, one behind the other. *)
LEMMA LeadsOn ==
  ASSUME NEW S, NEW f \in Seq(S), NEW g \in Seq(S), NEW r, NEW r2, NEW r3,
         Leads(f, r, r2), Leads(g, r2, r3)
  PROVE  Leads(f \o g, r, r3)
<1> HIDE DEF Take
<1>1. PICK a : /\ a = [n \in 0..Len(f) |-> a[n]]
               /\ a[0] = r /\ a[Len(f)] = r2
               /\ \A n \in 1..Len(f) : a[n] = Take(a[n - 1], f[n])
  BY DEF Leads
<1>2. PICK b : /\ b = [n \in 0..Len(g) |-> b[n]]
               /\ b[0] = r2 /\ b[Len(g)] = r3
               /\ \A n \in 1..Len(g) : b[n] = Take(b[n - 1], g[n])
  BY DEF Leads
<1> DEFINE m == Len(f)
           k == Len(g)
           st == [n \in 0..m + k |-> IF n <= m THEN a[n] ELSE b[n - m]]
<1>3. m \in Nat /\ k \in Nat /\ Len(f \o g) = m + k
  OBVIOUS
<1>4. st = [n \in 0..m + k |-> st[n]]
  OBVIOUS
<1>5. st[0] = r /\ st[m + k] = r3
  BY <1>1, <1>2, <1>3
<1>6. ASSUME NEW n \in 1..m + k
      PROVE  st[n] = Take(st[n - 1], (f \o g)[n])
  <2>1. CASE n <= m
    <3>1. (f \o g)[n] = f[n] /\ n \in 1..m
      BY <1>3, <2>1
    <3>2. st[n] = a[n] /\ st[n - 1] = a[n - 1]
      BY <1>3, <2>1
    <3> QED BY <1>1, <3>1, <3>2
  <2>2. CASE n > m
    <3>1. (f \o g)[n] = g[n - m] /\ n - m \in 1..k
      BY <1>3, <2>2
    <3>2. st[n] = b[n - m]
      BY <1>3, <2>2
    <3>3. st[n - 1] = b[n - m - 1]
      <4>1. CASE n - 1 = m
        BY <1>1, <1>2, <1>3, <4>1
      <4>2. CASE n - 1 # m
        <5>1. n - 1 > m /\ n - 1 \in 0..m + k /\ n - 1 - m = n - m - 1
          BY <1>3, <2>2, <4>2
        <5> QED BY <5>1, <1>3
      <4> QED BY <4>1, <4>2
    <3> QED BY <1>2, <3>1, <3>2, <3>3
  <2> QED BY <2>1, <2>2, <1>3
<1> HIDE DEF st
<1> QED BY <1>3, <1>4, <1>5, <1>6 DEF Leads

(* Read returns the state that Take leads to. *)
LEMMA LeadsToRead ==
  ASSUME NEW S, NEW f \in Seq(S), NEW r, Leads(f, Start, r)
  PROVE  Read(f) = r
<1> HIDE DEF Take, Start
<1> DEFINE Step(h) == [n \in 0..Len(f) |-> IF n = 0 THEN Start ELSE Take(h[n - 1], f[n])]
<1>1. PICK st : /\ st = [n \in 0..Len(f) |-> st[n]]
                /\ st[0] = Start /\ st[Len(f)] = r
                /\ \A n \in 1..Len(f) : st[n] = Take(st[n - 1], f[n])
  BY DEF Leads
<1>2. Len(f) \in Nat
  OBVIOUS
<1>3. st = Step(st)
  <2>1. ASSUME NEW n \in 0..Len(f)
        PROVE  st[n] = IF n = 0 THEN Start ELSE Take(st[n - 1], f[n])
    BY <1>1, <1>2
  <2> QED BY <1>1, <2>1
<1>4. ASSUME NEW h, h = Step(h) PROVE h = st
  <2> DEFINE T == {n \in Nat : n \in 0..Len(f) => h[n] = st[n]}
  <2>1. 0 \in T
    BY <1>1, <1>2, <1>4
  <2>2. ASSUME NEW n \in Nat, n \in T PROVE n + 1 \in T
    <3>1. CASE n + 1 \in 0..Len(f)
      <4>1. n \in 0..Len(f) /\ n + 1 \in 1..Len(f) /\ (n + 1) - 1 = n
        BY <1>2, <3>1
      <4>2. h[n] = st[n]
        BY <2>2, <4>1
      <4>3. h[n + 1] = Take(h[n], f[n + 1])
        BY <1>4, <3>1, <4>1
      <4>4. st[n + 1] = Take(st[n], f[n + 1])
        BY <1>1, <4>1
      <4> QED BY <4>2, <4>3, <4>4
    <3> QED BY <3>1
  <2>3. Nat \subseteq T
    <3> HIDE DEF T
    <3> QED BY <2>1, <2>2, Climb
  <2>4. \A n \in 0..Len(f) : h[n] = st[n]
    BY <2>3, <1>2
  <2> QED BY <1>1, <1>4, <2>4
<1> HIDE DEF Step
<1>5. (CHOOSE h : h = Step(h)) = st
  BY <1>3, <1>4, Zenon
<1>6. Read(f) = (CHOOSE h : h = Step(h))[Len(f)]
  BY DEF Read, Step
<1> QED BY <1>1, <1>5, <1>6

-----------------------------------------------------------------------------
(* Putting sequences together.                                             *)

(* h holds what FlattenSeq has put together after each of the sequences. *)
Piles(seqs, h) == h = [i \in 1..Len(seqs) |-> IF i = 1 THEN seqs[i] ELSE h[i - 1] \o seqs[i]]

LEMMA FlattenEmpty == FlattenSeq(<<>>) = <<>>
BY DEF FlattenSeq

(* Sequences pile up, and are sequences of the same things. *)
LEMMA PilesExist ==
  ASSUME NEW S, NEW seqs \in Seq(Seq(S))
  PROVE  \E h \in [1..Len(seqs) -> Seq(S)] : Piles(seqs, h)
<1> DEFINE Some(n, g) == \A i \in 1..n : g[i] = IF i = 1 THEN seqs[i] ELSE g[i - 1] \o seqs[i]
           T == {n \in Nat : n <= Len(seqs) => \E g \in [1..n -> Seq(S)] : Some(n, g)}
<1>0. Len(seqs) \in Nat
  OBVIOUS
<1>1. 0 \in T
  <2> DEFINE g == [i \in {} |-> <<>>]
  <2>1. 1..0 = {}
    OBVIOUS
  <2>2. g \in [1..0 -> Seq(S)] /\ Some(0, g)
    BY <2>1
  <2> QED BY <2>2
<1>2. ASSUME NEW n \in Nat, n \in T PROVE n + 1 \in T
  <2> SUFFICES ASSUME n + 1 <= Len(seqs)
               PROVE  \E g \in [1..n + 1 -> Seq(S)] : Some(n + 1, g)
    <3> HIDE DEF Some
    <3> QED OBVIOUS
  <2>1. PICK g \in [1..n -> Seq(S)] : Some(n, g)
    BY <1>0, <1>2
  <2>2. seqs[n + 1] \in Seq(S)
    BY <1>0
  <2> DEFINE e == IF n = 0 THEN seqs[n + 1] ELSE g[n] \o seqs[n + 1]
             k == [i \in 1..n + 1 |-> IF i = n + 1 THEN e ELSE g[i]]
  <2>3. e \in Seq(S)
    <3>1. CASE n = 0
      BY <2>2, <3>1
    <3>2. CASE n # 0
      <4>1. g[n] \in Seq(S)
        BY <3>2
      <4> QED BY <2>2, <3>2, <4>1, ConcatProperties
    <3> QED BY <3>1, <3>2
  <2> HIDE DEF e
  <2>4. k \in [1..n + 1 -> Seq(S)]
    BY <2>3
  <2>5. ASSUME NEW i \in 1..n + 1
        PROVE  k[i] = IF i = 1 THEN seqs[i] ELSE k[i - 1] \o seqs[i]
    <3>1. CASE i = n + 1
      BY <3>1 DEF e
    <3>2. CASE i # n + 1
      <4>1. i \in 1..n /\ k[i] = g[i] /\ (i # 1 => k[i - 1] = g[i - 1])
        BY <3>2
      <4> QED BY <2>1, <4>1
    <3> QED BY <3>1, <3>2
  <2> HIDE DEF k
  <2> QED BY <2>4, <2>5
<1>3. Nat \subseteq T
  <2> HIDE DEF T
  <2> QED BY <1>1, <1>2, Climb
<1>4. PICK g \in [1..Len(seqs) -> Seq(S)] : Some(Len(seqs), g)
  <2>1. Len(seqs) \in T
    BY <1>0, <1>3
  <2> QED BY <2>1, <1>0
<1>5. g = [i \in 1..Len(seqs) |-> IF i = 1 THEN seqs[i] ELSE g[i - 1] \o seqs[i]]
  BY <1>4
<1> QED BY <1>4, <1>5 DEF Piles

(* There is one way to pile them up, and FlattenSeq is its top. *)
LEMMA FlattenIsTop ==
  ASSUME NEW S, NEW seqs \in Seq(Seq(S)), NEW g, Piles(seqs, g), Len(seqs) # 0
  PROVE  FlattenSeq(seqs) = g[Len(seqs)]
<1>0. Len(seqs) \in Nat
  OBVIOUS
<1>1. ASSUME NEW h, Piles(seqs, h) PROVE h = g
  <2> DEFINE T == {n \in Nat : n \in 1..Len(seqs) => h[n] = g[n]}
  <2>0. /\ \A i \in 1..Len(seqs) : h[i] = IF i = 1 THEN seqs[i] ELSE h[i - 1] \o seqs[i]
        /\ \A i \in 1..Len(seqs) : g[i] = IF i = 1 THEN seqs[i] ELSE g[i - 1] \o seqs[i]
    BY <1>1 DEF Piles
  <2>1. 0 \in T
    BY <1>0
  <2>2. ASSUME NEW n \in Nat, n \in T PROVE n + 1 \in T
    <3>1. CASE n + 1 \in 1..Len(seqs) /\ n # 0
      <4>1. n \in 1..Len(seqs) /\ n + 1 # 1 /\ (n + 1) - 1 = n
        BY <1>0, <3>1
      <4>2. h[n] = g[n]
        BY <2>2, <4>1
      <4>3. h[n + 1] = h[n] \o seqs[n + 1]
        BY <2>0, <3>1, <4>1
      <4>4. g[n + 1] = g[n] \o seqs[n + 1]
        BY <2>0, <3>1, <4>1
      <4>5. h[n + 1] = g[n + 1]
        BY <4>2, <4>3, <4>4
      <4> QED BY <4>5
    <3>2. CASE n + 1 \in 1..Len(seqs) /\ n = 0
      BY <2>0, <3>2
    <3> QED BY <3>1, <3>2
  <2>3. Nat \subseteq T
    <3> HIDE DEF T
    <3> QED BY <2>1, <2>2, Climb
  <2>4. \A n \in 1..Len(seqs) : h[n] = g[n]
    BY <2>3, <1>0
  <2>5. /\ h = [i \in 1..Len(seqs) |-> h[i]]
        /\ g = [i \in 1..Len(seqs) |-> g[i]]
    BY <1>1, <2>0 DEF Piles
  <2> QED BY <2>4, <2>5
<1>2. (CHOOSE h : Piles(seqs, h)) = g
  <2> HIDE DEF Piles
  <2> QED BY <1>1, Zenon
<1>3. FlattenSeq(seqs) = (CHOOSE h : Piles(seqs, h))[Len(seqs)]
  BY DEF FlattenSeq, Piles
<1> QED BY <1>2, <1>3

LEMMA FlattenType ==
  ASSUME NEW S, NEW seqs \in Seq(Seq(S))
  PROVE  FlattenSeq(seqs) \in Seq(S)
<1>1. CASE Len(seqs) = 0
  BY <1>1, FlattenEmpty, EmptySeq
<1>2. CASE Len(seqs) # 0
  <2>1. PICK h \in [1..Len(seqs) -> Seq(S)] : Piles(seqs, h)
    BY PilesExist
  <2>2. Len(seqs) \in 1..Len(seqs)
    BY <1>2
  <2> QED BY <1>2, <2>1, <2>2, FlattenIsTop, SMTT(30)
<1> QED BY <1>1, <1>2

(* Files one behind the other are read one after the other. *)
LEMMA LeadsFlatten ==
  ASSUME NEW S, NEW seqs \in Seq(Seq(S)), NEW st,
         \A i \in 1..Len(seqs) : Leads(seqs[i], st[i - 1], st[i])
  PROVE  Leads(FlattenSeq(seqs), st[0], st[Len(seqs)])
<1>0. Len(seqs) \in Nat
  OBVIOUS
<1>1. CASE Len(seqs) = 0
  BY <1>1, FlattenEmpty, LeadsNone, EmptySeq
<1>2. CASE Len(seqs) # 0
  <2>1. PICK h \in [1..Len(seqs) -> Seq(S)] : Piles(seqs, h)
    BY PilesExist
  <2>2. \A i \in 1..Len(seqs) : h[i] = IF i = 1 THEN seqs[i] ELSE h[i - 1] \o seqs[i]
    BY <2>1 DEF Piles
  <2> DEFINE T == {n \in Nat : n \in 1..Len(seqs) => Leads(h[n], st[0], st[n])}
  <2>3. 0 \in T
    BY <1>0
  <2>4. ASSUME NEW n \in Nat, n \in T PROVE n + 1 \in T
    <3>1. CASE n + 1 \in 1..Len(seqs) /\ n # 0
      <4>1. n \in 1..Len(seqs) /\ n + 1 # 1 /\ (n + 1) - 1 = n
        BY <1>0, <3>1
      <4>2. Leads(h[n], st[0], st[n])
        BY <2>4, <4>1
      <4>3. Leads(seqs[n + 1], st[n], st[n + 1])
        BY <3>1, <4>1
      <4>4. h[n + 1] = h[n] \o seqs[n + 1]
        BY <2>2, <3>1, <4>1
      <4>5. h[n] \in Seq(S) /\ seqs[n + 1] \in Seq(S)
        BY <1>0, <3>1, <4>1, ElementOfSeq
      <4>6. Leads(h[n + 1], st[0], st[n + 1])
        BY <4>2, <4>3, <4>4, <4>5, LeadsOn
      <4> QED BY <4>6
    <3>2. CASE n + 1 \in 1..Len(seqs) /\ n = 0
      <4>0. 1 \in 1..Len(seqs)
        BY <1>2, <1>0
      <4>1. h[1] = seqs[1]
        BY <2>2, <4>0
      <4>3. 1 - 1 = 0 /\ Leads(seqs[1], st[1 - 1], st[1])
        BY <4>0
      <4>2. Leads(h[1], st[0], st[1])
        BY <4>1, <4>3
      <4>4. n + 1 = 1 /\ Leads(h[n + 1], st[0], st[n + 1])
        BY <3>2, <4>2
      <4> QED BY <4>4
    <3> QED BY <3>1, <3>2
  <2>5. Nat \subseteq T
    <3> HIDE DEF T
    <3> QED BY <2>3, <2>4, Climb
  <2>6. Leads(h[Len(seqs)], st[0], st[Len(seqs)])
    BY <1>0, <1>2, <2>5
  <2> QED BY <1>2, <2>1, <2>6, FlattenIsTop
<1> QED BY <1>1, <1>2

-----------------------------------------------------------------------------
(* What is read is a configuration, and a tame one.                        *)

Config == [Section -> [Option -> Value \cup {Null}] \cup {Null}]

(* The options are kept in lower case, and the default section is there. *)
Good(d) ==
  /\ d \in Config /\ d[Default] # Null
  /\ \A s \in Section, o \in Option : d[s] # Null /\ d[s][o] # Null => Lower[o] = o

(* The states of a reader: the section it is in is there, and so is the option it
   would continue. *)
Readers ==
  {r \in [data : Config, section : Section, option : Option \cup {Null}, ok : BOOLEAN] :
     /\ Good(r.data) /\ Tame(r.data)
     /\ r.data[r.section] # Null
     /\ r.option # Null =>
          /\ r.section # NoName /\ r.option \notin RemLike
          /\ r.data[r.section][Lower[r.option]] # Null}

(* NewConfigFile is a configuration without options. *)
LEMMA NewConfigFileIsGood ==
  /\ NewConfigFile \in Config /\ Good(NewConfigFile) /\ Tame(NewConfigFile)
  /\ NoOptions \in [Option -> Value \cup {Null}] /\ NoOptions # Null
<1>1. NoOptions \in [Option -> Value \cup {Null}]
  BY DEF NoOptions
<1>2. NoOptions # Null
  BY <1>1, NullAssumption
<1>3. NewConfigFile \in Config
  BY <1>1 DEF NewConfigFile, Config
<1>4. \A s \in Section, o \in Option : ~(NewConfigFile[s] # Null /\ NewConfigFile[s][o] # Null)
  BY DEF NewConfigFile, NoOptions
<1>5. NewConfigFile[Default] # Null
  BY <1>2, NamesAssumption DEF NewConfigFile
<1> QED BY <1>1, <1>2, <1>3, <1>4, <1>5 DEF Good, Tame

(* What AddSection and AddOption change, and what they leave. *)
LEMMA AddSectionFacts ==
  ASSUME NEW d \in Config, NEW s \in Section
  PROVE  /\ AddSection(d, s) \in Config
         /\ AddSection(d, s)[s] = IF d[s] = Null THEN NoOptions ELSE d[s]
         /\ AddSection(d, s)[s] # Null
         /\ \A t \in Section : t # s => AddSection(d, s)[t] = d[t]
BY NewConfigFileIsGood DEF AddSection, Config

LEMMA AddOptionFacts ==
  ASSUME NEW d \in Config, NEW s \in Section, NEW o \in Option, NEW v \in Value
  PROVE  /\ AddOption(d, s, o, v) \in Config
         /\ AddOption(d, s, o, v) = [AddSection(d, s) EXCEPT ![s] =
                                       [AddSection(d, s)[s] EXCEPT ![Lower[o]] = v]]
         /\ AddOption(d, s, o, v)[s] # Null
         /\ AddOption(d, s, o, v)[s][Lower[o]] = v
         /\ \A p \in Option : p # Lower[o] =>
              AddOption(d, s, o, v)[s][p] = AddSection(d, s)[s][p]
         /\ \A t \in Section : t # s => AddOption(d, s, o, v)[t] = d[t]
<1> DEFINE D == AddSection(d, s)
           e == [D[s] EXCEPT ![Lower[o]] = v]
<1>1. /\ D \in Config /\ D[s] # Null
      /\ \A t \in Section : t # s => D[t] = d[t]
  BY AddSectionFacts
<1>2. D[s] \in [Option -> Value \cup {Null}]
  BY <1>1 DEF Config
<1>3. Lower[o] \in Option
  BY NamesAssumption
<1>4. /\ e \in [Option -> Value \cup {Null}] /\ e[Lower[o]] = v
      /\ \A p \in Option : p # Lower[o] => e[p] = D[s][p]
  BY <1>2, <1>3
<1>5. e # Null
  BY <1>4, NullAssumption
<1>6. AddOption(d, s, o, v) = [D EXCEPT ![s] = e]
  BY DEF AddOption
<1> HIDE DEF D, e
<1>7. /\ [D EXCEPT ![s] = e] \in Config
      /\ [D EXCEPT ![s] = e][s] = e
      /\ \A t \in Section : t # s => [D EXCEPT ![s] = e][t] = D[t]
  BY <1>1, <1>4 DEF Config
<1>8. AddOption(d, s, o, v) = [AddSection(d, s) EXCEPT ![s] =
                                [AddSection(d, s)[s] EXCEPT ![Lower[o]] = v]]
  BY <1>6 DEF D, e
<1>9. \A p \in Option : p # Lower[o] => e[p] = AddSection(d, s)[s][p]
  BY <1>4 DEF D
<1> QED BY <1>1, <1>4, <1>5, <1>6, <1>7, <1>8, <1>9

LEMMA AddOptionIsGood ==
  ASSUME NEW d, Good(d), NEW s \in Section, NEW o \in Option, NEW v \in Value
  PROVE  Good(AddOption(d, s, o, v))
<1> DEFINE D == AddOption(d, s, o, v)
<1>0. d \in Config
  BY DEF Good
<1>1. D \in Config /\ D[Default] # Null
  BY <1>0, AddOptionFacts, NamesAssumption, SMTT(30) DEF Good
<1>2. ASSUME NEW t \in Section, NEW p \in Option, D[t] # Null, D[t][p] # Null
      PROVE  Lower[p] = p
  <2>1. CASE t # s
    <3>1. D[t] = d[t]
      BY <1>0, <2>1, AddOptionFacts
    <3> QED BY <1>2, <3>1 DEF Good
  <2>2. CASE t = s /\ p = Lower[o]
    BY <2>2, NamesAssumption
  <2>3. CASE t = s /\ p # Lower[o]
    <3>1. D[s][p] = AddSection(d, s)[s][p]
      BY <1>0, <2>3, AddOptionFacts
    <3>2. d[s] # Null /\ D[s][p] = d[s][p]
      BY <1>0, <1>2, <2>3, <3>1, AddSectionFacts DEF NoOptions
    <3> QED BY <1>2, <2>3, <3>2 DEF Good
  <2> QED BY <2>1, <2>2, <2>3
<1> QED BY <1>1, <1>2 DEF Good

(* Adding an option keeps a configuration tame if the option is. *)
LEMMA AddOptionIsTame ==
  ASSUME NEW d \in Config, Tame(d), NEW s \in Section, NEW o \in Option, NEW v \in Value,
         s # NoName, Lower[o] \notin RemLike, v[1] \notin {Trailed, Masked},
         \A k \in 2..Len(v) : v[k] \in Plain \cup {Bracket}
  PROVE  Tame(AddOption(d, s, o, v))
<1> DEFINE D == AddOption(d, s, o, v)
<1>1. ASSUME NEW t \in Section, NEW p \in Option, D[t] # Null /\ D[t][p] # Null
      PROVE  /\ t # NoName /\ p \notin RemLike
             /\ D[t][p][1] \notin {Trailed, Masked}
             /\ \A k \in 2..Len(D[t][p]) : D[t][p][k] \in Plain \cup {Bracket}
  <2>1. CASE t # s
    <3>1. D[t] = d[t]
      BY <2>1, AddOptionFacts
    <3> HIDE DEF D
    <3> QED BY <1>1, <3>1 DEF Tame
  <2>2. CASE t = s /\ p = Lower[o]
    <3>1. D[t][p] = v
      BY <2>2, AddOptionFacts
    <3> HIDE DEF D
    <3> QED BY <2>2, <3>1
  <2>3. CASE t = s /\ p # Lower[o]
    <3>1. D[s][p] = AddSection(d, s)[s][p]
      BY <2>3, AddOptionFacts
    <3>2. d[s] # Null /\ D[s][p] = d[s][p]
      BY <1>1, <2>3, <3>1, AddSectionFacts DEF NoOptions
    <3> HIDE DEF D
    <3> QED BY <1>1, <2>3, <3>2 DEF Tame
  <2> QED BY <2>1, <2>2, <2>3
<1> HIDE DEF D
<1>2. Tame(D)
  BY <1>1 DEF Tame
<1> QED BY <1>2 DEF D

LEMMA StripFacts ==
  /\ \A p \in Piece : stripComments(p) \in Piece /\ stripComments(p) \notin {Trailed, Masked}
  /\ \A p \in Plain \cup {Trailed, Masked} : stripComments(p) \in Plain \cup {Bracket}
  /\ \A p \in Piece : p \notin {Trailed, Masked} => stripComments(p) = p
<1>1. Bare \in Plain /\ Bare \notin {Trailed, Masked}
  BY TextAssumption DEF Bare
<1> QED BY <1>1, TextAssumption DEF stripComments, Piece

SectionLine(s)  == [kind |-> "section", s |-> s]
GivenLine(o, p) == [kind |-> "option", o |-> o, p |-> p]
TextLine(p)     == [kind |-> "text", p |-> p]

(* What a line can be. *)
LEMMA LineCases ==
  ASSUME NEW l \in Line
  PROVE  \/ l \in {Blank, Comment}
         \/ \E s \in Section : l = SectionLine(s)
         \/ \E o \in Option \ RemLike, p \in Piece : l = GivenLine(o, p)
         \/ \E p \in Plain \cup {Trailed, Masked} : l = TextLine(p)
<1>1. CASE l \in [kind : {"section"}, s : Section]
  <2>1. l = SectionLine(l.s) /\ l.s \in Section
    BY <1>1 DEF SectionLine
  <2> QED BY <2>1
<1>2. CASE l \in [kind : {"option"}, o : Option \ RemLike, p : Piece]
  <2>1. l = GivenLine(l.o, l.p) /\ l.o \in Option \ RemLike /\ l.p \in Piece
    BY <1>2 DEF GivenLine
  <2> QED BY <2>1
<1>3. CASE l \in [kind : {"text"}, p : Plain \cup {Trailed, Masked}]
  <2>1. l = TextLine(l.p) /\ l.p \in Plain \cup {Trailed, Masked}
    BY <1>3 DEF TextLine
  <2> QED BY <2>1
<1> QED BY <1>1, <1>2, <1>3 DEF Line

(* What Take makes of each of them. *)
LEMMA TakeFails == \A r, l : ~r.ok => Take(r, l) = r
BY DEF Take

LEMMA TakeNothing == \A r : Take(r, Blank) = r /\ Take(r, Comment) = r
BY DEF Take, Blank, Comment

LEMMA TakeSection ==
  ASSUME NEW r, r.ok, NEW s
  PROVE  Take(r, SectionLine(s)) =
           [r EXCEPT !.data = AddSection(@, s), !.section = s, !.option = Null]
BY DEF Take, SectionLine

LEMMA TakeStray ==
  ASSUME NEW r, r.ok, r.section = NoName, NEW o, NEW p
  PROVE  /\ Take(r, GivenLine(o, p)) = [r EXCEPT !.ok = FALSE]
         /\ Take(r, TextLine(p)) = [r EXCEPT !.ok = FALSE]
BY DEF Take, GivenLine, TextLine

LEMMA TakeGiven ==
  ASSUME NEW r, r.ok, r.section # NoName, NEW o, NEW p
  PROVE  Take(r, GivenLine(o, p)) =
           [r EXCEPT !.option = o,
                     !.data = AddOption(@, r.section, o, <<stripComments(p)>>)]
BY DEF Take, GivenLine

LEMMA TakeText ==
  ASSUME NEW r, r.ok, r.section # NoName, NEW p
  PROVE  Take(r, TextLine(p)) =
           IF r.option = Null THEN [r EXCEPT !.ok = FALSE]
           ELSE [r EXCEPT !.data = AddOption(@, r.section, r.option,
                    Continued(GetRawString(@, r.section, r.option), p))]
BY DEF Take, TextLine

(* The states of a reader are closed under Take. *)
LEMMA TakeKeeps ==
  ASSUME NEW r \in Readers, NEW l \in Line
  PROVE  Take(r, l) \in Readers
<1> DEFINE d == r.data
           s == r.section
           o == r.option
<1>0. /\ r \in [data : Config, section : Section, option : Option \cup {Null}, ok : BOOLEAN]
      /\ Good(d) /\ Tame(d) /\ d[s] # Null
      /\ o # Null => s # NoName /\ o \notin RemLike /\ d[s][Lower[o]] # Null
  BY DEF Readers
<1>1. CASE ~r.ok
  BY <1>1, TakeFails
<1>2. CASE l \in {Blank, Comment}
  BY <1>2, TakeNothing
<1>3. ASSUME r.ok, NEW t \in Section, l = SectionLine(t)
      PROVE  Take(r, l) \in Readers
  <2> DEFINE D == AddSection(d, t)
  <2>1. Take(r, l) = [r EXCEPT !.data = D, !.section = t, !.option = Null]
    BY <1>3, TakeSection
  <2>2. D \in Config /\ D[t] # Null
    BY <1>0, AddSectionFacts
  <2>3. \A u \in Section, p \in Option : D[u] # Null /\ D[u][p] # Null =>
          d[u] # Null /\ D[u][p] = d[u][p]
    BY <1>0, <1>3, AddSectionFacts DEF NoOptions
  <2>4. D[Default] # Null
    <3>1. d \in Config /\ d[Default] # Null /\ Default \in Section
      BY <1>0, NamesAssumption DEF Good
    <3>2. CASE t = Default
      BY <2>2, <3>2
    <3>3. CASE t # Default
      <4>1. D[Default] = d[Default]
        BY <3>1, <3>3, AddSectionFacts
      <4> HIDE DEF D
      <4> QED BY <3>1, <4>1
    <3> QED BY <3>2, <3>3
  <2> HIDE DEF D
  <2>5. Good(D)
    BY <1>0, <2>2, <2>3, <2>4 DEF Good
  <2>6. Tame(D)
    BY <1>0, <2>3 DEF Tame
  <2> QED BY <1>0, <2>1, <2>2, <2>5, <2>6 DEF Readers
<1>4. ASSUME r.ok, s = NoName, NEW p, NEW q, l = GivenLine(p, q) \/ l = TextLine(q)
      PROVE  Take(r, l) \in Readers
  <2>1. Take(r, l) = [r EXCEPT !.ok = FALSE]
    BY <1>4, TakeStray
  <2> QED BY <1>0, <2>1 DEF Readers
<1>5. ASSUME r.ok, s # NoName, NEW p \in Option \ RemLike, NEW q \in Piece, l = GivenLine(p, q)
      PROVE  Take(r, l) \in Readers
  <2> DEFINE v == <<stripComments(q)>>
             D == AddOption(d, s, p, v)
  <2>1. Take(r, l) = [r EXCEPT !.option = p, !.data = D]
    BY <1>5, TakeGiven
  <2>2. v \in Value /\ v[1] \notin {Trailed, Masked}
        /\ \A k \in 2..Len(v) : v[k] \in Plain \cup {Bracket}
    BY <1>5, StripFacts DEF Value
  <2>3. Lower[p] \notin RemLike /\ s \in Section
    BY <1>0, <1>5, NamesAssumption
  <2> HIDE DEF v
  <2>4. Good(D)
    BY <1>0, <2>2, <2>3, AddOptionIsGood
  <2>5. Tame(D)
    BY <1>0, <1>5, <2>2, <2>3, AddOptionIsTame
  <2>6. D \in Config /\ D[s] # Null /\ D[s][Lower[p]] # Null
    BY <1>0, <2>2, AddOptionFacts, NullAssumption
  <2> HIDE DEF D
  <2> QED BY <1>0, <1>5, <2>1, <2>4, <2>5, <2>6 DEF Readers
<1>6. ASSUME r.ok, s # NoName, NEW q \in Plain \cup {Trailed, Masked}, l = TextLine(q)
      PROVE  Take(r, l) \in Readers
  <2>1. CASE o = Null
    <3>1. Take(r, l) = [r EXCEPT !.ok = FALSE]
      BY <1>6, <2>1, TakeText
    <3> QED BY <1>0, <3>1 DEF Readers
  <2>2. CASE o # Null
    <3> DEFINE w == d[s][Lower[o]]
               v == Append(w, stripComments(q))
               D == AddOption(d, s, o, v)
    <3>1. o \in Option /\ o \notin RemLike /\ s \in Section /\ Lower[o] \in Option
          /\ Lower[o] \notin RemLike
      BY <1>0, <2>2, NamesAssumption
    <3>2. w \in Value /\ w[1] \notin {Trailed, Masked}
          /\ \A k \in 2..Len(w) : w[k] \in Plain \cup {Bracket}
      <4>1. d[s] \in [Option -> Value \cup {Null}] /\ w # Null
        BY <1>0, <2>2, <3>1 DEF Config
      <4>2. w \in Value
        BY <3>1, <4>1
      <4> QED BY <1>0, <3>1, <4>1, <4>2 DEF Tame
    <3>3. GetRawString(d, s, o) = w
      BY <1>0, <1>6 DEF GetRawString, HasSection, Named
    <3>4. Take(r, l) = [r EXCEPT !.data = D]
      BY <1>6, <2>2, <3>3, TakeText DEF Continued
    <3> HIDE DEF w
    <3>5. stripComments(q) \in Plain \cup {Bracket} /\ stripComments(q) \in Piece
      BY <1>6, StripFacts DEF Piece
    <3>6. v \in Value /\ v[1] \notin {Trailed, Masked}
      BY <3>2, <3>5 DEF Value
    <3>7. \A k \in 2..Len(v) : v[k] \in Plain \cup {Bracket}
      BY <3>2, <3>5 DEF Value
    <3> HIDE DEF v
    <3>8. Good(D)
      BY <1>0, <3>1, <3>6, AddOptionIsGood
    <3>9. Tame(D)
      BY <1>0, <1>6, <3>1, <3>6, <3>7, AddOptionIsTame
    <3>10. D \in Config /\ D[s] # Null /\ D[s][Lower[o]] # Null
      BY <1>0, <3>1, <3>6, AddOptionFacts, NullAssumption
    <3> HIDE DEF D
    <3> QED BY <1>0, <1>6, <2>2, <3>1, <3>4, <3>8, <3>9, <3>10 DEF Readers
  <2> QED BY <2>1, <2>2
<1>7. r.ok \in BOOLEAN
  BY <1>0
<1> QED BY <1>1, <1>2, <1>3, <1>4, <1>5, <1>6, LineCases

(* What any file reads as is the state of a reader. *)
LEMMA ReadKeeps ==
  ASSUME NEW f \in Seq(Line)
  PROVE  Read(f) \in Readers
<1> DEFINE Some(n, g) == g[0] = Start /\ \A i \in 1..n : g[i] = Take(g[i - 1], f[i])
           T == {n \in Nat : n <= Len(f) => \E g \in [0..n -> Readers] : Some(n, g)}
<1>0. Len(f) \in Nat
  OBVIOUS
<1>1. Start \in Readers
  BY NewConfigFileIsGood, NamesAssumption DEF Start, Readers, Good
<1> HIDE DEF Readers, Take, Start
<1>2. 0 \in T
  <2> DEFINE g == [i \in 0..0 |-> Start]
  <2>1. g \in [0..0 -> Readers] /\ Some(0, g)
    BY <1>1
  <2> QED BY <2>1
<1>3. ASSUME NEW n \in Nat, n \in T PROVE n + 1 \in T
  <2> SUFFICES ASSUME n + 1 <= Len(f)
               PROVE  \E g \in [0..n + 1 -> Readers] : Some(n + 1, g)
    <3> HIDE DEF Some
    <3> QED OBVIOUS
  <2>1. PICK g \in [0..n -> Readers] : Some(n, g)
    BY <1>0, <1>3
  <2> DEFINE k == [i \in 0..n + 1 |-> IF i = n + 1 THEN Take(g[n], f[n + 1]) ELSE g[i]]
  <2>2. f[n + 1] \in Line /\ g[n] \in Readers
    BY <1>0
  <2>3. Take(g[n], f[n + 1]) \in Readers
    BY <2>2, TakeKeeps
  <2>4. k \in [0..n + 1 -> Readers]
    BY <2>3
  <2>5. k[0] = Start
    BY <2>1
  <2>6. ASSUME NEW i \in 1..n + 1 PROVE k[i] = Take(k[i - 1], f[i])
    <3>1. CASE i = n + 1
      BY <3>1
    <3>2. CASE i # n + 1
      <4>1. i \in 1..n /\ k[i] = g[i] /\ k[i - 1] = g[i - 1]
        BY <3>2
      <4> QED BY <2>1, <4>1
    <3> QED BY <3>1, <3>2
  <2> HIDE DEF k
  <2> QED BY <2>4, <2>5, <2>6
<1>4. Len(f) \in T
  <2> HIDE DEF T
  <2> QED BY <1>0, <1>2, <1>3, Climb
<1>5. PICK g \in [0..Len(f) -> Readers] : Some(Len(f), g)
  BY <1>0, <1>4
<1>6. g = [n \in 0..Len(f) |-> g[n]]
  OBVIOUS
<1>7. Leads(f, Start, g[Len(f)])
  BY <1>5, <1>6 DEF Leads
<1>8. Read(f) = g[Len(f)]
  BY <1>7, LeadsToRead
<1> QED BY <1>0, <1>5, <1>8

-----------------------------------------------------------------------------
(* What is written is a file, and a tame configuration is read back from it. *)

LEMMA NextLineType ==
  /\ \A p \in Piece : NextLine(p) \in Line
  /\ \A p \in Plain : NextLine(p) = TextLine(p)
<1>1. Bare \in Plain /\ Bare \in Piece
  BY TextAssumption DEF Bare, Piece
<1>2. ASSUME NEW p \in Piece PROVE NextLine(p) \in Line
  <2>1. CASE p \in {Empty, Remark, Assign, Bracket}
    <3>1. NextLine(p) \in {Blank, Comment, [kind |-> "option", o |-> Other, p |-> Bare], Bracketed}
      BY <2>1 DEF NextLine
    <3> QED BY <1>1, <3>1, NamesAssumption DEF Line, Bracketed
  <2>2. CASE p \notin {Empty, Remark, Assign, Bracket}
    <3>1. NextLine(p) = [kind |-> "text", p |-> p] /\ p \in Plain \cup {Trailed, Masked}
      BY <2>2 DEF NextLine, Piece
    <3> QED BY <3>1 DEF Line
  <2> QED BY <2>1, <2>2
<1>3. \A p \in Plain : NextLine(p) = TextLine(p)
  BY TextAssumption DEF NextLine, TextLine
<1> QED BY <1>2, <1>3

LEMMA OptionLineType ==
  ASSUME NEW o \in Option, NEW p \in Piece
  PROVE  /\ OptionLine(o, p) \in Line
         /\ o \notin RemLike /\ ~(o \in Open /\ p \in Closed) =>
              OptionLine(o, p) = GivenLine(o, p)
BY NamesAssumption DEF OptionLine, GivenLine, Line, Bracketed

(* The lines of a value after its first. *)
Rest(v) == [k \in 1..Len(v) - 1 |-> NextLine(v[k + 1])]

LEMMA OptionLinesType ==
  ASSUME NEW o \in Option, NEW v \in Value
  PROVE  /\ OptionLines(o, v) = <<OptionLine(o, v[1])>> \o Rest(v)
         /\ <<OptionLine(o, v[1])>> \in Seq(Line)
         /\ Rest(v) \in Seq(Line) /\ Len(Rest(v)) = Len(v) - 1
         /\ OptionLines(o, v) \in Seq(Line)
<1>1. v[1] \in Piece /\ Len(v) \in Nat \ {0} /\ \A k \in 1..Len(v) : v[k] \in Piece
  BY DEF Value
<1>2. OptionLine(o, v[1]) \in Line
  BY <1>1, OptionLineType
<1>3. Len(v) - 1 \in Nat
  BY <1>1
<1>4. Rest(v) \in [1..Len(v) - 1 -> Line]
  <2>1. \A k \in 1..Len(v) - 1 : NextLine(v[k + 1]) \in Line
    BY <1>1, NextLineType
  <2> QED BY <2>1 DEF Rest
<1>5. Rest(v) \in Seq(Line) /\ Len(Rest(v)) = Len(v) - 1
  BY <1>3, <1>4
<1>6. <<OptionLine(o, v[1])>> \in Seq(Line)
  BY <1>2
<1>7. OptionLines(o, v) = <<OptionLine(o, v[1])>> \o Rest(v)
  BY DEF OptionLines, Rest
<1> QED BY <1>5, <1>6, <1>7, ConcatProperties

(* The options of a section are written in an order of them. *)
LEMMA OrdersType ==
  ASSUME NEW d \in Config, NEW os \in Orders(d), NEW s \in Kept(d)
  PROVE  /\ os[s] \in Seq(Option) /\ ToSet(os[s]) = Given(d, s)
         /\ \A k \in DOMAIN os[s] : os[s][k] \in Given(d, s)
<1>1. os[s] \in UNION {SetToSeqs(Given(d, t)) : t \in Kept(d)} /\ ToSet(os[s]) = Given(d, s)
  BY DEF Orders
<1>2. PICK t \in Kept(d) : os[s] \in SetToSeqs(Given(d, t))
  BY <1>1
<1>3. Given(d, t) \subseteq Option /\ IsFiniteSet(Given(d, t))
  BY FS_Subset, NamesAssumption DEF Given
<1>4. Cardinality(Given(d, t)) \in Nat
  BY <1>3, FS_CardinalityType
<1>5. os[s] \in [1..Cardinality(Given(d, t)) -> Given(d, t)]
  BY <1>2 DEF SetToSeqs
<1>6. os[s] \in Seq(Option)
  BY <1>3, <1>4, <1>5
<1> QED BY <1>1, <1>6 DEF ToSet

(* An order of a finite set has all of it, each once. *)
LEMMA SetToSeqsFacts ==
  ASSUME NEW S, IsFiniteSet(S), NEW f \in SetToSeqs(S)
  PROVE  /\ f \in Seq(S) /\ {f[i] : i \in 1..Len(f)} = S
         /\ \A i, j \in 1..Len(f) : i # j => f[i] # f[j]
<1> DEFINE n == Cardinality(S)
<1>1. n \in Nat
  BY FS_CardinalityType
<1>2. f \in [1..n -> S] /\ \A i, j \in 1..n : i # j => f[i] # f[j]
  BY DEF SetToSeqs
<1>3. f \in Seq(S) /\ Len(f) = n
  BY <1>1, <1>2
<1>4. f \in Injection(1..n, S)
  BY <1>2 DEF Injection, IsInjective
<1>5. IsFiniteSet(1..n) /\ Cardinality(1..n) = n
  BY <1>1, FS_Interval
<1>6. f \in Surjection(1..n, S)
  BY <1>4, <1>5, FS_Injection
<1>7. {f[i] : i \in 1..n} = S
  BY <1>2, <1>6 DEF Surjection
<1> QED BY <1>2, <1>3, <1>7

(* A reader without errors. *)
At(d, s, o) == [data |-> d, section |-> s, option |-> o, ok |-> TRUE]

Fields == {"data", "section", "option", "ok"}

LEMMA SameReader ==
  ASSUME NEW x, NEW y, x = [i \in Fields |-> x[i]], y = [i \in Fields |-> y[i]],
         x.data = y.data, x.section = y.section, x.option = y.option, x.ok = y.ok
  PROVE  x = y
<1>1. \A i \in Fields : x[i] = y[i]
  BY DEF Fields
<1> HIDE DEF Fields
<1> QED BY <1>1, Zenon

LEMMA AtIs ==
  ASSUME NEW d, NEW s, NEW o
  PROVE  /\ At(d, s, o) = [i \in Fields |-> At(d, s, o)[i]]
         /\ At(d, s, o).data = d /\ At(d, s, o).section = s
         /\ At(d, s, o).option = o /\ At(d, s, o).ok
BY DEF At, Fields

(* What Take makes of a line then. *)
LEMMA AtTakesSection ==
  ASSUME NEW d, NEW s, NEW q, NEW t
  PROVE  Take(At(d, s, q), SectionLine(t)) =
           At(AddSection(d, t), t, Null)
<1> DEFINE r == At(d, s, q)
           e == AddSection(d, t)
           x == Take(r, SectionLine(t))
<1>1. r.data = d /\ r.section = s /\ r.option = q /\ r.ok /\ DOMAIN r = Fields
  BY DEF At, Fields
<1>2. x = [r EXCEPT !.data = e, !.section = t, !.option = Null]
  <2> HIDE DEF r
  <2> QED BY <1>1, TakeSection
<1> HIDE DEF x, e
<1>3. x = [i \in Fields |-> x[i]]
  <2> HIDE DEF r
  <2> QED BY <1>1, <1>2
<1>4. x.data = e /\ x.section = t /\ x.option = Null /\ x.ok = TRUE
  BY <1>2 DEF At
<1>5. x = At(e, t, Null)
  BY <1>3, <1>4, AtIs, SameReader DEF At
<1> QED BY <1>5 DEF x, e

LEMMA AtTakesGiven ==
  ASSUME NEW d, NEW s, NEW q, s # NoName, NEW o, NEW p
  PROVE  Take(At(d, s, q), GivenLine(o, p)) =
           At(AddOption(d, s, o, <<stripComments(p)>>), s, o)
<1> DEFINE r == At(d, s, q)
           e == AddOption(d, s, o, <<stripComments(p)>>)
           x == Take(r, GivenLine(o, p))
<1>1. r.data = d /\ r.section = s /\ r.option = q /\ r.ok /\ DOMAIN r = Fields
  BY DEF At, Fields
<1>2. x = [r EXCEPT !.option = o, !.data = e]
  <2> HIDE DEF r
  <2> QED BY <1>1, TakeGiven, ZenonT(40)
<1> HIDE DEF x, e
<1>3. x = [i \in Fields |-> x[i]]
  <2> HIDE DEF r
  <2> QED BY <1>1, <1>2
<1>4. x.data = e /\ x.section = s /\ x.option = o /\ x.ok = TRUE
  BY <1>2 DEF At
<1>5. x = At(e, s, o)
  BY <1>3, <1>4, AtIs, SameReader DEF At
<1> QED BY <1>5 DEF x, e

LEMMA AtTakesText ==
  ASSUME NEW d, NEW s, NEW q, s # NoName, q # Null, NEW p
  PROVE  Take(At(d, s, q), TextLine(p)) =
           At(AddOption(d, s, q, Continued(GetRawString(d, s, q), p)), s, q)
<1> DEFINE r == At(d, s, q)
           e == AddOption(d, s, q, Continued(GetRawString(d, s, q), p))
           x == Take(r, TextLine(p))
<1>1. r.data = d /\ r.section = s /\ r.option = q /\ r.ok /\ DOMAIN r = Fields
  BY DEF At, Fields
<1>2. x = [r EXCEPT !.data = e]
  <2> HIDE DEF r
  <2> QED BY <1>1, TakeText
<1> HIDE DEF x, e
<1>3. x = [i \in Fields |-> x[i]]
  <2> HIDE DEF r
  <2> QED BY <1>1, <1>2
<1>4. x.data = e /\ x.section = s /\ x.option = q /\ x.ok = TRUE
  BY <1>2 DEF At
<1>5. x = At(e, s, q)
  BY <1>3, <1>4, AtIs, SameReader DEF At
<1> QED BY <1>5 DEF x, e

LEMMA AddOptionTwice ==
  ASSUME NEW d \in Config, NEW s \in Section, NEW o \in Option, NEW v \in Value, NEW w \in Value
  PROVE  AddOption(AddOption(d, s, o, v), s, o, w) = AddOption(d, s, o, w)
<1> DEFINE a == AddOption(d, s, o, v)
           b == AddOption(d, s, o, w)
           c == AddOption(a, s, o, w)
<1>1. /\ a \in Config /\ a[s] # Null /\ a[s][Lower[o]] = v
      /\ \A p \in Option : p # Lower[o] => a[s][p] = AddSection(d, s)[s][p]
      /\ \A t \in Section : t # s => a[t] = d[t]
  BY AddOptionFacts
<1>2. /\ b \in Config /\ b[s] # Null /\ b[s][Lower[o]] = w
      /\ \A p \in Option : p # Lower[o] => b[s][p] = AddSection(d, s)[s][p]
      /\ \A t \in Section : t # s => b[t] = d[t]
  BY AddOptionFacts
<1>3. AddSection(a, s)[s] = a[s]
  BY <1>1, AddSectionFacts
<1>4. /\ c \in Config /\ c[s] # Null /\ c[s][Lower[o]] = w
      /\ \A p \in Option : p # Lower[o] => c[s][p] = a[s][p]
      /\ \A t \in Section : t # s => c[t] = a[t]
  BY <1>1, <1>3, AddOptionFacts
<1> HIDE DEF a, b, c
<1>5. b[s] \in [Option -> Value \cup {Null}] /\ c[s] \in [Option -> Value \cup {Null}]
  BY <1>2, <1>4 DEF Config
<1>6. \A p \in Option : b[s][p] = c[s][p]
  BY <1>1, <1>2, <1>4
<1>7. b[s] = c[s]
  BY <1>5, <1>6
<1>8. \A t \in Section : b[t] = c[t]
  BY <1>1, <1>2, <1>4, <1>7
<1>9. b = c
  BY <1>2, <1>4, <1>8 DEF Config
<1> QED BY <1>9 DEF a, b, c

(* A value survives its lines: the first gives the option, the others continue it. *)
LEMMA OptionLinesLead ==
  ASSUME NEW d \in Config, NEW s \in Section, s # NoName, d[s] # Null,
         NEW o \in Option, o \notin RemLike, Lower[o] = o,
         NEW v \in Value, v[1] \notin {Trailed, Masked}, ~(o \in Open /\ v[1] \in Closed),
         \A k \in 2..Len(v) : v[k] \in Plain, NEW q
  PROVE  Leads(OptionLines(o, v), At(d, s, q), At(AddOption(d, s, o, v), s, o))
<1> DEFINE n == Len(v) - 1
           st == [j \in 0..n |-> At(AddOption(d, s, o, SubSeq(v, 1, j + 1)), s, o)]
<1>1. v[1] \in Piece /\ Len(v) \in Nat \ {0} /\ n \in Nat /\ v \in Seq(Piece)
  BY DEF Value
<1>2. \A j \in 1..Len(v) : SubSeq(v, 1, j) \in Value
  <2> TAKE j \in 1..Len(v)
  <2>1. SubSeq(v, 1, j) \in Seq(Piece) /\ Len(SubSeq(v, 1, j)) = j
    BY <1>1, SubSeqProperties
  <2> QED BY <1>1, <2>1 DEF Value
<1>3. Take(At(d, s, q), OptionLine(o, v[1])) = st[0]
  <2>1. OptionLine(o, v[1]) = GivenLine(o, v[1]) /\ stripComments(v[1]) = v[1]
    BY <1>1, OptionLineType, StripFacts
  <2>2. SubSeq(v, 1, 0 + 1) = <<v[1]>>
    <3>1. SubSeq(v, 1, 1) \in Seq(Piece) /\ Len(SubSeq(v, 1, 1)) = 1
          /\ SubSeq(v, 1, 1)[1] = v[1]
      BY <1>1, SubSeqProperties
    <3>2. <<v[1]>> \in Seq(Piece) /\ Len(<<v[1]>>) = 1 /\ <<v[1]>>[1] = v[1]
      BY <1>1
    <3>3. \A i \in 1..1 : SubSeq(v, 1, 1)[i] = <<v[1]>>[i]
      BY <3>1, <3>2
    <3>4. SubSeq(v, 1, 1) = <<v[1]>>
      BY <3>1, <3>2, <3>3, SeqEqual
    <3> QED BY <3>4
  <2>3. st[0] = At(AddOption(d, s, o, SubSeq(v, 1, 0 + 1)), s, o)
    BY <1>1
  <2>4. Take(At(d, s, q), GivenLine(o, v[1]))
          = At(AddOption(d, s, o, <<stripComments(v[1])>>), s, o)
    BY AtTakesGiven
  <2> HIDE DEF st
  <2> QED BY <2>1, <2>2, <2>3, <2>4
<1>4. ASSUME NEW j \in 1..n
      PROVE  Take(st[j - 1], Rest(v)[j]) = st[j]
  <2> DEFINE w == SubSeq(v, 1, j)
             p == v[j + 1]
             e == AddOption(d, s, o, w)
             r == At(e, s, o)
  <2>1. p \in Plain /\ p \in Piece /\ p \notin {Trailed, Masked}
    BY <1>1, TextAssumption DEF Piece
  <2>2. Rest(v)[j] = TextLine(p) /\ stripComments(p) = p
    BY <2>1, NextLineType, StripFacts DEF Rest
  <2>3. j \in 1..Len(v) /\ j + 1 \in 1..Len(v) /\ w \in Value /\ SubSeq(v, 1, j + 1) \in Value
    BY <1>1, <1>2
  <2>4. Append(w, p) = SubSeq(v, 1, j + 1)
    BY <1>1, <2>3
  <2>5. (j - 1) + 1 = j /\ j - 1 \in 0..n /\ j \in 0..n
    OBVIOUS
  <2>6. st[j - 1] = r /\ st[j] = At(AddOption(d, s, o, SubSeq(v, 1, j + 1)), s, o)
    BY <2>5
  <2> HIDE DEF w, p, st
  <2>7. e \in Config /\ e[s] # Null /\ e[s][o] = w
    BY <2>3, AddOptionFacts
  <2>8. GetRawString(e, s, o) = w
    BY <2>7 DEF GetRawString, HasSection, Named
  <2>9. AddOption(e, s, o, Append(w, p)) = AddOption(d, s, o, SubSeq(v, 1, j + 1))
    BY <2>3, <2>4, AddOptionTwice
  <2> HIDE DEF e
  <2>10. Take(r, TextLine(p)) = At(AddOption(e, s, o, Continued(GetRawString(e, s, o), p)), s, o)
    <3>1. o # Null
      BY NullAssumption
    <3> QED BY <3>1, AtTakesText
  <2>11. Continued(GetRawString(e, s, o), p) = Append(w, p)
    BY <2>2, <2>8 DEF Continued
  <2> QED BY <2>2, <2>6, <2>9, <2>10, <2>11
<1>5. Leads(Rest(v), st[0], st[n])
  <2>1. st = [j \in 0..n |-> st[j]] /\ Len(Rest(v)) = n
    BY OptionLinesType
  <2> HIDE DEF st
  <2> QED BY <1>4, <2>1 DEF Leads
<1>6. Leads(<<OptionLine(o, v[1])>>, At(d, s, q), st[0])
  BY <1>3, LeadsOne
<1>7. Leads(OptionLines(o, v), At(d, s, q), st[n])
  <2> HIDE DEF st
  <2> QED BY <1>5, <1>6, OptionLinesType, LeadsOn
<1>8. st[n] = At(AddOption(d, s, o, v), s, o)
  <2>1. n + 1 = Len(v) /\ SubSeq(v, 1, Len(v)) = v
    BY <1>1, SubSeqFull
  <2>2. st[n] = At(AddOption(d, s, o, SubSeq(v, 1, n + 1)), s, o)
    BY <1>1
  <2> HIDE DEF st
  <2> QED BY <2>1, <2>2
<1> QED BY <1>7, <1>8

(* The option lines of a section, one option after the other. *)
Block(d, s, order) == [k \in DOMAIN order |-> OptionLines(order[k], d[s][order[k]])]

LEMMA BlockType ==
  ASSUME NEW d \in Config, NEW s \in Section, d[s] # Null,
         NEW order \in Seq(Option), \A k \in DOMAIN order : order[k] \in Given(d, s)
  PROVE  /\ Block(d, s, order) \in Seq(Seq(Line)) /\ Len(Block(d, s, order)) = Len(order)
         /\ \A k \in 1..Len(order) : d[s][order[k]] \in Value
         /\ FlattenSeq(Block(d, s, order)) \in Seq(Line)
         /\ <<SectionLine(s)>> \in Seq(Line) /\ <<Blank>> \in Seq(Line)
         /\ SectionLines(d, s, order) =
              <<SectionLine(s)>> \o FlattenSeq(Block(d, s, order)) \o <<Blank>>
         /\ SectionLines(d, s, order) \in Seq(Line)
<1>1. Len(order) \in Nat /\ DOMAIN order = 1..Len(order)
  OBVIOUS
<1>2. ASSUME NEW k \in 1..Len(order)
      PROVE  d[s][order[k]] \in Value /\ OptionLines(order[k], d[s][order[k]]) \in Seq(Line)
  <2>1. order[k] \in Option /\ d[s][order[k]] # Null
    BY <1>1 DEF Given
  <2>2. d[s][order[k]] \in Value
    BY <2>1 DEF Config
  <2> QED BY <2>1, <2>2, OptionLinesType
<1>3. Block(d, s, order) \in [1..Len(order) -> Seq(Line)]
  BY <1>1, <1>2 DEF Block
<1>4. Block(d, s, order) \in Seq(Seq(Line)) /\ Len(Block(d, s, order)) = Len(order)
  BY <1>1, <1>3
<1>5. FlattenSeq(Block(d, s, order)) \in Seq(Line)
  BY <1>4, FlattenType
<1>6. SectionLine(s) \in Line /\ Blank \in Line
  BY DEF SectionLine, Line
<1>7. <<SectionLine(s)>> \in Seq(Line) /\ <<Blank>> \in Seq(Line)
  BY <1>6
<1>8. SectionLines(d, s, order) =
        <<SectionLine(s)>> \o FlattenSeq(Block(d, s, order)) \o <<Blank>>
  BY DEF SectionLines, Block, SectionLine
<1>9. <<SectionLine(s)>> \o FlattenSeq(Block(d, s, order)) \o <<Blank>> \in Seq(Line)
  BY <1>5, <1>7, ConcatProperties
<1> QED BY <1>2, <1>4, <1>5, <1>7, <1>8, <1>9

LastOf(order) == IF order = <<>> THEN Null ELSE order[Len(order)]

(* A section survives its lines, whatever the order of its options. *)
LEMMA SectionLinesLead ==
  ASSUME NEW d, Good(d), Tame(d), Unbracketed(d), NEW s \in Section, d[s] # Null,
         NEW order \in Seq(Option), ToSet(order) = Given(d, s),
         NEW e \in Config, e[s] \in {Null, NoOptions}, NEW t, NEW q
  PROVE  Leads(SectionLines(d, s, order), At(e, t, q), At([e EXCEPT ![s] = d[s]], s, LastOf(order)))
<1> DEFINE n == Len(order)
           a == AddSection(e, s)
           part(k) == [o \in Option |-> IF \E j \in 1..k : order[j] = o THEN d[s][o] ELSE Null]
           st == [k \in 0..n |-> At([a EXCEPT ![s] = part(k)], s, IF k = 0 THEN Null ELSE order[k])]
<1>0. n \in Nat /\ DOMAIN order = 1..n /\ d \in Config
  BY DEF Good
<1>1. \A k \in 1..n : order[k] \in Given(d, s)
  BY <1>0 DEF ToSet
<1>2. /\ Block(d, s, order) \in Seq(Seq(Line)) /\ Len(Block(d, s, order)) = n
      /\ \A k \in 1..n : d[s][order[k]] \in Value
      /\ FlattenSeq(Block(d, s, order)) \in Seq(Line)
      /\ <<SectionLine(s)>> \in Seq(Line) /\ <<Blank>> \in Seq(Line)
      /\ SectionLines(d, s, order) =
           <<SectionLine(s)>> \o FlattenSeq(Block(d, s, order)) \o <<Blank>>
  BY <1>0, <1>1, BlockType
<1>3. /\ a \in Config /\ a[s] = NoOptions
      /\ \A u \in Section : u # s => a[u] = e[u]
  BY AddSectionFacts
<1>4. d[s] \in [Option -> Value \cup {Null}]
  BY <1>0 DEF Config
<1>5. \A k \in Nat : part(k) \in [Option -> Value \cup {Null}] /\ part(k) # Null
  <2> TAKE k \in Nat
  <2>1. part(k) \in [Option -> Value \cup {Null}]
    BY <1>4
  <2> HIDE DEF part
  <2> QED BY <2>1, NullAssumption
<1> HIDE DEF a
<1>6. \A k \in Nat : /\ [a EXCEPT ![s] = part(k)] \in Config
                     /\ [a EXCEPT ![s] = part(k)][s] = part(k)
                     /\ \A u \in Section : u # s => [a EXCEPT ![s] = part(k)][u] = a[u]
  <2> HIDE DEF part
  <2> QED BY <1>3, <1>5 DEF Config
<1>7. [a EXCEPT ![s] = part(0)] = a
  <2>1. part(0) = NoOptions
    BY DEF NoOptions
  <2> HIDE DEF part
  <2> QED BY <1>3, <2>1 DEF Config
<1>8. part(n) = d[s]
  <2>1. \A o \in Option : (\E j \in 1..n : order[j] = o) <=> d[s][o] # Null
    BY <1>0 DEF ToSet, Given
  <2> QED BY <1>4, <2>1
<1>9. ASSUME NEW k \in 1..n
      PROVE  Leads(Block(d, s, order)[k], st[k - 1], st[k])
  <2> DEFINE o == order[k]
             v == d[s][o]
             b == [a EXCEPT ![s] = part(k - 1)]
             c == [a EXCEPT ![s] = part(k)]
  <2>1. o \in Option /\ v # Null /\ v \in Value
    BY <1>1, <1>2 DEF Given
  <2>2. /\ s # NoName /\ o \notin RemLike /\ v[1] \notin {Trailed, Masked}
        /\ ~(o \in Open /\ v[1] \in Closed)
        /\ \A i \in 2..Len(v) : v[i] \in Plain
    BY <2>1 DEF Tame, Unbracketed
  <2>3. Lower[o] = o
    BY <2>1 DEF Good
  <2>4. k - 1 \in 0..n /\ k \in 0..n /\ k # 0 /\ k - 1 \in Nat /\ k \in Nat
    BY <1>0
  <2>5. Block(d, s, order)[k] = OptionLines(o, v)
    BY <1>0 DEF Block
  <2>6. st[k] = At(c, s, o) /\ st[k - 1] = At(b, s, IF k - 1 = 0 THEN Null ELSE order[k - 1])
    BY <2>4
  <2>7. /\ b \in Config /\ b[s] = part(k - 1) /\ b[s] # Null
        /\ c \in Config /\ c[s] = part(k)
        /\ \A u \in Section : u # s => b[u] = c[u]
    <3> HIDE DEF part
    <3> QED BY <1>5, <1>6, <2>4
  <2>8. \A p \in Option : part(k)[p] = IF p = o THEN v ELSE part(k - 1)[p]
    BY <2>4
  <2> HIDE DEF b, c, st, v, o
  <2>9. AddOption(b, s, o, v) = c
    <3> DEFINE x == AddOption(b, s, o, v)
    <3>1. AddSection(b, s) = b
      BY <2>7 DEF AddSection
    <3>2. /\ x \in Config /\ x[s] # Null /\ x[s][o] = v
          /\ \A p \in Option : p # o => x[s][p] = b[s][p]
          /\ \A u \in Section : u # s => x[u] = b[u]
      <4> HIDE DEF part
      <4>1. b \in Config
        BY <2>7
      <4>2. /\ x \in Config /\ x[s] # Null /\ x[s][Lower[o]] = v
            /\ \A p \in Option : p # Lower[o] => x[s][p] = AddSection(b, s)[s][p]
            /\ \A u \in Section : u # s => x[u] = b[u]
        BY <2>1, <4>1, AddOptionFacts
      <4> HIDE DEF x
      <4> QED BY <2>3, <3>1, <4>2
    <3> HIDE DEF x, part
    <3>3. x[s] \in [Option -> Value \cup {Null}] /\ c[s] \in [Option -> Value \cup {Null}]
      BY <1>5, <2>4, <2>7, <3>2 DEF Config
    <3>4. \A p \in Option : x[s][p] = c[s][p]
      BY <2>7, <2>8, <3>2
    <3>5. x[s] = c[s]
      BY <3>3, <3>4
    <3>6. \A u \in Section : x[u] = c[u]
      BY <2>7, <3>2, <3>5
    <3>7. x = c
      BY <2>7, <3>2, <3>6 DEF Config
    <3> QED BY <3>7 DEF x
  <2>10. Leads(OptionLines(o, v), st[k - 1], At(AddOption(b, s, o, v), s, o))
    <3> DEFINE z == IF k - 1 = 0 THEN Null ELSE order[k - 1]
    <3>1. st[k - 1] = At(b, s, z)
      BY <2>6
    <3> HIDE DEF z
    <3>2. /\ o \in Option /\ o \notin RemLike /\ Lower[o] = o
          /\ v \in Value /\ v[1] \notin {Trailed, Masked} /\ ~(o \in Open /\ v[1] \in Closed)
          /\ \A i \in 2..Len(v) : v[i] \in Plain
          /\ s # NoName /\ b \in Config /\ b[s] # Null
      BY <2>1, <2>2, <2>3, <2>7
    <3>3. Leads(OptionLines(o, v), At(b, s, z), At(AddOption(b, s, o, v), s, o))
      BY <3>2, OptionLinesLead
    <3> QED BY <3>1, <3>3
  <2> QED BY <2>5, <2>6, <2>9, <2>10
<1>10. Leads(FlattenSeq(Block(d, s, order)), st[0], st[n])
  <2> HIDE DEF st
  <2> QED BY <1>2, <1>9, LeadsFlatten
<1>11. st[0] = At(a, s, Null)
  BY <1>0, <1>7
<1>12. st[n] = At([e EXCEPT ![s] = d[s]], s, LastOf(order))
  <2>1. [a EXCEPT ![s] = d[s]] = [e EXCEPT ![s] = d[s]]
    BY <1>3 DEF Config
  <2>2. n = 0 <=> order = <<>>
    BY <1>0, EmptySeq
  <2>3. st[n] = At([a EXCEPT ![s] = part(n)], s, IF n = 0 THEN Null ELSE order[n])
    BY <1>0
  <2> HIDE DEF st, part
  <2> QED BY <1>8, <2>1, <2>2, <2>3 DEF LastOf
<1> HIDE DEF st
<1>13. Leads(<<SectionLine(s)>>, At(e, t, q), st[0])
  BY <1>11, LeadsOne, AtTakesSection DEF a
<1>14. Leads(<<Blank>>, st[n], st[n])
  BY LeadsOne, TakeNothing
<1>15. Leads(<<SectionLine(s)>> \o FlattenSeq(Block(d, s, order)), At(e, t, q), st[n])
  BY <1>2, <1>10, <1>13, LeadsOn
<1>16. Leads(<<SectionLine(s)>> \o FlattenSeq(Block(d, s, order)) \o <<Blank>>, At(e, t, q), st[n])
  BY <1>2, <1>14, <1>15, LeadsOn, ConcatProperties
<1> QED BY <1>2, <1>12, <1>16

(* The sections of a file, one after the other. *)
Chapters(d, ss, os) == [k \in DOMAIN ss |-> SectionLines(d, ss[k], os[ss[k]])]

LEMMA KeptFacts ==
  ASSUME NEW d, Good(d)
  PROVE  /\ Kept(d) \subseteq Section /\ IsFiniteSet(Kept(d))
         /\ \A s \in Kept(d) : d[s] # Null
         /\ \A s \in Section \ Kept(d) : d[s] = NewConfigFile[s]
<1>1. Kept(d) \subseteq Section /\ \A s \in Kept(d) : d[s] # Null
  BY DEF Kept
<1>2. IsFiniteSet(Kept(d))
  BY <1>1, FS_Subset, NamesAssumption
<1>3. ASSUME NEW s \in Section \ Kept(d) PROVE d[s] = NewConfigFile[s]
  <2>1. CASE s = Default
    <3>1. d[Default] # Null
      BY DEF Good
    <3>2. d[Default] = NoOptions
      BY <2>1, <3>1 DEF Kept
    <3> QED BY <2>1, <3>2 DEF NewConfigFile
  <2>2. CASE s # Default
    <3>1. d[s] = Null
      BY <2>2 DEF Kept
    <3> QED BY <2>2, <3>1 DEF NewConfigFile
  <2> QED BY <2>1, <2>2
<1> QED BY <1>1, <1>2, <1>3

(* What is written is a file, and each section of it is written in some order. *)
LEMMA WritesType ==
  ASSUME NEW d, Good(d), NEW ss \in SetToSeqs(Kept(d)), NEW os \in Orders(d)
  PROVE  /\ ss \in Seq(Kept(d)) /\ {ss[i] : i \in 1..Len(ss)} = Kept(d)
         /\ \A i, j \in 1..Len(ss) : i # j => ss[i] # ss[j]
         /\ \A k \in 1..Len(ss) : /\ ss[k] \in Section /\ d[ss[k]] # Null
                                  /\ os[ss[k]] \in Seq(Option)
                                  /\ ToSet(os[ss[k]]) = Given(d, ss[k])
         /\ Chapters(d, ss, os) \in Seq(Seq(Line)) /\ Len(Chapters(d, ss, os)) = Len(ss)
         /\ FlattenSeq(Chapters(d, ss, os)) \in Seq(Line)
<1>0. d \in Config
  BY DEF Good
<1>1. /\ ss \in Seq(Kept(d)) /\ {ss[i] : i \in 1..Len(ss)} = Kept(d)
      /\ \A i, j \in 1..Len(ss) : i # j => ss[i] # ss[j]
  BY KeptFacts, SetToSeqsFacts
<1>2. ASSUME NEW k \in 1..Len(ss)
      PROVE  /\ ss[k] \in Section /\ d[ss[k]] # Null
             /\ os[ss[k]] \in Seq(Option)
             /\ ToSet(os[ss[k]]) = Given(d, ss[k])
             /\ SectionLines(d, ss[k], os[ss[k]]) \in Seq(Line)
  <2>1. ss[k] \in Kept(d)
    BY <1>1
  <2>2. ss[k] \in Section /\ d[ss[k]] # Null
    BY <2>1, KeptFacts
  <2>3. /\ os[ss[k]] \in Seq(Option) /\ ToSet(os[ss[k]]) = Given(d, ss[k])
        /\ \A i \in DOMAIN os[ss[k]] : os[ss[k]][i] \in Given(d, ss[k])
    BY <1>0, <2>1, OrdersType
  <2>4. SectionLines(d, ss[k], os[ss[k]]) \in Seq(Line)
    BY <1>0, <2>2, <2>3, BlockType
  <2> QED BY <2>2, <2>3, <2>4
<1>3. Len(ss) \in Nat /\ DOMAIN ss = 1..Len(ss)
  BY <1>1
<1>4. Chapters(d, ss, os) \in [1..Len(ss) -> Seq(Line)]
  BY <1>2, <1>3 DEF Chapters
<1>5. Chapters(d, ss, os) \in Seq(Seq(Line)) /\ Len(Chapters(d, ss, os)) = Len(ss)
  BY <1>3, <1>4
<1>6. FlattenSeq(Chapters(d, ss, os)) \in Seq(Line)
  BY <1>5, FlattenType
<1> QED BY <1>1, <1>2, <1>5, <1>6

LEMMA WritesAreFiles ==
  ASSUME NEW d, Good(d), NEW f \in Writes(d)
  PROVE  f \in Seq(Line)
<1>1. PICK ss \in SetToSeqs(Kept(d)), os \in Orders(d) : f = FlattenSeq(Chapters(d, ss, os))
  BY DEF Writes, Chapters
<1> QED BY <1>1, WritesType

(* A tame configuration without brackets is read back as it was, in whatever order it was
   written. *)
LEMMA TameReadsBack ==
  ASSUME NEW d, Good(d), Tame(d), Unbracketed(d)
  PROVE  ReadsBack(d)
<1> SUFFICES ASSUME NEW f \in Writes(d) PROVE Read(f).ok /\ Read(f).data = d
  BY DEF ReadsBack
<1>1. PICK ss \in SetToSeqs(Kept(d)), os \in Orders(d) : f = FlattenSeq(Chapters(d, ss, os))
  BY DEF Writes, Chapters
<1> DEFINE n == Len(ss)
           part(k) == [s \in Section |-> IF \E j \in 1..k : ss[j] = s THEN d[s] ELSE NewConfigFile[s]]
           st == [k \in 0..n |-> At(part(k), IF k = 0 THEN Default ELSE ss[k],
                                    IF k = 0 THEN Null ELSE LastOf(os[ss[k]]))]
<1>2. /\ ss \in Seq(Kept(d)) /\ {ss[i] : i \in 1..n} = Kept(d)
      /\ \A i, j \in 1..n : i # j => ss[i] # ss[j]
      /\ \A k \in 1..n : /\ ss[k] \in Section /\ d[ss[k]] # Null
                         /\ os[ss[k]] \in Seq(Option)
                         /\ ToSet(os[ss[k]]) = Given(d, ss[k])
      /\ Chapters(d, ss, os) \in Seq(Seq(Line)) /\ Len(Chapters(d, ss, os)) = n
      /\ FlattenSeq(Chapters(d, ss, os)) \in Seq(Line)
  BY WritesType
<1>3. n \in Nat /\ DOMAIN ss = 1..n /\ d \in Config
  BY <1>2 DEF Good
<1>4. \A k \in Nat : part(k) \in Config
  BY <1>3, NewConfigFileIsGood DEF Config
<1>5. part(0) = NewConfigFile
  BY DEF NewConfigFile
<1>6. part(n) = d
  <2>1. \A s \in Section : (\E j \in 1..n : ss[j] = s) <=> s \in Kept(d)
    BY <1>2
  <2>2. \A s \in Section : part(n)[s] = d[s]
    BY <2>1, KeptFacts
  <2>3. part(n) \in Config
    BY <1>3, <1>4
  <2> HIDE DEF part
  <2> QED BY <1>3, <2>2, <2>3 DEF Config
<1>7. ASSUME NEW k \in 1..n
      PROVE  Leads(Chapters(d, ss, os)[k], st[k - 1], st[k])
  <2> DEFINE s == ss[k]
             e == part(k - 1)
             t == IF k - 1 = 0 THEN Default ELSE ss[k - 1]
             q == IF k - 1 = 0 THEN Null ELSE LastOf(os[ss[k - 1]])
  <2>1. k - 1 \in 0..n /\ k \in 0..n /\ k # 0 /\ k - 1 \in Nat /\ k \in Nat
    BY <1>3
  <2>2. Chapters(d, ss, os)[k] = SectionLines(d, s, os[s])
    BY <1>3 DEF Chapters
  <2>3. st[k - 1] = At(e, t, q) /\ st[k] = At(part(k), s, LastOf(os[s]))
    BY <2>1
  <2>4. e \in Config
    BY <1>4, <2>1
  <2>5. s \in Section /\ d[s] # Null /\ os[s] \in Seq(Option) /\ ToSet(os[s]) = Given(d, s)
    BY <1>2
  <2>6. e[s] \in {Null, NoOptions}
    <3>1. ~ \E j \in 1..k - 1 : ss[j] = s
      BY <1>2, <1>3
    <3> QED BY <2>5, <3>1 DEF NewConfigFile
  <2>7. [e EXCEPT ![s] = d[s]] = part(k)
    <3>1. \A u \in Section : (\E j \in 1..k : ss[j] = u) <=> (u = s \/ \E j \in 1..k - 1 : ss[j] = u)
      <4> TAKE u \in Section
      <4>1. \A j \in 1..k : j = k \/ j \in 1..k - 1
        BY <2>1
      <4>2. k \in 1..k /\ 1..k - 1 \subseteq 1..k
        BY <2>1
      <4> QED BY <4>1, <4>2
    <3>2. \A u \in Section : [e EXCEPT ![s] = d[s]][u] = part(k)[u]
      BY <3>1
    <3>3. part(k) \in Config
      BY <1>4, <2>1
    <3> HIDE DEF part
    <3> QED BY <2>4, <3>2, <3>3 DEF Config
  <2> HIDE DEF s, e, t, q, part, st
  <2>8. Leads(SectionLines(d, s, os[s]), At(e, t, q), At([e EXCEPT ![s] = d[s]], s, LastOf(os[s])))
    BY <2>4, <2>5, <2>6, SectionLinesLead
  <2> QED BY <2>2, <2>3, <2>7, <2>8
<1>8. Leads(f, st[0], st[n])
  <2> HIDE DEF st
  <2> QED BY <1>1, <1>2, <1>7, LeadsFlatten
<1>9. st[0] = Start
  <2>1. Start = At(NewConfigFile, Default, Null)
    BY DEF At, Start
  <2>2. st[0] = At(part(0), Default, Null)
    BY <1>3
  <2> HIDE DEF part
  <2> QED BY <1>5, <2>1, <2>2
<1>10. st[n].ok /\ st[n].data = d
  <2>1. n \in 0..n
    BY <1>3
  <2> QED BY <1>6, <2>1, AtIs
<1> HIDE DEF st
<1>11. Read(f) = st[n]
  BY <1>1, <1>2, <1>8, <1>9, LeadsToRead
<1> QED BY <1>10, <1>11

-----------------------------------------------------------------------------
(* The configuration of a run is good, and tame when it was read from a file. *)
IInv == Good(data) /\ (origin = "read" => Tame(data))

LEMMA RemoveSectionIsGood ==
  ASSUME NEW d, Good(d), NEW s \in Section
  PROVE  Good(RemoveSection(d, s))
BY DEF Good, RemoveSection, Config

LEMMA AddSectionIsGood ==
  ASSUME NEW d, Good(d), NEW s \in Section
  PROVE  Good(AddSection(d, s))
<1> DEFINE a == AddSection(d, s)
<1>1. /\ d \in Config /\ a \in Config /\ a[s] # Null
      /\ a[s] = IF d[s] = Null THEN NoOptions ELSE d[s]
      /\ \A t \in Section : t # s => a[t] = d[t]
  BY AddSectionFacts DEF Good
<1>2. \A t \in Section, o \in Option : a[t] # Null /\ a[t][o] # Null => d[t] # Null /\ a[t] = d[t]
  BY <1>1 DEF NoOptions
<1>3. d[Default] # Null /\ Default \in Section
  BY NamesAssumption DEF Good
<1> HIDE DEF a
<1>4. a[Default] # Null
  BY <1>1, <1>3
<1>5. Good(a)
  BY <1>1, <1>2, <1>4 DEF Good
<1> QED BY <1>5 DEF a

LEMMA RemoveOptionIsGood ==
  ASSUME NEW d, Good(d), NEW s \in Section, NEW o \in Option
  PROVE  Good(RemoveOption(d, s, o))
<1>1. CASE d[s] = Null
  BY <1>1 DEF RemoveOption
<1>2. CASE d[s] # Null
  <2> DEFINE c == [d[s] EXCEPT ![Lower[o]] = Null]
             a == [d EXCEPT ![s] = c]
  <2>1. d \in Config /\ d[s] \in [Option -> Value \cup {Null}] /\ Lower[o] \in Option
    BY <1>2, NamesAssumption DEF Good, Config
  <2>2. /\ c \in [Option -> Value \cup {Null}]
        /\ \A p \in Option : c[p] # Null => c[p] = d[s][p]
    BY <2>1
  <2>3. c # Null
    BY <2>2, NullAssumption
  <2>4. RemoveOption(d, s, o) = a
    BY <1>2 DEF RemoveOption
  <2> HIDE DEF c
  <2>5. /\ a \in Config /\ a[s] = c
        /\ \A t \in Section : t # s => a[t] = d[t]
    BY <2>1, <2>2 DEF Config
  <2> HIDE DEF a
  <2>6. a[Default] # Null
    BY <2>3, <2>5, NamesAssumption DEF Good
  <2>7. ASSUME NEW t \in Section, NEW p \in Option, a[t] # Null, a[t][p] # Null
        PROVE  Lower[p] = p
    <3>1. d[t] # Null /\ a[t][p] = d[t][p]
      BY <1>2, <2>2, <2>5, <2>7
    <3> QED BY <2>7, <3>1 DEF Good
  <2>8. Good(a)
    BY <2>5, <2>6, <2>7 DEF Good
  <2> QED BY <2>4, <2>8
<1> QED BY <1>1, <1>2

LEMMA InitIInv == Init => IInv
<1>1. ASSUME data = NewConfigFile, origin = "built" PROVE IInv
  BY <1>1, NewConfigFileIsGood DEF IInv
<1>2. ASSUME NEW f \in Files, data = Read(f).data PROVE IInv
  <2>1. f \in Seq(Line)
    BY TextAssumption
  <2>2. Read(f) \in Readers
    BY <2>1, ReadKeeps
  <2> QED BY <1>2, <2>2 DEF IInv, Readers
<1> QED BY <1>1, <1>2 DEF Init

LEMMA NextIInv == IInv /\ [Next]_vars => IInv'
<1> SUFFICES ASSUME IInv, [Next]_vars PROVE IInv'
  OBVIOUS
<1>1. CASE Change
  <2>1. PICK s \in Section, o \in Option, v \in Values :
          \/ data' = AddSection(data, s)
          \/ data' = RemoveSection(data, s)
          \/ data' = AddOption(data, s, o, v)
          \/ data' = RemoveOption(data, s, o)
    BY <1>1 DEF Change
  <2>2. v \in Value /\ Good(data)
    BY TextAssumption DEF IInv
  <2>3. Good(data')
    BY <2>1, <2>2, AddSectionIsGood, RemoveSectionIsGood, AddOptionIsGood, RemoveOptionIsGood
  <2>4. origin' = "built"
    BY <1>1 DEF Change
  <2> QED BY <2>3, <2>4 DEF IInv
<1>2. CASE Reload
  <2>1. PICK f \in Writes(data) : data' = Read(f).data
    BY <1>2 DEF Reload
  <2>2. f \in Seq(Line)
    BY <2>1, WritesAreFiles DEF IInv
  <2>3. Read(f) \in Readers
    BY <2>2, ReadKeeps
  <2> QED BY <2>1, <2>3 DEF IInv, Readers
<1>3. CASE UNCHANGED vars
  BY <1>3 DEF IInv, vars
<1> QED BY <1>1, <1>2, <1>3 DEF Next

LEMMA IInvHolds == Spec => []IInv
BY InitIInv, NextIInv, PTL DEF Spec

-----------------------------------------------------------------------------
(* A tame configuration without brackets is read back as it was, in whatever order its
   sections and options were written; and for one that was read from a file, tame or not,
   being without brackets is enough (WriteConfigFile, ReadConfigFile), for files and
   values of any length. *)
THEOREM RoundTrips == Spec => []RoundTrip
<1>1. IInv => RoundTrip
  BY TameReadsBack DEF IInv, RoundTrip
<1> QED BY <1>1, IInvHolds, PTL

(* HasOption, GetOptions and GetRawString agree about every section and option,
   with the default section behind the others. *)
THEOREM LookupsAlwaysAgree == Spec => []LookupsAgree
<1>1. ASSUME Good(data) PROVE LookupsAgree
  <2>1. data[Default] # Null /\ Default # NoName
    BY <1>1, NamesAssumption DEF Good
  <2>2. Lower \in [Option -> Option]
    BY NamesAssumption
  <2> QED BY <2>1, <2>2
        DEF LookupsAgree, GetRawString, HasOption, HasSection, GetOptions, Named
<1>2. IInv => LookupsAgree
  BY <1>1 DEF IInv
<1> QED BY <1>2, IInvHolds, PTL
=============================================================================
