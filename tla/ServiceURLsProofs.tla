--------------------------- MODULE ServiceURLsProofs ---------------------------
(***************************************************************************)
(* What ServiceURLs promises, for every catalogue, naming of regions and   *)
(* set of service types.                                                   *)
(***************************************************************************)
EXTENDS ServiceURLs, FiniteSetTheorems, WellFoundedInduction, TLAPS

(* What is suggested are regions of the catalogue. *)
LEMMA PossibleAreRegions == \A missing : possibleRegions(missing) \subseteq Region
<1> SUFFICES ASSUME NEW missing, NEW r \in possibleRegions(missing) PROVE r \in Region
  OBVIOUS
<1>1. CASE Cardinality(missing) = 1
  BY <1>1 DEF possibleRegions, Offering
<1>2. CASE Cardinality(missing) # 1
  <2>1. PICK pair \in missing \X missing : r \in appendPossibleRegions(pair[1], pair[2])
    BY <1>2 DEF possibleRegions
  <2> QED
    BY <2>1 DEF appendPossibleRegions, Offering
<1> QED
  BY <1>1, <1>2

(* Every step keeps the types; the shared defaults are only ever emptied.
   (client.go 92-103) *)
THEOREM TypeCorrect == Spec => []TypeOK
<1>1. Init => TypeOK
  BY TypeAssumption DEF Init, TypeOK, NoURLs
<1>2. TypeOK /\ [Next]_vars => TypeOK'
  <2> SUFFICES ASSUME TypeOK, [Next]_vars PROVE TypeOK'
    OBVIOUS
  <2>1. ASSUME NEW listed \in BOOLEAN, NewClient(listed) PROVE TypeOK'
    BY <2>1, TypeAssumption DEF NewClient, TypeOK, NoURLs, walk
  <2>2. ASSUME NEW types \in SUBSET Type, SetRequiredServiceTypes(types) PROVE TypeOK'
    BY <2>2 DEF SetRequiredServiceTypes, TypeOK, walk
  <2>3. CASE Begin
    BY <2>3 DEF Begin, TypeOK, NoURLs
  <2>4. ASSUME NEW r \in Region, Walk(r) PROVE TypeOK'
    <3>1. merged' \in [Type -> Region \cup {Nil}]
      BY <2>4 DEF Walk, Merge, TypeOK
    <3> QED
      BY <2>4, <3>1 DEF Walk, TypeOK
  <2>5. CASE Conclude
    <3>1. suggested' \subseteq Region
      BY <2>5, PossibleAreRegions DEF Conclude, TypeOK
    <3>2. urls' \in [Type -> Region \cup {Nil}]
      BY <2>5 DEF Conclude, TypeOK
    <3> QED
      BY <2>5, <3>1, <3>2 DEF Conclude, TypeOK, NoURLs
  <2>6. CASE UNCHANGED vars
    BY <2>6 DEF vars, walk, TypeOK
  <2> QED
    BY <2>1, <2>2, <2>3, <2>4, <2>5, <2>6 DEF Next, createServiceURLs
<1> QED
  BY <1>1, <1>2, PTL DEF Spec

-----------------------------------------------------------------------------
(* A walk has collected URLs of matching regions only, and a service it has none for
   is offered by no matching region but those still ahead. *)
Collected ==
  outcome = "walk" => \A t \in Type :
    /\ merged[t] # Nil => t \in catalogue[merged[t]] /\ regionMatches(region, merged[t])
    /\ merged[t] = Nil => \A r \in Region :
         t \in catalogue[r] /\ regionMatches(region, r) => r \in ahead

LEMMA CollectedStep == TypeOK /\ Collected /\ [Next]_vars => Collected'
<1> SUFFICES ASSUME TypeOK, Collected, [Next]_vars, outcome' = "walk"
             PROVE  Collected'
  BY DEF Collected
<1>1. CASE Begin
  <2>1. \A r \in Region : catalogue'[r] # {} => r \in ahead'
    BY <1>1 DEF Begin
  <2>2. \A t \in Type : merged'[t] = Nil
    BY <1>1 DEF Begin, NoURLs
  <2> QED
    BY <2>1, <2>2 DEF Collected
<1>2. ASSUME NEW r \in Region, Walk(r) PROVE Collected'
  <2>1. outcome = "walk" /\ ahead' = ahead \ {r} /\ UNCHANGED <<catalogue, region>>
    BY <1>2 DEF Walk
  <2>2. CASE ~regionMatches(region, r)
    BY <1>2, <2>1, <2>2 DEF Walk, Collected
  <2>3. CASE regionMatches(region, r)
    <3>1. \A t \in Type : merged'[t] = IF t \in catalogue[r] THEN r ELSE merged[t]
      BY <1>2, <2>3 DEF Walk, Merge
    <3>2. r # Nil
      BY NilAssumption
    <3> QED
      BY <2>1, <2>3, <3>1, <3>2 DEF Collected
  <2> QED
    BY <2>2, <2>3
<1>3. CASE Conclude
  BY <1>3 DEF Conclude
<1>4. ASSUME NEW listed \in BOOLEAN, NewClient(listed) PROVE Collected'
  BY <1>4 DEF NewClient
<1>5. CASE UNCHANGED <<catalogue, region, outcome, walk>>
  BY <1>5 DEF Collected, walk
<1> QED
  BY <1>1, <1>2, <1>3, <1>4, <1>5 DEF Next, createServiceURLs, SetRequiredServiceTypes, vars

LEMMA AlwaysCollected == Spec => [](TypeOK /\ Collected)
<1>1. Init => Collected
  BY DEF Init, Collected
<1> QED
  BY <1>1, CollectedStep, TypeCorrect, PTL DEF Spec

(* What is there to be had when the walk is over is what the user's region gives
   access to. *)
LEMMA FoundIsAccess ==
  ASSUME TypeOK, Collected, Conclude, NEW t \in Type
  PROVE  /\ merged[t] # Nil <=> t \in Access(region)
         /\ merged[t] # Nil => t \in catalogue[merged[t]] /\ regionMatches(region, merged[t])
<1>1. outcome = "walk" /\ ahead = {}
  BY DEF Conclude
<1>2. merged[t] \in Region \cup {Nil}
  BY DEF TypeOK
<1> QED
  BY <1>1, <1>2 DEF Collected, Access

(* Whatever the catalogue, the URLs of a client are those of its region: no service
   of it is lost to the order the map is walked in, none is another region's.
   (client.go 186-198) *)
THEOREM URLsAreOfRegion == Spec => []URLsOfRegion
<1>1. Init => URLsOfRegion
  BY DEF Init, URLsOfRegion, NoURLs
<1>2. TypeOK /\ Collected /\ URLsOfRegion /\ [Next]_vars => URLsOfRegion'
  <2> SUFFICES ASSUME TypeOK, Collected, URLsOfRegion, [Next]_vars PROVE URLsOfRegion'
    OBVIOUS
  <2>1. ASSUME NEW listed \in BOOLEAN, NewClient(listed) PROVE URLsOfRegion'
    BY <2>1 DEF NewClient, URLsOfRegion, NoURLs
  <2>2. CASE UNCHANGED <<catalogue, region, urls>> /\ outcome' \in {outcome, "walk", "error"}
    BY <2>2 DEF URLsOfRegion, Access
  <2>3. CASE Conclude /\ outcome' = "ok"
    <3>1. UNCHANGED <<catalogue, region>> /\ urls' = merged
      BY <2>3 DEF Conclude
    <3> QED
      BY <2>3, <3>1, FoundIsAccess DEF URLsOfRegion, Access
  <2> QED
    BY <2>1, <2>2, <2>3
       DEF Next, createServiceURLs, SetRequiredServiceTypes, Begin, Walk, Conclude, vars
<1> QED
  BY <1>1, <1>2, AlwaysCollected, PTL DEF Spec

-----------------------------------------------------------------------------
(* The suggestions of a login that fails are those for what its region lacks. *)
LEMMA SuggestedForMissing ==
  ASSUME TypeOK, Collected, Conclude, outcome' = "error"
  PROVE  /\ suggested' = possibleRegions(required \ Access(region))
         /\ required \ Access(region) # {}
<1>1. required \subseteq Type
  BY DEF TypeOK
<1>2. {t \in required : merged[t] = Nil} = required \ Access(region)
  BY <1>1, FoundIsAccess
<1> QED
  BY <1>2 DEF Conclude

(* The region two service types share gives access to both. *)
LEMMA CommonRegion ==
  ASSUME TypeOK, NEW s \in Type, NEW t \in Type, NEW r \in appendPossibleRegions(s, t)
  PROVE  s \in Access(r) /\ t \in Access(r)
<1>1. regionMatches(r, r)
  <2>1. r \in Seq(Label)
    BY RegionAssumption DEF appendPossibleRegions, Offering
  <2>2. SubSeq(r, Len(r) - Len(r) + 1, Len(r)) = r
    BY <2>1
  <2> QED
    BY <2>1, <2>2 DEF regionMatches
<1>2. r \in Region /\ s \in catalogue[r] /\ containsSuperRegion(Offering(t), r)
  BY DEF appendPossibleRegions, Offering
<1>3. PICK v \in Offering(t) : regionMatches(r, v)
  BY <1>1, <1>2 DEF containsSuperRegion
<1> QED
  BY <1>1, <1>2, <1>3 DEF Access, Offering

(* No region is suggested for nothing: it gives access to a missing service, and to
   two of them if more than one is missing.  (client.go 259-300) *)
THEOREM SuggestionsAlwaysHelp == Spec => SuggestionsHelp
<1> DEFINE Helps ==
      LET missing == required \ Access(region)
      IN \A r \in suggested' :
           \E s, t \in missing \cap Access(r) : s = t => missing = {s}
<1>1. ASSUME TypeOK, Collected, Conclude, outcome' = "error" PROVE Helps
  <2> DEFINE missing == required \ Access(region)
  <2>1. suggested' = possibleRegions(missing)
    BY <1>1, SuggestedForMissing
  <2>2. missing \subseteq Type /\ IsFiniteSet(missing)
    BY <1>1, TypeAssumption, FS_Subset DEF TypeOK
  <2> SUFFICES ASSUME NEW r \in possibleRegions(missing)
               PROVE  \E s, t \in missing \cap Access(r) : s = t => missing = {s}
    BY <2>1
  <2>3. CASE Cardinality(missing) = 1
    <3>1. PICK s : missing = {s}
      BY <2>2, <2>3, FS_Singleton
    <3>2. r \in Offering(s) /\ s \in Type
      BY <2>2, <2>3, <3>1 DEF possibleRegions
    <3>3. s \in Access(r)
      <4>1. r \in Seq(Label)
        BY <3>2, RegionAssumption DEF Offering
      <4>2. SubSeq(r, Len(r) - Len(r) + 1, Len(r)) = r
        BY <4>1
      <4> QED
        BY <4>1, <4>2, <3>2 DEF Access, Offering, regionMatches
    <3> QED
      BY <3>1, <3>3
  <2>4. CASE Cardinality(missing) # 1
    <3>1. PICK s \in missing, t \in missing : s # t /\ r \in appendPossibleRegions(s, t)
      BY <2>4 DEF possibleRegions
    <3> QED
      BY <1>1, <2>2, <3>1, CommonRegion
  <2> QED
    BY <2>3, <2>4
<1>2. TypeOK /\ Collected /\ [Next]_vars => [Conclude /\ outcome' = "error" => Helps]_vars
  BY <1>1
<1> QED
  BY <1>2, AlwaysCollected, PTL DEF Spec, SuggestionsHelp

-----------------------------------------------------------------------------
(* Ending with a name is an order on names, total on the endings of one name. *)
LEMMA MatchPointwise ==
  ASSUME NEW u \in Seq(Label), NEW e \in Seq(Label)
  PROVE  regionMatches(u, e) <=>
           Len(e) <= Len(u) /\ \A i \in 1 .. Len(e) : e[i] = u[Len(u) - Len(e) + i]
<1>1. CASE Len(e) <= Len(u)
  <2> DEFINE tail == SubSeq(u, Len(u) - Len(e) + 1, Len(u))
  <2>1. tail \in Seq(Label) /\ Len(tail) = Len(e)
    BY <1>1
  <2>2. \A i \in 1 .. Len(e) : tail[i] = u[Len(u) - Len(e) + i]
    BY <1>1
  <2>3. tail = e <=> \A i \in 1 .. Len(e) : tail[i] = e[i]
    <3> HIDE DEF tail
    <3> QED
      BY <2>1
  <2> QED
    BY <1>1, <2>2, <2>3 DEF regionMatches
<1> QED
  BY <1>1 DEF regionMatches

LEMMA MatchOrder ==
  ASSUME NEW u \in Seq(Label), NEW v \in Seq(Label), NEW w \in Seq(Label)
  PROVE  /\ regionMatches(u, u)
         /\ regionMatches(u, v) /\ regionMatches(v, u) => u = v
         /\ regionMatches(u, v) /\ regionMatches(v, w) => regionMatches(u, w)
         /\ regionMatches(u, v) /\ regionMatches(u, w)
              => regionMatches(v, w) \/ regionMatches(w, v)
<1>1. regionMatches(u, u)
  BY MatchPointwise
<1>2. ASSUME regionMatches(u, v), regionMatches(v, u) PROVE u = v
  <2>1. Len(u) = Len(v) /\ \A i \in 1 .. Len(v) : v[i] = u[Len(u) - Len(v) + i]
    BY <1>2, MatchPointwise
  <2>2. \A i \in 1 .. Len(v) : v[i] = u[i]
    BY <2>1
  <2> QED
    BY <2>1, <2>2
<1>3. ASSUME regionMatches(u, v), regionMatches(v, w) PROVE regionMatches(u, w)
  <2>1. /\ Len(w) <= Len(v) /\ \A i \in 1 .. Len(w) : w[i] = v[Len(v) - Len(w) + i]
        /\ Len(v) <= Len(u) /\ \A i \in 1 .. Len(v) : v[i] = u[Len(u) - Len(v) + i]
    BY <1>3, MatchPointwise
  <2>2. ASSUME NEW i \in 1 .. Len(w) PROVE w[i] = u[Len(u) - Len(w) + i]
    <3> DEFINE j == Len(v) - Len(w) + i
    <3>1. j \in 1 .. Len(v) /\ Len(u) - Len(v) + j = Len(u) - Len(w) + i
      BY <2>1
    <3>2. w[i] = v[j] /\ v[j] = u[Len(u) - Len(v) + j]
      BY <2>1, <3>1
    <3> QED
      BY <3>1, <3>2
  <2> QED
    BY <2>1, <2>2, MatchPointwise
<1>4. ASSUME NEW x \in Seq(Label), NEW y \in Seq(Label), Len(x) <= Len(y),
             regionMatches(u, x), regionMatches(u, y)
      PROVE  regionMatches(y, x)
  <2>1. /\ Len(x) <= Len(u) /\ \A i \in 1 .. Len(x) : x[i] = u[Len(u) - Len(x) + i]
        /\ Len(y) <= Len(u) /\ \A i \in 1 .. Len(y) : y[i] = u[Len(u) - Len(y) + i]
    BY <1>4, MatchPointwise
  <2>2. ASSUME NEW i \in 1 .. Len(x) PROVE x[i] = y[Len(y) - Len(x) + i]
    <3>1. Len(y) - Len(x) + i \in 1 .. Len(y)
      BY <1>4
    <3> QED
      BY <2>1, <3>1
  <2> QED
    BY <1>4, <2>2, MatchPointwise
<1>5. Len(v) <= Len(w) \/ Len(w) <= Len(v)
  OBVIOUS
<1> QED
  BY <1>1, <1>2, <1>3, <1>4, <1>5

(* Of a set of regions, one that ends with v and that no other one ends with. *)
LEMMA MostSpecific ==
  ASSUME NEW A \in SUBSET Region, NEW v \in A
  PROVE  \E w \in A : /\ regionMatches(w, v)
                      /\ \A x \in A : regionMatches(x, w) => x = w
<1> USE RegionAssumption
<1> DEFINE Under(x) == {y \in Region : regionMatches(y, x)}
           T == {Under(x) : x \in {x \in A : regionMatches(x, v)}}
<1>1. IsWellFoundedOn(StrictSubsetOrdering(Region), FiniteSubsetsOf(Region))
  BY FS_StrictSubsetOrderingWellFounded
<1>2. T \subseteq FiniteSubsetsOf(Region) /\ T # {}
  <2>1. \A x \in A : Under(x) \in FiniteSubsetsOf(Region)
    BY FS_Subset DEF FiniteSubsetsOf
  <2>2. regionMatches(v, v)
    BY MatchOrder
  <2> QED
    BY <2>1, <2>2
<1>3. PICK U \in T : \A y \in T : <<y, U>> \notin StrictSubsetOrdering(Region)
  <2> HIDE DEF T
  <2> QED
    BY <1>1, <1>2, WFMin, Zenon
<1>4. PICK w \in A : regionMatches(w, v) /\ U = Under(w)
  OBVIOUS
<1>5. ASSUME NEW x \in A, regionMatches(x, w), x # w PROVE FALSE
  <2>1. regionMatches(x, v)
    BY <1>4, <1>5, MatchOrder
  <2>2. Under(x) \subseteq Under(w)
    BY <1>5, MatchOrder
  <2>3. w \in Under(w) /\ w \notin Under(x)
    BY <1>5, MatchOrder
  <2>4. Under(x) \in T
    BY <2>1
  <2>5. <<Under(x), Under(w)>> \in StrictSubsetOrdering(Region)
    BY <2>2, <2>3 DEF StrictSubsetOrdering
  <2> QED
    BY <1>3, <1>4, <2>4, <2>5
<1> QED
  BY <1>4, <1>5

(* Where one region has access to all that is missing, one that is suggested has. *)
LEMMA Suitable ==
  ASSUME TypeOK, NEW missing \in SUBSET Type, missing # {},
         NEW r \in Region, missing \subseteq Access(r)
  PROVE  \E v \in possibleRegions(missing) : missing \subseteq Access(v)
<1> USE RegionAssumption
<1>1. IsFiniteSet(missing)
  BY TypeAssumption, FS_Subset
<1>2. \A t \in missing : \E v \in Region : t \in catalogue[v] /\ regionMatches(r, v)
  BY DEF Access
<1>3. CASE Cardinality(missing) = 1
  <2>1. PICK s : missing = {s}
    BY <1>1, <1>3, FS_Singleton
  <2>2. PICK v \in Region : s \in catalogue[v]
    BY <1>2, <2>1
  <2>3. regionMatches(v, v)
    BY MatchOrder
  <2>4. v \in possibleRegions(missing)
    BY <1>3, <2>1, <2>2 DEF possibleRegions, Offering
  <2> QED
    BY <2>1, <2>2, <2>3, <2>4 DEF Access
<1>4. CASE Cardinality(missing) # 1
  <2> DEFINE B == {v \in Region : \E t \in missing : t \in catalogue[v]}
             A == {v \in B : regionMatches(r, v)}
  <2>1. PICK a \in A : \A x \in A : regionMatches(x, a) => x = a
    <3>1. PICK a \in A : TRUE
      BY <1>2
    <3>2. A \in SUBSET Region
      OBVIOUS
    <3> HIDE DEF A
    <3> QED
      BY <3>1, <3>2, MostSpecific
  <2>2. \A x \in A : regionMatches(a, x)
    BY <2>1, MatchOrder
  <2>3. PICK w \in B : /\ regionMatches(w, a)
                       /\ \A x \in B : regionMatches(x, w) => x = w
    <3>1. a \in B /\ B \in SUBSET Region
      OBVIOUS
    <3> HIDE DEF B
    <3> QED
      BY <3>1, MostSpecific
  <2>4. \A t \in missing : \E x \in Region : t \in catalogue[x] /\ regionMatches(w, x)
    <3>1. \A x \in A : regionMatches(w, x)
      BY <2>2, <2>3, MatchOrder
    <3> QED
      BY <1>2, <3>1
  <2>5. PICK s \in missing : s \in catalogue[w]
    OBVIOUS
  <2>6. PICK t \in missing : t # s
    <3>1. missing # {s}
      BY <1>1, <1>4, FS_Singleton
    <3> QED
      BY <3>1
  <2>7. w \in appendPossibleRegions(s, t)
    <3>1. w \in Offering(s)
      BY <2>5 DEF Offering
    <3>2. containsSuperRegion(Offering(t), w)
      BY <2>4 DEF containsSuperRegion, Offering
    <3>3. ~containsBaseRegion(Offering(t), w)
      BY <2>3 DEF containsBaseRegion, Offering
    <3> QED
      BY <3>1, <3>2, <3>3 DEF appendPossibleRegions
  <2>8. w \in possibleRegions(missing)
    <3>1. <<s, t>> \in {p \in missing \X missing : p[1] # p[2]}
      BY <2>6
    <3> QED
      BY <1>4, <2>7, <3>1 DEF possibleRegions
  <2>9. missing \subseteq Access(w)
    BY <2>4 DEF Access
  <2> QED
    BY <2>8, <2>9
<1> QED
  BY <1>3, <1>4

(* If any region gives access to all that the user's lacks, one that does is
   suggested, for every catalogue: of the regions that offer something missing, the
   most specific ones that end with it pass both tests.  (client.go 243-301) *)
THEOREM SuitableRegionsAreSuggested == Spec => SuggestsWhatServes
<1> DEFINE Suggests ==
      LET missing   == required \ Access(region)
          Serves(r) == missing \subseteq Access(r)
      IN (\E r \in Region : Serves(r)) => \E r \in suggested' : Serves(r)
<1>1. ASSUME TypeOK, Collected, Conclude, outcome' = "error" PROVE Suggests
  <2> DEFINE missing == required \ Access(region)
  <2>1. suggested' = possibleRegions(missing) /\ missing # {}
    BY <1>1, SuggestedForMissing
  <2>2. missing \in SUBSET Type
    BY <1>1 DEF TypeOK
  <2> HIDE DEF missing
  <2>3. (\E r \in Region : missing \subseteq Access(r))
          => \E v \in suggested' : missing \subseteq Access(v)
    BY <1>1, <2>1, <2>2, Suitable
  <2> QED
    BY <2>3 DEF missing
<1>2. TypeOK /\ Collected /\ [Next]_vars => [Conclude /\ outcome' = "error" => Suggests]_vars
  BY <1>1
<1> QED
  BY <1>2, AlwaysCollected, PTL DEF Spec, SuggestsWhatServes

=============================================================================
