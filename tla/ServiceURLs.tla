------------------------------ MODULE ServiceURLs ------------------------------
(***************************************************************************)
(* How goose's authenticating client picks the service URLs of its region  *)
(* out of the catalogue that comes with a token, and which other regions   *)
(* it suggests when services are missing (client/client.go 90-116 and      *)
(* 184-340).  A region name is a sequence of labels; what matters of a URL *)
(* is the region it stems from.                                            *)
(***************************************************************************)
EXTENDS Naturals, Sequences, FiniteSets

CONSTANTS
  Label,     \* the parts of region names
  Region,    \* names of regions: sequences of labels
  Type,      \* service types
  Defaults,  \* defaultRequiredServiceTypes as the program starts
  Nil        \* no URL

ASSUME RegionAssumption == Region \subseteq Seq(Label) /\ IsFiniteSet(Region)
ASSUME TypeAssumption == IsFiniteSet(Type) /\ Defaults \subseteq Type
ASSUME NilAssumption == Nil \notin Region

VARIABLES
  catalogue,  \* regionServiceURLs: the services each region offers
  region,     \* creds.Region
  defaults,   \* the package's defaultRequiredServiceTypes, shared by all clients
  required,   \* c.requiredServiceTypes
  urls,       \* c.serviceURLs: the region whose URL each service type has
  outcome,    \* of the last createServiceURLs; "walk" while it runs
  suggested,  \* the regions its error names
  ahead,      \* the regions of the catalogue it has still to come to
  merged      \* its serviceURLs: the URLs of the matching regions it has been to

walk == <<ahead, merged>>
vars == <<catalogue, region, defaults, required, urls, outcome, suggested, walk>>

TypeOK ==
  /\ catalogue \in [Region -> SUBSET Type]
  /\ region \in Region
  /\ defaults \in {Defaults, {}}
  /\ required \subseteq Type
  /\ urls \in [Type -> Region \cup {Nil}]
  /\ outcome \in {"none", "walk", "ok", "error"}
  /\ suggested \subseteq Region /\ ahead \subseteq Region
  /\ merged \in [Type -> Region \cup {Nil}]

NoURLs == [t \in Type |-> Nil]

-----------------------------------------------------------------------------
(* The region a user names matches an endpoint's region if it ends with it. *)
regionMatches(user, endpoint) ==
  /\ Len(endpoint) <= Len(user)
  /\ SubSeq(user, Len(user) - Len(endpoint) + 1, Len(user)) = endpoint

(* extractServiceTypeRegions: the regions that offer a service type. *)
Offering(type) == {r \in Region : type \in catalogue[r]}

containsBaseRegion(values, r)  == \E v \in values : regionMatches(v, r) /\ v # r
(* Mutant: a region counts as common to two services only if both list it. *)
containsSuperRegion_listed(values, r) == r \in values

containsSuperRegion(values, r) == \E v \in values : regionMatches(r, v) \/ v = r

(* The regions of one missing type in which the other one is to be had, too. *)
appendPossibleRegions(type, compare) ==
  {r \in Offering(type) : /\ ~containsBaseRegion(Offering(compare), r)
                          /\ containsSuperRegion(Offering(compare), r)}

(* Mutant: of several missing types only the first is looked at. *)
possibleRegions_first(missing) ==
  IF missing = {} THEN {} ELSE Offering(CHOOSE t \in missing : TRUE)

(* possibleRegions, for the service types that are missing. *)
possibleRegions(missing) ==
  IF Cardinality(missing) = 1 THEN UNION {Offering(t) : t \in missing}
  ELSE UNION {appendPossibleRegions(pair[1], pair[2]) :
                pair \in {p \in missing \X missing : p[1] # p[2]}}

-----------------------------------------------------------------------------
Init ==
  /\ catalogue \in [Region -> SUBSET Type]
  /\ region \in Region
  /\ defaults = Defaults
  /\ required = {} /\ urls = NoURLs
  /\ outcome = "none" /\ suggested = {}
  /\ ahead = {} /\ merged = NoURLs

(* NewClient, with a list of required services or nil: a list is not used, nil
   empties the defaults, for this client and all that follow. *)
NewClient(listed) ==
  /\ outcome # "walk"
  /\ defaults' = IF listed THEN defaults ELSE {}
  /\ required' = defaults'
  /\ region' \in Region
  /\ urls' = NoURLs /\ outcome' = "none" /\ suggested' = {}
  /\ UNCHANGED <<catalogue, walk>>

SetRequiredServiceTypes(types) ==
  /\ required' = types
  /\ UNCHANGED <<catalogue, region, defaults, urls, outcome, suggested, walk>>

(* createServiceURLs, called by a login while there are no URLs: a walk over the map of
   the catalogue, in the order the runtime chooses, and then the verdict. *)
Begin ==
  /\ outcome # "walk" /\ urls = NoURLs
  /\ outcome' = "walk" /\ suggested' = {}
  /\ ahead' = {r \in Region : catalogue[r] # {}}
  /\ merged' = NoURLs
  /\ UNCHANGED <<catalogue, region, defaults, required, urls>>

(* Mutant: a matching region takes the place of those before it. *)
Merge_replace(r) == [t \in Type |-> IF t \in catalogue[r] THEN r ELSE Nil]

(* The URLs of a region join those collected, in place of another region's. *)
Merge(r) == [t \in Type |-> IF t \in catalogue[r] THEN r ELSE merged[t]]

Walk(r) ==
  /\ outcome = "walk" /\ r \in ahead
  /\ ahead' = ahead \ {r}
  /\ merged' = IF regionMatches(region, r) THEN Merge(r) ELSE merged
  /\ UNCHANGED <<catalogue, region, defaults, required, urls, outcome, suggested>>

Conclude ==
  /\ outcome = "walk" /\ ahead = {}
  /\ LET missing == {t \in required : merged[t] = Nil}
     IN \/ /\ missing # {}
           /\ outcome' = "error" /\ suggested' = possibleRegions(missing)
           /\ UNCHANGED urls
        \/ /\ missing = {}
           /\ outcome' = "ok" /\ urls' = merged
           /\ UNCHANGED suggested
  /\ merged' = NoURLs
  /\ UNCHANGED <<catalogue, region, defaults, required, ahead>>

createServiceURLs == Begin \/ Conclude \/ \E r \in Region : Walk(r)

Next == \/ \E listed \in BOOLEAN : NewClient(listed)
        \/ \E types \in SUBSET Type : SetRequiredServiceTypes(types)
        \/ createServiceURLs

Spec == Init /\ [][Next]_vars

-----------------------------------------------------------------------------
(* The services a user of region r can reach. *)
Access(r) == {t \in Type : \E v \in Region : t \in catalogue[v] /\ regionMatches(r, v)}

(* A login that succeeds offers every service of the user's region and no other,
   each at a URL of a matching region that has it, in whatever order the catalogue is
   walked.  (createServiceURLs 186-198 and 239) *)
URLsOfRegion ==
  \A t \in Type :
    /\ urls[t] # Nil => t \in catalogue[urls[t]] /\ regionMatches(region, urls[t])
    /\ outcome = "ok" => (urls[t] # Nil <=> t \in Access(region))

(* Every region suggested gives access to a missing service, to two of them if
   more than one is missing.  (possibleRegions, appendPossibleRegions) *)
SuggestionsHelp ==
  [][Conclude /\ outcome' = "error" =>
       LET missing == required \ Access(region)
       IN \A r \in suggested' :
            \E s, t \in missing \cap Access(r) : s = t => missing = {s}]_vars

(* If some region gives access to all that is missing, a region that does so is among
   those suggested: dropping the regions a more specific one stands for
   (containsBaseRegion) never drops the last.  (possibleRegions 243-274) *)
SuggestsWhatServes ==
  [][Conclude /\ outcome' = "error" =>
       LET missing   == required \ Access(region)
           Serves(r) == missing \subseteq Access(r)
       IN (\E r \in Region : Serves(r)) => \E r \in suggested' : Serves(r)]_vars

=============================================================================
