------------------------------ MODULE ConfFile ------------------------------
(***************************************************************************)
(* Configuration files: conf/ keeps sections of options in memory, writes  *)
(* them to a file, in the order a Go map happens to give, and reads them   *)
(* back line by line.  A line is what Read makes of it; a value is the     *)
(* sequence of the lines it spans.                                         *)
(***************************************************************************)
EXTENDS Naturals, FiniteSets, SequencesExt

CONSTANTS
  Section,     \* section names, NoName ("") and Default among them
  NoName, Default,
  Option,      \* option names
  RemLike,     \* the options whose names start with "rem", "#" or ";"
  Open,        \* the options whose names start with "["
  Lower,       \* the name in lower case, as it is kept
  Plain,       \* pieces of text that are only text
  Empty, Remark, Assign, Trailed, Bracket, Masked,  \* the other pieces of a value
  Closed,      \* the pieces that end with "]"
  Other,       \* the option that Assign looks like
  Within,      \* the section that a line in brackets looks like
  Null,
  Values,      \* the values given to AddOption
  Files,       \* the files read, as sequences of lines
  MaxEntries,  \* bound of the options of a configuration
  MaxPieces    \* bound of the lines of a value

(* Remark starts with "#" or ";"; Assign holds a "=", so that it reads as an
   option; Bracket is "[x]", so that it reads as a section; Trailed is a plain piece,
   and Masked is Bracket, before a space and a comment. *)
Piece == Plain \cup {Empty, Remark, Assign, Trailed, Bracket, Masked}
Bare  == CHOOSE p \in Plain : TRUE   \* Trailed without its comment

Value == Seq(Piece) \ {<<>>}

Blank   == [kind |-> "blank"]
Comment == [kind |-> "comment"]

(* What Read can take a line for: the start of a name can make a comment or a section
   of it, and a line of text is no comment, no blank, no assignment and no section. *)
Line == {Blank, Comment}
          \cup [kind : {"section"}, s : Section]
          \cup {l \in [kind : {"option"}, o : Option \ RemLike, p : Piece] :
                  ~(l.o \in Open /\ l.p \in Closed)}
          \cup [kind : {"text"}, p : Plain \cup {Trailed, Masked}]

ASSUME NamesAssumption ==
  /\ IsFiniteSet(Section) /\ IsFiniteSet(Option)
  /\ {NoName, Default, Within} \subseteq Section /\ NoName # Default
  /\ RemLike \subseteq Option /\ Open \subseteq Option \ RemLike
  /\ Other \in Option \ (RemLike \cup Open)
  /\ Lower \in [Option -> Option]
  /\ \A o \in Option : Lower[Lower[o]] = Lower[o] /\ (Lower[o] \in RemLike <=> o \in RemLike)

ASSUME TextAssumption ==
  /\ Plain # {} /\ Plain \cap {Empty, Remark, Assign, Trailed, Bracket, Masked} = {}
  /\ {Trailed, Bracket, Masked} \cap {Empty, Remark, Assign} = {}
  /\ Trailed # Bracket /\ Trailed # Masked /\ Bracket # Masked
  /\ Values \subseteq Value /\ Files \subseteq Seq(Line)

ASSUME NullAssumption ==
  /\ Null \notin Option /\ Null \notin Value
  /\ Null \notin [Option -> Value \cup {Null}]

VARIABLES
  data,    \* section -> option -> value; Null where there is none
  origin   \* "built" by calls since it was made, or as "read" from a file
vars == <<data, origin>>

NoOptions == [o \in Option |-> Null]
NewConfigFile == [s \in Section |-> IF s = Default THEN NoOptions ELSE Null]
-----------------------------------------------------------------------------
AddSection(d, s) == IF d[s] = Null THEN [d EXCEPT ![s] = NoOptions] ELSE d

AddOption(d, s, o, v) == [AddSection(d, s) EXCEPT ![s][Lower[o]] = v]

RemoveSection(d, s) == IF s = Default THEN d ELSE [d EXCEPT ![s] = Null]

RemoveOption(d, s, o) == IF d[s] = Null THEN d ELSE [d EXCEPT ![s][Lower[o]] = Null]

(* "" stands for the default section when something is looked up. *)
Named(s) == IF s = NoName THEN Default ELSE s

HasSection(d, s) == d[Named(s)] # Null

GetOptions(d, s) ==
  {o \in Option : d[Default][o] # Null} \cup {o \in Option : d[Named(s)][o] # Null}

(* Mutant: the options of the default section are not looked at. *)
HasOption_own(d, s, o) == HasSection(d, s) /\ d[Named(s)][Lower[o]] # Null

HasOption(d, s, o) ==
  HasSection(d, s) /\ (d[Default][Lower[o]] # Null \/ d[Named(s)][Lower[o]] # Null)

GetRawString(d, s, o) == IF HasSection(d, s) THEN d[Named(s)][Lower[o]] ELSE Null
-----------------------------------------------------------------------------
(* Read: the lines one by one, with the section and the option they are in. *)
stripComments(p) == CASE p = Trailed -> Bare
                      [] p = Masked  -> Bracket
                      [] OTHER       -> p

(* Mutant: a continuation line replaces what was read before it. *)
Continued_last(v, p) == <<stripComments(p)>>

Continued(v, p) == Append(v, stripComments(p))

Start == [data |-> NewConfigFile, section |-> Default, option |-> Null, ok |-> TRUE]

Take(r, l) ==
  CASE ~r.ok \/ l.kind \in {"blank", "comment"} -> r
    [] r.ok /\ l.kind = "section" ->
         [r EXCEPT !.data = AddSection(@, l.s), !.section = l.s, !.option = Null]
    [] r.ok /\ l.kind \in {"option", "text"} /\ r.section = NoName -> [r EXCEPT !.ok = FALSE]
    [] r.ok /\ l.kind = "option" /\ r.section # NoName ->
         [r EXCEPT !.option = l.o,
                   !.data = AddOption(@, r.section, l.o, <<stripComments(l.p)>>)]
    [] r.ok /\ l.kind = "text" /\ r.section # NoName ->
         IF r.option = Null THEN [r EXCEPT !.ok = FALSE]
         ELSE [r EXCEPT !.data = AddOption(@, r.section, r.option,
                  Continued(GetRawString(@, r.section, r.option), l.p))]

Read(lines) ==
  LET r[n \in 0..Len(lines)] == IF n = 0 THEN Start ELSE Take(r[n - 1], lines[n])
  IN  r[Len(lines)]

(* Write: "option=value" is a line of the file, and so is each line of the value after
   its first; they are read for what they look like. *)
Bracketed == [kind |-> "section", s |-> Within]

OptionLine(o, p) == CASE o \in RemLike                -> Comment
                      [] o \in Open /\ p \in Closed -> Bracketed
                      [] OTHER -> [kind |-> "option", o |-> o, p |-> p]

NextLine(p) == CASE p = Empty   -> Blank
                 [] p = Remark  -> Comment
                 [] p = Assign  -> [kind |-> "option", o |-> Other, p |-> Bare]
                 [] p = Bracket -> Bracketed
                 [] OTHER       -> [kind |-> "text", p |-> p]

OptionLines(o, v) == <<OptionLine(o, v[1])>> \o [k \in 1..Len(v) - 1 |-> NextLine(v[k + 1])]

Kept(d) == {s \in Section : d[s] # Null} \ (IF d[Default] = NoOptions THEN {Default} ELSE {})
Given(d, s) == {o \in Option : d[s][o] # Null}

SectionLines(d, s, order) ==
  <<[kind |-> "section", s |-> s]>>
    \o FlattenSeq([k \in DOMAIN order |-> OptionLines(order[k], d[s][order[k]])])
    \o <<Blank>>

Orders(d) == {f \in [Kept(d) -> UNION {SetToSeqs(Given(d, s)) : s \in Kept(d)}] :
                 \A s \in Kept(d) : ToSet(f[s]) = Given(d, s)}

Writes(d) ==
  {FlattenSeq([k \in DOMAIN ss |-> SectionLines(d, ss[k], os[ss[k]])]) :
     ss \in SetToSeqs(Kept(d)), os \in Orders(d)}
-----------------------------------------------------------------------------
Init ==
  \/ data = NewConfigFile /\ origin = "built"
  \/ /\ origin = "read"
     /\ \E f \in Files : Read(f).ok /\ data = Read(f).data

Entries == {e \in Section \X Option : data[e[1]] # Null /\ data[e[1]][e[2]] # Null}

Change ==
  /\ \E s \in Section, o \in Option, v \in Values :
        \/ data' = AddSection(data, s)
        \/ data' = RemoveSection(data, s)
        \/ Cardinality(Entries) < MaxEntries /\ data' = AddOption(data, s, o, v)
        \/ data' = RemoveOption(data, s, o)
  /\ origin' = "built"

(* WriteConfigFile, and ReadConfigFile when the program runs again; a file that
   cannot be read gives no configuration. *)
Reload ==
  \E f \in Writes(data) :
    /\ Read(f).ok
    /\ data' = Read(f).data /\ origin' = "read"
    /\ \A e \in Entries' : Len(data'[e[1]][e[2]]) <= MaxPieces

Next == Change \/ Reload

Spec == Init /\ [][Next]_vars
-----------------------------------------------------------------------------
(* What a configuration must keep clear of to survive its file: options that look
   like a comment, values with a comment of their own, lines that look like a blank, a
   comment or an option, and options under "". *)
Tame(d) ==
  \A s \in Section, o \in Option : d[s] # Null /\ d[s][o] # Null =>
    /\ s # NoName /\ o \notin RemLike
    /\ d[s][o][1] \notin {Trailed, Masked}
    /\ \A k \in 2..Len(d[s][o]) : d[s][o][k] \in Plain \cup {Bracket}

(* No line of an option looks like a section. *)
Unbracketed(d) ==
  \A s \in Section, o \in Option : d[s] # Null /\ d[s][o] # Null =>
    /\ ~(o \in Open /\ d[s][o][1] \in Closed)
    /\ \A k \in 2..Len(d[s][o]) : d[s][o][k] # Bracket

ReadsBack(d) == \A f \in Writes(d) : Read(f).ok /\ Read(f).data = d

(* A tame configuration without brackets is read back as it was, in whatever order its
   sections and options were written.  What was read from a file is tame, so brackets
   are all that can change it when it is written and read once more; they can come
   from a line whose comment hid them, as in "[x] ;foo".  (Read 65-104, Write 44-59) *)
RoundTrip == (Tame(data) \/ origin = "read") /\ Unbracketed(data) => ReadsBack(data)

(* The lookups agree: an option that has a value is reported by HasOption, which
   reports exactly what GetOptions lists; one that is reported and has no value
   is an option of the default section. *)
LookupsAgree ==
  \A s \in Section, o \in Option :
    LET raw == GetRawString(data, s, o) IN
    /\ raw # Null => HasOption(data, s, o)
    /\ HasSection(data, s) => (HasOption(data, s, o) <=> Lower[o] \in GetOptions(data, s))
    /\ HasOption(data, s, o) /\ raw = Null => GetRawString(data, Default, o) # Null
=============================================================================
