---------------------------- MODULE MCConfFile ----------------------------
(* An instance of configuration files for TLC. *)
EXTENDS ConfFile, TLC

CONSTANTS o1, upper, rem, open, p1

LowerCase == (o1 :> o1) @@ (upper :> o1) @@ (rem :> rem) @@ (open :> open)

SomeValues == {<<p1>>, <<Empty>>, <<Trailed>>, <<Assign>>, <<Empty, p1>>, <<p1, p1>>,
               <<p1, Assign>>, <<p1, Remark>>, <<p1, Empty>>, <<p1, Trailed>>,
               <<Bracket>>, <<p1, Masked>>}

(* Hand-written files of up to four lines. *)
SomeLines ==
  {Blank} \cup [kind : {"section"}, s : Section] \cup [kind : {"text"}, p : {p1, Trailed, Masked}]
    \cup [kind : {"option"}, o : {o1, upper}, p : {p1, Empty, Trailed}]
    \cup [kind : {"option"}, o : {open}, p : {p1, Masked}]
SomeFiles == UNION {[1..n -> SomeLines] : n \in 0..4}
=============================================================================
