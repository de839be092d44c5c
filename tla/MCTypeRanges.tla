---------------------------- MODULE MCTypeRanges ----------------------------
(***************************************************************************)
(* TypeRanges with integers of four bits.  A first type restricts a        *)
(* basetype with up to three ranges over numbers on both sides of every    *)
(* limit; a second one is derived from it with a size or a range.          *)
(*                                                                         *)
(* Or Rendering with octets of two bits and words of two octets: octet     *)
(* strings up to twice as long as a word with hints of up to three         *)
(* specifications, and values of the other basetypes with all the flags.   *)
(* A behaviour is one of either.                                           *)
(***************************************************************************)
EXTENDS TypeRanges, Rendering

Ends == {-9, -1, 0, 6, 7, 8, 15, 17}
Some == {<<-1, 1>>, <<0, 0>>, <<1, 3>>, <<4, 6>>, <<3, 7>>, <<6, 1>>}
Lists == {<<<<a, b>>>> : a \in Ends, b \in Ends}
         \cup {<<p, q>> : p \in Some, q \in Some}
         \cup {<<p, q, r>> : p \in Some \ {<<6, 1>>}, q \in Some \ {<<0, 0>>},
                             r \in Some \ {<<6, 1>>}}
Derived == {<<<<3, 7>>>>, <<<<4, 6>>, <<0, 1>>>>}
Defaults == Ends \cup {1, 4}
RestrictionsValue == <<Lists, Derived>>

-----------------------------------------------------------------------------
Names == {"a", "b", "c", "T", "IpAddress"}
Chars == {".", "-", ":"}
Sp(n, as, sep) == [pfx |-> n, as |-> as, sep |-> sep]
Ty(nm, hint) ==
  [name |-> nm, format |-> hint,
   numbers |-> <<[name |-> "a", number |-> 0], [name |-> "b", number |-> 2],
                 [name |-> "c", number |-> 2]>>]
Va(b, n, octets) == [base |-> b, number |-> n, octets |-> octets]

Specs == {Sp(n, a, e) : n \in {NULL, 0, 2}, a \in {"t", "b", "x", "bad"}, e \in {NULL, "-"}}
Hints == {<<>>} \cup {<<a>> : a \in Specs} \cup {<<a, b>> : a, b \in Specs}
         \cup {<<Sp(3, "x", ":"), Sp(NULL, "bad", NULL)>>, <<Sp(4, "d", NULL)>>,
               <<Sp(1, "o", "."), Sp(3, "x", NULL), Sp(2, "a", "-")>>}
ByHint == {[value |-> Va("OCTETSTRING", 0, o), type |-> Ty("T", h), flags |-> {"format"}] :
             o \in {<<>>, <<1>>, <<2, 1, 0>>, <<1, 3, 2, 1>>}, h \in Hints}

SomeTypes ==
  {NULL, Ty(NULL, NULL), Ty("T", NULL), Ty("IpAddress", NULL), Ty("T", <<>>),
   Ty("T", <<Sp(1, "x", NULL)>>)}
  \cup {Ty("T", <<Sp(NULL, a, NULL)>>) : a \in {"d", "x", "o", "b", "bad"}}
  \cup {Ty("T", <<Sp(NULL, "d", "-"), Sp(n, "bad", NULL)>>) : n \in {NULL, 0, 2, 30}}
SomeValues ==
  {NULL, Va("FLOAT64", 0, <<>>)}
  \cup {Va(b, n, <<>>) : b \in {"INTEGER32", "INTEGER64", "ENUM"}, n \in {-15, -1, 0, 2, 100}}
  \cup {Va(b, n, <<>>) : b \in {"UNSIGNED32", "UNSIGNED64"}, n \in {0, 2, 100}}
  \cup {Va(b, 0, o) : b \in {"BITS", "OCTETSTRING"}, o \in {<<>>, <<1>>, <<2, 3>>}}
SomeFlags == {{}, {"format"}, {"name", "unknown"}, Flag}
SomeCalls == ByHint \cup {[value |-> v, type |-> t, flags |-> f] :
                            v \in SomeValues, t \in SomeTypes, f \in SomeFlags}

-----------------------------------------------------------------------------
\* The other part stays where it has nothing to do.
NoRanges == language = "smiv1" /\ types = <<>> /\ job = Idle /\ default = NoDefault
NoRender == /\ call = [value |-> NULL, type |-> NULL, flags |-> {}]
            /\ st = "end" /\ spec = 0 /\ i = 0 /\ s = <<>> /\ answer = Without("null")

EitherInit == (Init /\ NoRender) \/ (NoRanges /\ RenderInit)
Render == spec # 0 /\ RenderNext /\ UNCHANGED vars
EitherNext == (spec = 0 /\ Next /\ UNCHANGED renderVars) \/ Render
EitherSpec == EitherInit /\ [][EitherNext]_<<vars, renderVars>>
=============================================================================
