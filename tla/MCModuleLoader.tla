--------------------------- MODULE MCModuleLoader ---------------------------
(***************************************************************************)
(* Small search paths for the module loader: two user modules A and B and  *)
(* the SMI module S.  Each file is one of the shapes that matter: absent,  *)
(* plain, importing from another, from itself or from none, named for one  *)
(* module and holding another (the SMI module, for one), holding two       *)
(* modules, cut short, a PIB, one without imports that uses a textual      *)
(* convention, or with compliance and capabilities clauses that are sound, *)
(* broken or name a missing module or the SMI module.                      *)
(***************************************************************************)
EXTENDS ModuleLoader, FiniteSets

CONSTANTS A, B, S, xa, xb, mt

Names   == {A, B, S}
Symbols == {xa, xb, mt}
ClassOf == [s \in Symbols |-> IF s = mt THEN "macro" ELSE "object"]

Tok(op, name, syms) == [op |-> op, name |-> name, syms |-> syms]
Header(m)     == Tok("module", m, <<>>)
From(m, syms) == Tok("import", m, syms)
Semicolon     == Tok("endimports", NULL, <<>>)
Decl(syms)    == Tok("declare", NULL, syms)
Convention(syms) == Tok("convention", NULL, syms)
End           == Tok("end", NULL, <<>>)
Bad           == Tok("flush", NULL, <<>>)
Clause(c, m, s) == <<Tok(c, m, <<>>), Tok("ref", NULL, <<s>>)>>
EndOfClause   == <<Tok("endclause", NULL, <<>>)>>

\* A module of name m that defines s and imports r from module k.
Plain(m, s) == <<Header(m), Decl(<<s>>), End>>
Importing(m, s, k, r) ==
  <<Header(m), From(k, <<r>>), Semicolon, Decl(<<s, r>>), End>>
Macros(m, s, k, r) ==
  <<Header(m), From(k, <<r>>), From(S, <<mt>>), Semicolon, Decl(<<s>>), End>>

\* Shapes of the file found for user module m, k being the other one.
CommonFiles(m, s, k, r) ==
  { Plain(m, s),
    Macros(m, s, k, r),
    Importing(k, r, m, s),
    SubSeq(Importing(m, s, k, r), 1, 3),
    <<Header(m), Decl(<<s, r>>)>> \o Clause("compliance", k, r)
      \o EndOfClause \o <<Decl(<<r>>), End>> }
OddFiles(m, s, k, r) ==
  { Importing(m, s, m, s),
    Plain(m, s) \o Importing(k, r, m, s),
    <<Header(m), From(k, <<r>>), End>>,
    <<Header(m), Semicolon>> \o Clause("compliance", k, r) \o EndOfClause
      \o Clause("capabilities", k, r) \o EndOfClause \o <<Convention(<<s>>), End>>,
    <<Header(m)>> \o Clause("compliance", k, r) \o <<Bad, Decl(<<s, xb>>), End>>,
    <<Header(m)>> \o Clause("capabilities", k, r) \o <<End, Decl(<<s>>), End>>,
    <<Tok("pib", m, <<>>), From(S, <<mt>>), Semicolon, Decl(<<s>>), End>>,
    <<Header(m), Convention(<<s>>), Bad, Decl(<<r>>), End>>,
    <<Header(m), From(k, <<mt>>), Semicolon, Decl(<<s>>), End>>,
    <<Header(m)>> \o Clause("capabilities", S, mt) \o EndOfClause \o <<End>> }

SmiFiles == { Plain(S, mt), Macros(S, mt, A, xa) }

\* Every combination of the shapes, each file present or absent.
Layouts ==
  { [n \in on |-> IF n = A THEN fa ELSE IF n = B THEN fb ELSE fs] :
      fa \in CommonFiles(A, xa, B, xb) \cup OddFiles(A, xa, B, xb),
      fb \in CommonFiles(B, xb, A, xa) \cup {Plain(S, mt)}, fs \in SmiFiles,
      on \in SUBSET Names }

\* Files that import in a chain, so that small scanner stacks overflow.
Chains ==
  { [n \in on |-> IF n = A THEN fa ELSE IF n = B THEN fb ELSE fs] :
      fa \in {Importing(A, xa, B, xb), Plain(A, xa) \o Importing(B, xb, S, mt),
              <<Header(A)>> \o Clause("compliance", B, xb) \o EndOfClause
                \o <<Decl(<<xa>>), End>>},
      fb \in {Macros(B, xb, A, xa), Importing(B, xb, S, mt)}, fs \in SmiFiles,
      on \in SUBSET Names }
=============================================================================
