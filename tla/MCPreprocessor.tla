--------------------------- MODULE MCPreprocessor ---------------------------
(* Bounded instances of the preprocessor: calls of three macros with       *)
(* arguments that are calls and groups themselves, up to three deep; files *)
(* that use macros of others; and every way a definition, a directive or a *)
(* call can be wrong.                                                      *)
EXTENDS Preprocessor

Word(token) == [kind |-> "word", token |-> token]
Name(name) == Word(Ident(name))
Group(items) == [kind |-> "group", items |-> items]
Applied(name, arguments) == [kind |-> "applied", name |-> name, arguments |-> arguments]
Instruction(kinds) ==
  [ kind   |-> "directive",
    tokens |-> [i \in DOMAIN kinds |-> IF kinds[i] = "IDENT" THEN Ident("m") ELSE Token(kinds[i])] ]
Define(name, parameters, body) ==
  [ kind |-> "define", name |-> name, listed |-> parameters # << >>,
    parameters |-> parameters, body |-> body ]

Comma == Word(Token("COMMA"))
Plus  == Word(Token("PLUS"))
A     == Name("a")

(* ZERO has no parameters, ONE uses its parameter twice, TWO swaps its own *)
(* and mentions another macro.                                             *)
Zero == Define("ZERO", << >>, << Token("CONST") >>)
One  == Define("ONE", << "x" >>,
          << Token("L_PAREN"), Ident("x"), Token("PLUS"), Ident("x"), Token("R_PAREN") >>)
Two  == Define("TWO", << "x", "y" >>,
          << Ident("y"), Token("COMMA"), Ident("ZERO"), Ident("x"), Ident("a") >>)

UpToTwo(S) == { << s >> : s \in S } \cup { << s, t >> : s \in S, t \in S }
Applications(names, arguments) ==
  { Applied(name, list) : name \in names, list \in UpToTwo(arguments) }

Flat == { << >>, << A >>, << A, Plus, Name("ZERO") >>, << Plus, Group(<< A, Comma, Name("ZERO") >>) >> }
Shallow == Applications({"ONE", "TWO", "ZERO", "f"}, Flat)

Inner == { Applied("ONE", << << A >> >>),
           Applied("ONE", << << Applied("ONE", << << Plus >> >>) >> >>),
           Name("ZERO"),
           Applied("ONE", << << >> >>),
           Applied("TWO", << << A, Plus >>, << Group(<< A, Comma, A >>) >> >>),
           Applied("TWO", << << Group(<< A >>) >> >>),
           Applied("f", << << A >>, << Name("ZERO") >> >>) }
Nesting == { << A >> } \cup { << i >> : i \in Inner } \cup { << Plus, Group(<< i, Comma, A >>) >> : i \in Inner }
Deep == Applications({"ONE", "TWO"}, Nesting)

Deepest ==
  { Applied("ONE", << << Plus, Group(<< Applied("TWO", << << i >>, << Group(<< i, Comma >>), Plus >> >>) >>) >> >>) :
      i \in Inner }
  \cup { Applied("TWO", << << A >>, << A >>, << A >> >>), Name("ONE"), Name("ZERO"), Comma }

Macros == << Zero, One, Two >>
OneFile == { << Macros \o << i, Comma, A >> >> : i \in Shallow \cup Deep \cup Deepest }

Uses == { Applied("ONE", << << Applied("TWO", << << A >>, << Name("ZERO") >> >>) >> >>),
          Applied("TWO", << << A >> >>), Name("ONE"), Plus }
TwoFiles ==
  { << << i, Zero >>, << One, j, Two >>, << k >> >> : i \in Uses, j \in Uses, k \in Uses }

Unended(tokens) == [kind |-> "directive", tokens |-> << Token("MACRO") >> \o tokens]
AnyDefinition ==
  { Zero, One, Two,
    Define("ONE", << "y" >>, << Ident("x"), Ident("y") >>),
    Define("ZERO", << >>, << >>),
    Define("ONE", << "x", "x" >>, << Ident("x") >>),
    Define("ZERO", << >>, << Token("MACRO") >>),
    Unended(<< Token("CONST") >>),
    Unended(<< Ident("ONE"), Token("L_PAREN"), Token("R_PAREN"), Token("PLUS"), Token("ENDMACRO") >>),
    Unended(<< Ident("ONE"), Token("L_PAREN"), Ident("x"), Token("PLUS"), Token("R_PAREN") >>),
    Unended(<< Ident("ONE"), Token("PLUS") >>) }
DefinitionPairs ==
  { << << d, e >>, << One >>, << Applied("ONE", << << A >> >>), Name("ZERO") >> >> :
      d \in AnyDefinition, e \in AnyDefinition }

Import == << "IMPORT", "STR_CONST", "SEMICOLON" >>
Module == << "MODULE", "IDENT", "SEMICOLON" >>
Expects == << "OUNIT", "COLON", "L_BRACKET", "FAIL_TO_COMPILE", "R_BRACKET" >>
Exits == << "OUNIT", "COLON", "L_BRACKET", "EXIT_STATUS", "EQUALS", "CONST", "R_BRACKET" >>
Directives ==
  { Instruction(d) : d \in { Import, Module, Expects, Exits } }
  \cup { Instruction(SubSeq(d, 1, Len(d) - 1)) : d \in { Import, Module, Exits } }
  \cup { Instruction(<< "ENDMACRO" >>), Instruction(<< "IMPORT", "IDENT", "SEMICOLON" >>) }
DirectiveTriples ==
  { << << i, j, k, A >>, << Name("ZERO") >> >> :
      i \in Directives, j \in Directives \cup { Plus }, k \in Directives \cup { Zero } }

MCProjects == OneFile \cup TwoFiles \cup DefinitionPairs \cup DirectiveTriples
=============================================================================
