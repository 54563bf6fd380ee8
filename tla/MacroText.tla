------------------------------ MODULE MacroText ------------------------------
(***************************************************************************)
(* Files as their author means them, and what they mean once macros are    *)
(* replaced.  A file is a sequence of items:                               *)
(*                                                                         *)
(*   word       one token                                                  *)
(*   group      items in parentheses                                       *)
(*   applied    an identifier and a list of arguments in parentheses,      *)
(*              each of them a sequence of items                           *)
(*   define     a macro: its name, whether it has a list of parameters,    *)
(*              the parameters, and the tokens of its body                 *)
(*   directive  tokens that begin with $import, $module or OUNIT, or a     *)
(*              definition that is not of that form                        *)
(*                                                                         *)
(* In an argument no word is a comma or a parenthesis, and no group comes  *)
(* after a word that is an identifier (that is an applied).  An identifier *)
(* whose macro has no parameters may be applied to anything; its arguments *)
(* then stand behind its body.                                             *)
(***************************************************************************)
EXTENDS Naturals, Sequences, SequencesExt

(* A token is its kind and, of an identifier, its name. *)
Ident(name) == [tok |-> "IDENT", lexeme |-> name]
Token(kind) == [tok |-> kind, lexeme |-> ""]

RECURSIVE Flattened(_)
Flattened(seqs) == IF seqs = << >> THEN << >> ELSE Head(seqs) \o Flattened(Tail(seqs))

(* The sequences of a list with a comma between each two of them. *)
Listed(seqs) ==
  Flattened([i \in DOMAIN seqs |->
    (IF i = 1 THEN << >> ELSE << Token("COMMA") >>) \o seqs[i]])

InParentheses(tokens) == << Token("L_PAREN") >> \o tokens \o << Token("R_PAREN") >>

------------------------------------------------------------------------------
(* The tokens the lexer makes of a sequence of items. *)

RECURSIVE Rendered(_)
Rendered(items) ==
  LET Arguments(list) == InParentheses(Listed([j \in DOMAIN list |-> Rendered(list[j])]))
      OfDefinition(d) ==
           << Token("MACRO"), Ident(d.name) >>
        \o (IF d.listed
            THEN InParentheses(Listed([j \in DOMAIN d.parameters |-> << Ident(d.parameters[j]) >>]))
            ELSE << >>)
        \o d.body \o << Token("ENDMACRO") >>
      Of(item) == CASE item.kind = "word"      -> << item.token >>
                    [] item.kind = "group"     -> InParentheses(Rendered(item.items))
                    [] item.kind = "applied"   -> << Ident(item.name) >> \o Arguments(item.arguments)
                    [] item.kind = "define"    -> OfDefinition(item)
                    [] item.kind = "directive" -> item.tokens
  IN  Flattened([i \in DOMAIN items |-> Of(items[i])])

------------------------------------------------------------------------------
(* Definitions and directives.  A macro is known from the file that        *)
(* defines it on, in all of that file.                                     *)

WellFormedDirectives ==
  { << Token("IMPORT"), Token("STR_CONST"), Token("SEMICOLON") >>,
    << Token("MODULE"), Ident("m"), Token("SEMICOLON") >>,
    << Token("OUNIT"), Token("COLON"), Token("L_BRACKET"), Token("FAIL_TO_COMPILE"), Token("R_BRACKET") >>,
    << Token("OUNIT"), Token("COLON"), Token("L_BRACKET"),
       Token("EXIT_STATUS"), Token("EQUALS"), Token("CONST"), Token("R_BRACKET") >> }

IsDirective(item, kind) == item.kind = "directive" /\ Head(item.tokens).tok = kind

Definitions(file) == { i \in DOMAIN file : file[i].kind = "define" }

Macro(d) == [ parameters |-> d.parameters, body |-> d.body ]

Known(macros, file) ==
  [ name \in DOMAIN macros \cup { file[i].name : i \in Definitions(file) } |->
      IF name \in DOMAIN macros THEN macros[name]
      ELSE Macro(file[CHOOSE i \in Definitions(file) : file[i].name = name]) ]

WellFormedDefinition(d) ==
  /\ d.body # << >> /\ Token("MACRO") \notin ToSet(d.body)
  /\ d.listed <=> d.parameters # << >>
  /\ IsInjective(d.parameters)

(* A module is named first of all and imports come next; a name is given   *)
(* to one macro only.                                                      *)
WellFormedFile(file, macros) ==
  /\ \A i \in Definitions(file) :
       /\ WellFormedDefinition(file[i])
       /\ file[i].name \notin DOMAIN macros
       /\ \A j \in Definitions(file) : file[i].name = file[j].name => i = j
  /\ \A i \in DOMAIN file :
       /\ file[i].kind = "directive" => file[i].tokens \in WellFormedDirectives
       /\ IsDirective(file[i], "MODULE") => i = 1
       /\ IsDirective(file[i], "IMPORT") =>
            \A j \in 1 .. i - 1 : IsDirective(file[j], "IMPORT") \/ IsDirective(file[j], "MODULE")

------------------------------------------------------------------------------
(* What is left of items once every call of a macro is replaced.  A call   *)
(* inside an argument is replaced before the argument is put into the      *)
(* body; names in a body that are no parameters stay what they are.        *)

Parameterized(name, macros) ==
  name \in DOMAIN macros /\ macros[name].parameters # << >>

RECURSIVE Replaceable(_, _)
Replaceable(items, macros) ==
  LET Is(item) ==
        CASE item.kind = "word" ->
               ~(item.token.tok = "IDENT" /\ Parameterized(item.token.lexeme, macros))
          [] item.kind = "group" -> Replaceable(item.items, macros)
          [] item.kind = "applied" ->
               /\ \A j \in DOMAIN item.arguments : Replaceable(item.arguments[j], macros)
               /\ Parameterized(item.name, macros) =>
                    /\ Len(item.arguments) = Len(macros[item.name].parameters)
                    /\ \A j \in DOMAIN item.arguments : item.arguments[j] # << >>
          [] OTHER -> TRUE
  IN  \A i \in DOMAIN items : Is(items[i])

RECURSIVE Replaced(_, _)
Replaced(items, macros) ==
  LET Body(macro, arguments) ==
        Flattened([k \in DOMAIN macro.body |->
          IF \E j \in DOMAIN macro.parameters : macro.body[k] = Ident(macro.parameters[j])
          THEN arguments[CHOOSE j \in DOMAIN macro.parameters :
                           macro.body[k] = Ident(macro.parameters[j])]
          ELSE << macro.body[k] >>])
      Name(name) == IF name \in DOMAIN macros THEN macros[name].body ELSE << Ident(name) >>
      Applied(item) ==
        LET arguments == [j \in DOMAIN item.arguments |-> Replaced(item.arguments[j], macros)]
        IN  IF Parameterized(item.name, macros)
            THEN Body(macros[item.name], arguments)
            ELSE Name(item.name) \o InParentheses(Listed(arguments))
      Of(item) == CASE item.kind = "word" ->
                         IF item.token.tok = "IDENT" THEN Name(item.token.lexeme) ELSE << item.token >>
                    [] item.kind = "group"   -> InParentheses(Replaced(item.items, macros))
                    [] item.kind = "applied" -> Applied(item)
                    [] OTHER -> << >>
  IN  Flattened([i \in DOMAIN items |-> Of(items[i])])
==============================================================================
