----------------------------- MODULE Preprocessor -----------------------------
(***************************************************************************)
(* The preprocessor (oc/compiler/preprocessor).  It takes the files in the *)
(* order of the build and goes over the tokens of each twice.  The         *)
(* consumption pass records macros in the macro symtab, checks directives, *)
(* and flags the tokens of both to be ignored.  The replacement pass       *)
(* copies the others, and puts the body of a macro where it is called.     *)
(*                                                                         *)
(* generate_parameter_substitution_array and perform_macro_substitution    *)
(* call each other when an argument calls a macro: `calls' is the stack of *)
(* calls that are still reading their arguments, innermost last, each with *)
(* the nesting level it keeps in its own frame.                            *)
(***************************************************************************)
EXTENDS MacroText

CONSTANTS
  Projects    \* the files a compilation may come with, in compilation order

VARIABLES
  project,    \* the files; never written
  stream,     \* the token stream of the file in turn
  streams,    \* the token streams of the files that are done
  pass,       \* "consume", "replace", then "accepted" or "rejected"
  at,         \* the index into the token stream of the current file
  topOfFile,  \* in_top_of_file
  ignored,    \* the tokens of the stream that are flagged ignore
  macros,     \* the macro symtab, from names to records
  counted,    \* num_macros and num_ounit_directives: has either been bumped?
  definition, \* the macro record process_macro works on, or NoDefinition
  grouping,   \* paren_grouping_stack: how many L_PAREN it holds
  calls,      \* the frames of perform_parameterized_substitution
  output      \* new_token_array

vars == << project, stream, streams, pass, at, topOfFile, ignored, macros, counted,
           definition, grouping, calls, output >>

Consuming == << topOfFile, ignored, macros, counted, definition >>
Replacing == << calls, output >>

NoDefinition == [reading |-> "nothing"]

(* What the lexer makes of the file in turn; behind the last one, nothing. *)
Tokenized(i) == IF i <= Len(project) THEN Rendered(project[i]) \o << Token("DONE") >> ELSE << >>

(* Reading beyond DONE does not happen: every handler stops at it.         *)
Kind(i) == stream[i].tok
KindsFrom(i, n) == [k \in 1 .. n |-> IF i + k - 1 <= Len(stream) THEN Kind(i + k - 1) ELSE "none"]

Init ==
  /\ project \in Projects
  /\ streams = << >> /\ stream = Tokenized(1)
  /\ pass = "consume" /\ at = 1
  /\ topOfFile = TRUE /\ ignored = {} /\ counted = FALSE
  /\ macros = << >>
  /\ definition = NoDefinition
  /\ grouping = 0
  /\ calls = << >> /\ output = << >>

Advance(n) == at' = at + n
Ignore(n) == ignored' = ignored \cup (at .. at + n - 1)

Reject ==
  /\ pass' = "rejected"
  /\ UNCHANGED << project, stream, streams, at, Consuming, grouping, Replacing >>

------------------------------------------------------------------------------
(* process_macro and process_macro_parameter. *)

Defining == pass = "consume" /\ definition # NoDefinition
Scanning == pass = "consume" /\ definition = NoDefinition /\ at <= Len(stream)

BeginsMacro == Scanning /\ Kind(at) = "MACRO"

MayBeDefined(token) == token.tok = "IDENT" /\ token.lexeme \notin DOMAIN macros

BeginMacro ==
  /\ BeginsMacro
  /\ MayBeDefined(stream[at + 1])
  /\ LET listed == Kind(at + 2) = "L_PAREN"
         read   == IF listed THEN 3 ELSE 2
     IN  /\ definition' = [ reading    |-> IF listed THEN "parameters" ELSE "body",
                            name       |-> stream[at + 1].lexeme,
                            parameters |-> << >>, body |-> << >> ]
         /\ grouping' = IF listed THEN grouping + 1 ELSE grouping
         /\ Advance(read) /\ Ignore(read)
  /\ topOfFile' = FALSE
  /\ UNCHANGED << project, stream, streams, pass, macros, counted, Replacing >>

ReadsParameter == Defining /\ definition.reading = "parameters"

IsParameter(token) ==
  /\ token.tok = "IDENT"
  /\ \A j \in DOMAIN definition.parameters : definition.parameters[j] # token.lexeme
  
MacroParameter ==
  /\ ReadsParameter
  /\ IsParameter(stream[at]) /\ Kind(at + 1) \in {"COMMA", "R_PAREN"}
  /\ LET last == Kind(at + 1) = "R_PAREN"
     IN  /\ definition' = [ definition EXCEPT
                              !.parameters = Append(@, stream[at].lexeme),
                              !.reading    = IF last THEN "body" ELSE @ ]
         /\ grouping' = IF last THEN grouping - 1 ELSE grouping
  /\ Advance(2) /\ Ignore(2)
  /\ UNCHANGED << project, stream, streams, pass, topOfFile, macros, counted, Replacing >>

ReadsBody == Defining /\ definition.reading = "body"

(* A parameter in a body is flagged, with its number. *)
BodyToken(token) ==
  IF token.tok = "IDENT" /\ token.lexeme \in ToSet(definition.parameters)
  THEN [ tok |-> "MACRO_PARAM", lexeme |-> token.lexeme,
         parameter_number |-> CHOOSE j \in DOMAIN definition.parameters :
                                definition.parameters[j] = token.lexeme ]
  ELSE token

MacroToken ==
  /\ ReadsBody
  /\ Kind(at) \notin {"MACRO", "ENDMACRO", "DONE"}
  /\ definition' = [definition EXCEPT !.body = Append(@, BodyToken(stream[at]))]
  /\ Advance(1) /\ Ignore(1)
  /\ UNCHANGED << project, stream, streams, pass, topOfFile, macros, counted, grouping, Replacing >>

EndMacro ==
  /\ ReadsBody
  /\ Kind(at) = "ENDMACRO" /\ definition.body # << >>
  /\ macros' = (definition.name :> [ parameters |-> definition.parameters,
                                     tokens     |-> definition.body ]) @@ macros
  /\ counted' = TRUE
  /\ definition' = NoDefinition
  /\ Advance(1) /\ Ignore(1)
  /\ UNCHANGED << project, stream, streams, pass, topOfFile, grouping, Replacing >>

MalformedMacro ==
  /\ \/ BeginsMacro /\ ~MayBeDefined(stream[at + 1])
     \/ ReadsParameter /\ ~(IsParameter(stream[at]) /\ Kind(at + 1) \in {"COMMA", "R_PAREN"})
     \/ ReadsBody /\ \/ Kind(at) \in {"MACRO", "DONE"}
                     \/ Kind(at) = "ENDMACRO" /\ definition.body = << >>
  /\ Reject

------------------------------------------------------------------------------
(* The rest of macro_consumption_pass. *)

Directive(kinds) ==
  /\ Scanning
  /\ KindsFrom(at, Len(kinds)) = kinds
  /\ Advance(Len(kinds)) /\ Ignore(Len(kinds))
  /\ counted' = TRUE
  /\ UNCHANGED << project, stream, streams, pass, macros, definition, grouping, Replacing >>

ImportKinds == << "IMPORT", "STR_CONST", "SEMICOLON" >>
ModuleKinds == << "MODULE", "IDENT", "SEMICOLON" >>
OunitKinds ==
  { << "OUNIT", "COLON", "L_BRACKET", "FAIL_TO_COMPILE", "R_BRACKET" >>,
    << "OUNIT", "COLON", "L_BRACKET", "EXIT_STATUS", "EQUALS", "CONST", "R_BRACKET" >> }

SkipImport == topOfFile /\ Directive(ImportKinds) /\ UNCHANGED topOfFile
SkipModule == at = 1 /\ Directive(ModuleKinds) /\ UNCHANGED topOfFile
SkipOunit  == topOfFile' = FALSE /\ \E kinds \in OunitKinds : Directive(kinds)

MalformedDirective ==
  /\ Scanning
  /\ \/ Kind(at) = "ENDMACRO"
     \/ Kind(at) = "IMPORT" /\ ~(topOfFile /\ KindsFrom(at, 3) = ImportKinds)
     \/ Kind(at) = "MODULE" /\ ~(at = 1 /\ KindsFrom(at, 3) = ModuleKinds)
     \/ Kind(at) = "OUNIT" /\ \A kinds \in OunitKinds : KindsFrom(at, Len(kinds)) # kinds
  /\ Reject

PlainToken ==
  /\ Scanning
  /\ Kind(at) \notin {"MACRO", "ENDMACRO", "OUNIT", "IMPORT", "MODULE"}
  /\ topOfFile' = FALSE
  /\ Advance(1)
  /\ UNCHANGED << project, stream, streams, pass, ignored, macros, counted, definition, grouping, Replacing >>

------------------------------------------------------------------------------
(* preprocess_all_files_in_order: without a macro or directive so far,     *)
(* there is nothing to replace.                                            *)

Leave(result) ==
  /\ streams' = Append(streams, result)
  /\ stream' = Tokenized(Len(streams) + 2)
  /\ pass' = IF Len(streams) + 1 = Len(project) THEN "accepted" ELSE "consume"
  /\ at' = 1 /\ topOfFile' = TRUE /\ ignored' = {}
  /\ output' = << >>
  /\ UNCHANGED << project, macros, counted, definition, grouping, calls >>

EndConsumption ==
  /\ pass = "consume" /\ definition = NoDefinition /\ at > Len(stream)
  /\ IF counted
     THEN /\ pass' = "replace" /\ at' = 1
          /\ UNCHANGED << project, stream, streams, Consuming, grouping, Replacing >>
     ELSE Leave(stream)

EndReplacement ==
  /\ pass = "replace" /\ calls = << >> /\ at > Len(stream)
  /\ Leave(output)

------------------------------------------------------------------------------
(* macro_replacement_pass, generate_parameter_substitution_array and       *)
(* perform_parameterized_substitution.                                     *)

AtToken == pass = "replace" /\ at <= Len(stream)
InText     == AtToken /\ calls = << >> /\ at \notin ignored
InArgument == AtToken /\ calls # << >>

IsCall(token) == token.tok = "IDENT" /\ token.lexeme \in DOMAIN macros
Called == macros[stream[at].lexeme]

(* The tokens that come out of a call go to the argument of the call       *)
(* around it, or to the new token array.                                   *)
Emit(frames, tokens) ==
  IF frames = << >>
  THEN calls' = frames /\ output' = output \o tokens
  ELSE /\ calls' = [frames EXCEPT ![Len(frames)].argument = @ \o tokens]
       /\ UNCHANGED output

Nested(change) == [calls EXCEPT ![Len(calls)].level = @ + change]

UnchangedByReplacement == UNCHANGED << project, stream, streams, pass, Consuming >>

SkipIgnored ==
  /\ AtToken /\ calls = << >> /\ at \in ignored
  /\ Advance(1)
  /\ UnchangedByReplacement /\ UNCHANGED << grouping, Replacing >>

CopyToken ==
  /\ InText \/ (InArgument /\ Kind(at) \notin {"COMMA", "L_PAREN", "R_PAREN", "DONE"})
  /\ ~IsCall(stream[at])
  /\ Emit(calls, << stream[at] >>)
  /\ Advance(1)
  /\ UnchangedByReplacement /\ UNCHANGED grouping

(* perform_non_parameterized_substitution *)
SubstitutePlain ==
  /\ InText \/ InArgument
  /\ IsCall(stream[at]) /\ Called.parameters = << >>
  /\ Emit(calls, Called.tokens)
  /\ Advance(1)
  /\ UnchangedByReplacement /\ UNCHANGED grouping

BeginCall ==
  /\ InText \/ InArgument
  /\ IsCall(stream[at]) /\ Called.parameters # << >> /\ Kind(at + 1) = "L_PAREN"
  /\ calls' = Append(calls, [ macro |-> stream[at].lexeme, level |-> 1,
                              given |-> << >>, argument |-> << >> ])
  /\ grouping' = grouping + 1
  /\ Advance(2)
  /\ UnchangedByReplacement /\ UNCHANGED output

Call == calls[Len(calls)]

(* Mutant of AtOwnLevel: the depth of the stack that all calls share, and  *)
(* not the level in the frame of the call.                                 *)
AtLevelOfStack == grouping = 1

(* Only at the level of the call's own parenthesis do a comma and a        *)
(* closing parenthesis end an argument.                                    *)
AtOwnLevel == Call.level = 1

OpenGroup ==
  /\ InArgument /\ Kind(at) = "L_PAREN"
  /\ Emit(Nested(1), << stream[at] >>)
  /\ grouping' = grouping + 1
  /\ Advance(1)
  /\ UnchangedByReplacement

CloseGroup ==
  /\ InArgument /\ Kind(at) = "R_PAREN" /\ ~AtOwnLevel
  /\ Emit(Nested(-1), << stream[at] >>)
  /\ grouping' = grouping - 1
  /\ Advance(1)
  /\ UnchangedByReplacement

CommaInGroup ==
  /\ InArgument /\ Kind(at) = "COMMA" /\ ~AtOwnLevel
  /\ Emit(calls, << stream[at] >>)
  /\ Advance(1)
  /\ UnchangedByReplacement /\ UNCHANGED grouping

EndArgument ==
  /\ InArgument /\ Kind(at) = "COMMA" /\ AtOwnLevel
  /\ Call.argument # << >>
  /\ calls' = [calls EXCEPT ![Len(calls)].given = Append(@, Call.argument),
                            ![Len(calls)].argument = << >>]
  /\ Advance(1)
  /\ UnchangedByReplacement /\ UNCHANGED << grouping, output >>

Substituted(tokens, arguments) ==
  Flattened([k \in DOMAIN tokens |->
    IF tokens[k].tok = "MACRO_PARAM" THEN arguments[tokens[k].parameter_number]
    ELSE << tokens[k] >>])

EndsCall == InArgument /\ Kind(at) = "R_PAREN" /\ AtOwnLevel
GivenToCall == Append(Call.given, Call.argument)
CountsFit == Len(GivenToCall) = Len(macros[Call.macro].parameters)

EndCall ==
  /\ EndsCall
  /\ Call.argument # << >> /\ CountsFit
  /\ Emit(Front(calls), Substituted(macros[Call.macro].tokens, GivenToCall))
  /\ grouping' = grouping - 1
  /\ Advance(1)
  /\ UnchangedByReplacement

MalformedCall ==
  /\ \/ /\ InText \/ InArgument
        /\ IsCall(stream[at]) /\ Called.parameters # << >> /\ Kind(at + 1) # "L_PAREN"
     \/ /\ InArgument /\ Kind(at) \in {"COMMA", "R_PAREN"} /\ AtOwnLevel
        /\ Call.argument = << >>
     \/ EndsCall /\ Call.argument # << >> /\ ~CountsFit
     \/ InArgument /\ Kind(at) = "DONE"
  /\ Reject

------------------------------------------------------------------------------

Next ==
  \/ BeginMacro \/ MacroParameter \/ MacroToken \/ EndMacro \/ MalformedMacro
  \/ SkipImport \/ SkipModule \/ SkipOunit \/ MalformedDirective
  \/ PlainToken \/ EndConsumption
  \/ SkipIgnored \/ CopyToken \/ SubstitutePlain \/ BeginCall
  \/ OpenGroup \/ CloseGroup \/ CommaInGroup \/ EndArgument \/ EndCall
  \/ MalformedCall \/ EndReplacement

(* One thread reads on until the last file is done or one is refused. *)
Spec == Init /\ [][Next]_vars /\ WF_vars(Next)

Abstract == INSTANCE MacroExpansion WITH
  delivered <- streams,
  verdict   <- IF pass \in {"accepted", "rejected"} THEN pass ELSE "open"

(* The parser gets every file of the order, and what it gets is the text   *)
(* with every call replaced as written, whatever calls, parentheses and    *)
(* commas its arguments hold and whichever earlier file defines the macro. *)
(* A file is refused exactly when a definition, a directive or a call in   *)
(* it is not well formed, and reading always comes to an end.              *)
ImplementsMacroExpansion == Abstract!Spec
==============================================================================
