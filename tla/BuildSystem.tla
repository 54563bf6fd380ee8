----------------------------- MODULE BuildSystem -----------------------------
(***************************************************************************)
(* The build system (oc/compiler/build_system, with dependency_graph and   *)
(* the module symbol table).  It reads the main file, then every module    *)
(* the main file imports, depth first: a module is looked up in the module *)
(* symtab, and only a module that is not there is searched for on disk,    *)
(* tokenized, recorded as IN_PROGRESS, and its own imports handled before  *)
(* it is added to the compilation order.                                   *)
(*                                                                         *)
(* The recursion find_or_create_module <-> get_dependency_subtree_from_    *)
(* import_statement is the call stack `stack'.  A file is abstracted to    *)
(* its $module header and the sequence of its $import statements.          *)
(***************************************************************************)
EXTENDS Naturals, Sequences, FiniteSets

CONSTANTS
  Module,     \* the names a $module directive can give
  MainNode,   \* "^^MAIN_DEPENDENCY_GRAPH_NODE^^": no module can have this name
  File,       \* the .ol files below the main file's directory
  MainFile,   \* the file given with -f
  NoModule,   \* the header of a file that is not a module
  Corrupt,    \* the header of a file whose first two tokens do not tokenize
  NoFile,     \* no file at all
  Hash(_),    \* hash_module_name, cut down to the keyspace of the symtab
  Projects    \* the trees of files a compilation may start from

Node == Module \cup {MainNode}

(* "angled" is $import <name>; the others are $import "name" without a     *)
(* fault, without its semicolon, and with something else than a name.      *)
ImportForm == {"ok", "noSemicolon", "malformed", "angled"}
Import == [name : Module, form : ImportForm]

(* search is the order in which readdir yields the .ol files. *)
Project == [ search    : Seq(File),
             header    : [File -> Module \cup {NoModule, Corrupt}],
             tokenizes : SUBSET File,
             imports   : [File -> Seq(Import)] ]

ASSUME NamesAssumption ==
  /\ MainNode \notin Module
  /\ NoModule \notin Module /\ Corrupt \notin Module /\ NoModule # Corrupt
  /\ MainFile \in File /\ NoFile \notin File
ASSUME ProjectsAssumption == Projects \subseteq Project
ASSUME HashAssumption == \A n \in Node : Hash(n) \in Nat

VARIABLES
  project,    \* the files; never written
  pc,         \* where the recursion stands, or how it ended
  visit,      \* the module symtab: "absent", or the node's visitation_status
  nodeFile,   \* file_name of each dependency graph node
  dependsOn,  \* depends_on of each dependency graph node
  order,      \* compilation_order
  stack,      \* the modules being processed, and the index of their next import
  result,     \* the node the innermost call has just returned
  reason      \* the import_status of the first import that failed

vars == << project, pc, visit, nodeFile, dependsOn, order, stack, result, reason >>

Terminal == {"built", "failed", "aborted", "crashed"}
Reason == {"none", "mainTokenize", "mainIsModule", "malformed", "noSemicolon",
           "circular", "notFound", "tokenize"}
Frame == [node : Node, next : Nat \ {0}]

Placed == { order[i] : i \in DOMAIN order }
Top == stack[Len(stack)]
Imports(n) == project.imports[nodeFile[n]]
Current == Imports(Top.node)[Top.next]
MoreImports == Top.next <= Len(Imports(Top.node))

-----------------------------------------------------------------------------
(* The directory walk stops at the first file whose header is the wanted   *)
(* name, and takes the compiler down at a file it cannot tokenize.         *)
Stops(p, m) == { i \in DOMAIN p.search : p.header[p.search[i]] \in {m, Corrupt} }
FirstStop(p, m) == CHOOSE i \in Stops(p, m) : \A j \in Stops(p, m) : i <= j
SearchFile(p, m) == IF Stops(p, m) = {} THEN NoFile ELSE p.search[FirstStop(p, m)]
FatalSearch(p, m) == SearchFile(p, m) # NoFile /\ p.header[SearchFile(p, m)] = Corrupt

(* insert_module walks a non-empty bucket until its cursor is NULL and     *)
(* then writes through it.                                                 *)
Collides(n) == \E k \in Node : visit[k] # "absent" /\ Hash(k) = Hash(n)

Fail(why) ==
  /\ pc' = "unwind"
  /\ reason' = why
  /\ UNCHANGED << project, visit, nodeFile, dependsOn, order, stack, result >>

Stop(how) ==
  /\ pc' = how
  /\ UNCHANGED << project, visit, nodeFile, dependsOn, order, stack, result, reason >>

(* Mutant of EnterNode: the import loop starts one statement too early. *)
EnterNodeEarly(n, f) ==
  /\ ~ Collides(n)
  /\ visit' = [visit EXCEPT ![n] = "in_progress"]
  /\ nodeFile' = [nodeFile EXCEPT ![n] = f]
  /\ stack' = Append(stack, [node |-> n, next |-> 0])
  /\ pc' = "scan"
  /\ UNCHANGED << project, dependsOn, order, result, reason >>

(* dependency_graph_node_alloc, create_module_record and insert_module,    *)
(* then IN_PROGRESS, and the import loop of the new node begins.           *)
EnterNode(n, f) ==
  /\ ~ Collides(n)
  /\ visit' = [visit EXCEPT ![n] = "in_progress"]
  /\ nodeFile' = [nodeFile EXCEPT ![n] = f]
  /\ stack' = Append(stack, [node |-> n, next |-> 1])
  /\ pc' = "scan"
  /\ UNCHANGED << project, dependsOn, order, result, reason >>

Init ==
  /\ project \in Projects
  /\ pc = "main"
  /\ visit = [n \in Node |-> "absent"]
  /\ nodeFile = [n \in Node |-> NoFile]
  /\ dependsOn = [n \in Node |-> {}]
  /\ order = << >>
  /\ stack = << >>
  /\ result = MainNode
  /\ reason = "none"

(* handle_main_file_tokenization up to its import loop. *)
MainTokenizeFails ==
  /\ pc = "main"
  /\ MainFile \notin project.tokenizes
  /\ Fail("mainTokenize")

MainIsModule ==
  /\ pc = "main"
  /\ MainFile \in project.tokenizes
  /\ project.header[MainFile] # NoModule
  /\ Fail("mainIsModule")

EnterMain ==
  /\ pc = "main"
  /\ MainFile \in project.tokenizes
  /\ project.header[MainFile] = NoModule
  /\ EnterNode(MainNode, MainFile)

-----------------------------------------------------------------------------
(* The import statement the innermost module is at. *)
Scanning == pc = "scan" /\ MoreImports

MalformedImport ==
  /\ Scanning
  /\ Current.form = "malformed"
  /\ Fail("malformed")

(* After <name> the lookahead is the closing token, whose lexeme is NULL,  *)
(* and it is that lexeme that lookup_module hashes.                        *)
AngledImport ==
  /\ Scanning
  /\ Current.form = "angled"
  /\ Stop("crashed")

Quoted == Scanning /\ Current.form \in {"ok", "noSemicolon"}

(* Mutant of CircularImport: any module seen before is a cycle. *)
DiamondIsCircular ==
  /\ Quoted
  /\ visit[Current.name] # "absent"
  /\ Fail("circular")

CircularImport ==
  /\ Quoted
  /\ visit[Current.name] = "in_progress"
  /\ Fail("circular")

(* Mutant of KnownModule: anything the symtab holds is good enough. *)
AnyKnownModule ==
  /\ Quoted
  /\ visit[Current.name] # "absent"
  /\ result' = Current.name
  /\ pc' = "returned"
  /\ UNCHANGED << project, visit, nodeFile, dependsOn, order, stack, reason >>

KnownModule ==
  /\ Quoted
  /\ visit[Current.name] = "done"
  /\ result' = Current.name
  /\ pc' = "returned"
  /\ UNCHANGED << project, visit, nodeFile, dependsOn, order, stack, reason >>

Unknown == Quoted /\ visit[Current.name] = "absent"

FatalFile ==
  /\ Unknown
  /\ FatalSearch(project, Current.name)
  /\ Stop("aborted")

ModuleNotFound ==
  /\ Unknown
  /\ SearchFile(project, Current.name) = NoFile
  /\ Fail("notFound")

Found == /\ Unknown
         /\ SearchFile(project, Current.name) # NoFile
         /\ ~ FatalSearch(project, Current.name)

ModuleTokenizeFails ==
  /\ Found
  /\ SearchFile(project, Current.name) \notin project.tokenizes
  /\ Fail("tokenize")

Tokenized == Found /\ SearchFile(project, Current.name) \in project.tokenizes

CreateModule ==
  /\ Tokenized
  /\ EnterNode(Current.name, SearchFile(project, Current.name))

HashCollision ==
  /\ Tokenized
  /\ Collides(Current.name)
  /\ Stop("crashed")

-----------------------------------------------------------------------------
(* Back in get_dependency_subtree_from_import_statement with a node: the   *)
(* semicolon is looked at only now, after the whole subtree was built.     *)
MissingSemicolon ==
  /\ pc = "returned"
  /\ Current.form = "noSemicolon"
  /\ Fail("noSemicolon")

(* Mutant of AcceptDependency: the semicolon is never looked at. *)
AcceptWithoutSemicolon ==
  /\ pc = "returned"
  /\ dependsOn' = [dependsOn EXCEPT ![Top.node] = @ \cup {result}]
  /\ stack' = [stack EXCEPT ![Len(stack)].next = @ + 1]
  /\ pc' = "scan"
  /\ UNCHANGED << project, visit, nodeFile, order, result, reason >>

(* Mutant of AcceptDependency: current_index is not moved on. *)
AcceptWithoutAdvance ==
  /\ pc = "returned"
  /\ Current.form # "noSemicolon"
  /\ dependsOn' = [dependsOn EXCEPT ![Top.node] = @ \cup {result}]
  /\ pc' = "scan"
  /\ UNCHANGED << project, visit, nodeFile, order, stack, result, reason >>

AcceptDependency ==
  /\ pc = "returned"
  /\ Current.form # "noSemicolon"
  /\ dependsOn' = [dependsOn EXCEPT ![Top.node] = @ \cup {result}]
  /\ stack' = [stack EXCEPT ![Len(stack)].next = @ + 1]
  /\ pc' = "scan"
  /\ UNCHANGED << project, visit, nodeFile, order, result, reason >>

(* Mutant of FinishModule: the node is put at the head of the order. *)
FinishModuleAtHead ==
  /\ pc = "scan" /\ ~ MoreImports
  /\ order' = << Top.node >> \o order
  /\ visit' = [visit EXCEPT ![Top.node] = "done"]
  /\ stack' = SubSeq(stack, 1, Len(stack) - 1)
  /\ result' = Top.node
  /\ pc' = IF Top.node = MainNode THEN "built" ELSE "returned"
  /\ UNCHANGED << project, nodeFile, dependsOn, reason >>

(* Mutant of FinishModule: the node stays IN_PROGRESS. *)
FinishModuleUnmarked ==
  /\ pc = "scan" /\ ~ MoreImports
  /\ order' = Append(order, Top.node)
  /\ stack' = SubSeq(stack, 1, Len(stack) - 1)
  /\ result' = Top.node
  /\ pc' = IF Top.node = MainNode THEN "built" ELSE "returned"
  /\ UNCHANGED << project, visit, nodeFile, dependsOn, reason >>

(* No further import: the node is fully processed and joins the order. *)
FinishModule ==
  /\ pc = "scan" /\ ~ MoreImports
  /\ order' = Append(order, Top.node)
  /\ visit' = [visit EXCEPT ![Top.node] = "done"]
  /\ stack' = SubSeq(stack, 1, Len(stack) - 1)
  /\ result' = Top.node
  /\ pc' = IF Top.node = MainNode THEN "built" ELSE "returned"
  /\ UNCHANGED << project, nodeFile, dependsOn, reason >>

(* A NULL dependency: every caller on the stack reports and returns NULL. *)
Unwind ==
  /\ pc = "unwind"
  /\ IF stack = << >>
     THEN pc' = "failed" /\ UNCHANGED stack
     ELSE pc' = pc /\ stack' = SubSeq(stack, 1, Len(stack) - 1)
  /\ UNCHANGED << project, visit, nodeFile, dependsOn, order, result, reason >>

Next ==
  \/ MainTokenizeFails \/ MainIsModule \/ EnterMain
  \/ MalformedImport \/ AngledImport \/ CircularImport \/ KnownModule
  \/ FatalFile \/ ModuleNotFound \/ ModuleTokenizeFails
  \/ CreateModule \/ HashCollision
  \/ MissingSemicolon \/ AcceptDependency \/ FinishModule \/ Unwind

(* One thread runs the recursion to its end. *)
Spec == Init /\ [][Next]_vars /\ WF_vars(Next)

-----------------------------------------------------------------------------
(* Every variable holds what its declaration says. *)
TypeOK ==
  /\ project \in Project
  /\ pc \in {"main", "scan", "returned", "unwind"} \cup Terminal
  /\ visit \in [Node -> {"absent", "in_progress", "done"}]
  /\ nodeFile \in [Node -> File \cup {NoFile}]
  /\ dependsOn \in [Node -> SUBSET Node]
  /\ order \in Seq(Node)
  /\ stack \in Seq(Frame)
  /\ result \in Node
  /\ reason \in Reason

(* Every module on the compilation order stands there once and after all   *)
(* that its file imports: the later passes read the order front to back    *)
(* and never look at depends_on.                                           *)
OrderSound ==
  /\ \A i, j \in DOMAIN order : order[i] = order[j] => i = j
  /\ \A i \in DOMAIN order : \A k \in DOMAIN Imports(order[i]) :
       \E j \in 1 .. i - 1 : order[j] = Imports(order[i])[k].name

(* While modules are being processed, IN_PROGRESS marks exactly the chain  *)
(* of callers: the mark is what circular imports are detected by.          *)
InProgressIsCallChain ==
  pc \in {"scan", "returned"} =>
    /\ { n \in Node : visit[n] = "in_progress" } = { stack[i].node : i \in DOMAIN stack }
    /\ \A i, j \in DOMAIN stack : stack[i].node = stack[j].node => i = j

(* The import graph as the files on disk have it. *)
FileOf(n) == IF n = MainNode THEN MainFile ELSE SearchFile(project, n)
NeedsOf(n) == { m \in Module : /\ FileOf(n) # NoFile
                               /\ \E k \in DOMAIN project.imports[FileOf(n)] :
                                    project.imports[FileOf(n)][k].name = m }
Closed(S) == \A n \in S : NeedsOf(n) \subseteq S
ReachFrom(S) == { n \in Node : \A T \in SUBSET Node : S \subseteq T /\ Closed(T) => n \in T }

(* A program is refused as circular only when some module really does      *)
(* reach itself through imports, and never built when one does.            *)
CircularIsExact ==
  LET Cyclic == \E n \in ReachFrom({MainNode}) : n \in ReachFrom(NeedsOf(n))
  IN  /\ reason = "circular" => Cyclic
      /\ pc = "built" => ~ Cyclic

(* A build that succeeds has compiled exactly what the main file reaches,  *)
(* every one of it from a file that tokenizes and whose imports are all    *)
(* well formed; no fault anywhere below the main file is passed over.      *)
BuiltIsComplete ==
  pc = "built" =>
    /\ Placed = ReachFrom({MainNode})
    /\ order[Len(order)] = MainNode
    /\ \A n \in Placed :
         /\ nodeFile[n] \in project.tokenizes
         /\ \A k \in DOMAIN Imports(n) : Imports(n)[k].form = "ok"
         /\ dependsOn[n] = NeedsOf(n)

(* The recursion ends, circular or not. *)
Terminates == <>(pc \in Terminal)

(* The compilation order implements BuildOrder. *)
Abstract == INSTANCE BuildOrder WITH
  needs   <- [n \in Node |-> NeedsOf(n)],
  emitted <- order,
  verdict <- IF pc \in {"main", "scan", "returned"} THEN "open"
             ELSE IF pc = "built" THEN "built" ELSE "rejected"
ImplementsBuildOrder == Abstract!Spec

(* insert_module appends a colliding record to the end of its bucket and   *)
(* returns 1: a collision never ends the compiler.                         *)
CollisionsAreChained == ~ (pc = "crashed" /\ Current.form # "angled")

(* $import <name> looks for the module in the system library: reading one  *)
(* never ends the compiler.                                                *)
AngledImportIsSearched == ~ (pc = "crashed" /\ Current.form = "angled")
=============================================================================
