-------------------------- MODULE BuildSystemProofs --------------------------
(***************************************************************************)
(* Proofs about BuildSystem, for any set of modules, any set of files, any *)
(* hash function and any tree of files to start from.                      *)
(*                                                                         *)
(* OrderSound is not inductive: that the node FinishModule puts on the     *)
(* order has all its imports before it is known only from what the import  *)
(* loop has already accepted (ImportsPlaced), and that a caller resumes    *)
(* with the node it asked for only from how the frames hang together       *)
(* (ChainLinks, ReturnedFits).                                             *)
(*                                                                         *)
(* That a build that succeeds is complete, and that circular imports are   *)
(* reported exactly when there are some, speaks of what can be reached     *)
(* through the imports of the files, which the recursion of build_system.c *)
(* never computes.  What it leaves behind is closed under imports and      *)
(* holds the main file; what it marks as IN_PROGRESS is a path.            *)
(***************************************************************************)
EXTENDS BuildSystem, SequenceTheorems, NumberFacts, TLAPS

Active == pc \in {"scan", "returned"}

(* Before the main file is entered nothing is recorded. *)
NothingYet ==
  pc = "main" => /\ stack = << >> /\ order = << >>
                 /\ \A n \in Node : visit[n] = "absent"

(* FULLY_PROCESSED says that the node is on the compilation order. *)
DoneIsPlaced == \A n \in Node : visit[n] = "done" <=> n \in Placed

(* A recorded node was read from the file a search for its name finds. *)
FilesRecorded ==
  \A n \in Node : visit[n] # "absent" => nodeFile[n] = FileOf(n) /\ nodeFile[n] \in File

(* The frames: the main file's first, then modules, each there once, and   *)
(* just those are IN_PROGRESS.                                             *)
CallChain ==
  /\ stack # << >>
  /\ \A i \in 1 .. Len(stack) : stack[i].node = MainNode <=> i = 1
  /\ \A i \in 1 .. Len(stack) : visit[stack[i].node] = "in_progress"
  /\ \A n \in Node : visit[n] = "in_progress" =>
       \E i \in 1 .. Len(stack) : stack[i].node = n
  /\ \A i, j \in 1 .. Len(stack) : stack[i].node = stack[j].node => i = j

(* Every caller is at the import statement that names the frame above it. *)
ChainLinks ==
  \A i \in 1 .. Len(stack) - 1 :
    /\ stack[i].next \in 1 .. Len(Imports(stack[i].node))
    /\ stack[i+1].node = Imports(stack[i].node)[stack[i].next].name

(* What a frame has accepted is on the order. *)
ImportsPlaced ==
  \A i \in 1 .. Len(stack) : \A k \in 1 .. Len(Imports(stack[i].node)) :
    k < stack[i].next => Imports(stack[i].node)[k].name \in Placed

(* A call returns the node its caller asked for, fully processed. *)
ReturnedFits ==
  pc = "returned" => /\ Top.next \in 1 .. Len(Imports(Top.node))
                     /\ result = Current.name
                     /\ result \in Placed

IInv ==
  /\ TypeOK
  /\ NothingYet
  /\ DoneIsPlaced
  /\ FilesRecorded
  /\ OrderSound
  /\ Active => CallChain /\ ChainLinks /\ ImportsPlaced
  /\ ReturnedFits

-----------------------------------------------------------------------------
(* The frame on top of the stack, and the statement it stands at. *)
LEMMA TopFrame ==
  ASSUME TypeOK, FilesRecorded, CallChain
  PROVE  /\ Len(stack) \in 1 .. Len(stack)
         /\ Top \in Frame
         /\ Top.node \in Node /\ Top.next \in Nat \ {0}
         /\ visit[Top.node] = "in_progress"
         /\ Imports(Top.node) \in Seq(Import)
         /\ Top.next <= Len(Imports(Top.node)) =>
              /\ Top.next \in 1 .. Len(Imports(Top.node))
              /\ Current \in Import /\ Current.name \in Module
<1>1. stack \in Seq(Frame) /\ stack # << >>
  BY DEF TypeOK, CallChain
<1>2. Len(stack) \in 1 .. Len(stack) /\ Top \in Frame
  BY <1>1 DEF Top
<1>3. Top.node \in Node /\ Top.next \in Nat \ {0}
  BY <1>2 DEF Frame
<1>4. visit[Top.node] = "in_progress"
  BY <1>2 DEF CallChain, Top
<1>5. nodeFile[Top.node] \in File
  BY <1>3, <1>4 DEF FilesRecorded
<1>6. Imports(Top.node) \in Seq(Import)
  BY <1>5 DEF Imports, TypeOK, Project
<1>7. Top.next <= Len(Imports(Top.node)) => Top.next \in 1 .. Len(Imports(Top.node))
  BY <1>3, <1>6
<1>8. Top.next \in 1 .. Len(Imports(Top.node)) => Current \in Import
  BY <1>6 DEF Current
<1>9. Current \in Import => Current.name \in Module
  BY DEF Import
<1> QED
  BY <1>2, <1>3, <1>4, <1>6, <1>7, <1>8, <1>9

(* A stack without its top frame. *)
LEMMA PopProperties ==
  ASSUME NEW S, NEW s \in Seq(S), s # << >>
  PROVE  /\ SubSeq(s, 1, Len(s) - 1) \in Seq(S)
         /\ Len(SubSeq(s, 1, Len(s) - 1)) = Len(s) - 1
         /\ \A i \in 1 .. Len(s) - 1 : i \in 1 .. Len(s) /\ SubSeq(s, 1, Len(s) - 1)[i] = s[i]
<1> DEFINE m == Len(s) - 1
<1>1. m \in Nat /\ m \in Int /\ Len(s) = m + 1
  BY EmptySeq
<1>2. \A i \in 1 .. m : i \in 1 .. Len(s) /\ s[i] \in S
  BY <1>1
<1> HIDE DEF m
<1>3. /\ SubSeq(s, 1, m) \in Seq(S)
      /\ Len(SubSeq(s, 1, m)) = IF 1 <= m THEN m - 1 + 1 ELSE 0
      /\ \A i \in 1 .. m - 1 + 1 : SubSeq(s, 1, m)[i] = s[1 + i - 1]
  BY <1>1, <1>2, SubSeqProperties
<1>4. Len(SubSeq(s, 1, m)) = m
  <2>1. CASE m = 0
    BY <1>3, <2>1
  <2>2. CASE m # 0
    BY <1>1, <1>3, <2>2
  <2> QED
    BY <2>1, <2>2
<1>5. ASSUME NEW i \in 1 .. m PROVE SubSeq(s, 1, m)[i] = s[i]
  <2>1. i \in 1 .. m - 1 + 1 /\ 1 + i - 1 = i
    BY <1>1
  <2> QED
    BY <1>3, <2>1
<1> QED
  BY <1>2, <1>3, <1>4, <1>5 DEF m

(* A step that records nothing and leaves the import loop keeps everything. *)
LEMMA QuietStep ==
  ASSUME IInv,
         UNCHANGED << project, visit, nodeFile, dependsOn, order, result >>,
         pc' \in {"unwind"} \cup Terminal, reason' \in Reason, stack' \in Seq(Frame)
  PROVE  IInv'
<1>1. TypeOK'
  BY DEF IInv, TypeOK
<1>2. ~ Active' /\ pc' # "main" /\ pc' # "returned"
  BY DEF Active, Terminal
<1>3. NothingYet' /\ ReturnedFits'
  BY <1>2 DEF NothingYet, ReturnedFits
<1>4. DoneIsPlaced'
  BY DEF IInv, DoneIsPlaced, Placed
<1>5. FilesRecorded'
  BY DEF IInv, FilesRecorded, FileOf
<1>6. OrderSound'
  BY DEF IInv, OrderSound, Imports
<1> QED
  BY <1>1, <1>2, <1>3, <1>4, <1>5, <1>6 DEF IInv

-----------------------------------------------------------------------------
(* Recording a node that was not recorded, and making it the top frame. *)
LEMMA EnterNodeKeepsRecords ==
  ASSUME IInv, NEW n \in Node, NEW f \in File, visit[n] = "absent", f = FileOf(n),
         EnterNode(n, f)
  PROVE  /\ TypeOK' /\ NothingYet' /\ DoneIsPlaced' /\ FilesRecorded' /\ OrderSound'
         /\ ReturnedFits'
         /\ Len(stack') = Len(stack) + 1
         /\ stack'[Len(stack')] = [node |-> n, next |-> 1]
         /\ \A i \in 1 .. Len(stack) : stack'[i] = stack[i]
         /\ Placed' = Placed
         /\ \A m \in Node : m # n => visit'[m] = visit[m] /\ nodeFile'[m] = nodeFile[m]
         /\ visit'[n] = "in_progress" /\ nodeFile'[n] = f
<1> USE DEF IInv
<1>1. stack \in Seq(Frame) /\ [node |-> n, next |-> 1] \in Frame
  BY DEF TypeOK, Frame
<1>2. TypeOK'
  BY <1>1 DEF TypeOK, EnterNode
<1>3. /\ Len(stack') = Len(stack) + 1
      /\ stack'[Len(stack')] = [node |-> n, next |-> 1]
      /\ \A i \in 1 .. Len(stack) : stack'[i] = stack[i]
  BY <1>1 DEF EnterNode
<1>4. Placed' = Placed
  BY DEF EnterNode, Placed
<1>5. /\ \A m \in Node : m # n => visit'[m] = visit[m] /\ nodeFile'[m] = nodeFile[m]
      /\ visit'[n] = "in_progress" /\ nodeFile'[n] = f
  BY DEF EnterNode, TypeOK
<1>6. NothingYet' /\ ReturnedFits'
  BY DEF EnterNode, NothingYet, ReturnedFits
<1>7. DoneIsPlaced'
  BY <1>4, <1>5 DEF DoneIsPlaced
<1>8. \A m \in Node : FileOf(m)' = FileOf(m)
  BY DEF FileOf, EnterNode
<1>9. FilesRecorded'
  BY <1>5, <1>8 DEF FilesRecorded
<1>10. OrderSound'
  <2>1. \A i \in DOMAIN order : order[i] \in Node /\ order[i] # n
    BY DEF DoneIsPlaced, Placed, TypeOK
  <2>2. \A i \in DOMAIN order : Imports(order[i])' = Imports(order[i])
    BY <1>5, <2>1 DEF Imports, EnterNode
  <2> QED
    BY <2>2 DEF OrderSound, EnterNode
<1> QED
  BY <1>2, <1>3, <1>4, <1>5, <1>6, <1>7, <1>9, <1>10

LEMMA EnterMainStep ==
  ASSUME IInv, EnterMain
  PROVE  IInv'
<1>1. MainFile \in File /\ MainNode \in Node /\ FileOf(MainNode) = MainFile
  BY NamesAssumption DEF Node, FileOf
<1>2. /\ EnterNode(MainNode, MainFile) /\ visit[MainNode] = "absent"
      /\ stack = << >> /\ \A n \in Node : visit[n] = "absent"
  BY <1>1 DEF EnterMain, IInv, NothingYet
<1>3. /\ TypeOK' /\ NothingYet' /\ DoneIsPlaced' /\ FilesRecorded' /\ OrderSound'
      /\ ReturnedFits'
      /\ Len(stack') = Len(stack) + 1
      /\ stack'[Len(stack')] = [node |-> MainNode, next |-> 1]
      /\ \A m \in Node : m # MainNode => visit'[m] = visit[m]
      /\ visit'[MainNode] = "in_progress"
  BY <1>1, <1>2, EnterNodeKeepsRecords
<1>4. Len(stack') = 1 /\ stack'[1] = [node |-> MainNode, next |-> 1]
  BY <1>2, <1>3
<1>5. CallChain'
  BY <1>1, <1>2, <1>3, <1>4 DEF CallChain, TypeOK
<1>6. ChainLinks' /\ ImportsPlaced'
  BY <1>4 DEF ChainLinks, ImportsPlaced
<1> QED
  BY <1>3, <1>5, <1>6 DEF IInv

(* A module found on disk becomes the top frame; its importer stays at the *)
(* statement that names it.                                                *)
LEMMA CreateModuleStep ==
  ASSUME IInv, CreateModule
  PROVE  IInv'
<1> DEFINE n == Current.name
           f == SearchFile(project, n)
<1>1. Active /\ CallChain /\ ChainLinks /\ ImportsPlaced /\ MoreImports
  BY DEF CreateModule, Tokenized, Found, Unknown, Quoted, Scanning, Active, IInv
<1>2. TypeOK /\ FilesRecorded
  BY DEF IInv
<1>3. /\ Top.next \in 1 .. Len(Imports(Top.node)) /\ n \in Module
      /\ Len(stack) \in 1 .. Len(stack)
  BY <1>1, <1>2, TopFrame DEF MoreImports
<1>4. n \in Node /\ n # MainNode
  BY <1>3, NamesAssumption DEF Node
<1>5. f \in File
  BY <1>2 DEF CreateModule, Tokenized, TypeOK, Project
<1>6. EnterNode(n, f) /\ visit[n] = "absent" /\ f = FileOf(n)
  BY <1>4 DEF CreateModule, Tokenized, Found, Unknown, FileOf
<1> HIDE DEF n, f
<1>7. /\ TypeOK' /\ NothingYet' /\ DoneIsPlaced' /\ FilesRecorded' /\ OrderSound'
      /\ ReturnedFits'
      /\ Len(stack') = Len(stack) + 1
      /\ stack'[Len(stack')] = [node |-> n, next |-> 1]
      /\ \A i \in 1 .. Len(stack) : stack'[i] = stack[i]
      /\ Placed' = Placed
      /\ \A m \in Node : m # n => visit'[m] = visit[m] /\ nodeFile'[m] = nodeFile[m]
      /\ visit'[n] = "in_progress"
  BY <1>4, <1>5, <1>6, EnterNodeKeepsRecords
<1>8. \A i \in 1 .. Len(stack) : stack[i].node \in Node /\ stack[i].node # n
  <2>1. \A i \in 1 .. Len(stack) : stack[i] \in Frame
    BY <1>2 DEF TypeOK
  <2>2. \A i \in 1 .. Len(stack) : stack[i].node # n
    BY <1>1, <1>6 DEF CallChain
  <2> QED
    BY <2>1, <2>2 DEF Frame
<1>9. \A i \in 1 .. Len(stack) : Imports(stack[i].node)' = Imports(stack[i].node)
  <2> SUFFICES ASSUME NEW i \in 1 .. Len(stack)
               PROVE  Imports(stack[i].node)' = Imports(stack[i].node)
    OBVIOUS
  <2>1. stack'[i] = stack[i] /\ nodeFile'[stack[i].node] = nodeFile[stack[i].node]
    BY <1>7, <1>8
  <2>2. project' = project
    BY <1>6 DEF EnterNode
  <2> QED
    BY <2>1, <2>2 DEF Imports
<1>10. Len(stack) \in Nat
  BY <1>2 DEF TypeOK
<1>11. CallChain'
  <2>1. \A i \in 1 .. Len(stack') : i \in 1 .. Len(stack) \/ i = Len(stack')
    BY <1>7, <1>10
  <2>2. stack' # << >> /\ Len(stack') # 1 /\ Len(stack') \in 1 .. Len(stack')
    BY <1>2, <1>3, <1>7, <1>10 DEF TypeOK
  <2>3. \A i \in 1 .. Len(stack') : stack'[i].node = MainNode <=> i = 1
    BY <1>1, <1>4, <1>7, <2>1, <2>2 DEF CallChain
  <2>4. \A i \in 1 .. Len(stack') : visit'[stack'[i].node] = "in_progress"
    BY <1>1, <1>7, <1>8, <2>1 DEF CallChain
  <2>5. \A m \in Node : visit'[m] = "in_progress" =>
          \E i \in 1 .. Len(stack') : stack'[i].node = m
    BY <1>1, <1>7, <1>10, <2>2 DEF CallChain
  <2>6. \A i, j \in 1 .. Len(stack') : stack'[i].node = stack'[j].node => i = j
    BY <1>1, <1>7, <1>8, <2>1 DEF CallChain
  <2> QED
    BY <2>2, <2>3, <2>4, <2>5, <2>6 DEF CallChain
<1>12. ChainLinks'
  <2>1. stack[Len(stack)].next \in 1 .. Len(Imports(stack[Len(stack)].node))
        /\ n = Imports(stack[Len(stack)].node)[stack[Len(stack)].next].name
    BY <1>3 DEF Top, Current, n
  <2> SUFFICES ASSUME NEW i \in 1 .. Len(stack') - 1
               PROVE  /\ stack'[i].next \in 1 .. Len(Imports(stack[i].node))
                      /\ stack'[i+1].node = Imports(stack[i].node)[stack'[i].next].name
    BY <1>7, <1>9, <1>10 DEF ChainLinks
  <2>2. CASE i = Len(stack)
    BY <1>3, <1>7, <2>1, <2>2
  <2>3. CASE i # Len(stack)
    <3>1. i \in 1 .. Len(stack) - 1 /\ i \in 1 .. Len(stack) /\ i + 1 \in 1 .. Len(stack)
      BY <1>7, <1>10, <2>3
    <3> QED
      BY <1>1, <1>7, <3>1 DEF ChainLinks
  <2> QED
    BY <2>2, <2>3
<1>13. ImportsPlaced'
  <2> SUFFICES ASSUME NEW i \in 1 .. Len(stack'),
                      NEW k \in 1 .. Len(Imports(stack[i].node)'),
                      k < stack'[i].next
               PROVE  Imports(stack[i].node)'[k].name \in Placed'
    BY DEF ImportsPlaced
  <2>1. i \in 1 .. Len(stack) \/ i = Len(stack')
    BY <1>7, <1>10
  <2>2. i # Len(stack')
    BY <1>7
  <2> QED
    BY <1>1, <1>7, <1>9, <2>1, <2>2 DEF ImportsPlaced
<1> QED
  BY <1>7, <1>11, <1>12, <1>13 DEF IInv

(* A module the symtab holds fully processed is handed to its importer. *)
LEMMA KnownModuleStep ==
  ASSUME IInv, KnownModule
  PROVE  IInv'
<1>1. Active /\ CallChain /\ ChainLinks /\ ImportsPlaced /\ TypeOK /\ FilesRecorded
  BY DEF KnownModule, Quoted, Scanning, Active, IInv
<1>2. /\ Top.next \in 1 .. Len(Imports(Top.node))
      /\ Current.name \in Module /\ Current.name \in Node
  BY <1>1, TopFrame DEF KnownModule, Quoted, Scanning, MoreImports, Node
<1>3. Current.name \in Placed
  BY <1>2 DEF KnownModule, IInv, DoneIsPlaced
<1>4. UNCHANGED << project, visit, nodeFile, dependsOn, order, stack, reason >>
  BY DEF KnownModule
<1>5. result' = Current.name /\ pc' = "returned"
  BY DEF KnownModule
<1>6. TypeOK'
  BY <1>1, <1>2, <1>4, <1>5 DEF TypeOK
<1>7. ReturnedFits'
  BY <1>2, <1>3, <1>4, <1>5 DEF ReturnedFits, Top, Imports, Current, Placed
<1>8. CallChain' /\ ChainLinks' /\ ImportsPlaced'
  BY <1>1, <1>4 DEF CallChain, ChainLinks, ImportsPlaced, Imports, Placed
<1>9. NothingYet' /\ DoneIsPlaced' /\ FilesRecorded' /\ OrderSound'
  BY <1>4, <1>5 DEF IInv, NothingYet, DoneIsPlaced, FilesRecorded, OrderSound,
                    Placed, Imports, FileOf
<1> QED
  BY <1>6, <1>7, <1>8, <1>9 DEF IInv

(* The importer moves past a statement whose module is on the order. *)
LEMMA AcceptDependencyStep ==
  ASSUME IInv, AcceptDependency
  PROVE  IInv'
<1>1. Active /\ CallChain /\ ChainLinks /\ ImportsPlaced /\ TypeOK /\ FilesRecorded
  BY DEF AcceptDependency, Active, IInv
<1>2. /\ Top.next \in 1 .. Len(Imports(Top.node))
      /\ Current.name \in Placed
  BY DEF AcceptDependency, IInv, ReturnedFits
<1>3. /\ Len(stack) \in 1 .. Len(stack) /\ Len(stack) \in Nat
      /\ Top \in Frame /\ Top.node \in Node /\ Top.next \in Nat
      /\ stack[Len(stack)] = Top
  BY <1>1, TopFrame DEF Top
<1>4. UNCHANGED << project, visit, nodeFile, order, result, reason >> /\ pc' = "scan"
  BY DEF AcceptDependency
<1>5. /\ Len(stack') = Len(stack) /\ stack' \in Seq(Frame)
      /\ \A i \in 1 .. Len(stack) : stack'[i].node = stack[i].node
      /\ \A i \in 1 .. Len(stack) : i # Len(stack) => stack'[i].next = stack[i].next
      /\ stack'[Len(stack)].next = Top.next + 1
  <2>1. stack' = [stack EXCEPT ![Len(stack)].next = @ + 1]
    BY DEF AcceptDependency
  <2>2. stack' = [stack EXCEPT ![Len(stack)] = [Top EXCEPT !.next = @ + 1]]
    BY <2>1 DEF Top
  <2>3. [Top EXCEPT !.next = @ + 1] \in Frame
    BY <1>3 DEF Frame
  <2>4. stack \in Seq(Frame)
    BY <1>1 DEF TypeOK
  <2>5. stack' \in Seq(Frame) /\ Len(stack') = Len(stack)
    BY <1>3, <2>2, <2>3, <2>4
  <2>6. \A i \in 1 .. Len(stack) : i # Len(stack) => stack'[i] = stack[i]
    BY <2>2, <2>4
  <2>7. stack'[Len(stack)] = [Top EXCEPT !.next = @ + 1]
    BY <1>3, <2>2, <2>4
  <2>8. stack'[Len(stack)].node = Top.node /\ stack'[Len(stack)].next = Top.next + 1
    BY <1>3, <2>7 DEF Frame
  <2> QED
    BY <1>3, <2>5, <2>6, <2>8
<1>6. dependsOn' \in [Node -> SUBSET Node]
  BY <1>1, <1>3 DEF AcceptDependency, TypeOK
<1>7. TypeOK'
  BY <1>1, <1>4, <1>5, <1>6 DEF TypeOK
<1>8. \A i \in 1 .. Len(stack) : Imports(stack[i].node)' = Imports(stack[i].node)
  BY <1>4, <1>5 DEF Imports
<1>9. CallChain'
  <2>1. stack' # << >>
    BY <1>3, <1>5
  <2>2. \A n \in Node : visit'[n] = "in_progress" =>
          \E i \in 1 .. Len(stack') : stack'[i].node = n
    BY <1>1, <1>4, <1>5 DEF CallChain
  <2>3. \A i \in 1 .. Len(stack') : /\ stack'[i].node = MainNode <=> i = 1
                                    /\ visit'[stack'[i].node] = "in_progress"
    BY <1>1, <1>4, <1>5 DEF CallChain
  <2>4. \A i, j \in 1 .. Len(stack') : stack'[i].node = stack'[j].node => i = j
    BY <1>1, <1>4, <1>5 DEF CallChain
  <2> QED
    BY <2>1, <2>2, <2>3, <2>4 DEF CallChain
<1>10. ChainLinks'
  <2>1. \A i \in 1 .. Len(stack) - 1 :
          i \in 1 .. Len(stack) /\ i + 1 \in 1 .. Len(stack) /\ i # Len(stack)
    BY <1>3
  <2> QED
    BY <1>1, <1>5, <1>8, <2>1 DEF ChainLinks
<1>11. ImportsPlaced'
  <2> SUFFICES ASSUME NEW i \in 1 .. Len(stack),
                      NEW k \in 1 .. Len(Imports(stack[i].node)),
                      k < stack'[i].next
               PROVE  Imports(stack[i].node)[k].name \in Placed
    BY <1>4, <1>5, <1>8 DEF ImportsPlaced, Placed
  <2>1. CASE i # Len(stack)
    BY <1>1, <1>5, <2>1 DEF ImportsPlaced
  <2>2. CASE i = Len(stack) /\ k # Top.next
    <3>1. k < Top.next
      BY <1>3, <1>5, <2>2
    <3> QED
      BY <1>1, <1>3, <2>2, <3>1 DEF ImportsPlaced
  <2>3. CASE i = Len(stack) /\ k = Top.next
    BY <1>2, <1>3, <2>3 DEF Current
  <2> QED
    BY <2>1, <2>2, <2>3
<1>12. NothingYet' /\ DoneIsPlaced' /\ FilesRecorded' /\ OrderSound' /\ ReturnedFits'
  BY <1>4 DEF IInv, NothingYet, DoneIsPlaced, FilesRecorded, OrderSound, ReturnedFits,
              Placed, Imports, FileOf
<1> QED
  BY <1>7, <1>9, <1>10, <1>11, <1>12 DEF IInv

(* The innermost module has no further import: it joins the order, and its *)
(* caller, if it is not the main file, resumes at the statement naming it. *)
LEMMA FinishModuleStep ==
  ASSUME IInv, FinishModule
  PROVE  IInv' /\ Top.node \in Node /\ visit[Top.node] = "in_progress"
         /\ \A k \in 1 .. Len(Imports(Top.node)) : Imports(Top.node)[k].name \in Placed
<1> DEFINE n == Top.node
<1>1. Active /\ CallChain /\ ChainLinks /\ ImportsPlaced /\ TypeOK /\ FilesRecorded
  BY DEF FinishModule, Active, IInv
<1>2. /\ Len(stack) \in 1 .. Len(stack) /\ Len(stack) \in Nat /\ stack[Len(stack)] = Top
      /\ Top \in Frame /\ n \in Node /\ Top.next \in Nat
      /\ visit[n] = "in_progress" /\ Imports(n) \in Seq(Import)
  BY <1>1, TopFrame DEF Top
<1>3. \A k \in 1 .. Len(Imports(n)) : Imports(n)[k].name \in Placed
  <2> SUFFICES ASSUME NEW k \in 1 .. Len(Imports(n)) PROVE Imports(n)[k].name \in Placed
    OBVIOUS
  <2>1. k < Top.next
    BY <1>2 DEF FinishModule, MoreImports
  <2> QED
    BY <1>1, <1>2, <2>1 DEF ImportsPlaced
<1>4. /\ UNCHANGED << project, nodeFile, dependsOn, reason >>
      /\ result' = n /\ pc' = IF n = MainNode THEN "built" ELSE "returned"
      /\ order' = Append(order, n) /\ stack' = SubSeq(stack, 1, Len(stack) - 1)
      /\ visit' = [visit EXCEPT ![n] = "done"]
  BY DEF FinishModule
<1> HIDE DEF n
<1>5. /\ stack' \in Seq(Frame) /\ Len(stack') = Len(stack) - 1
      /\ \A i \in 1 .. Len(stack') : i \in 1 .. Len(stack) /\ stack'[i] = stack[i]
  BY <1>1, <1>2, <1>4, PopProperties DEF TypeOK
<1>6. /\ order \in Seq(Node) /\ order' \in Seq(Node) /\ Len(order') = Len(order) + 1
      /\ order'[Len(order')] = n /\ DOMAIN order' = 1 .. Len(order')
      /\ DOMAIN order = 1 .. Len(order) /\ Len(order) \in Nat
      /\ \A i \in 1 .. Len(order) : order'[i] = order[i]
  BY <1>1, <1>2, <1>4 DEF TypeOK
<1>7. Placed' = Placed \cup {n}
  <2>1. \A i \in 1 .. Len(order') : i \in 1 .. Len(order) \/ i = Len(order')
    BY <1>6
  <2>2. \A i \in 1 .. Len(order) : i \in 1 .. Len(order')
    BY <1>6
  <2>3. Len(order') \in 1 .. Len(order')
    BY <1>6
  <2> QED
    BY <1>6, <2>1, <2>2, <2>3 DEF Placed
<1>8. visit'[n] = "done" /\ \A m \in Node : m # n => visit'[m] = visit[m]
  BY <1>1, <1>2, <1>4 DEF TypeOK
<1>9. TypeOK'
  <2>1. visit' \in [Node -> {"absent", "in_progress", "done"}]
    BY <1>1, <1>2, <1>4 DEF TypeOK
  <2>2. pc' \in {"main", "scan", "returned", "unwind"} \cup Terminal
    BY <1>4 DEF Terminal
  <2> QED
    BY <1>1, <1>2, <1>4, <1>5, <1>6, <2>1, <2>2 DEF TypeOK
<1>10. NothingYet' /\ DoneIsPlaced'
  BY <1>4, <1>7, <1>8 DEF IInv, NothingYet, DoneIsPlaced
<1>11. FilesRecorded'
  BY <1>1, <1>2, <1>4, <1>8 DEF FilesRecorded, FileOf
<1>12. \A m : Imports(m)' = Imports(m)
  BY <1>4 DEF Imports
<1>13. n \notin Placed
  BY <1>2 DEF IInv, DoneIsPlaced
<1>14. OrderSound'
  <2>1. \A i \in 1 .. Len(order') : i \in 1 .. Len(order) \/ i = Len(order')
    BY <1>6
  <2>2. \A i, j \in DOMAIN order' : order'[i] = order'[j] => i = j
    <3>1. \A i \in 1 .. Len(order) : order'[i] # n
      BY <1>6, <1>13 DEF Placed
    <3>2. \A i, j \in 1 .. Len(order) : order[i] = order[j] => i = j
      BY <1>6 DEF IInv, OrderSound
    <3> QED
      BY <1>6, <2>1, <3>1, <3>2
  <2>3. ASSUME NEW i \in DOMAIN order', NEW k \in DOMAIN Imports(order'[i])
        PROVE  \E j \in 1 .. i - 1 : order'[j] = Imports(order'[i])[k].name
    <3>1. CASE i \in 1 .. Len(order)
      <4>1. order'[i] = order[i] /\ i \in DOMAIN order
        BY <1>6, <3>1
      <4>2. PICK j \in 1 .. i - 1 : order[j] = Imports(order[i])[k].name
        BY <2>3, <4>1 DEF IInv, OrderSound
      <4>3. order'[j] = order[j]
        BY <1>6, <3>1
      <4> QED
        BY <4>1, <4>2, <4>3
    <3>2. CASE i = Len(order')
      <4>1. order'[i] = n /\ i - 1 = Len(order)
        BY <1>6, <3>2
      <4>2. k \in 1 .. Len(Imports(n))
        BY <1>2, <2>3, <4>1 DEF n
      <4>3. PICK j \in DOMAIN order : order[j] = Imports(n)[k].name
        BY <1>3, <4>2 DEF Placed
      <4>4. j \in 1 .. i - 1 /\ order'[j] = order[j]
        BY <1>6, <4>1
      <4> QED
        BY <4>1, <4>3, <4>4
    <3> QED
      BY <1>6, <2>1, <2>3, <3>1, <3>2
  <2> QED
    BY <1>12, <2>2, <2>3 DEF OrderSound
<1>15. CASE n = MainNode
  <2>1. ~ Active' /\ pc' # "returned"
    BY <1>4, <1>15 DEF Active
  <2> QED
    BY <1>2, <1>3, <1>9, <1>10, <1>11, <1>14, <2>1 DEF IInv, ReturnedFits, n
<1>16. CASE n # MainNode
  <2>1. /\ Len(stack) # 1 /\ Len(stack') \in 1 .. Len(stack')
        /\ Len(stack') + 1 = Len(stack) /\ Len(stack') \in 1 .. Len(stack) - 1
    <3>1. Len(stack) # 1
      BY <1>1, <1>2, <1>16 DEF CallChain, n
    <3> QED
      BY <1>2, <1>5, <3>1
  <2>2. \A i \in 1 .. Len(stack') : stack[i].node # n
    <3>1. \A i \in 1 .. Len(stack') : i \in 1 .. Len(stack) /\ i # Len(stack)
      BY <1>2, <1>5
    <3> QED
      BY <1>1, <1>2, <3>1 DEF CallChain, n
  <2>3. CallChain'
    <3>1. stack' # << >>
      BY <2>1
    <3>2. \A i \in 1 .. Len(stack') : stack'[i].node \in Node
      <4>1. \A i \in 1 .. Len(stack') : stack'[i] \in Frame
        BY <1>5
      <4> QED
        BY <4>1 DEF Frame
    <3>3. \A i \in 1 .. Len(stack') : /\ stack'[i].node = MainNode <=> i = 1
                                      /\ visit'[stack'[i].node] = "in_progress"
      <4> SUFFICES ASSUME NEW i \in 1 .. Len(stack')
                   PROVE  /\ stack[i].node = MainNode <=> i = 1
                          /\ visit'[stack[i].node] = "in_progress"
        BY <1>5
      <4>1. i \in 1 .. Len(stack) /\ stack[i].node \in Node /\ stack[i].node # n
        BY <1>5, <2>2, <3>2
      <4> QED
        BY <1>1, <1>8, <4>1 DEF CallChain
    <3>4. ASSUME NEW m \in Node, visit'[m] = "in_progress"
          PROVE  \E i \in 1 .. Len(stack') : stack'[i].node = m
      <4>1. m # n /\ visit[m] = "in_progress"
        BY <1>8, <3>4
      <4>2. PICK i \in 1 .. Len(stack) : stack[i].node = m
        BY <1>1, <4>1 DEF CallChain
      <4>3. i # Len(stack)
        BY <1>2, <4>1, <4>2 DEF n
      <4>4. i \in 1 .. Len(stack')
        BY <1>2, <1>5, <4>3
      <4> QED
        BY <1>5, <4>2, <4>4
    <3>5. \A i, j \in 1 .. Len(stack') : stack'[i].node = stack'[j].node => i = j
      BY <1>1, <1>5 DEF CallChain
    <3> QED
      BY <3>1, <3>3, <3>4, <3>5 DEF CallChain
  <2>4. ChainLinks'
    <3>1. \A i \in 1 .. Len(stack') - 1 : /\ i \in 1 .. Len(stack) - 1
                                          /\ i \in 1 .. Len(stack')
                                          /\ i + 1 \in 1 .. Len(stack')
      BY <1>2, <1>5
    <3> QED
      BY <1>1, <1>5, <1>12, <3>1 DEF ChainLinks
  <2>5. ImportsPlaced'
    BY <1>1, <1>5, <1>7, <1>12 DEF ImportsPlaced
  <2>6. Top' = stack[Len(stack')]
    BY <1>5, <2>1 DEF Top
  <2>7. ReturnedFits'
    <3>1. /\ stack[Len(stack')].next \in 1 .. Len(Imports(stack[Len(stack')].node))
          /\ n = Imports(stack[Len(stack')].node)[stack[Len(stack')].next].name
      BY <1>1, <1>2, <2>1 DEF ChainLinks, n
    <3>2. Current' = Imports(stack[Len(stack')].node)[stack[Len(stack')].next]
      BY <1>12, <2>6 DEF Current
    <3> QED
      BY <1>4, <1>7, <1>12, <2>6, <3>1, <3>2 DEF ReturnedFits
  <2> QED
    BY <1>2, <1>3, <1>9, <1>10, <1>11, <1>14, <2>3, <2>4, <2>5, <2>7 DEF IInv, n
<1> QED
  BY <1>15, <1>16

-----------------------------------------------------------------------------
LEMMA InitIInv == Init => IInv
<1> SUFFICES ASSUME Init PROVE IInv
  OBVIOUS
<1>1. TypeOK
  BY ProjectsAssumption DEF Init, TypeOK, Node, Reason, Frame
<1> QED
  BY <1>1 DEF Init, IInv, NothingYet, DoneIsPlaced, Placed, FilesRecorded, OrderSound,
              Active, ReturnedFits

(* Each step keeps the invariant: the failures are quiet, the others have  *)
(* lemmas of their own.                                                    *)
LEMMA NextIInv == IInv /\ [Next]_vars => IInv'
<1> SUFFICES ASSUME IInv, [Next]_vars PROVE IInv'
  OBVIOUS
<1>1. stack \in Seq(Frame) /\ reason \in Reason
  BY DEF IInv, TypeOK
<1>2. ASSUME NEW why \in Reason, Fail(why) PROVE IInv'
  BY <1>1, <1>2, QuietStep DEF Fail
<1>3. ASSUME NEW how \in Terminal, Stop(how) PROVE IInv'
  BY <1>1, <1>3, QuietStep DEF Stop
<1>4. CASE \/ MainTokenizeFails \/ MainIsModule \/ MalformedImport \/ CircularImport
           \/ ModuleNotFound \/ ModuleTokenizeFails \/ MissingSemicolon
  BY <1>2, <1>4 DEF MainTokenizeFails, MainIsModule, MalformedImport, CircularImport,
                    ModuleNotFound, ModuleTokenizeFails, MissingSemicolon, Reason
<1>5. CASE AngledImport \/ FatalFile \/ HashCollision
  BY <1>3, <1>5 DEF AngledImport, FatalFile, HashCollision, Terminal
<1>6. CASE EnterMain
  BY <1>6, EnterMainStep
<1>7. CASE KnownModule
  BY <1>7, KnownModuleStep
<1>8. CASE CreateModule
  BY <1>8, CreateModuleStep
<1>9. CASE AcceptDependency
  BY <1>9, AcceptDependencyStep
<1>10. CASE FinishModule
  BY <1>10, FinishModuleStep
<1>11. CASE Unwind
  <2>1. stack' \in Seq(Frame)
    BY <1>1, <1>11 DEF Unwind
  <2>2. pc' \in {"unwind"} \cup Terminal
    BY <1>11 DEF Unwind, Terminal
  <2> QED
    BY <1>1, <1>11, <2>1, <2>2, QuietStep DEF Unwind
<1>12. CASE UNCHANGED vars
  <2> USE <1>12 DEF vars, IInv
  <2>1. TypeOK' /\ NothingYet' /\ DoneIsPlaced' /\ FilesRecorded' /\ OrderSound'
    BY DEF TypeOK, NothingYet, DoneIsPlaced, FilesRecorded, OrderSound, Placed, Imports,
           FileOf
  <2>2. Active' => CallChain' /\ ChainLinks' /\ ImportsPlaced'
    BY DEF Active, CallChain, ChainLinks, ImportsPlaced, Placed, Imports
  <2>3. ReturnedFits'
    BY DEF ReturnedFits, Top, Current, Placed, Imports
  <2> QED
    BY <2>1, <2>2, <2>3
<1> QED
  BY <1>4, <1>5, <1>6, <1>7, <1>8, <1>9, <1>10, <1>11, <1>12 DEF Next

(* The invariant holds from the first file read to the end of the build.   *)
THEOREM Invariant == Spec => []IInv
  BY InitIInv, NextIInv, PTL DEF Spec

(* The variables of build_system.c keep their types, whatever the files.   *)
THEOREM TypeCorrect == Spec => []TypeOK
<1>1. IInv => TypeOK
  BY DEF IInv
<1> QED
  BY <1>1, Invariant, PTL

(* No module is on the compilation order twice or before what it imports.  *)
THEOREM OrderCorrect == Spec => []OrderSound
<1>1. IInv => OrderSound
  BY DEF IInv
<1> QED
  BY <1>1, Invariant, PTL

(* IN_PROGRESS marks exactly the callers while the recursion runs, so an   *)
(* import of an IN_PROGRESS module closes a cycle.                         *)
THEOREM MarksAreExact == Spec => []InProgressIsCallChain
<1>1. IInv => InProgressIsCallChain
  <2> SUFFICES ASSUME IInv, pc \in {"scan", "returned"}
               PROVE  /\ { n \in Node : visit[n] = "in_progress" }
                           = { stack[i].node : i \in DOMAIN stack }
                      /\ \A i, j \in DOMAIN stack : stack[i].node = stack[j].node => i = j
    BY DEF InProgressIsCallChain
  <2>1. CallChain /\ DOMAIN stack = 1 .. Len(stack) /\ stack \in Seq(Frame)
    BY DEF IInv, Active, TypeOK
  <2>2. \A i \in 1 .. Len(stack) : stack[i] \in Frame
    BY <2>1
  <2>3. \A i \in 1 .. Len(stack) : stack[i].node \in Node
    BY <2>2 DEF Frame
  <2> QED
    BY <2>1, <2>3 DEF CallChain
<1> QED
  BY <1>1, Invariant, PTL

-----------------------------------------------------------------------------
(* Each step is one of BuildOrder or leaves what it speaks of alone: only   *)
(* FinishModule emits, and every failure rejects, once.                     *)
LEMMA StepRefines == IInv /\ [Next]_vars => [Abstract!Next]_(Abstract!vars)
<1> SUFFICES ASSUME IInv, [Next]_vars PROVE [Abstract!Next]_(Abstract!vars)
  OBVIOUS
<1> DEFINE needs == [n \in Node |-> NeedsOf(n)]
           verdict == IF pc \in {"main", "scan", "returned"} THEN "open"
                      ELSE IF pc = "built" THEN "built" ELSE "rejected"
<1>1. project' = project => needs' = needs
  BY DEF NeedsOf, FileOf
<1>2. ASSUME UNCHANGED << project, order >>, verdict' = verdict
      PROVE  UNCHANGED Abstract!vars
  BY <1>1, <1>2 DEF Abstract!vars
<1>3. ASSUME UNCHANGED << project, order >>, verdict = "open", verdict' = "rejected"
      PROVE  Abstract!Next
  BY <1>1, <1>3 DEF Abstract!Next, Abstract!Reject
<1>4. CASE \/ MainTokenizeFails \/ MainIsModule \/ MalformedImport \/ CircularImport
           \/ ModuleNotFound \/ ModuleTokenizeFails \/ MissingSemicolon
           \/ AngledImport \/ FatalFile \/ HashCollision
  <2>1. UNCHANGED << project, order >> /\ pc' \in {"unwind", "crashed", "aborted"}
    BY <1>4 DEF MainTokenizeFails, MainIsModule, MalformedImport, CircularImport,
                ModuleNotFound, ModuleTokenizeFails, MissingSemicolon, AngledImport,
                FatalFile, HashCollision, Fail, Stop
  <2>2. pc \in {"main", "scan", "returned"}
    BY <1>4 DEF MainTokenizeFails, MainIsModule, MalformedImport, CircularImport,
                ModuleNotFound, ModuleTokenizeFails, MissingSemicolon, AngledImport,
                FatalFile, HashCollision, Tokenized, Found, Unknown, Quoted, Scanning
  <2> QED
    BY <1>3, <2>1, <2>2
<1>5. CASE EnterMain \/ KnownModule \/ CreateModule \/ AcceptDependency
  <2>1. UNCHANGED << project, order >> /\ pc' \in {"scan", "returned"}
    BY <1>5 DEF EnterMain, KnownModule, CreateModule, AcceptDependency, EnterNode
  <2>2. pc \in {"main", "scan", "returned"}
    BY <1>5 DEF EnterMain, KnownModule, CreateModule, AcceptDependency,
                Tokenized, Found, Unknown, Quoted, Scanning
  <2> QED
    BY <1>2, <2>1, <2>2
<1>6. CASE FinishModule
  <2> DEFINE n == Top.node
  <2>1. /\ n \in Node /\ visit[n] = "in_progress"
        /\ \A k \in 1 .. Len(Imports(n)) : Imports(n)[k].name \in Placed
    BY <1>6, FinishModuleStep
  <2>2. /\ pc = "scan" /\ project' = project /\ order' = Append(order, n)
        /\ pc' = IF n = MainNode THEN "built" ELSE "returned"
    BY <1>6 DEF FinishModule
  <2> HIDE DEF n
  <2>3. n \notin Placed
    BY <2>1 DEF IInv, DoneIsPlaced
  <2>4. /\ nodeFile[n] = FileOf(n) /\ nodeFile[n] \in File
        /\ DOMAIN Imports(n) = 1 .. Len(Imports(n))
    BY <2>1 DEF IInv, FilesRecorded, TypeOK, Project, Imports
  <2>5. NeedsOf(n) \subseteq Placed
    BY <2>1, <2>4 DEF NeedsOf, Imports
  <2>6. Placed = Abstract!Placed
    BY DEF Placed, Abstract!Placed
  <2>7. verdict = "open" /\ verdict' = IF n = MainNode THEN "built" ELSE "open"
    BY <2>2
  <2>8. Abstract!Emit(n)
    BY <1>1, <2>1, <2>2, <2>3, <2>5, <2>6, <2>7 DEF Abstract!Emit
  <2> QED
    BY <2>1, <2>8 DEF Abstract!Next
<1>7. CASE Unwind
  BY <1>2, <1>7 DEF Unwind
<1>8. CASE UNCHANGED vars
  BY <1>2, <1>8 DEF vars
<1> QED
  BY <1>4, <1>5, <1>6, <1>7, <1>8 DEF Next

(* The depth-first search of build_system.c grows the compilation order as *)
(* BuildOrder allows: a module once, after all it imports, the main file   *)
(* last, and nothing once the build is rejected.                           *)
THEOREM Refinement == Spec => ImplementsBuildOrder
<1>1. Init => Abstract!Init
  BY DEF Init, Abstract!Init, NeedsOf, Node
<1> QED
  BY <1>1, Invariant, StepRefines, PTL DEF Spec, ImplementsBuildOrder, Abstract!Spec

-----------------------------------------------------------------------------
(* Whole builds, and the graph of the imports. *)

Cyclic == \E n \in ReachFrom({MainNode}) : n \in ReachFrom(NeedsOf(n))

(* Only what the main file reaches is recorded, from files that tokenize. *)
RecordedReached ==
  \A n \in Node : visit[n] # "absent" =>
    n \in ReachFrom({MainNode}) /\ nodeFile[n] \in project.tokenizes

(* The first imports of a node, up to a statement, are well formed, and    *)
(* are what it depends on.                                                 *)
Accepted(n, next) ==
  /\ \A k \in 1 .. Len(Imports(n)) : k < next => Imports(n)[k].form = "ok"
  /\ \A m : m \in dependsOn[n] <=>
       \E k \in 1 .. Len(Imports(n)) : k < next /\ Imports(n)[k].name = m

NothingAdded == \A n \in Node : visit[n] = "absent" => dependsOn[n] = {}
AcceptedSoFar == \A i \in 1 .. Len(stack) : Accepted(stack[i].node, stack[i].next)
PlacedAccepted == \A n \in Placed : Accepted(n, Len(Imports(n)) + 1)

(* The statement a call was made for names a module. *)
CallsQuoted ==
  \A i \in 1 .. Len(stack) : i # Len(stack) \/ pc = "returned" =>
    Imports(stack[i].node)[stack[i].next].form \in {"ok", "noSemicolon"}

MainLast == pc = "built" => order # << >> /\ order[Len(order)] = MainNode

CircularCyclic == reason = "circular" => Cyclic

Complete ==
  /\ RecordedReached
  /\ NothingAdded
  /\ Active => AcceptedSoFar /\ CallsQuoted
  /\ PlacedAccepted
  /\ MainLast
  /\ CircularCyclic

-----------------------------------------------------------------------------
(* Facts about the import graph on disk. *)

(* What a set reaches holds the set and all that is needed in it, and is   *)
(* in every closed set around it.                                          *)
LEMMA ReachHolds ==
  ASSUME NEW S \in SUBSET Node
  PROVE  /\ S \subseteq ReachFrom(S)
         /\ \A n \in ReachFrom(S) : NeedsOf(n) \subseteq ReachFrom(S)
         /\ \A T \in SUBSET Node : S \subseteq T /\ Closed(T) => ReachFrom(S) \subseteq T
<1>1. \A n : NeedsOf(n) \subseteq Node
  BY DEF NeedsOf, Node
<1>2. ASSUME NEW n \in ReachFrom(S) PROVE NeedsOf(n) \subseteq ReachFrom(S)
  <2> SUFFICES ASSUME NEW m \in NeedsOf(n),
                      NEW T \in SUBSET Node, S \subseteq T, Closed(T)
               PROVE  m \in T
    BY <1>1 DEF ReachFrom
  <2>1. n \in T
    BY <1>2 DEF ReachFrom
  <2> QED
    BY <2>1 DEF Closed
<1> QED
  BY <1>2 DEF ReachFrom

(* The files are never written. *)
LEMMA GraphKept ==
  ASSUME project' = project
  PROVE  /\ ReachFrom({MainNode})' = ReachFrom({MainNode})
         /\ Cyclic' <=> Cyclic
<1>1. \A n : NeedsOf(n)' = NeedsOf(n)
  BY DEF NeedsOf, FileOf
<1>2. \A T : Closed(T)' <=> Closed(T)
  BY <1>1 DEF Closed
<1>3. \A S : ReachFrom(S)' = ReachFrom(S)
  BY <1>2 DEF ReachFrom
<1>4. ReachFrom({MainNode})' = ReachFrom({MainNode})
  BY <1>3
<1>5. \A n : ReachFrom(NeedsOf(n))' = ReachFrom(NeedsOf(n))
  BY <1>1, <1>2 DEF ReachFrom
<1> QED
  BY <1>4, <1>5 DEF Cyclic

(* What a recorded node needs are the names in its import statements. *)
LEMMA NeedsAreImports ==
  ASSUME IInv, NEW n \in Node, visit[n] # "absent"
  PROVE  /\ Imports(n) \in Seq(Import)
         /\ \A m : m \in NeedsOf(n) <=>
              \E k \in 1 .. Len(Imports(n)) : Imports(n)[k].name = m
<1>1. nodeFile[n] = FileOf(n) /\ nodeFile[n] \in File
  BY DEF IInv, FilesRecorded
<1>2. Imports(n) \in Seq(Import)
  BY <1>1 DEF IInv, TypeOK, Project, Imports
<1>3. FileOf(n) # NoFile
  BY <1>1, NamesAssumption
<1>4. \A k \in 1 .. Len(Imports(n)) : Imports(n)[k].name \in Module
  <2>1. \A k \in 1 .. Len(Imports(n)) : Imports(n)[k] \in Import
    BY <1>2
  <2> QED
    BY <2>1 DEF Import
<1>5. Imports(n) = project.imports[FileOf(n)] /\ DOMAIN Imports(n) = 1 .. Len(Imports(n))
  BY <1>1, <1>2 DEF Imports
<1> QED
  BY <1>2, <1>3, <1>4, <1>5 DEF NeedsOf

(* The nodes of the frames are recorded. *)
LEMMA FramesRecorded ==
  ASSUME IInv, Active
  PROVE  \A i \in 1 .. Len(stack) : /\ stack[i].node \in Node
                                    /\ stack[i].next \in Nat
                                    /\ visit[stack[i].node] = "in_progress"
<1>1. \A i \in 1 .. Len(stack) : stack[i] \in Frame
  BY DEF IInv, TypeOK
<1> QED
  BY <1>1 DEF IInv, CallChain, Frame

(* Importing a module that is IN_PROGRESS closes a cycle: the frames from  *)
(* its own to the top are a path of imports.                               *)
LEMMA InProgressIsCyclic ==
  ASSUME IInv, Complete, CircularImport
  PROVE  Cyclic
<1> DEFINE m == Current.name
<1>1. Active /\ CallChain /\ ChainLinks /\ TypeOK /\ FilesRecorded
  BY DEF CircularImport, Quoted, Scanning, Active, IInv
<1>2. /\ Len(stack) \in 1 .. Len(stack) /\ Len(stack) \in Nat
      /\ Top.next \in 1 .. Len(Imports(Top.node)) /\ m \in Module
  BY <1>1, TopFrame DEF CircularImport, Quoted, Scanning, MoreImports
<1>3. m \in Node /\ visit[m] = "in_progress"
  BY <1>2 DEF CircularImport, Node
<1>4. \A i \in 1 .. Len(stack) : \A k \in 1 .. Len(Imports(stack[i].node)) :
        Imports(stack[i].node)[k].name \in NeedsOf(stack[i].node)
  BY <1>1, FramesRecorded, NeedsAreImports
<1>5. m \in NeedsOf(stack[Len(stack)].node)
  BY <1>2, <1>4 DEF Top, Current
<1> HIDE DEF m
<1>6. PICK j \in 1 .. Len(stack) : stack[j].node = m
  BY <1>1, <1>3 DEF CallChain
<1>7. ASSUME NEW T \in SUBSET Node, NeedsOf(m) \subseteq T, Closed(T)
      PROVE  m \in T
  <2> DEFINE Within == { d \in Nat : j + d <= Len(stack) =>
                                       NeedsOf(stack[j + d].node) \subseteq T }
  <2>1. j + 0 = j
    BY <1>6
  <2>2. 0 \in Within
    BY <1>6, <1>7, <2>1
  <2>3. ASSUME NEW d \in Nat, d \in Within PROVE d + 1 \in Within
    <3> SUFFICES ASSUME j + (d + 1) <= Len(stack)
                 PROVE  NeedsOf(stack[j + (d + 1)].node) \subseteq T
      OBVIOUS
    <3>1. /\ j + d \in 1 .. Len(stack) - 1 /\ j + d \in 1 .. Len(stack)
          /\ j + (d + 1) = (j + d) + 1 /\ j + d <= Len(stack)
      BY <1>2, <1>6
    <3>2. stack[(j + d) + 1].node \in NeedsOf(stack[j + d].node)
      BY <1>1, <1>4, <3>1 DEF ChainLinks
    <3>3. stack[(j + d) + 1].node \in T
      BY <2>3, <3>1, <3>2
    <3> QED
      BY <1>7, <3>1, <3>3 DEF Closed
  <2>4. Nat \subseteq Within
    <3> HIDE DEF Within
    <3> QED
      BY <2>2, <2>3, Induction
  <2>5. Len(stack) - j \in Nat /\ j + (Len(stack) - j) = Len(stack)
    BY <1>2, <1>6
  <2>6. NeedsOf(stack[Len(stack)].node) \subseteq T
    <3>1. Len(stack) - j \in Within
      BY <2>4, <2>5
    <3> QED
      BY <1>2, <2>5, <3>1
  <2> QED
    BY <1>5, <2>6
<1>8. m \in ReachFrom(NeedsOf(m))
  BY <1>3, <1>7 DEF ReachFrom
<1>9. m \in ReachFrom({MainNode})
  BY <1>3 DEF Complete, RecordedReached
<1> QED
  BY <1>8, <1>9 DEF Cyclic

-----------------------------------------------------------------------------
(* The actions. *)

(* A step that records nothing and leaves the import loop. *)
LEMMA QuietKeeps ==
  ASSUME Complete,
         UNCHANGED << project, visit, nodeFile, dependsOn, order >>,
         pc' \in {"unwind", "failed", "aborted", "crashed"},
         reason' = "circular" => Cyclic
  PROVE  Complete'
<1>1. /\ ReachFrom({MainNode})' = ReachFrom({MainNode})
      /\ Cyclic' <=> Cyclic
  BY GraphKept
<1>2. ~ Active' /\ pc' # "built"
  BY DEF Active
<1>3. RecordedReached' /\ NothingAdded'
  BY <1>1 DEF Complete, RecordedReached, NothingAdded
<1>4. PlacedAccepted'
  BY DEF Complete, PlacedAccepted, Placed, Accepted, Imports
<1> QED
  BY <1>1, <1>2, <1>3, <1>4 DEF Complete, MainLast, CircularCyclic

(* A node that is recorded is one the main file reaches, and its import    *)
(* loop has accepted nothing yet.                                          *)
LEMMA EnterNodeKeeps ==
  ASSUME IInv, Complete, NEW n \in Node, NEW f \in File, visit[n] = "absent",
         f = FileOf(n), EnterNode(n, f),
         n \in ReachFrom({MainNode}), f \in project.tokenizes,
         \A i \in 1 .. Len(stack) :
           /\ Active
           /\ Imports(stack[i].node)[stack[i].next].form \in {"ok", "noSemicolon"}
  PROVE  Complete'
<1>1. /\ stack \in Seq(Frame) /\ Len(stack) \in Nat
      /\ Len(stack') = Len(stack) + 1
      /\ stack'[Len(stack')] = [node |-> n, next |-> 1]
      /\ \A i \in 1 .. Len(stack) : stack'[i] = stack[i]
      /\ Placed' = Placed
      /\ \A m \in Node : m # n => visit'[m] = visit[m] /\ nodeFile'[m] = nodeFile[m]
      /\ visit'[n] = "in_progress" /\ nodeFile'[n] = f
  BY EnterNodeKeepsRecords DEF IInv, TypeOK
<1>2. UNCHANGED << project, dependsOn, order, reason >> /\ pc' = "scan"
  BY DEF EnterNode
<1>3. /\ ReachFrom({MainNode})' = ReachFrom({MainNode})
      /\ Cyclic' <=> Cyclic
  BY <1>2, GraphKept
<1>4. RecordedReached' /\ NothingAdded'
  BY <1>1, <1>2, <1>3 DEF Complete, RecordedReached, NothingAdded
<1>5. ASSUME NEW m \in Node, m # n PROVE Imports(m)' = Imports(m)
  BY <1>1, <1>2, <1>5 DEF Imports
<1>6. PlacedAccepted'
  <2>1. \A m \in Placed : m \in Node /\ m # n
    BY DEF IInv, DoneIsPlaced, Placed, TypeOK
  <2> SUFFICES ASSUME NEW m \in Placed PROVE Accepted(m, Len(Imports(m)) + 1)'
    BY <1>1 DEF PlacedAccepted
  <2>2. Accepted(m, Len(Imports(m)) + 1)
    BY DEF Complete, PlacedAccepted
  <2> QED
    BY <1>2, <1>5, <2>1, <2>2 DEF Accepted
<1>7. \A i \in 1 .. Len(stack') : i \in 1 .. Len(stack) \/ i = Len(stack')
  BY <1>1
<1>8. ASSUME NEW i \in 1 .. Len(stack)
      PROVE  stack[i].node \in Node /\ stack[i].node # n
  BY <1>8, FramesRecorded
<1>9. AcceptedSoFar'
  <2> SUFFICES ASSUME NEW i \in 1 .. Len(stack')
               PROVE  Accepted(stack[i].node, stack[i].next)'
    BY DEF AcceptedSoFar
  <2>1. CASE i \in 1 .. Len(stack)
    <3>1. Accepted(stack[i].node, stack[i].next)
      BY <2>1 DEF Complete, AcceptedSoFar
    <3>2. stack'[i] = stack[i] /\ Imports(stack[i].node)' = Imports(stack[i].node)
      <4>1. stack'[i] = stack[i] /\ stack[i].node \in Node /\ stack[i].node # n
        BY <1>1, <1>8, <2>1
      <4>2. nodeFile'[stack[i].node] = nodeFile[stack[i].node]
        BY <1>1, <4>1
      <4> QED
        BY <1>2, <4>1, <4>2 DEF Imports
    <3> QED
      BY <1>2, <3>1, <3>2 DEF Accepted
  <2>2. CASE i = Len(stack')
    <3>1. stack'[i].node = n /\ stack'[i].next = 1
      BY <1>1, <2>2
    <3>2. dependsOn'[n] = {}
      BY <1>2 DEF Complete, NothingAdded
    <3> QED
      BY <3>1, <3>2 DEF Accepted
  <2> QED
    BY <1>7, <2>1, <2>2
<1>10. CallsQuoted'
  <2> SUFFICES ASSUME NEW i \in 1 .. Len(stack'), i # Len(stack')
               PROVE  Imports(stack[i].node)'[stack'[i].next].form \in {"ok", "noSemicolon"}
    BY <1>2 DEF CallsQuoted
  <2>1. i \in 1 .. Len(stack) /\ stack'[i] = stack[i]
    BY <1>1, <1>7
  <2>2. nodeFile'[stack[i].node] = nodeFile[stack[i].node]
    BY <1>1, <1>8, <2>1
  <2>3. Imports(stack[i].node)' = Imports(stack[i].node)
    BY <1>2, <2>1, <2>2 DEF Imports
  <2> QED
    BY <2>1, <2>3
<1> QED
  BY <1>2, <1>3, <1>4, <1>6, <1>9, <1>10 DEF Complete, MainLast, CircularCyclic

LEMMA EnterMainKeeps ==
  ASSUME IInv, Complete, EnterMain
  PROVE  Complete'
<1>1. MainFile \in File /\ MainNode \in Node /\ FileOf(MainNode) = MainFile
  BY NamesAssumption DEF Node, FileOf
<1>2. /\ EnterNode(MainNode, MainFile) /\ visit[MainNode] = "absent" /\ stack = << >>
      /\ MainFile \in project.tokenizes
  BY <1>1 DEF EnterMain, IInv, NothingYet
<1>3. MainNode \in ReachFrom({MainNode})
  BY <1>1, ReachHolds
<1>4. \A i \in 1 .. Len(stack) : FALSE
  BY <1>2
<1> QED
  BY <1>1, <1>2, <1>3, <1>4, EnterNodeKeeps

LEMMA CreateModuleKeeps ==
  ASSUME IInv, Complete, CreateModule
  PROVE  Complete'
<1> DEFINE n == Current.name
           f == SearchFile(project, n)
<1>1. Active /\ CallChain /\ TypeOK /\ FilesRecorded /\ MoreImports /\ pc = "scan"
  BY DEF CreateModule, Tokenized, Found, Unknown, Quoted, Scanning, Active, IInv
<1>2. /\ Top.next \in 1 .. Len(Imports(Top.node)) /\ n \in Module
      /\ Len(stack) \in 1 .. Len(stack)
      /\ Top.node \in Node /\ visit[Top.node] = "in_progress"
  BY <1>1, TopFrame DEF MoreImports
<1>3. n \in Node /\ n # MainNode
  BY <1>2, NamesAssumption DEF Node
<1>4. f \in File /\ f \in project.tokenizes
  BY <1>1 DEF CreateModule, Tokenized, TypeOK, Project
<1>5. EnterNode(n, f) /\ visit[n] = "absent" /\ f = FileOf(n)
  BY <1>3 DEF CreateModule, Tokenized, Found, Unknown, FileOf
<1>6. n \in NeedsOf(Top.node)
  BY <1>2, NeedsAreImports DEF Current
<1>7. n \in ReachFrom({MainNode})
  <2>1. Top.node \in ReachFrom({MainNode}) /\ {MainNode} \in SUBSET Node
    BY <1>2 DEF Complete, RecordedReached, Node
  <2> QED
    BY <1>6, <2>1, ReachHolds
<1>8. Current.form \in {"ok", "noSemicolon"}
  BY DEF CreateModule, Tokenized, Found, Unknown, Quoted
<1>9. \A i \in 1 .. Len(stack) :
        Imports(stack[i].node)[stack[i].next].form \in {"ok", "noSemicolon"}
  BY <1>1, <1>8 DEF Complete, CallsQuoted, Current, Top
<1> HIDE DEF n, f
<1> QED
  BY <1>1, <1>3, <1>4, <1>5, <1>7, <1>9, EnterNodeKeeps

LEMMA KnownModuleKeeps ==
  ASSUME IInv, Complete, KnownModule
  PROVE  Complete'
<1>1. /\ UNCHANGED << project, visit, nodeFile, dependsOn, order, stack, reason >>
      /\ pc' = "returned" /\ Active
  BY DEF KnownModule, Quoted, Scanning, Active
<1>2. /\ ReachFrom({MainNode})' = ReachFrom({MainNode})
      /\ Cyclic' <=> Cyclic
  BY <1>1, GraphKept
<1>3. RecordedReached' /\ NothingAdded'
  BY <1>1, <1>2 DEF Complete, RecordedReached, NothingAdded
<1>4. PlacedAccepted'
  BY <1>1 DEF Complete, PlacedAccepted, Placed, Accepted, Imports
<1>5. AcceptedSoFar'
  <2>1. AcceptedSoFar /\ stack' = stack
    BY <1>1 DEF Complete
  <2>2. \A n : \A next : Accepted(n, next)' <=> Accepted(n, next)
    BY <1>1 DEF Accepted, Imports
  <2> QED
    BY <2>1, <2>2 DEF AcceptedSoFar
<1>6. Current.form \in {"ok", "noSemicolon"}
  BY DEF KnownModule, Quoted
<1>7. CallsQuoted'
  BY <1>1, <1>6 DEF Complete, CallsQuoted, Imports, Current, Top
<1> QED
  BY <1>1, <1>2, <1>3, <1>4, <1>5, <1>7 DEF Complete, MainLast, CircularCyclic

(* The statement that is passed was well formed, and what it names has     *)
(* been added.                                                             *)
LEMMA AcceptDependencyKeeps ==
  ASSUME IInv, Complete, AcceptDependency
  PROVE  Complete'
<1> DEFINE n == Top.node
<1>1. Active /\ CallChain /\ TypeOK /\ FilesRecorded /\ pc = "returned"
  BY DEF AcceptDependency, Active, IInv
<1>2. /\ Len(stack) \in 1 .. Len(stack) /\ Len(stack) \in Nat
      /\ Top \in Frame /\ n \in Node /\ Top.next \in Nat
      /\ stack[Len(stack)] = Top /\ visit[n] = "in_progress"
      /\ Imports(n) \in Seq(Import)
  BY <1>1, TopFrame DEF Top
<1>3. Top.next \in 1 .. Len(Imports(n)) /\ result = Imports(n)[Top.next].name
  BY <1>1 DEF IInv, ReturnedFits, Current
<1>4. /\ UNCHANGED << project, visit, nodeFile, order, reason >> /\ pc' = "scan"
      /\ dependsOn' = [dependsOn EXCEPT ![n] = @ \cup {result}]
      /\ stack' = [stack EXCEPT ![Len(stack)].next = @ + 1]
      /\ Current.form # "noSemicolon"
  BY DEF AcceptDependency
<1>5. Imports(n)[Top.next].form = "ok"
  BY <1>1, <1>2, <1>4 DEF Complete, CallsQuoted, Current
<1> HIDE DEF n
<1>6. /\ Len(stack') = Len(stack)
      /\ \A i \in 1 .. Len(stack) : stack'[i].node = stack[i].node
      /\ \A i \in 1 .. Len(stack) : i # Len(stack) => stack'[i].next = stack[i].next
      /\ stack'[Len(stack)].next = Top.next + 1
  <2>1. stack \in Seq(Frame) /\ DOMAIN stack = 1 .. Len(stack)
    BY <1>1 DEF TypeOK
  <2>2. /\ stack' = [stack EXCEPT ![Len(stack)] = [stack[Len(stack)] EXCEPT !.next = @ + 1]]
        /\ DOMAIN stack' = DOMAIN stack
    BY <1>4
  <2>3. [Top EXCEPT !.next = @ + 1].node = Top.node
        /\ [Top EXCEPT !.next = @ + 1].next = Top.next + 1
    BY <1>2 DEF Frame
  <2>4. \A i \in 1 .. Len(stack) : stack'[i] = IF i = Len(stack)
                                               THEN [Top EXCEPT !.next = @ + 1] ELSE stack[i]
    BY <1>2, <2>1, <2>2
  <2>5. Len(stack') = Len(stack)
    BY <2>1, <2>2, LenProperties
  <2> QED
    BY <1>2, <2>3, <2>4, <2>5
<1>7. /\ dependsOn'[n] = dependsOn[n] \cup {result}
      /\ \A m \in Node : m # n => dependsOn'[m] = dependsOn[m]
  BY <1>1, <1>2, <1>4 DEF TypeOK
<1>8. \A m : Imports(m)' = Imports(m)
  BY <1>4 DEF Imports
<1>9. /\ ReachFrom({MainNode})' = ReachFrom({MainNode})
      /\ Cyclic' <=> Cyclic
  BY <1>4, GraphKept
<1>10. RecordedReached' /\ NothingAdded'
  BY <1>2, <1>4, <1>7, <1>9 DEF Complete, RecordedReached, NothingAdded
<1>11. PlacedAccepted'
  <2>1. \A m \in Placed : m \in Node /\ m # n
    BY <1>2 DEF IInv, DoneIsPlaced, Placed, TypeOK
  <2>2. Placed' = Placed
    BY <1>4 DEF Placed
  <2> SUFFICES ASSUME NEW m \in Placed PROVE Accepted(m, Len(Imports(m)) + 1)'
    BY <2>2 DEF PlacedAccepted
  <2>3. Accepted(m, Len(Imports(m)) + 1)
    BY DEF Complete, PlacedAccepted
  <2> QED
    BY <1>7, <1>8, <2>1, <2>3 DEF Accepted
<1>12. AcceptedSoFar'
  <2> SUFFICES ASSUME NEW i \in 1 .. Len(stack)
               PROVE  Accepted(stack[i].node, stack[i].next)'
    BY <1>6 DEF AcceptedSoFar
  <2>1. Accepted(stack[i].node, stack[i].next)
    BY <1>1 DEF Complete, AcceptedSoFar
  <2>2. CASE i # Len(stack)
    <3>1. stack[i].node \in Node /\ stack[i].node # n
      BY <1>1, <1>2, <2>2, FramesRecorded DEF CallChain, n
    <3>2. dependsOn'[stack[i].node] = dependsOn[stack[i].node]
      BY <1>7, <3>1
    <3>3. stack'[i].node = stack[i].node /\ stack'[i].next = stack[i].next
      BY <1>6, <2>2
    <3> QED
      BY <1>8, <2>1, <3>2, <3>3 DEF Accepted
  <2>3. CASE i = Len(stack)
    <3>1. Accepted(n, Top.next)
      BY <1>2, <2>1, <2>3 DEF n
    <3>2. stack'[i].node = n /\ stack'[i].next = Top.next + 1
      BY <1>2, <1>6, <2>3 DEF n
    <3>3. \A k \in 1 .. Len(Imports(n)) : k < Top.next + 1 <=> k < Top.next \/ k = Top.next
      BY <1>2
    <3>4. \A k \in 1 .. Len(Imports(n)) : k < Top.next + 1 => Imports(n)[k].form = "ok"
      BY <1>5, <3>1, <3>3 DEF Accepted
    <3>5. \A m : m \in dependsOn'[n] <=>
            \E k \in 1 .. Len(Imports(n)) : k < Top.next + 1 /\ Imports(n)[k].name = m
      BY <1>3, <1>7, <3>1, <3>3 DEF Accepted
    <3> QED
      BY <1>8, <3>2, <3>4, <3>5 DEF Accepted
  <2> QED
    BY <2>2, <2>3
<1>13. CallsQuoted'
  BY <1>1, <1>4, <1>6, <1>8 DEF Complete, CallsQuoted
<1> QED
  BY <1>4, <1>9, <1>10, <1>11, <1>12, <1>13 DEF Complete, MainLast, CircularCyclic

(* A node whose import loop is over has accepted all of its imports. *)
LEMMA FinishModuleKeeps ==
  ASSUME IInv, Complete, FinishModule
  PROVE  Complete'
<1> DEFINE n == Top.node
<1>1. Active /\ CallChain /\ TypeOK /\ FilesRecorded
  BY DEF FinishModule, Active, IInv
<1>2. /\ Len(stack) \in 1 .. Len(stack) /\ Len(stack) \in Nat /\ stack[Len(stack)] = Top
      /\ n \in Node /\ Top.next \in Nat /\ visit[n] = "in_progress"
      /\ Imports(n) \in Seq(Import)
  BY <1>1, TopFrame DEF Top
<1>3. /\ UNCHANGED << project, nodeFile, dependsOn, reason >>
      /\ pc' = IF n = MainNode THEN "built" ELSE "returned"
      /\ order' = Append(order, n) /\ stack' = SubSeq(stack, 1, Len(stack) - 1)
      /\ visit' = [visit EXCEPT ![n] = "done"]
      /\ ~ Top.next <= Len(Imports(n))
  BY DEF FinishModule, MoreImports
<1>4. Accepted(n, Top.next)
  BY <1>1, <1>2 DEF Complete, AcceptedSoFar
<1>5. \A m : Imports(m)' = Imports(m)
  BY <1>3 DEF Imports
<1>6. Accepted(n, Len(Imports(n)) + 1)
  <2>1. \A k \in 1 .. Len(Imports(n)) : k < Len(Imports(n)) + 1 /\ k < Top.next
    BY <1>2, <1>3
  <2> QED
    BY <1>4, <2>1 DEF Accepted
<1> HIDE DEF n
<1>7. /\ stack \in Seq(Frame) /\ stack # << >>
      /\ Len(stack') = Len(stack) - 1
      /\ \A i \in 1 .. Len(stack') : i \in 1 .. Len(stack) /\ stack'[i] = stack[i]
  BY <1>1, <1>2, <1>3, PopProperties DEF TypeOK, CallChain
<1>8. /\ order \in Seq(Node) /\ Placed' = Placed \cup {n}
      /\ order' # << >> /\ order'[Len(order')] = n
  <2>1. order \in Seq(Node) /\ n \in Node
    BY <1>1, <1>2 DEF TypeOK
  <2>2. /\ Len(order') = Len(order) + 1 /\ Len(order) \in Nat
        /\ DOMAIN order = 1 .. Len(order) /\ DOMAIN order' = 1 .. Len(order')
        /\ order'[Len(order')] = n /\ order' # << >>
        /\ \A i \in 1 .. Len(order) : order'[i] = order[i]
    BY <1>3, <2>1
  <2>3. \A i \in 1 .. Len(order') : i \in 1 .. Len(order) \/ i = Len(order')
    BY <2>2
  <2>4. Len(order') \in 1 .. Len(order') /\ \A i \in 1 .. Len(order) : i \in 1 .. Len(order')
    BY <2>2
  <2> QED
    BY <2>1, <2>2, <2>3, <2>4 DEF Placed
<1>9. visit'[n] = "done" /\ \A m \in Node : m # n => visit'[m] = visit[m]
  BY <1>1, <1>2, <1>3 DEF TypeOK
<1>10. /\ ReachFrom({MainNode})' = ReachFrom({MainNode})
       /\ Cyclic' <=> Cyclic
  BY <1>3, GraphKept
<1>11. RecordedReached' /\ NothingAdded'
  BY <1>2, <1>3, <1>9, <1>10 DEF Complete, RecordedReached, NothingAdded
<1>12. PlacedAccepted'
  <2> SUFFICES ASSUME NEW m \in Placed \cup {n}
               PROVE  Accepted(m, Len(Imports(m)) + 1)'
    BY <1>8 DEF PlacedAccepted
  <2>1. Accepted(m, Len(Imports(m)) + 1)
    BY <1>6 DEF Complete, PlacedAccepted
  <2> QED
    BY <1>3, <1>5, <2>1 DEF Accepted
<1>13. AcceptedSoFar'
  <2> SUFFICES ASSUME NEW i \in 1 .. Len(stack')
               PROVE  Accepted(stack[i].node, stack[i].next)'
    BY DEF AcceptedSoFar
  <2>1. Accepted(stack[i].node, stack[i].next) /\ stack'[i] = stack[i]
    BY <1>1, <1>7 DEF Complete, AcceptedSoFar
  <2> QED
    BY <1>3, <1>5, <2>1 DEF Accepted
<1>14. CallsQuoted'
  <2> SUFFICES ASSUME NEW i \in 1 .. Len(stack')
               PROVE  Imports(stack[i].node)'[stack'[i].next].form \in {"ok", "noSemicolon"}
    BY DEF CallsQuoted
  <2>1. i \in 1 .. Len(stack) /\ stack'[i] = stack[i] /\ i # Len(stack)
    BY <1>2, <1>7
  <2> QED
    BY <1>1, <1>5, <2>1 DEF Complete, CallsQuoted
<1>15. MainLast'
  BY <1>3, <1>8 DEF MainLast
<1> QED
  BY <1>3, <1>10, <1>11, <1>12, <1>13, <1>14, <1>15 DEF Complete, CircularCyclic

(* Each step keeps what the theorems rest on. *)
LEMMA CompleteKept == IInv /\ Complete /\ [Next]_vars => Complete'
<1> SUFFICES ASSUME IInv, Complete, [Next]_vars PROVE Complete'
  OBVIOUS
<1>1. ASSUME NEW why, Fail(why), why = "circular" => Cyclic PROVE Complete'
  BY <1>1, QuietKeeps DEF Fail
<1>2. ASSUME NEW how \in {"aborted", "crashed"}, Stop(how) PROVE Complete'
  BY <1>2, QuietKeeps DEF Stop, Complete, CircularCyclic
<1>3. CASE \/ MainTokenizeFails \/ MainIsModule \/ MalformedImport
           \/ ModuleNotFound \/ ModuleTokenizeFails \/ MissingSemicolon
  BY <1>1, <1>3 DEF MainTokenizeFails, MainIsModule, MalformedImport,
                    ModuleNotFound, ModuleTokenizeFails, MissingSemicolon
<1>4. CASE CircularImport
  <2>1. Cyclic
    BY <1>4, InProgressIsCyclic
  <2> QED
    BY <1>1, <1>4, <2>1 DEF CircularImport
<1>5. CASE AngledImport \/ FatalFile \/ HashCollision
  BY <1>2, <1>5 DEF AngledImport, FatalFile, HashCollision
<1>6. CASE EnterMain
  BY <1>6, EnterMainKeeps
<1>7. CASE KnownModule
  BY <1>7, KnownModuleKeeps
<1>8. CASE CreateModule
  BY <1>8, CreateModuleKeeps
<1>9. CASE AcceptDependency
  BY <1>9, AcceptDependencyKeeps
<1>10. CASE FinishModule
  BY <1>10, FinishModuleKeeps
<1>11. CASE Unwind
  BY <1>11, QuietKeeps DEF Unwind, Complete, CircularCyclic
<1>12. CASE UNCHANGED vars
  <2>1. UNCHANGED << project, pc, visit, nodeFile, dependsOn, order, stack, reason >>
    BY <1>12 DEF vars
  <2>2. /\ ReachFrom({MainNode})' = ReachFrom({MainNode})
        /\ Cyclic' <=> Cyclic
    BY <2>1, GraphKept
  <2>3. RecordedReached' /\ NothingAdded'
    BY <2>1, <2>2 DEF Complete, RecordedReached, NothingAdded
  <2>4. PlacedAccepted'
    BY <2>1 DEF Complete, PlacedAccepted, Placed, Accepted, Imports
  <2>5. Active' => AcceptedSoFar' /\ CallsQuoted'
    BY <2>1 DEF Complete, Active, AcceptedSoFar, CallsQuoted, Accepted, Imports
  <2> QED
    BY <2>1, <2>2, <2>3, <2>4, <2>5 DEF Complete, MainLast, CircularCyclic
<1> QED
  BY <1>3, <1>4, <1>5, <1>6, <1>7, <1>8, <1>9, <1>10, <1>11, <1>12 DEF Next

-----------------------------------------------------------------------------
(* What a node on the order needs stands before it. *)
LEMMA NeedsStandBefore ==
  ASSUME IInv, NEW i \in DOMAIN order
  PROVE  /\ order[i] \in Node
         /\ \A m \in NeedsOf(order[i]) : \E j \in 1 .. i - 1 : order[j] = m
<1>1. order[i] \in Node /\ order[i] \in Placed
  BY DEF IInv, TypeOK, Placed
<1>2. visit[order[i]] # "absent"
  BY <1>1 DEF IInv, DoneIsPlaced
<1>3. /\ DOMAIN Imports(order[i]) = 1 .. Len(Imports(order[i]))
      /\ \A m \in NeedsOf(order[i]) :
           \E k \in 1 .. Len(Imports(order[i])) : Imports(order[i])[k].name = m
  BY <1>1, <1>2, NeedsAreImports
<1> QED
  BY <1>1, <1>3 DEF IInv, OrderSound

LEMMA PlacedIsReached ==
  ASSUME IInv, Complete, pc = "built"
  PROVE  Placed = ReachFrom({MainNode})
<1>1. Placed \in SUBSET Node /\ DOMAIN order = 1 .. Len(order) /\ Len(order) \in Nat
  BY DEF IInv, TypeOK, Placed
<1>2. Placed \subseteq ReachFrom({MainNode})
  BY <1>1 DEF IInv, DoneIsPlaced, Complete, RecordedReached
<1>3. {MainNode} \subseteq Placed
  <2>1. order # << >> /\ order[Len(order)] = MainNode
    BY DEF Complete, MainLast
  <2>2. Len(order) \in DOMAIN order
    BY <1>1, <2>1 DEF IInv, TypeOK
  <2> QED
    BY <2>1, <2>2 DEF Placed
<1>4. Closed(Placed)
  <2> SUFFICES ASSUME NEW i \in DOMAIN order, NEW m \in NeedsOf(order[i])
               PROVE  m \in Placed
    BY DEF Closed, Placed
  <2>1. PICK j \in 1 .. i - 1 : order[j] = m
    BY NeedsStandBefore
  <2>2. j \in DOMAIN order
    BY <1>1, <2>1
  <2> QED
    BY <2>1, <2>2 DEF Placed
<1> QED
  BY <1>1, <1>2, <1>3, <1>4, ReachHolds DEF Node

(* A build that succeeds has compiled exactly what the main file reaches,  *)
(* the main file last, from files without a fault, and has recorded the    *)
(* dependencies the files have (find_or_create_module and its import loop  *)
(* pass over no fault, whatever the import graph).                         *)
THEOREM CompleteWhenBuilt == Spec => []BuiltIsComplete
<1>1. Init => Complete
  BY DEF Init, Complete, RecordedReached, NothingAdded, Active, PlacedAccepted, Placed,
         MainLast, CircularCyclic
<1>2. IInv /\ Complete => BuiltIsComplete
  <2> SUFFICES ASSUME IInv, Complete, pc = "built"
               PROVE  /\ Placed = ReachFrom({MainNode})
                      /\ order[Len(order)] = MainNode
                      /\ \A n \in Placed :
                           /\ nodeFile[n] \in project.tokenizes
                           /\ \A k \in DOMAIN Imports(n) : Imports(n)[k].form = "ok"
                           /\ dependsOn[n] = NeedsOf(n)
    BY DEF BuiltIsComplete
  <2>1. order[Len(order)] = MainNode
    BY DEF Complete, MainLast
  <2> SUFFICES ASSUME NEW n \in Placed
               PROVE  /\ nodeFile[n] \in project.tokenizes
                      /\ \A k \in DOMAIN Imports(n) : Imports(n)[k].form = "ok"
                      /\ dependsOn[n] = NeedsOf(n)
    BY <2>1, PlacedIsReached
  <2>2. n \in Node /\ visit[n] # "absent"
    BY DEF IInv, DoneIsPlaced, TypeOK, Placed
  <2>3. nodeFile[n] \in project.tokenizes
    BY <2>2 DEF Complete, RecordedReached
  <2>4. Accepted(n, Len(Imports(n)) + 1)
    BY DEF Complete, PlacedAccepted
  <2>5. /\ Imports(n) \in Seq(Import)
        /\ \A m : m \in NeedsOf(n) <=>
             \E k \in 1 .. Len(Imports(n)) : Imports(n)[k].name = m
    BY <2>2, NeedsAreImports
  <2>6. /\ DOMAIN Imports(n) = 1 .. Len(Imports(n))
        /\ \A k \in 1 .. Len(Imports(n)) : k < Len(Imports(n)) + 1
    BY <2>5
  <2>7. \A k \in DOMAIN Imports(n) : Imports(n)[k].form = "ok"
    BY <2>4, <2>6 DEF Accepted
  <2>8. \A m : m \in dependsOn[n] <=> m \in NeedsOf(n)
    BY <2>4, <2>5, <2>6 DEF Accepted
  <2>9. dependsOn[n] \in SUBSET Node
    BY <2>2 DEF IInv, TypeOK
  <2> QED
    BY <2>3, <2>7, <2>8
<1> QED
  BY <1>1, <1>2, CompleteKept, Invariant, PTL DEF Spec

(* Circular imports are reported only when a module does reach itself, and *)
(* a build never succeeds when one does: the IN_PROGRESS mark finds every  *)
(* cycle and nothing else.                                                 *)
THEOREM CyclesAreFound == Spec => []CircularIsExact
<1>1. Init => Complete
  BY DEF Init, Complete, RecordedReached, NothingAdded, Active, PlacedAccepted, Placed,
         MainLast, CircularCyclic
<1>2. ASSUME IInv, Complete, pc = "built" PROVE ~ Cyclic
  <2> SUFFICES ASSUME NEW n \in Placed, n \in ReachFrom(NeedsOf(n)) PROVE FALSE
    BY <1>2, PlacedIsReached DEF Cyclic
  <2>1. PICK i \in DOMAIN order : order[i] = n
    BY DEF Placed
  <2>2. DOMAIN order = 1 .. Len(order) /\ Len(order) \in Nat
    BY <1>2 DEF IInv, TypeOK
  <2> DEFINE T == { order[j] : j \in 1 .. i - 1 }
  <2>3. \A j \in 1 .. i - 1 : j \in DOMAIN order /\ order[j] \in Node
    <3>1. \A j \in 1 .. i - 1 : j \in DOMAIN order
      BY <2>1, <2>2
    <3> QED
      BY <1>2, <3>1, NeedsStandBefore
  <2>4. T \in SUBSET Node
    BY <2>3
  <2>5. NeedsOf(n) \subseteq T
    BY <1>2, <2>1, NeedsStandBefore
  <2>6. Closed(T)
    <3> SUFFICES ASSUME NEW j \in 1 .. i - 1, NEW m \in NeedsOf(order[j]) PROVE m \in T
      BY DEF Closed
    <3>1. PICK l \in 1 .. j - 1 : order[l] = m
      BY <1>2, <2>3, NeedsStandBefore
    <3>2. l \in 1 .. i - 1
      BY <2>1, <2>2, <3>1
    <3> QED
      BY <3>1, <3>2
  <2>7. n \in T
    BY <2>4, <2>5, <2>6 DEF ReachFrom
  <2>8. PICK j \in 1 .. i - 1 : order[j] = order[i]
    BY <2>1, <2>7
  <2>9. j = i
    BY <1>2, <2>1, <2>3, <2>8 DEF IInv, OrderSound
  <2> QED
    BY <2>1, <2>2, <2>8, <2>9
<1>3. IInv /\ Complete => CircularIsExact
  BY <1>2 DEF Complete, CircularCyclic, CircularIsExact, Cyclic
<1> QED
  BY <1>1, <1>3, CompleteKept, Invariant, PTL DEF Spec
=============================================================================
