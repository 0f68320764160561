------------------------ MODULE MapFolderTreeProofs -------------------------
(***************************************************************************)
(* For any finite tree of directories, whatever fails: the folder infos    *)
(* that MapFolderTree makes have the parents and the siblings of the       *)
(* directories they stand for, and there is one for every folder that was  *)
(* listed.                                                                 *)
(***************************************************************************)
EXTENDS MapFolderTree, SequenceTheorems, FiniteSetTheorems, TLAPS

Frames == [dir : Dirs \cup {Top}, at : {"select", "list", "loop"},
           todo : SUBSET Dirs, fi : Dirs \cup {None},
           parent_fi : Dirs \cup {None}]

\* All but the proxy, which goes when the store is disconnected.
quiet == <<stack, fi, infos, table, current, error, listed, refused, gone>>

\* Types, with the stack a sequence of frames.
Types ==
    /\ stack \in Seq(Frames)
    /\ fi \in Dirs \cup {None}
    /\ DOMAIN infos \subseteq Dirs
    /\ \A d \in DOMAIN infos :
          infos[d] \in [parent : Dirs \cup {None}, next : Dirs \cup {None}]
    /\ table \in SUBSET Dirs
    /\ current \in Dirs \cup {Top}
    /\ listed \in SUBSET (Dirs \cup {Top})

ErrorTypes == error \in {"NULL", "unset", "set"} /\ proxy \in BOOLEAN

\* A frame has the info of its directory as the parent of those it makes; only
\* the highest has not begun its loop; what is left to visit are folders of
\* the directory; the directory has an info.
Shaped(i) ==
    /\ stack[i].parent_fi = IF stack[i].dir = Top THEN None ELSE stack[i].dir
    /\ stack[i].dir \in DOMAIN infos \cup {Top}
    /\ stack[i].todo \subseteq Folders(stack[i].dir)
    /\ stack[i].at = "loop" => stack[i].dir \in listed
    /\ stack[i].at # "loop" => /\ i = Depth
                               /\ stack[i].todo = {} /\ stack[i].fi = None
                               /\ stack[i].dir \notin listed
    /\ stack[i].at = "list" => current = stack[i].dir

StackShaped == \A i \in 1..Depth : Shaped(i)

\* No directory is visited twice at a time.
DirsDistinct ==
    \A i, j \in 1..Depth : stack[i].dir = stack[j].dir => i = j

\* Folder f is still to be visited.
Pending(f) == \E i \in 1..Depth : f \in stack[i].todo

\* The folders that have an info are those of the directories that were
\* listed, but for those still to be visited.
InfosExact ==
    /\ table = DOMAIN infos
    /\ listed \subseteq DOMAIN infos \cup {Top}
    /\ \A f \in Dirs :
          f \in DOMAIN infos
          <=> f \notin Skipped /\ Up[f] \in listed /\ ~Pending(f)

\* The folders of directory d that were visited.
Seen(d) == Folders(d) \cap DOMAIN infos

\* The infos of d are linked in the order of chain, which has all of them.
Chained(d, chain) ==
    /\ \A f \in Seen(d) : \E i \in DOMAIN chain : chain[i] = f
    /\ \A i \in DOMAIN chain :
          infos[chain[i]].next = IF i < Len(chain) THEN chain[i + 1] ELSE None
    /\ d = Top /\ chain # <<>> => fi = chain[1]

\* Those of every listed directory are linked.
AllChained ==
    \A d \in listed : \E chain \in SetToSeqs(Seen(d)) : Chained(d, chain)

\* The fi of a frame is the last info of its chain.
LastInfo(i) ==
    IF stack[i].fi = None
    THEN Seen(stack[i].dir) = {}
    ELSE /\ stack[i].fi \in Seen(stack[i].dir)
         /\ infos[stack[i].fi].next = None

LastsKept == \A i \in 1..Depth : stack[i].at = "loop" => LastInfo(i)

\* Directory d is being visited.
Visited(d) == \E i \in 1..Depth : stack[i].dir = d

\* A directory that was lost, being refused or reached without a proxy, is not
\* listed and not on the stack; the error tells of one that was refused; while
\* it does not, every directory that is not listed was lost or is on the stack.
LossesExact ==
    /\ refused \cup gone \subseteq Unlisted
    /\ \A d \in refused \cup gone : ~Visited(d)
    /\ error = "unset" => refused = {}
    /\ error = "set" => \E d : refused = {d}
    /\ error # "set" =>
          \A d \in Unlisted : d \in refused \cup gone \/ Visited(d)

\* The inductive invariant.
IInv ==
    /\ Types /\ StackShaped /\ DirsDistinct /\ InfosExact /\ ParentIsDirectory
    /\ AllChained /\ LastsKept /\ ErrorTypes /\ LossesExact

----------------------------------------------------------------------------
(* What the actions do to the stack.                                       *)

\* While there is a frame, the highest is one.
LEMMA HereIsFrame ==
  ASSUME Types, stack # <<>>
  PROVE  /\ Depth \in Nat \ {0} /\ Depth \in 1..Depth
         /\ Here \in Frames /\ Here = stack[Depth]
         /\ \A i \in 1..Depth : stack[i] \in Frames
<1>1. Depth \in Nat \ {0}
    BY EmptySeq DEF Types, Depth
<1>2. \A i \in 1..Depth : stack[i] \in Frames
    BY ElementOfSeq DEF Types, Depth
<1> QED
    BY <1>1, <1>2 DEF Here

\* The highest frame becomes another one.
LEMMA ChangeTop ==
  ASSUME Types, stack # <<>>, NEW frame \in Frames,
         stack' = [stack EXCEPT ![Depth] = frame]
  PROVE  /\ stack' \in Seq(Frames) /\ Depth' = Depth
         /\ Here' = frame /\ stack'[Depth] = frame
         /\ \A i \in 1..(Depth - 1) : stack'[i] = stack[i]
<1>1. Depth = Len(stack) /\ Depth' = Len(stack') /\ Here' = stack'[Depth']
    BY DEF Depth, Here
<1>2. Depth \in 1..Depth /\ Depth \in Nat \ {0}
    BY HereIsFrame
<1>3. /\ stack' \in Seq(Frames) /\ Len(stack') = Len(stack)
      /\ \A j \in 1..Depth : stack'[j] = IF j = Depth THEN frame ELSE stack[j]
    BY <1>1, <1>2, ExceptSeq DEF Types
<1> QED
    BY <1>1, <1>2, <1>3

\* The function returns.
LEMMA ReturnEffect ==
  ASSUME Types, stack # <<>>, Return
  PROVE  /\ stack' \in Seq(Frames) /\ Depth' = Depth - 1
         /\ \A i \in 1..(Depth - 1) : stack'[i] = stack[i]
<1>1. Depth \in Nat \ {0} /\ \A i \in 1..(Depth - 1) : stack[i] \in Frames
    BY HereIsFrame
<1>2. /\ stack' \in Seq(Frames)
      /\ Len(stack') = IF 1 <= Depth - 1 THEN Depth - 1 ELSE 0
      /\ \A i \in 1..(Depth - 1) : stack'[i] = stack[i]
    BY <1>1, SubSeqProperties DEF Return
<1>3. Depth' = Len(stack')
    BY DEF Depth
<1> QED
    BY <1>1, <1>2, <1>3

\* Folder f is taken off the listing, and visited on top.
LEMMA VisitEffect ==
  ASSUME Types, stack # <<>>, NEW f \in Dirs, stack' = Visit(f)
  PROVE  /\ stack' \in Seq(Frames) /\ Depth' = Depth + 1
         /\ stack'[Depth + 1] = Frame(f, f)
         /\ stack'[Depth] = [Here EXCEPT !.todo = @ \ {f}, !.fi = f]
         /\ \A i \in 1..(Depth - 1) : stack'[i] = stack[i]
<1> DEFINE frame == [Here EXCEPT !.todo = @ \ {f}, !.fi = f]
           below == [stack EXCEPT ![Depth] = frame]
<1>1. Depth \in 1..Len(stack) /\ Depth \in Nat \ {0} /\ Here \in Frames
    BY HereIsFrame DEF Depth
<1>2. frame \in Frames
    BY <1>1 DEF Frames
<1>3. /\ below \in Seq(Frames) /\ Len(below) = Len(stack)
      /\ \A j \in 1..Len(stack) : below[j] = IF j = Depth THEN frame ELSE stack[j]
    BY <1>1, <1>2, ExceptSeq DEF Types
<1>4. Frame(f, f) \in Frames
    BY DEF Frame, Frames
<1>5. stack' = Append(below, Frame(f, f))
    BY <1>1, ElementOfSeq DEF Visit, Here, Types, Depth
<1> HIDE DEF frame, below
<1>6. /\ stack' \in Seq(Frames) /\ Len(stack') = Len(below) + 1
      /\ stack'[Len(below) + 1] = Frame(f, f)
      /\ \A i \in 1..Len(below) : stack'[i] = below[i]
    BY <1>3, <1>4, <1>5
<1> QED
    BY <1>1, <1>3, <1>6 DEF Depth, frame

----------------------------------------------------------------------------
(* The steps, in the terms of the invariant.                               *)

\* The frames below the highest stay.
BelowSame == \A i \in 1..(Depth - 1) : stack'[i] = stack[i]

\* The highest frame has selected its directory.
Selects ==
    /\ Here.at = "select"
    /\ stack'[Depth] = [Here EXCEPT !.at = "list"]
    /\ Depth' = Depth /\ BelowSame
    /\ current' = Here.dir
    /\ UNCHANGED <<fi, infos, table, listed, error, refused, gone>>

\* It has listed the folders there.
Lists ==
    /\ Here.at = "list"
    /\ stack'[Depth] = [Here EXCEPT !.at = "loop", !.todo = Folders(current)]
    /\ Depth' = Depth /\ BelowSame
    /\ listed' = listed \cup {Here.dir}
    /\ UNCHANGED <<fi, infos, table, current, error, refused, gone>>

\* Its directory is done, or lost: for an error that is set, without a proxy, or
\* by the phone, which sets the error.
Counted ==
    \/ /\ Here.at = "loop" \/ error = "set"
       /\ UNCHANGED <<error, refused, gone>>
    \/ /\ Here.at # "loop"
       /\ gone' = gone \cup {Here.dir} /\ UNCHANGED <<error, refused>>
    \/ /\ Here.at # "loop" /\ error # "set"
       /\ error' = IF error = "NULL" THEN "NULL" ELSE "set"
       /\ refused' = refused \cup {Here.dir} /\ UNCHANGED gone

\* It is left, with nothing to do.
Leaves ==
    /\ Here.todo = {}
    /\ Depth' = Depth - 1 /\ BelowSame
    /\ Counted
    /\ UNCHANGED <<fi, infos, table, current, listed>>

\* It makes the info of folder f, whose directory is visited.
Visits(f) ==
    /\ Here.at = "loop" /\ f \in Here.todo
    /\ Depth' = Depth + 1 /\ BelowSame
    /\ stack'[Depth] = [Here EXCEPT !.todo = @ \ {f}, !.fi = f]
    /\ stack'[Depth + 1] = Frame(f, f)
    /\ infos' = Linked(f, Here.parent_fi, Here.fi)
    /\ fi' = IF Here.fi = None /\ Here.parent_fi = None THEN f ELSE fi
    /\ table' = table \cup {f}
    /\ UNCHANGED <<current, listed, error, refused, gone>>

\* Every step is one of these, and leaves a stack of frames.
LEMMA Steps ==
  ASSUME Types, StackShaped, [Next]_vars
  PROVE  \/ UNCHANGED quiet
         \/ /\ Depth \in Nat \ {0} /\ Here \in Frames
            /\ stack' \in Seq(Frames)
            /\ \/ Selects \/ Lists \/ Leaves
               \/ \E f \in Dirs : Visits(f)
<1>1. CASE SelectDir
  <2> DEFINE frame == [Here EXCEPT !.at = "list"]
  <2>1. stack # <<>> /\ Here.at = "select"
      BY <1>1 DEF SelectDir, At
  <2>2. Depth \in Nat \ {0} /\ Here \in Frames
      BY <2>1, HereIsFrame
  <2>3. frame \in Frames
      BY <2>2 DEF Frames
  <2>4. stack' = [stack EXCEPT ![Depth] = frame]
      BY <1>1 DEF SelectDir, Here
  <2>5. /\ stack' \in Seq(Frames) /\ Depth' = Depth
        /\ stack'[Depth] = frame /\ BelowSame
    <3> HIDE DEF frame
    <3> QED
        BY <2>1, <2>3, <2>4, ChangeTop DEF BelowSame
  <2> QED
      BY <1>1, <2>1, <2>2, <2>5 DEF SelectDir, Selects
<1>2. CASE ListFolders
  <2> DEFINE frame == [Here EXCEPT !.at = "loop", !.todo = Folders(current)]
  <2>1. stack # <<>> /\ Here.at = "list"
      BY <1>2 DEF ListFolders, At
  <2>2. Depth \in Nat \ {0} /\ Here \in Frames
      BY <2>1, HereIsFrame
  <2>3. frame \in Frames
      BY <2>2 DEF Frames, Folders
  <2>4. stack' = [stack EXCEPT ![Depth] = frame]
    <3>1. Depth \in DOMAIN stack
        BY <2>1, HereIsFrame, LenProperties DEF Types, Depth
    <3> QED
        BY <1>2, <3>1 DEF ListFolders, Here
  <2>5. /\ stack' \in Seq(Frames) /\ Depth' = Depth
        /\ stack'[Depth] = frame /\ BelowSame
    <3> HIDE DEF frame
    <3> QED
        BY <2>1, <2>3, <2>4, ChangeTop DEF BelowSame
  <2> QED
      BY <1>2, <2>1, <2>2, <2>5 DEF ListFolders, Lists
<1>3. CASE SelectFails \/ ListFails \/ EndOfListing \/ NotAsked \/ NoProxy
  <2>1. /\ stack # <<>> /\ Return
        /\ Here.at \in {"select", "list", "loop"}
        /\ Counted /\ UNCHANGED <<fi, infos, table, current, listed>>
      BY <1>3 DEF SelectFails, ListFails, EndOfListing, NotAsked, NoProxy, At, Asks,
         PhoneRefuses, Counted
  <2>2. /\ Depth \in Nat \ {0} /\ Depth \in 1..Depth
        /\ Here \in Frames /\ Here = stack[Depth]
      BY <2>1, HereIsFrame
  <2>3. Here.todo = {}
    <3>1. Shaped(Depth)
        BY <2>2 DEF StackShaped
    <3> QED
        BY <1>3, <2>2, <3>1 DEF SelectFails, ListFails, EndOfListing, NotAsked,
           NoProxy, At, Shaped
  <2>4. stack' \in Seq(Frames) /\ Depth' = Depth - 1 /\ BelowSame
      BY <2>1, ReturnEffect DEF BelowSame
  <2> QED
      BY <2>1, <2>2, <2>3, <2>4 DEF Leaves
<1>4. ASSUME NEW f \in Dirs, FirstFolder(f) \/ NextFolder(f)
      PROVE  /\ Depth \in Nat \ {0} /\ Here \in Frames
             /\ stack' \in Seq(Frames) /\ Visits(f)
  <2>1. /\ stack # <<>> /\ Here.at = "loop" /\ f \in Here.todo
        /\ stack' = Visit(f)
        /\ infos' = Linked(f, Here.parent_fi, Here.fi)
        /\ fi' = IF Here.fi = None /\ Here.parent_fi = None THEN f ELSE fi
        /\ table' = table \cup {f}
        /\ UNCHANGED <<current, listed, error, refused, gone>>
      BY <1>4 DEF FirstFolder, NextFolder, At
  <2>2. Depth \in Nat \ {0} /\ Here \in Frames
      BY <2>1, HereIsFrame
  <2>3. /\ stack' \in Seq(Frames) /\ Depth' = Depth + 1 /\ BelowSame
        /\ stack'[Depth + 1] = Frame(f, f)
        /\ stack'[Depth] = [Here EXCEPT !.todo = @ \ {f}, !.fi = f]
      BY <2>1, VisitEffect DEF BelowSame
  <2> QED
      BY <2>1, <2>2, <2>3 DEF Visits
<1>5. CASE Disconnect \/ Rest \/ UNCHANGED vars
    BY <1>5 DEF Disconnect, Rest, vars, quiet
<1> QED
    BY <1>1, <1>2, <1>3, <1>4, <1>5 DEF Next

\* What linking folder f does to the infos.
LEMMA LinkedEffect ==
  ASSUME Types, NEW f \in Dirs, NEW parent \in Dirs \cup {None}, NEW prev,
         infos' = Linked(f, parent, prev)
  PROVE  /\ DOMAIN infos' = DOMAIN infos \cup {f}
         /\ infos'[f] = [parent |-> parent, next |-> None]
         /\ \A d \in DOMAIN infos \ {f} : infos'[d].parent = infos[d].parent
         /\ \A d \in DOMAIN infos' :
               infos'[d] \in [parent : Dirs \cup {None}, next : Dirs \cup {None}]
<1>1. \A d \in DOMAIN infos :
         infos[d] \in [parent : Dirs \cup {None}, next : Dirs \cup {None}]
    BY DEF Types
<1>2. DOMAIN infos' = DOMAIN infos \cup {f}
    BY DEF Linked
<1>3. infos'[f] = [parent |-> parent, next |-> None]
    BY DEF Linked, Info
<1>4. ASSUME NEW d \in DOMAIN infos \ {f}
      PROVE  /\ infos'[d].parent = infos[d].parent
             /\ infos'[d] \in [parent : Dirs \cup {None}, next : Dirs \cup {None}]
  <2>1. infos'[d] = IF d = prev THEN [infos[d] EXCEPT !.next = f] ELSE infos[d]
      BY DEF Linked
  <2> QED
      BY <1>1, <2>1
<1> QED
    BY <1>2, <1>3, <1>4

----------------------------------------------------------------------------
(* Every step keeps the parts of the invariant.                            *)

\* Types.
LEMMA TypesStep == Types /\ StackShaped /\ [Next]_vars => Types'
<1> SUFFICES ASSUME Types, StackShaped, [Next]_vars
             PROVE  Types'
    OBVIOUS
<1>1. CASE UNCHANGED quiet
    BY <1>1 DEF quiet, Types
<1>2. CASE /\ Here \in Frames /\ stack' \in Seq(Frames)
           /\ Selects \/ Lists \/ Leaves
    BY <1>2 DEF Types, Selects, Lists, Leaves, Frames
<1>3. ASSUME Here \in Frames, stack' \in Seq(Frames), NEW f \in Dirs, Visits(f)
      PROVE  Types'
  <2>1. Here.parent_fi \in Dirs \cup {None}
      BY <1>3 DEF Frames
  <2>2. /\ DOMAIN infos' \subseteq Dirs
        /\ \A d \in DOMAIN infos' :
              infos'[d] \in [parent : Dirs \cup {None}, next : Dirs \cup {None}]
    <3>1. infos' = Linked(f, Here.parent_fi, Here.fi)
        BY <1>3 DEF Visits
    <3>2. DOMAIN infos \subseteq Dirs
        BY DEF Types
    <3>3. DOMAIN infos' = DOMAIN infos \cup {f}
        BY <2>1, <3>1, LinkedEffect
    <3>4. \A d \in DOMAIN infos' :
             infos'[d] \in [parent : Dirs \cup {None}, next : Dirs \cup {None}]
        BY <2>1, <3>1, LinkedEffect
    <3> QED
        BY <3>2, <3>3, <3>4
  <2> QED
      BY <1>3, <2>2 DEF Types, Visits
<1> QED
    BY <1>1, <1>2, <1>3, Steps

\* A folder that is visited now was not visited before.
LEMMA VisitsNew ==
  ASSUME Types, StackShaped, InfosExact, NEW f \in Dirs, Visits(f),
         Depth \in Nat \ {0}
  PROVE  /\ Up[f] = Here.dir /\ f \in Folders(Here.dir)
         /\ f \notin DOMAIN infos /\ f \notin listed /\ f # Top
         /\ Here.parent_fi = IF Here.dir = Top THEN None ELSE Here.dir
         /\ Here = stack[Depth] /\ Here \in Frames
         /\ DOMAIN infos' = DOMAIN infos \cup {f}
<1>1. Depth \in 1..Depth /\ Here = stack[Depth]
    BY DEF Here
<1>2. f \in stack[Depth].todo /\ Shaped(Depth)
    BY <1>1 DEF Visits, StackShaped
<1>3. f \notin DOMAIN infos
    BY <1>1, <1>2 DEF InfosExact, Pending
<1>4. stack # <<>>
    BY EmptySeq DEF Depth
<1>5. Here \in Frames
    BY <1>4, HereIsFrame
<1>6. DOMAIN infos' = DOMAIN infos \cup {f}
    BY <1>5, LinkedEffect DEF Visits, Frames
<1> QED
    BY <1>1, <1>2, <1>3, <1>5, <1>6, TopIsNoDir DEF Shaped, Folders, InfosExact

\* The frames.
LEMMA ShapedStep == Types /\ StackShaped /\ InfosExact /\ [Next]_vars
                    => StackShaped'
<1> SUFFICES ASSUME Types, StackShaped, InfosExact, [Next]_vars,
                    NEW i \in 1..Depth'
             PROVE  Shaped(i)'
    BY DEF StackShaped
<1>1. CASE UNCHANGED quiet
    BY <1>1 DEF quiet, StackShaped, Shaped, Depth
<1>2. CASE Depth \in Nat \ {0} /\ Here \in Frames /\ Selects
  <2>1. CASE i = Depth
      BY <1>2, <2>1 DEF Selects, StackShaped, Shaped, Here, Frames
  <2>2. CASE i \in 1..(Depth - 1)
      BY <1>2, <2>2 DEF Selects, BelowSame, StackShaped, Shaped
  <2> QED
      BY <1>2, <2>1, <2>2 DEF Selects
<1>3. CASE Depth \in Nat \ {0} /\ Here \in Frames /\ Lists
  <2>1. CASE i = Depth
    <3>1. Shaped(Depth) /\ Here = stack[Depth]
        BY <1>3, <2>1 DEF StackShaped, Here, Lists
    <3>2. /\ stack'[Depth].dir = Here.dir /\ stack'[Depth].at = "loop"
          /\ stack'[Depth].parent_fi = Here.parent_fi
          /\ stack'[Depth].todo = Folders(current)
        BY <1>3 DEF Lists, Frames
    <3>3. Here.dir = current
        BY <1>3, <3>1 DEF Lists, Shaped
    <3> QED
        BY <1>3, <2>1, <3>1, <3>2, <3>3 DEF Lists, Shaped
  <2>2. CASE i \in 1..(Depth - 1)
      BY <1>3, <2>2 DEF Lists, BelowSame, StackShaped, Shaped
  <2> QED
      BY <1>3, <2>1, <2>2 DEF Lists
<1>4. CASE Depth \in Nat \ {0} /\ Leaves
    BY <1>4 DEF Leaves, BelowSame, StackShaped, Shaped
<1>5. ASSUME Depth \in Nat \ {0}, NEW f \in Dirs, Visits(f)
      PROVE  Shaped(i)'
  <2>1. CASE i = Depth + 1
    <3>1. /\ stack'[i] = Frame(f, f) /\ Depth' = i /\ listed' = listed
          /\ f \notin listed /\ f # Top /\ f \in DOMAIN infos'
        BY <1>5, <2>1, VisitsNew DEF Visits
    <3> QED
        BY <3>1 DEF Shaped, Frame
  <2>2. CASE i = Depth
    <3>1. Shaped(Depth) /\ Here.at = "loop"
        BY <1>5, <2>2 DEF StackShaped, Visits
    <3>2. /\ Here = stack[Depth] /\ Here \in Frames /\ listed' = listed
          /\ DOMAIN infos' = DOMAIN infos \cup {f}
        BY <1>5, VisitsNew DEF Visits
    <3>3. /\ stack'[i].dir = Here.dir /\ stack'[i].at = "loop"
          /\ stack'[i].parent_fi = Here.parent_fi
          /\ stack'[i].todo = Here.todo \ {f}
        BY <1>5, <2>2, <3>1, <3>2 DEF Visits, Frames
    <3> QED
        BY <2>2, <3>1, <3>2, <3>3 DEF Shaped
  <2>3. CASE i \in 1..(Depth - 1)
    <3>1. /\ Shaped(i) /\ i # Depth /\ stack'[i] = stack[i]
          /\ listed' = listed /\ current' = current
        BY <1>5, <2>3 DEF Visits, BelowSame, StackShaped
    <3>2. DOMAIN infos' = DOMAIN infos \cup {f}
        BY <1>5, VisitsNew
    <3> QED
        BY <3>1, <3>2 DEF Shaped
  <2> QED
      BY <1>5, <2>1, <2>2, <2>3 DEF Visits
<1> QED
    BY <1>1, <1>2, <1>3, <1>4, <1>5, Steps

\* Selecting and listing leave the frames where they are.
LEMMA SameDirs ==
  ASSUME Depth \in Nat \ {0}, Here \in Frames, Selects \/ Lists
  PROVE  Depth' = Depth /\ \A i \in 1..Depth : stack'[i].dir = stack[i].dir
<1>1. Depth' = Depth /\ \A i \in 1..(Depth - 1) : stack'[i] = stack[i]
    BY DEF Selects, Lists, BelowSame
<1>2. stack'[Depth].dir = stack[Depth].dir
    BY DEF Selects, Lists, Here, Frames
<1> QED
    BY <1>1, <1>2

\* Visiting a folder adds its directory to those of the frames.
LEMMA VisitsDirs ==
  ASSUME Types, StackShaped, InfosExact, NEW f \in Dirs, Visits(f),
         Depth \in Nat \ {0}
  PROVE  /\ Depth' = Depth + 1 /\ stack'[Depth + 1].dir = f
         /\ \A i \in 1..Depth : stack'[i].dir = stack[i].dir
<1>1. /\ Depth' = Depth + 1
      /\ \A i \in 1..(Depth - 1) : stack'[i] = stack[i]
      /\ stack'[Depth + 1].dir = f
    BY DEF Visits, BelowSame, Frame
<1>2. Here = stack[Depth] /\ Here \in Frames
    BY VisitsNew
<1>3. stack'[Depth].dir = stack[Depth].dir
    BY <1>2 DEF Visits, Frames
<1> QED
    BY <1>1, <1>3

\* A directory that is visited has no info yet, those on the stack have one.
LEMMA DistinctStep == Types /\ StackShaped /\ DirsDistinct /\ InfosExact
                      /\ [Next]_vars => DirsDistinct'
<1> SUFFICES ASSUME Types, StackShaped, DirsDistinct, InfosExact, [Next]_vars
             PROVE  DirsDistinct'
    OBVIOUS
<1>1. CASE UNCHANGED quiet
    BY <1>1 DEF quiet, DirsDistinct, Depth
<1>2. CASE Depth \in Nat \ {0} /\ Here \in Frames /\ (Selects \/ Lists)
  <2>1. Depth' = Depth /\ \A i \in 1..Depth : stack'[i].dir = stack[i].dir
      BY <1>2, SameDirs
  <2> QED
      BY <2>1 DEF DirsDistinct
<1>3. CASE Depth \in Nat \ {0} /\ Leaves
    BY <1>3 DEF Leaves, BelowSame, DirsDistinct
<1>4. ASSUME Depth \in Nat \ {0}, NEW f \in Dirs, Visits(f)
      PROVE  DirsDistinct'
  <2>1. /\ Depth' = Depth + 1 /\ stack'[Depth + 1].dir = f
        /\ \A i \in 1..Depth : stack'[i].dir = stack[i].dir
      BY <1>4, VisitsDirs
  <2>2. \A i \in 1..Depth : stack[i].dir # f
      BY <1>4, VisitsNew DEF StackShaped, Shaped
  <2> QED
      BY <1>4, <2>1, <2>2 DEF DirsDistinct
<1> QED
    BY <1>2, <1>1, <1>3, <1>4, Steps

\* Listing a directory adds its folders to what is pending; visiting one of
\* them gives it an info instead.
LEMMA InfosStep == Types /\ StackShaped /\ DirsDistinct /\ InfosExact
                   /\ [Next]_vars => InfosExact'
<1> SUFFICES ASSUME Types, StackShaped, DirsDistinct, InfosExact, [Next]_vars
             PROVE  InfosExact'
    OBVIOUS
<1>1. CASE UNCHANGED quiet
    BY <1>1 DEF quiet, InfosExact, Pending, Depth
<1>2. CASE Depth \in Nat \ {0} /\ Here \in Frames /\ Selects
  <2>1. /\ Depth' = Depth /\ UNCHANGED <<infos, table, listed>>
        /\ \A i \in 1..(Depth - 1) : stack'[i] = stack[i]
        /\ stack'[Depth].todo = stack[Depth].todo
      BY <1>2 DEF Selects, BelowSame, Here, Frames
  <2>2. \A f : Pending(f)' <=> Pending(f)
      BY <1>2, <2>1 DEF Pending
  <2> QED
      BY <2>1, <2>2 DEF InfosExact
<1>3. CASE Depth \in Nat \ {0} /\ Here \in Frames /\ Lists
  <2> DEFINE dir == Here.dir
  <2>1. /\ Shaped(Depth) /\ Here = stack[Depth]
        /\ dir = current /\ dir \in DOMAIN infos \cup {Top}
        /\ dir \notin listed /\ Here.todo = {}
      BY <1>3 DEF StackShaped, Shaped, Here, Lists
  <2>2. /\ Depth' = Depth /\ UNCHANGED <<infos, table>>
        /\ listed' = listed \cup {dir}
        /\ \A i \in 1..(Depth - 1) : stack'[i] = stack[i]
        /\ stack'[Depth].todo = Folders(dir)
      BY <1>3, <2>1 DEF Lists, BelowSame, Frames
  <2>3. \A f : Pending(f)' <=> Pending(f) \/ f \in Folders(dir)
      BY <1>3, <2>1, <2>2 DEF Pending
  <2>4. ASSUME NEW f \in Dirs
        PROVE  f \in DOMAIN infos
               <=> f \notin Skipped /\ Up[f] \in listed' /\ ~Pending(f)'
    <3>1. CASE Up[f] = dir
        BY <2>1, <2>3, <3>1 DEF InfosExact, Folders
    <3>2. CASE Up[f] # dir
        BY <2>2, <2>3, <3>2 DEF InfosExact, Folders
    <3> QED
        BY <3>1, <3>2
  <2> QED
      BY <2>1, <2>2, <2>4 DEF InfosExact
<1>4. CASE Depth \in Nat \ {0} /\ Leaves
  <2>1. /\ Depth' = Depth - 1 /\ UNCHANGED <<infos, table, listed>>
        /\ \A i \in 1..(Depth - 1) : stack'[i] = stack[i]
        /\ stack[Depth].todo = {}
      BY <1>4 DEF Leaves, BelowSame, Here
  <2>2. \A f : Pending(f)' <=> Pending(f)
      BY <1>4, <2>1 DEF Pending
  <2> QED
      BY <2>1, <2>2 DEF InfosExact
<1>5. ASSUME Depth \in Nat \ {0}, NEW f \in Dirs, Visits(f)
      PROVE  InfosExact'
  <2>1. /\ Up[f] = Here.dir /\ f \in Folders(Here.dir) /\ f \notin DOMAIN infos
        /\ Here = stack[Depth] /\ Here \in Frames /\ f \in Here.todo
        /\ DOMAIN infos' = DOMAIN infos \cup {f}
        /\ table' = table \cup {f} /\ listed' = listed
      BY <1>5, VisitsNew DEF Visits
  <2>2. Shaped(Depth) /\ Here.at = "loop"
      BY <1>5 DEF StackShaped, Visits
  <2>3. Up[f] \in listed /\ f \notin Skipped
      BY <2>1, <2>2 DEF Shaped, Folders
  <2>4. /\ Depth' = Depth + 1
        /\ \A i \in 1..(Depth - 1) : stack'[i] = stack[i]
        /\ stack'[Depth].todo = stack[Depth].todo \ {f}
        /\ stack'[Depth + 1].todo = {}
      BY <1>5, <2>1 DEF Visits, BelowSame, Frame, Frames
  <2>5. \A i \in 1..(Depth - 1) : f \notin stack[i].todo
    <3> SUFFICES ASSUME NEW i \in 1..(Depth - 1), f \in stack[i].todo
                 PROVE  FALSE
        OBVIOUS
    <3>1. i \in 1..Depth /\ Depth \in 1..Depth /\ i # Depth
        BY <1>5
    <3>2. Up[f] = stack[i].dir
        BY <3>1 DEF StackShaped, Shaped, Folders
    <3> QED
        BY <2>1, <3>1, <3>2 DEF DirsDistinct
  <2>6. \A g : Pending(g)' <=> Pending(g) /\ g # f
    <3> TAKE g
    <3>1. ASSUME Pending(g)' PROVE Pending(g) /\ g # f
      <4>1. PICK i \in 1..(Depth + 1) : g \in stack'[i].todo
          BY <2>4, <3>1 DEF Pending
      <4>2. i \in 1..Depth
          BY <1>5, <2>4, <4>1
      <4>3. g \in stack[i].todo /\ g # f
          BY <1>5, <2>4, <2>5, <4>1, <4>2
      <4> QED
          BY <4>2, <4>3 DEF Pending
    <3>2. ASSUME Pending(g), g # f PROVE Pending(g)'
      <4>1. PICK i \in 1..Depth : g \in stack[i].todo
          BY <3>2 DEF Pending
      <4>2. g \in stack'[i].todo /\ i \in 1..(Depth + 1)
          BY <1>5, <2>4, <3>2, <4>1
      <4> QED
          BY <2>4, <4>2 DEF Pending
    <3> QED
        BY <3>1, <3>2
  <2> QED
      BY <2>1, <2>3, <2>6 DEF InfosExact
<1> QED
    BY <1>1, <1>2, <1>3, <1>4, <1>5, Steps

\* The infos of one directory are made by its frame, with the info of the
\* directory as parent.
LEMMA ParentStep == Types /\ StackShaped /\ InfosExact /\ ParentIsDirectory
                    /\ [Next]_vars => ParentIsDirectory'
<1> SUFFICES ASSUME Types, StackShaped, InfosExact, ParentIsDirectory,
                    [Next]_vars
             PROVE  ParentIsDirectory'
    OBVIOUS
<1>1. CASE UNCHANGED quiet \/ Selects \/ Lists \/ Leaves
    BY <1>1 DEF quiet, Selects, Lists, Leaves, ParentIsDirectory
<1>2. ASSUME Depth \in Nat \ {0}, NEW f \in Dirs, Visits(f)
      PROVE  ParentIsDirectory'
  <2>1. /\ Up[f] = Here.dir /\ Here \in Frames
        /\ Here.parent_fi = IF Here.dir = Top THEN None ELSE Here.dir
        /\ infos' = Linked(f, Here.parent_fi, Here.fi)
      BY <1>2, VisitsNew DEF Visits
  <2>2. Here.parent_fi \in Dirs \cup {None}
      BY <2>1 DEF Frames
  <2>3. /\ DOMAIN infos' = DOMAIN infos \cup {f}
        /\ infos'[f] = [parent |-> Here.parent_fi, next |-> None]
        /\ \A d \in DOMAIN infos \ {f} : infos'[d].parent = infos[d].parent
      BY <2>1, <2>2, LinkedEffect
  <2>4. infos'[f].parent = Here.parent_fi
      BY <2>3
  <2> QED
      BY <2>1, <2>3, <2>4 DEF ParentIsDirectory
<1> QED
    BY <1>1, <1>2, Steps

----------------------------------------------------------------------------
(* The chains of siblings.                                                 *)

\* A directory of which nothing was visited has the empty chain.
LEMMA EmptyChain ==
  ASSUME NEW S, S = {}
  PROVE  <<>> \in SetToSeqs(S)
<1>1. Cardinality(S) = 0
    BY FS_EmptySet
<1> QED
    BY <1>1 DEF SetToSeqs

\* A chain is a sequence.
LEMMA ChainIsSeq ==
  ASSUME NEW S, IsFiniteSet(S), NEW chain \in SetToSeqs(S)
  PROVE  /\ chain \in Seq(S) /\ Len(chain) = Cardinality(S)
         /\ DOMAIN chain = 1..Len(chain) /\ Len(chain) \in Nat
         /\ \A i, j \in 1..Len(chain) : i # j => chain[i] # chain[j]
<1>1. Cardinality(S) \in Nat
    BY FS_CardinalityType
<1>2. /\ chain \in [1..Cardinality(S) -> S]
      /\ \A i, j \in 1..Cardinality(S) : i # j => chain[i] # chain[j]
    BY DEF SetToSeqs
<1>3. chain \in Seq(S)
    BY <1>1, <1>2, SeqDef
<1>4. DOMAIN chain = 1..Len(chain) /\ Len(chain) \in Nat
    BY <1>3, LenProperties
<1>5. Len(chain) = Cardinality(S)
    BY <1>1, <1>2, <1>4
<1> QED
    BY <1>2, <1>3, <1>4, <1>5

\* One more member goes to the end.
LEMMA LongerChain ==
  ASSUME NEW S, IsFiniteSet(S), NEW f, f \notin S, NEW chain \in SetToSeqs(S)
  PROVE  /\ Append(chain, f) \in SetToSeqs(S \cup {f})
         /\ Len(Append(chain, f)) = Len(chain) + 1
         /\ \A i \in 1..Len(chain) : Append(chain, f)[i] = chain[i]
         /\ Append(chain, f)[Len(chain) + 1] = f
<1> DEFINE longer == Append(chain, f)
           n == Len(chain)
<1>1. /\ chain \in Seq(S) /\ n = Cardinality(S) /\ n \in Nat
      /\ \A i \in 1..n : chain[i] \in S
      /\ \A i, j \in 1..n : i # j => chain[i] # chain[j]
    BY ChainIsSeq, ElementOfSeq
<1>2. chain \in Seq(S \cup {f})
    BY <1>1, SeqMonotonic
<1>3. /\ longer \in Seq(S \cup {f}) /\ Len(longer) = n + 1
      /\ \A i \in 1..n : longer[i] = chain[i]
      /\ longer[n + 1] = f
    BY <1>2
<1>4. longer \in [1..(n + 1) -> S \cup {f}]
    BY <1>3, LenProperties
<1>5. Cardinality(S \cup {f}) = n + 1
    BY <1>1, FS_AddElement
<1>6. \A i, j \in 1..(n + 1) : i # j => longer[i] # longer[j]
  <2> SUFFICES ASSUME NEW i \in 1..(n + 1), NEW j \in 1..(n + 1), i # j
               PROVE  longer[i] # longer[j]
      OBVIOUS
  <2>1. CASE i = n + 1 \/ j = n + 1
      BY <1>1, <1>3, <2>1
  <2>2. CASE i \in 1..n /\ j \in 1..n
      BY <1>1, <1>3, <2>2
  <2> QED
      BY <1>1, <2>1, <2>2
<1> HIDE DEF longer, n
<1>7. longer \in SetToSeqs(S \cup {f})
    BY <1>4, <1>5, <1>6 DEF SetToSeqs
<1> QED
    BY <1>3, <1>7 DEF longer, n

\* What visiting folder f of directory dir does to what was seen of dir, and of
\* the other directories.
LEMMA VisitsSeen ==
  ASSUME Types, StackShaped, InfosExact, LastsKept, Depth \in Nat \ {0},
         NEW f \in Dirs, Visits(f), NEW dir \in Dirs \cup {Top}, dir = Here.dir
  PROVE  /\ Seen(dir)' = Seen(dir) \cup {f} /\ f \notin Seen(dir)
         /\ infos'[f].next = None
         /\ LastInfo(Depth)
         /\ \A g \in Seen(dir) :
               infos'[g].next = IF g = Here.fi THEN f ELSE infos[g].next
         /\ \A d : d # dir =>
               /\ Seen(d)' = Seen(d)
               /\ \A g \in Seen(d) : infos'[g].next = infos[g].next
<1>1. /\ Up[f] = dir /\ f \in Folders(dir) /\ f \notin DOMAIN infos
      /\ Here = stack[Depth] /\ Here \in Frames
      /\ infos' = Linked(f, Here.parent_fi, Here.fi)
    BY VisitsNew DEF Visits
<1>2. Here.parent_fi \in Dirs \cup {None}
    BY <1>1 DEF Frames
<1>3. DOMAIN infos' = DOMAIN infos \cup {f}
    BY VisitsNew
<1>4. /\ infos'[f].next = None
      /\ \A d \in DOMAIN infos \ {f} :
            infos'[d].next = IF d = Here.fi THEN f ELSE infos[d].next
  <2>1. infos' = Linked(f, Here.parent_fi, Here.fi)
      BY <1>1
  <2>2. infos'[f] = [parent |-> Here.parent_fi, next |-> None]
      BY <1>2, <2>1, LinkedEffect
  <2>3. ASSUME NEW d \in DOMAIN infos \ {f}
        PROVE  infos'[d].next = IF d = Here.fi THEN f ELSE infos[d].next
    <3>1. infos[d] \in [parent : Dirs \cup {None}, next : Dirs \cup {None}]
        BY DEF Types
    <3>2. infos'[d] = IF d = Here.fi THEN [infos[d] EXCEPT !.next = f]
                      ELSE infos[d]
        BY <2>1 DEF Linked
    <3> QED
        BY <3>1, <3>2
  <2> QED
      BY <2>2, <2>3
<1>5. LastInfo(Depth)
  <2>1. Depth \in 1..Depth
      OBVIOUS
  <2> QED
      BY <1>1, <2>1 DEF LastsKept, Visits
<1>6. Seen(dir)' = Seen(dir) \cup {f}
    BY <1>1, <1>3 DEF Seen
<1>7. ASSUME NEW d, d # dir
      PROVE  /\ Seen(d)' = Seen(d)
             /\ \A g \in Seen(d) : infos'[g].next = infos[g].next
  <2>1. f \notin Folders(d)
      BY <1>1, <1>7 DEF Folders
  <2>2. \A g \in Seen(d) : g \in DOMAIN infos \ {f} /\ g \in Dirs /\ Up[g] = d
      BY <1>1 DEF Seen, Folders
  <2>3. Here.fi = None \/ Up[Here.fi] = dir
      BY <1>1, <1>5 DEF LastInfo, Seen, Folders
  <2>4. \A g \in Seen(d) : g # Here.fi
      BY <1>7, <2>2, <2>3, TopIsNoDir
  <2> QED
      BY <1>3, <1>4, <2>1, <2>2, <2>4 DEF Seen
<1>8. \A g \in Seen(dir) :
         infos'[g].next = IF g = Here.fi THEN f ELSE infos[g].next
    BY <1>1, <1>4 DEF Seen
<1> QED
    BY <1>1, <1>4, <1>5, <1>6, <1>7, <1>8 DEF Seen

\* The fi of a frame stays the last of its chain while other directories are
\* visited.
LEMMA LastsStep == Types /\ StackShaped /\ DirsDistinct /\ InfosExact
                   /\ LastsKept /\ [Next]_vars => LastsKept'
<1> SUFFICES ASSUME Types, StackShaped, DirsDistinct, InfosExact, LastsKept,
                    [Next]_vars
             PROVE  LastsKept'
    OBVIOUS
<1>1. CASE UNCHANGED quiet
    BY <1>1 DEF quiet, LastsKept, LastInfo, Seen, Depth
<1>2. CASE Depth \in Nat \ {0} /\ Here \in Frames /\ Selects
  <2>1. /\ Depth' = Depth /\ infos' = infos /\ stack'[Depth].at = "list"
        /\ \A i \in 1..(Depth - 1) : stack'[i] = stack[i]
      BY <1>2 DEF Selects, BelowSame, Frames
  <2> QED
      BY <1>2, <2>1 DEF LastsKept, LastInfo, Seen
<1>3. CASE Depth \in Nat \ {0} /\ Here \in Frames /\ Lists
  <2>1. /\ Shaped(Depth) /\ Here = stack[Depth] /\ Here.at = "list"
      BY <1>3 DEF StackShaped, Here, Lists
  <2>2. /\ Depth' = Depth /\ infos' = infos
        /\ stack'[Depth].fi = None /\ stack'[Depth].dir = Here.dir
        /\ \A i \in 1..(Depth - 1) : stack'[i] = stack[i]
      BY <1>3, <2>1 DEF Lists, BelowSame, Shaped, Frames
  <2>3. Folders(Here.dir) \cap DOMAIN infos = {}
      BY <2>1 DEF Shaped, InfosExact, Folders
  <2>4. LastInfo(Depth)'
      BY <2>2, <2>3 DEF LastInfo, Seen
  <2>5. \A i \in 1..(Depth - 1) : stack[i].at = "loop" => LastInfo(i)'
      BY <1>3, <2>2 DEF LastsKept, LastInfo, Seen
  <2> QED
      BY <1>3, <2>2, <2>4, <2>5 DEF LastsKept
<1>4. CASE Depth \in Nat \ {0} /\ Leaves
    BY <1>4 DEF Leaves, BelowSame, LastsKept, LastInfo, Seen
<1>5. ASSUME Depth \in Nat \ {0}, NEW f \in Dirs, Visits(f)
      PROVE  LastsKept'
  <2>1. /\ Here = stack[Depth] /\ Here \in Frames
        /\ f \in Folders(Here.dir)
      BY <1>5, VisitsNew
  <2>2. PICK dir \in Dirs \cup {Top} : dir = Here.dir
      BY <2>1 DEF Frames
  <2>3. /\ Depth' = Depth + 1 /\ stack'[Depth + 1].at = "select"
        /\ stack'[Depth].fi = f /\ stack'[Depth].dir = dir
        /\ \A i \in 1..(Depth - 1) : stack'[i] = stack[i]
      BY <1>5, <2>1, <2>2 DEF Visits, BelowSame, Frame, Frames
  <2>4. PICK k \in Nat : k = Depth
      BY <1>5
  <2>5. LastInfo(k)'
    <3>1. f \in Seen(dir)' /\ infos'[f].next = None
        BY <1>5, <2>2, VisitsSeen
    <3>2. f # None
        BY TopIsNoDir
    <3>3. /\ stack'[k].fi = f /\ stack'[k].dir = dir
          /\ f \in Folders(dir) \cap DOMAIN infos'
        BY <2>3, <2>4, <3>1 DEF Seen
    <3> QED
        BY <3>1, <3>2, <3>3 DEF LastInfo, Seen
  <2>6. ASSUME NEW i \in 1..(Depth - 1), stack[i].at = "loop"
        PROVE  LastInfo(i)'
    <3>1. /\ i \in 1..Depth /\ Depth \in 1..Depth /\ i # Depth
          /\ stack'[i] = stack[i]
        BY <1>5, <2>3
    <3>2. LastInfo(i)
        BY <2>6, <3>1 DEF LastsKept
    <3>3. PICK d : d = stack[i].dir
        OBVIOUS
    <3>4. d # dir
        BY <2>1, <2>2, <3>1, <3>3 DEF DirsDistinct
    <3>5. /\ Seen(d)' = Seen(d)
          /\ \A g \in Seen(d) : infos'[g].next = infos[g].next
        BY <1>5, <2>2, <3>4, VisitsSeen
    <3> QED
        BY <3>1, <3>2, <3>3, <3>5 DEF LastInfo, Seen
  <2>7. ASSUME NEW i \in 1..(k + 1), stack'[i].at = "loop"
        PROVE  LastInfo(i)'
    <3>1. CASE i = k
        BY <2>5, <3>1
    <3>2. CASE i \in 1..(k - 1)
        BY <2>3, <2>4, <2>6, <2>7, <3>2
    <3>3. i # k + 1
        BY <2>3, <2>4, <2>7
    <3> QED
        BY <2>4, <3>1, <3>2, <3>3
  <2> QED
      BY <2>3, <2>4, <2>7 DEF LastsKept
<1> QED
    BY <1>1, <1>2, <1>3, <1>4, <1>5, Steps

\* A folder that is visited goes to the end of the chain of its directory.
LEMMA ChainGrows ==
  ASSUME Types, StackShaped, InfosExact, LastsKept, Depth \in Nat \ {0},
         NEW f \in Dirs, Visits(f), NEW dir \in Dirs \cup {Top}, dir = Here.dir,
         NEW chain \in SetToSeqs(Seen(dir)), Chained(dir, chain)
  PROVE  \E longer \in SetToSeqs(Seen(dir)') : Chained(dir, longer)'
<1> DEFINE longer == Append(chain, f)
           n == Len(chain)
<1>1. IsFiniteSet(Seen(dir))
    BY DirsAreFinite, FS_Subset DEF Seen, Folders
<1>2. /\ DOMAIN chain = 1..n /\ n \in Nat /\ n = Cardinality(Seen(dir))
      /\ \A i \in 1..n : chain[i] \in Seen(dir)
      /\ \A i, j \in 1..n : i # j => chain[i] # chain[j]
      /\ chain \in Seq(Seen(dir))
    BY <1>1, ChainIsSeq, ElementOfSeq
<1>3. /\ Seen(dir)' = Seen(dir) \cup {f} /\ f \notin Seen(dir)
      /\ infos'[f].next = None
      /\ LastInfo(Depth)
      /\ \A g \in Seen(dir) :
            infos'[g].next = IF g = Here.fi THEN f ELSE infos[g].next
    BY VisitsSeen
<1>4. /\ longer \in SetToSeqs(Seen(dir)') /\ Len(longer) = n + 1
      /\ \A i \in 1..n : longer[i] = chain[i]
      /\ longer[n + 1] = f
    BY <1>1, <1>3, LongerChain
<1>5. DOMAIN longer = 1..(n + 1)
  <2>1. IsFiniteSet(Seen(dir) \cup {f})
      BY <1>1, FS_AddElement
  <2> QED
      BY <1>3, <1>4, <2>1, ChainIsSeq
<1>6. /\ Here = stack[Depth]
      /\ Here.parent_fi = IF dir = Top THEN None ELSE dir
      /\ fi' = IF Here.fi = None /\ Here.parent_fi = None THEN f ELSE fi
    BY VisitsNew DEF Visits
<1> HIDE DEF longer, n
\* The info before it is the last of the chain so far.
<1>7. IF n = 0 THEN Here.fi = None ELSE Here.fi = chain[n] /\ Here.fi # None
  <2>1. CASE n = 0
    <3>1. Seen(dir) = {}
        BY <1>1, <1>2, <2>1, FS_EmptySet
    <3> QED
        BY <1>3, <1>6, <2>1, <3>1 DEF LastInfo
  <2>2. CASE n # 0
    <3>1. Here.fi # None /\ Here.fi \in Seen(dir) /\ infos[Here.fi].next = None
        BY <1>2, <1>3, <1>6, <2>2 DEF LastInfo
    <3>2. PICK k \in 1..n : chain[k] = Here.fi
        BY <1>2, <3>1 DEF Chained
    <3>3. infos[chain[k]].next = IF k < n THEN chain[k + 1] ELSE None
        BY <1>2 DEF Chained, n
    <3>4. k < n => chain[k + 1] # None
        BY <1>2, TopIsNoDir DEF Seen, Folders
    <3>5. k = n
        BY <1>2, <3>1, <3>2, <3>3, <3>4
    <3> QED
        BY <2>2, <3>1, <3>2, <3>5
  <2> QED
      BY <2>1, <2>2
<1>8. \A g \in Seen(dir)' : \E i \in DOMAIN longer : longer[i] = g
  <2> SUFFICES ASSUME NEW g \in Seen(dir) \cup {f}
               PROVE  \E i \in 1..(n + 1) : longer[i] = g
      BY <1>3, <1>5
  <2>1. CASE g = f
      BY <1>2, <1>4, <2>1
  <2>2. CASE g \in Seen(dir)
    <3>1. PICK i \in 1..n : chain[i] = g
        BY <1>2, <2>2 DEF Chained
    <3> QED
        BY <1>2, <1>4, <3>1
  <2> QED
      BY <2>1, <2>2
<1>9. \A i \in DOMAIN longer :
         infos'[longer[i]].next = IF i < Len(longer) THEN longer[i + 1] ELSE None
  <2> SUFFICES ASSUME NEW i \in 1..(n + 1)
               PROVE  infos'[longer[i]].next
                      = IF i < n + 1 THEN longer[i + 1] ELSE None
      BY <1>4, <1>5
  <2>1. CASE i = n + 1
      BY <1>2, <1>3, <1>4, <2>1
  <2>2. CASE i = n /\ n # 0
      BY <1>2, <1>3, <1>4, <1>7, <2>2
  <2>3. CASE i \in 1..(n - 1)
    <3>1. i \in 1..n /\ n \in 1..n /\ i + 1 \in 1..n /\ i < n
        BY <1>2, <2>3
    <3>2. chain[i] # Here.fi
        BY <1>2, <1>7, <3>1
    <3>3. infos[chain[i]].next = chain[i + 1]
        BY <1>2, <3>1 DEF Chained, n
    <3> QED
        BY <1>2, <1>3, <1>4, <3>1, <3>2, <3>3
  <2> QED
      BY <1>2, <2>1, <2>2, <2>3
<1>10. dir = Top /\ longer # <<>> => fi' = longer[1]
  <2> SUFFICES ASSUME dir = Top
               PROVE  fi' = longer[1]
      OBVIOUS
  <2>1. CASE n = 0
      BY <1>4, <1>6, <1>7, <2>1
  <2>2. CASE n # 0
    <3>1. chain # <<>> /\ fi = chain[1]
        BY <1>2, <2>2, EmptySeq DEF Chained, n
    <3> QED
        BY <1>2, <1>4, <1>6, <1>7, <2>2, <3>1
  <2> QED
      BY <2>1, <2>2
<1>11. Chained(dir, longer)'
    BY <1>8, <1>9, <1>10 DEF Chained
<1> QED
    BY <1>4, <1>11

\* Every listed directory keeps its chain.
LEMMA ChainsStep == Types /\ StackShaped /\ InfosExact /\ LastsKept
                    /\ AllChained /\ [Next]_vars => AllChained'
<1> SUFFICES ASSUME Types, StackShaped, InfosExact, LastsKept, AllChained,
                    [Next]_vars
             PROVE  AllChained'
    OBVIOUS
<1>1. CASE UNCHANGED quiet \/ Selects \/ Leaves
  <2>1. UNCHANGED <<fi, infos, listed>>
      BY <1>1 DEF quiet, Selects, Leaves
  <2> QED
      BY <2>1 DEF AllChained, Chained, Seen
<1>2. CASE Depth \in Nat \ {0} /\ Lists
  <2>1. /\ Shaped(Depth) /\ Here = stack[Depth] /\ Here.at = "list"
      BY <1>2 DEF StackShaped, Here, Lists
  <2>2. UNCHANGED <<fi, infos>> /\ listed' = listed \cup {Here.dir}
      BY <1>2 DEF Lists
  <2>3. ASSUME NEW d \in listed'
        PROVE  \E chain \in SetToSeqs(Seen(d)) : Chained(d, chain)
    <3>1. CASE d \in listed
        BY <3>1 DEF AllChained
    <3>2. CASE d = Here.dir
      <4>1. Seen(d) = {}
          BY <2>1, <3>2 DEF Shaped, InfosExact, Folders, Seen
      <4>2. Chained(d, <<>>)
          BY <4>1 DEF Chained
      <4> QED
          BY <4>1, <4>2, EmptyChain
    <3> QED
        BY <2>2, <3>1, <3>2
  <2> QED
      BY <2>2, <2>3 DEF AllChained, Chained, Seen
<1>3. ASSUME Depth \in Nat \ {0}, NEW f \in Dirs, Visits(f)
      PROVE  AllChained'
  <2>1. /\ Here = stack[Depth] /\ Here \in Frames /\ listed' = listed
        /\ Here.parent_fi = IF Here.dir = Top THEN None ELSE Here.dir
        /\ fi' = IF Here.fi = None /\ Here.parent_fi = None THEN f ELSE fi
      BY <1>3, VisitsNew DEF Visits
  <2>2. PICK dir \in Dirs \cup {Top} : dir = Here.dir
      BY <2>1 DEF Frames
  <2>3. ASSUME NEW d \in listed
        PROVE  \E chain \in SetToSeqs(Seen(d)') : Chained(d, chain)'
    <3>1. PICK chain \in SetToSeqs(Seen(d)) : Chained(d, chain)
        BY DEF AllChained
    <3>2. CASE d = dir
        BY <1>3, <2>2, <3>1, <3>2, ChainGrows
    <3>3. CASE d # dir
      <4>1. /\ Seen(d)' = Seen(d)
            /\ \A g \in Seen(d) : infos'[g].next = infos[g].next
          BY <1>3, <2>2, <3>3, VisitsSeen
      <4>2. d = Top => fi' = fi
          BY <2>1, <2>2, <3>3, TopIsNoDir
      <4>3. \A i \in DOMAIN chain : chain[i] \in Seen(d)
          BY <3>1 DEF SetToSeqs
      <4>4. Chained(d, chain)'
          BY <3>1, <4>1, <4>2, <4>3 DEF Chained
      <4> QED
          BY <3>1, <4>1, <4>4
    <3> QED
        BY <3>2, <3>3
  <2> QED
      BY <2>1, <2>3 DEF AllChained
<1> QED
    BY <1>1, <1>2, <1>3, Steps


\* The types of the error and the proxy.
LEMMA ErrorTypesStep == ErrorTypes /\ [Next]_vars => ErrorTypes'
<1> SUFFICES ASSUME ErrorTypes, [Next]_vars PROVE ErrorTypes'
    OBVIOUS
<1>1. CASE SelectDir \/ SelectFails \/ ListFolders \/ ListFails
    BY <1>1 DEF ErrorTypes, SelectDir, SelectFails, ListFolders, ListFails,
       PhoneRefuses
<1>2. CASE \/ \E f \in Dirs : FirstFolder(f) \/ NextFolder(f)
           \/ EndOfListing \/ NotAsked \/ NoProxy \/ Disconnect
    BY <1>2 DEF ErrorTypes, FirstFolder, NextFolder, EndOfListing, NotAsked,
       NoProxy, Disconnect
<1>3. CASE UNCHANGED vars
    BY <1>3 DEF ErrorTypes, vars
<1> QED
    BY <1>1, <1>2, <1>3 DEF Next, Rest

\* What was lost, and what the error tells of it.
LEMMA LossesStep ==
    /\ Types /\ StackShaped /\ DirsDistinct /\ InfosExact /\ ErrorTypes /\ LossesExact
    /\ [Next]_vars
    => LossesExact'
<1> SUFFICES ASSUME Types, StackShaped, DirsDistinct, InfosExact, ErrorTypes,
                    LossesExact, [Next]_vars
             PROVE  LossesExact'
    OBVIOUS
<1>1. CASE UNCHANGED quiet
    BY <1>1 DEF quiet, LossesExact, Unlisted, Visited, Depth
<1>2. ASSUME Depth \in Nat \ {0}
      PROVE  /\ Here = stack[Depth] /\ Shaped(Depth)
             /\ \A i \in 1..(Depth - 1) : stack[i].dir # Here.dir
    BY <1>2 DEF Here, StackShaped, DirsDistinct
<1>3. CASE Depth \in Nat \ {0} /\ Here \in Frames /\ Selects
  <2>1. \A d : Visited(d)' <=> Visited(d)
      BY <1>3, SameDirs DEF Visited
  <2>2. UNCHANGED Unlisted
      BY <1>3 DEF Selects, Unlisted
  <2> QED
      BY <1>3, <2>1, <2>2 DEF Selects, LossesExact
<1>4. CASE Depth \in Nat \ {0} /\ Here \in Frames /\ Lists
  <2>1. \A d : Visited(d)' <=> Visited(d)
      BY <1>4, SameDirs DEF Visited
  <2>2. Unlisted' = Unlisted \ {Here.dir}
      BY <1>4 DEF Lists, Unlisted
  <2>3. Visited(Here.dir)
      BY <1>4 DEF Visited, Here
  <2> QED
      BY <1>4, <2>1, <2>2, <2>3 DEF Lists, LossesExact
<1>5. CASE Depth \in Nat \ {0} /\ Here \in Frames /\ Leaves
  <2>1. UNCHANGED Unlisted
      BY <1>5 DEF Leaves, Unlisted
  <2>2. \A d : Visited(d)' <=> Visited(d) /\ d # Here.dir
    <3>1. Depth' = Depth - 1 /\ \A i \in 1..(Depth - 1) : stack'[i].dir = stack[i].dir
        BY <1>5 DEF Leaves, BelowSame
    <3> QED
        BY <1>2, <1>5, <3>1 DEF Visited
  <2>3. CASE Here.at = "loop" \/ error = "set"
    <3>1. Here.at = "loop" => Here.dir \notin Unlisted
        BY <1>2, <1>5 DEF Shaped, Unlisted
    <3>2. CASE UNCHANGED <<error, refused, gone>>
        BY <2>1, <2>2, <2>3, <3>1, <3>2 DEF LossesExact
    <3>3. CASE /\ Here.at # "loop"
               /\ gone' = gone \cup {Here.dir} /\ UNCHANGED <<error, refused>>
      <4>1. Here.dir \in Unlisted
          BY <1>2, <1>5, <3>3 DEF Shaped, Unlisted
      <4> QED
          BY <2>1, <2>2, <3>3, <4>1 DEF LossesExact
    <3> QED
        BY <1>5, <2>3, <3>2, <3>3 DEF Leaves, Counted
  <2>4. CASE Here.at # "loop" /\ error # "set"
    <3>1. Here.dir \in Unlisted
        BY <1>2, <1>5, <2>4 DEF Shaped, Unlisted
    <3>2. CASE gone' = gone \cup {Here.dir} /\ UNCHANGED <<error, refused>>
        BY <2>1, <2>2, <3>1, <3>2 DEF LossesExact
    <3>3. CASE /\ error' = IF error = "NULL" THEN "NULL" ELSE "set"
               /\ refused' = refused \cup {Here.dir} /\ UNCHANGED gone
      <4>1. error' \in {"NULL", "set"} /\ (error' = "set" => refused = {})
          BY <2>4, <3>3 DEF LossesExact, ErrorTypes
      <4> QED
          BY <2>1, <2>2, <2>4, <3>1, <3>3, <4>1 DEF LossesExact
    <3> QED
        BY <1>5, <2>4, <3>2, <3>3 DEF Leaves, Counted
  <2> QED
      BY <2>3, <2>4
<1>6. ASSUME Depth \in Nat \ {0}, Here \in Frames, NEW f \in Dirs, Visits(f)
      PROVE  LossesExact'
  <2>1. \A d : Visited(d)' <=> Visited(d) \/ d = f
    <3>1. /\ Depth' = Depth + 1 /\ stack'[Depth + 1].dir = f
          /\ \A i \in 1..Depth : stack'[i].dir = stack[i].dir
        BY <1>6, VisitsDirs
    <3> QED
        BY <1>6, <3>1 DEF Visited
  <2>2. Unlisted' = Unlisted \cup {f} /\ f \notin Unlisted
    <3>1. /\ f \notin DOMAIN infos /\ f \notin listed /\ f # Top
          /\ DOMAIN infos' = DOMAIN infos \cup {f}
        BY <1>6, VisitsNew
    <3>2. listed' = listed
        BY <1>6 DEF Visits
    <3> QED
        BY <3>1, <3>2 DEF Unlisted
  <2> QED
      BY <1>6, <2>1, <2>2 DEF Visits, LossesExact
<1> QED
    BY <1>1, <1>3, <1>4, <1>5, <1>6, Steps

----------------------------------------------------------------------------
(* The invariant holds, and what follows from it.                          *)

\* Before the first step.
LEMMA InitInv == Init => IInv
<1> SUFFICES ASSUME Init
             PROVE  IInv
    OBVIOUS
<1> DEFINE frame == Frame(Top, None)
<1>1. frame \in Frames
    BY DEF Frame, Frames
<1>2. stack = <<frame>>
    BY DEF Init
<1>3. /\ frame.dir = Top /\ frame.at = "select" /\ frame.todo = {}
      /\ frame.fi = None /\ frame.parent_fi = None
    BY DEF Frame
<1> HIDE DEF frame
<1>4. stack \in Seq(Frames) /\ Depth = 1 /\ stack[1] = frame
    BY <1>1, <1>2 DEF Depth
<1>5. \A i \in 1..Depth : i = 1
    BY <1>4
<1>6. /\ fi = None /\ DOMAIN infos = {} /\ table = {} /\ current = Top
      /\ listed = {}
      /\ refused = {} /\ gone = {} /\ error \in {"NULL", "unset"} /\ proxy \in BOOLEAN
    BY DEF Init
<1>7. Types
    BY <1>4, <1>6 DEF Types
<1>8. StackShaped
    BY <1>3, <1>4, <1>5, <1>6 DEF StackShaped, Shaped
<1>9. DirsDistinct
    BY <1>5 DEF DirsDistinct
<1>10. InfosExact
    BY <1>6 DEF InfosExact
<1>11. ParentIsDirectory
    BY <1>6 DEF ParentIsDirectory
<1>12. AllChained
    BY <1>6 DEF AllChained
<1>13. LastsKept
  <2>1. \A i \in 1..Depth : stack[i].at # "loop"
      BY <1>3, <1>4, <1>5
  <2> QED
      BY <2>1 DEF LastsKept
<1>14. ErrorTypes
    BY <1>6 DEF ErrorTypes
<1>15. LossesExact
  <2>1. Unlisted = {Top} /\ 1 \in 1..Depth
      BY <1>4, <1>6 DEF Unlisted
  <2> QED
      BY <1>3, <1>4, <1>6, <2>1 DEF LossesExact, Visited
<1> QED
    BY <1>7, <1>8, <1>9, <1>10, <1>11, <1>12, <1>13, <1>14, <1>15 DEF IInv

\* The invariant is inductive.
LEMMA NextInv == IInv /\ [Next]_vars => IInv'
BY TypesStep, ShapedStep, DistinctStep, InfosStep, ParentStep, ChainsStep,
   LastsStep, ErrorTypesStep, LossesStep DEF IInv

\* The inductive invariant holds in every state of every walk
\* (create_folder_hierarchy, camel-map-store.c 378-467).
THEOREM Invariance == Spec => []IInv
BY InitInv, NextInv, PTL DEF Spec

\* Type correctness of the walk over the tree.
THEOREM TypeCorrect == Spec => []TypeOK
<1>1. IInv => TypeOK
  <2> SUFFICES ASSUME Types, ErrorTypes, LossesExact
               PROVE  TypeOK
      BY DEF IInv
  <2>1. \A i \in 1..Depth : stack[i] \in Frames
      BY ElementOfSeq DEF Types, Depth
  <2> QED
      BY <2>1 DEF TypeOK, Types, Frames, ErrorTypes, LossesExact, Unlisted
<1> QED
    BY <1>1, Invariance, PTL

\* The recursion shares fi with its caller and still gives every info the info
\* of the directory it is in as its parent (camel-map-store.c 430-446).
THEOREM ParentIsDirectoryHolds == Spec => []ParentIsDirectory
<1>1. IInv => ParentIsDirectory
    BY DEF IInv
<1> QED
    BY <1>1, Invariance, PTL

\* When the walk is over every folder of a listed directory was visited.
LEMMA AllVisited ==
  ASSUME InfosExact, Over, NEW d \in listed
  PROVE  Seen(d) = Folders(d)
<1>1. Depth = 0
    BY EmptySeq DEF Over, Depth
<1>2. \A f : ~Pending(f)
    BY <1>1 DEF Pending
<1> QED
    BY <1>2 DEF Seen, Folders, InfosExact

\* When the walk is over the stack is empty.
LEMMA NoFrames == Over => 1..Depth = {}
BY EmptySeq DEF Over, Depth

\* Every folder of every directory that was listed has an info, and for a caller
\* without a place for an error a directory costs its own subtree only (the
\* early returns of create_folder_hierarchy, camel-map-store.c 395-409).
THEOREM FailureIsLocalHolds == Spec => []FailureIsLocal
<1>1. IInv => FailureIsLocal
  <2> SUFFICES ASSUME Types, InfosExact, LossesExact, Over
               PROVE  FailureIsLocal
      BY DEF IInv, FailureIsLocal
  <2>1. \A f \in DOMAIN infos : Up[f] \in listed /\ f \in Folders(Up[f])
      BY DEF Types, InfosExact, Folders
  <2>2. \A d \in listed : Folders(d) \subseteq DOMAIN infos
      BY AllVisited DEF Seen
  <2>3. DOMAIN infos = UNION {Folders(d) : d \in listed}
      BY <2>1, <2>2
  <2>4. error = "NULL" => Unlisted = refused \cup gone
      BY NoFrames DEF LossesExact, Visited
  <2> QED
      BY <2>3, <2>4 DEF FailureIsLocal, InfosExact
<1> QED
    BY <1>1, Invariance, PTL

\* A caller with a place for an error is told of the first directory that the
\* phone refused, and of nothing else; without an error only directories reached
\* without a proxy are missing (the error that the recursion shares,
\* camel-map-store.c 395, 404 and 457).
THEOREM ErrorTellsLossHolds == Spec => []ErrorTellsLoss
<1>1. IInv => ErrorTellsLoss
  <2> SUFFICES ASSUME LossesExact, Over
               PROVE  ErrorTellsLoss
      BY DEF IInv, ErrorTellsLoss
  <2>1. error = "unset" => refused = {} /\ Unlisted = gone
      BY NoFrames DEF LossesExact, Visited
  <2>2. error = "set" => \E d \in Unlisted : refused = {d}
      BY DEF LossesExact
  <2> QED
      BY <2>1, <2>2 DEF ErrorTellsLoss
<1> QED
    BY <1>1, Invariance, PTL

\* In the end the infos of each listed directory are one chain of siblings,
\* and the info that is returned is the first of those at the top
\* (camel-map-store.c 430-446 and 496).
THEOREM SiblingsChainedHolds == Spec => []SiblingsChained
<1>1. IInv => SiblingsChained
  <2> SUFFICES ASSUME InfosExact, AllChained, Over, NEW d \in listed
               PROVE  \E chain \in SetToSeqs(Folders(d)) : Chained(d, chain)
      BY DEF IInv, SiblingsChained, Chained
  <2> QED
      BY AllVisited DEF AllChained
<1> QED
    BY <1>1, Invariance, PTL

=============================================================================
