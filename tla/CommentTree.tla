---------------------------- MODULE CommentTree ----------------------------
(***************************************************************************)
(* The comments of a post: Reddit sends them as one flat sequence, each    *)
(* with its depth.  The service nests them, and the page that shows them   *)
(* is a sequence of events that opens and closes comments and replies.     *)
(*                                                                         *)
(* The state is the sequence Reddit sent, one tree longer with each step.  *)
(***************************************************************************)
EXTENDS Naturals, SequencesExt

CONSTANTS
  Trees,      \* what Reddit sends: [depth, parent, more, name, flags]
  MaxLength,  \* bound of the sequence
  None

VARIABLE forest

Init == forest = << >>
Next == Len(forest) < MaxLength /\ \E t \in Trees : forest' = Append(forest, t)
-----------------------------------------------------------------------------
(* item: a comment, or the rest of a thread, which says where to go on: by *)
(* a cursor at the top, which it must have, and by its parent below.       *)
Legal(tree) ==
  /\ tree.depth # None
  /\ tree.more # None /\ tree.parent = None => tree.more = "cursor"
  /\ tree.more = None => tree.name = "t1"

Body(tree) ==
  IF "deleted" \in tree.flags THEN "[deleted]"
  ELSE IF "takedown" \in tree.flags THEN "[ Removed by Reddit ]"
  ELSE IF "removed" \in tree.flags THEN "[removed]" ELSE "content"

Cursor(tree) == IF tree.more # None /\ tree.parent = None THEN tree.more ELSE None
Parent(tree) == IF tree.parent = None THEN "t3" ELSE tree.parent

(* more_view: without a cursor it leads to the thread of its parent, which *)
(* has to be a comment.                                                    *)
Link(tree) ==
  IF Cursor(tree) # None THEN "more comments"
  ELSE IF Parent(tree) = "t1" THEN "continue thread" ELSE None

(* nest: the comments still open, innermost last, and those that are done. *)
Node(i) == [at |-> i, replies |-> << >>]

Close(s) ==
  LET node == Last(s.open).node
      outer == Front(s.open)
  IN IF outer = << >>
       THEN [open |-> outer, top |-> Append(s.top, node)]
       ELSE [open |-> [outer EXCEPT ![Len(outer)].node.replies = Append(@, node)], top |-> s.top]

\* Mutant: a sibling is taken for a reply.
EndsBefore(level, depth) == level > depth
Ends(level, depth) == level >= depth

RECURSIVE CloseTo(_, _)
CloseTo(s, depth) ==
  IF s.open # << >> /\ Ends(Last(s.open).level, depth) THEN CloseTo(Close(s), depth) ELSE s

Add(s, i) ==
  LET closed == CloseTo(s, forest[i].depth)
  IN [closed EXCEPT !.open = Append(@, [level |-> forest[i].depth, node |-> Node(i)])]

Nested == CloseTo(FoldLeft(Add, [open |-> << >>, top |-> << >>], [i \in DOMAIN forest |-> i]), 0).top

(* append_comments: what the template is filled with.  What follows below  *)
(* the rest of a thread has no place on the page.                          *)
Event(kind, i) == [kind |-> kind, at |-> i]

RECURSIVE Events(_)
Events(nodes) ==
  LET replies(n) ==
        IF n.replies = << >> THEN << >>
        ELSE <<Event("open replies", 0)>> \o Events(n.replies) \o <<Event("close replies", 0)>>
      events(n) ==
        <<Event("open", n.at)>> \o (IF forest[n.at].more = None THEN replies(n) ELSE << >>) \o <<Event("close", n.at)>>
  IN FlattenSeq([i \in DOMAIN nodes |-> events(nodes[i])])

Answer == IF \A i \in DOMAIN forest : Legal(forest[i]) THEN Events(Nested) ELSE None
-----------------------------------------------------------------------------
(* The comment i answers is the last one before it at a lesser depth.      *)
ParentsOf(i) == {j \in 1 .. i - 1 : forest[j].depth < forest[i].depth}
AnswersTo(i) == IF ParentsOf(i) = {} THEN 0 ELSE CHOOSE j \in ParentsOf(i) : \A k \in ParentsOf(i) : k <= j

(* As Reddit sends them: nothing follows below the rest of a thread.       *)
EndsThreads == \A i \in DOMAIN forest : AnswersTo(i) # 0 => forest[AnswersTo(i)].more = None

Opens == SelectSeq(Answer, LAMBDA e : e.kind = "open")
Count(n, kind) == Len(SelectSeq(SubSeq(Answer, 1, n), LAMBDA e : e.kind = kind))
IsOpen(n, i) == (\E m \in 1 .. n : Answer[m] = Event("open", i)) /\ ~\E m \in 1 .. n : Answer[m] = Event("close", i)

(* Every comment Reddit sent is on the page, once and in its order; it is  *)
(* opened among the replies of the comment it answers and of no other, and *)
(* what is opened is closed.                                               *)
CommentsKeepTheirPlace ==
  Answer # None /\ EndsThreads =>
    /\ [n \in DOMAIN Opens |-> Opens[n].at] = [i \in DOMAIN forest |-> i]
    /\ \A n \in DOMAIN Answer : Answer[n].kind = "open" =>
         LET i == Answer[n].at
             around == {j \in 1 .. i - 1 : IsOpen(n, j)}
         IN /\ IF AnswersTo(i) = 0 THEN around = {} ELSE AnswersTo(i) \in around /\ \A j \in around : j <= AnswersTo(i)
            /\ Count(n, "open replies") - Count(n, "close replies") = Cardinality(around)
    /\ Count(Len(Answer), "open replies") = Count(Len(Answer), "close replies")

(* The rest of a thread leads somewhere, and the text of a comment that    *)
(* was taken down is not shown.                                            *)
MoreLeadsOn ==
  Answer # None =>
    \A i \in DOMAIN forest :
      /\ forest[i].more # None => Link(forest[i]) # None
      /\ forest[i].flags # {} => Body(forest[i]) # "content"

(* The page shows what Reddit sent: nest in graphql.rs, append_comments in *)
(* comments.rs.                                                            *)
CommentsAreShown == CommentsKeepTheirPlace /\ MoreLeadsOn
=============================================================================
