---------------------------- MODULE MCServiceCalls ----------------------------
(***************************************************************************)
(* What a caller of the service may pass and what Reddit may answer: for   *)
(* every rule an argument that keeps it and one that breaks it.            *)
(***************************************************************************)
EXTENDS Naturals, Sequences, TLC

CONSTANT None

Text(length, plain) == [length |-> length, plain |-> plain]
Id(kind, text) == [kind |-> kind, text |-> text]
Query(after, before, limit, geo) == [after |-> after, before |-> before, limit |-> limit, geo |-> geo]

MCScopes ==
  {<<Text(1, TRUE)>>, <<Text(21, TRUE), Text(3, TRUE)>>, <<Text(3, TRUE), Text(0, TRUE)>>,
   <<Text(22, TRUE)>>, <<Text(3, FALSE)>>}

AnyQuery ==
  {Query(None, None, None, None), Query("thing", None, 100, Text(2, TRUE)), Query("revision", None, 1, None),
   Query("thing", "thing", None, None), Query(None, "other", None, None),
   Query(None, None, 101, None), Query(None, None, 0, Text(0, TRUE))}
Plain == {Query(None, None, None, None)}
Ids == {<< >>, <<Id("t3", Text(2, TRUE))>>, <<Id("t1", Text(2, TRUE))>>, <<Id("t3", Text(0, TRUE))>>}

MCInputs ==
  ("listing_query" :> AnyQuery) @@ ("revision_query" :> AnyQuery)
  @@ ("sort" :> {"best", "new"}) @@ ("sr" :> {None} \cup MCScopes) @@ ("names" :> Ids)
  @@ ("article" :> {Text(2, TRUE), Text(2, FALSE)}) @@ ("username" :> {Text(20, TRUE), Text(21, TRUE)})
  @@ ("comment_query" :> [comment : {None, Text(0, TRUE)}, context : {None, 8, 9}, truncate : {None, 51}])
  @@ ("options" :> [comment : {None, Text(3, TRUE)}, context : {None, 1}, truncate : {None}, others : BOOLEAN,
                    sort : {"new", "live"}, limit : {None, 201}, depth : {None, 0}, cursor : {None, 2049}])
  @@ ("children" :> [children : {<< >>, <<Text(2, TRUE)>>, <<Text(2, FALSE)>>},
                     link : {Id("t3", Text(1, TRUE)), Id("t5", Text(1, TRUE))}, id : {None, Text(0, TRUE)}, root : BOOLEAN])
  @@ ("subreddit_query" :> [listing : Plain, text : {0, 1}, id : {None, "uuid", "other"}])
  @@ ("search_query" :> [listing : AnyQuery, text : {0, 512, 513}, category : {None, 6}])
  @@ ("info_query" :> [ids : Ids, names : {<< >>, <<<<Text(0, TRUE)>>>>}, url : {None, "https", "ftp"}])
  @@ ("history_query" :> [listing : Plain, context : {None, 1, 10}])
  @@ ("page_name" :> {<< >>, <<"a", "b">>, <<"a", "..">>})
  @@ ("wiki_query" :> [v : {None, "uuid"}, v2 : {None, "other"}])
  @@ ("q" :> {0, 1, 513})

(* Up to two things, adult or not; Reddit may count them or not.           *)
Children == {<< >>, <<TRUE>>, <<FALSE>>, <<FALSE, TRUE>>, <<TRUE, FALSE>>}
MCListings == {l \in [children : Children, dist : {None, 0, 1, 2}] : l.dist \in {None, Len(l.children)}}

(* Names on a page of search results, one of them twice, and what may be   *)
(* found for them.                                                         *)
MCCards == {<< >>, <<"x">>, <<"y", "x", "y">>}
Comment(name, post, adult) == [name |-> name, post |-> post, adult |-> adult]
Found == {Comment("x", "this", FALSE), Comment("y", "this", FALSE), Comment("y", "this", TRUE), Comment("x", "that", FALSE)}
MCComments == {some \in SUBSET Found : \A c, d \in some : c.name = d.name => c = d}
=============================================================================
