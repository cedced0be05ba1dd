----------------------------- MODULE MCMediaProxy -----------------------------
(***************************************************************************)
(* URLs of every sort the proxy tells apart, and answers that redirect,    *)
(* hold a manifest or neither.                                             *)
(***************************************************************************)
EXTENDS Naturals, Sequences

CONSTANTS Data, Invalid, None

Url(scheme, host, path) ==
  [scheme |-> scheme, user |-> FALSE, port |-> FALSE, host |-> host, path |-> path, fragment |-> FALSE]
Pictures == <<"i", "redd", "it">>
Manifest == Url("https", Pictures, "m3u8")
Elsewhere == Url("https", <<"tube", "com">>, "image")

MCUrls ==
  {Manifest, [Url("http", Pictures, "mpd") EXCEPT !.port = TRUE, !.fragment = TRUE],
   Url("https", <<"redd", "it">>, "image"), Url("https", <<"reddit", "com">>, "gallery"),
   Url("https", <<"localhost">>, "m3u8"), Elsewhere, [Url("https", Pictures, "image") EXCEPT !.user = TRUE]}

MCMediaDomains == {[labels |-> <<"redd", "it">>, subdomains |-> TRUE]}
MCNavigationDomains == {[labels |-> <<"reddit", "com">>, subdomains |-> FALSE]}
MCShortlinkDomains == {[labels |-> <<"redd", "it">>, subdomains |-> FALSE]}

Response(status, location, type, readable, references) ==
  [status |-> status, location |-> location, type |-> type, readable |-> readable, references |-> references]
MCResponses ==
  {Response(302, location, "other", TRUE, << >>) : location \in MCUrls \cup {None, Invalid}}
    \cup {Response(status, None, type, TRUE, references) : status \in {200, 206}, type \in {"mpegurl", "dash", "other"},
            references \in {<< >>, <<Manifest>>, <<Manifest, Data>>, <<Manifest, Elsewhere>>, <<Elsewhere>>, <<Invalid>>}}
    \cup {Response(304, Elsewhere, "other", TRUE, << >>), Response(404, Elsewhere, "mpegurl", TRUE, <<Manifest>>),
          Response(200, None, "dash", FALSE, <<Manifest>>)}
=============================================================================
