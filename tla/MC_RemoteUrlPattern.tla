------------------------- MODULE MC_RemoteUrlPattern -------------------------
(* A small instance: pattern texts over one host and its subdomain glob,  *)
(* paths "/", "/p", "/*" and left out, queries and fragments given,       *)
(* empty or left out; URLs over two schemes, two hosts and two paths.     *)
EXTENDS RemoteUrlPattern

MCTexts ==
  [protocol : {"http", "*"}, hostname : {"h", "*.h", "["},
   pathname : {Absent, "/", "/p", "/*", "/("},
   search : {Absent, "q"}, hash : {""}]

MCUrls ==
  [protocol : {"http", "https"}, hostname : {"h", "a.h"},
   pathname : {"/", "/p"}, search : {"", "q"}, hash : {""}]

MCMatcherErrors ==
  {[protocol |-> "https", hostname |-> "a.h", pathname |-> "/p",
    search |-> "q", hash |-> ""]}

MCGlobs == [g \in {"/*", "*.h"} |-> IF g = "/*" THEN {"/", "/p"} ELSE {"a.h"}]
=============================================================================
