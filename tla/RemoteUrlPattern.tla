--------------------------- MODULE RemoteUrlPattern ---------------------------
(***************************************************************************)
(* RemoteUrlPattern and ExecutionContext (core/tauri-utils/src/acl/mod.rs) *)
(* over the life of a capability's remote URL patterns: parsed with       *)
(* `from_str` at build time, embedded by `ToTokens` as their original     *)
(* text, parsed again with `.parse().unwrap()` when the application       *)
(* starts, then used to classify the origin of each IPC request.          *)
(*                                                                         *)
(* A pattern text is a record of component texts; a URL a record of      *)
(* component values.  A compiled component is "*", "/*" (any path) or an  *)
(* exact string.  The eight components of urlpattern are reduced to five: *)
(* username, password and port are never normalised and compare and match *)
(* exactly like the hostname.                                              *)
(***************************************************************************)
EXTENDS Naturals, Sequences

CONSTANTS
  Texts,           \* pattern texts an author may write
  Urls,            \* URLs a webview may show
  BadHosts,        \* hostnames parse_constructor_string rejects
  BadPaths,        \* pathnames UrlPattern::parse cannot compile
  MatcherErrors,   \* URLs on which UrlPattern::test returns an error
  Globs,           \* compiled wildcard component -> the values it matches
  MaxPatterns,     \* bound on the number of patterns of a capability
  Absent           \* a component left out of the text (None)

Components == {"protocol", "hostname", "pathname", "search", "hash"}

ASSUME UrlPatternAssumption ==
  /\ \A t \in Texts : DOMAIN t = Components
  /\ \A u \in Urls : DOMAIN u = Components
  /\ MatcherErrors \subseteq Urls
  /\ "*" \notin DOMAIN Globs
  /\ MaxPatterns \in Nat

VARIABLES
  authored,        \* the patterns' texts, in declaration order
  phase,           \* "author", "built", "runtime", "failed" (the build
                   \* aborted) or "panicked" (start-up unwrap panicked)
  built,           \* the RemoteUrlPatterns from_str produced at build time
  embedded,        \* the texts ToTokens wrote into the generated code
  runtime,         \* the RemoteUrlPatterns parsed when the app starts
  context          \* the ExecutionContext of the last request, with the
                   \* URL shown and whether the content was local

vars == <<authored, phase, built, embedded, runtime, context>>

Range(t) == {t[c] : c \in DOMAIN t}

-----------------------------------------------------------------------------
(* from_str                                                                *)

(* `init.x.as_ref().map(|p| p.is_empty()).unwrap_or(true)`: replaced by  *)
(* "*" when absent or empty; the pathname also when it is "/".            *)
WidenedQuery(v) == IF v = Absent \/ v = "" THEN "*" ELSE v

(* Mutant: a pathname "/" kept as the exact root path.                     *)
WidenedPathKeepRoot(v) == IF v = Absent \/ v = "" THEN "*" ELSE v

WidenedPath(v) == IF v = Absent \/ v = "" \/ v = "/" THEN "*" ELSE v

(* The UrlPatternInit after the three replacements.                       *)
Normalised(t) ==
  [t EXCEPT !.search = WidenedQuery(@), !.hash = WidenedQuery(@),
            !.pathname = WidenedPath(@)]

(* `parse_constructor_string(s)?` and `UrlPattern::parse(init)?`.         *)
ParsesOk(t) ==
  /\ t.hostname \notin BadHosts
  /\ Normalised(t).pathname \notin BadPaths

(* `Ok(Self(Arc::new(pattern), s.to_string()))`                           *)
FromStr(t) == [pattern |-> Normalised(t), text |-> t]

(* A compiled component matches a URL component: the full wildcard, an    *)
(* exact text, or a glob such as "/*" or "*.tauri.app".                    *)
MatchComp(pat, v) ==
  \/ pat \in {"*", v}
  \/ pat \in DOMAIN Globs /\ v \in Globs[pat]

(* Mutant: `test(..).unwrap_or(true)`, a matcher error taken as a match.   *)
TestFailOpen(p, u) ==
  IF u \in MatcherErrors THEN TRUE
  ELSE \A c \in Components : MatchComp(p.pattern[c], u[c])

(* `test`: a matcher error is `unwrap_or_default()`, that is false.        *)
Test(p, u) ==
  IF u \in MatcherErrors THEN FALSE
  ELSE \A c \in Components : MatchComp(p.pattern[c], u[c])

(* ToTokens for Remote: `let url = url.as_str(); quote!(#url.parse()..)`.  *)
AsStr(p) == p.text

(* ExecutionContext for a request whose content is local or shows URL u: *)
(* Local for the app's own content, else Remote with the first pattern in *)
(* declaration order that tests true, else no context (denied).           *)
Classify(pats, u, local) ==
  IF local THEN [kind |-> "local"]
  ELSE IF \E k \in DOMAIN pats : Test(pats[k], u)
       THEN [kind |-> "remote",
             url  |-> pats[CHOOSE k \in DOMAIN pats :
                             /\ Test(pats[k], u)
                             /\ \A k2 \in 1..(k - 1) : ~Test(pats[k2], u)]]
       ELSE [kind |-> "none"]

-----------------------------------------------------------------------------
Init ==
  /\ authored \in UNION {[1..n -> Texts] : n \in 0..MaxPatterns}
  /\ phase = "author"
  /\ built = <<>> /\ embedded = <<>> /\ runtime = <<>>
  /\ context = [ctx |-> [kind |-> "local"], shown |-> Absent, local |-> TRUE]

(* Build time: every pattern is parsed; the first error aborts the build. *)
BuildFails ==
  /\ phase = "author"
  /\ \E k \in DOMAIN authored : ~ParsesOk(authored[k])
  /\ phase' = "failed"
  /\ UNCHANGED <<authored, built, embedded, runtime, context>>

(* Mutant: the parse errors ignored, every pattern built and embedded.    *)
BuildUnchecked ==
  /\ phase = "author"
  /\ built' = [k \in DOMAIN authored |-> FromStr(authored[k])]
  /\ embedded' = [k \in DOMAIN authored |-> AsStr(built'[k])]
  /\ phase' = "built"
  /\ UNCHANGED <<authored, runtime, context>>

(* Build time: every pattern parses, and ToTokens embeds each one.         *)
Build ==
  /\ phase = "author"
  /\ \A k \in DOMAIN authored : ParsesOk(authored[k])
  /\ built' = [k \in DOMAIN authored |-> FromStr(authored[k])]
  /\ embedded' = [k \in DOMAIN authored |-> AsStr(built'[k])]
  /\ phase' = "built"
  /\ UNCHANGED <<authored, runtime, context>>

(* Start-up: each embedded text is parsed again with `.parse().unwrap()`; *)
(* an embedded text that does not parse panics the application.            *)
Load ==
  /\ phase = "built"
  /\ IF \A k \in DOMAIN embedded : ParsesOk(embedded[k])
     THEN /\ runtime' = [k \in DOMAIN embedded |-> FromStr(embedded[k])]
          /\ phase' = "runtime"
     ELSE /\ phase' = "panicked"
          /\ UNCHANGED runtime
  /\ UNCHANGED <<authored, built, embedded, context>>

(* An IPC request from a webview showing local content or URL u.          *)
Request ==
  /\ phase = "runtime"
  /\ \E u \in Urls, local \in BOOLEAN :
       context' = [ctx |-> Classify(runtime, u, local), shown |-> u, local |-> local]
  /\ UNCHANGED <<authored, phase, built, embedded, runtime>>

Next == BuildFails \/ Build \/ Load \/ Request

Spec == Init /\ [][Next]_vars

-----------------------------------------------------------------------------
(* Properties.                                                             *)

(* A RemoteUrlPattern exists only for a text both parsers accepted.      *)
Pattern == {p \in [pattern : [Components -> (UNION {Range(t) : t \in Texts}) \cup {"*"}],
                   text : Texts] : ParsesOk(p.text)}

TypeOK ==
  /\ authored \in UNION {[1..n -> Texts] : n \in 0..MaxPatterns}
  /\ phase \in {"author", "built", "runtime", "failed", "panicked"}
  /\ built \in Seq(Pattern) /\ runtime \in Seq(Pattern)
  /\ embedded \in Seq(Texts)
  /\ context.ctx.kind \in {"local", "remote", "none"}

(* Reference, from the spec: a URL is matched by the authored text when   *)
(* each component matches, where a search or hash left out or empty in    *)
(* the text, and a pathname left out, empty or "/", matches anything.     *)
Wild(t, c) ==
  \/ c \in {"search", "hash"} /\ t[c] \in {Absent, ""}
  \/ c = "pathname" /\ t[c] \in {Absent, "", "/"}
RefMatches(t, u) ==
  /\ u \notin MatcherErrors
  /\ \A c \in Components : Wild(t, c) \/ MatchComp(t[c], u[c])

(* The IPC origin check fails closed and in declaration order: a request *)
(* from remote content gets Remote{p} only if the authored text of p     *)
(* matches its URL (never on a matcher error) and no earlier authored    *)
(* pattern does; it gets no context when none matches; and remote content *)
(* is never classified Local.                                              *)
FailClosed ==
  phase = "runtime" =>
    /\ ~context.local => context.ctx.kind # "local"
    /\ context.ctx.kind = "remote" =>
         \E k \in DOMAIN authored :
           /\ context.ctx.url.text = authored[k]
           /\ RefMatches(authored[k], context.shown)
           /\ \A k2 \in 1..(k - 1) : ~RefMatches(authored[k2], context.shown)
    /\ context.ctx.kind = "none" =>
         \A k \in DOMAIN authored : ~RefMatches(authored[k], context.shown)


=============================================================================
