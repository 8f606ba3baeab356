------------------------- MODULE RemoteUrlPatternProofs -------------------------
(* Proofs about remote URL patterns and the origin check (RemoteUrlPattern) *)
(* for every value of the constants.                                        *)
EXTENDS RemoteUrlPattern, WellFoundedInduction, TLAPS

USE UrlPatternAssumption

(* The inductive invariant: what Build and Load computed, from the texts,  *)
(* and the last context as the classification of its request, which is    *)
(* local until the patterns are loaded.                                     *)
IInv ==
  /\ \E n \in Nat : authored \in [1..n -> Texts]
  /\ authored \in UNION {[1..n -> Texts] : n \in 0..MaxPatterns}
  /\ phase \in {"author", "built", "runtime", "failed", "panicked"}
  /\ phase \in {"author", "failed"} => built = <<>> /\ embedded = <<>>
  /\ phase # "runtime" => runtime = <<>>
  /\ phase \in {"built", "runtime", "panicked"} =>
       /\ \A k \in DOMAIN authored : ParsesOk(authored[k])
       /\ built = [k \in DOMAIN authored |-> FromStr(authored[k])]
       /\ embedded = [k \in DOMAIN authored |-> authored[k]]
  /\ phase = "runtime" => runtime = built
  /\ phase # "runtime" => context.local = TRUE
  /\ context.ctx = Classify(runtime, context.shown, context.local)

-----------------------------------------------------------------------------
(* Matching.                                                               *)

(* from_str's widenings are exactly the reference's wild components: the *)
(* compiled pattern tests a URL true iff the reference matches the text.   *)
LEMMA TestIsReference ==
  ASSUME NEW t \in Texts, NEW u
  PROVE  Test(FromStr(t), u) <=> RefMatches(t, u)
<1>1. ASSUME NEW c \in Components
      PROVE  MatchComp(Normalised(t)[c], u[c]) <=> Wild(t, c) \/ MatchComp(t[c], u[c])
  <2>1. Normalised(t)[c] =
          IF c \in {"search", "hash"} THEN WidenedQuery(t[c])
          ELSE IF c = "pathname" THEN WidenedPath(t[c]) ELSE t[c]
    BY DEF Normalised, Components
  <2>2. MatchComp("*", u[c])
    BY DEF MatchComp
  <2>. QED
    BY <2>1, <2>2 DEF Wild, WidenedQuery, WidenedPath, Components
<1>. QED
  BY <1>1 DEF Test, RefMatches, FromStr

(* A non-empty set of naturals has a least element.                       *)
LEMMA LeastExists ==
  ASSUME NEW S \in SUBSET Nat, S # {}
  PROVE  \E k \in S : \A k2 \in S : ~(k2 < k)
<1> DEFINE R == OpToRel(<, Nat)
<1>1. PICK k \in S : \A k2 \in S : ~(<<k2, k>> \in R)
  BY NatLessThanWellFounded, WFMin
<1>. QED
  BY <1>1 DEF OpToRel

(* When some pattern tests a URL true, a first one in declaration order  *)
(* does: the one Classify chooses.                                          *)
LEMMA FirstMatchExists ==
  ASSUME NEW n \in Nat, NEW pats, DOMAIN pats = 1..n,
         NEW u, \E k \in 1..n : Test(pats[k], u)
  PROVE  \E k \in 1..n : /\ Test(pats[k], u)
                         /\ \A k2 \in 1..(k - 1) : ~Test(pats[k2], u)
<1> DEFINE S == {k \in 1..n : Test(pats[k], u)}
<1>1. S \in SUBSET Nat /\ S # {}
  OBVIOUS
<1>2. PICK k \in S : \A k2 \in S : ~(k2 < k)
  BY <1>1, LeastExists
<1>. QED
  BY <1>2

-----------------------------------------------------------------------------
(* The invariant.                                                          *)

LEMMA InitIInv == Init => IInv
<1> SUFFICES ASSUME Init PROVE IInv
  OBVIOUS
<1>1. \E n \in Nat : authored \in [1..n -> Texts]
  BY DEF Init
<1>. QED
  BY <1>1 DEF Init, IInv, Classify

LEMMA NextIInv == IInv /\ [Next]_vars => IInv'
<1> SUFFICES ASSUME IInv, [Next]_vars PROVE IInv'
  OBVIOUS
<1>1. CASE BuildFails
  BY <1>1 DEF BuildFails, IInv
<1>2. CASE Build
  <2>1. \A k \in DOMAIN authored : AsStr(FromStr(authored[k])) = authored[k]
    BY DEF AsStr, FromStr
  <2>2. embedded' = [k \in DOMAIN authored |-> authored[k]]
    BY <1>2, <2>1 DEF Build
  <2>. QED
    BY <1>2, <2>2 DEF Build, IInv
<1>3. CASE Load
  <2>1. context.local = TRUE
    BY <1>3 DEF Load, IInv
  <2>2. CASE \A k \in DOMAIN embedded : ParsesOk(embedded[k])
    <3>1. runtime' = built /\ phase' = "runtime"
      BY <1>3, <2>2 DEF Load, IInv
    <3>2. Classify(runtime', context.shown, TRUE) = Classify(runtime, context.shown, TRUE)
      BY DEF Classify
    <3>. QED
      BY <1>3, <2>1, <3>1, <3>2 DEF Load, IInv
  <2>3. CASE ~\A k \in DOMAIN embedded : ParsesOk(embedded[k])
    BY <1>3, <2>1, <2>3 DEF Load, IInv
  <2>. QED
    BY <2>2, <2>3
<1>4. CASE Request
  BY <1>4 DEF Request, IInv
<1>5. CASE UNCHANGED vars
  BY <1>5 DEF vars, IInv
<1>. QED
  BY <1>1, <1>2, <1>3, <1>4, <1>5 DEF Next

-----------------------------------------------------------------------------
(* The properties.                                                         *)

(* In the running application, the patterns are those from_str built from *)
(* the authored texts.                                                     *)
LEMMA RuntimePatterns ==
  ASSUME IInv, phase = "runtime"
  PROVE  \E n \in Nat :
           /\ authored \in [1..n -> Texts]
           /\ runtime = [k \in 1..n |-> FromStr(authored[k])]
           /\ runtime \in [1..n -> {FromStr(t) : t \in Texts}]
<1>1. PICK n \in Nat : authored \in [1..n -> Texts]
  BY DEF IInv
<1>2. runtime = [k \in 1..n |-> FromStr(authored[k])]
  BY <1>1 DEF IInv
<1>. QED
  BY <1>1, <1>2

LEMMA IInvFailClosed == IInv => FailClosed
<1> SUFFICES ASSUME IInv, phase = "runtime" PROVE FailClosed
  BY DEF FailClosed
<1>1. PICK n \in Nat :
        /\ authored \in [1..n -> Texts]
        /\ runtime = [k \in 1..n |-> FromStr(authored[k])]
        /\ runtime \in [1..n -> {FromStr(t) : t \in Texts}]
  BY RuntimePatterns
<1> DEFINE u == context.shown
<1>2. context.ctx = Classify(runtime, u, context.local)
  BY DEF IInv
<1>3. \A k \in 1..n : Test(runtime[k], u) <=> RefMatches(authored[k], u)
  BY <1>1, TestIsReference
<1>4. ~context.local => context.ctx.kind # "local"
  BY <1>2 DEF Classify
<1>5. context.ctx.kind = "remote" =>
        \E k \in DOMAIN authored :
          /\ context.ctx.url.text = authored[k]
          /\ RefMatches(authored[k], u)
          /\ \A k2 \in 1..(k - 1) : ~RefMatches(authored[k2], u)
  <2> SUFFICES ASSUME context.ctx.kind = "remote"
               PROVE  \E k \in DOMAIN authored :
                        /\ context.ctx.url.text = authored[k]
                        /\ RefMatches(authored[k], u)
                        /\ \A k2 \in 1..(k - 1) : ~RefMatches(authored[k2], u)
    OBVIOUS
  <2>1. ~context.local /\ \E k \in DOMAIN runtime : Test(runtime[k], u)
    BY <1>2 DEF Classify
  <2> DEFINE K == CHOOSE k \in DOMAIN runtime :
                    /\ Test(runtime[k], u)
                    /\ \A k2 \in 1..(k - 1) : ~Test(runtime[k2], u)
  <2>2. context.ctx.url = runtime[K]
    BY <1>2, <2>1 DEF Classify
  <2>3. /\ K \in 1..n
        /\ Test(runtime[K], u)
        /\ \A k2 \in 1..(K - 1) : ~Test(runtime[k2], u)
    <3>1. DOMAIN runtime = 1..n
      BY <1>1
    <3>2. \E k \in 1..n : /\ Test(runtime[k], u)
                          /\ \A k2 \in 1..(k - 1) : ~Test(runtime[k2], u)
      BY <2>1, <3>1, FirstMatchExists
    <3>. QED
      BY <3>1, <3>2
  <2>4. context.ctx.url.text = authored[K]
    BY <1>1, <2>2, <2>3 DEF FromStr
  <2>5. \A k2 \in 1..(K - 1) : k2 \in 1..n
    BY <2>3
  <2>. QED
    BY <1>1, <1>3, <2>3, <2>4, <2>5
<1>6. context.ctx.kind = "none" =>
        \A k \in DOMAIN authored : ~RefMatches(authored[k], u)
  <2>1. context.ctx.kind = "none" => ~\E k \in DOMAIN runtime : Test(runtime[k], u)
    BY <1>2 DEF Classify
  <2>. QED
    BY <1>1, <1>3, <2>1
<1>. QED
  BY <1>4, <1>5, <1>6 DEF FailClosed

(* from_str yields a RemoteUrlPattern whose components come from the     *)
(* text or are the wildcard "*".                                           *)
LEMMA FromStrPattern ==
  ASSUME NEW t \in Texts, ParsesOk(t)
  PROVE  FromStr(t) \in Pattern
<1>1. \A c \in Components : Normalised(t)[c] \in Range(t) \cup {"*"}
  BY DEF Normalised, WidenedQuery, WidenedPath, Range, Components
<1>2. Normalised(t) \in [Components -> (UNION {Range(x) : x \in Texts}) \cup {"*"}]
  BY <1>1 DEF Normalised
<1>. QED
  BY <1>2 DEF FromStr, Pattern

(* The patterns built from a sequence of parsed texts form a sequence of  *)
(* RemoteUrlPatterns.                                                      *)
LEMMA FromStrSeq ==
  ASSUME NEW n \in Nat, NEW a \in [1..n -> Texts], \A k \in 1..n : ParsesOk(a[k])
  PROVE  [k \in 1..n |-> FromStr(a[k])] \in Seq(Pattern)
<1>1. \A k \in 1..n : FromStr(a[k]) \in Pattern
  BY FromStrPattern
<1>. QED
  BY <1>1

(* Every state of the build and of the running application is well typed *)
(* (TypeOK): in particular what from_str built and what start-up parsed   *)
(* are RemoteUrlPatterns, and each request's context is Local, Remote or  *)
(* none.                                                                   *)
THEOREM TypeOKHolds == Spec => []TypeOK
<1>1. IInv => TypeOK
  <2> SUFFICES ASSUME IInv PROVE TypeOK
    OBVIOUS
  <2>1. PICK n \in Nat : authored \in [1..n -> Texts]
    BY DEF IInv
  <2>2. phase \in {"built", "runtime", "panicked"} =>
          /\ built \in Seq(Pattern)
          /\ embedded \in Seq(Texts)
    <3> SUFFICES ASSUME phase \in {"built", "runtime", "panicked"}
                 PROVE  built \in Seq(Pattern) /\ embedded \in Seq(Texts)
      OBVIOUS
    <3>1. /\ \A k \in 1..n : ParsesOk(authored[k])
          /\ built = [k \in 1..n |-> FromStr(authored[k])]
          /\ embedded = [k \in 1..n |-> authored[k]]
      BY <2>1 DEF IInv
    <3>2. built \in Seq(Pattern)
      BY <2>1, <3>1, FromStrSeq
    <3>3. embedded \in [1..n -> Texts]
      BY <2>1, <3>1
    <3>. QED
      BY <3>2, <3>3
  <2>3. phase = "runtime" => runtime \in Seq(Pattern)
    BY <2>2 DEF IInv
  <2>4. context.ctx.kind \in {"local", "remote", "none"}
    BY DEF IInv, Classify
  <2>5. <<>> \in Seq(Pattern) /\ <<>> \in Seq(Texts)
    OBVIOUS
  <2>6. built \in Seq(Pattern) /\ embedded \in Seq(Texts) /\ runtime \in Seq(Pattern)
    BY <2>2, <2>3, <2>5 DEF IInv
  <2>. QED
    BY <2>4, <2>6 DEF IInv, TypeOK
<1>. QED
  BY <1>1, InitIInv, NextIInv, PTL DEF Spec

(* The origin check fails closed and in declaration order: a request from *)
(* remote content gets Remote{p} only if p's authored text matches its URL *)
(* under the spec's rules and no earlier one does, never on a matcher     *)
(* error, no context when none matches, and never Local.                   *)
THEOREM FailClosedHolds == Spec => []FailClosed
BY InitIInv, NextIInv, IInvFailClosed, PTL DEF Spec


=============================================================================
