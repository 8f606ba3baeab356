----------------------- MODULE IosDeviceSelectionProofs -----------------------
(* Proofs about device_prompt (IosDeviceSelection): which device or       *)
(* simulator is chosen, for lists of any length, any scores and any       *)
(* threshold.                                                              *)
EXTENDS IosDeviceSelection, WellFoundedInduction, TLAPS

USE SelectionAssumption

(* x is what a prompt over `list` may return when it succeeds.            *)
Picked(ok, list, x) == x \in Outcomes(ok, list) \ {Fail}

(* The inductive invariant: the chosen simulator and the returned device *)
(* are what their prompt returned, a simulator is started and returned    *)
(* only once chosen, and the simulators are only reached after the        *)
(* connected prompt failed.                                                 *)
IInv ==
  /\ TypeOK
  /\ pc \in {"connected", "simulator"} => chosen = NoValue
  /\ pc = "start" => chosen # NoValue
  /\ pc # "done" => result = NoValue /\ started = {}
  /\ started # {} => result \in Selection /\ result.kind = "simulator"
  /\ result \in Selection /\ result.kind = "simulator" => result.name = chosen
  /\ chosen # NoValue => Picked(simulatorsOk, simulators, chosen)
  /\ result \in Selection /\ result.kind = "device" =>
       Picked(connectedOk, connected, result.name)
  /\ pc # "connected" /\ ~(result \in Selection /\ result.kind = "device") =>
       Fail \in Outcomes(connectedOk, connected)
  /\ started \subseteq {chosen}


-----------------------------------------------------------------------------
(* The best match of a list.                                               *)

(* A non-empty set of naturals has a least element.                       *)
LEMMA LeastExists ==
  ASSUME NEW S \in SUBSET Nat, S # {}
  PROVE  \E k \in S : \A k2 \in S : ~(k2 < k)
<1> DEFINE R == OpToRel(<, Nat)
<1>1. PICK k \in S : \A k2 \in S : ~(<<k2, k>> \in R)
  BY NatLessThanWellFounded, WFMin
<1>. QED
  BY <1>1 DEF OpToRel

(* Among N >= 1 integers one is the largest: the least prefix without a  *)
(* largest element cannot exist, since extending the largest element of  *)
(* the prefix one shorter by one element keeps a largest one.             *)
LEMMA MaxIndexExists ==
  ASSUME NEW N \in Nat, N >= 1, NEW v \in [1..N -> Int]
  PROVE  \E k \in 1..N : \A j \in 1..N : v[j] <= v[k]
<1> DEFINE HasMax(m) == \E k \in 1..m : \A j \in 1..m : v[j] <= v[k]
           S == {m \in 1..N : ~HasMax(m)}
<1> SUFFICES S = {}
  <2>1. N \in 1..N
    OBVIOUS
  <2>. QED
    BY <2>1 DEF S
<1>1. SUFFICES ASSUME S # {} PROVE FALSE
  OBVIOUS
<1>2. PICK m \in S : \A m2 \in S : ~(m2 < m)
  <2>1. S \in SUBSET Nat
    BY DEF S
  <2>. QED
    BY <1>1, <2>1, LeastExists
<1>3. CASE m = 1
  <2>1. HasMax(1)
    <3>1. \A j \in 1..1 : v[j] <= v[1]
      OBVIOUS
    <3>. QED
      BY <3>1 DEF HasMax
  <2>. QED
    BY <1>2, <1>3, <2>1 DEF S
<1>4. CASE m > 1
  <2>1. HasMax(m - 1)
    <3>1. m \in 1..N /\ m - 1 \in 1..N /\ m - 1 < m
      BY <1>2, <1>4 DEF S
    <3>. QED
      BY <1>2, <3>1 DEF S
  <2>2. PICK k \in 1..(m - 1) : \A j \in 1..(m - 1) : v[j] <= v[k]
    BY <2>1 DEF HasMax
  <2>3. CASE v[m] <= v[k]
    BY <1>2, <2>2, <2>3 DEF HasMax, S
  <2>4. CASE v[k] < v[m]
    BY <1>2, <2>2, <2>4 DEF HasMax, S
  <2>. QED
    BY <1>2, <2>2, <2>3, <2>4
<1>. QED
  BY <1>2, <1>3, <1>4

(* The top score of a non-empty list is an integer that some element has *)
(* and no element exceeds.                                                 *)
LEMMA TopScoreFacts ==
  ASSUME score \in [Names -> Int], NEW s \in Seq(Names), s # <<>>
  PROVE  /\ TopScore(s) \in Int
         /\ \E k \in DOMAIN s : score[s[k]] = TopScore(s)
         /\ \A k \in DOMAIN s : score[s[k]] <= TopScore(s)
<1> DEFINE v == [j \in 1..Len(s) |-> score[s[j]]]
<1>1. Len(s) \in Nat /\ Len(s) >= 1 /\ v \in [1..Len(s) -> Int] /\ DOMAIN s = 1..Len(s)
  OBVIOUS
<1>2. PICK k \in 1..Len(s) : \A j \in 1..Len(s) : v[j] <= v[k]
  BY <1>1, MaxIndexExists
<1>3. \E x \in {score[s[j]] : j \in DOMAIN s} : \A j \in DOMAIN s : score[s[j]] <= x
  BY <1>1, <1>2
<1>4. TopScore(s) \in {score[s[j]] : j \in DOMAIN s}
      /\ \A j \in DOMAIN s : score[s[j]] <= TopScore(s)
  BY <1>3 DEF TopScore
<1>. QED
  BY <1>1, <1>4

(* `.rev()` then `max_by_key` (the last maximum) is the first maximum of  *)
(* the list as listed: Best is FirstBest, an element of the list with the *)
(* top score.                                                              *)
LEMMA BestIsFirstBest ==
  ASSUME score \in [Names -> Int], NEW s \in Seq(Names), s # <<>>
  PROVE  /\ Best(s) = FirstBest(s)
         /\ \E k \in DOMAIN s : Best(s) = s[k]
         /\ score[Best(s)] = TopScore(s)
<1> DEFINE T == TopScore(s)
           L == Len(s)
           r == Reversed(s)
<1>1. /\ T \in Int
      /\ \E k \in DOMAIN s : score[s[k]] = T
      /\ \A k \in DOMAIN s : score[s[k]] <= T
  BY TopScoreFacts
<1>2. /\ L \in Nat /\ L >= 1 /\ DOMAIN s = 1..L
      /\ r \in Seq(Names) /\ r # <<>> /\ DOMAIN r = 1..L
      /\ \A k \in 1..L : r[k] = s[L - k + 1] /\ L - k + 1 \in 1..L
      /\ \A k \in 1..L : s[k] \in Names /\ score[s[k]] \in Int
  BY DEF Reversed
<1>3. TopScore(r) = T
  <2>1. /\ TopScore(r) \in Int
        /\ \E k \in DOMAIN r : score[r[k]] = TopScore(r)
        /\ \A k \in DOMAIN r : score[r[k]] <= TopScore(r)
    BY <1>2, TopScoreFacts
  <2>2. TopScore(r) <= T
    <3>1. PICK kr \in DOMAIN r : score[r[kr]] = TopScore(r)
      BY <2>1
    <3>2. L - kr + 1 \in DOMAIN s /\ r[kr] = s[L - kr + 1]
      BY <1>2, <3>1
    <3>. QED
      BY <1>1, <3>1, <3>2
  <2>3. T <= TopScore(r)
    <3>1. PICK ks \in DOMAIN s : score[s[ks]] = T
      BY <1>1
    <3>2. L - ks + 1 \in DOMAIN r /\ r[L - ks + 1] = s[ks]
      BY <1>2, <3>1
    <3>. QED
      BY <2>1, <3>1, <3>2
  <2>. QED
    BY <1>1, <2>1, <2>2, <2>3
<1>4. PICK k1 \in DOMAIN s : /\ score[s[k1]] = T
                             /\ \A k2 \in DOMAIN s : k2 < k1 => score[s[k2]] < T
  <2> DEFINE K == {k \in 1..L : score[s[k]] = T}
  <2>1. K \in SUBSET Nat /\ K # {}
    BY <1>1, <1>2 DEF K
  <2>2. PICK k1 \in K : \A k2 \in K : ~(k2 < k1)
    BY <2>1, LeastExists
  <2>3. k1 \in 1..L /\ score[s[k1]] = T
    BY <2>2 DEF K
  <2>4. ASSUME NEW k2 \in DOMAIN s, k2 < k1 PROVE score[s[k2]] < T
    <3>1. k2 \notin K
      BY <2>2, <2>4
    <3>2. score[s[k2]] # T
      BY <1>2, <3>1 DEF K
    <3>. QED
      BY <1>1, <1>2, <3>2
  <2>. QED
    BY <1>2, <2>3, <2>4
<1>5. FirstBest(s) = s[k1]
  <2>1. \A k \in DOMAIN s :
          (score[s[k]] = T /\ \A k2 \in DOMAIN s : k2 < k => score[s[k2]] < T)
            => k = k1
    <3> SUFFICES ASSUME NEW k \in DOMAIN s, score[s[k]] = T,
                        \A k2 \in DOMAIN s : k2 < k => score[s[k2]] < T
                 PROVE  k = k1
      OBVIOUS
    <3>1. ~(k < k1)
      BY <1>4
    <3>2. ~(k1 < k)
      BY <1>4
    <3>. QED
      BY <1>2, <3>1, <3>2
  <2>2. (CHOOSE k \in DOMAIN s :
            /\ score[s[k]] = TopScore(s)
            /\ \A k2 \in DOMAIN s : k2 < k => score[s[k2]] < TopScore(s)) = k1
    BY <1>4, <2>1
  <2>. QED
    BY <2>2 DEF FirstBest
<1>6. Best(s) = s[k1]
  <2> DEFINE kr == L - k1 + 1
  <2>1. kr \in DOMAIN r /\ r[kr] = s[k1]
    BY <1>2
  <2>2. \A k2 \in DOMAIN r : k2 > kr => score[r[k2]] < T
    <3> SUFFICES ASSUME NEW k2 \in DOMAIN r, k2 > kr PROVE score[r[k2]] < T
      OBVIOUS
    <3>1. L - k2 + 1 \in DOMAIN s /\ L - k2 + 1 < k1 /\ r[k2] = s[L - k2 + 1]
      <4>1. L \in Nat /\ k2 \in 1..L /\ k1 \in 1..L /\ DOMAIN s = 1..L
        BY <1>2
      <4>2. L - k2 + 1 \in 1..L /\ L - k2 + 1 < k1
        BY <4>1
      <4>3. r[k2] = s[L - k2 + 1]
        BY <1>2, <4>1
      <4>. QED
        BY <4>1, <4>2, <4>3
    <3>. QED
      BY <1>4, <3>1
  <2>3. \A k \in DOMAIN r :
          (score[r[k]] = T /\ \A k2 \in DOMAIN r : k2 > k => score[r[k2]] < T)
            => k = kr
    <3> SUFFICES ASSUME NEW k \in DOMAIN r, score[r[k]] = T,
                        \A k2 \in DOMAIN r : k2 > k => score[r[k2]] < T
                 PROVE  k = kr
      OBVIOUS
    <3>1. ~(k > kr)
      BY <1>1, <2>2
    <3>2. ~(kr > k)
      BY <1>4, <2>1
    <3>. QED
      BY <1>2, <3>1, <3>2
  <2>4. (CHOOSE k \in DOMAIN r :
            /\ score[r[k]] = TopScore(r)
            /\ \A k2 \in DOMAIN r : k2 > k => score[r[k2]] < TopScore(r)) = kr
    BY <1>3, <1>4, <2>1, <2>2, <2>3
  <2>. QED
    BY <2>1, <2>4 DEF Best, MaxByScore
<1>. QED
  BY <1>4, <1>5, <1>6

(* The bounded lists are sequences.                                        *)
LEMMA ListsAreSeqs ==
  ASSUME NEW S
  PROVE  Lists(S) \subseteq Seq(S)
<1> SUFFICES ASSUME NEW x \in Lists(S) PROVE x \in Seq(S)
  OBVIOUS
<1>1. PICK n \in 0..MaxListLen : x \in [1..n -> S]
  BY DEF Lists
<1>. QED
  BY <1>1

(* What a prompt returns on success: an element of its list, which is the *)
(* first best match scoring above the threshold when there is a target.   *)
LEMMA PickedFacts ==
  ASSUME score \in [Names -> Int], NEW S \in SUBSET Names,
         NEW ok, NEW list \in Seq(S), NEW x, Picked(ok, list, x)
  PROVE  /\ x \in S
         /\ ok /\ list # <<>>
         /\ target # NoValue => x = FirstBest(list) /\ Accepts(score[x])
<1>1. ok /\ list # <<>>
  BY DEF Picked, Outcomes
<1>2. CASE target # NoValue
  <2>1. x = Best(list) /\ Accepts(score[x])
    BY <1>1, <1>2 DEF Picked, Outcomes
  <2>2. Best(list) = FirstBest(list) /\ \E k \in DOMAIN list : Best(list) = list[k]
    BY <1>1, BestIsFirstBest
  <2>3. \A k \in DOMAIN list : list[k] \in S
    OBVIOUS
  <2>. QED
    BY <1>1, <1>2, <2>1, <2>2, <2>3
<1>3. CASE target = NoValue
  <2>1. \E k \in DOMAIN list : x = list[k]
    BY <1>1, <1>3 DEF Picked, Outcomes, Range
  <2>2. \A k \in DOMAIN list : list[k] \in S
    OBVIOUS
  <2>. QED
    BY <1>1, <1>3, <2>1, <2>2
<1>. QED
  BY <1>2, <1>3

(* What a prompt may return depends on the target and the scores only.    *)
LEMMA OutcomesUnchanged ==
  ASSUME NEW ok, NEW list, target' = target, score' = score
  PROVE  Outcomes(ok, list)' = Outcomes(ok, list)
BY DEF Outcomes, Best, MaxByScore, TopScore, Reversed, Accepts, Range

-----------------------------------------------------------------------------
(* The invariant.                                                          *)

LEMMA InitIInv == Init => IInv
<1> SUFFICES ASSUME Init PROVE IInv
  OBVIOUS
<1>1. NoValue \notin Selection
  BY OutcomeAssumption DEF Selection
<1>. QED
  BY <1>1 DEF Init, IInv, TypeOK

LEMMA NextIInv == IInv /\ [Next]_vars => IInv'
<1> SUFFICES ASSUME IInv, [Next]_vars PROVE IInv'
  OBVIOUS
<1>0. /\ score \in [Names -> Int]
      /\ NoValue \notin Selection /\ Err \notin Selection
      /\ Fail \notin Names /\ NoValue \notin Names
      /\ connected \in Seq(Devices) /\ simulators \in Seq(Simulators)
  <2>1. Lists(Devices) \subseteq Seq(Devices) /\ Lists(Simulators) \subseteq Seq(Simulators)
    BY ListsAreSeqs
  <2>. QED
    BY <2>1, OutcomeAssumption DEF IInv, TypeOK, Selection, Err, Names
<1>1. CASE ConnectedChosen
  <2>1. PICK d \in Outcomes(connectedOk, connected) \ {Fail} :
          result' = [kind |-> "device", name |-> d]
    BY <1>1 DEF ConnectedChosen
  <2>2. d \in Devices
    BY <1>0, <2>1, PickedFacts DEF Picked, Names
  <2>3. Outcomes(connectedOk, connected)' = Outcomes(connectedOk, connected)
    BY <1>1, OutcomesUnchanged DEF ConnectedChosen
  <2>. QED
    BY <1>1, <1>0, <2>1, <2>2, <2>3 DEF ConnectedChosen, IInv, TypeOK, Selection, Names, Picked
<1>2. CASE ConnectedFailed
  <2>1. Outcomes(connectedOk, connected)' = Outcomes(connectedOk, connected)
    BY <1>2, OutcomesUnchanged DEF ConnectedFailed
  <2>. QED
    BY <1>0, <1>2, <2>1 DEF ConnectedFailed, IInv, TypeOK
<1>3. CASE SimulatorChosen
  <2>1. PICK c \in Outcomes(simulatorsOk, simulators) \ {Fail} : chosen' = c
    BY <1>3 DEF SimulatorChosen
  <2>2. c \in Simulators
    BY <1>0, <2>1, PickedFacts DEF Picked, Names
  <2>3. /\ Outcomes(connectedOk, connected)' = Outcomes(connectedOk, connected)
        /\ Outcomes(simulatorsOk, simulators)' = Outcomes(simulatorsOk, simulators)
    BY <1>3, OutcomesUnchanged DEF SimulatorChosen
  <2>4. c # NoValue
    BY <1>0, <2>2 DEF Names
  <2>. QED
    BY <1>0, <1>3, <2>1, <2>2, <2>3, <2>4 DEF SimulatorChosen, IInv, TypeOK, Picked
<1>4. CASE SimulatorFailed
  <2>1. Outcomes(connectedOk, connected)' = Outcomes(connectedOk, connected)
    BY <1>4, OutcomesUnchanged DEF SimulatorFailed
  <2>. QED
    BY <1>0, <1>4, <2>1 DEF SimulatorFailed, IInv, TypeOK
<1>5. CASE StartSimulator
  <2>1. chosen \in Simulators
    BY <1>5 DEF StartSimulator, IInv, TypeOK
  <2>2. /\ Outcomes(connectedOk, connected)' = Outcomes(connectedOk, connected)
        /\ Outcomes(simulatorsOk, simulators)' = Outcomes(simulatorsOk, simulators)
    BY <1>5, OutcomesUnchanged DEF StartSimulator
  <2>. QED
    BY <1>0, <1>5, <2>1, <2>2 DEF StartSimulator, IInv, TypeOK, Selection, Names, Picked
<1>6. CASE StartFails
  <2>1. /\ Outcomes(connectedOk, connected)' = Outcomes(connectedOk, connected)
        /\ Outcomes(simulatorsOk, simulators)' = Outcomes(simulatorsOk, simulators)
    BY <1>6, OutcomesUnchanged DEF StartFails
  <2>. QED
    BY <1>0, <1>6, <2>1 DEF StartFails, IInv, TypeOK, Picked
<1>7. CASE UNCHANGED vars
  <2>1. /\ Outcomes(connectedOk, connected)' = Outcomes(connectedOk, connected)
        /\ Outcomes(simulatorsOk, simulators)' = Outcomes(simulatorsOk, simulators)
    BY <1>7, OutcomesUnchanged DEF vars
  <2>. QED
    BY <1>7, <2>1 DEF vars, IInv, TypeOK, Picked, Selection, Names, Lists
<1>. QED
  BY <1>1, <1>2, <1>3, <1>4, <1>5, <1>6, <1>7 DEF Next

-----------------------------------------------------------------------------
(* The properties.                                                         *)

(* Facts about a state of the invariant the theorems below share.         *)
LEMMA IInvFacts ==
  ASSUME IInv
  PROVE  /\ score \in [Names -> Int]
         /\ connected \in Seq(Devices) /\ simulators \in Seq(Simulators)
         /\ Devices \subseteq Names /\ Simulators \subseteq Names
         /\ NoValue \notin Names /\ Fail \notin Names
<1>1. Lists(Devices) \subseteq Seq(Devices) /\ Lists(Simulators) \subseteq Seq(Simulators)
  BY ListsAreSeqs
<1>. QED
  BY <1>1, OutcomeAssumption DEF IInv, TypeOK, Names

(* Every state device_prompt reaches is well typed (TypeOK).               *)
THEOREM TypeOKHolds == Spec => []TypeOK
BY InitIInv, NextIInv, PTL DEF Spec, IInv

(* With a target, the connected device returned and the simulator chosen *)
(* are the first listed among the best scores (FirstBestSelected): the    *)
(* `.rev()` before `max_by_key` makes the first of several ties win, for *)
(* lists of any length.                                                    *)
THEOREM FirstBestSelectedHolds == Spec => []FirstBestSelected
<1>1. IInv => FirstBestSelected
  <2> SUFFICES ASSUME IInv PROVE FirstBestSelected
    OBVIOUS
  <2>1. /\ score \in [Names -> Int]
        /\ connected \in Seq(Devices) /\ simulators \in Seq(Simulators)
        /\ Devices \subseteq Names /\ Simulators \subseteq Names
        /\ NoValue \notin Names /\ Fail \notin Names
    BY IInvFacts
  <2>2. chosen # NoValue /\ target # NoValue => chosen = FirstBest(simulators)
    BY <2>1, PickedFacts DEF IInv
  <2>3. result \in Selection /\ result.kind = "device" /\ target # NoValue =>
          result.name = FirstBest(connected)
    BY <2>1, PickedFacts DEF IInv
  <2>. QED
    BY <2>2, <2>3 DEF FirstBestSelected
<1>. QED
  BY <1>1, InitIInv, NextIInv, PTL DEF Spec

(* A connected device scoring above the threshold is always preferred: the *)
(* call then returns a connected device and starts no simulator            *)
(* (ConnectedPreferred), because the best match scores at least as much.  *)
THEOREM ConnectedPreferredHolds == Spec => []ConnectedPreferred
<1>1. IInv => ConnectedPreferred
  <2> SUFFICES ASSUME IInv, pc = "done", target # NoValue, connectedOk,
                      NEW k \in DOMAIN connected, score[connected[k]] > MinMatchScore
               PROVE  result \in Selection /\ result.kind = "device" /\ started = {}
    BY DEF ConnectedPreferred
  <2>1. /\ score \in [Names -> Int]
        /\ connected \in Seq(Devices) /\ simulators \in Seq(Simulators)
        /\ Devices \subseteq Names /\ Simulators \subseteq Names
        /\ NoValue \notin Names /\ Fail \notin Names
    BY IInvFacts
  <2>2. connected # <<>> /\ connected \in Seq(Names)
    BY <2>1
  <2>3. /\ score[Best(connected)] = TopScore(connected)
        /\ \E j \in DOMAIN connected : Best(connected) = connected[j]
    BY <2>1, <2>2, BestIsFirstBest
  <2>4. score[connected[k]] <= TopScore(connected) /\ TopScore(connected) \in Int
    BY <2>1, <2>2, TopScoreFacts
  <2>5. score[connected[k]] \in Int /\ Best(connected) \in Names
    BY <2>1, <2>2, <2>3
  <2>6. Accepts(score[Best(connected)])
    BY <2>3, <2>4, <2>5 DEF Accepts
  <2>7. Outcomes(connectedOk, connected) = {Best(connected)}
    BY <2>2, <2>6 DEF Outcomes
  <2>8. Fail \notin Outcomes(connectedOk, connected)
    BY <2>1, <2>5, <2>7
  <2>9. result \in Selection /\ result.kind = "device"
    BY <2>8 DEF IInv
  <2>. QED
    BY <2>9 DEF IInv
<1>. QED
  BY <1>1, InitIInv, NextIInv, PTL DEF Spec

-----------------------------------------------------------------------------
(* The refinement.                                                         *)

(* The specification's operators, taken through the instance, are the   *)
(* base module's own.                                                       *)
LEMMA PromptOperators ==
  /\ \A S : Prompt!Lists(S) = Lists(S)
  /\ Prompt!Names = Names /\ Prompt!Err = Err /\ Prompt!Fail = Fail
  /\ \A ok, list : Prompt!Outcomes(ok, list) = Outcomes(ok, list)
BY DEF Prompt!Lists, Lists, Prompt!Names, Names, Prompt!Err, Err, Prompt!Fail, Fail,
       Prompt!Outcomes, Outcomes, Prompt!Best, Best, Prompt!MaxByScore, MaxByScore,
       Prompt!TopScore, TopScore, Prompt!Reversed, Reversed, Prompt!Accepts, Accepts,
       Prompt!Range, Range

(* Before device_prompt returns, nothing is returned or started, and the *)
(* steps that return are the specification's three ways to return.       *)
LEMMA PendingFacts ==
  ASSUME IInv, pc # "done"
  PROVE  /\ result = NoValue /\ started = {}
         /\ pc # "connected" => Fail \in Outcomes(connectedOk, connected)
<1>1. NoValue \notin Selection
  BY OutcomeAssumption DEF Selection
<1>. QED
  BY <1>1 DEF IInv

(* device_prompt implements its specification (PromptSpec) under the     *)
(* identity mapping: the fallback to the simulators is taken only when   *)
(* connected_device_prompt may fail, the simulator started is the one    *)
(* returned, and an error starts nothing.                                *)
THEOREM PromptRefinement == Spec => PromptSpec
<1>1. Init => Prompt!Init
  BY PromptOperators DEF Init, Prompt!Init
<1>2. IInv /\ [Next]_vars => [Prompt!Next]_(Prompt!vars)
  <2> SUFFICES ASSUME IInv, [Next]_vars PROVE [Prompt!Next]_(Prompt!vars)
    OBVIOUS
  <2>1. CASE ConnectedChosen
    <3>1. result = NoValue /\ started = {}
      BY <2>1, PendingFacts DEF ConnectedChosen
    <3>2. Prompt!ReturnDevice
      BY <2>1, <3>1, PromptOperators DEF ConnectedChosen, Prompt!ReturnDevice, Prompt!Inputs
    <3>. QED
      BY <3>2 DEF Prompt!Next
  <2>2. CASE ConnectedFailed \/ SimulatorChosen
    BY <2>2 DEF ConnectedFailed, SimulatorChosen, Prompt!vars
  <2>3. CASE SimulatorFailed \/ StartFails
    <3>1. pc \in {"simulator", "start"}
      BY <2>3 DEF SimulatorFailed, StartFails
    <3>2. result = NoValue /\ Fail \in Outcomes(connectedOk, connected)
      BY <3>1, PendingFacts
    <3>3. Prompt!ReturnErr
      BY <2>3, <3>2, PromptOperators DEF SimulatorFailed, StartFails, Prompt!ReturnErr, Prompt!Inputs
    <3>. QED
      BY <3>3 DEF Prompt!Next
  <2>4. CASE StartSimulator
    <3>1. pc = "start"
      BY <2>4 DEF StartSimulator
    <3>2. /\ result = NoValue /\ started = {}
          /\ Fail \in Outcomes(connectedOk, connected)
      BY <3>1, PendingFacts
    <3>3. chosen \in Outcomes(simulatorsOk, simulators) \ {Fail}
      BY <3>1 DEF IInv, Picked
    <3>4. started' = {chosen} /\ result' = [kind |-> "simulator", name |-> chosen]
      BY <2>4, <3>2 DEF StartSimulator
    <3>5. Prompt!ReturnSimulator
      BY <2>4, <3>2, <3>3, <3>4, PromptOperators DEF StartSimulator, Prompt!ReturnSimulator, Prompt!Inputs
    <3>. QED
      BY <3>5 DEF Prompt!Next
  <2>5. CASE UNCHANGED vars
    BY <2>5 DEF vars, Prompt!vars
  <2>. QED
    BY <2>1, <2>2, <2>3, <2>4, <2>5 DEF Next
<1>. QED
  BY <1>1, <1>2, InitIInv, NextIInv, PTL DEF Spec, PromptSpec, Prompt!Spec

=============================================================================
