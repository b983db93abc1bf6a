----------------------------- MODULE Selection ------------------------------
(***************************************************************************)
(* Who survives a generation, and who is bred from: TournamentPolicy.select *)
(* (packages/core/orchestration/tournament_policy.py) and the spawning of  *)
(* the next generation in finalize_run (tournament.py).                    *)
(*                                                                         *)
(* Branches are named by their quality rank, 1 the best; the rank puts the *)
(* fatal ones last. A branch's text is its fingerprint, a set of tokens,   *)
(* and similarity is the share of tokens two fingerprints have in common,  *)
(* compared as a fraction. The rounding of the novelty score to six digits *)
(* is left out. The wildcard's hash may put any candidate first.           *)
(*                                                                         *)
(* select fills its slots one after the other, each by what is selected    *)
(* already: one action is one slot, and Decide and Breed use the outcome.  *)
(***************************************************************************)
EXTENDS Integers, FiniteSets

CONSTANTS
  Tokens,          \* the words of fingerprints
  Population,      \* population_size
  FreshCount,      \* fresh_agent_count
  Threshold,       \* redundancy_threshold, as <<numerator, denominator>>
  None

SelectedKinds == {"ELITE", "NOVELTY", "WILDCARD", "QUALITY"}
Kinds == SelectedKinds \union {"REDUNDANT", "ELIMINATED"}

ASSUME SelectionAssumption ==
  /\ IsFiniteSet(Tokens)
  /\ Population \in Nat \ {0} /\ FreshCount \in 0..Population
  /\ Threshold \in Nat \X (Nat \ {0}) /\ Threshold[1] <= Threshold[2]
  /\ None \notin Kinds /\ None \notin 1..Population
  /\ None \notin [source : 1..Population, kind : {"TRY", "PROMISING"}]

Smaller(a, b) == IF a <= b THEN a ELSE b

Branches == 1..Population
Children == 0..Population - 1

VARIABLES
  print,      \* print[b]: _fingerprint of b
  healthy,    \* the branches 1..healthy have no fatal error
  slots,      \* survivor_count
  step,       \* the slot that select fills next
  kind,       \* kind[b]: selection_kind of b, None as long as it has none
  parent,     \* parent[c]: the branch that child c is cloned from, or None
  packet      \* packet[c]: source and kind of c's cross-pollination, or None

vars == <<print, healthy, slots, step, kind, parent, packet>>
given == <<print, healthy, slots>>

Init ==
  /\ print \in [Branches -> SUBSET Tokens]
  /\ healthy \in 0..Population
  /\ slots \in 1..Population
  /\ step = "elite"
  /\ kind = [b \in Branches |-> None]
  /\ parent = [c \in Children |-> None]
  /\ packet = [c \in Children |-> None]

-----------------------------------------------------------------------------
(* Similarity.                                                             *)

AtLeast(x, y) == x[1] * y[2] >= y[1] * x[2]

\* _jaccard: two branches without words are the same, one is unlike all others.
Similarity(a, b) ==
  IF print[a] \union print[b] = {}
    THEN <<1, 1>>
    ELSE <<Cardinality(print[a] \intersect print[b]),
           Cardinality(print[a] \union print[b])>>

Similar(a, b) == AtLeast(Similarity(a, b), Threshold)

\* a's novelty_score is no less than b's: nothing is closer to a than the
\* closest is to b.
AsNovel(a, b) ==
  \A x \in Branches \ {a} : \E y \in Branches \ {b} :
    AtLeast(Similarity(b, y), Similarity(a, x))

-----------------------------------------------------------------------------
(* select.                                                                 *)

Viable == IF healthy > 0 THEN 1..healthy ELSE Branches
Selected == {b \in Branches : kind[b] \in SelectedKinds}
Open == Viable \ Selected
Full == Cardinality(Selected) >= slots
RedundantWithElite(b) == Similar(b, 1)   \* mutant: only the first survivor is looked at
RedundantWithSelected(b) == \E s \in Selected : Similar(b, s)
Fresh == {b \in Open : ~RedundantWithSelected(b)}

First(S, b) == b \in S /\ \A other \in S : b <= other
Then(next) == step' = next /\ UNCHANGED <<given, parent, packet>>
Add(b, as) == kind' = [kind EXCEPT ![b] = as]

SelectElite ==
  /\ step = "elite"
  /\ \E b \in Viable : First(Viable, b) /\ Add(b, "ELITE")
  /\ Then("novelty")

LeastNovel ==   \* mutant: sorted by novelty, not by its negative
  {b \in Open : \A other \in Open : AsNovel(other, b)}
MostNovel == {b \in Open : \A other \in Open : AsNovel(b, other)}

\* The most novel of those that are left, the better one of equals.
SelectNovelty ==
  /\ step = "novelty"
  /\ IF slots >= 2 /\ Open # {}
       THEN \E b \in MostNovel : First(MostNovel, b) /\ Add(b, "NOVELTY")
       ELSE UNCHANGED kind
  /\ Then("wildcard")

SelectWildcard ==
  /\ step = "wildcard"
  /\ IF slots >= 3 /\ Open # {}
       THEN \E b \in IF Fresh # {} THEN Fresh ELSE Open : Add(b, "WILDCARD")
       ELSE UNCHANGED kind
  /\ Then("distinct")

\* The first round of the last slots. The survivors only grow, so what it
\* passes over stays redundant, and the next one is the first that is not.
FillDistinct ==
  /\ step = "distinct"
  /\ IF ~Full /\ Fresh # {}
       THEN (\E b \in Fresh : First(Fresh, b) /\ Add(b, "QUALITY")) /\ Then("distinct")
       ELSE UNCHANGED kind /\ Then("any")

FillNone == step = "any" /\ UNCHANGED kind /\ Then("decide")   \* mutant: one round only
\* The second round, which allows redundant ones.
FillAny ==
  /\ step = "any"
  /\ IF ~Full /\ Open # {}
       THEN (\E b \in Open : First(Open, b) /\ Add(b, "QUALITY")) /\ Then("any")
       ELSE UNCHANGED kind /\ Then("decide")

\* redundant_with_submission_id is there.
RedundantWithBetter(b) == \E a \in Branches : a < b /\ Similar(b, a)

Decide ==
  /\ step = "decide"
  /\ kind' = [b \in Branches |->
       IF b \in Selected THEN kind[b]
       ELSE IF RedundantWithBetter(b) THEN "REDUNDANT" ELSE "ELIMINATED"]
  /\ Then("breed")

-----------------------------------------------------------------------------
(* finalize_run: the next generation.                                      *)

Clones == {c \in Children : c < Population - FreshCount}

\* selected[n], in the order of rank.
Survivor(n, b) == b \in Selected /\ Cardinality({s \in Selected : s < b}) = n

LastSelectedAt(n) ==   \* mutant: the index is cut off instead of wrapped
  CHOOSE b \in Selected : Survivor(Smaller(n, Cardinality(Selected) - 1), b)
SelectedAt(n) == CHOOSE b \in Selected : Survivor(n % Cardinality(Selected), b)

ParentOf(c) == SelectedAt(c)
SameSource(c) == SelectedAt(c)   \* mutant: a packet of the parent
Source(c) == SelectedAt(c + 1)
PacketKind(b) == IF kind[b] \in {"NOVELTY", "WILDCARD"} THEN "TRY" ELSE "PROMISING"

PacketFor(c) ==
  IF Cardinality(Selected) > 1 /\ Source(c) # ParentOf(c)
    THEN [source |-> Source(c), kind |-> PacketKind(Source(c))]
    ELSE None

Breed ==
  /\ step = "breed"
  /\ parent' = [c \in Children |-> IF c \in Clones THEN ParentOf(c) ELSE None]
  /\ packet' = [c \in Children |-> IF c \in Clones THEN PacketFor(c) ELSE None]
  /\ step' = "done"
  /\ UNCHANGED <<given, kind>>

Next ==
  \/ SelectElite \/ SelectNovelty \/ SelectWildcard \/ FillDistinct \/ FillAny
  \/ Decide \/ Breed

Spec == Init /\ [][Next]_vars

-----------------------------------------------------------------------------
(* Properties.                                                             *)

TypeOK ==
  /\ print \in [Branches -> SUBSET Tokens]
  /\ healthy \in 0..Population /\ slots \in Branches
  /\ step \in {"elite", "novelty", "wildcard", "distinct", "any", "decide", "breed", "done"}
  /\ kind \in [Branches -> Kinds \union {None}]

\* No slot is wasted and none goes to a fatal branch while there is a sound one:
\* two rounds are enough to use each for which there is a viable branch, whatever
\* was passed over as redundant before, and what is left then stays empty.
SlotsAreUsed ==
  step \in {"decide", "breed", "done"} =>
    /\ Selected \subseteq Viable
    /\ Cardinality(Selected) = Smaller(slots, Cardinality(Viable))

\* If a wildcard or a quality survivor is like another survivor, so is every
\* viable branch that was left out: no alternative was passed over.
AlikeOnlyIfForced ==
  (\E a, b \in Selected :
     a # b /\ Similar(a, b) /\ kind[b] \in {"WILDCARD", "QUALITY"}) =>
    \A b \in Viable \ Selected : \E s \in Selected : Similar(b, s)

\* With two slots or more the branch that differs most from its peers survives,
\* at whatever rank: none that was left out is more novel than all survivors
\* but the elite.
NoveltySurvives ==
  (step = "done" /\ slots >= 2) =>
    \A b \in Viable \ Selected : \E s \in Selected : kind[s] # "ELITE" /\ AsNovel(s, b)

ChildrenOf(b) == {c \in Children : parent[c] = b}

\* Survivors have about as many clones each, a better one no fewer, so the elite
\* has some whenever there are any. Only more survivors than clones leave one without.
BreedingIsFair ==
  step = "done" =>
    /\ \A c \in Children : IF c \in Clones THEN parent[c] \in Selected ELSE parent[c] = None
    /\ \A a, b \in Selected :
         a < b => Cardinality(ChildrenOf(a)) - Cardinality(ChildrenOf(b)) \in 0..1

\* Where there are two survivors every clone hears of one that is not its parent;
\* with as many clones as survivors, all survivors are heard of. A fresh explorer
\* hears of none.
PacketsCross ==
  step = "done" =>
    /\ \A c \in Children : packet[c] # None <=> (c \in Clones /\ Cardinality(Selected) > 1)
    /\ \A c \in Children : packet[c] # None => packet[c].source \in Selected \ {parent[c]}
    /\ (1 < Cardinality(Selected) /\ Cardinality(Selected) <= Cardinality(Clones)) =>
         \A b \in Selected : \E c \in Clones : packet[c].source = b

=============================================================================
