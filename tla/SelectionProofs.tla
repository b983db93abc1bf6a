--------------------------- MODULE SelectionProofs --------------------------
(***************************************************************************)
(* Proofs about Selection, for any population, number of slots, threshold, *)
(* fingerprints and wildcard: fatal branches survive only where all are    *)
(* fatal, all slots that can be are used, redundancy is only accepted when *)
(* there is nothing else, the most novel branch survives, and the clones   *)
(* of the next generation and their packets are dealt out evenly.          *)
(***************************************************************************)
EXTENDS Selection, FiniteSetTheorems, WellFoundedInduction, TLAPS

Early == {"elite", "novelty", "wildcard"}
Late == {"decide", "breed", "done"}

\* The wildcard and quality survivors.
Filled == {b \in Selected : kind[b] \in {"WILDCARD", "QUALITY"}}

Alike == \E a \in Selected, b \in Filled : a # b /\ Similar(a, b)

SlotInv ==
  /\ Selected \subseteq Viable /\ Cardinality(Selected) <= slots
  /\ step = "elite" => Selected = {}
  /\ step = "novelty" => Cardinality(Selected) <= 1
  /\ step = "wildcard" => Cardinality(Selected) <= 2
  /\ step \in Late => Full \/ Open = {}

DiversityInv ==
  /\ step \in Early => Filled = {}
  /\ Alike => Fresh = {}
  /\ step = "any" => Full \/ Fresh = {}

NoveltyInv ==
  (step \notin {"elite", "novelty"} /\ slots >= 2) =>
    Open = {} \/ \E s \in Selected : kind[s] = "NOVELTY" /\ \A b \in Open : AsNovel(s, b)

SelectInv == TypeOK /\ SlotInv /\ DiversityInv /\ NoveltyInv

-----------------------------------------------------------------------------
(* Branches, texts and sets of survivors.                                  *)

LEMMA SimilarIsSymmetric ==
  ASSUME NEW a, NEW b PROVE Similar(a, b) <=> Similar(b, a)
<1>1. /\ print[a] \union print[b] = print[b] \union print[a]
      /\ print[a] \intersect print[b] = print[b] \intersect print[a]
  OBVIOUS
<1> QED
  BY <1>1 DEF Similar, Similarity

LEMMA SetsAreFinite ==
  ASSUME TypeOK
  PROVE  /\ IsFiniteSet(Branches) /\ IsFiniteSet(Viable) /\ IsFiniteSet(Selected)
         /\ Viable \subseteq Branches /\ Viable # {}
         /\ Cardinality(Selected) \in Nat /\ Cardinality(Viable) \in Nat
         /\ slots \in Nat \ {0}
<1>1. IsFiniteSet(Branches)
  BY FS_Interval, SelectionAssumption DEF Branches
<1>2. Viable \subseteq Branches /\ Viable # {} /\ Selected \subseteq Branches
  <2>1. CASE healthy > 0
    <3>1. 1 \in 1..healthy /\ 1..healthy \subseteq Branches
      BY <2>1, SelectionAssumption DEF TypeOK, Branches
    <3> QED
      BY <2>1, <3>1 DEF Viable, Selected
  <2>2. CASE ~(healthy > 0)
    <3>1. 1 \in Branches
      BY SelectionAssumption DEF Branches
    <3> QED
      BY <2>2, <3>1 DEF Viable, Selected
  <2> QED
    BY <2>1, <2>2
<1>3. IsFiniteSet(Viable) /\ IsFiniteSet(Selected)
  BY <1>1, <1>2, FS_Subset
<1>4. slots \in Nat \ {0}
  BY SelectionAssumption DEF TypeOK, Branches
<1> QED
  BY <1>1, <1>2, <1>3, <1>4, FS_CardinalityType

\* Nothing but the survivors changes between Init and Breed.
LEMMA TextsStay ==
  ASSUME UNCHANGED given
  PROVE  /\ Viable' = Viable
         /\ \A a, b : Similar(a, b)' <=> Similar(a, b)
         /\ \A a, b : AsNovel(a, b)' <=> AsNovel(a, b)
BY DEF given, Viable, Similar, AsNovel, Similarity

\* One more survivor.
LEMMA OneMore ==
  ASSUME TypeOK, UNCHANGED given,
         NEW b \in Open, NEW k \in SelectedKinds, kind' = [kind EXCEPT ![b] = k]
  PROVE  /\ kind' \in [Branches -> Kinds \union {None}]
         /\ Selected' = Selected \union {b} /\ b \notin Selected
         /\ Open' = Open \ {b}
         /\ Fresh' \subseteq Fresh
         /\ kind'[b] = k /\ \A a \in Branches \ {b} : kind'[a] = kind[a]
         /\ Cardinality(Selected') = Cardinality(Selected) + 1
<1>1. b \in Branches /\ b \notin Selected /\ Viable' = Viable
  BY SetsAreFinite, TextsStay DEF Open
<1>2. kind' \in [Branches -> Kinds \union {None}]
      /\ kind'[b] = k /\ \A a \in Branches \ {b} : kind'[a] = kind[a]
  BY <1>1 DEF TypeOK, Kinds
<1>3. Selected' = Selected \union {b}
  BY <1>1, <1>2 DEF Selected
<1>4. Open' = Open \ {b}
  BY <1>1, <1>3 DEF Open
<1>5. Fresh' \subseteq Fresh
  BY <1>3, <1>4, TextsStay DEF Fresh, RedundantWithSelected
<1>6. Cardinality(Selected') = Cardinality(Selected) + 1
  BY <1>1, <1>3, SetsAreFinite, FS_AddElement
<1> QED
  BY <1>1, <1>2, <1>3, <1>4, <1>5, <1>6

\* A survivor that is like none before it, or one taken when nothing else is
\* left, leaves no alternative passed over.
LEMMA OneMoreAlike ==
  ASSUME TypeOK, UNCHANGED given, Alike => Fresh = {},
         NEW b \in Open, NEW k \in SelectedKinds, kind' = [kind EXCEPT ![b] = k],
         b \in Fresh \/ Fresh = {}
  PROVE  Alike' => Fresh' = {}
<1>1. Selected' = Selected \union {b} /\ Fresh' \subseteq Fresh
      /\ \A a \in Branches \ {b} : kind'[a] = kind[a]
  BY OneMore
<1>2. CASE Fresh = {}
  BY <1>1, <1>2
<1>3. CASE b \in Fresh
  <2>1. ~Alike
    BY <1>3
  <2>2. \A s \in Selected : ~Similar(b, s) /\ ~Similar(s, b)
    BY <1>3, SimilarIsSymmetric DEF Fresh, RedundantWithSelected
  <2>3. \A a \in Selected, c \in Selected :
          (kind'[c] \in {"WILDCARD", "QUALITY"} /\ c # b) => c \in Filled
    BY <1>1 DEF Filled, Selected
  <2>4. ~Alike'
    <3> SUFFICES ASSUME NEW a \in Selected', NEW c \in Selected', a # c, Similar(a, c),
                        kind'[c] \in {"WILDCARD", "QUALITY"}
                 PROVE  FALSE
      BY TextsStay DEF Alike, Filled
    <3>1. CASE a = b \/ c = b
      BY <1>1, <2>2, <3>1
    <3>2. CASE a # b /\ c # b
      BY <1>1, <2>1, <2>3, <3>2 DEF Alike
    <3> QED
      BY <3>1, <3>2
  <2> QED
    BY <2>4
<1> QED
  BY <1>2, <1>3

\* Once the novelty slot is filled, every further survivor leaves it so.
LEMMA OneMoreNovel ==
  ASSUME TypeOK, NoveltyInv, UNCHANGED given, step \notin {"elite", "novelty"},
         NEW b \in Open, NEW k \in SelectedKinds, kind' = [kind EXCEPT ![b] = k]
  PROVE  NoveltyInv'
<1> SUFFICES ASSUME slots >= 2
             PROVE  \E s \in Selected' : kind'[s] = "NOVELTY" /\ \A c \in Open' : AsNovel(s, c)
  BY TextsStay DEF NoveltyInv, given
<1>1. PICK s \in Selected : kind[s] = "NOVELTY" /\ \A c \in Open : AsNovel(s, c)
  BY DEF NoveltyInv
<1>2. s \in Branches \ {b} /\ s \in Selected' /\ Open' \subseteq Open
  BY OneMore DEF Selected
<1>3. kind'[s] = "NOVELTY"
  BY <1>1, <1>2, OneMore
<1> QED
  BY <1>1, <1>2, <1>3

\* A step that selects no one.
LEMMA NoMore ==
  ASSUME UNCHANGED <<given, kind>>
  PROVE  /\ Selected' = Selected /\ Open' = Open /\ Fresh' = Fresh
         /\ Filled' = Filled /\ (Alike' <=> Alike)
         /\ step' \notin {"elite", "novelty"} /\ step \notin {"elite", "novelty"} =>
              (NoveltyInv => NoveltyInv')
<1>1. Selected' = Selected /\ Open' = Open /\ Fresh' = Fresh /\ Filled' = Filled
  BY TextsStay DEF Selected, Open, Fresh, RedundantWithSelected, Filled
<1>2. Alike' <=> Alike
  BY <1>1, TextsStay DEF Alike
<1>3. step' \notin {"elite", "novelty"} /\ step \notin {"elite", "novelty"} =>
        (NoveltyInv => NoveltyInv')
  BY <1>1, TextsStay DEF NoveltyInv, given
<1> QED
  BY <1>1, <1>2, <1>3

-----------------------------------------------------------------------------
(* The slots.                                                              *)

LEMMA InitSelectInv == Init => SelectInv
<1> SUFFICES ASSUME Init PROVE SelectInv
  OBVIOUS
<1>1. TypeOK
  BY DEF Init, TypeOK, Branches
<1>2. Selected = {} /\ Filled = {}
  BY SelectionAssumption DEF Init, Selected, Filled, Branches, Kinds
<1>3. SlotInv
  BY <1>1, <1>2, FS_EmptySet, SetsAreFinite DEF SlotInv, Init, Late
<1>4. DiversityInv /\ NoveltyInv
  BY <1>2 DEF DiversityInv, NoveltyInv, Alike, Init
<1> QED
  BY <1>1, <1>3, <1>4 DEF SelectInv

\* What an action has to show when it selects b for a slot.
LEMMA SlotStep ==
  ASSUME SelectInv, UNCHANGED given, NEW b \in Open, NEW k \in SelectedKinds,
         kind' = [kind EXCEPT ![b] = k],
         step' \in {"novelty", "wildcard", "distinct", "any"},
         Cardinality(Selected) < slots,
         step' = "novelty" => Cardinality(Selected) <= 0,
         step' = "wildcard" => Cardinality(Selected) <= 1
  PROVE  TypeOK' /\ SlotInv'
<1>1. TypeOK'
  BY OneMore DEF SelectInv, TypeOK, given
<1>2. /\ Cardinality(Selected)' = Cardinality(Selected) + 1
      /\ Cardinality(Selected) \in Nat /\ slots \in Nat /\ slots' = slots
  BY OneMore, SetsAreFinite DEF SelectInv, given
<1>3. Selected' \subseteq Viable'
  <2>1. Selected' = Selected \union {b}
    BY OneMore DEF SelectInv
  <2>2. b \in Viable /\ Viable' = Viable
    BY TextsStay DEF Open
  <2> QED
    BY <2>1, <2>2 DEF SelectInv, SlotInv
<1>4. SlotInv'
  BY <1>2, <1>3 DEF SlotInv, Late
<1> QED
  BY <1>1, <1>4

LEMMA EliteStep == ASSUME SelectInv, SelectElite PROVE SelectInv'
<1>1. PICK b \in Viable : kind' = [kind EXCEPT ![b] = "ELITE"]
  BY DEF SelectElite, Add
<1>2. /\ step = "elite" /\ step' = "novelty" /\ UNCHANGED given
      /\ Selected = {} /\ Filled = {} /\ b \in Open /\ "ELITE" \in SelectedKinds
  BY <1>1 DEF SelectElite, Then, SelectInv, SlotInv, DiversityInv, Early, Open, SelectedKinds
<1>3. Cardinality(Selected) = 0 /\ slots > 0
  BY <1>2, FS_EmptySet, SetsAreFinite DEF SelectInv
<1>4. TypeOK' /\ SlotInv'
  <2>1. /\ Cardinality(Selected) < slots /\ Cardinality(Selected) <= 0
        /\ step' \in {"novelty", "wildcard", "distinct", "any"} /\ step' # "wildcard"
    BY <1>2, <1>3, SetsAreFinite DEF SelectInv
  <2> QED
    BY <1>1, <1>2, <2>1, SlotStep
<1>5. Filled' = {}
  BY <1>1, <1>2, OneMore DEF SelectInv, Filled
<1>6. DiversityInv' /\ NoveltyInv'
  BY <1>2, <1>5 DEF DiversityInv, NoveltyInv, Alike, Early
<1> QED
  BY <1>4, <1>6 DEF SelectInv

LEMMA NoveltyStep == ASSUME SelectInv, SelectNovelty PROVE SelectInv'
<1>1. /\ step = "novelty" /\ step' = "wildcard" /\ UNCHANGED given
      /\ Cardinality(Selected) <= 1 /\ Filled = {} /\ "NOVELTY" \in SelectedKinds
      /\ Cardinality(Selected) \in Nat /\ slots \in Nat
  BY SetsAreFinite
     DEF SelectNovelty, Then, SelectInv, SlotInv, DiversityInv, Early, SelectedKinds
<1>2. CASE slots >= 2 /\ Open # {}
  <2>1. PICK b \in MostNovel : kind' = [kind EXCEPT ![b] = "NOVELTY"]
    BY <1>2 DEF SelectNovelty, Add
  <2>2. b \in Open /\ \A other \in Open : AsNovel(b, other)
    BY <2>1 DEF MostNovel
  <2>3. TypeOK' /\ SlotInv'
    <3>1. /\ Cardinality(Selected) < slots /\ Cardinality(Selected) <= 1
          /\ step' \in {"novelty", "wildcard", "distinct", "any"} /\ step' # "novelty"
      BY <1>1, <1>2
    <3> QED
      BY <1>1, <2>1, <2>2, <3>1, SlotStep
  <2>4. /\ Selected' = Selected \union {b} /\ Open' = Open \ {b}
        /\ kind'[b] = "NOVELTY" /\ \A a \in Branches \ {b} : kind'[a] = kind[a]
    BY <1>1, <2>1, <2>2, OneMore DEF SelectInv
  <2>5. Filled' = {}
    BY <1>1, <2>4 DEF Filled, Selected
  <2>6. DiversityInv'
    BY <1>1, <2>5 DEF DiversityInv, Alike
  <2>7. NoveltyInv'
    BY <1>1, <2>2, <2>4, TextsStay DEF NoveltyInv
  <2> QED
    BY <2>3, <2>6, <2>7 DEF SelectInv
<1>3. CASE ~(slots >= 2 /\ Open # {})
  <2>1. UNCHANGED kind
    BY <1>3 DEF SelectNovelty
  <2>2. TypeOK' /\ SlotInv'
    BY <1>1, <2>1, NoMore, TextsStay DEF SelectInv, TypeOK, SlotInv, given, Late
  <2>3. DiversityInv' /\ NoveltyInv'
    BY <1>1, <1>3, <2>1, NoMore DEF DiversityInv, NoveltyInv, Alike, given
  <2> QED
    BY <2>2, <2>3 DEF SelectInv
<1> QED
  BY <1>2, <1>3

LEMMA WildcardStep == ASSUME SelectInv, SelectWildcard PROVE SelectInv'
<1>1. /\ step = "wildcard" /\ step' = "distinct" /\ UNCHANGED given
      /\ Cardinality(Selected) <= 2 /\ "WILDCARD" \in SelectedKinds
      /\ Cardinality(Selected) \in Nat /\ slots \in Nat
  BY SetsAreFinite DEF SelectWildcard, Then, SelectInv, SlotInv, SelectedKinds
<1>2. CASE slots >= 3 /\ Open # {}
  <2>1. PICK b \in IF Fresh # {} THEN Fresh ELSE Open : kind' = [kind EXCEPT ![b] = "WILDCARD"]
    BY <1>2 DEF SelectWildcard, Add
  <2>2. b \in Open /\ (b \in Fresh \/ Fresh = {})
    BY <2>1 DEF Fresh
  <2>3. TypeOK' /\ SlotInv'
    <3>1. /\ Cardinality(Selected) < slots
          /\ step' \in {"novelty", "wildcard", "distinct", "any"}
          /\ step' # "novelty" /\ step' # "wildcard"
      BY <1>1, <1>2
    <3> QED
      BY <1>1, <2>1, <2>2, <3>1, SlotStep
  <2>4. DiversityInv'
    BY <1>1, <2>1, <2>2, OneMoreAlike DEF SelectInv, DiversityInv, Early
  <2>5. NoveltyInv'
    BY <1>1, <2>1, <2>2, OneMoreNovel DEF SelectInv
  <2> QED
    BY <2>3, <2>4, <2>5 DEF SelectInv
<1>3. CASE ~(slots >= 3 /\ Open # {})
  <2>1. UNCHANGED kind
    BY <1>3 DEF SelectWildcard
  <2>2. TypeOK' /\ SlotInv'
    BY <1>1, <2>1, NoMore, TextsStay DEF SelectInv, TypeOK, SlotInv, given, Late
  <2>3. DiversityInv' /\ NoveltyInv'
    BY <1>1, <2>1, NoMore DEF SelectInv, DiversityInv, Early
  <2> QED
    BY <2>2, <2>3 DEF SelectInv
<1> QED
  BY <1>2, <1>3

\* One lemma for the two rounds: they differ in who may fill a slot.
LEMMA FillStep ==
  ASSUME SelectInv, UNCHANGED given, step \in {"distinct", "any"}, step' = step,
         ~Full, NEW b \in Open, b \in Fresh \/ Fresh = {},
         kind' = [kind EXCEPT ![b] = "QUALITY"],
         step = "any" => Fresh = {}
  PROVE  SelectInv'
<1>1. "QUALITY" \in SelectedKinds /\ Cardinality(Selected) < slots
  BY SetsAreFinite DEF SelectedKinds, Full, SelectInv
<1>2. TypeOK' /\ SlotInv'
  BY <1>1, SlotStep
<1>3. DiversityInv'
  BY <1>1, OneMore, OneMoreAlike DEF SelectInv, DiversityInv, Early
<1>4. NoveltyInv'
  BY <1>1, OneMoreNovel DEF SelectInv
<1> QED
  BY <1>2, <1>3, <1>4 DEF SelectInv

LEMMA DistinctStep == ASSUME SelectInv, FillDistinct PROVE SelectInv'
<1>1. CASE ~Full /\ Fresh # {}
  <2>1. PICK b \in Fresh : kind' = [kind EXCEPT ![b] = "QUALITY"]
    BY <1>1 DEF FillDistinct, Add
  <2>2. step = "distinct" /\ step' = "distinct" /\ UNCHANGED given
    BY <1>1 DEF FillDistinct, Then
  <2> QED
    BY <1>1, <2>1, <2>2, FillStep DEF Fresh
<1>2. CASE ~(~Full /\ Fresh # {})
  <2>1. step = "distinct" /\ step' = "any" /\ UNCHANGED <<given, kind>>
    BY <1>2 DEF FillDistinct, Then
  <2>2. TypeOK' /\ SlotInv'
    BY <2>1, NoMore, TextsStay DEF SelectInv, TypeOK, SlotInv, given, Late
  <2>3. DiversityInv' /\ NoveltyInv'
    BY <1>2, <2>1, NoMore DEF SelectInv, DiversityInv, Early, Full, given
  <2> QED
    BY <2>2, <2>3 DEF SelectInv
<1> QED
  BY <1>1, <1>2

LEMMA AnyStep == ASSUME SelectInv, FillAny PROVE SelectInv'
<1>1. CASE ~Full /\ Open # {}
  <2>1. PICK b \in Open : kind' = [kind EXCEPT ![b] = "QUALITY"]
    BY <1>1 DEF FillAny, Add
  <2>2. step = "any" /\ step' = "any" /\ UNCHANGED given
    BY <1>1 DEF FillAny, Then
  <2>3. Fresh = {}
    BY <1>1, <2>2 DEF SelectInv, DiversityInv
  <2> QED
    BY <1>1, <2>1, <2>2, <2>3, FillStep
<1>2. CASE ~(~Full /\ Open # {})
  <2>1. step = "any" /\ step' = "decide" /\ UNCHANGED <<given, kind>>
    BY <1>2 DEF FillAny, Then
  <2>2. TypeOK' /\ SlotInv'
    BY <1>2, <2>1, NoMore, TextsStay DEF SelectInv, TypeOK, SlotInv, given, Late, Full
  <2>3. DiversityInv' /\ NoveltyInv'
    BY <2>1, NoMore DEF SelectInv, DiversityInv, Early
  <2> QED
    BY <2>2, <2>3 DEF SelectInv
<1> QED
  BY <1>1, <1>2

\* Decide names the branches that were left out, and selects nobody.
LEMMA DecideStep == ASSUME SelectInv, Decide PROVE SelectInv'
<1>1. step = "decide" /\ step' = "breed" /\ UNCHANGED given
  BY DEF Decide, Then
<1>2. /\ kind' \in [Branches -> Kinds \union {None}]
      /\ \A b \in Selected : kind'[b] = kind[b]
      /\ \A b \in Branches \ Selected : kind'[b] \in {"REDUNDANT", "ELIMINATED"}
  BY DEF Decide, SelectInv, TypeOK, Kinds, Selected
<1>3. Selected' = Selected
  BY <1>2 DEF Selected, SelectedKinds
<1>4. Open' = Open /\ Fresh' = Fresh
  BY <1>1, <1>3, TextsStay DEF Open, Fresh, RedundantWithSelected
<1>5. Filled' = Filled
  BY <1>2, <1>3 DEF Filled
<1>6. Alike' <=> Alike
  BY <1>1, <1>3, <1>5, TextsStay DEF Alike
<1>7. TypeOK' /\ SlotInv'
  BY <1>1, <1>2, <1>3, <1>4, TextsStay
     DEF SelectInv, TypeOK, SlotInv, given, Late, Full
<1>8. DiversityInv'
  BY <1>1, <1>4, <1>6 DEF SelectInv, DiversityInv, Early
<1>9. NoveltyInv'
  BY <1>1, <1>2, <1>3, <1>4, TextsStay DEF SelectInv, NoveltyInv, given
<1> QED
  BY <1>7, <1>8, <1>9 DEF SelectInv

LEMMA BreedStep == ASSUME SelectInv, Breed PROVE SelectInv'
<1>1. step = "breed" /\ step' = "done" /\ UNCHANGED <<given, kind>>
  BY DEF Breed
<1>2. TypeOK' /\ SlotInv'
  BY <1>1, NoMore, TextsStay DEF SelectInv, TypeOK, SlotInv, given, Late, Full
<1>3. DiversityInv' /\ NoveltyInv'
  BY <1>1, NoMore DEF SelectInv, DiversityInv, Early
<1> QED
  BY <1>2, <1>3 DEF SelectInv

LEMMA NextSelectInv == ASSUME SelectInv, [Next]_vars PROVE SelectInv'
<1>1. CASE UNCHANGED vars
  <2>1. UNCHANGED <<given, kind>> /\ step' = step
    BY <1>1 DEF vars, given
  <2>2. TypeOK' /\ SlotInv'
    BY <2>1, NoMore, TextsStay DEF SelectInv, TypeOK, SlotInv, given, Full
  <2>3. DiversityInv' /\ NoveltyInv'
    BY <2>1, NoMore, TextsStay DEF SelectInv, DiversityInv, NoveltyInv, Full, given
  <2> QED
    BY <2>2, <2>3 DEF SelectInv
<1> QED
  BY <1>1, EliteStep, NoveltyStep, WildcardStep, DistinctStep, AnyStep, DecideStep, BreedStep
     DEF Next

-----------------------------------------------------------------------------
(* The theorems.                                                           *)

LEMMA SelectInvariant == Spec => []SelectInv
<1>1. SelectInv /\ [Next]_vars => SelectInv'
  BY NextSelectInv
<1> QED
  BY <1>1, InitSelectInv, PTL DEF Spec

\* As many survive as there are slots, or viable branches if these are fewer, and
\* a fatal branch only in a generation that has no other.
THEOREM NoSlotIsWasted == Spec => []SlotsAreUsed
<1>1. ASSUME SelectInv PROVE SlotsAreUsed
  <2> SUFFICES ASSUME step \in Late
               PROVE  Cardinality(Selected) = Smaller(slots, Cardinality(Viable))
    BY <1>1 DEF SlotsAreUsed, Late, SelectInv, SlotInv
  <2>1. /\ IsFiniteSet(Viable) /\ Selected \subseteq Viable
        /\ Cardinality(Selected) \in Nat /\ Cardinality(Viable) \in Nat /\ slots \in Nat
        /\ Cardinality(Selected) <= slots
    BY <1>1, SetsAreFinite DEF SelectInv, SlotInv
  <2>2. Cardinality(Selected) <= Cardinality(Viable)
    BY <2>1, FS_Subset
  <2>3. CASE Full
    BY <2>1, <2>2, <2>3 DEF Full, Smaller
  <2>4. CASE Open = {}
    <3>1. Selected = Viable
      BY <2>1, <2>4 DEF Open
    <3> QED
      BY <2>1, <3>1 DEF Smaller
  <2> QED
    BY <1>1, <2>3, <2>4 DEF SelectInv, SlotInv
<1> QED
  BY <1>1, SelectInvariant, PTL

\* Redundancy is accepted in a wildcard or quality slot only when everything else
\* is redundant too.
THEOREM RedundancyIsForced == Spec => []AlikeOnlyIfForced
<1>1. ASSUME SelectInv PROVE AlikeOnlyIfForced
  <2>1. Alike => Fresh = {}
    BY <1>1 DEF SelectInv, DiversityInv
  <2> QED
    BY <2>1 DEF AlikeOnlyIfForced, Alike, Filled, Fresh, RedundantWithSelected, Open
<1> QED
  BY <1>1, SelectInvariant, PTL

\* With two slots, who differs most from all others survives.
THEOREM NoveltyIsKept == Spec => []NoveltySurvives
<1>1. SelectInv => NoveltySurvives
  BY DEF SelectInv, NoveltyInv, NoveltySurvives, Open
<1> QED
  BY <1>1, SelectInvariant, PTL

-----------------------------------------------------------------------------
(* Remainders.                                                             *)

LEMMA Division ==
  ASSUME NEW n \in Nat, NEW m \in Nat \ {0}
  PROVE  /\ n \div m \in Int /\ n % m \in 0..m - 1
         /\ n = (n \div m) * m + (n % m)
<1>1. n \div m \in Int
  OBVIOUS
<1>2. n % m \in 0..m - 1
  OBVIOUS
<1>3. n = (n \div m) * m + (n % m)
  BY SMTT(30)
<1> QED
  BY <1>1, <1>2, <1>3

LEMMA RemainderIs ==
  ASSUME NEW n \in Nat, NEW m \in Nat \ {0}, NEW q \in Int, NEW r \in 0..m - 1,
         n = q * m + r
  PROVE  n % m = r
<1>1. ASSUME NEW p \in Int, NEW s \in 0..m - 1, n = p * m + s PROVE s = r
  <2>1. n = m * p + s /\ n = m * q + r
    BY <1>1
  <2>2. CASE p = q
    BY <2>1, <2>2
  <2>3. ASSUME NEW x \in Int, NEW y \in Int, x < y PROVE m * x + m <= m * y
    <3>1. x + 1 <= y
      BY <2>3
    <3> QED
      BY <3>1
  <2>4. CASE p < q
    BY <1>1, <2>1, <2>3, <2>4
  <2>5. CASE q < p
    BY <1>1, <2>1, <2>3, <2>5
  <2> QED
    BY <2>2, <2>4, <2>5
<1> QED
  BY <1>1, Division

LEMMA SmallRemainder ==
  ASSUME NEW n \in Nat, NEW m \in Nat \ {0}
  PROVE  /\ n < m => n % m = n
         /\ n % m <= n
<1>1. n < m => n % m = n
  OBVIOUS
<1>2. n % m \in 0..m - 1
  OBVIOUS
<1> QED
  BY <1>1, <1>2

LEMMA NextRemainder ==
  ASSUME NEW n \in Nat, NEW m \in Nat \ {0}
  PROVE  (n + 1) % m = IF (n % m) + 1 = m THEN 0 ELSE (n % m) + 1
<1> DEFINE q == n \div m
           r == n % m
<1>1. q \in Int /\ r \in 0..m - 1 /\ n = q * m + r
  BY Division
<1> HIDE DEF q, r
<1>2. CASE r + 1 = m
  <2>1. n + 1 = (q + 1) * m + 0 /\ n + 1 \in Nat /\ q + 1 \in Int /\ 0 \in 0..m - 1
    BY <1>1, <1>2
  <2> QED
    BY <1>2, <2>1, RemainderIs DEF r
<1>3. CASE r + 1 # m
  <2>1. n + 1 = q * m + (r + 1) /\ n + 1 \in Nat /\ r + 1 \in 0..m - 1
    BY <1>1, <1>3
  <2>2. (n + 1) % m = r + 1
    BY <1>1, <2>1, RemainderIs
  <2> QED
    BY <1>3, <2>2 DEF r
<1> QED
  BY <1>2, <1>3

\* A move to another remainder, within one round of m or to the one before.
LEMMA MovedRemainder ==
  ASSUME NEW n \in Nat, NEW m \in Nat \ {0}, NEW s \in 0..m - 1, NEW d \in Int,
         NEW k \in {0, 1}, n + d \in Nat, (n % m) + d = s - k * m
  PROVE  (n + d) % m = s
<1> DEFINE q == n \div m
           r == n % m
<1>1. q \in Int /\ r \in 0..m - 1 /\ n = q * m + r
  BY Division
<1>2. r + d = s - k * m
  OBVIOUS
<1> HIDE DEF q, r
<1>3. CASE k = 0
  <2>1. n + d = q * m + s
    BY <1>1, <1>2, <1>3
  <2> QED
    BY <1>1, <2>1, RemainderIs
<1>4. CASE k = 1
  <2>1. n + d = (q - 1) * m + s /\ q - 1 \in Int
    BY <1>1, <1>2, <1>4
  <2> QED
    BY <2>1, RemainderIs
<1> QED
  BY <1>3, <1>4

\* Dealt out in turn, the lower of two places gets as many as the higher, or one
\* more: a child of the higher place has one of the lower place a little before
\* it, and a child of the lower place, but for the first, one of the higher place.
InPlace(K, m, r) == {c \in 0..K - 1 : c % m = r}

LEMMA DealtEvenly ==
  ASSUME NEW K \in Nat, NEW m \in Nat \ {0}, NEW r \in 0..m - 1, NEW s \in 0..m - 1, r < s
  PROVE  Cardinality(InPlace(K, m, r)) - Cardinality(InPlace(K, m, s)) \in 0..1
<1> DEFINE A == InPlace(K, m, r)
           B == InPlace(K, m, s)
<1>1. IsFiniteSet(A) /\ IsFiniteSet(B) /\ Cardinality(A) \in Nat /\ Cardinality(B) \in Nat
  <2>1. IsFiniteSet(0..K - 1) /\ A \in SUBSET (0..K - 1) /\ B \in SUBSET (0..K - 1)
    BY FS_Interval DEF InPlace
  <2> QED
    BY <2>1, FS_Subset, FS_CardinalityType
<1>2. Cardinality(B) <= Cardinality(A)
  <2> DEFINE f == [c \in B |-> c + (r - s)]
  <2>1. ASSUME NEW c \in B PROVE c + (r - s) \in A
    <3>1. c \in Nat /\ c < K /\ c % m = s
      BY <1>1 DEF InPlace
    <3>2. s <= c
      BY <3>1, SmallRemainder
    <3>3. c + (r - s) \in Nat /\ c + (r - s) < K /\ r - s \in Int
      BY <3>1, <3>2
    <3>4. (c % m) + (r - s) = r - 0 * m
      BY <3>1
    <3>5. (c + (r - s)) % m = r
      BY <3>1, <3>3, <3>4, MovedRemainder
    <3> QED
      BY <3>3, <3>5 DEF InPlace
  <2>2. f \in [B -> A]
    BY <2>1
  <2>3. ASSUME NEW c \in B, NEW e \in B, f[c] = f[e] PROVE c = e
    <3>1. c \in Int /\ e \in Int /\ c + (r - s) = e + (r - s)
      BY <2>3 DEF InPlace
    <3> QED
      BY <3>1
  <2>4. f \in Injection(B, A)
    BY <2>2, <2>3 DEF Injection, IsInjective
  <2> QED
    BY <1>1, <2>4, FS_Injection
<1>3. Cardinality(A \ {r}) <= Cardinality(B)
  <2> DEFINE f == [c \in A \ {r} |-> c + (s - r - m)]
  <2>1. ASSUME NEW c \in A \ {r} PROVE c + (s - r - m) \in B
    <3>1. c \in Nat /\ c < K /\ c % m = r /\ c # r
      BY DEF InPlace
    <3>2. c >= m
      BY <3>1, SmallRemainder
    <3>3. c + (s - r - m) \in Nat /\ c + (s - r - m) < K /\ s - r - m \in Int
      BY <3>1, <3>2
    <3>4. (c % m) + (s - r - m) = s - 1 * m
      BY <3>1
    <3>5. (c + (s - r - m)) % m = s
      BY <3>1, <3>3, <3>4, MovedRemainder
    <3> QED
      BY <3>3, <3>5 DEF InPlace
  <2>2. f \in [A \ {r} -> B]
    BY <2>1
  <2>3. ASSUME NEW c \in A \ {r}, NEW e \in A \ {r}, f[c] = f[e] PROVE c = e
    <3>1. c \in Int /\ e \in Int /\ c + (s - r - m) = e + (s - r - m)
      BY <2>3 DEF InPlace
    <3> QED
      BY <3>1
  <2>4. f \in Injection(A \ {r}, B)
    BY <2>2, <2>3 DEF Injection, IsInjective
  <2> QED
    BY <1>1, <2>4, FS_Injection
<1>4. Cardinality(A) <= Cardinality(A \ {r}) + 1 /\ Cardinality(A \ {r}) \in Int
  BY <1>1, FS_RemoveElement
<1> HIDE DEF A, B
<1>5. Cardinality(A) - Cardinality(B) \in 0..1
  BY <1>1, <1>2, <1>3, <1>4
<1> QED
  BY <1>5 DEF A, B

-----------------------------------------------------------------------------
(* The order of the survivors: each place below their number is one's.      *)

LEMMA LeastNatural ==
  ASSUME NEW S \in SUBSET Nat, S # {}
  PROVE  \E n \in S : \A k \in S : n <= k
<1>1. IsWellFoundedOn({p \in Nat \X Nat : p[1] < p[2]}, Nat)
  BY Zenon, NatLessThanWellFounded DEF OpToRel
<1>2. PICK n \in S : \A k \in S : <<k, n>> \notin {p \in Nat \X Nat : p[1] < p[2]}
  BY <1>1, WFMin, Zenon
<1>3. ASSUME NEW k \in S PROVE n <= k
  <2>1. k \in Nat /\ n \in Nat /\ ~(k < n)
    BY <1>2
  <2> QED
    BY <2>1
<1> QED
  BY <1>3

Before(b) == {s \in Selected : s < b}
Place(b) == Cardinality(Before(b))

LEMMA PlacesType ==
  ASSUME TypeOK
  PROVE  /\ IsFiniteSet(Selected) /\ Selected \subseteq Nat /\ Cardinality(Selected) \in Nat
         /\ \A b \in Selected : IsFiniteSet(Before(b)) /\ Place(b) \in 0..Cardinality(Selected) - 1
<1>1. IsFiniteSet(Selected) /\ Selected \subseteq Nat /\ Cardinality(Selected) \in Nat
  BY SetsAreFinite DEF Selected, Branches
<1>2. ASSUME NEW b \in Selected
      PROVE  IsFiniteSet(Before(b)) /\ Place(b) \in 0..Cardinality(Selected) - 1
  <2>1. Before(b) \in SUBSET Selected /\ b \notin Before(b)
    BY <1>1 DEF Before
  <2>2. IsFiniteSet(Before(b)) /\ Place(b) \in Nat /\ Place(b) <= Cardinality(Selected)
    BY <1>1, <2>1, FS_Subset, FS_CardinalityType DEF Place
  <2>3. Place(b) # Cardinality(Selected)
    BY <1>1, <2>1, FS_Subset DEF Place
  <2> QED
    BY <1>1, <2>2, <2>3
<1> QED
  BY <1>1, <1>2

LEMMA PlacesGrow ==
  ASSUME TypeOK, NEW a \in Selected, NEW b \in Selected, a < b
  PROVE  Place(a) < Place(b)
<1>1. Before(a) \in SUBSET Before(b) /\ a \in Before(b) /\ a \notin Before(a)
  BY PlacesType DEF Before
<1>2. Place(a) <= Place(b) /\ Place(a) # Place(b)
  BY <1>1, PlacesType, FS_Subset DEF Place
<1> QED
  BY <1>2, PlacesType

LEMMA PlacesAreTaken ==
  ASSUME TypeOK, NEW n \in 0..Cardinality(Selected) - 1
  PROVE  \E b \in Selected : Place(b) = n
<1> DEFINE Free == {k \in 0..Cardinality(Selected) - 1 : \A b \in Selected : Place(b) # k}
<1>1. Free \in SUBSET Nat
  OBVIOUS
<1>2. ASSUME Free # {} PROVE FALSE
  <2>1. PICK k \in Free : \A other \in Free : k <= other
    BY <1>1, <1>2, LeastNatural
  <2>2. k \in Nat /\ k < Cardinality(Selected) /\ \A b \in Selected : Place(b) # k
    BY PlacesType
  <2>3. CASE k = 0
    <3>1. Selected # {}
      BY <2>2, PlacesType, FS_EmptySet
    <3>2. PICK b \in Selected : \A s \in Selected : b <= s
      BY <3>1, PlacesType, LeastNatural
    <3>3. Before(b) = {}
      BY <3>2, PlacesType DEF Before
    <3> QED
      BY <2>2, <2>3, <3>3, FS_EmptySet DEF Place
  <2>4. CASE k # 0
    <3>1. k - 1 \in 0..Cardinality(Selected) - 1 /\ ~(k <= k - 1)
      BY <2>2, <2>4, PlacesType
    <3>2. PICK b \in Selected : Place(b) = k - 1
      BY <2>1, <3>1
    <3> DEFINE Above == {s \in Selected : s > b}
               Upto == Before(b) \union {b}
    <3>3. IsFiniteSet(Upto) /\ Cardinality(Upto) = k
      <4>1. b \notin Before(b) /\ IsFiniteSet(Before(b))
        BY PlacesType DEF Before
      <4>2. Cardinality(Upto) = Place(b) + 1
        BY <4>1, FS_AddElement DEF Place
      <4> QED
        BY <2>2, <3>2, <4>1, <4>2, FS_AddElement
    <3>4. Above # {}
      <4>1. ASSUME Above = {} PROVE Selected = Upto
        BY <4>1, PlacesType DEF Before
      <4> QED
        BY <2>2, <3>3, <4>1, PlacesType
    <3>5. PICK c \in Above : \A s \in Above : c <= s
      BY <3>4, PlacesType, LeastNatural
    <3>6. c \in Selected /\ Before(c) = Upto
      BY <3>5, PlacesType DEF Before
    <3> QED
      BY <2>2, <3>3, <3>6 DEF Place
  <2> QED
    BY <2>3, <2>4
<1> QED
  BY <1>2

\* selected[n % len(selected)] is the survivor with that place.
LEMMA SelectedInPlace ==
  ASSUME TypeOK, Selected # {}, NEW n \in Nat
  PROVE  /\ Cardinality(Selected) \in Nat \ {0}
         /\ SelectedAt(n) \in Selected
         /\ Place(SelectedAt(n)) = n % Cardinality(Selected)
<1>1. Cardinality(Selected) \in Nat \ {0}
  BY PlacesType, FS_EmptySet
<1>2. n % Cardinality(Selected) \in 0..Cardinality(Selected) - 1
  BY <1>1, Division
<1>3. \E b \in Selected : Survivor(n % Cardinality(Selected), b)
  BY <1>2, PlacesAreTaken DEF Survivor, Place, Before
<1>4. Survivor(n % Cardinality(Selected), SelectedAt(n)) /\ SelectedAt(n) \in Selected
  BY <1>3 DEF SelectedAt
<1> QED
  BY <1>1, <1>4 DEF Survivor, Place, Before

-----------------------------------------------------------------------------
(* The next generation. Nothing happens to it once it is bred.              *)

BredInv ==
  step = "done" =>
    /\ parent = [c \in Children |-> IF c \in Clones THEN ParentOf(c) ELSE None]
    /\ packet = [c \in Children |-> IF c \in Clones THEN PacketFor(c) ELSE None]

LEMMA BredInvariant == Spec => [](SelectInv /\ BredInv)
<1>1. Init => BredInv
  BY DEF Init, BredInv
<1>2. BredInv /\ [Next]_vars => BredInv'
  <2> SUFFICES ASSUME BredInv, [Next]_vars PROVE BredInv'
    OBVIOUS
  <2>0. ASSUME kind' = kind
        PROVE  \A c : ParentOf(c)' = ParentOf(c) /\ PacketFor(c)' = PacketFor(c)
    BY <2>0 DEF ParentOf, PacketFor, Source, PacketKind, SelectedAt, Survivor, Selected
  <2>1. CASE UNCHANGED vars
    BY <2>0, <2>1 DEF BredInv, vars
  <2>2. CASE Breed
    BY <2>0, <2>2 DEF Breed, BredInv
  <2>3. CASE SelectElite \/ SelectNovelty \/ SelectWildcard \/ FillDistinct \/ FillAny \/ Decide
    BY <2>3 DEF SelectElite, SelectNovelty, SelectWildcard, FillDistinct, FillAny, Decide, Then,
       BredInv
  <2> QED
    BY <2>1, <2>2, <2>3 DEF Next
<1> QED
  BY <1>1, <1>2, InitSelectInv, NextSelectInv, SelectInvariant, PTL DEF Spec

\* Where there are survivors to breed from, there is at least one.
LEMMA SomeoneSurvives ==
  ASSUME SelectInv, step = "done" PROVE Selected # {}
<1>1. IsFiniteSet(Selected) /\ Viable # {} /\ slots \in Nat \ {0}
  BY SetsAreFinite DEF SelectInv
<1>2. Full \/ Open = {}
  BY DEF SelectInv, SlotInv, Late
<1>3. CASE Open = {}
  BY <1>1, <1>3 DEF Open
<1>4. ASSUME Full, Selected = {} PROVE FALSE
  <2>1. Cardinality(Selected) = 0
    BY <1>4, FS_EmptySet
  <2> QED
    BY <1>1, <1>4, <2>1 DEF Full
<1> QED
  BY <1>2, <1>3, <1>4

LEMMA ClonesAre ==
  /\ Population - FreshCount \in Nat /\ Clones = 0..Population - FreshCount - 1
  /\ Clones \subseteq Children /\ Children \subseteq Nat /\ None \notin Branches
<1>1. Population \in Nat \ {0} /\ FreshCount \in 0..Population
  BY SelectionAssumption
<1> QED
  BY <1>1, SelectionAssumption DEF Clones, Children, Branches

LEMMA ChildrenInPlace ==
  ASSUME SelectInv, BredInv, step = "done", NEW b \in Selected
  PROVE  ChildrenOf(b) = InPlace(Population - FreshCount, Cardinality(Selected), Place(b))
<1>1. \A c \in Children : parent[c] = IF c \in Clones THEN ParentOf(c) ELSE None
  BY DEF BredInv
<1>2. b \in Branches /\ b # None
  BY ClonesAre DEF Selected
<1>3. ASSUME NEW c \in Clones
      PROVE  ParentOf(c) = b <=> c % Cardinality(Selected) = Place(b)
  <2>1. c \in Nat /\ ParentOf(c) \in Selected /\ Place(ParentOf(c)) = c % Cardinality(Selected)
    BY <1>3, ClonesAre, SelectedInPlace DEF ParentOf, SelectInv
  <2>2. ASSUME NEW a \in Selected, Place(a) = Place(b) PROVE a = b
    <3>1. a \in Nat /\ b \in Nat /\ ~(Place(a) < Place(b)) /\ ~(Place(b) < Place(a))
      BY <2>2, PlacesType DEF SelectInv
    <3>2. ~(a < b) /\ ~(b < a)
      BY <3>1, PlacesGrow DEF SelectInv
    <3> QED
      BY <3>1, <3>2
  <2> QED
    BY <2>1, <2>2
<1>4. ASSUME NEW c \in Children PROVE parent[c] = b <=> (c \in Clones /\ ParentOf(c) = b)
  BY <1>1, <1>2
<1>5. ChildrenOf(b) = {c \in Clones : ParentOf(c) = b}
  BY <1>4, ClonesAre DEF ChildrenOf
<1>6. InPlace(Population - FreshCount, Cardinality(Selected), Place(b))
        = {c \in Clones : c % Cardinality(Selected) = Place(b)}
  BY ClonesAre DEF InPlace
<1> QED
  BY <1>3, <1>5, <1>6

\* Every clone has a survivor as its parent, no fresh explorer has one, and of two
\* survivors the better one has as many clones, or one more.
THEOREM BreedingKeepsFair == Spec => []BreedingIsFair
<1>1. ASSUME SelectInv, BredInv, step = "done"
      PROVE  \A c \in Children : IF c \in Clones THEN parent[c] \in Selected ELSE parent[c] = None
  <2> SUFFICES ASSUME NEW c \in Children, c \in Clones PROVE ParentOf(c) \in Selected
    BY <1>1 DEF BredInv
  <2> QED
    BY <1>1, ClonesAre, SomeoneSurvives, SelectedInPlace DEF SelectInv, ParentOf
<1>2. ASSUME SelectInv, BredInv, step = "done", NEW a \in Selected, NEW b \in Selected, a < b
      PROVE  Cardinality(ChildrenOf(a)) - Cardinality(ChildrenOf(b)) \in 0..1
  <2>1. Place(a) < Place(b)
    BY <1>2, PlacesGrow DEF SelectInv
  <2>2. /\ Cardinality(Selected) \in Nat \ {0}
        /\ Place(a) \in 0..Cardinality(Selected) - 1 /\ Place(b) \in 0..Cardinality(Selected) - 1
    BY <1>2, PlacesType DEF SelectInv
  <2> QED
    BY <1>2, <2>1, <2>2, ClonesAre, ChildrenInPlace, DealtEvenly
<1>3. SelectInv /\ BredInv => BreedingIsFair
  BY <1>1, <1>2 DEF BreedingIsFair
<1> QED
  BY <1>3, BredInvariant, PTL

\* With two survivors or more every clone gets a packet of one that is not its
\* parent, and if there are as many clones as survivors, all of them are heard of.
THEOREM EveryPacketCrosses == Spec => []PacketsCross
<1>1. ASSUME SelectInv, BredInv, step = "done"
      PROVE  /\ Selected # {} /\ Cardinality(Selected) \in Nat \ {0}
             /\ \A c \in Clones : ParentOf(c) \in Selected /\ Source(c) \in Selected
                  /\ Place(ParentOf(c)) = c % Cardinality(Selected)
                  /\ Place(Source(c)) = (c + 1) % Cardinality(Selected)
  BY <1>1, ClonesAre, SomeoneSurvives, SelectedInPlace DEF SelectInv, ParentOf, Source
<1>2. ASSUME SelectInv, BredInv, step = "done", 1 < Cardinality(Selected), NEW c \in Clones
      PROVE  Source(c) # ParentOf(c)
  <2> DEFINE m == Cardinality(Selected)
  <2>1. c \in Nat /\ m \in Nat \ {0} /\ 1 < m
    BY <1>1, <1>2, ClonesAre
  <2> HIDE DEF m
  <2>2. (c + 1) % m # c % m
    <3>1. c % m \in 0..m - 1 /\ (c + 1) % m = IF (c % m) + 1 = m THEN 0 ELSE (c % m) + 1
      BY <2>1, NextRemainder, Division
    <3> DEFINE r == c % m
    <3> HIDE DEF r
    <3>2. (IF r + 1 = m THEN 0 ELSE r + 1) # r
      BY <2>1, <3>1 DEF r
    <3> QED
      BY <3>1, <3>2 DEF r
  <2> QED
    BY <1>1, <1>2, <2>2 DEF m
<1>3. ASSUME SelectInv, BredInv, step = "done", NEW c \in Children
      PROVE  /\ packet[c] # None <=> (c \in Clones /\ Cardinality(Selected) > 1)
             /\ packet[c] # None => packet[c].source \in Selected \ {parent[c]}
             /\ packet[c] # None => packet[c].source = Source(c)
  <2>1. /\ packet[c] = IF c \in Clones THEN PacketFor(c) ELSE None
        /\ parent[c] = IF c \in Clones THEN ParentOf(c) ELSE None
    BY <1>3 DEF BredInv
  <2>2. CASE c \in Clones
    <3> DEFINE new == [source |-> Source(c), kind |-> PacketKind(Source(c))]
    <3>1. Source(c) \in Branches
      BY <1>1, <1>3, <2>2 DEF Selected
    <3>2. new \in [source : 1..Population, kind : {"TRY", "PROMISING"}] /\ new.source = Source(c)
      BY <3>1 DEF PacketKind, Branches
    <3>3. new # None
      BY <3>2, SelectionAssumption
    <3>4. PacketFor(c) = IF Cardinality(Selected) > 1 /\ Source(c) # ParentOf(c) THEN new ELSE None
      BY DEF PacketFor
    <3> HIDE DEF new
    <3> QED
      BY <1>1, <1>2, <1>3, <2>1, <2>2, <3>2, <3>3, <3>4
  <2> QED
    BY <2>1, <2>2
<1>4. ASSUME SelectInv, BredInv, step = "done", 1 < Cardinality(Selected),
             Cardinality(Selected) <= Cardinality(Clones), NEW b \in Selected
      PROVE  \E c \in Clones : packet[c].source = b
  <2> DEFINE m == Cardinality(Selected)
  <2>1. m \in Nat \ {0} /\ Place(b) \in 0..m - 1 /\ 1 < m
    BY <1>1, <1>4, PlacesType DEF SelectInv
  <2>2. m <= Population - FreshCount
    <3>1. Cardinality(Clones) = IF 0 > Population - FreshCount - 1 THEN 0
                                ELSE Population - FreshCount
      <4> DEFINE last == Population - FreshCount - 1
      <4>1. 0 \in Int /\ last \in Int /\ Clones = 0..last /\ Population - FreshCount \in Nat
        BY ClonesAre
      <4>2. last - 0 + 1 = Population - FreshCount
        BY <4>1
      <4> HIDE DEF last
      <4>3. Cardinality(Clones) = IF 0 > last THEN 0 ELSE last - 0 + 1
        BY <4>1, FS_Interval
      <4> QED
        BY <4>2, <4>3 DEF last
    <3> QED
      BY <1>4, <2>1, <3>1, ClonesAre
  <2> DEFINE c == IF Place(b) = 0 THEN m - 1 ELSE Place(b) - 1
  <2> HIDE DEF m
  <2>3. c \in Nat /\ c < m /\ (c + 1) % m = Place(b)
    BY <2>1, SmallRemainder
  <2> HIDE DEF c
  <2>4. c \in Clones
    BY <2>1, <2>2, <2>3, ClonesAre
  <2>5. Source(c) \in Selected /\ Place(Source(c)) = Place(b)
    BY <1>1, <1>4, <2>3, <2>4 DEF m
  <2>6. Source(c) = b
    <3>1. /\ Source(c) \in Nat /\ b \in Nat
          /\ ~(Place(Source(c)) < Place(b)) /\ ~(Place(b) < Place(Source(c)))
      BY <1>4, <2>5, PlacesType DEF SelectInv
    <3>2. ~(Source(c) < b) /\ ~(b < Source(c))
      BY <1>4, <2>5, <3>1, PlacesGrow DEF SelectInv
    <3> QED
      BY <3>1, <3>2
  <2>7. packet[c] # None => packet[c].source = b
    BY <1>3, <1>4, <2>4, <2>6, ClonesAre
  <2> QED
    BY <1>3, <1>4, <2>4, <2>7, ClonesAre
<1>5. SelectInv /\ BredInv => PacketsCross
  BY <1>3, <1>4, ClonesAre DEF PacketsCross
<1> QED
  BY <1>5, BredInvariant, PTL

=============================================================================
