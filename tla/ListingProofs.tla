----------------------------- MODULE ListingProofs -----------------------------
(***************************************************************************)
(* Proofs about Listing for levels of any size, any limits of a page and   *)
(* of an answer, and any sub-folders.                                      *)
(***************************************************************************)
EXTENDS Listing, FiniteSetTheorems, WellFoundedInduction, TLAPS

(* First and last members of sets of places, and pages.  Well-foundedness of *)
(* the naturals stands in for the inductions.                                *)

Below == {p \in Nat \X Nat : p[1] < p[2]}

\* A set of places that is not empty has a first member ...
LEMMA HasFirst ==
  ASSUME NEW S, S \subseteq Nat, S # {}
  PROVE  \E e \in S : \A x \in S : e <= x
<1>1. IsWellFoundedOn(Below, Nat)
  BY NatLessThanWellFounded DEF OpToRel, Below
<1>2. PICK e \in S : \A x \in S : ~(<<x, e>> \in Below)
  BY <1>1, WFMin
<1>3. \A x \in S : ~(x < e)
  BY <1>2 DEF Below
<1> QED
  BY <1>3

\* ... and, when it is bounded, a last one.
LEMMA HasLast ==
  ASSUME NEW n \in Nat, NEW S, S \subseteq 0 .. n, S # {}
  PROVE  \E e \in S : \A x \in S : x <= e
<1> DEFINE T == {n - x : x \in S}
<1>1. T \subseteq Nat /\ T # {}
  <2>1. \A x \in S : n - x \in Nat
    OBVIOUS
  <2>2. PICK x \in S : TRUE
    OBVIOUS
  <2>3. n - x \in T
    OBVIOUS
  <2> QED
    BY <2>1, <2>3
<1> HIDE DEF T
<1>2. PICK d \in T : \A y \in T : d <= y
  BY <1>1, HasFirst
<1> USE DEF T
<1>3. PICK e \in S : d = n - e
  OBVIOUS
<1>4. \A x \in S : n - e <= n - x
  BY <1>2, <1>3
<1>5. \A x \in S : x <= e
  BY <1>4
<1> QED
  BY <1>5

\* A page is a first part of what it is taken from, as long as asked for at most,
\* and not empty unless nothing is left.
LEMMA FirstOfFacts ==
  ASSUME NEW n \in Nat, NEW S, S \subseteq 0 .. n, NEW count \in Int
  PROVE  /\ FirstOf(S, count) \subseteq S
         /\ \A x \in S, y \in FirstOf(S, count) : x < y => x \in FirstOf(S, count)
         /\ count >= 0 => Cardinality(FirstOf(S, count)) <= count
         /\ count > 0 /\ S # {} => FirstOf(S, count) # {}
<1>1. IsFiniteSet(0 .. n)
  BY FS_Interval
<1>2. IsFiniteSet(S)
  BY <1>1, FS_Subset
<1>3. \A e : IsFiniteSet(BelowIn(e, S)) /\ Cardinality(BelowIn(e, S)) \in Nat
  <2>1. \A e : BelowIn(e, S) \in SUBSET S
    BY DEF BelowIn
  <2> QED
    BY <1>2, <2>1, FS_Subset, FS_CardinalityType
<1>4. FirstOf(S, count) = {e \in S : Cardinality(BelowIn(e, S)) < count}
  BY DEF FirstOf, BelowIn
<1>5. ASSUME NEW x \in S, NEW y \in FirstOf(S, count), x < y  PROVE x \in FirstOf(S, count)
  <2>1. BelowIn(x, S) \in SUBSET BelowIn(y, S)
    <3>1. \A m \in S : m < x => m < y
      <4>1. \A m \in S : m \in Int
        OBVIOUS
      <4>2. y \in S
        BY <1>4, <1>5
      <4> QED
        BY <4>1, <4>2, <1>5
    <3> QED
      BY <3>1 DEF BelowIn
  <2>2. Cardinality(BelowIn(x, S)) <= Cardinality(BelowIn(y, S))
    BY <2>1, <1>3, FS_Subset
  <2>3. Cardinality(BelowIn(y, S)) < count
    BY <1>4, <1>5
  <2>4. Cardinality(BelowIn(x, S)) \in Int /\ Cardinality(BelowIn(y, S)) \in Int
    BY <1>3
  <2>5. Cardinality(BelowIn(x, S)) < count
    BY <2>2, <2>3, <2>4
  <2> QED
    BY <2>5, <1>4, <1>5
<1>6. ASSUME count >= 0  PROVE Cardinality(FirstOf(S, count)) <= count
  <2>1. CASE FirstOf(S, count) = {}
    BY <1>6, <2>1, FS_EmptySet
  <2>2. CASE FirstOf(S, count) # {}
    <3>1. PICK F : F = FirstOf(S, count)
      OBVIOUS
    <3>2. F \subseteq 0 .. n /\ F # {} /\ F \subseteq S
      BY <2>2, <3>1, <1>4
    <3>3. PICK e \in F : \A x \in F : x <= e
      BY <3>2, HasLast
    <3>4. F \ {e} \in SUBSET BelowIn(e, S)
      BY <3>2, <3>3 DEF BelowIn
    <3>5. Cardinality(F \ {e}) <= Cardinality(BelowIn(e, S))
      BY <3>4, <1>3, FS_Subset
    <3>6. Cardinality(BelowIn(e, S)) < count
      BY <3>1, <1>4
    <3>7. IsFiniteSet(F)
      BY <3>2, <1>2, FS_Subset
    <3>8. Cardinality(F \ {e}) = Cardinality(F) - 1 /\ Cardinality(F) \in Nat
      BY <3>7, FS_RemoveElement, FS_CardinalityType
    <3> QED
      BY <3>1, <3>5, <3>6, <3>8, <1>3
  <2> QED
    BY <2>1, <2>2
<1>7. ASSUME count > 0, S # {}  PROVE FirstOf(S, count) # {}
  <2>1. S \subseteq Nat
    OBVIOUS
  <2>2. PICK e \in S : \A x \in S : e <= x
    BY <2>1, <1>7, HasFirst
  <2>3. BelowIn(e, S) = {}
    <3>1. \A m \in S : ~(m < e)
      BY <2>1, <2>2
    <3> QED
      BY <3>1 DEF BelowIn
  <2>4. Cardinality(BelowIn(e, S)) < count
    BY <1>7, <2>3, FS_EmptySet
  <2> QED
    BY <1>4, <2>4
<1> QED
  BY <1>4, <1>5, <1>6, <1>7

-------------------------------------------------------------------------------
(* What the invariants need to be inductive.                                 *)

\* A call has collected, of what stays, all up to where the next page starts.
PageInv ==
  pc = "page" =>
    /\ cursor <= after
    /\ \A e \in found : cursor < e /\ e <= after
    /\ \A e \in stayed : Wanted(e) => (e \in seen \cup found <=> e <= after)

\* An answer starts after its call's cursor and its own cursor is its last entry.
AnswerInv ==
  pc = "answered" =>
    /\ \A e \in found : cursor < e
    /\ next # None => next \in found /\ \A e \in found : e <= next

\* A failed call leaves the walk where it was.
FailedInv ==
  pc = "failed" =>
    /\ found = {}
    /\ \A e \in stayed : Wanted(e) => (e \in seen <=> e <= cursor)

\* The earlier calls of a walk returned nothing after the cursor, and only
\* ListContents has a cursor.
SeenInv ==
  /\ \A e \in seen : e <= cursor
  /\ pc = "idle" \/ listing # "contents" => cursor = None /\ seen = {}
  /\ pc = "idle" => after = None /\ found = {}

IInv ==
  /\ TypeOK
  /\ PageInv
  /\ AnswerInv
  /\ FailedInv
  /\ SeenInv
  /\ CursorExact
  /\ CutIsTold

-------------------------------------------------------------------------------

LEMMA Numbers ==
  /\ Entries \subseteq Int /\ Places \subseteq Int /\ None \notin Entries
  /\ \A e \in Entries : None < e
  BY BoundsAssumption DEF Entries, Places, None

\* Sets of entries are finite.
LEMMA FiniteEntries ==
  ASSUME NEW S, S \subseteq Entries
  PROVE  IsFiniteSet(S) /\ Cardinality(S) \in Nat
<1>1. IsFiniteSet(Entries)
  BY BoundsAssumption, FS_Interval DEF Entries
<1> QED
  BY <1>1, FS_Subset, FS_CardinalityType

\* FirstOf for sets of entries.
LEMMA FirstEntries ==
  ASSUME NEW S, S \subseteq Entries, NEW count \in Int
  PROVE  /\ FirstOf(S, count) \subseteq S
         /\ \A x \in S, y \in FirstOf(S, count) : x < y => x \in FirstOf(S, count)
         /\ count >= 0 => Cardinality(FirstOf(S, count)) <= count
         /\ count > 0 /\ S # {} => FirstOf(S, count) # {}
  BY BoundsAssumption, FirstOfFacts DEF Entries

\* A set that is not longer than what is asked for is taken whole.
LEMMA FirstAll ==
  ASSUME NEW S, S \subseteq Entries, NEW count \in Int, Cardinality(S) <= count
  PROVE  FirstOf(S, count) = S
<1>1. ASSUME NEW e \in S  PROVE Cardinality(BelowIn(e, S)) < count
  <2>1. IsFiniteSet(S) /\ Cardinality(S) \in Nat
    BY FiniteEntries
  <2>2. \A m \in S : m < e => m # e
    BY Numbers
  <2>3. BelowIn(e, S) \in SUBSET (S \ {e})
    BY <2>2 DEF BelowIn
  <2>4. IsFiniteSet(S \ {e}) /\ Cardinality(S \ {e}) = Cardinality(S) - 1
    BY <2>1, FS_RemoveElement
  <2>5. Cardinality(BelowIn(e, S)) <= Cardinality(S \ {e}) /\ IsFiniteSet(BelowIn(e, S))
    BY <2>3, <2>4, FS_Subset
  <2>6. Cardinality(BelowIn(e, S)) \in Nat
    BY <2>5, FS_CardinalityType
  <2> QED
    BY <2>1, <2>4, <2>5, <2>6
<1> QED
  BY <1>1 DEF FirstOf

\* A page is a first part of the rest.
LEMMA PageFacts ==
  ASSUME TypeOK, NEW page, IsPage(page)
  PROVE  /\ Rest \subseteq Entries /\ page \subseteq Rest
         /\ \A e \in page : after < e
         /\ \A x \in Rest, y \in page : x < y => x \in page
<1>1. Rest \subseteq Entries
  BY DEF Rest, TypeOK
<1>2. PICK size \in 1 .. MaxPage : page = FirstOf(Rest, size)
  BY DEF IsPage
<1>3. page \subseteq Rest /\ \A x \in Rest, y \in page : x < y => x \in page
  BY <1>1, <1>2, FirstEntries, BoundsAssumption
<1> QED
  BY <1>1, <1>3 DEF Rest

\* What stays is in the rest, or before it.
LEMMA StayedInRest ==
  ASSUME TypeOK, NEW e \in stayed
  PROVE  e \in Entries /\ (e <= after \/ e \in Rest)
  BY Numbers DEF TypeOK, Rest

-------------------------------------------------------------------------------
(* One page of ListContents.                                                *)

LEMMA ContentsStep ==
  ASSUME IInv, pc = "page", listing = "contents", NEW page, IsPage(page), ContentsPage(page),
         UNCHANGED <<level, listing, cursor, historyVars>>
  PROVE  IInv'
<1> DEFINE entries == page \ {Marker}
           taken == FirstOf(entries, MaxListEntries - Cardinality(found))
           all == found \cup taken
<1>1. TypeOK /\ PageInv /\ SeenInv /\ found \subseteq Entries /\ Cardinality(found) <= MaxListEntries
  BY DEF IInv, TypeOK
<1>2. Cardinality(found) \in Nat
  BY <1>1, FiniteEntries
<1>3. /\ page \subseteq Rest /\ page \subseteq Entries /\ \A e \in page : after < e
      /\ \A x \in Rest, y \in page : x < y => x \in page
  BY <1>1, PageFacts
<1>4. /\ taken \subseteq entries
      /\ \A x \in entries, y \in taken : x < y => x \in taken
      /\ Cardinality(taken) <= MaxListEntries - Cardinality(found)
  <2>1. MaxListEntries - Cardinality(found) \in Int /\ MaxListEntries - Cardinality(found) >= 0
    BY <1>1, <1>2, BoundsAssumption
  <2>2. entries \subseteq Entries
    BY <1>3
  <2> QED
    BY <2>1, <2>2, FirstEntries
<1>5. Cardinality(all) <= MaxListEntries /\ all \subseteq Entries
  <2>1. taken \subseteq Entries
    BY <1>3, <1>4
  <2>2. IsFiniteSet(found) /\ IsFiniteSet(taken) /\ Cardinality(taken) \in Nat
    BY <1>1, <2>1, FiniteEntries
  <2>3. Cardinality(all) <= Cardinality(found) + Cardinality(taken)
    <3>1. IsFiniteSet(found \cap taken) /\ Cardinality(found \cap taken) \in Nat
      BY <1>1, FiniteEntries
    <3>2. Cardinality(all) = Cardinality(found) + Cardinality(taken) - Cardinality(found \cap taken)
      BY <2>2, FS_Union
    <3> QED
      BY <1>2, <2>2, <3>1, <3>2
  <2>4. Cardinality(all) \in Nat
    BY <1>1, <2>1, FiniteEntries
  <2>5. Cardinality(all) <= MaxListEntries
    <3>1. MaxListEntries \in Int
      BY BoundsAssumption
    <3>2. Cardinality(taken) <= MaxListEntries - Cardinality(found)
      BY <1>4
    <3> HIDE DEF taken, all
    <3> QED
      BY <1>2, <2>2, <2>3, <2>4, <3>1, <3>2
  <2> QED
    BY <1>1, <2>1, <2>5
<1>6. found' = all
  BY DEF ContentsPage
<1>7. \A e \in all : cursor < e /\ (e <= after \/ e \in taken)
  <2>1. \A e \in taken : after < e /\ e \in Int
    BY <1>3, <1>4, Numbers
  <2>2. cursor <= after /\ cursor \in Int /\ after \in Int
    BY <1>1, Numbers DEF PageInv, TypeOK
  <2>3. \A e \in found : cursor < e /\ e <= after
    BY <1>1 DEF PageInv
  <2>4. \A e \in taken : cursor < e
    <3> HIDE DEF taken
    <3> QED
      BY <2>1, <2>2
  <2> QED
    BY <2>3, <2>4
<1>8. \A e \in stayed : e # Marker => e \in Int /\ (e <= after => e \in seen \cup found)
                                     /\ (~(e <= after) => e \in Rest)
  BY <1>1, StayedInRest, Numbers DEF PageInv, Wanted
<1>9. \A e \in seen : e <= cursor /\ e \in Int
  BY <1>1, Numbers DEF SeenInv, TypeOK
<1>10. cursor \in Int /\ after \in Int /\ \A e \in Entries : e \in Int /\ e # None
  BY <1>1, Numbers DEF TypeOK
<1> HIDE DEF entries, taken, all
<1>11. entries = page \ {Marker}
  BY DEF entries
<1>12. CASE pc' = "answered" /\ UNCHANGED after /\ truncated' = TRUE
            /\ next' \in all /\ \A x \in all : x <= next'
  <2>1. TypeOK'
    BY <1>1, <1>5, <1>6, <1>12 DEF TypeOK, historyVars, Places
  <2>2. AnswerInv' /\ PageInv' /\ FailedInv' /\ SeenInv' /\ CutIsTold'
    BY <1>1, <1>6, <1>7, <1>12 DEF AnswerInv, PageInv, FailedInv, SeenInv, CutIsTold, historyVars
  <2>3. ASSUME NEW e \in stayed, e # Marker
        PROVE  e \in seen \cup all <=> e <= next'
    <3>1. next' \in Int /\ cursor < next'
      BY <1>5, <1>7, <1>10, <1>12
    <3>2. ASSUME e \in seen \cup all  PROVE e <= next'
      <4>1. e \in all => e <= next'
        BY <1>12
      <4>2. e \in seen => e <= cursor /\ e \in Int
        BY <1>9
      <4> QED
        BY <1>10, <3>1, <3>2, <4>1, <4>2
    <3>3. ASSUME e <= next', ~(e <= after)  PROVE e \in all
      <4>1. e \in Rest /\ e \in Int
        BY <1>8, <2>3, <3>3
      <4>2. next' \in taken
        BY <1>7, <1>10, <1>12, <3>1, <3>3, <4>1
      <4>3. e = next' \/ e < next'
        BY <3>1, <3>3, <4>1
      <4>4. e \in page
        BY <1>3, <1>4, <1>11, <4>1, <4>2, <4>3
      <4>5. e \in taken
        BY <1>4, <1>11, <2>3, <4>2, <4>3, <4>4
      <4> QED
        BY <4>5 DEF all
    <3>4. e <= after => e \in seen \cup all
      BY <1>8, <2>3 DEF all
    <3> QED
      BY <3>2, <3>3, <3>4
  <2>4. CursorExact'
    BY <1>6, <1>10, <1>5, <1>12, <2>3 DEF CursorExact, historyVars
  <2> QED
    BY <2>1, <2>2, <2>4 DEF IInv
<1>13. CASE taken = entries /\ NextPage(page)
  <2>1. PICK last \in page : IsLast(last, page) /\ after' = last
    BY <1>13 DEF NextPage
  <2>2. pc' = "page" /\ next' = next /\ truncated' = truncated
    BY <1>13 DEF NextPage, answerVars
  <2>3. TypeOK'
    BY <1>1, <1>3, <1>5, <1>6, <2>1, <2>2 DEF TypeOK, historyVars, Places
  <2>4. last \in Int /\ after < last /\ \A x \in page : x <= last
    BY <1>3, <1>10, <2>1 DEF IsLast
  <2>5. cursor <= last /\ \A e \in all : cursor < e /\ e <= last
    <3>1. cursor <= after
      BY <1>1 DEF PageInv
    <3>2. \A e \in all : e \in Int
      BY <1>5, <1>10
    <3> QED
      BY <1>4, <1>7, <1>10, <1>11, <2>4, <3>1, <3>2
  <2>6. ASSUME NEW e \in stayed, e # Marker
        PROVE  e \in seen \cup all <=> e <= last
    <3>1. e \in seen => e <= last
      BY <1>9, <1>10, <2>4, <2>5
    <3>2. e \in all => e <= last
      BY <2>5
    <3>3. e <= last /\ ~(e <= after) => e \in all
      <4>1. SUFFICES ASSUME e <= last, ~(e <= after)  PROVE e \in all
        OBVIOUS
      <4>2. e \in Rest /\ e \in Int
        BY <1>8, <2>6, <4>1
      <4>3. e \in page
        BY <1>3, <2>1, <2>4, <4>1, <4>2
      <4> QED
        BY <1>11, <1>13, <2>6, <4>3 DEF all
    <3>4. e <= after => e \in seen \cup all
      BY <1>8, <2>6 DEF all
    <3> QED
      BY <3>1, <3>2, <3>3, <3>4
  <2>7. PageInv'
    BY <1>6, <2>1, <2>5, <2>6 DEF PageInv, Wanted, historyVars
  <2>8. AnswerInv' /\ FailedInv' /\ SeenInv' /\ CursorExact' /\ CutIsTold'
    BY <1>1, <2>2 DEF AnswerInv, FailedInv, SeenInv, CursorExact, CutIsTold, historyVars
  <2> QED
    BY <2>3, <2>7, <2>8 DEF IInv
<1>14. CASE taken = entries /\ page = Rest /\ AnswerWith(FALSE, None)
  <2>1. pc' = "answered" /\ next' = None /\ truncated' = FALSE /\ after' = after
    BY <1>14 DEF AnswerWith
  <2>2. TypeOK'
    BY <1>1, <1>5, <1>6, <2>1 DEF TypeOK, historyVars, Places
  <2>3. AnswerInv' /\ PageInv' /\ FailedInv' /\ SeenInv' /\ CutIsTold'
    BY <1>1, <1>6, <1>7, <2>1 DEF AnswerInv, PageInv, FailedInv, SeenInv, CutIsTold, historyVars
  <2>4. \A e \in stayed : e # Marker => e \in seen \cup all
    BY <1>8, <1>11, <1>14 DEF all
  <2>5. CursorExact'
    BY <1>6, <2>1, <2>4 DEF CursorExact, historyVars
  <2> QED
    BY <2>2, <2>3, <2>5 DEF IInv
<1>15. \/ \E e \in all : IsLast(e, all) /\ AnswerWith(TRUE, e)
       \/ taken = entries /\ NextPage(page)
       \/ taken = entries /\ page = Rest /\ AnswerWith(FALSE, None)
  BY <1>6 DEF ContentsPage, entries, taken, all
<1>16. ASSUME NEW e \in all, IsLast(e, all), AnswerWith(TRUE, e)  PROVE IInv'
  BY <1>12, <1>16 DEF AnswerWith, IsLast
<1> QED
  BY <1>13, <1>14, <1>15, <1>16

-------------------------------------------------------------------------------
(* One page of ListObjects, ListFolders or GetFolder.                       *)

LEMMA CapStep ==
  ASSUME IInv, pc = "page", listing # "contents", NEW page, IsPage(page), CapPage(page),
         UNCHANGED <<level, listing, cursor, historyVars>>
  PROVE  IInv'
<1> DEFINE all == found \cup Kept(page)
           count == Cardinality(all)
<1>1. TypeOK /\ PageInv /\ SeenInv /\ found \subseteq Entries
  BY DEF IInv, TypeOK
<1>2. /\ page \subseteq Rest /\ page \subseteq Entries /\ \A e \in page : after < e
      /\ \A x \in Rest, y \in page : x < y => x \in page
  BY <1>1, PageFacts
<1>3. Kept(page) \subseteq page /\ \A e \in page : Wanted(e) => e \in Kept(page)
  BY <1>1 DEF Kept, Wanted, TypeOK, Listings
<1>4. all \subseteq Entries /\ count \in Nat
  <2>1. all \subseteq Entries
    BY <1>1, <1>2, <1>3
  <2> QED
    BY <2>1, FiniteEntries
<1>5. cursor = None /\ seen = {}
  BY <1>1 DEF SeenInv
<1>6. after \in Int /\ cursor <= after /\ \A e \in Entries : e \in Int /\ None < e
  BY <1>1, Numbers DEF PageInv, TypeOK
<1>7. \A e \in found : e <= after
  BY <1>1 DEF PageInv
\* What stays and is wanted is collected, or lies after all that is.
<1>8. ASSUME NEW e \in stayed, Wanted(e), e \notin all
      PROVE  e \in Rest \ page /\ \A f \in all : f < e
  <2>1. e \in Entries /\ (e <= after \/ e \in Rest)
    BY <1>1, StayedInRest
  <2>2. ~(e <= after)
    BY <1>1, <1>5, <1>8 DEF PageInv
  <2>3. e \in Rest \ page
    BY <1>3, <1>8, <2>1, <2>2
  <2>4. ASSUME NEW f \in found  PROVE f < e
    BY <1>1, <1>6, <1>7, <2>1, <2>2
  <2>5. ASSUME NEW f \in page  PROVE f < e
    <3>1. ~(e < f) /\ e # f
      BY <1>2, <2>3
    <3> QED
      BY <1>2, <1>6, <2>1, <3>1
  <2> QED
    BY <1>3, <2>3, <2>4, <2>5
<1>9. \A e \in all : cursor < e
  BY <1>4, <1>5, <1>6
<1>10. MaxListEntries \in Int /\ MaxListEntries > 0
  BY BoundsAssumption
<1> HIDE DEF all, count
<1>11. CASE /\ pc' = "answered" /\ next' = None /\ truncated' \in BOOLEAN /\ UNCHANGED after
            /\ found' \subseteq all
            /\ listing # "tree" => Cardinality(found') <= MaxListEntries
            /\ \A e \in stayed : Wanted(e) =>
                 \/ e \in found'
                 \/ /\ IF listing = "tree" THEN Cardinality(found') >= MaxListEntries
                       ELSE truncated'
                    /\ \A f \in found' : f < e
  <2>1. TypeOK'
    BY <1>1, <1>4, <1>11 DEF TypeOK, historyVars, Places
  <2>2. CutIsTold'
    BY <1>11 DEF CutIsTold, Wanted, historyVars
  <2>3. AnswerInv' /\ PageInv' /\ FailedInv' /\ SeenInv' /\ CursorExact'
    BY <1>1, <1>9, <1>11 DEF AnswerInv, PageInv, FailedInv, SeenInv, CursorExact, historyVars
  <2> QED
    BY <2>1, <2>2, <2>3 DEF IInv
<1>12. CASE /\ listing # "tree" /\ count >= MaxListEntries
            /\ found' = FirstOf(all, MaxListEntries)
            /\ AnswerWith(count > MaxListEntries \/ page # Rest, None)
  <2>1. /\ pc' = "answered" /\ next' = None /\ UNCHANGED after
        /\ truncated' = (count > MaxListEntries \/ page # Rest)
    BY <1>12 DEF AnswerWith
  <2>2. /\ found' \subseteq all /\ Cardinality(found') <= MaxListEntries
        /\ \A x \in all, y \in found' : x < y => x \in found'
    <3>1. MaxListEntries >= 0
      BY <1>10
    <3> QED
      BY <1>4, <1>10, <1>12, <3>1, FirstEntries
  <2>3. count <= MaxListEntries => found' = all
    BY <1>4, <1>10, <1>12, FirstAll DEF count
  <2>4. ASSUME NEW e \in stayed, Wanted(e), e \notin found'
        PROVE  truncated' /\ \A f \in found' : f < e
    <3>1. CASE e \in all
      <4>1. count > MaxListEntries
        BY <1>4, <1>10, <2>3, <2>4, <3>1
      <4>2. \A f \in found' : ~(e < f) /\ e # f
        BY <2>2, <2>4, <3>1
      <4>3. \A f \in all : f \in Int
        BY <1>4, <1>6
      <4>4. \A f \in found' : f < e
        BY <2>2, <3>1, <4>2, <4>3
      <4> QED
        BY <2>1, <4>1, <4>4
    <3>2. CASE e \notin all
      <4>1. page # Rest /\ \A f \in all : f < e
        BY <1>8, <2>4, <3>2
      <4> QED
        BY <2>1, <2>2, <4>1
    <3> QED
      BY <3>1, <3>2
  <2> QED
    BY <1>11, <1>12, <2>1, <2>2, <2>4
<1>13. CASE /\ found' = all /\ AnswerWith(FALSE, None)
            /\ page = Rest \/ (listing = "tree" /\ ~(count < MaxListEntries))
            /\ listing # "tree" => count < MaxListEntries
  <2>1. pc' = "answered" /\ next' = None /\ UNCHANGED after /\ truncated' = FALSE
    BY <1>13 DEF AnswerWith
  <2>2. Cardinality(found') = count
    BY <1>13 DEF count
  <2>3. listing # "tree" => Cardinality(found') <= MaxListEntries
    BY <1>4, <1>10, <1>13, <2>2
  <2>4. ASSUME NEW e \in stayed, Wanted(e), e \notin found'
        PROVE  /\ listing = "tree" /\ Cardinality(found') >= MaxListEntries
               /\ \A f \in found' : f < e
    <3>1. page # Rest /\ \A f \in all : f < e
      BY <1>8, <1>13, <2>4
    <3>2. count >= MaxListEntries
      BY <1>4, <1>10, <1>13, <3>1
    <3> QED
      BY <1>13, <2>2, <3>1, <3>2
  <2> QED
    BY <1>11, <1>13, <2>1, <2>3, <2>4
<1>14. CASE /\ found' = all /\ NextPage(page)
            /\ listing # "tree" => count < MaxListEntries
  <2>1. PICK last \in page : IsLast(last, page) /\ after' = last
    BY <1>14 DEF NextPage
  <2>2. pc' = "page" /\ next' = next /\ truncated' = truncated
    BY <1>14 DEF NextPage, answerVars
  <2>3. Cardinality(found') = count
    BY <1>14 DEF count
  <2>4. listing # "tree" => Cardinality(found') <= MaxListEntries
    BY <1>4, <1>10, <1>14, <2>3
  <2>5. TypeOK'
    BY <1>1, <1>2, <1>4, <1>14, <2>1, <2>2, <2>4 DEF TypeOK, historyVars, Places
  <2>6. last \in Int /\ after < last /\ \A x \in page : x <= last
    BY <1>2, <1>6, <2>1 DEF IsLast
  <2>7. \A e \in all : e <= last
    <3>1. \A e \in found : e \in Int
      BY <1>1, <1>6
    <3>2. \A e \in found : e <= last
      BY <1>6, <1>7, <2>6, <3>1
    <3> QED
      BY <1>3, <2>6, <3>2 DEF all
  <2>8. ASSUME NEW e \in stayed, Wanted(e)
        PROVE  e \in seen' \cup found' <=> e <= last
    <3>1. seen' = {} /\ found' = all
      BY <1>5, <1>14 DEF historyVars
    <3>2. e \in all => e <= last
      BY <2>7
    <3>3. e \notin all => e \in Rest \ page
      BY <1>8, <2>8
    <3>4. e \in Rest \ page => ~(e < last) /\ e # last
      BY <1>2, <2>1
    <3>5. e \in Int
      BY <1>1, <1>6, StayedInRest
    <3> QED
      BY <2>6, <3>1, <3>2, <3>3, <3>4, <3>5
  <2>9. cursor <= last
    <3>1. cursor \in Int
      BY <1>1, Numbers DEF TypeOK
    <3> QED
      BY <1>6, <2>6, <3>1
  <2>10. PageInv'
    BY <1>9, <1>14, <2>1, <2>2, <2>7, <2>8, <2>9 DEF PageInv, Wanted, historyVars
  <2>11. AnswerInv' /\ FailedInv' /\ SeenInv' /\ CursorExact' /\ CutIsTold'
    BY <1>1, <2>2 DEF AnswerInv, FailedInv, SeenInv, CursorExact, CutIsTold, historyVars
  <2> QED
    BY <2>5, <2>10, <2>11 DEF IInv
<1>15. \/ /\ listing # "tree" /\ count >= MaxListEntries
          /\ found' = FirstOf(all, MaxListEntries)
          /\ AnswerWith(count > MaxListEntries \/ page # Rest, None)
       \/ /\ ~(listing # "tree" /\ count >= MaxListEntries)
          /\ found' = all
          /\ IF page # Rest /\ count < MaxListEntries THEN NextPage(page)
             ELSE AnswerWith(FALSE, None)
  BY DEF CapPage, count, all
<1>16. count >= MaxListEntries \/ count < MaxListEntries
  BY <1>4, <1>10
<1> QED
  BY <1>12, <1>13, <1>14, <1>15, <1>16

-------------------------------------------------------------------------------
(* The caller, failures and other requests.                                 *)

LEMMA CallerStep ==
  ASSUME IInv, Begin \/ Resume \/ Retry
  PROVE  IInv'
<1>1. TypeOK /\ AnswerInv /\ FailedInv /\ SeenInv /\ CursorExact
  BY DEF IInv
<1>2. stayed \subseteq Entries /\ \A e \in Entries : e \in Int /\ None < e
  BY <1>1, Numbers DEF TypeOK
<1>3. Cardinality({}) = 0
  BY FS_EmptySet
<1>4. CASE Begin
  <2>1. cursor = None /\ after = None /\ seen = {} /\ found = {}
    BY <1>1, <1>4 DEF SeenInv, Begin
  <2>2. TypeOK'
    BY <1>1, <1>4 DEF TypeOK, Begin, callVars, answerVars
  <2>3. None \in Int /\ level \subseteq Entries
    BY <1>1 DEF None, TypeOK
  <2>4. None <= None /\ \A e \in level : ~(e <= None)
    BY <1>2, <2>3
  <2>5. PageInv'
    BY <1>4, <2>1, <2>4 DEF PageInv, Wanted, Begin, callVars
  <2>6. AnswerInv' /\ FailedInv' /\ SeenInv' /\ CursorExact' /\ CutIsTold'
    BY <1>4, <2>1 DEF AnswerInv, FailedInv, SeenInv, CursorExact, CutIsTold, Begin, callVars
  <2> QED
    BY <2>2, <2>5, <2>6 DEF IInv
<1>5. CASE Resume
  <2>1. /\ pc = "answered" /\ listing = "contents" /\ next # None
        /\ pc' = "page" /\ cursor' = next /\ after' = next /\ found' = {}
        /\ seen' = seen \cup found
        /\ UNCHANGED <<level, listing, answerVars, stayed>>
    BY <1>5 DEF Resume, Call
  <2>2. TypeOK'
    BY <1>1, <1>3, <2>1, BoundsAssumption DEF TypeOK, answerVars
  <2>3. next \in found /\ next \in Int /\ cursor < next /\ cursor \in Int
    BY <1>1, <2>1, Numbers DEF AnswerInv, TypeOK
  <2>4. \A e \in seen : e <= next
    <3>1. \A e \in seen : e <= cursor /\ e \in Int
      BY <1>1, Numbers DEF SeenInv, TypeOK
    <3> QED
      BY <2>3, <3>1
  <2>5. \A e \in found : e <= next
    BY <1>1, <2>1 DEF AnswerInv
  <2>6. PageInv'
    <3>1. \A e \in stayed : e # Marker => (e \in seen \cup found <=> e <= next)
      BY <1>1, <2>1 DEF CursorExact
    <3>2. next <= next
      BY <2>3
    <3> QED
      BY <2>1, <3>1, <3>2 DEF PageInv, Wanted
  <2>7. SeenInv'
    BY <2>1, <2>4, <2>5 DEF SeenInv
  <2>8. AnswerInv' /\ FailedInv' /\ CursorExact' /\ CutIsTold'
    BY <2>1 DEF AnswerInv, FailedInv, CursorExact, CutIsTold
  <2> QED
    BY <2>2, <2>6, <2>7, <2>8 DEF IInv
<1>6. CASE Retry
  <2>1. /\ pc = "failed" /\ pc' = "page" /\ cursor' = cursor /\ after' = cursor
        /\ found' = {} /\ seen' = seen
        /\ UNCHANGED <<level, listing, answerVars, stayed>>
    BY <1>6 DEF Retry, Call
  <2>2. TypeOK'
    BY <1>1, <1>3, <2>1, BoundsAssumption DEF TypeOK, answerVars
  <2>3. cursor <= cursor
    BY <1>1, Numbers DEF TypeOK
  <2>4. PageInv'
    BY <1>1, <2>1, <2>3 DEF PageInv, FailedInv, Wanted
  <2>5. AnswerInv' /\ FailedInv' /\ SeenInv' /\ CursorExact' /\ CutIsTold'
    BY <1>1, <2>1 DEF AnswerInv, FailedInv, SeenInv, CursorExact, CutIsTold
  <2> QED
    BY <2>2, <2>4, <2>5 DEF IInv
<1> QED
  BY <1>4, <1>5, <1>6

LEMMA FaultStep ==
  ASSUME IInv, Fault
  PROVE  IInv'
<1>1. TypeOK /\ PageInv /\ SeenInv
  BY DEF IInv
<1>2. /\ pc = "page" /\ pc' = "failed" /\ found' = {}
      /\ UNCHANGED <<level, listing, cursor, after, next, truncated, seen, stayed>>
  BY DEF Fault, answerVars, historyVars
<1>3. Cardinality({}) = 0
  BY FS_EmptySet
<1>4. TypeOK'
  BY <1>1, <1>2, <1>3, BoundsAssumption DEF TypeOK
\* The entries of the failed call are dropped, so what was seen ends at the cursor.
<1>5. \A e \in stayed : Wanted(e) => (e \in seen <=> e <= cursor)
  <2>1. cursor \in Int /\ after \in Int /\ cursor <= after
    BY <1>1, <1>2, Numbers DEF PageInv, TypeOK
  <2>2. \A e \in stayed : e \in Int
    BY <1>1, Numbers DEF TypeOK
  <2>3. \A e \in found : cursor < e /\ e \in Int
    BY <1>1, <1>2, Numbers DEF PageInv, TypeOK
  <2>4. \A e \in seen : e <= cursor
    BY <1>1 DEF SeenInv
  <2>5. ASSUME NEW e \in stayed, Wanted(e), e <= cursor  PROVE e \in seen
    <3>1. e <= after
      BY <2>1, <2>2, <2>5
    <3>2. e \in seen \cup found
      BY <1>1, <1>2, <2>5, <3>1 DEF PageInv
    <3>3. e \notin found
      BY <2>1, <2>2, <2>3, <2>5
    <3> QED
      BY <3>2, <3>3
  <2> QED
    BY <2>4, <2>5
<1>6. FailedInv'
  BY <1>2, <1>5 DEF FailedInv, Wanted
<1>7. PageInv' /\ AnswerInv' /\ SeenInv' /\ CursorExact' /\ CutIsTold'
  BY <1>1, <1>2 DEF PageInv, AnswerInv, SeenInv, CursorExact, CutIsTold
<1> QED
  BY <1>4, <1>6, <1>7 DEF IInv

\* Other requests can only take from what stays.
LEMMA OthersStep ==
  ASSUME IInv, level' \subseteq Entries, stayed' \subseteq stayed, stayed' \subseteq level',
         UNCHANGED <<listing, pc, callVars, answerVars, seen>>
  PROVE  IInv'
<1>1. /\ listing' = listing /\ pc' = pc /\ cursor' = cursor /\ after' = after
      /\ found' = found /\ next' = next /\ truncated' = truncated /\ seen' = seen
  BY DEF callVars, answerVars
<1>2. TypeOK'
  BY <1>1 DEF IInv, TypeOK
<1>3. PageInv' /\ AnswerInv' /\ FailedInv' /\ SeenInv'
  BY <1>1 DEF IInv, PageInv, AnswerInv, FailedInv, SeenInv, Wanted
<1>4. CursorExact' /\ CutIsTold'
  BY <1>1 DEF IInv, CursorExact, CutIsTold, Wanted
<1> QED
  BY <1>2, <1>3, <1>4 DEF IInv

-------------------------------------------------------------------------------

THEOREM Inductive == Spec => []IInv
<1>1. Init => IInv
  <2> SUFFICES ASSUME Init  PROVE IInv
    OBVIOUS
  <2>1. TypeOK
    <3>1. Cardinality({}) = 0
      BY FS_EmptySet
    <3>2. found = {} => Cardinality(found) <= MaxListEntries
      BY <3>1, BoundsAssumption
    <3> QED
      BY <3>2 DEF Init, TypeOK, Places
  <2>2. PageInv /\ AnswerInv /\ FailedInv /\ SeenInv /\ CursorExact /\ CutIsTold
    BY DEF Init, PageInv, AnswerInv, FailedInv, SeenInv, CursorExact, CutIsTold
  <2> QED
    BY <2>1, <2>2 DEF IInv
<1>2. IInv /\ [Next]_vars => IInv'
  <2> SUFFICES ASSUME IInv, [Next]_vars  PROVE IInv'
    OBVIOUS
  <2>1. level \subseteq Entries /\ stayed \subseteq level
    BY DEF IInv, TypeOK
  <2>2. CASE Begin \/ Resume \/ Retry
    BY <2>2, CallerStep
  <2>3. CASE Page
    <3>1. PICK page : /\ IsPage(page)
                      /\ IF listing = "contents" THEN ContentsPage(page) ELSE CapPage(page)
      BY <2>3 DEF Page
    <3>2. pc = "page" /\ UNCHANGED <<level, listing, cursor, historyVars>>
      BY <2>3 DEF Page
    <3>3. CASE listing = "contents"
      BY <3>1, <3>2, <3>3, ContentsStep
    <3>4. CASE listing # "contents"
      BY <3>1, <3>2, <3>4, CapStep
    <3> QED
      BY <3>3, <3>4
  <2>4. CASE Fault
    BY <2>4, FaultStep
  <2>5. ASSUME NEW e \in Entries, Add(e)  PROVE IInv'
    BY <2>1, <2>5, OthersStep DEF Add, historyVars
  <2>6. ASSUME NEW e \in Entries, Remove(e)  PROVE IInv'
    <3>1. level' = level \ {e} /\ stayed' = stayed \ {e}
      BY <2>6 DEF Remove
    <3> QED
      BY <2>1, <2>6, <3>1, OthersStep DEF Remove
  <2>7. CASE UNCHANGED vars
    BY <2>1, <2>7, OthersStep DEF vars, historyVars
  <2> QED
    BY <2>2, <2>3, <2>4, <2>5, <2>6, <2>7 DEF Next
<1> QED
  BY <1>1, <1>2, PTL DEF Spec

\* Every listing but GetFolder's ends at MaxListEntries, with whatever pages
\* storage answers.
THEOREM TypeCorrect == Spec => []TypeOK
<1>1. IInv => TypeOK
  BY DEF IInv
<1> QED
  BY <1>1, Inductive, PTL

\* ListContents' cursor is exact: all that stays up to it was returned by this
\* or an earlier call, and nothing after it.
THEOREM CursorIsExact == Spec => []CursorExact
<1>1. IInv => CursorExact
  BY DEF IInv
<1> QED
  BY <1>1, Inductive, PTL

\* No call returns what an earlier call of the walk did: those ended at the
\* cursor and this one starts after it.
THEOREM NeverReturnedTwice == Spec => []NeverTwice
<1>1. IInv => NeverTwice
  <2> SUFFICES ASSUME IInv  PROVE NeverTwice
    OBVIOUS
  <2>1. TypeOK /\ PageInv /\ AnswerInv /\ FailedInv /\ SeenInv
    BY DEF IInv
  <2>2. \A e \in found : cursor < e
    BY <2>1 DEF TypeOK, PageInv, AnswerInv, FailedInv, SeenInv
  <2>3. \A e \in seen : e <= cursor /\ e \in Int
    BY <2>1, Numbers DEF SeenInv, TypeOK
  <2>4. cursor \in Int
    BY <2>1, Numbers DEF TypeOK
  <2> QED
    BY <2>2, <2>3, <2>4 DEF NeverTwice
<1> QED
  BY <1>1, Inductive, PTL

\* What ListObjects and ListFolders leave out lies behind an answer they call
\* truncated, and what GetFolder leaves out behind its cap.
THEOREM CutIsAlwaysTold == Spec => []CutIsTold
<1>1. IInv => CutIsTold
  BY DEF IInv
<1> QED
  BY <1>1, Inductive, PTL
===============================================================================
