-------------------------- MODULE StorageMovesProofs --------------------------
(***************************************************************************)
(* The invariants of StorageMoves, for any number of requests, folders and *)
(* names, and any sizes of pages and chunks.                               *)
(***************************************************************************)
EXTENDS StorageMoves, FiniteSetTheorems, WellFoundedInduction, TLAPS

Items == {"copy", "confirm", "delete"}

\* Where a handler with an operation of each kind may be.
StepsOf(k) ==
  CASE k = "none" -> {"idle"}
    [] k = "move" -> {"check"} \cup Items \cup Ends
    [] k = "replace" -> Items \cup Ends
    [] k = "moveFolder" -> {"check", "list"} \cup Items \cup Ends
    [] k = "create" -> {"check", "put"} \cup Ends
    [] k = "deleteFolder" -> {"list", "purge"} \cup Ends
    [] k = "upload" -> {"send"} \cup Ends
    [] k = "delete" -> Ends

Listed(h) == kind[h] \in {"moveFolder", "deleteFolder"}

\* A rename never works on a destination that is its source, and what a handler
\* has listed lies before its cursor.
JobOK(h) ==
  /\ pc[h] \in StepsOf(kind[h])
  /\ kind[h] # "none" => src[h] \in Keys /\ dst[h] \in Keys
  /\ kind[h] \in {"move", "replace"} /\ pc[h] \in Steps => src[h] # dst[h]
  /\ kind[h] = "moveFolder" => src[h][1] # dst[h][1]
  /\ ~Listed(h) => page[h] = {}
  /\ kind[h] # "moveFolder" => ~errs[h]
  /\ kind[h] = "none" => entrusted[h] = {} /\ cursor[h] = -1
  /\ pc[h] = "check" => page[h] = {} /\ cursor[h] = -1
  /\ kind[h] = "moveFolder" /\ pc[h] \in {"list", "ok"} => page[h] = {}
  /\ kind[h] = "deleteFolder" /\ pc[h] = "ok" => page[h] = {}
  /\ pc[h] = "ok" => ~errs[h]
  /\ \A n \in page[h] : n <= cursor[h]

\* Names a folder rename has listed and not copied yet.
Due(h) ==
  CASE pc[h] = "copy" -> page[h]
    [] pc[h] \in {"confirm", "delete"} -> page[h] \ {Min(page[h])}
    [] OTHER -> {}

\* What a handler found free stays free until it writes there, unless it is overtaken.
FreeOK(h) ==
  ~overtaken[h] =>
    /\ kind[h] = "move" /\ pc[h] = "copy" => bucket[dst[h]] = Absent
    /\ kind[h] = "create" /\ pc[h] = "put" => bucket[dst[h]] = Absent
    /\ kind[h] = "moveFolder" /\ pc[h] \in {"list"} \cup Items =>
         \A n \in Names : n > cursor[h] \/ n \in Due(h) => bucket[<<dst[h][1], n>>] = Absent

\* The handler has yet to deal with this key.
Ahead(h, k) ==
  IF Listed(h) THEN k[2] > cursor[h] \/ k[2] \in page[h] ELSE pc[h] \in Steps

\* What a handler is entrusted with, and has yet to deal with, is where it found it.
AheadOK(h, e) ==
  /\ kind[h] \in Moves \cup {"deleteFolder"}
  /\ e[2] # Absent
  /\ IF Listed(h) THEN e[1] \in InFolder(src[h][1]) ELSE e[1] = src[h]
  /\ pc[h] \in Steps /\ Ahead(h, e[1]) => bucket[e[1]] = e[2]

\* It is at its source or at its destination,
KeptOK(h, e) ==
  kind[h] \in Moves => bucket[e[1]] = e[2] \/ bucket[Renamed(h, e[1])] = e[2]

\* and at its destination before the source is deleted.
CopiedOK(h, e) ==
  pc[h] \in {"confirm", "delete"} /\ e[1] = From(h) => bucket[Renamed(h, e[1])] = e[2]

\* What it has dealt with is gone from its source, and moved, when nothing failed.
DoneOK(h, e) ==
  pc[h] \in Steps \cup {"ok"} /\ ~Ahead(h, e[1]) =>
    /\ kind[h] \in Moves /\ ~errs[h] => bucket[e[1]] = Absent /\ bucket[Renamed(h, e[1])] = e[2]
    /\ kind[h] = "deleteFolder" => bucket[e[1]] = Absent

\* Where the listing is over, it was complete.
EndOK(h, e) ==
  \/ kind[h] = "moveFolder" /\ pc[h] \in Items /\ ~more[h]
  \/ Listed(h) /\ pc[h] \in {"purge", "ok"}
  => e[1][2] <= cursor[h]

ItemOK(h, e) == AheadOK(h, e) /\ KeptOK(h, e) /\ CopiedOK(h, e) /\ DoneOK(h, e) /\ EndOK(h, e)

HandlerOK(h) == JobOK(h) /\ FreeOK(h) /\ \A e \in entrusted[h] : ItemOK(h, e)

IInv == TypeOK /\ ReplacedOnlyWhenOvertaken /\ \A h \in Handlers : HandlerOK(h)

BeginStep(h) ==
  \/ \E s, d \in Keys, overwrite \in BOOLEAN : RenameObject(h, s, d, overwrite)
  \/ \E f, g \in Folders : RenameFolder(h, f, g)
  \/ \E f \in Folders : CreateFolder(h, f) \/ DeleteFolder(h, f)
  \/ \E k \in Keys : HandleUpload(h, k) \/ DeleteObject(h, k)
WorkStep(h) ==
  \/ Check(h) \/ Put(h) \/ Upload(h) \/ List(h)
  \/ Copy(h) \/ Confirm(h) \/ Delete(h) \/ ItemFault(h)
  \/ Purge(h) \/ Fault(h) \/ Crash(h)
HandlerStep(h) == BeginStep(h) \/ WorkStep(h)

-------------------------------------------------------------------------------
LEMMA StepCases ==
  ASSUME [Next]_vars
  PROVE  (\E h \in Handlers : HandlerStep(h)) \/ UNCHANGED vars
BY DEF Next, HandlerStep, BeginStep, WorkStep

LEMMA Sizes ==
  /\ Names \subseteq Nat /\ Marker \in Names /\ LastName \in Nat
  /\ \A n \in Names : n <= LastName /\ n > -1
  /\ Names \subseteq Int /\ PageSize \in Int /\ PageSize > 0 /\ ChunkSize \in Int /\ ChunkSize > 0
BY SizesAssumption DEF Names, Marker

LEMMA KeyFacts ==
  /\ \A k \in Keys : k[1] \in Folders /\ k[2] \in Names /\ k = <<k[1], k[2]>>
  /\ \A f \in Folders, n \in Names :
       <<f, n>> \in Keys /\ <<f, n>>[1] = f /\ <<f, n>>[2] = n
  /\ Keys \subseteq Contents /\ Handlers \subseteq Contents
BY DEF Keys, Contents

Below == {p \in Nat \X Nat : p[1] < p[2]}

\* A set of names that is not empty has a first member, for which
\* well-foundedness of the naturals stands in for an induction ...
LEMMA MinFacts ==
  ASSUME NEW S, S \subseteq Nat, S # {}
  PROVE  Min(S) \in S /\ \A x \in S : Min(S) <= x
<1>1. IsWellFoundedOn(Below, Nat)
  BY NatLessThanWellFounded DEF OpToRel, Below
<1>2. PICK e \in S : \A x \in S : ~(<<x, e>> \in Below)
  BY <1>1, WFMin
<1>3. \A x \in S : ~(x < e)
  BY <1>2 DEF Below
<1>4. \A x \in S : e <= x
  BY <1>3
<1>. QED
  BY <1>4 DEF Min

\* ... and, names being bounded, a last one.
LEMMA MaxFacts ==
  ASSUME NEW S, S \subseteq Names, S # {}
  PROVE  Max(S) \in S /\ \A x \in S : x <= Max(S)
<1> DEFINE T == {LastName - x : x \in S}
<1>1. T \subseteq Nat /\ T # {}
  <2>1. \A x \in S : LastName - x \in Nat
    BY Sizes
  <2>2. PICK x \in S : TRUE
    OBVIOUS
  <2>3. LastName - x \in T
    OBVIOUS
  <2>. QED
    BY <2>1, <2>3
<1> HIDE DEF T
<1>2. Min(T) \in T /\ \A y \in T : Min(T) <= y
  BY <1>1, MinFacts
<1> USE DEF T
<1>3. PICK e \in S : Min(T) = LastName - e
  BY <1>2
<1>4. \A x \in S : LastName - e <= LastName - x
  BY <1>2, <1>3
<1>5. \A x \in S : x <= e
  BY <1>4, Sizes
<1>. QED
  BY <1>5 DEF Max

\* A page is a first part of what it is taken from, and not empty unless
\* nothing is left.
LEMMA FirstOfFacts ==
  ASSUME NEW S, S \subseteq Names, NEW count \in Int
  PROVE  /\ FirstOf(S, count) \subseteq S
         /\ \A x \in S, y \in FirstOf(S, count) : x < y => x \in FirstOf(S, count)
         /\ count > 0 /\ S # {} => FirstOf(S, count) # {}
<1>1. \A e : IsFiniteSet(BelowIn(e, S)) /\ Cardinality(BelowIn(e, S)) \in Nat
  <2>1. IsFiniteSet(S)
    <3>1. IsFiniteSet(0 .. LastName) /\ S \in SUBSET (0 .. LastName)
      BY Sizes, FS_Interval DEF Names
    <3>. QED
      BY <3>1, FS_Subset
  <2>2. \A e : BelowIn(e, S) \in SUBSET S
    BY DEF BelowIn
  <2>. QED
    BY <2>1, <2>2, FS_Subset, FS_CardinalityType
<1>2. FirstOf(S, count) = {e \in S : Cardinality(BelowIn(e, S)) < count}
  BY DEF FirstOf, BelowIn
<1>3. ASSUME NEW x \in S, NEW y \in FirstOf(S, count), x < y PROVE x \in FirstOf(S, count)
  <2>1. y \in S /\ S \subseteq Int
    BY <1>2, Sizes
  <2>2. BelowIn(x, S) \in SUBSET BelowIn(y, S)
    <3>1. \A m \in S : m < x => m < y
      BY <1>3, <2>1
    <3>. QED
      BY <3>1 DEF BelowIn
  <2>3. Cardinality(BelowIn(x, S)) <= Cardinality(BelowIn(y, S))
    BY <2>2, <1>1, FS_Subset
  <2>. QED
    BY <1>1, <1>2, <2>3
<1>4. ASSUME count > 0, S # {} PROVE FirstOf(S, count) # {}
  <2>1. S \subseteq Nat
    BY Sizes
  <2>2. PICK m \in S : \A x \in S : m <= x
    BY <1>4, <2>1, MinFacts
  <2>3. BelowIn(m, S) = {}
    <3>1. \A x \in S : ~(x < m)
      BY <2>1, <2>2
    <3>. QED
      BY <3>1 DEF BelowIn
  <2>. QED
    BY <1>2, <1>4, <2>2, <2>3, FS_EmptySet
<1>. QED
  BY <1>2, <1>3, <1>4

\* The key an item of a rename moves from, and the one it moves to.
LEMMA ItemKeys ==
  ASSUME TypeOK, NEW h \in Handlers, JobOK(h), pc[h] \in Items
  PROVE  /\ From(h) \in Keys /\ To(h) \in Keys /\ From(h) # To(h)
         /\ kind[h] \in Moves
         /\ kind[h] = "moveFolder" =>
              /\ Min(page[h]) \in page[h] /\ Min(page[h]) \in Names /\ Min(page[h]) <= cursor[h]
              /\ From(h) = <<src[h][1], Min(page[h])>> /\ To(h) = <<dst[h][1], Min(page[h])>>
         /\ kind[h] # "moveFolder" => From(h) = src[h] /\ To(h) = dst[h]
<1>1. kind[h] \in Moves /\ src[h] \in Keys /\ dst[h] \in Keys /\ pc[h] \in Steps
  BY DEF JobOK, StepsOf, Items, Ends, Moves, TypeOK, Kinds, Steps
<1>2. CASE kind[h] = "moveFolder"
  <2>1. page[h] \subseteq Names /\ page[h] # {} /\ page[h] \subseteq Nat
    BY <1>2, Sizes DEF TypeOK, Items
  <2>2. Min(page[h]) \in page[h]
    BY <2>1, MinFacts
  <2>. QED
    BY <1>1, <1>2, <2>1, <2>2, KeyFacts DEF JobOK, From, To, Renamed
<1>3. CASE kind[h] # "moveFolder"
  BY <1>1, <1>3 DEF JobOK, From, To, Renamed, Moves
<1>. QED
  BY <1>2, <1>3

\* A step of a handler leaves the others where they are; of the keys it
\* writes, they are told.
Writes(h, keys) ==
  /\ \A k \in Keys \ keys : bucket'[k] = bucket[k]
  /\ \A g \in Handlers \ {h} :
       /\ overtaken'[g] = (overtaken[g] \/ keys \cap Awaited(g) # {})
       /\ \A e \in entrusted'[g] :
            e \in entrusted[g] /\ e[1] \notin keys /\ (kind[g] \in Moves => Renamed(g, e[1]) \notin keys)

OnlyMoves(h) ==
  \A g \in Handlers \ {h} :
    /\ pc'[g] = pc[g] /\ kind'[g] = kind[g] /\ src'[g] = src[g] /\ dst'[g] = dst[g]
    /\ page'[g] = page[g] /\ cursor'[g] = cursor[g] /\ more'[g] = more[g] /\ errs'[g] = errs[g]

LEMMA WriteTells ==
  ASSUME TypeOK, NEW h \in Handlers, NEW keys, NEW c, NEW kept, WriteBut(h, keys, c, kept)
  PROVE  Writes(h, keys)
BY DEF TypeOK, WriteBut, Writes

LEMMA NoWrite ==
  ASSUME TypeOK, NEW h \in Handlers, UNCHANGED <<bucket, overtaken>>,
         \A g \in Handlers \ {h} : entrusted'[g] = entrusted[g]
  PROVE  Writes(h, {})
BY DEF TypeOK, Writes

LEMMA OthersStay ==
  ASSUME TypeOK, NEW h \in Handlers, HandlerStep(h)
  PROVE  OnlyMoves(h) /\ \E keys : Writes(h, keys)
<1> USE DEF jobVars, listVars, bucketVars
<1>1. OnlyMoves(h)
  <2>1. ASSUME NEW what, NEW s, NEW d, NEW label, Begin(h, what, s, d, label) PROVE OnlyMoves(h)
    BY <2>1 DEF Begin, Goto, OnlyMoves, TypeOK
  <2>2. CASE BeginStep(h)
    BY <2>1, <2>2 DEF BeginStep, RenameObject, RenameFolder, CreateFolder, DeleteFolder, HandleUpload, DeleteObject
  <2>3. ASSUME NEW failed, ItemOver(h, failed), UNCHANGED jobVars PROVE OnlyMoves(h)
    BY <2>3 DEF ItemOver, Goto, OnlyMoves, TypeOK
  <2>4. CASE Copy(h) \/ Delete(h) \/ ItemFault(h)
    <3>1. ASSUME NEW label, Goto(h, label), UNCHANGED <<jobVars, listVars>> PROVE OnlyMoves(h)
      BY <3>1 DEF Goto, OnlyMoves, TypeOK
    <3>. QED
      BY <2>3, <2>4, <3>1 DEF Copy, Answered, Delete, ItemFault
  <2>5. CASE \/ Check(h) \/ Put(h) \/ Upload(h) \/ Confirm(h) \/ Fault(h) \/ Crash(h)
    BY <2>5 DEF Check, Put, Upload, Confirm, Fault, Crash, Goto, OnlyMoves, TypeOK
  <2>6. CASE List(h)
    BY <2>6 DEF List, Goto, OnlyMoves, TypeOK
  <2>7. CASE Purge(h)
    BY <2>7 DEF Purge, Goto, OnlyMoves, TypeOK
  <2>. QED
    BY <2>2, <2>4, <2>5, <2>6, <2>7 DEF HandlerStep, WorkStep
<1>2. \E keys : Writes(h, keys)
  <2>1. CASE BeginStep(h)
    <3>1. \/ UNCHANGED <<bucket, overtaken>> /\ \E s : entrusted' = [entrusted EXCEPT ![h] = s]
          \/ UNCHANGED <<bucket, overtaken, entrusted>>
          \/ \E k \in Keys : Write(h, {k}, Absent)
      BY <2>1 DEF BeginStep, RenameObject, RenameFolder, CreateFolder, DeleteFolder, HandleUpload, DeleteObject
    <3>. QED
      BY <3>1, WriteTells, NoWrite DEF Write, TypeOK
  <2>2. CASE Copy(h) \/ Put(h) \/ Upload(h) \/ Delete(h)
    <3>1. \E keys, c : Write(h, keys, c)
      BY <2>2 DEF Copy, Put, Upload, Delete, WriteNew
    <3>. QED
      BY <3>1, WriteTells DEF Write
  <2>3. CASE Purge(h)
    BY <2>3, WriteTells DEF Purge
  <2>4. CASE Check(h) \/ List(h) \/ Confirm(h) \/ ItemFault(h) \/ Fault(h) \/ Crash(h)
    BY <2>4, NoWrite DEF Check, List, Confirm, ItemFault, Fault, Crash
  <2>. QED
    BY <2>1, <2>2, <2>3, <2>4 DEF HandlerStep, WorkStep
<1>. QED
  BY <1>1, <1>2

\* What a handler keeps is kept when others take a step.
LEMMA OthersKeep ==
  ASSUME TypeOK, NEW h \in Handlers, NEW keys, Writes(h, keys), OnlyMoves(h),
         NEW g \in Handlers \ {h}, HandlerOK(g)
  PROVE  HandlerOK(g)'
<1>1. /\ pc'[g] = pc[g] /\ kind'[g] = kind[g] /\ src'[g] = src[g] /\ dst'[g] = dst[g]
      /\ page'[g] = page[g] /\ cursor'[g] = cursor[g] /\ more'[g] = more[g] /\ errs'[g] = errs[g]
      /\ entrusted'[g] \subseteq entrusted[g]
  BY DEF OnlyMoves, Writes
<1>2. JobOK(g)'
  BY <1>1 DEF HandlerOK, JobOK, Listed
<1>3. FreeOK(g)'
  <2>1. SUFFICES ASSUME ~overtaken'[g]
                 PROVE  /\ kind[g] = "move" /\ pc[g] = "copy" => bucket'[dst[g]] = Absent
                        /\ kind[g] = "create" /\ pc[g] = "put" => bucket'[dst[g]] = Absent
                        /\ kind[g] = "moveFolder" /\ pc[g] \in {"list"} \cup Items =>
                             \A n \in Names : n > cursor[g] \/ n \in Due(g) => bucket'[<<dst[g][1], n>>] = Absent
    BY <1>1 DEF FreeOK, Due
  <2>2. FreeOK(g) /\ ~overtaken[g] /\ keys \cap Awaited(g) = {}
    BY <2>1 DEF HandlerOK, Writes
  <2>3. \A k \in Keys : k \in Awaited(g) => bucket'[k] = bucket[k]
    BY <2>2 DEF Writes
  <2>4. kind[g] # "none" => dst[g] \in Keys
    BY DEF HandlerOK, JobOK
  <2>5. ASSUME kind[g] = "moveFolder", pc[g] \in {"list"} \cup Items, NEW n \in Names,
               n > cursor[g] \/ n \in Due(g)
        PROVE  bucket'[<<dst[g][1], n>>] = Absent
    <3>1. <<dst[g][1], n>> \in InFolder(dst[g][1]) /\ <<dst[g][1], n>> \in Keys
      BY <2>4, <2>5, KeyFacts DEF InFolder
    <3>2. Awaited(g) = InFolder(dst[g][1])
      BY <2>5 DEF Awaited, Items, Steps
    <3>. QED
      BY <2>2, <2>3, <2>5, <3>1, <3>2 DEF FreeOK
  <2>. QED
    BY <2>2, <2>3, <2>4, <2>5 DEF FreeOK, Awaited
<1>4. ASSUME NEW e \in entrusted'[g] PROVE ItemOK(g, e)'
  <2>1. e \in entrusted[g] /\ ItemOK(g, e) /\ e[1] \in Keys
    BY <1>4 DEF HandlerOK, Writes, TypeOK
  <2>2. bucket'[e[1]] = bucket[e[1]]
    BY <1>4, <2>1 DEF Writes
  <2>3. kind[g] \in Moves => Renamed(g, e[1]) \in Keys
    BY <2>1, KeyFacts DEF HandlerOK, JobOK, Renamed, Moves
  <2>4. kind[g] \in Moves => bucket'[Renamed(g, e[1])] = bucket[Renamed(g, e[1])]
    BY <1>4, <2>3 DEF Writes
  <2>5. Renamed(g, e[1])' = Renamed(g, e[1]) /\ From(g)' = From(g) /\ Ahead(g, e[1])' = Ahead(g, e[1])
    BY <1>1 DEF Renamed, From, Ahead, Listed
  <2>6. pc[g] \in Items => kind[g] \in Moves
    BY <2>1 DEF ItemOK, AheadOK, HandlerOK, JobOK, StepsOf, Items, Ends, Moves
  <2>7. AheadOK(g, e)' /\ KeptOK(g, e)' /\ DoneOK(g, e)' /\ EndOK(g, e)'
    BY <1>1, <2>1, <2>2, <2>4, <2>5 DEF ItemOK, AheadOK, KeptOK, DoneOK, EndOK, Listed
  <2>8. CopiedOK(g, e)'
    BY <1>1, <2>1, <2>4, <2>5, <2>6 DEF ItemOK, CopiedOK, Items
  <2>. QED
    BY <2>7, <2>8 DEF ItemOK
<1>. QED
  BY <1>2, <1>3, <1>4 DEF HandlerOK

LEMMA InitOK == Init => IInv
<1> SUFFICES ASSUME Init PROVE IInv
  OBVIOUS
<1>1. bucket \in [Keys -> Contents \cup {Absent}]
  BY KeyFacts DEF Init
<1>2. -1 \in -1 .. LastName
  BY Sizes
<1>3. TypeOK
  BY <1>1, <1>2 DEF Init, TypeOK, Kinds
<1>4. ReplacedOnlyWhenOvertaken
  BY DEF Init, ReplacedOnlyWhenOvertaken
<1>5. ASSUME NEW h \in Handlers PROVE HandlerOK(h)
  BY DEF Init, HandlerOK, JobOK, FreeOK, StepsOf, Steps, Listed
<1>. QED
  BY <1>3, <1>4, <1>5 DEF IInv

-------------------------------------------------------------------------------
(* Types.                                                                   *)

LEMMA TypeWrite ==
  ASSUME TypeOK, NEW h \in Handlers, NEW keys, NEW c \in Contents \cup {Absent}, NEW kept,
         WriteBut(h, keys, c, kept)
  PROVE  /\ bucket' \in [Keys -> Contents \cup {Absent}]
         /\ overtaken' \in [Handlers -> BOOLEAN]
         /\ entrusted' \in [Handlers -> SUBSET (Keys \X Contents)]
BY DEF TypeOK, WriteBut

LEMMA TypeItemOver ==
  ASSUME TypeOK, NEW h \in Handlers, NEW failed \in BOOLEAN, ItemOver(h, failed)
  PROVE  /\ pc' \in [Handlers -> {"idle"} \cup Steps \cup Ends]
         /\ page' \in [Handlers -> SUBSET Names] /\ errs' \in [Handlers -> BOOLEAN]
         /\ UNCHANGED <<cursor, more>>
         /\ \A g \in Handlers :
              kind[g] = "moveFolder" /\ pc'[g] \in Items => page'[g] # {}
<1>1. CASE kind[h] # "moveFolder"
  BY <1>1 DEF ItemOver, Goto, TypeOK, Steps, Ends, listVars, Items
<1>2. CASE kind[h] = "moveFolder"
  <2> DEFINE rest == page[h] \ {Min(page[h])}
  <2>1. /\ page' = [page EXCEPT ![h] = rest]
        /\ errs' = [errs EXCEPT ![h] = @ \/ failed]
        /\ UNCHANGED <<cursor, more>>
    BY <1>2 DEF ItemOver
  <2>2. errs'[h] \in BOOLEAN
    BY <2>1 DEF TypeOK
  <2>3. \E label \in {"copy", "list", "ok", "failed"} : Goto(h, label) /\ (label = "copy" => rest # {})
    <3>1. Goto(h, CASE rest # {} -> "copy"
                    [] rest = {} /\ more[h] -> "list"
                    [] rest = {} /\ ~more[h] -> IF errs'[h] THEN "failed" ELSE "ok")
      BY <1>2 DEF ItemOver
    <3>2. CASE rest # {}
      BY <3>1, <3>2
    <3>3. CASE rest = {} /\ more[h]
      BY <3>1, <3>3
    <3>4. CASE rest = {} /\ ~more[h]
      BY <3>1, <3>4
    <3>. QED
      BY <3>2, <3>3, <3>4 DEF TypeOK
  <2>. QED
    BY <2>1, <2>3 DEF TypeOK, Goto, Steps, Ends, Items
<1>. QED
  BY <1>1, <1>2

LEMMA TypeBegin ==
  ASSUME TypeOK, NEW h \in Handlers, BeginStep(h)
  PROVE  TypeOK'
<1> DEFINE Rest == /\ bucket' \in [Keys -> Contents \cup {Absent}]
                   /\ overtaken' \in [Handlers -> BOOLEAN]
                   /\ entrusted' \in [Handlers -> SUBSET (Keys \X Contents)]
<1>1. ASSUME NEW what \in Kinds \ {"none"}, NEW s \in Keys, NEW d \in Keys,
             NEW label \in {"check", "copy", "list", "send", "ok"},
             what = "moveFolder" => label = "check",
             Begin(h, what, s, d, label), Rest
      PROVE  TypeOK'
  BY <1>1 DEF Begin, Goto, TypeOK, listVars, Kinds, Steps, Ends
<1>2. ASSUME NEW s, s \subseteq Keys \X Contents, UNCHANGED <<bucket, overtaken>>,
             entrusted' = [entrusted EXCEPT ![h] = s]
      PROVE  Rest
  BY <1>2 DEF TypeOK
<1>3. \A k \in Keys : bucket[k] # Absent => bucket[k] \in Contents
  BY DEF TypeOK
<1>4. ASSUME NEW f \in Folders PROVE Found(f) \subseteq Keys \X Contents /\ <<f, Marker>> \in Keys
  BY <1>3, Sizes, KeyFacts DEF Found, InFolder
<1>5. UNCHANGED <<bucket, overtaken, entrusted>> => Rest
  BY DEF TypeOK
<1>6. ASSUME NEW s \in Keys, NEW d \in Keys, NEW overwrite \in BOOLEAN, RenameObject(h, s, d, overwrite)
      PROVE  TypeOK'
  <2>1. Rest
    <3> DEFINE given == IF s = d \/ bucket[s] = Absent THEN {} ELSE {<<s, bucket[s]>>}
    <3>1. given \subseteq Keys \X Contents
      BY <1>3
    <3>2. UNCHANGED <<bucket, overtaken>> /\ entrusted' = [entrusted EXCEPT ![h] = given]
      BY <1>6 DEF RenameObject
    <3> HIDE DEF given
    <3>. QED
      BY <1>2, <3>1, <3>2
  <2>. QED
    BY <1>1, <1>6, <2>1 DEF RenameObject, Kinds
<1>7. ASSUME NEW f \in Folders, NEW g \in Folders, RenameFolder(h, f, g) PROVE TypeOK'
  <2>1. Rest
    BY <1>2, <1>4, <1>7 DEF RenameFolder
  <2>. QED
    BY <1>1, <1>4, <1>7, <2>1 DEF RenameFolder, Kinds
<1>8. ASSUME NEW f \in Folders, CreateFolder(h, f) \/ DeleteFolder(h, f) PROVE TypeOK'
  <2>1. Rest
    BY <1>2, <1>4, <1>5, <1>8 DEF CreateFolder, DeleteFolder
  <2>. QED
    BY <1>1, <1>4, <1>8, <2>1 DEF CreateFolder, DeleteFolder, Kinds
<1>9. ASSUME NEW k \in Keys, HandleUpload(h, k) \/ DeleteObject(h, k) PROVE TypeOK'
  <2>1. Rest
    BY <1>5, <1>9, TypeWrite DEF HandleUpload, DeleteObject, Write
  <2>. QED
    BY <1>1, <1>9, <2>1 DEF HandleUpload, DeleteObject, Kinds
<1>. QED
  BY <1>6, <1>7, <1>8, <1>9 DEF BeginStep

\* What the listing of a page does to a handler.
LEMMA ListFacts ==
  ASSUME TypeOK, NEW h \in Handlers, JobOK(h), List(h)
  PROVE  \E found \in SUBSET Unlisted(h) :
           /\ \A x \in Unlisted(h), y \in found : x < y => x \in found
           /\ Unlisted(h) # {} => found # {}
           /\ page' = [page EXCEPT ![h] = page'[h]] /\ page'[h] = page[h] \cup found
           /\ cursor' = [cursor EXCEPT ![h] = cursor'[h]]
           /\ cursor'[h] \in -1 .. LastName /\ cursor'[h] >= cursor[h]
           /\ found = {} => cursor'[h] = cursor[h]
           /\ found # {} => cursor'[h] \in found
           /\ \A n \in found : n <= cursor'[h]
           /\ more' = [more EXCEPT ![h] = more'[h]] /\ more'[h] \in BOOLEAN
           /\ more'[h] <=> found # Unlisted(h)
           /\ Listed(h)
           /\ pc' = [pc EXCEPT ![h] = pc'[h]]
           /\ page'[h] = {} => pc'[h] = (IF errs[h] THEN "failed" ELSE "ok")
           /\ page'[h] # {} /\ kind[h] = "moveFolder" => pc'[h] = "copy"
           /\ page'[h] # {} /\ kind[h] = "deleteFolder" =>
                pc'[h] = (IF more'[h] THEN "list" ELSE "purge")
<1> DEFINE found == FirstOf(Unlisted(h), PageSize)
           last == IF found = {} THEN cursor[h] ELSE Max(found)
<1>1. Unlisted(h) \subseteq Names
  BY DEF Unlisted
<1>2. /\ found \subseteq Unlisted(h)
      /\ \A x \in Unlisted(h), y \in found : x < y => x \in found
      /\ Unlisted(h) # {} => found # {}
  BY <1>1, Sizes, FirstOfFacts
<1>3. found # {} => Max(found) \in found /\ \A n \in found : n <= Max(found)
  BY <1>1, <1>2, MaxFacts
<1>4. /\ page' = [page EXCEPT ![h] = page[h] \cup found]
      /\ cursor' = [cursor EXCEPT ![h] = last]
      /\ more' = [more EXCEPT ![h] = found # Unlisted(h)]
      /\ Goto(h, CASE page'[h] = {} -> IF errs[h] THEN "failed" ELSE "ok"
                   [] page'[h] # {} /\ kind[h] = "moveFolder" -> "copy"
                   [] page'[h] # {} /\ kind[h] = "deleteFolder" ->
                        IF more'[h] THEN "list" ELSE "purge")
  BY DEF List
<1>5. Listed(h)
  BY DEF List, JobOK, StepsOf, Items, Ends, TypeOK, Kinds, Listed
<1>6. last \in -1 .. LastName /\ last >= cursor[h]
  <2>1. CASE found = {}
    BY <2>1, Sizes DEF TypeOK
  <2>2. CASE found # {}
    <3>1. last \in Names /\ last > cursor[h]
      BY <1>2, <1>3, <2>2 DEF Unlisted
    <3>. QED
      BY <3>1, Sizes DEF TypeOK, Names
  <2>. QED
    BY <2>1, <2>2
<1> HIDE DEF last
<1>7. \A n \in found : n <= last
  BY <1>3 DEF last
<1>8. /\ found = {} => last = cursor[h]
      /\ found # {} => last \in found
  BY <1>3 DEF last
<1> HIDE DEF found
<1>9. /\ pc' = [pc EXCEPT ![h] = pc'[h]]
      /\ page'[h] = {} => pc'[h] = (IF errs[h] THEN "failed" ELSE "ok")
      /\ page'[h] # {} /\ kind[h] = "moveFolder" => pc'[h] = "copy"
      /\ page'[h] # {} /\ kind[h] = "deleteFolder" => pc'[h] = (IF more'[h] THEN "list" ELSE "purge")
  <2> DEFINE label == CASE page'[h] = {} -> IF errs[h] THEN "failed" ELSE "ok"
                        [] page'[h] # {} /\ kind[h] = "moveFolder" -> "copy"
                        [] page'[h] # {} /\ kind[h] = "deleteFolder" ->
                             IF more'[h] THEN "list" ELSE "purge"
  <2>1. /\ page'[h] = {} => label = (IF errs[h] THEN "failed" ELSE "ok")
        /\ page'[h] # {} /\ kind[h] = "moveFolder" => label = "copy"
        /\ page'[h] # {} /\ kind[h] = "deleteFolder" => label = (IF more'[h] THEN "list" ELSE "purge")
    OBVIOUS
  <2>2. Goto(h, label)
    BY <1>4
  <2> HIDE DEF label
  <2>3. pc'[h] = label /\ pc' = [pc EXCEPT ![h] = label]
    BY <2>2 DEF Goto, TypeOK
  <2>. QED
    BY <2>1, <2>3
<1>10. /\ more' = [more EXCEPT ![h] = more'[h]] /\ more'[h] \in BOOLEAN
       /\ more'[h] <=> found # Unlisted(h)
  BY <1>4 DEF TypeOK
<1>11. /\ page'[h] = page[h] \cup found /\ page' = [page EXCEPT ![h] = page'[h]]
       /\ cursor'[h] = last /\ cursor' = [cursor EXCEPT ![h] = cursor'[h]]
  BY <1>4 DEF TypeOK
<1>12. found \in SUBSET Unlisted(h)
  BY <1>2
<1>. QED
  BY <1>2, <1>5, <1>6, <1>7, <1>8, <1>9, <1>10, <1>11, <1>12

LEMMA TypeWork ==
  ASSUME TypeOK, NEW h \in Handlers, JobOK(h), WorkStep(h)
  PROVE  TypeOK'
<1> USE DEF jobVars, listVars, bucketVars
\* The handler is somewhere else, and has changed the bucket.
<1>1. ASSUME NEW label \in {"list", "copy", "confirm", "delete", "put", "ok", "failed", "conflict", "crashed"},
             label \in Items => pc[h] \in Items \/ kind[h] # "moveFolder",
             Goto(h, label), UNCHANGED <<jobVars, listVars>>,
             bucket' \in [Keys -> Contents \cup {Absent}],
             overtaken' \in [Handlers -> BOOLEAN],
             entrusted' \in [Handlers -> SUBSET (Keys \X Contents)],
             replaced' \subseteq Handlers \X Contents
      PROVE  TypeOK'
  BY <1>1 DEF Goto, TypeOK, Steps, Ends, Items
\* An item is over.
<1>2. ASSUME NEW failed \in BOOLEAN, ItemOver(h, failed), UNCHANGED jobVars,
             bucket' \in [Keys -> Contents \cup {Absent}],
             overtaken' \in [Handlers -> BOOLEAN],
             entrusted' \in [Handlers -> SUBSET (Keys \X Contents)],
             replaced' \subseteq Handlers \X Contents
      PROVE  TypeOK'
  BY <1>2, TypeItemOver DEF TypeOK, Items
<1>3. ASSUME NEW keys, NEW c \in Contents \cup {Absent}, Write(h, keys, c)
      PROVE  /\ bucket' \in [Keys -> Contents \cup {Absent}]
             /\ overtaken' \in [Handlers -> BOOLEAN]
             /\ entrusted' \in [Handlers -> SUBSET (Keys \X Contents)]
  BY <1>3, TypeWrite DEF Write
<1>4. ASSUME NEW k \in Keys, NEW c, WriteNew(h, k, c)
      PROVE  replaced' \subseteq Handlers \X Contents
  BY <1>4 DEF WriteNew, TypeOK
<1>5. kind[h] # "none" => dst[h] \in Keys
  BY DEF JobOK
<1>6. h \in Contents
  BY KeyFacts
<1>7. CASE Check(h)
  <2>1. AfterCheck(h) \in {"copy", "list", "put"} /\ (AfterCheck(h) = "copy" => kind[h] = "move")
    BY <1>7 DEF Check, AfterCheck, JobOK, StepsOf, Items, Ends, TypeOK, Kinds
  <2>. QED
    BY <1>1, <1>7, <2>1 DEF Check, TypeOK, Items
<1>8. CASE Put(h)
  <2>1. kind[h] # "none"
    BY <1>8 DEF Put, JobOK, StepsOf
  <2>. QED
    BY <1>1, <1>3, <1>4, <1>5, <1>6, <1>8, <2>1 DEF Put, WriteNew, Items
<1>9. CASE Upload(h)
  BY <1>1, <1>3, <1>6, <1>9 DEF Upload, TypeOK, Items
<1>10. CASE List(h)
  <2>1. PICK found \in SUBSET Unlisted(h) :
          /\ page' = [page EXCEPT ![h] = page'[h]] /\ page'[h] = page[h] \cup found
          /\ cursor' = [cursor EXCEPT ![h] = cursor'[h]] /\ cursor'[h] \in -1 .. LastName
          /\ more' = [more EXCEPT ![h] = more'[h]] /\ more'[h] \in BOOLEAN
          /\ pc' = [pc EXCEPT ![h] = pc'[h]]
          /\ pc'[h] \in {"ok", "failed", "copy", "list", "purge"}
          /\ pc'[h] = "copy" => page'[h] # {}
    BY <1>10, ListFacts DEF Listed
  <2>2. found \subseteq Names
    BY <2>1 DEF Unlisted
  <2>3. UNCHANGED <<bucketVars, jobVars, errs>>
    BY <1>10 DEF List
  <2>. QED
    BY <2>1, <2>2, <2>3 DEF TypeOK, Steps, Ends
<1>11. CASE Copy(h)
  <2>1. From(h) \in Keys /\ To(h) \in Keys /\ pc[h] \in Items
    BY <1>11, ItemKeys DEF Copy, Items
  <2>2. /\ bucket' \in [Keys -> Contents \cup {Absent}]
        /\ overtaken' \in [Handlers -> BOOLEAN]
        /\ entrusted' \in [Handlers -> SUBSET (Keys \X Contents)]
        /\ replaced' \subseteq Handlers \X Contents
    BY <1>3, <1>4, <1>11, <2>1 DEF Copy, WriteNew, TypeOK
  <2>. QED
    BY <1>1, <1>2, <1>11, <2>1, <2>2 DEF Copy, Answered
<1>12. CASE Confirm(h)
  BY <1>1, <1>12 DEF Confirm, TypeOK, Items
<1>13. CASE Delete(h)
  BY <1>2, <1>3, <1>13 DEF Delete, TypeOK
<1>14. CASE ItemFault(h)
  BY <1>2, <1>14 DEF ItemFault, TypeOK
<1>15. CASE Purge(h)
  <2>1. /\ bucket' \in [Keys -> Contents \cup {Absent}]
        /\ overtaken' \in [Handlers -> BOOLEAN]
        /\ entrusted' \in [Handlers -> SUBSET (Keys \X Contents)]
    BY <1>15, TypeWrite DEF Purge
  <2>2. kind[h] # "moveFolder"
    BY <1>15 DEF Purge, JobOK, StepsOf, Items, Ends
  <2>3. /\ \E rest \in SUBSET page[h] : page' = [page EXCEPT ![h] = rest]
        /\ \E label \in {"ok", "purge", "failed"} : Goto(h, label)
        /\ UNCHANGED <<jobVars, replaced, cursor, more, errs>>
    BY <1>15 DEF Purge
  <2>. QED
    BY <2>1, <2>2, <2>3 DEF TypeOK, Goto, Steps, Ends
<1>16. CASE Fault(h) \/ Crash(h)
  BY <1>1, <1>16 DEF Fault, Crash, TypeOK, Items
<1>. QED
  BY <1>7, <1>8, <1>9, <1>10, <1>11, <1>12, <1>13, <1>14, <1>15, <1>16 DEF WorkStep

LEMMA TypeStep ==
  ASSUME IInv, [Next]_vars
  PROVE  TypeOK'
<1>1. ASSUME NEW h \in Handlers, HandlerStep(h) PROVE TypeOK'
  BY <1>1, TypeBegin, TypeWork DEF IInv, HandlerOK, HandlerStep
<1>2. CASE UNCHANGED vars
  BY <1>2 DEF vars, jobVars, listVars, IInv, TypeOK
<1>. QED
  BY <1>1, <1>2, StepCases

-------------------------------------------------------------------------------
(* Beginning, looking and stopping.                                         *)

LEMMA BeginOK ==
  ASSUME TypeOK, NEW h \in Handlers, HandlerOK(h), BeginStep(h)
  PROVE  HandlerOK(h)'
<1>1. pc[h] = "idle"
  BY DEF BeginStep, RenameObject, RenameFolder, CreateFolder, DeleteFolder, HandleUpload, DeleteObject, Begin
<1>2. kind[h] = "none" /\ page[h] = {} /\ cursor[h] = -1 /\ ~errs[h] /\ entrusted[h] = {}
  BY <1>1 DEF HandlerOK, JobOK, StepsOf, Items, Ends, TypeOK, Kinds, Listed
\* The new handler starts where its operation does; bucket and what it is
\* entrusted with are as they were found.
<1>3. ASSUME NEW what \in Kinds \ {"none"}, NEW s \in Keys, NEW d \in Keys, NEW label,
             Begin(h, what, s, d, label),
             label \in StepsOf(what) \cap {"check", "list", "copy", "send", "ok"},
             what = "move" => label \in {"check", "ok"},
             what = "moveFolder" => s[1] # d[1] /\ label = "check",
             what \in {"move", "replace"} /\ s = d => label = "ok",
             \A e \in entrusted'[h] :
               /\ e[1] \in Keys /\ bucket[e[1]] = e[2] /\ bucket' = bucket
               /\ e[2] # Absent /\ what \in Moves \cup {"deleteFolder"} /\ label # "ok"
               /\ IF what \in {"moveFolder", "deleteFolder"} THEN e[1] \in InFolder(s[1]) ELSE e[1] = s
      PROVE  HandlerOK(h)'
  <2>1. /\ kind'[h] = what /\ src'[h] = s /\ dst'[h] = d /\ pc'[h] = label
        /\ page'[h] = {} /\ cursor'[h] = -1 /\ ~errs'[h]
    BY <1>2, <1>3 DEF Begin, Goto, TypeOK, listVars
  <2>2. JobOK(h)'
    BY <1>3, <2>1 DEF JobOK, Listed, Steps, StepsOf, Items, Ends
  <2>3. FreeOK(h)'
    BY <1>3, <2>1 DEF FreeOK, StepsOf, Items, Ends
  <2>4. ASSUME NEW e \in entrusted'[h] PROVE ItemOK(h, e)'
    <3>1. /\ e[1] \in Keys /\ bucket'[e[1]] = e[2] /\ e[2] # Absent
          /\ what \in Moves \cup {"deleteFolder"} /\ label # "ok"
          /\ IF what \in {"moveFolder", "deleteFolder"} THEN e[1] \in InFolder(s[1]) ELSE e[1] = s
      BY <1>3, <2>4
    <3>2. AheadOK(h, e)' /\ KeptOK(h, e)'
      BY <2>1, <3>1 DEF AheadOK, KeptOK, Listed
    <3>3. e[1][2] > -1
      BY <3>1, KeyFacts, Sizes
    <3>4. Ahead(h, e[1])'
      BY <1>3, <2>1, <3>1, <3>3 DEF Ahead, Listed, Steps
    <3>5. CopiedOK(h, e)' /\ DoneOK(h, e)'
      BY <1>3, <2>1, <3>4 DEF CopiedOK, DoneOK
    <3>6. EndOK(h, e)'
      BY <1>3, <2>1, <3>1 DEF EndOK, Listed, StepsOf, Items
    <3>. QED
      BY <3>2, <3>5, <3>6 DEF ItemOK
  <2>. QED
    BY <2>2, <2>3, <2>4 DEF HandlerOK
<1>4. ASSUME NEW s \in Keys, NEW d \in Keys, NEW overwrite \in BOOLEAN, RenameObject(h, s, d, overwrite)
      PROVE  HandlerOK(h)'
  <2> DEFINE what == IF overwrite THEN "replace" ELSE "move"
             label == IF s = d THEN "ok" ELSE IF overwrite THEN "copy" ELSE "check"
  <2>1. /\ Begin(h, what, s, d, label)
        /\ entrusted'[h] = IF s = d \/ bucket[s] = Absent THEN {} ELSE {<<s, bucket[s]>>}
        /\ bucket' = bucket
    BY <1>4 DEF RenameObject, TypeOK
  <2>2. \A e \in entrusted'[h] :
          e[1] = s /\ e[2] = bucket[s] /\ e[2] # Absent /\ s # d
    BY <2>1
  <2>3. /\ what \in Kinds \ {"none", "moveFolder", "deleteFolder"} /\ what \in Moves
        /\ label \in StepsOf(what) \cap {"check", "list", "copy", "send", "ok"}
        /\ what = "move" => label \in {"check", "ok"}
        /\ s = d <=> label = "ok"
    BY DEF Kinds, Moves, StepsOf, Items, Ends
  <2> HIDE DEF what, label
  <2>. QED
    BY <1>3, <2>1, <2>2, <2>3
<1>5. ASSUME NEW f \in Folders
      PROVE  /\ <<f, Marker>> \in Keys /\ <<f, Marker>>[1] = f
             /\ \A e \in Found(f) :
                  e[1] \in Keys /\ bucket[e[1]] = e[2] /\ e[2] # Absent /\ e[1] \in InFolder(f)
  BY Sizes, KeyFacts DEF Found, InFolder
<1>6. ASSUME NEW f \in Folders, NEW g \in Folders, RenameFolder(h, f, g)
      PROVE  HandlerOK(h)'
  <2>1. /\ Begin(h, "moveFolder", <<f, Marker>>, <<g, Marker>>, "check")
        /\ entrusted'[h] = Found(f) /\ bucket' = bucket /\ f # g
    BY <1>6 DEF RenameFolder, TypeOK
  <2>2. "check" \in StepsOf("moveFolder") /\ "moveFolder" \in Kinds \ {"none"} /\ "moveFolder" \in Moves
    BY DEF StepsOf, Kinds, Moves
  <2>. QED
    BY <1>3, <1>5, <2>1, <2>2
<1>7. ASSUME NEW f \in Folders, CreateFolder(h, f)
      PROVE  HandlerOK(h)'
  <2>1. Begin(h, "create", <<f, Marker>>, <<f, Marker>>, "check") /\ entrusted'[h] = {}
    BY <1>2, <1>7 DEF CreateFolder
  <2>2. "check" \in StepsOf("create") /\ "create" \in Kinds \ {"none"}
    BY DEF StepsOf, Kinds
  <2>. QED
    BY <1>3, <1>5, <2>1, <2>2
<1>8. ASSUME NEW f \in Folders, DeleteFolder(h, f)
      PROVE  HandlerOK(h)'
  <2>1. /\ Begin(h, "deleteFolder", <<f, Marker>>, <<f, Marker>>, "list")
        /\ entrusted'[h] = Found(f) /\ bucket' = bucket
    BY <1>8 DEF DeleteFolder, TypeOK
  <2>2. "list" \in StepsOf("deleteFolder") /\ "deleteFolder" \in Kinds \ {"none"}
    BY DEF StepsOf, Kinds
  <2>. QED
    BY <1>3, <1>5, <2>1, <2>2
<1>9. ASSUME NEW k \in Keys, HandleUpload(h, k) \/ DeleteObject(h, k)
      PROVE  HandlerOK(h)'
  <2>1. /\ Begin(h, "upload", k, k, "send") \/ Begin(h, "delete", k, k, "ok")
        /\ entrusted'[h] = {}
    BY <1>2, <1>9 DEF HandleUpload, DeleteObject, Write, WriteBut, TypeOK
  <2>2. /\ "send" \in StepsOf("upload") /\ "upload" \in Kinds \ {"none"}
        /\ "ok" \in StepsOf("delete") /\ "delete" \in Kinds \ {"none"}
    BY DEF StepsOf, Ends, Kinds
  <2>. QED
    BY <1>3, <2>1, <2>2
<1>. QED
  BY <1>4, <1>6, <1>7, <1>8, <1>9 DEF BeginStep

\* Steps that change no key and nothing of what the handler is at but its label:
\* it stops, it has looked and found nothing, or it has seen the copy.
LEMMA LabelOK ==
  ASSUME TypeOK, NEW h \in Handlers, HandlerOK(h), NEW label, Goto(h, label),
         UNCHANGED <<bucketVars, jobVars, listVars>>, pc[h] \in Steps,
         \/ label \in {"failed", "conflict", "crashed"}
         \/ pc[h] = "check" /\ label = AfterCheck(h) /\ ~Taken(h)
         \/ pc[h] = "confirm" /\ label = "delete"
  PROVE  HandlerOK(h)'
<1> USE DEF bucketVars, jobVars, listVars
<1>1. pc'[h] = label
  BY DEF Goto, TypeOK
<1>2. \/ label \in {"failed", "conflict", "crashed"}
      \/ pc[h] = "check" /\ kind[h] = "move" /\ label = "copy" /\ bucket[dst[h]] = Absent
      \/ pc[h] = "check" /\ kind[h] = "create" /\ label = "put" /\ bucket[dst[h]] = Absent
      \/ /\ pc[h] = "check" /\ kind[h] = "moveFolder" /\ label = "list"
         /\ \A k \in InFolder(dst[h][1]) : bucket[k] = Absent
      \/ pc[h] = "confirm" /\ label = "delete"
  BY DEF AfterCheck, Taken, HandlerOK, JobOK, StepsOf, Items, Ends, TypeOK, Kinds
<1>3. JobOK(h)'
  <2>1. kind[h] # "none"
    BY DEF HandlerOK, JobOK, StepsOf, Steps
  <2>2. label \in StepsOf(kind[h])
    <3>1. pc[h] = "confirm" => kind[h] \in Moves
      BY DEF HandlerOK, JobOK, StepsOf, Ends, TypeOK, Kinds, Moves
    <3>. QED
      BY <1>2, <2>1, <3>1 DEF StepsOf, Items, Ends, TypeOK, Kinds, Moves
  <2>. QED
    BY <1>1, <1>2, <2>2 DEF HandlerOK, JobOK, Listed, Steps
<1>4. FreeOK(h)'
  <2>1. kind[h] # "none" => dst[h] \in Keys
    BY DEF HandlerOK, JobOK
  <2>2. CASE label \in {"copy", "put"}
    BY <1>1, <1>2, <2>2 DEF FreeOK
  <2>3. CASE label = "list"
    <3>1. \A n \in Names : <<dst[h][1], n>> \in InFolder(dst[h][1])
      BY <1>2, <2>1, <2>3, KeyFacts DEF InFolder
    <3>. QED
      BY <1>1, <1>2, <2>3, <3>1 DEF FreeOK
  <2>4. CASE label = "delete"
    <3>1. Due(h)' = Due(h)
      BY <1>1, <1>2, <2>4 DEF Due
    <3>. QED
      BY <1>1, <1>2, <2>4, <3>1 DEF FreeOK, HandlerOK, Items
  <2>5. CASE label \in {"failed", "conflict", "crashed"}
    BY <1>1, <2>5 DEF FreeOK, Items
  <2>. QED
    BY <1>2, <2>2, <2>3, <2>4, <2>5
<1>5. ASSUME NEW e \in entrusted'[h] PROVE ItemOK(h, e)'
  <2>1. e \in entrusted[h] /\ ItemOK(h, e) /\ e[1] \in Keys
    BY <1>5 DEF HandlerOK, TypeOK
  <2>2. /\ Renamed(h, e[1])' = Renamed(h, e[1]) /\ From(h)' = From(h)
        /\ label \in Steps => Ahead(h, e[1])' = Ahead(h, e[1])
        /\ label # "ok"
    BY <1>1, <1>2 DEF Renamed, From, Ahead, Listed
  <2>3. AheadOK(h, e)' /\ KeptOK(h, e)' /\ DoneOK(h, e)'
    BY <1>1, <2>1, <2>2 DEF ItemOK, AheadOK, KeptOK, DoneOK, Listed
  <2>4. CopiedOK(h, e)' /\ EndOK(h, e)'
    BY <1>1, <1>2, <2>1, <2>2 DEF ItemOK, CopiedOK, EndOK, Listed, Items
  <2>. QED
    BY <2>3, <2>4 DEF ItemOK
<1>. QED
  BY <1>3, <1>4, <1>5 DEF HandlerOK

-------------------------------------------------------------------------------
(* Moving an item.                                                          *)

\* Sources and destinations of a rename lie apart, and only the item under way
\* is moved from its source to its destination.
LEMMA Apart ==
  ASSUME TypeOK, NEW h \in Handlers, HandlerOK(h), pc[h] \in Items, NEW e \in entrusted[h]
  PROVE  /\ e[1] \in Keys /\ Renamed(h, e[1]) \in Keys
         /\ e[1] # To(h) /\ Renamed(h, e[1]) # From(h) /\ Renamed(h, e[1]) # e[1]
         /\ Renamed(h, e[1]) = To(h) => e[1] = From(h)
         /\ Ahead(h, From(h))
<1>1. JobOK(h) /\ ItemOK(h, e) /\ e[1] \in Keys /\ src[h] \in Keys /\ dst[h] \in Keys
  <2>1. JobOK(h) /\ ItemOK(h, e) /\ e[1] \in Keys
    BY DEF HandlerOK, TypeOK
  <2>. QED
    BY <2>1, ItemKeys DEF JobOK, Moves
<1>2. pc[h] \in Steps
  BY DEF Items, Steps
<1>3. CASE kind[h] = "moveFolder"
  <2>1. /\ e[1][1] = src[h][1] /\ src[h][1] # dst[h][1] /\ Renamed(h, e[1]) = <<dst[h][1], e[1][2]>>
    BY <1>1, <1>3 DEF ItemOK, AheadOK, Listed, InFolder, JobOK, Renamed
  <2>2. /\ Min(page[h]) \in page[h] /\ Min(page[h]) \in Names
        /\ From(h) = <<src[h][1], Min(page[h])>> /\ To(h) = <<dst[h][1], Min(page[h])>>
    BY <1>1, <1>3, ItemKeys
  <2>. QED
    BY <1>1, <1>3, <2>1, <2>2, KeyFacts DEF Ahead, Listed
<1>4. CASE kind[h] # "moveFolder"
  <2>1. kind[h] \in {"move", "replace"}
    BY <1>1, <1>4 DEF JobOK, StepsOf, Items, Ends, TypeOK, Kinds
  <2>. QED
    BY <1>1, <1>2, <1>4, <2>1, ItemKeys DEF ItemOK, AheadOK, Listed, JobOK, Renamed, Ahead
<1>. QED
  BY <1>3, <1>4

\* What h makes of the bucket while it works on an item.
Copied(h) == bucket' = [k \in Keys |-> IF k = To(h) THEN bucket[From(h)] ELSE bucket[k]]
Deleted(h) == bucket' = [k \in Keys |-> IF k = From(h) THEN Absent ELSE bucket[k]]

\* Neither the copy nor the delete of an item loses what h is entrusted with.
LEMMA StaysKept ==
  ASSUME TypeOK, NEW h \in Handlers, HandlerOK(h), NEW e \in entrusted[h],
         \/ pc[h] \in Items /\ bucket' = bucket
         \/ pc[h] = "copy" /\ Copied(h)
         \/ pc[h] = "delete" /\ Deleted(h)
  PROVE  /\ bucket'[e[1]] = e[2] \/ bucket'[Renamed(h, e[1])] = e[2]
         /\ e[1] # From(h) => bucket'[e[1]] = bucket[e[1]]
                              /\ bucket'[Renamed(h, e[1])] = bucket[Renamed(h, e[1])]
         /\ pc[h] = "copy" /\ Copied(h) => bucket'[e[1]] = bucket[e[1]]
<1>1. /\ e[1] \in Keys /\ Renamed(h, e[1]) \in Keys
      /\ e[1] # To(h) /\ Renamed(h, e[1]) # From(h)
      /\ Renamed(h, e[1]) = To(h) => e[1] = From(h)
      /\ Ahead(h, From(h)) /\ pc[h] \in Items /\ pc[h] \in Steps
  BY Apart DEF Items, Steps
<1>2. ItemOK(h, e) /\ kind[h] \in Moves /\ (e[1] = From(h) => bucket[e[1]] = e[2])
  BY <1>1, ItemKeys DEF HandlerOK, ItemOK, AheadOK
<1>3. CASE bucket' = bucket
  BY <1>2, <1>3 DEF ItemOK, KeptOK
<1>4. CASE pc[h] = "copy" /\ Copied(h)
  BY <1>1, <1>2, <1>4 DEF ItemOK, KeptOK, Copied
<1>5. CASE pc[h] = "delete" /\ Deleted(h)
  BY <1>1, <1>2, <1>5 DEF ItemOK, KeptOK, CopiedOK, Deleted
<1>. QED
  BY <1>3, <1>4, <1>5 DEF Items

\* The copy is answered.
LEMMA CopyAnsweredOK ==
  ASSUME TypeOK, NEW h \in Handlers, HandlerOK(h), pc[h] = "copy", Copied(h), Goto(h, "confirm"),
         overtaken'[h] = overtaken[h], entrusted'[h] = entrusted[h], UNCHANGED <<jobVars, listVars>>
  PROVE  HandlerOK(h)'
<1> USE DEF jobVars, listVars
<1>1. pc'[h] = "confirm" /\ pc[h] \in Items
  BY DEF Goto, TypeOK, Items
<1>2. /\ To(h) \in Keys /\ From(h) \in Keys /\ From(h) # To(h) /\ kind[h] \in Moves
      /\ kind[h] = "moveFolder" =>
           /\ Min(page[h]) \in page[h] /\ Min(page[h]) \in Names /\ Min(page[h]) <= cursor[h]
           /\ To(h) = <<dst[h][1], Min(page[h])>>
  BY <1>1, ItemKeys DEF HandlerOK
<1>3. JobOK(h)'
  BY <1>1 DEF HandlerOK, JobOK, Listed, StepsOf, Items, Ends, TypeOK, Kinds, Steps
<1>4. FreeOK(h)'
  <2>1. SUFFICES ASSUME ~overtaken[h], kind[h] = "moveFolder", NEW n \in Names,
                        n > cursor[h] \/ n \in page[h] \ {Min(page[h])}
                 PROVE  bucket'[<<dst[h][1], n>>] = Absent
    BY <1>1 DEF FreeOK, Due
  <2>2. <<dst[h][1], n>> \in Keys
    BY <2>1, KeyFacts DEF HandlerOK, JobOK
  <2>3. bucket[<<dst[h][1], n>>] = Absent
    BY <1>1, <2>1 DEF HandlerOK, FreeOK, Due
  <2>4. n # Min(page[h])
    BY <1>2, <2>1, Sizes DEF TypeOK
  <2>. QED
    BY <1>2, <2>1, <2>2, <2>3, <2>4 DEF Copied
<1>5. ASSUME NEW e \in entrusted'[h] PROVE ItemOK(h, e)'
  <2>1. e \in entrusted[h] /\ ItemOK(h, e)
    BY <1>5 DEF HandlerOK
  <2>2. /\ Renamed(h, e[1])' = Renamed(h, e[1]) /\ From(h)' = From(h)
        /\ Ahead(h, e[1])' = Ahead(h, e[1])
    BY <1>1 DEF Renamed, From, Ahead, Listed, Items, Steps
  <2>3. /\ bucket'[e[1]] = e[2] \/ bucket'[Renamed(h, e[1])] = e[2]
        /\ e[1] # From(h) => bucket'[e[1]] = bucket[e[1]]
                             /\ bucket'[Renamed(h, e[1])] = bucket[Renamed(h, e[1])]
        /\ bucket'[e[1]] = bucket[e[1]]
    BY <2>1, StaysKept
  <2>4. Ahead(h, From(h)) /\ (e[1] = From(h) => Renamed(h, e[1]) = To(h))
    BY <1>1, <2>1, Apart DEF To
  <2>5. AheadOK(h, e)' /\ KeptOK(h, e)' /\ EndOK(h, e)'
    BY <1>1, <2>1, <2>2, <2>3 DEF ItemOK, AheadOK, KeptOK, EndOK, Listed, Items, Steps
  <2>6. CopiedOK(h, e)'
    BY <1>1, <1>2, <2>1, <2>2, <2>4 DEF ItemOK, AheadOK, CopiedOK, Copied, Steps
  <2>7. DoneOK(h, e)'
    BY <1>1, <2>1, <2>2, <2>3, <2>4 DEF ItemOK, DoneOK, Steps
  <2>. QED
    BY <2>5, <2>6, <2>7 DEF ItemOK
<1>. QED
  BY <1>3, <1>4, <1>5 DEF HandlerOK

\* What the end of an item makes of the handler.
LEMMA ItemOverFacts ==
  ASSUME TypeOK, NEW h \in Handlers, JobOK(h), pc[h] \in Items,
         NEW failed \in BOOLEAN, ItemOver(h, failed)
  PROVE  /\ cursor'[h] = cursor[h] /\ more'[h] = more[h]
         /\ kind[h] # "moveFolder" =>
              /\ pc'[h] = (IF failed THEN "failed" ELSE "ok")
              /\ page'[h] = page[h] /\ errs'[h] = errs[h]
         /\ kind[h] = "moveFolder" =>
              /\ page'[h] = page[h] \ {Min(page[h])} /\ errs'[h] = (errs[h] \/ failed)
              /\ page'[h] # {} => pc'[h] = "copy"
              /\ page'[h] = {} /\ more[h] => pc'[h] = "list"
              /\ page'[h] = {} /\ ~more[h] => pc'[h] = (IF errs'[h] THEN "failed" ELSE "ok")
<1>1. CASE kind[h] # "moveFolder"
  BY <1>1 DEF ItemOver, Goto, TypeOK, listVars
<1>2. CASE kind[h] = "moveFolder"
  <2> DEFINE rest == page[h] \ {Min(page[h])}
  <2>1. /\ page' = [page EXCEPT ![h] = rest]
        /\ errs' = [errs EXCEPT ![h] = @ \/ failed]
        /\ Goto(h, CASE rest # {} -> "copy"
                     [] rest = {} /\ more[h] -> "list"
                     [] rest = {} /\ ~more[h] -> IF errs'[h] THEN "failed" ELSE "ok")
        /\ UNCHANGED <<cursor, more>>
    BY <1>2 DEF ItemOver
  <2>2. page'[h] = rest /\ errs'[h] = (errs[h] \/ failed)
    BY <2>1 DEF TypeOK
  <2> HIDE DEF rest
  <2>3. /\ rest # {} => Goto(h, "copy")
        /\ rest = {} /\ more[h] => Goto(h, "list")
        /\ rest = {} /\ ~more[h] => Goto(h, IF errs'[h] THEN "failed" ELSE "ok")
    <3>1. CASE rest # {}
      BY <2>1, <3>1
    <3>2. CASE rest = {} /\ more[h]
      BY <2>1, <3>2
    <3>3. CASE rest = {} /\ ~more[h]
      BY <2>1, <3>3
    <3>. QED
      BY <3>1, <3>2, <3>3
  <2>4. \A label : Goto(h, label) => pc'[h] = label
    BY DEF Goto, TypeOK
  <2>. QED
    BY <1>2, <2>1, <2>2, <2>3, <2>4 DEF rest
<1>. QED
  BY <1>1, <1>2

\* The item is over: what was listed before it and with it is dealt with.
LEMMA ItemOverOK ==
  ASSUME TypeOK, NEW h \in Handlers, HandlerOK(h), pc[h] \in Items,
         NEW failed \in BOOLEAN, ItemOver(h, failed),
         \/ failed /\ bucket' = bucket
         \/ failed /\ pc[h] = "copy" /\ Copied(h)
         \/ pc[h] = "delete" /\ Deleted(h),
         overtaken'[h] = overtaken[h], entrusted'[h] = entrusted[h], UNCHANGED jobVars
  PROVE  HandlerOK(h)'
<1> USE DEF jobVars
<1>0. JobOK(h) /\ FreeOK(h)
  BY DEF HandlerOK
<1>1. /\ cursor'[h] = cursor[h] /\ more'[h] = more[h]
      /\ kind[h] # "moveFolder" =>
           /\ pc'[h] = (IF failed THEN "failed" ELSE "ok")
           /\ page'[h] = page[h] /\ errs'[h] = errs[h]
      /\ kind[h] = "moveFolder" =>
           /\ page'[h] = page[h] \ {Min(page[h])} /\ errs'[h] = (errs[h] \/ failed)
           /\ page'[h] # {} => pc'[h] = "copy"
           /\ page'[h] = {} /\ more[h] => pc'[h] = "list"
           /\ page'[h] = {} /\ ~more[h] => pc'[h] = (IF errs'[h] THEN "failed" ELSE "ok")
  BY <1>0, ItemOverFacts
<1>2. /\ To(h) \in Keys /\ From(h) \in Keys /\ From(h) # To(h) /\ kind[h] \in Moves
      /\ src[h] \in Keys /\ dst[h] \in Keys
      /\ kind[h] = "moveFolder" =>
           /\ Min(page[h]) \in page[h] /\ Min(page[h]) \in Names /\ Min(page[h]) <= cursor[h]
           /\ From(h) = <<src[h][1], Min(page[h])>> /\ To(h) = <<dst[h][1], Min(page[h])>>
           /\ src[h][1] # dst[h][1]
      /\ kind[h] # "moveFolder" => From(h) = src[h]
  BY <1>0, ItemKeys DEF JobOK, Moves
<1>3. JobOK(h)'
  BY <1>0, <1>1, <1>2 DEF JobOK, Listed, StepsOf, Items, Ends, Steps, Moves
<1>4. FreeOK(h)'
  <2>1. SUFFICES ASSUME ~overtaken[h], kind[h] = "moveFolder", NEW n \in Names,
                        n > cursor[h] \/ n \in page[h] \ {Min(page[h])}
                 PROVE  bucket'[<<dst[h][1], n>>] = Absent
    BY <1>1, <1>2 DEF FreeOK, Due, Items, Moves
  <2>2. <<dst[h][1], n>> \in Keys /\ <<dst[h][1], n>> # From(h)
    BY <1>2, <2>1, KeyFacts
  <2>3. bucket[<<dst[h][1], n>>] = Absent
    BY <1>0, <2>1 DEF FreeOK, Due, Items
  <2>4. n # Min(page[h])
    BY <1>2, <2>1, Sizes DEF TypeOK
  <2>5. <<dst[h][1], n>> # To(h)
    BY <1>2, <2>1, <2>4
  <2>. QED
    BY <2>2, <2>3, <2>5 DEF Copied, Deleted
<1>5. ASSUME NEW e \in entrusted'[h] PROVE ItemOK(h, e)'
  <2>1. e \in entrusted[h] /\ ItemOK(h, e) /\ e[1] \in Keys
    BY <1>5 DEF HandlerOK, TypeOK
  <2>2. Renamed(h, e[1])' = Renamed(h, e[1])
    BY DEF Renamed
  <2>3. /\ bucket'[e[1]] = e[2] \/ bucket'[Renamed(h, e[1])] = e[2]
        /\ e[1] # From(h) => bucket'[e[1]] = bucket[e[1]]
                             /\ bucket'[Renamed(h, e[1])] = bucket[Renamed(h, e[1])]
    BY <2>1, StaysKept
  <2>4. \* The item under way, and no other, is no longer ahead.
        /\ pc'[h] \in Steps /\ Ahead(h, e[1])' => Ahead(h, e[1]) /\ e[1] # From(h)
        /\ ~Ahead(h, e[1])' /\ Ahead(h, e[1]) => e[1] = From(h)
        /\ Ahead(h, From(h))
    <3>1. Ahead(h, From(h)) /\ pc[h] \in Steps
      BY <2>1, Apart DEF Items, Steps
    <3>2. CASE kind[h] # "moveFolder"
      <4>1. pc'[h] \notin Steps /\ e[1] = From(h)
        BY <1>1, <1>2, <2>1, <3>2 DEF ItemOK, AheadOK, Listed, Steps, Moves
      <4>. QED
        BY <3>1, <4>1
    <3>3. CASE kind[h] = "moveFolder"
      <4>1. e[1] = <<src[h][1], e[1][2]>> /\ e[1][2] \in Names
        BY <2>1, <3>3, KeyFacts DEF ItemOK, AheadOK, Listed, InFolder
      <4>2. From(h)[2] = Min(page[h])
        BY <1>2, <3>3
      <4>3. e[1] = From(h) <=> e[1][2] = Min(page[h])
        BY <1>2, <3>3, <4>1, <4>2
      <4>4. Min(page[h]) > cursor[h] => FALSE
        BY <1>2, <3>3, Sizes DEF TypeOK
      <4>. QED
        BY <1>1, <1>2, <3>1, <3>3, <4>3, <4>4 DEF Ahead, Listed
    <3>. QED
      BY <3>2, <3>3
  <2>5. AheadOK(h, e)' /\ KeptOK(h, e)'
    <3>1. pc[h] \in Steps
      BY DEF Items, Steps
    <3>. QED
      BY <2>1, <2>2, <2>3, <2>4, <3>1 DEF ItemOK, AheadOK, KeptOK, Listed
  <2>6. CopiedOK(h, e)'
    BY <1>1 DEF CopiedOK
  <2>7. DoneOK(h, e)'
    <3>1. SUFFICES ASSUME pc'[h] \in Steps \cup {"ok"}, ~Ahead(h, e[1])', ~errs'[h]
                   PROVE  bucket'[e[1]] = Absent /\ bucket'[Renamed(h, e[1])] = e[2]
      BY <1>2, <2>2 DEF DoneOK, Moves
    <3>2. ~failed /\ ~errs[h] /\ pc[h] = "delete" /\ Deleted(h)
      BY <1>1, <3>1 DEF TypeOK, Steps
    <3>3. CASE Ahead(h, e[1])
      <4>1. e[1] = From(h) /\ Renamed(h, e[1]) # e[1]
            /\ Renamed(h, e[1]) \in Keys
        BY <2>1, <2>4, <3>1, <3>3, Apart
      <4>. QED
        BY <2>1, <3>2, <4>1 DEF ItemOK, CopiedOK, Deleted
    <3>4. CASE ~Ahead(h, e[1])
      <4>1. pc[h] \in Steps /\ e[1] # From(h)
        BY <2>4, <3>4 DEF Items, Steps
      <4>. QED
        BY <1>2, <2>1, <2>3, <3>2, <3>4, <4>1 DEF ItemOK, DoneOK
    <3>. QED
      BY <3>3, <3>4
  <2>8. EndOK(h, e)'
    BY <1>1, <1>2, <2>1 DEF ItemOK, EndOK, Listed, Items, Moves
  <2>. QED
    BY <2>5, <2>6, <2>7, <2>8 DEF ItemOK
<1>. QED
  BY <1>3, <1>4, <1>5 DEF HandlerOK

LEMMA ItemStepOK ==
  ASSUME TypeOK, NEW h \in Handlers, HandlerOK(h), Copy(h) \/ Delete(h) \/ ItemFault(h)
  PROVE  HandlerOK(h)'
<1>1. pc[h] \in Items /\ (Copy(h) => pc[h] = "copy") /\ (Delete(h) => pc[h] = "delete")
  BY DEF Copy, Delete, ItemFault, Items
<1>2. ASSUME NEW k \in Keys, NEW c, Write(h, {k}, c)
      PROVE  /\ bucket' = [x \in Keys |-> IF x = k THEN c ELSE bucket[x]]
             /\ overtaken'[h] = overtaken[h] /\ entrusted'[h] = entrusted[h]
  <2>1. entrusted'[h] = {e \in entrusted[h] : e[1] \notin {}}
    BY <1>2 DEF Write, WriteBut
  <2>2. overtaken'[h] = (overtaken[h] \/ (h # h /\ {k} \cap Awaited(h) # {}))
    BY <1>2 DEF Write, WriteBut
  <2>3. overtaken[h] \in BOOLEAN
    BY DEF TypeOK
  <2>. QED
    BY <1>2, <2>1, <2>2, <2>3 DEF Write, WriteBut
<1>3. From(h) \in Keys /\ To(h) \in Keys
  BY <1>1, ItemKeys DEF HandlerOK
<1>4. CASE Copy(h)
  <2>1. Copied(h) /\ overtaken'[h] = overtaken[h] /\ entrusted'[h] = entrusted[h] /\ UNCHANGED jobVars
    BY <1>2, <1>3, <1>4 DEF Copy, WriteNew, Copied
  <2>2. (Goto(h, "confirm") /\ UNCHANGED listVars) \/ ItemOver(h, TRUE)
    BY <1>4 DEF Copy, Answered
  <2>. QED
    BY <1>1, <1>4, <2>1, <2>2, CopyAnsweredOK, ItemOverOK
<1>5. CASE Delete(h)
  <2>1. Deleted(h) /\ overtaken'[h] = overtaken[h] /\ entrusted'[h] = entrusted[h] /\ UNCHANGED jobVars
    BY <1>2, <1>3, <1>5 DEF Delete, Deleted
  <2>. QED
    BY <1>1, <1>5, <2>1, ItemOverOK DEF Delete
<1>6. CASE ItemFault(h)
  BY <1>1, <1>6, ItemOverOK DEF ItemFault, bucketVars
<1>. QED
  BY <1>4, <1>5, <1>6

-------------------------------------------------------------------------------
(* Listings, chunks and single writes.                                      *)

\* A page takes all that is still ahead and lies before the new cursor.
LEMMA ListOK ==
  ASSUME TypeOK, NEW h \in Handlers, HandlerOK(h), List(h)
  PROVE  HandlerOK(h)'
<1>0. JobOK(h) /\ FreeOK(h) /\ pc[h] = "list" /\ pc[h] \in Steps
  BY DEF HandlerOK, List, Steps
<1>1. UNCHANGED <<bucket, kind, src, dst, errs, overtaken, entrusted>>
  BY DEF List, bucketVars, jobVars
<1>2. PICK found \in SUBSET Unlisted(h) :
        /\ \A x \in Unlisted(h), y \in found : x < y => x \in found
        /\ Unlisted(h) # {} => found # {}
        /\ page'[h] = page[h] \cup found
        /\ cursor'[h] \in -1 .. LastName /\ cursor'[h] >= cursor[h]
        /\ found = {} => cursor'[h] = cursor[h]
        /\ found # {} => cursor'[h] \in found
        /\ \A n \in found : n <= cursor'[h]
        /\ more'[h] <=> found # Unlisted(h)
        /\ Listed(h)
        /\ page'[h] = {} => pc'[h] = (IF errs[h] THEN "failed" ELSE "ok")
        /\ page'[h] # {} /\ kind[h] = "moveFolder" => pc'[h] = "copy"
        /\ page'[h] # {} /\ kind[h] = "deleteFolder" =>
             pc'[h] = (IF more'[h] THEN "list" ELSE "purge")
  BY <1>0, ListFacts
<1>3. /\ \A n \in page[h] : n \in Names /\ n <= cursor[h]
      /\ cursor[h] \in Int /\ cursor'[h] \in Int /\ Names \subseteq Int
  BY <1>0, <1>2, Sizes DEF TypeOK, JobOK
<1>4. \A n \in found : n \in Names /\ n > cursor[h]
  BY <1>2 DEF Unlisted
<1>5. /\ \A n \in page[h] : n <= cursor'[h] /\ n \in Names
      /\ \A n \in found : n <= cursor'[h] /\ n > cursor[h] /\ n \in Names
  <2>1. \A n \in Names : n <= cursor[h] => n <= cursor'[h]
    BY <1>2, <1>3
  <2>. QED
    BY <1>2, <1>3, <1>4, <2>1
<1>7. JobOK(h)'
  <2>1. \A n \in page'[h] : n <= cursor'[h]
    BY <1>2, <1>5
  <2>2. kind[h] \in {"moveFolder", "deleteFolder"} /\ errs[h] \in BOOLEAN
    BY <1>2 DEF Listed, TypeOK
  <2>. QED
    BY <1>0, <1>1, <1>2, <2>1, <2>2 DEF JobOK, Listed, StepsOf, Items, Ends, Steps
<1>8. FreeOK(h)'
  <2>1. SUFFICES ASSUME ~overtaken[h], kind[h] = "moveFolder", pc'[h] \in {"list"} \cup Items,
                        NEW n \in Names, n > cursor'[h] \/ n \in Due(h)'
                 PROVE  bucket[<<dst[h][1], n>>] = Absent
    BY <1>1, <1>2 DEF FreeOK, Listed, Items
  <2>2. n > cursor[h]
    <3>1. CASE n > cursor'[h]
      BY <1>2, <1>3, <3>1
    <3>2. CASE n \in Due(h)'
      <4>1. page[h] = {} /\ pc'[h] = "copy"
        BY <1>0, <1>2, <2>1 DEF JobOK, Items
      <4>2. n \in found
        BY <1>2, <3>2, <4>1 DEF Due
      <4>. QED
        BY <1>5, <4>2
    <3>. QED
      BY <2>1, <3>1, <3>2
  <2>. QED
    BY <1>0, <2>1, <2>2 DEF FreeOK
<1>6. ASSUME NEW e \in entrusted'[h] PROVE ItemOK(h, e)'
  <2>1. e \in entrusted[h] /\ ItemOK(h, e) /\ e[1] \in Keys
    BY <1>1, <1>6 DEF HandlerOK, TypeOK
  <2>2. Renamed(h, e[1])' = Renamed(h, e[1])
    BY <1>1 DEF Renamed
  <2>3. e[1] = <<src[h][1], e[1][2]>> /\ e[1][2] \in Names
    BY <1>2, <2>1, KeyFacts DEF ItemOK, AheadOK, InFolder
  <2>4. e[1][2] > cursor[h] => e[1][2] \in Unlisted(h)
    <3>1. e[1][2] > cursor[h] => bucket[e[1]] # Absent
      BY <1>0, <1>2, <2>1 DEF ItemOK, AheadOK, Ahead
    <3>. QED
      BY <2>3, <3>1 DEF Unlisted
  <2>5. Ahead(h, e[1])' <=> Ahead(h, e[1])
    <3> DEFINE n == e[1][2]
    <3>1. ASSUME n > cursor[h] PROVE n > cursor'[h] \/ n \in found
      <4>1. n \in Unlisted(h) /\ found # {} /\ cursor'[h] \in found
        BY <1>2, <2>4, <3>1
      <4>2. n < cursor'[h] => n \in found
        BY <1>2, <4>1
      <4> HIDE DEF n
      <4>3. n \in Int
        BY <1>3, <2>3 DEF n
      <4>. QED
        BY <1>3, <4>1, <4>2, <4>3
    <3>2. ASSUME n > cursor'[h] PROVE n > cursor[h]
      <4>1. n \in Int
        BY <1>3, <2>3
      <4> HIDE DEF n
      <4>. QED
        BY <1>2, <1>3, <3>2, <4>1
    <3>3. n \in found => n > cursor[h]
      BY <1>5
    <3>4. page'[h] = page[h] \cup found /\ Listed(h) /\ Listed(h)'
      BY <1>1, <1>2 DEF Listed
    <3>. QED
      BY <3>1, <3>2, <3>3, <3>4 DEF Ahead
  <2>6. AheadOK(h, e)' /\ KeptOK(h, e)' /\ DoneOK(h, e)'
    BY <1>0, <1>1, <2>1, <2>2, <2>5 DEF ItemOK, AheadOK, KeptOK, DoneOK, Listed
  <2>7. CopiedOK(h, e)'
    BY <1>2 DEF CopiedOK, Listed
  <2>8. EndOK(h, e)'
    <3>0. e[1][2] \in Int
      BY <1>3, <2>3
    <3>1. SUFFICES ASSUME \/ kind[h] = "moveFolder" /\ pc'[h] \in Items /\ ~more'[h]
                          \/ pc'[h] \in {"purge", "ok"},
                          ~(e[1][2] <= cursor'[h])
                   PROVE  FALSE
      BY <1>1 DEF EndOK
    <3>2. e[1][2] > cursor'[h] /\ e[1][2] > cursor[h]
      BY <1>2, <1>3, <3>0, <3>1
    <3>3. e[1][2] \in Unlisted(h)
      BY <2>4, <3>2
    <3>4. found = Unlisted(h)
      <4>1. CASE page'[h] = {}
        BY <1>2, <3>3, <4>1
      <4>2. CASE page'[h] # {}
        BY <1>2, <3>1, <4>2 DEF Items, Listed
      <4>. QED
        BY <4>1, <4>2
    <3>. QED
      BY <1>5, <3>1, <3>3, <3>4
  <2>. QED
    BY <2>6, <2>7, <2>8 DEF ItemOK
<1>. QED
  BY <1>6, <1>7, <1>8 DEF HandlerOK

\* Of a chunk, a folder deletion is entrusted with what storage has deleted only.
LEMMA PurgeOK ==
  ASSUME TypeOK, NEW h \in Handlers, HandlerOK(h), Purge(h)
  PROVE  HandlerOK(h)'
<1> DEFINE chunk == FirstOf(page[h], ChunkSize)
<1>0. JobOK(h) /\ pc[h] = "purge" /\ pc[h] \in Steps /\ kind[h] = "deleteFolder"
  BY DEF HandlerOK, Purge, Steps, JobOK, StepsOf, Items, Ends, TypeOK, Kinds
<1>1. UNCHANGED <<kind, src, dst, cursor, more, errs>>
  BY DEF Purge, jobVars
<1>2. chunk \subseteq page[h] /\ page[h] \subseteq Names
  BY Sizes, FirstOfFacts DEF TypeOK
<1>3. PICK gone \in SUBSET chunk : WriteBut(h, AsKeys(h, gone), Absent, AsKeys(h, chunk \ gone))
  BY DEF Purge
<1>4. /\ page'[h] = page[h] \ chunk
      /\ pc'[h] = (IF page'[h] = {} THEN "ok" ELSE "purge") \/ pc'[h] = "failed"
  BY DEF Purge, Goto, TypeOK
<1> HIDE DEF chunk
<1>5. /\ \A k \in Keys : bucket'[k] = IF k \in AsKeys(h, gone) THEN Absent ELSE bucket[k]
      /\ entrusted'[h] = {e \in entrusted[h] : e[1] \notin AsKeys(h, chunk \ gone)}
  BY <1>3 DEF WriteBut
<1>6. JobOK(h)'
  BY <1>0, <1>1, <1>2, <1>4, <1>5 DEF JobOK, Listed, StepsOf, Ends
<1>7. FreeOK(h)'
  BY <1>0, <1>1 DEF FreeOK
<1>8. ASSUME NEW e \in entrusted'[h] PROVE ItemOK(h, e)'
  <2>1. e \in entrusted[h] /\ e[1] \notin AsKeys(h, chunk \ gone)
    BY <1>5, <1>8
  <2>2. ItemOK(h, e) /\ e[1] \in Keys
    BY <2>1 DEF HandlerOK, TypeOK
  <2>3. e[1] = <<src[h][1], e[1][2]>> /\ e[1][2] \in Names
    BY <1>0, <2>2, KeyFacts DEF ItemOK, AheadOK, Listed, InFolder
  <2>4. \A names : e[1] \in AsKeys(h, names) <=> e[1][2] \in names
    BY <2>3 DEF AsKeys
  <2>5. /\ bucket'[e[1]] = IF e[1][2] \in gone THEN Absent ELSE bucket[e[1]]
        /\ e[1][2] \notin chunk \ gone
    BY <1>5, <2>1, <2>2, <2>4
  <2>6. Ahead(h, e[1])' <=> Ahead(h, e[1]) /\ e[1][2] \notin chunk
    <3>1. e[1][2] \in chunk => ~(e[1][2] > cursor[h])
      <4>1. e[1][2] \in Int
        BY <2>3, Sizes
      <4>2. cursor[h] \in Int
        BY Sizes DEF TypeOK
      <4>3. e[1][2] \in chunk => e[1][2] <= cursor[h]
        BY <1>0, <1>2 DEF JobOK
      <4>. QED
        BY <4>1, <4>2, <4>3
    <3>. QED
      BY <1>0, <1>1, <1>4, <3>1 DEF Ahead, Listed
  <2>7. AheadOK(h, e)'
    BY <1>0, <1>1, <1>3, <2>2, <2>5, <2>6 DEF ItemOK, AheadOK, Listed
  <2>8. KeptOK(h, e)' /\ CopiedOK(h, e)'
    BY <1>0, <1>1, <1>4 DEF KeptOK, CopiedOK, Moves
  <2>9. DoneOK(h, e)'
    BY <1>0, <1>1, <2>2, <2>5, <2>6 DEF ItemOK, DoneOK, Moves
  <2>10. EndOK(h, e)'
    BY <1>0, <1>1, <2>2 DEF ItemOK, EndOK, Listed, Items
  <2>. QED
    BY <2>7, <2>8, <2>9, <2>10 DEF ItemOK
<1>. QED
  BY <1>6, <1>7, <1>8 DEF HandlerOK

\* A handler that writes a single key is entrusted with nothing.
LEMMA PutOK ==
  ASSUME TypeOK, NEW h \in Handlers, HandlerOK(h), Put(h) \/ Upload(h)
  PROVE  HandlerOK(h)'
<1>1. /\ kind[h] \in {"create", "upload"} /\ JobOK(h)
      /\ pc'[h] \in {"ok", "failed"} /\ UNCHANGED <<jobVars, listVars>>
  BY DEF Put, Upload, Goto, HandlerOK, JobOK, StepsOf, Items, Ends, TypeOK, Kinds
<1>2. entrusted[h] = {}
  <2>1. \A e \in entrusted[h] : FALSE
    BY <1>1 DEF HandlerOK, ItemOK, AheadOK, Moves
  <2>. QED
    BY <2>1
<1>3. entrusted'[h] = {}
  BY <1>2 DEF Put, Upload, WriteNew, Write, WriteBut
<1>4. JobOK(h)'
  BY <1>1 DEF JobOK, Listed, StepsOf, Ends, Steps, jobVars, listVars
<1>5. FreeOK(h)'
  BY <1>1 DEF FreeOK, Items, jobVars
<1>. QED
  BY <1>3, <1>4, <1>5 DEF HandlerOK

\* Every step of a handler keeps what it has to keep.
LEMMA WorkOK ==
  ASSUME TypeOK, NEW h \in Handlers, HandlerOK(h), WorkStep(h)
  PROVE  HandlerOK(h)'
<1>1. CASE Check(h)
  <2>1. Goto(h, "conflict") \/ (Goto(h, AfterCheck(h)) /\ ~Taken(h))
    BY <1>1 DEF Check
  <2>2. pc[h] = "check" /\ pc[h] \in Steps /\ UNCHANGED <<bucketVars, jobVars, listVars>>
    BY <1>1 DEF Check, Steps
  <2>. QED
    BY <2>1, <2>2, LabelOK
<1>2. CASE Confirm(h)
  <2>1. pc[h] = "confirm" /\ pc[h] \in Steps /\ Goto(h, "delete") /\ UNCHANGED <<bucketVars, jobVars, listVars>>
    BY <1>2 DEF Confirm, Steps
  <2>. QED
    BY <2>1, LabelOK
<1>3. CASE Fault(h) \/ Crash(h)
  <2>1. /\ pc[h] \in Steps
        /\ Goto(h, "failed") \/ Goto(h, "crashed")
        /\ UNCHANGED <<bucketVars, jobVars, listVars>>
    BY <1>3 DEF Fault, Crash, Steps
  <2>. QED
    BY <2>1, LabelOK
<1>. QED
  BY <1>1, <1>2, <1>3, ListOK, PurgeOK, PutOK, ItemStepOK DEF WorkStep

-------------------------------------------------------------------------------
\* A handler writes a destination it has found free, unless it is overtaken.
LEMMA ReplacedStep ==
  ASSUME IInv, NEW h \in Handlers, HandlerStep(h)
  PROVE  ReplacedOnlyWhenOvertaken'
<1>1. TypeOK /\ HandlerOK(h) /\ ReplacedOnlyWhenOvertaken /\ replaced \subseteq Handlers \X Contents
  BY DEF IInv, TypeOK
<1>2. \A g \in Handlers : overtaken[g] => overtaken'[g]
  <2>1. ASSUME NEW g \in Handlers \ {h}, overtaken[g] PROVE overtaken'[g]
    BY <1>1, <2>1, OthersStay DEF Writes
  <2>2. ASSUME overtaken[h] PROVE overtaken'[h]
    <3>1. ASSUME NEW keys, NEW c, NEW kept, WriteBut(h, keys, c, kept) PROVE overtaken'[h]
      BY <2>2, <3>1 DEF WriteBut
    <3>2. CASE UNCHANGED overtaken
      BY <2>2, <3>2
    <3>3. (\E keys, c, kept : WriteBut(h, keys, c, kept)) \/ UNCHANGED overtaken
      <4>1. CASE BeginStep(h)
        BY <4>1
        DEF BeginStep, RenameObject, RenameFolder, CreateFolder, DeleteFolder, HandleUpload, DeleteObject, Write
      <4>2. CASE Copy(h) \/ Put(h) \/ Upload(h) \/ Delete(h)
        BY <4>2 DEF Copy, Put, Upload, Delete, WriteNew, Write
      <4>3. CASE Purge(h)
        BY <4>3 DEF Purge
      <4>4. CASE Check(h) \/ List(h) \/ Confirm(h) \/ ItemFault(h) \/ Fault(h) \/ Crash(h)
        BY <4>4 DEF Check, List, Confirm, ItemFault, Fault, Crash, bucketVars
      <4>. QED
        BY <4>1, <4>2, <4>3, <4>4 DEF HandlerStep, WorkStep
    <3>. QED
      BY <3>1, <3>2, <3>3
  <2>. QED
    BY <2>1, <2>2
<1>3. replaced' = replaced \/ (overtaken[h] /\ \E c : replaced' = replaced \cup {<<h, c>>})
  <2>1. ASSUME NEW k, WriteNew(h, k, bucket[From(h)]) \/ WriteNew(h, k, h), overtaken[h] \/ bucket[k] = Absent
        PROVE  replaced' = replaced \/ (overtaken[h] /\ \E c : replaced' = replaced \cup {<<h, c>>})
    BY <2>1 DEF WriteNew
  <2>2. CASE Put(h)
    <3>1. pc[h] = "put" /\ kind[h] = "create" /\ WriteNew(h, dst[h], h)
      BY <1>1, <2>2 DEF Put, HandlerOK, JobOK, StepsOf, Items, Ends, TypeOK, Kinds
    <3>. QED
      BY <1>1, <2>1, <3>1 DEF HandlerOK, FreeOK
  <2>3. CASE Copy(h)
    <3>1. pc[h] = "copy" /\ (replaced' = replaced \/ (kind[h] # "replace" /\ WriteNew(h, To(h), bucket[From(h)])))
      BY <2>3 DEF Copy
    <3>2. kind[h] # "replace" => overtaken[h] \/ bucket[To(h)] = Absent
      <4>1. /\ kind[h] \in Moves
            /\ kind[h] = "moveFolder" =>
                 /\ Min(page[h]) \in page[h] /\ Min(page[h]) \in Names
                 /\ To(h) = <<dst[h][1], Min(page[h])>>
            /\ kind[h] # "moveFolder" => To(h) = dst[h]
        BY <1>1, <3>1, ItemKeys DEF HandlerOK, Items
      <4>2. Due(h) = page[h]
        BY <3>1 DEF Due
      <4>. QED
        BY <1>1, <3>1, <4>1, <4>2 DEF HandlerOK, FreeOK, Items, Moves
    <3>. QED
      BY <2>1, <3>1, <3>2
  <2>4. CASE BeginStep(h)
    BY <2>4
    DEF BeginStep, RenameObject, RenameFolder, CreateFolder, DeleteFolder, HandleUpload, DeleteObject, Begin
  <2>5. CASE Upload(h) \/ Delete(h) \/ Purge(h)
    BY <2>5 DEF Upload, Delete, Purge
  <2>6. CASE Check(h) \/ List(h) \/ Confirm(h) \/ ItemFault(h) \/ Fault(h) \/ Crash(h)
    BY <2>6 DEF Check, List, Confirm, ItemFault, Fault, Crash, bucketVars
  <2>. QED
    BY <2>2, <2>3, <2>4, <2>5, <2>6 DEF HandlerStep, WorkStep
<1>. QED
  BY <1>1, <1>2, <1>3 DEF ReplacedOnlyWhenOvertaken

LEMMA IInvStep == IInv /\ [Next]_vars => IInv'
<1> SUFFICES ASSUME IInv, [Next]_vars PROVE IInv'
  OBVIOUS
<1>1. TypeOK'
  BY TypeStep
<1>2. ASSUME NEW h \in Handlers, HandlerStep(h) PROVE ReplacedOnlyWhenOvertaken' /\ \A g \in Handlers : HandlerOK(g)'
  <2>1. HandlerOK(h)'
    BY <1>2, BeginOK, WorkOK DEF IInv, HandlerStep
  <2>2. ASSUME NEW g \in Handlers \ {h} PROVE HandlerOK(g)'
    BY <1>2, OthersStay, OthersKeep DEF IInv
  <2>. QED
    BY <1>2, <2>1, <2>2, ReplacedStep
<1>3. CASE UNCHANGED vars
  <2>1. UNCHANGED <<bucket, kind, src, dst, pc, page, cursor, more, errs, overtaken, replaced, entrusted>>
    BY <1>3 DEF vars, jobVars, listVars
  <2>2. ASSUME NEW h \in Handlers PROVE HandlerOK(h)'
    <3>1. HandlerOK(h)
      BY DEF IInv
    <3>2. JobOK(h)' <=> JobOK(h)
      BY <2>1 DEF JobOK, Listed
    <3>3. FreeOK(h)' <=> FreeOK(h)
      BY <2>1 DEF FreeOK, Due
    <3>4. \A e : ItemOK(h, e)' <=> ItemOK(h, e)
      BY <2>1 DEF ItemOK, AheadOK, KeptOK, CopiedOK, DoneOK, EndOK, Ahead, Listed, Renamed, From
    <3>. QED
      BY <2>1, <3>1, <3>2, <3>3, <3>4 DEF HandlerOK
  <2>. QED
    BY <1>1, <2>1, <2>2 DEF IInv, ReplacedOnlyWhenOvertaken
<1>. QED
  BY <1>1, <1>2, <1>3, StepCases DEF IInv

LEMMA AlwaysIInv == Spec => []IInv
<1>. QED
  BY InitOK, IInvStep, PTL DEF Spec

\* StorageMoves has the types its comments give its variables; a folder rename
\* that is about to move an item has one.
THEOREM StorageMovesTypeCorrect == Spec => []TypeOK
<1>1. IInv => TypeOK
  BY DEF IInv
<1>. QED
  BY <1>1, AlwaysIInv, PTL

\* RenameObject without ?overwrite, RenameFolder and CreateFolder replace an
\* object only when someone wrote there after their check.
THEOREM ReplacesOnlyIfOvertaken == Spec => []ReplacedOnlyWhenOvertaken
<1>1. IInv => ReplacedOnlyWhenOvertaken
  BY DEF IInv
<1>. QED
  BY <1>1, AlwaysIInv, PTL

\* Wherever a rename fails or stops, the copy comes before the delete: all it
\* found is at its source or its destination, unless another request wrote one.
THEOREM RenamesKeepContents == Spec => []RenameKeepsContents
<1>1. IInv => RenameKeepsContents
  BY DEF IInv, HandlerOK, ItemOK, KeptOK, RenameKeepsContents
<1>. QED
  BY <1>1, AlwaysIInv, PTL

\* A rename that answers success has gone through every page of its folder.
THEOREM RenamesMoveAll == Spec => []SuccessMovesAll
<1>1. IInv => SuccessMovesAll
  <2> SUFFICES ASSUME IInv, NEW h \in Handlers, kind[h] \in Moves, pc[h] = "ok", NEW e \in entrusted[h]
               PROVE  bucket[e[1]] = Absent /\ bucket[Renamed(h, e[1])] = e[2]
    BY DEF SuccessMovesAll
  <2>1. JobOK(h) /\ ItemOK(h, e) /\ e[1] \in Keys /\ cursor[h] \in Int
    BY Sizes DEF IInv, HandlerOK, TypeOK
  <2>2. ~Ahead(h, e[1])
    <3>1. CASE Listed(h)
      <4>1. kind[h] = "moveFolder" /\ page[h] = {} /\ e[1][2] <= cursor[h]
        BY <2>1, <3>1 DEF JobOK, ItemOK, EndOK, Listed, Moves
      <4>2. e[1][2] \in Int
        BY <2>1, KeyFacts, Sizes
      <4>. QED
        BY <2>1, <3>1, <4>1, <4>2 DEF Ahead
    <3>2. CASE ~Listed(h)
      BY <3>2 DEF Ahead, Steps
    <3>. QED
      BY <3>1, <3>2
  <2>. QED
    BY <2>1, <2>2 DEF JobOK, ItemOK, DoneOK
<1>. QED
  BY <1>1, AlwaysIInv, PTL

\* A folder deletion that answers success has gone through every page and every
\* chunk; what is left of what it found, storage refused to delete.
THEOREM DeletionsLeaveOnlyRefused == Spec => []DeletionLeavesOnlyRefused
<1>1. IInv => DeletionLeavesOnlyRefused
  <2> SUFFICES ASSUME IInv, NEW h \in Handlers, kind[h] = "deleteFolder", pc[h] = "ok", NEW e \in entrusted[h]
               PROVE  bucket[e[1]] = Absent
    BY DEF DeletionLeavesOnlyRefused
  <2>1. JobOK(h) /\ ItemOK(h, e) /\ e[1] \in Keys /\ cursor[h] \in Int
    BY Sizes DEF IInv, HandlerOK, TypeOK
  <2>2. Listed(h) /\ page[h] = {} /\ e[1][2] <= cursor[h]
    BY <2>1 DEF JobOK, ItemOK, EndOK, Listed
  <2>3. e[1][2] \in Int
    BY <2>1, KeyFacts, Sizes
  <2>4. ~Ahead(h, e[1])
    BY <2>1, <2>2, <2>3 DEF Ahead
  <2>. QED
    BY <2>1, <2>4 DEF ItemOK, DoneOK
<1>. QED
  BY <1>1, AlwaysIInv, PTL
===============================================================================
