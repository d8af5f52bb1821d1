-------------------------------- MODULE Listing --------------------------------
(***************************************************************************)
(* The listings of one folder: GET /contents, page by page over cursors    *)
(* (ListContents), and the one-call listings of objects, of sub-folders    *)
(* and of a whole tree (ListObjects, ListFolders, GetFolder), each reading *)
(* storage page by page while other requests add and remove entries.       *)
(*                                                                         *)
(* An entry is a sub-folder (a common prefix) or an object; entries are    *)
(* numbered in the byte order storage lists them in, and 0 is the folder's *)
(* own marker.  Listings only read, so one caller is enough: it stands for *)
(* any of them.  A cursor is the opaque name of an entry.                  *)
(***************************************************************************)
EXTENDS Pages

CONSTANTS
  LastEntry,       \* entries are 0 .. LastEntry
  Folders,         \* those that are sub-folders
  MaxPage,         \* the most entries storage puts in a page (1000)
  MaxListEntries   \* the most entries a listing returns (10000)

ASSUME BoundsAssumption ==
  /\ LastEntry \in Nat
  /\ Folders \subseteq 1 .. LastEntry
  /\ MaxPage \in Nat \ {0}
  /\ MaxListEntries \in Nat \ {0}

Marker == 0
Entries == 0 .. LastEntry
None == -1
Places == Entries \cup {None}
Listings == {"contents", "objects", "folders", "tree"}

VARIABLES
  level,      \* the entries storage holds
  listing,    \* which listing the caller asked for
  pc,         \* where its handler is
  cursor,     \* the cursor of the call under way
  after,      \* the entry the next page starts after
  found,      \* the entries collected by this call
  next,       \* next_cursor of the last answer
  truncated,  \* its pagination.truncated
  seen,       \* history: entries the walk got from earlier calls
  stayed      \* history: entries there since the walk began

callVars == <<cursor, after, found>>
answerVars == <<next, truncated>>
historyVars == <<seen, stayed>>
vars == <<level, listing, pc, callVars, answerVars, historyVars>>

Init ==
  /\ level \in SUBSET Entries
  /\ listing \in Listings
  /\ pc = "idle"
  /\ cursor = None
  /\ after = None
  /\ found = {}
  /\ next = None
  /\ truncated = FALSE
  /\ seen = {}
  /\ stayed = {}

-------------------------------------------------------------------------------
(* The caller.                                                              *)

\* The first call of a walk, or the only one.
Begin ==
  /\ pc = "idle"
  /\ pc' = "page"
  /\ stayed' = level
  /\ UNCHANGED <<level, listing, callVars, answerVars, seen>>

CallFromStart(from) ==
  /\ pc' = "page"
  /\ cursor' = from
  /\ after' = None
  /\ found' = {}
  /\ UNCHANGED <<level, listing, answerVars, stayed>>

\* ListContents is called with some cursor, which becomes StartAfter.
Call(from) ==
  /\ pc' = "page"
  /\ cursor' = from
  /\ after' = from
  /\ found' = {}
  /\ UNCHANGED <<level, listing, answerVars, stayed>>

ResumeAtCursor ==
  /\ pc = "answered" /\ listing = "contents" /\ next # None
  /\ seen' = seen \cup found
  /\ Call(next - 1)

\* The caller follows next_cursor.
Resume ==
  /\ pc = "answered" /\ listing = "contents" /\ next # None
  /\ seen' = seen \cup found
  /\ Call(next)

\* The caller repeats a call that failed.
Retry ==
  /\ pc = "failed"
  /\ Call(cursor)
  /\ UNCHANGED seen

-------------------------------------------------------------------------------
(* Storage's pages.                                                         *)

Rest == {e \in level : e > after}

\* ListObjectsV2: some of the entries after the last one told, in order; a page
\* may be shorter than asked for, but not empty while entries are left.
IsPage(page) == \E size \in 1 .. MaxPage : page = FirstOf(Rest, size)

\* The continuation token says where the next page starts.
NextPage(page) ==
  /\ \E e \in page : IsLast(e, page) /\ after' = e
  /\ UNCHANGED <<pc, answerVars>>

AnswerWith(cut, upTo) ==
  /\ pc' = "answered"
  /\ truncated' = cut
  /\ next' = upTo
  /\ UNCHANGED after

-------------------------------------------------------------------------------
(* ListContents.                                                            *)

ContentsPageEnd(page) ==
  LET entries == page \ {Marker}
      taken == FirstOf(entries, MaxListEntries - Cardinality(found))
      full == Cardinality(found \cup taken) = MaxListEntries
  IN
  /\ found' = found \cup taken
  /\ IF taken # entries \/ (full /\ page # Rest)
     THEN \E e \in page : IsLast(e, page) /\ AnswerWith(TRUE, e)
     ELSE IF page # Rest THEN NextPage(page)
     ELSE AnswerWith(FALSE, None)

\* One page of mergeEntries: entries are taken until the answer is full.  The
\* answer ends with a cursor when the page holds more, or when it is exactly
\* full and this is not the last page.
ContentsPage(page) ==
  LET entries == page \ {Marker}
      taken == FirstOf(entries, MaxListEntries - Cardinality(found))
      full == Cardinality(found \cup taken) = MaxListEntries
  IN
  /\ found' = found \cup taken
  /\ IF taken # entries \/ (full /\ page # Rest)
     THEN \E e \in found' : IsLast(e, found') /\ AnswerWith(TRUE, e)
     ELSE IF page # Rest THEN NextPage(page)
     ELSE AnswerWith(FALSE, None)

-------------------------------------------------------------------------------
(* ListObjects, ListFolders and GetFolder.                                  *)

\* What of a page a listing keeps.
Kept(page) ==
  CASE listing = "objects" -> page \ (Folders \cup {Marker})
    [] listing = "folders" -> page \cap Folders
    [] listing = "tree" -> page \ {Marker}

CapPageLax(page) ==
  LET all == found \cup Kept(page)
      count == Cardinality(all)
  IN
  IF listing # "tree" /\ count >= MaxListEntries
  THEN found' = FirstOf(all, MaxListEntries) /\ AnswerWith(count > MaxListEntries, None)
  ELSE /\ found' = all
       /\ IF page # Rest /\ count < MaxListEntries THEN NextPage(page)
          ELSE AnswerWith(FALSE, None)

CapPageUncut(page) ==
  LET all == found \cup Kept(page)
      count == Cardinality(all)
  IN
  /\ found' = all
  /\ IF page # Rest /\ count < MaxListEntries THEN NextPage(page)
     ELSE AnswerWith(listing # "tree" /\ (count > MaxListEntries \/ page # Rest), None)

\* Everything of the page is kept and, once there is enough, the rest cut off and
\* reported as truncated; GetFolder just stops and says nothing.
CapPage(page) ==
  LET all == found \cup Kept(page)
      count == Cardinality(all)
  IN
  IF listing # "tree" /\ count >= MaxListEntries
  THEN /\ found' = FirstOf(all, MaxListEntries)
       /\ AnswerWith(count > MaxListEntries \/ page # Rest, None)
  ELSE /\ found' = all
       /\ IF page # Rest /\ count < MaxListEntries THEN NextPage(page)
          ELSE AnswerWith(FALSE, None)

-------------------------------------------------------------------------------

\* One request to storage and what the handler does with its page.
Page ==
  /\ pc = "page"
  /\ \E page \in SUBSET Rest :
       /\ IsPage(page)
       /\ IF listing = "contents" THEN ContentsPage(page) ELSE CapPage(page)
  /\ UNCHANGED <<level, listing, cursor, historyVars>>

\* A page cannot be read: the handler answers an error and no entries.
Fault ==
  /\ pc = "page"
  /\ pc' = "failed"
  /\ found' = {}
  /\ UNCHANGED <<level, listing, cursor, after, answerVars, historyVars>>

\* Other requests add and remove entries.
Add(e) ==
  /\ e \notin level
  /\ level' = level \cup {e}
  /\ UNCHANGED <<listing, pc, callVars, answerVars, historyVars>>

Remove(e) ==
  /\ e \in level
  /\ level' = level \ {e}
  /\ stayed' = stayed \ {e}
  /\ UNCHANGED <<listing, pc, callVars, answerVars, seen>>

Next ==
  \/ Begin \/ Resume \/ Retry
  \/ Page \/ Fault
  \/ \E e \in Entries : Add(e) \/ Remove(e)

Spec == Init /\ [][Next]_vars

\* A handler under way reads on, and the caller follows its cursor.
FairSpec == Spec /\ WF_vars(Page) /\ WF_vars(Resume)

-------------------------------------------------------------------------------
\* Type invariant; no answer but GetFolder's is longer than MaxListEntries.
TypeOK ==
  /\ level \subseteq Entries
  /\ listing \in Listings
  /\ pc \in {"idle", "page", "answered", "failed"}
  /\ cursor \in Places
  /\ after \in Places
  /\ found \subseteq Entries
  /\ listing # "tree" => Cardinality(found) <= MaxListEntries
  /\ next \in Places
  /\ truncated \in BOOLEAN
  /\ seen \subseteq Entries
  /\ stayed \subseteq level

\* ListContents cuts at one exact entry: of what stays where it is during the
\* walk, all up to the cursor has been returned and nothing after it; without
\* a cursor the level is complete, whatever was added or removed meanwhile.
CursorExact ==
  pc = "answered" /\ listing = "contents" =>
    \A e \in stayed \ {Marker} : e \in seen \cup found <=> (next = None \/ e <= next)

\* Following cursors never returns an entry twice, also not after a failed call
\* is repeated or an entry is removed and added again.
NeverTwice == seen \cap found = {}

Wanted(e) ==
  CASE listing = "contents" -> e # Marker
    [] listing = "objects" -> e \notin Folders \cup {Marker}
    [] listing = "folders" -> e \in Folders
    [] listing = "tree" -> e # Marker

\* ListObjects and ListFolders leave out nothing that stays, except behind the
\* last entry of an answer they call truncated; GetFolder nothing below its cap.
CutIsTold ==
  pc = "answered" /\ listing # "contents" =>
    \A e \in stayed : Wanted(e) =>
      \/ e \in found
      \/ /\ IF listing = "tree" THEN Cardinality(found) >= MaxListEntries ELSE truncated
         /\ \A f \in found : f < e

\* list.aws.go: "truncated reports that more exist": an object after the last one
\* returned, if nothing has changed since.
TruncatedMeansMore ==
  pc = "answered" /\ listing = "objects" /\ truncated /\ level = stayed =>
    \E e \in level : Wanted(e) /\ e \notin found

\* A walk ends, or a call of it fails, however often entries are added: each
\* page and each call starts after the one before.
WalkEnds ==
  pc = "page" ~> pc = "failed" \/ (pc = "answered" /\ (listing = "contents" => next = None))
===============================================================================
