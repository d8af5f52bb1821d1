----------------------------- MODULE StorageMoves -----------------------------
(***************************************************************************)
(* The handlers that change a bucket: object and folder renames (copy,     *)
(* confirm, delete), folder creation (look, then put), folder deletion     *)
(* (list, then delete in chunks), uploads and single deletes.  Storage     *)
(* does each call at once; between two calls of a handler any other may    *)
(* run.  A call may fail with or without having taken effect, and the      *)
(* process may stop between two calls.                                     *)
(*                                                                         *)
(* A key is a folder and a name in it; names are numbered in the order     *)
(* storage lists them and 0 is the folder's own marker key.  The content   *)
(* of an object is named by where it came from: the key it was under when  *)
(* the model starts, or the handler that uploaded it.                      *)
(***************************************************************************)
EXTENDS Pages, FiniteSetsExt

CONSTANTS
  Handlers,   \* the requests, one operation each
  Folders,
  LastName,   \* names are 0 .. LastName
  PageSize,   \* keys in a page of ListObjectsV2
  ChunkSize,  \* keys in one DeleteObjects request (1000)
  Absent      \* what an unused key holds

ASSUME SizesAssumption ==
  /\ LastName \in Nat
  /\ PageSize \in Nat \ {0}
  /\ ChunkSize \in Nat \ {0}

Names == 0 .. LastName
Marker == 0
Keys == Folders \X Names
Contents == Keys \cup Handlers

VARIABLES
  bucket,     \* what each key holds
  kind,       \* the operation of each handler
  pc,         \* where it is
  src, dst,   \* the keys (for a folder: the marker keys) it works on
  page,       \* names listed and not yet dealt with
  cursor,     \* the last name listed
  more,       \* the last page was not the end of the listing
  errs,       \* some item of a folder rename failed
  overtaken,  \* history: someone wrote a destination after it was found free
  replaced,   \* history: <<handler, content>> replaced by one that must not
  entrusted   \* history: <<key, content>> that was there for a rename to move, as
              \* long as nobody else writes that key or its destination, or for
              \* a folder deletion to delete, as long as nobody else writes that
              \* key and storage does not refuse to delete it

jobVars == <<kind, src, dst>>
listVars == <<page, cursor, more, errs>>
vars == <<bucket, jobVars, pc, listVars, overtaken, replaced, entrusted>>

Kinds == {"none", "move", "replace", "moveFolder", "create", "deleteFolder", "upload", "delete"}
Ends == {"ok", "failed", "conflict", "crashed"}
Steps == {"check", "list", "copy", "confirm", "delete", "put", "purge", "send"}
Moves == {"move", "replace", "moveFolder"}

Init ==
  /\ bucket \in {b \in [Keys -> Keys \cup {Absent}] : \A k \in Keys : b[k] \in {k, Absent}}
  /\ kind = [h \in Handlers |-> "none"]
  /\ pc = [h \in Handlers |-> "idle"]
  /\ src = [h \in Handlers |-> Absent]
  /\ dst = [h \in Handlers |-> Absent]
  /\ page = [h \in Handlers |-> {}]
  /\ cursor = [h \in Handlers |-> -1]
  /\ more = [h \in Handlers |-> FALSE]
  /\ errs = [h \in Handlers |-> FALSE]
  /\ overtaken = [h \in Handlers |-> FALSE]
  /\ replaced = {}
  /\ entrusted = [h \in Handlers |-> {}]

-------------------------------------------------------------------------------
(* The item under way, and what a write to the bucket does to the others.   *)

InFolder(f) == {k \in Keys : k[1] = f}

\* The key a folder rename gives to a key of its source.
Renamed(h, k) == IF kind[h] = "moveFolder" THEN <<dst[h][1], k[2]>> ELSE dst[h]

From(h) == IF kind[h] = "moveFolder" THEN <<src[h][1], Min(page[h])>> ELSE src[h]
To(h) == Renamed(h, From(h))

\* The keys a handler found free and has yet to write.
Awaited(h) ==
  CASE kind[h] = "moveFolder" /\ pc[h] \in Steps \ {"check"} -> InFolder(dst[h][1])
    [] kind[h] = "move" /\ pc[h] = "copy" -> {dst[h]}
    [] kind[h] = "create" /\ pc[h] = "put" -> {dst[h]}
    [] OTHER -> {}

\* Handler h makes these keys hold c; it has not got its way with the kept ones.
WriteBut(h, keys, c, kept) ==
  /\ bucket' = [k \in Keys |-> IF k \in keys THEN c ELSE bucket[k]]
  /\ overtaken' = [g \in Handlers |-> overtaken[g] \/ (g # h /\ keys \cap Awaited(g) # {})]
  /\ entrusted' = [g \in Handlers |->
       IF g = h THEN {e \in entrusted[g] : e[1] \notin kept}
       ELSE {e \in entrusted[g] :
               e[1] \notin keys /\ (kind[g] \in Moves => Renamed(g, e[1]) \notin keys)}]

Write(h, keys, c) == WriteBut(h, keys, c, {})

\* Handler h writes one key it is not meant to overwrite.
WriteNew(h, k, c) ==
  /\ Write(h, {k}, c)
  /\ replaced' = IF bucket[k] = Absent THEN replaced ELSE replaced \cup {<<h, bucket[k]>>}

bucketVars == <<bucket, overtaken, entrusted, replaced>>

Goto(h, label) == pc' = [pc EXCEPT ![h] = label]

Begin(h, what, s, d, label) ==
  /\ pc[h] = "idle"
  /\ kind' = [kind EXCEPT ![h] = what]
  /\ src' = [src EXCEPT ![h] = s]
  /\ dst' = [dst EXCEPT ![h] = d]
  /\ Goto(h, label)
  /\ UNCHANGED <<listVars, replaced>>

-------------------------------------------------------------------------------
(* Where each operation starts.                                             *)

\* RenameObject up to its first call: a folder key is refused, renaming an
\* object to its own name does nothing.
RenameObject(h, s, d, overwrite) ==
  /\ s[2] # Marker
  /\ Begin(h, IF overwrite THEN "replace" ELSE "move", s, d,
           IF s = d THEN "ok" ELSE IF overwrite THEN "copy" ELSE "check")
  /\ entrusted' = [entrusted EXCEPT ![h] = IF s = d \/ bucket[s] = Absent THEN {} ELSE {<<s, bucket[s]>>}]
  /\ UNCHANGED <<bucket, overtaken>>

Found(f) == {<<k, bucket[k]>> : k \in {x \in InFolder(f) : bucket[x] # Absent}}

\* RenameFolder up to its first call, for two folders neither of which holds
\* the other.
RenameFolder(h, f, g) ==
  /\ f # g
  /\ Begin(h, "moveFolder", <<f, Marker>>, <<g, Marker>>, "check")
  /\ entrusted' = [entrusted EXCEPT ![h] = Found(f)]
  /\ UNCHANGED <<bucket, overtaken>>

CreateFolder(h, f) ==
  /\ Begin(h, "create", <<f, Marker>>, <<f, Marker>>, "check")
  /\ UNCHANGED <<bucket, overtaken, entrusted>>

DeleteFolder(h, f) ==
  /\ Begin(h, "deleteFolder", <<f, Marker>>, <<f, Marker>>, "list")
  /\ entrusted' = [entrusted EXCEPT ![h] = Found(f)]
  /\ UNCHANGED <<bucket, overtaken>>

\* HandleUpload while it reads the file into a temporary one.
HandleUpload(h, k) ==
  /\ Begin(h, "upload", k, k, "send")
  /\ UNCHANGED <<bucket, overtaken, entrusted>>

DeleteObject(h, k) ==
  /\ Begin(h, "delete", k, k, "ok")
  /\ Write(h, {k}, Absent)

-------------------------------------------------------------------------------
(* Looking before writing.                                                  *)

\* objectExists, prefixInUse, CreateFolder's HeadObject.
Taken(h) ==
  IF kind[h] = "moveFolder" THEN \E k \in InFolder(dst[h][1]) : bucket[k] # Absent
  ELSE bucket[dst[h]] # Absent

AfterCheck(h) ==
  CASE kind[h] = "move" -> "copy"
    [] kind[h] = "moveFolder" -> "list"
    [] kind[h] = "create" -> "put"

CheckNothing(h) ==
  /\ pc[h] = "check"
  /\ Goto(h, AfterCheck(h))
  /\ UNCHANGED <<bucketVars, jobVars, listVars>>

\* A destination that is taken is refused.
Check(h) ==
  /\ pc[h] = "check"
  /\ Goto(h, IF Taken(h) THEN "conflict" ELSE AfterCheck(h))
  /\ UNCHANGED <<bucketVars, jobVars, listVars>>

\* CreateFolder's PutObject of the empty marker; its answer may be lost.
Put(h) ==
  /\ pc[h] = "put"
  /\ WriteNew(h, dst[h], h)
  /\ \E end \in {"ok", "failed"} : Goto(h, end)
  /\ UNCHANGED <<jobVars, listVars>>

\* The whole file is there: one PutObject, never conditional, that replaces
\* what the key held.  Its answer may be lost.
Upload(h) ==
  /\ pc[h] = "send"
  /\ Write(h, {dst[h]}, h)
  /\ \E end \in {"ok", "failed"} : Goto(h, end)
  /\ UNCHANGED <<jobVars, replaced, listVars>>

-------------------------------------------------------------------------------
(* Listing a folder page by page.                                           *)

Unlisted(h) == {n \in Names : n > cursor[h] /\ bucket[<<src[h][1], n>>] # Absent}

ListUnguarded(h) ==
  /\ pc[h] = "list"
  /\ LET found == FirstOf(Unlisted(h), PageSize)
     IN  /\ page' = [page EXCEPT ![h] = @ \cup found]
         /\ more' = [more EXCEPT ![h] = found # Unlisted(h)]
         /\ Goto(h, IF kind[h] = "moveFolder" THEN "copy" ELSE "purge")
  /\ UNCHANGED <<bucketVars, jobVars, cursor, errs>>

\* One page of ListObjectsV2Pages.  A folder rename deals with a page before
\* it asks for the next one, a folder deletion reads them all first.
List(h) ==
  /\ pc[h] = "list"
  /\ LET found == FirstOf(Unlisted(h), PageSize)
     IN  /\ page' = [page EXCEPT ![h] = @ \cup found]
         /\ cursor' = [cursor EXCEPT ![h] = IF found = {} THEN @ ELSE Max(found)]
         /\ more' = [more EXCEPT ![h] = found # Unlisted(h)]
         /\ Goto(h, CASE page'[h] = {} -> IF errs[h] THEN "failed" ELSE "ok"
                      [] page'[h] # {} /\ kind[h] = "moveFolder" -> "copy"
                      [] page'[h] # {} /\ kind[h] = "deleteFolder" ->
                           IF more'[h] THEN "list" ELSE "purge")
  /\ UNCHANGED <<bucketVars, jobVars, errs>>

-------------------------------------------------------------------------------
(* Moving one item.                                                         *)

ItemOverQuiet(h, failed) ==
  LET rest == page[h] \ {Min(page[h])} IN
  IF kind[h] # "moveFolder"
  THEN /\ Goto(h, IF failed THEN "failed" ELSE "ok")
       /\ UNCHANGED listVars
  ELSE /\ page' = [page EXCEPT ![h] = rest]
       /\ Goto(h, IF rest # {} THEN "copy" ELSE IF more[h] THEN "list" ELSE "ok")
       /\ UNCHANGED <<errs, cursor, more>>

\* The item is dealt with.  An object rename ends; a folder rename remembers
\* the failure and goes on with the page, or with the next one.
ItemOver(h, failed) ==
  LET rest == page[h] \ {Min(page[h])} IN
  IF kind[h] # "moveFolder"
  THEN /\ Goto(h, IF failed THEN "failed" ELSE "ok")
       /\ UNCHANGED listVars
  ELSE /\ page' = [page EXCEPT ![h] = rest]
       /\ errs' = [errs EXCEPT ![h] = @ \/ failed]
       /\ Goto(h, CASE rest # {} -> "copy"
                    [] rest = {} /\ more[h] -> "list"
                    [] rest = {} /\ ~more[h] -> IF errs'[h] THEN "failed" ELSE "ok")
       /\ UNCHANGED <<cursor, more>>

\* The call is answered, or its effect stands and the answer is lost.
Answered(h, label) ==
  \/ Goto(h, label) /\ UNCHANGED listVars
  \/ ItemOver(h, TRUE)

\* CopyObject overwrites its destination, as S3 does.
Copy(h) ==
  /\ pc[h] = "copy"
  /\ bucket[From(h)] # Absent
  /\ IF kind[h] = "replace"
     THEN Write(h, {To(h)}, bucket[From(h)]) /\ UNCHANGED replaced
     ELSE WriteNew(h, To(h), bucket[From(h)])
  /\ Answered(h, "confirm")
  /\ UNCHANGED jobVars

\* WaitUntilObjectExists: some HEAD finds the copy.
Confirm(h) ==
  /\ pc[h] = "confirm"
  /\ bucket[To(h)] # Absent
  /\ Goto(h, "delete")
  /\ UNCHANGED <<bucketVars, jobVars, listVars>>

\* DeleteObject of the original.
Delete(h) ==
  /\ pc[h] = "delete"
  /\ Write(h, {From(h)}, Absent)
  /\ \E failed \in BOOLEAN : ItemOver(h, failed)
  /\ UNCHANGED <<jobVars, replaced>>

FaultIgnored(h) ==
  /\ pc[h] = "copy"
  /\ Goto(h, "confirm")
  /\ UNCHANGED <<bucketVars, jobVars, listVars>>

\* A copy, a confirmation or a delete fails without effect: storage refused
\* or could not be reached, the source is gone, or the copy never shows.
ItemFault(h) ==
  /\ pc[h] \in {"copy", "confirm", "delete"}
  /\ ItemOver(h, TRUE)
  /\ UNCHANGED <<bucketVars, jobVars>>

-------------------------------------------------------------------------------
(* Deleting a folder, and the ends nobody wants.                            *)

AsKeys(h, names) == {<<src[h][1], n>> : n \in names}

PurgeOnce(h) ==
  /\ pc[h] = "purge"
  /\ LET chunk == FirstOf(page[h], ChunkSize) IN
     \E gone \in SUBSET chunk :
       WriteBut(h, AsKeys(h, gone), Absent, AsKeys(h, chunk \ gone))
  /\ page' = [page EXCEPT ![h] = {}]
  /\ Goto(h, "ok")
  /\ UNCHANGED <<jobVars, replaced, cursor, more, errs>>

\* One DeleteObjects request: keys storage could not delete are reported in
\* an answer the code does not look into.  If the answer is lost, the deletion
\* fails with the chunk gone.
Purge(h) ==
  /\ pc[h] = "purge"
  /\ LET chunk == FirstOf(page[h], ChunkSize)
         rest == page[h] \ chunk
     IN  /\ \E gone \in SUBSET chunk :
              WriteBut(h, AsKeys(h, gone), Absent, AsKeys(h, chunk \ gone))
         /\ page' = [page EXCEPT ![h] = rest]
         /\ Goto(h, IF rest = {} THEN "ok" ELSE "purge") \/ Goto(h, "failed")
  /\ UNCHANGED <<jobVars, replaced, cursor, more, errs>>

\* A look, a page or a chunk fails, or an upload is cut off: the operation
\* stops there.
Fault(h) ==
  /\ pc[h] \in {"check", "list", "put", "purge", "send"}
  /\ Goto(h, "failed")
  /\ UNCHANGED <<bucketVars, jobVars, listVars>>

\* The process stops; nothing resumes the operation.
Crash(h) ==
  /\ pc[h] \in Steps
  /\ Goto(h, "crashed")
  /\ UNCHANGED <<bucketVars, jobVars, listVars>>

Next ==
  \E h \in Handlers :
    \/ \E s, d \in Keys, overwrite \in BOOLEAN : RenameObject(h, s, d, overwrite)
    \/ \E f, g \in Folders : RenameFolder(h, f, g)
    \/ \E f \in Folders : CreateFolder(h, f) \/ DeleteFolder(h, f)
    \/ \E k \in Keys : HandleUpload(h, k) \/ DeleteObject(h, k)
    \/ Check(h) \/ Put(h) \/ Upload(h) \/ List(h)
    \/ Copy(h) \/ Confirm(h) \/ Delete(h) \/ ItemFault(h)
    \/ Purge(h) \/ Fault(h) \/ Crash(h)

Spec == Init /\ [][Next]_vars

-------------------------------------------------------------------------------
\* Type invariant.  A folder rename that is about to move an item has one.
TypeOK ==
  /\ bucket \in [Keys -> Contents \cup {Absent}]
  /\ kind \in [Handlers -> Kinds]
  /\ pc \in [Handlers -> {"idle"} \cup Steps \cup Ends]
  /\ src \in [Handlers -> Keys \cup {Absent}]
  /\ dst \in [Handlers -> Keys \cup {Absent}]
  /\ page \in [Handlers -> SUBSET Names]
  /\ cursor \in [Handlers -> -1 .. LastName]
  /\ more \in [Handlers -> BOOLEAN]
  /\ errs \in [Handlers -> BOOLEAN]
  /\ overtaken \in [Handlers -> BOOLEAN]
  /\ replaced \subseteq Handlers \X Contents
  /\ entrusted \in [Handlers -> SUBSET (Keys \X Contents)]
  /\ \A h \in Handlers :
       kind[h] = "moveFolder" /\ pc[h] \in {"copy", "confirm", "delete"} => page[h] # {}

\* A rename without ?overwrite and a folder creation replace an object only
\* when another request wrote the destination after they found it free.
ReplacedOnlyWhenOvertaken == \A r \in replaced : overtaken[r[1]]

\* exists.aws.go says the check keeps a rename from silently replacing
\* someone's file, and folder.aws.go that a folder is created without
\* overwriting.
NothingReplaced == replaced = {}

\* Whatever fails, and wherever the process stops, what a rename found under
\* its source is still at the source or already at the destination, as long as
\* no other request writes either of the two keys.
RenameKeepsContents ==
  \A h \in Handlers : kind[h] \in Moves => \A e \in entrusted[h] :
    bucket[e[1]] = e[2] \/ bucket[Renamed(h, e[1])] = e[2]

\* A rename that answers success has moved all it was entrusted with: nothing
\* is left behind on a later page of the listing, and nothing was skipped.
SuccessMovesAll ==
  \A h \in Handlers : kind[h] \in Moves /\ pc[h] = "ok" =>
    \A e \in entrusted[h] : bucket[e[1]] = Absent /\ bucket[Renamed(h, e[1])] = e[2]

\* A folder deletion that answers success has deleted all it found, on every
\* page and in every chunk, except what storage refused to delete (which the
\* code does not notice) and what other requests have written since.
DeletionLeavesOnlyRefused ==
  \A h \in Handlers : kind[h] = "deleteFolder" /\ pc[h] = "ok" =>
    \A e \in entrusted[h] : bucket[e[1]] = Absent
===============================================================================
