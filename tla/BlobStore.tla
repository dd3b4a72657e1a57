----------------------------- MODULE BlobStore -----------------------------
(***************************************************************************)
(* The server's content-addressed store (src/kolejka/server/blob): rows of *)
(* blob_blob and blob_reference, and the files kept under blob/<hash>.     *)
(*                                                                         *)
(* A view is not a transaction: each statement commits by itself, and a    *)
(* statement on a file stands between two statements on rows.  Model.save  *)
(* writes the row back by primary key and inserts it when it is gone; both *)
(* foreign keys are enforced by the database.  Permissions are left out:   *)
(* every request is one its user may make.  So are deactivate() and the    *)
(* inactive directory, which nothing calls, and the active column, which   *)
(* is therefore always true.                                               *)
(***************************************************************************)
EXTENDS Naturals, FiniteSets

CONSTANTS Blobs,     \* contents, named by their hash
          Refs,      \* keys of references (fresh uuids)
          Handlers,  \* request handlers of the web server
          MaxBlob,   \* bound: blob rows ever inserted
          None

ASSUME NoneAssumption == None \notin Blobs \cup Refs
ASSUME BoundAssumption == MaxBlob \in Nat

VARIABLES blob,    \* primary key of the row of each blob, 0 if it has none
          nextPk,  \* next primary key of blob_blob
          ref,     \* table blob_reference
          file,    \* blobs whose file is in the store
          req,     \* what each handler is doing
          deleted, \* history: references whose DELETE was answered
          broken   \* history: blobs whose upload died between row and file

vars == <<blob, nextPk, ref, file, req, deleted, broken>>

Stages == {"unused", "present", "deleted"}
RefRow == [state : Stages, blob : Blobs \cup {None}, pk : 0 .. MaxBlob]
NoRef  == [state |-> "unused", blob |-> None, pk |-> 0]

\* Each pc names the statement the handler executes next.
UploadPCs == {"getOrCreate", "place", "activate", "saveNewRef"}
ReadPCs   == {"insertRef", "touchBlob", "fetchBlob", "saveBlob", "saveRef", "open"}
DeletePCs == {"deleteRef", "deleteRefs", "deleteBlob"}
Request == [pc : {"idle"} \cup UploadPCs \cup ReadPCs \cup DeletePCs,
            blob : Blobs \cup {None}, pk : 0 .. MaxBlob, ref : Refs \cup {None}]
Idle    == [pc |-> "idle", blob |-> None, pk |-> 0, ref |-> None]

Row(b)     == blob[b] # 0
Present(r) == ref[r].state = "present"

Goto(h, q)     == req' = [req EXCEPT ![h] = q]
Continue(h, l) == Goto(h, IF l = "idle" THEN Idle ELSE [req[h] EXCEPT !.pc = l])
Start(h, q)    == req[h].pc = "idle" /\ Goto(h, q)
Reply(h)       == Goto(h, Idle)

Init ==
  /\ blob = [b \in Blobs |-> 0]
  /\ nextPk = 1
  /\ ref = [r \in Refs |-> NoRef]
  /\ file = {}
  /\ req = [h \in Handlers |-> Idle]
  /\ deleted = {}
  /\ broken = {}

---------------------------------------------------------------------------
(* Blob.save() by a handler that knows the row as (b, pk): the row is      *)
(* there, is inserted again, or its key has been taken by another row.     *)

SaveRow(h, b, pk, l) ==
  \/ blob[b] = pk /\ Continue(h, l) /\ UNCHANGED blob
  \/ blob[b] = 0 /\ blob' = [blob EXCEPT ![b] = pk] /\ Continue(h, l)
  \/ blob[b] \notin {0, pk} /\ Reply(h) /\ UNCHANGED blob

WriteRef_Key(h, r, b, pk, l) ==
  IF blob[b] = pk
  THEN ref' = [ref EXCEPT ![r] = [state |-> "present", blob |-> pk, pk |-> pk]] /\ Continue(h, l)
  ELSE Reply(h) /\ UNCHANGED ref

\* Reference.save() with blob_id = pk: its foreign key wants that row.
WriteRef(h, r, b, pk, l) ==
  IF blob[b] = pk
  THEN ref' = [ref EXCEPT ![r] = [state |-> "present", blob |-> b, pk |-> pk]] /\ Continue(h, l)
  ELSE Reply(h) /\ UNCHANGED ref

\* The key of a new reference: a fresh uuid4.
Fresh_Reused(r) == ~Present(r)

Fresh(r) == ref[r].state = "unused"

---------------------------------------------------------------------------
(* POST /blob/reference/: the content is hashed into a temporary file,     *)
(* then row, file, row, reference.                                         *)

Upload(h, b) ==
  /\ Start(h, [Idle EXCEPT !.pc = "getOrCreate", !.blob = b])
  /\ UNCHANGED <<blob, nextPk, ref, file, deleted, broken>>

GetOrCreate(h) ==
  LET b == req[h].blob IN
  /\ req[h].pc = "getOrCreate"
  /\ \/ /\ Row(b)
        /\ Goto(h, [req[h] EXCEPT !.pc = "place", !.pk = blob[b]])
        /\ UNCHANGED <<blob, nextPk>>
     \/ /\ ~Row(b) /\ nextPk <= MaxBlob
        /\ blob' = [blob EXCEPT ![b] = nextPk]
        /\ nextPk' = nextPk + 1
        /\ Goto(h, [req[h] EXCEPT !.pc = "place", !.pk = nextPk])
  /\ UNCHANGED <<ref, file, deleted, broken>>

\* Rename the temporary file, unless the store has the content already (a
\* rename over the same content changes nothing).
Place(h) ==
  /\ req[h].pc = "place"
  /\ file' = file \cup {req[h].blob}
  /\ Continue(h, "activate")
  /\ UNCHANGED <<blob, nextPk, ref, deleted, broken>>

Activate(h) ==
  /\ req[h].pc = "activate"
  /\ SaveRow(h, req[h].blob, req[h].pk, "saveNewRef")
  /\ UNCHANGED <<nextPk, ref, file, deleted, broken>>

SaveNewRef(h, r) ==
  /\ req[h].pc = "saveNewRef" /\ Fresh(r)
  /\ WriteRef(h, r, req[h].blob, req[h].pk, "idle")
  /\ UNCHANGED <<blob, nextPk, file, deleted, broken>>

---------------------------------------------------------------------------
(* POST /blob/blob/<hash>/: a further reference to content the server has. *)

ReferTo(h, b) ==
  /\ Row(b)
  /\ Start(h, [Idle EXCEPT !.pc = "insertRef", !.blob = b, !.pk = blob[b]])
  /\ UNCHANGED <<blob, nextPk, ref, file, deleted, broken>>

InsertRef(h, r) ==
  /\ req[h].pc = "insertRef" /\ Fresh(r)
  /\ WriteRef(h, r, req[h].blob, req[h].pk, "touchBlob")
  /\ UNCHANGED <<blob, nextPk, file, deleted, broken>>

TouchBlob(h) ==
  /\ req[h].pc = "touchBlob"
  /\ SaveRow(h, req[h].blob, req[h].pk, "idle")
  /\ UNCHANGED <<nextPk, ref, file, deleted, broken>>

---------------------------------------------------------------------------
(* GET and HEAD of a blob and of a reference: rows are read, written back  *)
(* for their access times, and the file is opened.                         *)

ReadBlob(h, b) ==
  /\ Row(b)
  /\ Start(h, [Idle EXCEPT !.pc = "saveBlob", !.blob = b, !.pk = blob[b]])
  /\ UNCHANGED <<blob, nextPk, ref, file, deleted, broken>>

ReadRef(h, r) ==
  /\ Present(r)
  /\ Start(h, [pc |-> "fetchBlob", blob |-> ref[r].blob, pk |-> ref[r].pk, ref |-> r])
  /\ UNCHANGED <<blob, nextPk, ref, file, deleted, broken>>

\* reference.blob is a query of its own.
FetchBlob(h) ==
  /\ req[h].pc = "fetchBlob"
  /\ IF blob[req[h].blob] = req[h].pk THEN Continue(h, "saveBlob") ELSE Reply(h)
  /\ UNCHANGED <<blob, nextPk, ref, file, deleted, broken>>

SaveBlob(h) ==
  /\ req[h].pc = "saveBlob"
  /\ SaveRow(h, req[h].blob, req[h].pk, IF req[h].ref = None THEN "open" ELSE "saveRef")
  /\ UNCHANGED <<nextPk, ref, file, deleted, broken>>

SaveRef(h) ==
  /\ req[h].pc = "saveRef"
  /\ WriteRef(h, req[h].ref, req[h].blob, req[h].pk, "open")
  /\ UNCHANGED <<blob, nextPk, file, deleted, broken>>

\* Serves the file; without one open() returns None and the view fails.
Open(h) ==
  /\ req[h].pc = "open"
  /\ Reply(h)
  /\ UNCHANGED <<blob, nextPk, ref, file, deleted, broken>>

---------------------------------------------------------------------------
(* DELETE of a reference, and of a blob with its references.               *)

AskDeleteRef(h, r) ==
  /\ Present(r)
  /\ Start(h, [Idle EXCEPT !.pc = "deleteRef", !.ref = r])
  /\ UNCHANGED <<blob, nextPk, ref, file, deleted, broken>>

\* The row is gone; the other fields keep, as history, what it was made for.
Delete(S) == ref' = [r \in Refs |-> IF r \in S THEN [ref[r] EXCEPT !.state = "deleted"] ELSE ref[r]]

DeleteRef(h) ==
  /\ req[h].pc = "deleteRef"
  /\ Delete({req[h].ref})
  /\ deleted' = deleted \cup {req[h].ref}
  /\ Reply(h)
  /\ UNCHANGED <<blob, nextPk, file, broken>>

AskDeleteBlob(h, b) ==
  /\ Row(b)
  /\ Start(h, [Idle EXCEPT !.pc = "deleteRefs", !.blob = b, !.pk = blob[b]])
  /\ UNCHANGED <<blob, nextPk, ref, file, deleted, broken>>

RefsTo(pk) == {r \in Refs : Present(r) /\ ref[r].pk = pk}

DeleteRefs(h) ==
  /\ req[h].pc = "deleteRefs"
  /\ Delete(RefsTo(req[h].pk))
  /\ Continue(h, "deleteBlob")
  /\ UNCHANGED <<blob, nextPk, file, deleted, broken>>

\* on_delete=PROTECT: fails when a reference came in since.
Unreferenced_Unchecked(pk) == TRUE

Unreferenced(pk) == RefsTo(pk) = {}

\* The file stays in the store.
FileAfterDelete_Unlinked(b) == file \ {b}

FileAfterDelete(b) == file

DeleteBlob(h) ==
  LET b == req[h].blob IN
  /\ req[h].pc = "deleteBlob"
  /\ IF Unreferenced(req[h].pk) /\ blob[b] = req[h].pk
     THEN blob' = [blob EXCEPT ![b] = 0] /\ file' = FileAfterDelete(b)
     ELSE UNCHANGED <<blob, file>>
  /\ Reply(h)
  /\ UNCHANGED <<nextPk, ref, deleted, broken>>

\* An exception ends the request, or the server process dies.
Die(h) ==
  /\ req[h].pc # "idle"
  /\ broken' = IF req[h].pc = "place" THEN broken \cup {req[h].blob} ELSE broken
  /\ Reply(h)
  /\ UNCHANGED <<blob, nextPk, ref, file, deleted>>

---------------------------------------------------------------------------
WriteStep ==
  \/ \E h \in Handlers, b \in Blobs : Upload(h, b) \/ ReferTo(h, b)
  \/ \E h \in Handlers : GetOrCreate(h) \/ Place(h) \/ Activate(h) \/ TouchBlob(h)
  \/ \E h \in Handlers, r \in Refs : SaveNewRef(h, r) \/ InsertRef(h, r)

ReadStep ==
  \/ \E h \in Handlers, b \in Blobs : ReadBlob(h, b)
  \/ \E h \in Handlers, r \in Refs : ReadRef(h, r)
  \/ \E h \in Handlers : FetchBlob(h) \/ SaveBlob(h) \/ SaveRef(h) \/ Open(h)

DeleteStep ==
  \/ \E h \in Handlers, b \in Blobs : AskDeleteBlob(h, b)
  \/ \E h \in Handlers, r \in Refs : AskDeleteRef(h, r)
  \/ \E h \in Handlers : DeleteRef(h) \/ DeleteRefs(h) \/ DeleteBlob(h)

Next == WriteStep \/ ReadStep \/ DeleteStep \/ \E h \in Handlers : Die(h)

Spec == Init /\ [][Next]_vars

---------------------------------------------------------------------------
(* Properties                                                              *)

\* Rows, requests and histories keep their types (blob/models.py:12, 82).
TypeOK ==
  /\ blob \in [Blobs -> 0 .. MaxBlob]
  /\ nextPk \in 1 .. MaxBlob + 1
  /\ ref \in [Refs -> RefRow]
  /\ file \in SUBSET Blobs
  /\ req \in [Handlers -> Request]
  /\ deleted \in SUBSET Refs
  /\ broken \in SUBSET Blobs

\* A reference always leads to the row it was made for: not to none, and not
\* to a later row of the same content (PROTECT, and the order of the two
\* deletes in views.py:121-122), though rows are inserted again by requests
\* that read them before they were deleted.
ReferencesLead ==
  \A r \in Refs : Present(r) => ref[r].pk # 0 /\ blob[ref[r].blob] = ref[r].pk

Placing(b) == \E h \in Handlers : req[h].pc = "place" /\ req[h].blob = b

\* The server lists a content it cannot serve only while an upload stands
\* between get_or_create and rename (views.py:37-39), or after one died
\* there; in particular an upload that is answered can be served, and no
\* delete, re-insertion or second upload takes the file away.
ListedIsServable ==
  \A b \in Blobs : Row(b) => b \in file \/ b \in broken \/ Placing(b)

Listed == {b \in Blobs : Row(b)}
Due    == broken \cup {b \in Blobs : Placing(b)}
Made   == [r \in Refs |-> ref[r].blob]
Live   == {r \in Refs : Present(r)}

\* With any number of requests split into their statements, the store does what
\* ContentStore promises: contents are listed, stored and unlisted, and references
\* made, dropped and brought back, as if each of these were indivisible; a reference
\* leads to no other content than the one it was made for (views.py:36-123).
Store == INSTANCE ContentStore WITH
  Contents <- Blobs, References <- Refs,
  listed <- Listed, stored <- file, due <- Due, made <- Made, live <- Live

ImplementsStore == Store!Spec

\* views.py:72-76: the branch that is to DELETE REFERENCE answers that the
\* reference is deleted.  A GET or HEAD that read its row before the delete
\* and saves it after (79) brings it back.
DeletedStaysDeleted == \A r \in deleted : ~Present(r)

=============================================================================
