-------------------------- MODULE BlobStoreProofs --------------------------
(***************************************************************************)
(* Proofs about BlobStore, for every number of contents, references and    *)
(* concurrent requests, and however many rows are inserted.                *)
(*                                                                         *)
(* The argument: a primary key stands for one content for ever.  Rows that *)
(* are there, references, and what a request has read of a row that may be *)
(* gone by now all agree on it, so a row that a request inserts again is   *)
(* the row its references were made for.  A reference, in turn, keeps the  *)
(* content it was made for, and requests that read it recall that content  *)
(* also after it was deleted: writing it back brings back the same thing,  *)
(* so that every statement is a step of ContentStore, or a stutter.        *)
(***************************************************************************)
EXTENDS BlobStore, TLAPS

\* The server can serve content b, or is accounted for not doing so.
Servable(b) == b \in file \/ b \in broken \/ Placing(b)

\* Requests at these statements know the row of their content.
KnowingPCs == {"place", "activate", "saveNewRef", "deleteRefs", "deleteBlob"} \cup ReadPCs

Shaped(q) ==
  /\ q.pc \in KnowingPCs => q.pk # 0
  /\ q.pc = "getOrCreate" => q.blob \in Blobs
  /\ q.pc \in {"saveRef", "deleteRef"} => q.ref \in Refs

\* What a request has read of a row stays true of the key, whether or not the
\* row is still there, and its content is servable.
Knows(q) ==
  q.pk # 0 => /\ q.blob \in Blobs /\ q.pk < nextPk /\ Servable(q.blob)
              /\ \A b \in Blobs : blob[b] = q.pk => b = q.blob

RequestsOK ==
  /\ \A h \in Handlers : Shaped(req[h]) /\ Knows(req[h])
  /\ \A g, h \in Handlers : req[g].pk # 0 /\ req[g].pk = req[h].pk => req[g].blob = req[h].blob

KeysOK ==
  \A b \in Blobs : /\ blob[b] < nextPk
                   /\ \A c \in Blobs : blob[b] # 0 /\ blob[b] = blob[c] => b = c

\* ReferencesLead, and that a reference has a blob at all.
Leads == \A r \in Refs : Present(r) => /\ ref[r].blob \in Blobs /\ ref[r].pk # 0
                                       /\ blob[ref[r].blob] = ref[r].pk

IInv == TypeOK /\ RequestsOK /\ KeysOK /\ Leads /\ ListedIsServable

LEMMA InitIInv == Init => IInv
BY NoneAssumption, BoundAssumption
DEF Init, IInv, TypeOK, RequestsOK, Shaped, Knows, KnowingPCs, KeysOK, Leads, ListedIsServable,
    Row, Present, RefRow, NoRef, Stages, Request, Idle, UploadPCs, ReadPCs, DeletePCs

USE DEF Goto, Continue, Start, Reply, Row, Present, Stages, UploadPCs, ReadPCs, DeletePCs

\* The idle request and the blank reference.
LEMMA Blank ==
  /\ Idle \in Request /\ Idle.pc = "idle" /\ Idle.pk = 0 /\ Idle.ref = None
  /\ NoRef \in RefRow /\ NoRef.state = "unused"
BY BoundAssumption DEF Idle, Request, NoRef, RefRow

\* A step of one request: what it may change of another's request.
Moves(h, q) == q \in Request /\ req' = [req EXCEPT ![h] = q]

\* Contents stay servable as long as files stay, deaths are noted, and a request
\* leaves "place" only with the file in its place or noted.
LEMMA ServableKept ==
  ASSUME TypeOK, NEW h \in Handlers, NEW q, Moves(h, q),
         file \subseteq file', broken \subseteq broken',
         req[h].pc = "place" => req[h].blob \in file' \cup broken',
         NEW b \in Blobs, Servable(b)
  PROVE  Servable(b)'
<1>1. CASE b \in file \cup broken
  BY <1>1 DEF Servable
<1>2. CASE Placing(b)
  <2>1. PICK g \in Handlers : req[g].pc = "place" /\ req[g].blob = b
    BY <1>2 DEF Placing
  <2>2. CASE g = h
    BY <2>1, <2>2 DEF Servable
  <2>3. CASE g # h
    BY <2>1, <2>3 DEF TypeOK, Moves, Servable, Placing
  <2> QED
    BY <2>2, <2>3
<1> QED
  BY <1>1, <1>2 DEF Servable

\* What request h may write of the rows: it deletes some, or inserts its own again.
Writes(h) ==
  \A b \in Blobs : \/ blob'[b] \in {0, blob[b]}
                   \/ blob'[b] = req[h].pk /\ b = req[h].blob /\ req[h].pk # 0

\* Where request h, now q, has what it knows from: from before, or from a row.
Learns(h, q) ==
  \/ q.pk = 0
  \/ q.pk = req[h].pk /\ q.blob = req[h].blob
  \/ q.blob \in Blobs /\ blob[q.blob] = q.pk

\* Such a step keeps the invariant, as long as references lead to their rows.
LEMMA RequestStep ==
  ASSUME IInv, TypeOK', NEW h \in Handlers, NEW q, Moves(h, q), Shaped(q), Learns(h, q), Writes(h),
         nextPk' = nextPk, file \subseteq file', broken \subseteq broken',
         req[h].pc = "place" => req[h].blob \in file' \cup broken',
         Leads'
  PROVE  IInv'
<1> USE DEF IInv
<1>1. /\ req \in [Handlers -> Request] /\ nextPk \in Nat
      /\ \A b \in Blobs : blob[b] \in Nat /\ blob'[b] \in Nat
  BY BoundAssumption DEF TypeOK
<1>2. req'[h] = q /\ \A g \in Handlers \ {h} : req'[g] = req[g]
  BY <1>1 DEF Moves
<1>3. \A b \in Blobs : Servable(b) => Servable(b)'
  BY ServableKept
<1>4. \A b \in Blobs : Row(b) => Servable(b)
  BY DEF ListedIsServable, Servable
<1>5. ASSUME NEW b \in Blobs, Row(b)' PROVE Servable(b)'
  <2>1. Row(b) \/ (b = req[h].blob /\ req[h].pk # 0)
    BY <1>1, <1>5 DEF Writes
  <2>2. Servable(b)
    BY <1>4, <2>1 DEF RequestsOK, Knows
  <2> QED
    BY <1>3, <2>2
<1>6. KeysOK'
  <2>1. ASSUME NEW b \in Blobs PROVE blob'[b] < nextPk'
    BY <1>1 DEF Writes, KeysOK, RequestsOK, Knows
  <2>2. ASSUME NEW b \in Blobs, NEW c \in Blobs, blob'[b] # 0, blob'[b] = blob'[c] PROVE b = c
    BY <1>1, <2>2 DEF Writes, KeysOK, RequestsOK, Knows
  <2> QED
    BY <2>1, <2>2 DEF KeysOK
\* What holds of what a request knew, and of rows, holds of what is known now.
<1>7. ASSUME NEW g \in Handlers, req'[g].pk # 0
      PROVE  /\ req'[g].blob \in Blobs /\ req'[g].pk < nextPk /\ Servable(req'[g].blob)
             /\ \A b \in Blobs : blob[b] = req'[g].pk => b = req'[g].blob
             /\ req'[g].pk = req[h].pk => req'[g].blob = req[h].blob
  <2>1. CASE g # h \/ (q.pk = req[h].pk /\ q.blob = req[h].blob)
    <3>1. PICK f \in Handlers : req'[g].pk = req[f].pk /\ req'[g].blob = req[f].blob
      BY <1>2, <2>1
    <3> QED
      BY <1>7, <3>1 DEF RequestsOK, Knows
  <2>2. CASE g = h /\ q.blob \in Blobs /\ blob[q.blob] = q.pk
    <3>1. /\ q.pk < nextPk /\ Servable(q.blob)
          /\ \A b \in Blobs : blob[b] = q.pk => b = q.blob
      BY <1>2, <1>4, <1>7, <2>2 DEF KeysOK
    <3>2. q.pk = req[h].pk => q.blob = req[h].blob
      BY <1>2, <1>7, <2>2 DEF RequestsOK, Knows
    <3> QED
      BY <1>2, <2>2, <3>1, <3>2
  <2> QED
    BY <1>2, <1>7, <2>1, <2>2 DEF Learns
<1>8. ASSUME NEW g \in Handlers PROVE Knows(req[g])'
  <2> SUFFICES ASSUME req'[g].pk # 0
               PROVE  /\ req'[g].blob \in Blobs /\ req'[g].pk < nextPk' /\ Servable(req[g].blob)'
                      /\ \A b \in Blobs : blob'[b] = req'[g].pk => b = req'[g].blob
    BY DEF Knows, Servable, Placing
  <2>1. Servable(req[g].blob)'
    <3>1. PICK c \in Blobs : c = req'[g].blob /\ Servable(c)
      BY <1>7
    <3>2. Servable(c)'
      BY <1>3, <3>1
    <3> QED
      BY <3>1, <3>2 DEF Servable, Placing
  <2>2. \A b \in Blobs : blob'[b] = req'[g].pk => b = req'[g].blob
    BY <1>7 DEF Writes
  <2> QED
    BY <1>7, <2>1, <2>2
<1>9. ASSUME NEW f \in Handlers, NEW g \in Handlers, req'[f].pk # 0, req'[f].pk = req'[g].pk
      PROVE  req'[f].blob = req'[g].blob
  <2>1. CASE f # h /\ g # h
    BY <1>2, <1>9, <2>1 DEF RequestsOK
  <2>2. CASE f = h /\ g = h
    BY <2>2
  <2>3. ASSUME NEW e \in Handlers \ {h}, req[e].pk = q.pk, q.pk # 0 PROVE req[e].blob = q.blob
    <3>1. CASE q.pk = req[h].pk /\ q.blob = req[h].blob
      BY <2>3, <3>1 DEF RequestsOK
    <3>2. CASE q.blob \in Blobs /\ blob[q.blob] = q.pk
      BY <2>3, <3>2 DEF RequestsOK, Knows
    <3> QED
      BY <2>3, <3>1, <3>2 DEF Learns
  <2> QED
    BY <1>2, <1>9, <2>1, <2>2, <2>3
<1>10. RequestsOK'
  <2>1. \A g \in Handlers : Shaped(req[g])'
    BY <1>2 DEF RequestsOK, Shaped
  <2> QED
    BY <1>8, <1>9, <2>1 DEF RequestsOK
<1>11. ListedIsServable'
  BY <1>5 DEF ListedIsServable, Servable
<1> QED
  BY <1>6, <1>10, <1>11

---------------------------------------------------------------------------
(* The kinds of statements                                                 *)

\* A statement that writes no table.
LEMMA QuietStep ==
  ASSUME IInv, NEW h \in Handlers, NEW q, Moves(h, q), Shaped(q), Learns(h, q),
         UNCHANGED <<blob, nextPk, ref, file, deleted>>,
         broken \subseteq broken', broken' \subseteq Blobs,
         req[h].pc = "place" => req[h].blob \in broken'
  PROVE  IInv'
<1>1. TypeOK'
  BY DEF IInv, TypeOK, Moves
<1>2. Writes(h) /\ Leads'
  BY DEF IInv, Writes, Leads
<1> QED
  BY <1>1, <1>2, RequestStep

\* Going on with a request, or answering it, keeps what is known about it.
LEMMA Continues ==
  ASSUME IInv, NEW h \in Handlers, req[h].pk # 0,
         NEW l \in ReadPCs \cup {"idle", "activate", "saveNewRef", "deleteBlob"},
         l = "saveRef" => req[h].ref \in Refs,
         Continue(h, l) \/ Reply(h)
  PROVE  \E q \in Request : Moves(h, q) /\ Shaped(q) /\ Learns(h, q)
<1> DEFINE p == [req[h] EXCEPT !.pc = l]
<1>1. req[h] \in Request
  BY DEF IInv, TypeOK
<1>2. p \in Request /\ p.pc = l /\ p.pk = req[h].pk /\ p.blob = req[h].blob /\ p.ref = req[h].ref
  BY <1>1 DEF Request
<1>3. Shaped(p) /\ Learns(h, p)
  BY <1>2 DEF Shaped, Learns
<1>4. Shaped(Idle) /\ Learns(h, Idle)
  BY Blank DEF Shaped, Learns, KnowingPCs
<1> QED
  BY <1>2, <1>3, <1>4, Blank DEF Moves

\* Blob.save(): the row is there, is inserted again, or its key is taken.
LEMMA SaveRowStep ==
  ASSUME IInv, NEW h \in Handlers, req[h].pk # 0, req[h].pc # "place",
         NEW l \in {"idle", "saveNewRef", "open", "saveRef"},
         l = "saveRef" => req[h].ref \in Refs,
         SaveRow(h, req[h].blob, req[h].pk, l),
         UNCHANGED <<nextPk, ref, file, deleted, broken>>
  PROVE  IInv'
<1>1. PICK q \in Request : Moves(h, q) /\ Shaped(q) /\ Learns(h, q)
  BY Continues DEF SaveRow
<1>2. req[h].blob \in Blobs /\ req[h].pk \in 0 .. MaxBlob
  BY DEF IInv, RequestsOK, Knows, TypeOK, Request
<1>3. blob \in [Blobs -> 0 .. MaxBlob]
  BY DEF IInv, TypeOK
<1>4. blob' \in [Blobs -> 0 .. MaxBlob] /\ Writes(h)
  BY <1>2, <1>3 DEF SaveRow, Writes
<1>5. TypeOK'
  BY <1>1, <1>4 DEF IInv, TypeOK, Moves
<1>6. \A b \in Blobs : blob[b] # 0 => blob'[b] = blob[b]
  BY <1>3 DEF SaveRow
<1>7. Leads'
  BY <1>6 DEF IInv, Leads
<1> QED
  BY <1>1, <1>4, <1>5, <1>7, RequestStep

\* Reference.save(): the reference leads to the row the request knows.
LEMMA WriteRefStep ==
  ASSUME IInv, NEW h \in Handlers, req[h].pk # 0, req[h].pc # "place", NEW r \in Refs,
         NEW l \in {"idle", "touchBlob", "open"},
         WriteRef(h, r, req[h].blob, req[h].pk, l),
         UNCHANGED <<blob, nextPk, file, deleted, broken>>
  PROVE  IInv'
<1>1. PICK q \in Request : Moves(h, q) /\ Shaped(q) /\ Learns(h, q)
  BY Continues DEF WriteRef
<1>2. req[h].blob \in Blobs /\ req[h].pk \in 0 .. MaxBlob
  BY DEF IInv, RequestsOK, Knows, TypeOK, Request
<1>3. ref \in [Refs -> RefRow]
  BY DEF IInv, TypeOK
<1>4. ref' \in [Refs -> RefRow]
  BY <1>2, <1>3 DEF WriteRef, RefRow
<1>5. TypeOK'
  BY <1>1, <1>4 DEF IInv, TypeOK, Moves
<1>6. Leads'
  BY <1>2, <1>3 DEF IInv, Leads, WriteRef
<1>7. Writes(h)
  BY DEF Writes
<1> QED
  BY <1>1, <1>5, <1>6, <1>7, RequestStep

\* Rows of references are deleted.
LEMMA DeleteStepKeeps ==
  ASSUME IInv, NEW h \in Handlers, NEW S \in SUBSET Refs, Delete(S),
         NEW q \in Request, Moves(h, q), Shaped(q), Learns(h, q), req[h].pc # "place",
         UNCHANGED <<blob, nextPk, file, broken>>, deleted' \subseteq Refs
  PROVE  IInv'
<1>1. ref' \in [Refs -> RefRow] /\ \A r \in Refs : ref'[r] = ref[r] \/ ref'[r].state = "deleted"
  <2>1. [NoRef EXCEPT !.state = "deleted"] \in RefRow
    BY Blank DEF RefRow
  <2> QED
    BY <2>1 DEF IInv, TypeOK, Delete, RefRow
<1>2. TypeOK'
  BY <1>1 DEF IInv, TypeOK, Moves
<1>3. Leads' /\ Writes(h)
  BY <1>1 DEF IInv, Leads, Writes
<1> QED
  BY <1>2, <1>3, RequestStep

---------------------------------------------------------------------------
\* get_or_create inserts a row under a key nobody has seen.
LEMMA CreateStep ==
  ASSUME IInv, NEW h \in Handlers, GetOrCreate(h), ~Row(req[h].blob)
  PROVE  IInv'
<1> DEFINE q == [req[h] EXCEPT !.pc = "place", !.pk = nextPk]
<1>1. /\ blob \in [Blobs -> 0 .. MaxBlob] /\ req \in [Handlers -> Request]
      /\ nextPk \in 1 .. MaxBlob
  BY BoundAssumption DEF IInv, TypeOK, GetOrCreate
<1>2. PICK c \in Blobs : c = req[h].blob
  BY DEF IInv, RequestsOK, Shaped, GetOrCreate
<1>3. q \in Request /\ q.pc = "place" /\ q.pk = nextPk /\ q.blob = c /\ nextPk # 0
  <2>1. nextPk \in 0 .. MaxBlob /\ nextPk # 0 /\ nextPk + 1 \in 1 .. MaxBlob + 1
    BY <1>1, BoundAssumption
  <2>2. req[h] \in Request
    BY <1>1
  <2> QED
    BY <1>2, <2>1, <2>2 DEF Request
<1>4. /\ blob' = [blob EXCEPT ![c] = nextPk] /\ blob[c] = 0 /\ nextPk' = nextPk + 1
      /\ req'[h] = q /\ \A g \in Handlers \ {h} : req'[g] = req[g]
      /\ UNCHANGED <<ref, file, deleted, broken>>
  BY <1>1, <1>2 DEF GetOrCreate
<1>5. TypeOK'
  <2>1. req' \in [Handlers -> Request]
    BY <1>1, <1>3, <1>4 DEF GetOrCreate
  <2>2. blob' \in [Blobs -> 0 .. MaxBlob] /\ nextPk' \in 1 .. MaxBlob + 1
    BY <1>1, <1>4, BoundAssumption
  <2> QED
    BY <1>4, <2>1, <2>2 DEF IInv, TypeOK
<1>6. \A b \in Blobs : Servable(b) => Servable(b)'
  <2>1. Moves(h, q)
    BY <1>3 DEF Moves, GetOrCreate
  <2> QED
    BY <1>4, <2>1, ServableKept DEF IInv, GetOrCreate
<1>7. Servable(c)'
  BY <1>3, <1>4 DEF Servable, Placing
<1>8. ListedIsServable' /\ KeysOK' /\ Leads'
  <2>1. ListedIsServable'
    BY <1>1, <1>4, <1>6, <1>7 DEF IInv, ListedIsServable, Servable
  <2>2. KeysOK'
    BY <1>1, <1>4 DEF IInv, KeysOK
  <2>3. Leads'
    BY <1>1, <1>4 DEF IInv, Leads, TypeOK
  <2> QED
    BY <2>1, <2>2, <2>3
<1>9. RequestsOK'
  <2>1. ASSUME NEW g \in Handlers \ {h} PROVE Knows(req[g])'
    <3>1. Knows(req[g]) /\ req[g].pk \in Nat
      BY <1>1 DEF IInv, RequestsOK, Request
    <3>2. CASE req[g].pk # 0
      <4>1. PICK b \in Blobs : b = req[g].blob /\ Servable(b) /\ req[g].pk < nextPk
        BY <3>1, <3>2 DEF Knows
      <4>2. \A x \in Blobs : blob'[x] = req[g].pk => x = b
        BY <1>1, <1>4, <3>1, <3>2, <4>1 DEF Knows
      <4>3. Servable(b)'
        BY <1>6, <4>1
      <4> QED
        BY <1>1, <1>4, <3>1, <4>1, <4>2, <4>3 DEF Knows, Servable, Placing
    <3> QED
      BY <1>4, <3>1, <3>2 DEF Knows
  <2>2. Knows(req[h])'
    <3>1. \A x \in Blobs : blob'[x] = nextPk => x = c
      BY <1>1, <1>4 DEF IInv, KeysOK
    <3> QED
      BY <1>1, <1>3, <1>4, <1>7, <3>1 DEF Knows, Servable, Placing
  <2>3. \A g \in Handlers : Shaped(req[g])'
    BY <1>1, <1>3, <1>4 DEF IInv, RequestsOK, Shaped
  <2>4. \A g \in Handlers \ {h} : req'[g].pk # nextPk
    BY <1>1, <1>4 DEF IInv, RequestsOK, Knows, Request
  <2> QED
    <3>1. \A g \in Handlers : Knows(req[g])'
      BY <2>1, <2>2
    <3>2. ASSUME NEW f \in Handlers, NEW g \in Handlers, req'[f].pk # 0, req'[f].pk = req'[g].pk
          PROVE  req'[f].blob = req'[g].blob
      <4>1. CASE f # h /\ g # h
        BY <1>4, <3>2, <4>1 DEF IInv, RequestsOK
      <4>2. CASE f = h \/ g = h
        <5>1. req'[h].pk = nextPk
          BY <1>3, <1>4
        <5> QED
          BY <2>4, <3>2, <4>2, <5>1
      <4> QED
        BY <4>1, <4>2
    <3> QED
      BY <2>3, <3>1, <3>2 DEF RequestsOK
<1> QED
  BY <1>5, <1>8, <1>9 DEF IInv

\* PROTECT: the row of a blob goes only when no reference leads to it.
LEMMA DeleteBlobStep ==
  ASSUME IInv, NEW h \in Handlers, DeleteBlob(h)
  PROVE  IInv'
<1>1. blob \in [Blobs -> 0 .. MaxBlob] /\ ref \in [Refs -> RefRow]
  BY DEF IInv, TypeOK
<1>2. Moves(h, Idle) /\ Shaped(Idle) /\ Learns(h, Idle)
  BY Blank DEF DeleteBlob, Moves, Shaped, Learns, KnowingPCs
<1>3. \A b \in Blobs : blob'[b] \in {0, blob[b]}
  BY <1>1 DEF DeleteBlob
<1>4. blob' \in [Blobs -> 0 .. MaxBlob] /\ file' = file
  BY <1>1, BoundAssumption DEF DeleteBlob, FileAfterDelete
<1>5. TypeOK'
  BY <1>2, <1>4 DEF IInv, TypeOK, Moves, DeleteBlob
<1>6. Leads'
  <2>1. ASSUME NEW r \in Refs, Present(r) PROVE blob'[ref[r].blob] = blob[ref[r].blob]
    <3>1. blob[ref[r].blob] = ref[r].pk
      BY <2>1 DEF IInv, Leads
    <3>2. CASE Unreferenced(req[h].pk) /\ blob[req[h].blob] = req[h].pk
      <4>1. ref[r].blob # req[h].blob /\ ref[r].blob \in Blobs
        BY <2>1, <3>1, <3>2 DEF Unreferenced, RefsTo, IInv, Leads
      <4> QED
        BY <1>1, <3>2, <4>1 DEF DeleteBlob
    <3>3. CASE ~(Unreferenced(req[h].pk) /\ blob[req[h].blob] = req[h].pk)
      BY <3>3 DEF DeleteBlob
    <3> QED
      BY <3>2, <3>3
  <2> QED
    BY <2>1 DEF IInv, Leads, DeleteBlob
<1>7. Writes(h)
  BY <1>3 DEF Writes
<1> QED
  BY <1>2, <1>4, <1>5, <1>6, <1>7, RequestStep DEF DeleteBlob

---------------------------------------------------------------------------
\* Every statement of every request preserves the inductive invariant.
LEMMA NextIInv == IInv /\ [Next]_vars => IInv'
<1> SUFFICES ASSUME IInv, [Next]_vars PROVE IInv'
  OBVIOUS
<1> USE DEF KnowingPCs
<1>1. blob \in [Blobs -> 0 .. MaxBlob] /\ ref \in [Refs -> RefRow] /\ req \in [Handlers -> Request]
  BY DEF IInv, TypeOK
<1>2. \A h \in Handlers : Shaped(req[h])
  BY DEF IInv, RequestsOK
<1>3. \A b \in Blobs : Row(b) => blob[b] \in 0 .. MaxBlob
  BY <1>1
<1>4. broken \subseteq Blobs /\ deleted \subseteq Refs
  BY DEF IInv, TypeOK
<1>5. ASSUME NEW h \in Handlers, NEW b \in Blobs, Upload(h, b) PROVE IInv'
  <2> DEFINE q == [Idle EXCEPT !.pc = "getOrCreate", !.blob = b]
  <2>1. q \in Request /\ q.pc = "getOrCreate" /\ q.pk = 0 /\ q.blob = b
    BY Blank DEF Request
  <2>2. Moves(h, q) /\ Shaped(q) /\ Learns(h, q)
    BY <1>5, <2>1 DEF Upload, Moves, Shaped, Learns
  <2> QED
    BY <1>4, <1>5, <2>2, QuietStep DEF Upload
<1>6. ASSUME NEW h \in Handlers, NEW b \in Blobs, NEW l \in {"insertRef", "saveBlob", "deleteRefs"},
             Row(b), Start(h, [Idle EXCEPT !.pc = l, !.blob = b, !.pk = blob[b]]),
             UNCHANGED <<blob, nextPk, ref, file, deleted, broken>>
      PROVE  IInv'
  <2> DEFINE q == [Idle EXCEPT !.pc = l, !.blob = b, !.pk = blob[b]]
  <2>1. q \in Request /\ q.pc = l /\ q.pk = blob[b] /\ q.blob = b
    BY <1>1, Blank DEF Request
  <2>2. Moves(h, q) /\ Shaped(q) /\ Learns(h, q)
    BY <1>6, <2>1 DEF Moves, Shaped, Learns
  <2> QED
    BY <1>4, <1>6, <2>2, QuietStep
<1>7. ASSUME NEW h \in Handlers, NEW r \in Refs, ReadRef(h, r) PROVE IInv'
  <2> DEFINE q == [pc |-> "fetchBlob", blob |-> ref[r].blob, pk |-> ref[r].pk, ref |-> r]
  <2>1. q \in Request
    BY <1>1 DEF Request, RefRow
  <2>2. ref[r].pk # 0 /\ blob[ref[r].blob] = ref[r].pk /\ ref[r].blob \in Blobs
    BY <1>7 DEF IInv, Leads, ReadRef
  <2>3. Moves(h, q) /\ Shaped(q) /\ Learns(h, q)
    BY <1>7, <2>1, <2>2 DEF ReadRef, Moves, Shaped, Learns
  <2> QED
    BY <1>4, <1>7, <2>3, QuietStep DEF ReadRef
<1>8. ASSUME NEW h \in Handlers, NEW r \in Refs, AskDeleteRef(h, r) PROVE IInv'
  <2> DEFINE q == [Idle EXCEPT !.pc = "deleteRef", !.ref = r]
  <2>1. q \in Request /\ q.pc = "deleteRef" /\ q.pk = 0
    BY Blank DEF Request
  <2>2. Moves(h, q) /\ Shaped(q) /\ Learns(h, q)
    BY <1>8, <2>1 DEF AskDeleteRef, Moves, Shaped, Learns
  <2> QED
    BY <1>4, <1>8, <2>2, QuietStep DEF AskDeleteRef
<1>9. ASSUME NEW h \in Handlers, GetOrCreate(h) PROVE IInv'
  <2>1. CASE Row(req[h].blob)
    <3> DEFINE q == [req[h] EXCEPT !.pc = "place", !.pk = blob[req[h].blob]]
    <3>1. req[h].blob \in Blobs
      BY <1>2, <1>9 DEF GetOrCreate, Shaped
    <3>2. q \in Request /\ q.pc = "place" /\ q.pk = blob[req[h].blob] /\ q.blob = req[h].blob
      BY <1>1, <3>1 DEF Request
    <3>3. Moves(h, q) /\ Shaped(q) /\ Learns(h, q)
      BY <1>9, <2>1, <3>1, <3>2 DEF GetOrCreate, Moves, Shaped, Learns
    <3> QED
      BY <1>4, <1>9, <2>1, <3>3, QuietStep DEF GetOrCreate
  <2> QED
    BY <1>9, <2>1, CreateStep
<1>10. ASSUME NEW h \in Handlers, Place(h) PROVE IInv'
  <2>1. req[h].pk # 0
    BY <1>2, <1>10 DEF Place, Shaped
  <2>2. PICK q \in Request : Moves(h, q) /\ Shaped(q) /\ Learns(h, q)
    <3>1. Continue(h, "activate")
      BY <1>10 DEF Place
    <3> HIDE DEF Continue
    <3> QED
      BY <2>1, <3>1, Continues
  <2>3. req[h].blob \in Blobs
    BY <2>1 DEF IInv, RequestsOK, Knows
  <2>4. TypeOK'
    BY <1>10, <2>2, <2>3 DEF IInv, TypeOK, Place, Moves
  <2>5. Writes(h) /\ Leads'
    BY <1>10 DEF IInv, Writes, Leads, Place
  <2> QED
    BY <1>10, <2>2, <2>4, <2>5, RequestStep DEF Place
<1>11. ASSUME NEW h \in Handlers, Activate(h) \/ TouchBlob(h) \/ SaveBlob(h) PROVE IInv'
  <2>1. req[h].pk # 0 /\ req[h].ref \in Refs \cup {None}
    BY <1>1, <1>2, <1>11 DEF Activate, TouchBlob, SaveBlob, Shaped, Request
  <2> QED
    BY <1>11, <2>1, SaveRowStep DEF Activate, TouchBlob, SaveBlob
<1>12. ASSUME NEW h \in Handlers, NEW r \in Refs, SaveNewRef(h, r) \/ InsertRef(h, r) PROVE IInv'
  <2>1. req[h].pk # 0
    BY <1>2, <1>12 DEF SaveNewRef, InsertRef, Shaped
  <2> QED
    BY <1>12, <2>1, WriteRefStep DEF SaveNewRef, InsertRef
<1>13. ASSUME NEW h \in Handlers, SaveRef(h) PROVE IInv'
  <2>1. req[h].pk # 0 /\ req[h].ref \in Refs
    BY <1>2, <1>13 DEF SaveRef, Shaped
  <2> QED
    BY <1>13, <2>1, WriteRefStep DEF SaveRef
<1>14. ASSUME NEW h \in Handlers, FetchBlob(h) PROVE IInv'
  <2>1. req[h].pk # 0
    BY <1>2, <1>14 DEF FetchBlob, Shaped
  <2>2. PICK q \in Request : Moves(h, q) /\ Shaped(q) /\ Learns(h, q)
    BY <1>14, <2>1, Continues DEF FetchBlob
  <2> QED
    BY <1>4, <1>14, <2>2, QuietStep DEF FetchBlob
<1>15. \A h \in Handlers : Reply(h) => Moves(h, Idle) /\ Shaped(Idle) /\ Learns(h, Idle)
  BY Blank DEF Moves, Shaped, Learns
<1>16. ASSUME NEW h \in Handlers, Open(h) PROVE IInv'
  BY <1>4, <1>15, <1>16, QuietStep DEF Open
<1>17. ASSUME NEW h \in Handlers, Die(h) PROVE IInv'
  <2>1. req[h].pc = "place" => req[h].blob \in Blobs
    BY <1>2 DEF IInv, RequestsOK, Knows, Shaped
  <2> QED
    BY <1>4, <1>15, <1>17, <2>1, QuietStep DEF Die
<1>18. ASSUME NEW h \in Handlers, DeleteRef(h) PROVE IInv'
  <2>1. {req[h].ref} \in SUBSET Refs
    BY <1>2, <1>18 DEF DeleteRef, Shaped
  <2> QED
    BY <1>4, <1>15, <1>18, <2>1, Blank, DeleteStepKeeps DEF DeleteRef
<1>19. ASSUME NEW h \in Handlers, DeleteRefs(h) PROVE IInv'
  <2>1. req[h].pk # 0
    BY <1>2, <1>19 DEF DeleteRefs, Shaped
  <2>2. PICK q \in Request : Moves(h, q) /\ Shaped(q) /\ Learns(h, q)
    <3>1. Continue(h, "deleteBlob")
      BY <1>19 DEF DeleteRefs
    <3> HIDE DEF Continue
    <3> QED
      BY <2>1, <3>1, Continues
  <2>3. RefsTo(req[h].pk) \in SUBSET Refs
    BY DEF RefsTo
  <2> QED
    BY <1>4, <1>19, <2>2, <2>3, DeleteStepKeeps DEF DeleteRefs
<1>20. CASE UNCHANGED vars
  BY <1>20 DEF vars, IInv, TypeOK, RequestsOK, Shaped, Knows, Servable, Placing, KeysOK,
     Leads, ListedIsServable
<1>21. CASE WriteStep
  BY <1>5, <1>6, <1>9, <1>10, <1>11, <1>12, <1>21 DEF WriteStep, ReferTo
<1>22. CASE ReadStep
  BY <1>6, <1>7, <1>11, <1>13, <1>14, <1>16, <1>22 DEF ReadStep, ReadBlob
<1>23. CASE DeleteStep
  BY <1>6, <1>8, <1>18, <1>19, <1>23, DeleteBlobStep DEF DeleteStep, AskDeleteBlob
<1> QED
  BY <1>17, <1>20, <1>21, <1>22, <1>23 DEF Next

LEMMA Invariance == Spec => []IInv
BY InitIInv, NextIInv, PTL DEF Spec

\* Rows, references, files and requests keep their types (blob/models.py).
THEOREM TypeCorrect == Spec => []TypeOK
<1>1. IInv => TypeOK
  BY DEF IInv
<1> QED
  BY <1>1, Invariance, PTL

\* A reference leads to the row it was made for, however uploads, reads that save
\* what they read, and deletes of any number of requests overlap (blob/views.py,
\* models.py:82-89).
THEOREM ReferencesAlwaysLead == Spec => []ReferencesLead
<1>1. IInv => ReferencesLead
  BY DEF IInv, Leads, ReferencesLead
<1> QED
  BY <1>1, Invariance, PTL

\* What the server lists it can serve, but for an upload that is, or died, between
\* get_or_create and rename (blob/views.py:37-39).
THEOREM ListedCanBeServed == Spec => []ListedIsServable
<1>1. IInv => ListedIsServable
  BY DEF IInv
<1> QED
  BY <1>1, Invariance, PTL

---------------------------------------------------------------------------
(* What a reference was made for                                           *)

\* A reference has a content from when it is made.
MadeOK(r) == IF ref[r].state = "unused" THEN ref[r].blob = None ELSE ref[r].blob \in Blobs

\* In the table of references: what request q has read of its reference holds,
\* also when the reference has been deleted since.
Recalls(q, table) ==
  /\ q.pc \in {"fetchBlob", "saveBlob", "saveRef"} /\ q.ref # None =>
       table[q.ref].state # "unused" /\ table[q.ref].blob = q.blob
  /\ q.pc = "deleteRef" => table[q.ref].state # "unused"

Bound == (\A r \in Refs : MadeOK(r)) /\ (\A h \in Handlers : Recalls(req[h], ref))

\* References are made once, and for one content.
KeepsMade ==
  \A r \in Refs : ref[r].state # "unused" =>
    ref'[r].state # "unused" /\ ref'[r].blob = ref[r].blob

LEMMA BoundKept ==
  ASSUME IInv, Bound, NEW h \in Handlers, NEW q, Moves(h, q), KeepsMade,
         Recalls(q, ref'), \A r \in Refs : MadeOK(r)'
  PROVE  Bound'
<1>1. ref \in [Refs -> RefRow] /\ req \in [Handlers -> Request]
  BY DEF IInv, TypeOK
<1>2. ASSUME NEW g \in Handlers PROVE Recalls(req'[g], ref')
  <2>1. CASE g = h
    BY <1>1, <2>1 DEF Moves
  <2>2. CASE g # h
    <3>1. req'[g] = req[g] /\ Recalls(req[g], ref)
      BY <1>1, <2>2 DEF Moves, Bound
    <3>2. req[g].ref \in Refs \cup {None} /\ (req[g].pc = "deleteRef" => req[g].ref \in Refs)
      BY <1>1 DEF Request, IInv, RequestsOK, Shaped
    <3> QED
      BY <3>1, <3>2 DEF KeepsMade, Recalls
  <2> QED
    BY <2>1, <2>2
<1> QED
  BY <1>2 DEF Bound

\* A statement that leaves the references alone.
LEMMA BoundSame ==
  ASSUME IInv, Bound, NEW h \in Handlers, NEW q, Moves(h, q), Recalls(q, ref), UNCHANGED ref
  PROVE  Bound'
<1>1. KeepsMade /\ Recalls(q, ref') /\ \A r \in Refs : MadeOK(r)'
  BY DEF KeepsMade, Bound, MadeOK
<1> QED
  BY <1>1, BoundKept

\* Going on with a request, or answering it, keeps what it recalls.
LEMMA GoesOn ==
  ASSUME IInv, Bound, NEW h \in Handlers, NEW l, Continue(h, l) \/ Reply(h),
         l \notin {"fetchBlob", "deleteRef"},
         l \in {"saveBlob", "saveRef"} => req[h].pc \in {"fetchBlob", "saveBlob"},
         l \in {"idle"} \cup UploadPCs \cup ReadPCs \cup DeletePCs
  PROVE  \E q \in Request : Moves(h, q) /\ q.pc \in {"idle", l} /\ Recalls(q, ref)
<1> DEFINE p == [req[h] EXCEPT !.pc = l]
<1>1. req[h] \in Request /\ Recalls(req[h], ref)
  BY DEF IInv, TypeOK, Bound
<1>2. p \in Request /\ p.pc = l /\ p.blob = req[h].blob /\ p.ref = req[h].ref
  BY <1>1 DEF Request
<1>3. Recalls(p, ref)
  BY <1>1, <1>2 DEF Recalls
<1>4. Recalls(Idle, ref)
  BY Blank DEF Recalls
<1> QED
  BY <1>2, <1>3, <1>4, Blank DEF Moves

\* A reference is written: for the first time, or for the content it was made for.
LEMMA BoundWritten ==
  ASSUME IInv, Bound, NEW h \in Handlers, req[h].pk # 0, NEW r \in Refs,
         NEW l \in {"idle", "touchBlob", "open"},
         WriteRef(h, r, req[h].blob, req[h].pk, l),
         Fresh(r) \/ ref[r].blob = req[h].blob
  PROVE  Bound'
<1>1. PICK q \in Request : Moves(h, q) /\ q.pc \in {"idle", l}
  BY GoesOn DEF WriteRef
<1>2. ref \in [Refs -> RefRow] /\ req[h].blob \in Blobs
  BY DEF IInv, TypeOK, RequestsOK, Knows
<1>3. KeepsMade /\ \A x \in Refs : MadeOK(x)'
  BY <1>2 DEF WriteRef, KeepsMade, Bound, MadeOK, Fresh
<1>4. Recalls(q, ref')
  BY <1>1 DEF Recalls
<1> QED
  BY <1>1, <1>3, <1>4, BoundKept

LEMMA BoundDeleted ==
  ASSUME IInv, Bound, NEW h \in Handlers, NEW S \in SUBSET Refs, Delete(S),
         \A r \in S : ref[r].state # "unused",
         NEW q, Moves(h, q), q.pc \in {"idle", "deleteBlob"}
  PROVE  Bound'
<1>1. ref \in [Refs -> RefRow]
  BY DEF IInv, TypeOK
<1>2. \A r \in Refs : /\ ref'[r].blob = ref[r].blob
                      /\ ref'[r].state = IF r \in S THEN "deleted" ELSE ref[r].state
  BY <1>1 DEF Delete, RefRow
<1>3. KeepsMade /\ \A r \in Refs : MadeOK(r)'
  BY <1>2 DEF KeepsMade, Bound, MadeOK
<1>4. Recalls(q, ref')
  BY DEF Recalls
<1> QED
  BY <1>3, <1>4, BoundKept

LEMMA InitBound == Init => Bound
BY DEF Init, Bound, MadeOK, Recalls, NoRef, Idle

LEMMA NextBound == IInv /\ Bound /\ [Next]_vars => Bound'
<1> SUFFICES ASSUME IInv, Bound, [Next]_vars PROVE Bound'
  OBVIOUS
<1>1. blob \in [Blobs -> 0 .. MaxBlob] /\ ref \in [Refs -> RefRow] /\ req \in [Handlers -> Request]
  BY DEF IInv, TypeOK
<1>2. \A h \in Handlers : Shaped(req[h])
  BY DEF IInv, RequestsOK
\* Requests that recall no reference begin, and uploads find or insert a row.
<1>3. ASSUME NEW h \in Handlers, NEW q, Moves(h, q), UNCHANGED ref,
             q.pc \notin {"fetchBlob", "saveBlob", "saveRef", "deleteRef"} \/ (q.pc = "saveBlob" /\ q.ref = None)
      PROVE  Bound'
  <2>1. Recalls(q, ref)
    BY <1>3 DEF Recalls
  <2> QED
    BY <1>3, <2>1, BoundSame
<1>4. ASSUME NEW h \in Handlers, NEW b \in Blobs, Upload(h, b) PROVE Bound'
  <2> DEFINE q == [Idle EXCEPT !.pc = "getOrCreate", !.blob = b]
  <2>1. q \in Request /\ q.pc = "getOrCreate"
    BY Blank DEF Request
  <2> QED
    BY <1>3, <1>4, <2>1 DEF Upload, Moves
<1>5. ASSUME NEW h \in Handlers, NEW b \in Blobs, NEW l \in {"insertRef", "saveBlob", "deleteRefs"},
             Row(b), Start(h, [Idle EXCEPT !.pc = l, !.blob = b, !.pk = blob[b]]), UNCHANGED ref
      PROVE  Bound'
  <2> DEFINE q == [Idle EXCEPT !.pc = l, !.blob = b, !.pk = blob[b]]
  <2>1. q \in Request /\ q.pc = l /\ q.ref = None
    BY <1>1, Blank DEF Request
  <2>2. Moves(h, q)
    BY <1>5, <2>1 DEF Moves
  <2> QED
    BY <1>3, <1>5, <2>1, <2>2
<1>6. ASSUME NEW h \in Handlers, NEW r \in Refs, ReadRef(h, r) PROVE Bound'
  <2> DEFINE q == [pc |-> "fetchBlob", blob |-> ref[r].blob, pk |-> ref[r].pk, ref |-> r]
  <2>1. q \in Request
    BY <1>1 DEF Request, RefRow
  <2>2. Moves(h, q) /\ Recalls(q, ref)
    BY <1>6, <2>1 DEF ReadRef, Moves, Recalls
  <2> QED
    BY <1>6, <2>2, BoundSame DEF ReadRef
<1>7. ASSUME NEW h \in Handlers, NEW r \in Refs, AskDeleteRef(h, r) PROVE Bound'
  <2> DEFINE q == [Idle EXCEPT !.pc = "deleteRef", !.ref = r]
  <2>1. q \in Request /\ q.pc = "deleteRef" /\ q.ref = r
    BY Blank DEF Request
  <2>2. Moves(h, q) /\ Recalls(q, ref)
    BY <1>7, <2>1 DEF AskDeleteRef, Moves, Recalls
  <2> QED
    BY <1>7, <2>2, BoundSame DEF AskDeleteRef
<1>8. ASSUME NEW h \in Handlers, GetOrCreate(h) PROVE Bound'
  <2>1. PICK k \in 0 .. MaxBlob : req' = [req EXCEPT ![h] = [req[h] EXCEPT !.pc = "place", !.pk = k]]
    <3>1. CASE Row(req[h].blob)
      <4>1. blob[req[h].blob] \in 0 .. MaxBlob
        BY <1>1, <1>2, <1>8 DEF GetOrCreate, Shaped
      <4> QED
        BY <1>8, <3>1, <4>1 DEF GetOrCreate
    <3>2. CASE ~Row(req[h].blob)
      <4>1. nextPk \in 0 .. MaxBlob
        BY <1>8, <3>2, BoundAssumption DEF GetOrCreate, IInv, TypeOK
      <4> QED
        BY <1>8, <3>2, <4>1 DEF GetOrCreate
    <3> QED
      BY <3>1, <3>2
  <2> DEFINE q == [req[h] EXCEPT !.pc = "place", !.pk = k]
  <2>2. q \in Request /\ q.pc = "place"
    BY <1>1 DEF Request
  <2> QED
    BY <1>3, <1>8, <2>1, <2>2 DEF GetOrCreate, Moves
\* A request goes on to a statement at which it recalls no more than before.
<1>9. ASSUME NEW h \in Handlers, NEW l \in {"idle", "activate", "saveNewRef", "saveBlob", "saveRef", "open"},
             Continue(h, l) \/ Reply(h), UNCHANGED ref,
             l \in {"saveBlob", "saveRef"} => req[h].pc \in {"fetchBlob", "saveBlob"}
      PROVE  Bound'
  <2>1. PICK q \in Request : Moves(h, q) /\ Recalls(q, ref)
    <3> HIDE DEF Continue, Reply
    <3>1. l \in {"idle"} \cup UploadPCs \cup ReadPCs \cup DeletePCs /\ l \notin {"fetchBlob", "deleteRef"}
      OBVIOUS
    <3> QED
      BY <1>9, <3>1, GoesOn
  <2> QED
    BY <1>9, <2>1, BoundSame
<1>10. ASSUME NEW h \in Handlers,
              Place(h) \/ Activate(h) \/ TouchBlob(h) \/ FetchBlob(h) \/ SaveBlob(h) \/ Open(h)
                \/ DeleteBlob(h) \/ Die(h)
       PROVE  Bound'
  <2>1. PICK l \in {"idle", "activate", "saveNewRef", "saveBlob", "saveRef", "open"} :
           /\ Continue(h, l) \/ Reply(h)
           /\ l \in {"saveBlob", "saveRef"} => req[h].pc \in {"fetchBlob", "saveBlob"}
    <3> HIDE DEF Continue, Reply
    <3> QED
      BY <1>10 DEF Place, Activate, TouchBlob, FetchBlob, SaveBlob, Open, DeleteBlob, Die, SaveRow
  <2>2. UNCHANGED ref
    BY <1>10 DEF Place, Activate, TouchBlob, FetchBlob, SaveBlob, Open, DeleteBlob, Die
  <2> QED
    BY <1>9, <2>1, <2>2
<1>11. ASSUME NEW h \in Handlers, NEW r \in Refs, SaveNewRef(h, r) \/ InsertRef(h, r) PROVE Bound'
  <2>1. req[h].pk # 0
    BY <1>2, <1>11 DEF SaveNewRef, InsertRef, Shaped, KnowingPCs
  <2> QED
    BY <1>11, <2>1, BoundWritten DEF SaveNewRef, InsertRef
<1>12. ASSUME NEW h \in Handlers, SaveRef(h) PROVE Bound'
  <2>1. req[h].pk # 0 /\ req[h].ref \in Refs /\ req[h].ref # None
    BY <1>2, <1>12, NoneAssumption DEF SaveRef, Shaped, KnowingPCs
  <2>2. ref[req[h].ref].blob = req[h].blob
    BY <1>12, <2>1 DEF SaveRef, Bound, Recalls
  <2> QED
    BY <1>12, <2>1, <2>2, BoundWritten DEF SaveRef
<1>13. ASSUME NEW h \in Handlers, DeleteRef(h) PROVE Bound'
  <2>1. {req[h].ref} \in SUBSET Refs /\ \A r \in {req[h].ref} : ref[r].state # "unused"
    BY <1>2, <1>13 DEF DeleteRef, Shaped, Bound, Recalls
  <2>2. Moves(h, Idle) /\ Idle.pc \in {"idle", "deleteBlob"}
    BY <1>13, Blank DEF DeleteRef, Moves
  <2> QED
    BY <1>13, <2>1, <2>2, BoundDeleted DEF DeleteRef
<1>14. ASSUME NEW h \in Handlers, DeleteRefs(h) PROVE Bound'
  <2>1. RefsTo(req[h].pk) \in SUBSET Refs /\ \A r \in RefsTo(req[h].pk) : ref[r].state # "unused"
    BY DEF RefsTo
  <2> DEFINE q == [req[h] EXCEPT !.pc = "deleteBlob"]
  <2>2. q \in Request /\ q.pc = "deleteBlob"
    BY <1>1 DEF Request
  <2>3. Moves(h, q)
    BY <1>14, <2>2 DEF DeleteRefs, Moves
  <2> QED
    BY <1>14, <2>1, <2>2, <2>3, BoundDeleted DEF DeleteRefs
<1>15. CASE UNCHANGED vars
  BY <1>15 DEF vars, Bound, MadeOK, Recalls
<1>16. CASE WriteStep
  BY <1>4, <1>5, <1>8, <1>10, <1>11, <1>16 DEF WriteStep, ReferTo
<1>17. CASE ReadStep
  BY <1>5, <1>6, <1>10, <1>12, <1>17 DEF ReadStep, ReadBlob
<1>18. CASE DeleteStep
  BY <1>5, <1>7, <1>10, <1>13, <1>14, <1>18 DEF DeleteStep, AskDeleteBlob
<1> QED
  BY <1>10, <1>15, <1>16, <1>17, <1>18 DEF Next

LEMMA BoundHolds == Spec => [](IInv /\ Bound)
BY InitIInv, NextIInv, InitBound, NextBound, PTL DEF Spec

---------------------------------------------------------------------------
(* Every statement is a step of the abstract store                         *)

LEMMA Unseen ==
  ASSUME UNCHANGED <<blob, ref, file>>, Due' = Due
  PROVE  UNCHANGED Store!vars
BY DEF Store!vars, Listed, Made, Live

\* A request that neither was nor gets between row and file.
LEMMA DueSame ==
  ASSUME IInv, NEW h \in Handlers, NEW q, Moves(h, q), req[h].pc # "place", q.pc # "place",
         broken' = broken
  PROVE  Due' = Due
<1>1. req \in [Handlers -> Request]
  BY DEF IInv, TypeOK
<1>2. \A b \in Blobs : Placing(b) <=> Placing(b)'
  BY <1>1 DEF Moves, Placing
<1> QED
  BY <1>2 DEF Due

\* A request that goes on, or is answered, is at the statement it goes on to.
LEMMA Goes ==
  ASSUME IInv, NEW h \in Handlers, NEW l \in {"idle"} \cup UploadPCs \cup ReadPCs \cup DeletePCs,
         l # "place", Continue(h, l) \/ Reply(h)
  PROVE  \E q \in Request : Moves(h, q) /\ q.pc # "place"
<1> DEFINE p == [req[h] EXCEPT !.pc = l]
<1>1. p \in Request /\ p.pc = l
  BY DEF IInv, TypeOK, Request
<1> QED
  BY <1>1, Blank DEF Moves

LEMMA CreateRefines ==
  ASSUME IInv, NEW h \in Handlers, GetOrCreate(h)
  PROVE  Store!Next
<1> DEFINE c == req[h].blob
<1>1. /\ blob \in [Blobs -> 0 .. MaxBlob] /\ req \in [Handlers -> Request] /\ nextPk \in Nat
      /\ nextPk # 0 /\ c \in Blobs
  BY DEF IInv, TypeOK, RequestsOK, Shaped, GetOrCreate
<1>2. blob'[c] # 0 /\ \A b \in Blobs \ {c} : blob'[b] = blob[b]
  BY <1>1 DEF GetOrCreate
<1>3. Listed' = Listed \cup {c}
  BY <1>1, <1>2 DEF Listed
<1>4. req'[h].pc = "place" /\ req'[h].blob = c /\ \A g \in Handlers \ {h} : req'[g] = req[g]
  <2>1. PICK k : req' = [req EXCEPT ![h] = [req[h] EXCEPT !.pc = "place", !.pk = k]]
    BY DEF GetOrCreate
  <2> DEFINE q == [req[h] EXCEPT !.pc = "place", !.pk = k]
  <2>2. q.pc = "place" /\ q.blob = c
    BY <1>1 DEF Request
  <2> QED
    BY <1>1, <2>1, <2>2
<1>5. \A b \in Blobs : Placing(b)' <=> Placing(b) \/ b = c
  BY <1>1, <1>4 DEF Placing, GetOrCreate
<1>6. Due' = Due \cup {c}
  BY <1>1, <1>5 DEF Due, GetOrCreate
<1>7. UNCHANGED <<file, Made, Live>>
  BY DEF GetOrCreate, Made, Live
<1>8. Store!Announce(c)
  BY <1>3, <1>6, <1>7 DEF Store!Announce
<1> QED
  BY <1>1, <1>8 DEF Store!Next

LEMMA PlaceRefines ==
  ASSUME IInv, NEW h \in Handlers, Place(h)
  PROVE  Store!Next
<1> DEFINE c == req[h].blob
<1>1. req \in [Handlers -> Request] /\ c \in Blobs
  BY DEF IInv, TypeOK, RequestsOK, Shaped, Knows, KnowingPCs, Place
<1>2. req'[h].pc = "activate" /\ \A g \in Handlers \ {h} : req'[g] = req[g]
  BY <1>1 DEF Place, Request
<1>3. c \in Due
  BY <1>1 DEF Due, Placing, Place
<1>4. \A b \in Blobs \ {c} : Placing(b)' <=> Placing(b)
  BY <1>1, <1>2 DEF Placing
<1>5. Placing(c)
  BY DEF Placing, Place
<1>6. Due' \in {Due, Due \ {c}}
  <2>1. CASE Placing(c)' \/ c \in broken
    <3>1. Due' = Due
      BY <1>1, <1>4, <1>5, <2>1 DEF Due, Place
    <3> QED
      BY <3>1
  <2>2. CASE ~Placing(c)' /\ c \notin broken
    <3>1. Due' = Due \ {c}
      BY <1>1, <1>4, <1>5, <2>2 DEF Due, Place
    <3> QED
      BY <3>1
  <2> QED
    BY <2>1, <2>2
<1>7. file' = file \cup {c} /\ UNCHANGED <<Listed, Made, Live>>
  BY DEF Place, Listed, Made, Live
<1>8. Store!Store(c)
  BY <1>3, <1>6, <1>7 DEF Store!Store
<1> QED
  BY <1>1, <1>8 DEF Store!Next

LEMMA SaveRowRefines ==
  ASSUME IInv, NEW h \in Handlers, req[h].pk # 0, req[h].pc # "place",
         NEW l \in {"idle", "saveNewRef", "open", "saveRef"},
         SaveRow(h, req[h].blob, req[h].pk, l), UNCHANGED <<ref, file, broken>>
  PROVE  Store!Next \/ UNCHANGED Store!vars
<1> DEFINE c == req[h].blob
<1>1. blob \in [Blobs -> 0 .. MaxBlob] /\ c \in Blobs /\ Servable(c)
  BY DEF IInv, TypeOK, RequestsOK, Knows
<1>2. PICK q \in Request : Moves(h, q) /\ q.pc # "place"
  <2>1. Continue(h, l) \/ Reply(h)
    BY DEF SaveRow
  <2> HIDE DEF Continue, Reply
  <2> QED
    BY <2>1, Goes
<1>3. Due' = Due
  BY <1>2, DueSame
<1>4. CASE UNCHANGED blob
  BY <1>3, <1>4, Unseen
<1>5. CASE blob' = [blob EXCEPT ![c] = req[h].pk]
  <2>1. Listed' = Listed \cup {c}
    BY <1>1, <1>5 DEF Listed
  <2>2. c \in file \cup Due
    BY <1>1 DEF Servable, Due
  <2>3. UNCHANGED <<file, Made, Live>>
    BY DEF Made, Live
  <2>4. Store!ListAgain(c)
    BY <1>3, <2>1, <2>2, <2>3 DEF Store!ListAgain
  <2> QED
    BY <1>1, <2>4 DEF Store!Next
<1> QED
  BY <1>4, <1>5 DEF SaveRow

\* A reference is made, or brought back to the content it was made for.
LEMMA WriteRefRefines ==
  ASSUME IInv, Bound, NEW h \in Handlers, req[h].pk # 0, req[h].pc # "place", NEW r \in Refs,
         NEW l \in {"idle", "touchBlob", "open"},
         WriteRef(h, r, req[h].blob, req[h].pk, l),
         Fresh(r) \/ ref[r].blob = req[h].blob,
         UNCHANGED <<blob, file, broken>>
  PROVE  Store!Next \/ UNCHANGED Store!vars
<1> DEFINE c == req[h].blob
<1>1. ref \in [Refs -> RefRow] /\ c \in Blobs /\ req[h].pk # 0
  BY DEF IInv, TypeOK, RequestsOK, Knows
<1>2. PICK q \in Request : Moves(h, q) /\ q.pc # "place"
  <2>1. Continue(h, l) \/ Reply(h)
    BY DEF WriteRef
  <2> HIDE DEF Continue, Reply
  <2> QED
    BY <2>1, Goes
<1>3. Due' = Due
  BY <1>2, DueSame
<1>4. CASE UNCHANGED ref
  BY <1>3, <1>4, Unseen
<1>5. CASE ref' = [ref EXCEPT ![r] = [state |-> "present", blob |-> c, pk |-> req[h].pk]] /\ blob[c] = req[h].pk
  <2>1. Live' = Live \cup {r}
    BY <1>1, <1>5 DEF Live
  <2>2. c \in Listed /\ UNCHANGED <<Listed, file>>
    BY <1>1, <1>5 DEF Listed
  <2>3. CASE Fresh(r)
    <3>1. Made[r] = None
      BY <2>3 DEF Made, Bound, MadeOK, Fresh
    <3>2. Made' = [Made EXCEPT ![r] = c]
      BY <1>1, <1>5 DEF Made
    <3>3. Store!Make(r, c)
      BY <1>3, <2>1, <2>2, <3>1, <3>2 DEF Store!Make
    <3> QED
      BY <1>1, <3>3 DEF Store!Next
  <2>4. CASE ref[r].blob = c
    <3>1. Made' = Made /\ Made[r] = c
      BY <1>1, <1>5, <2>4 DEF Made
    <3>2. Store!BringBack(r)
      BY <1>3, <2>1, <2>2, <3>1 DEF Store!BringBack
    <3> QED
      BY <3>2 DEF Store!Next
  <2> QED
    BY <2>3, <2>4
<1> QED
  BY <1>4, <1>5 DEF WriteRef

LEMMA DeleteRefines ==
  ASSUME IInv, NEW h \in Handlers, req[h].pc # "place", NEW S \in SUBSET Refs, Delete(S),
         NEW q, Moves(h, q), q.pc # "place", UNCHANGED <<blob, file, broken>>
  PROVE  Store!Next
<1>1. ref \in [Refs -> RefRow]
  BY DEF IInv, TypeOK
<1>2. \A r \in Refs : /\ ref'[r].blob = ref[r].blob
                      /\ ref'[r].state = IF r \in S THEN "deleted" ELSE ref[r].state
  BY <1>1 DEF Delete, RefRow
<1>3. Made' = Made /\ Live' = Live \ S
  BY <1>2 DEF Made, Live
<1>4. Due' = Due
  BY DueSame
<1>5. Listed' = Listed
  BY DEF Listed
<1>6. Store!Drop(S)
  BY <1>3, <1>4, <1>5 DEF Store!Drop
<1> QED
  BY <1>6 DEF Store!Next

\* PROTECT: a content is unlisted only when no live reference was made for it.
LEMMA DeleteBlobRefines ==
  ASSUME IInv, NEW h \in Handlers, DeleteBlob(h)
  PROVE  Store!Next \/ UNCHANGED Store!vars
<1> DEFINE c == req[h].blob
<1>1. blob \in [Blobs -> 0 .. MaxBlob] /\ c \in Blobs
  BY DEF IInv, TypeOK, RequestsOK, Shaped, Knows, KnowingPCs, DeleteBlob
<1>2. Due' = Due
  <2>1. Moves(h, Idle) /\ Idle.pc # "place"
    BY Blank DEF DeleteBlob, Moves
  <2> QED
    BY <2>1, DueSame DEF DeleteBlob
<1>3. CASE Unreferenced(req[h].pk) /\ blob[c] = req[h].pk
  <2>1. Listed' = Listed \ {c}
    BY <1>1, <1>3 DEF Listed, DeleteBlob
  <2>2. ASSUME NEW r \in Live PROVE Made[r] # c
    BY <1>3, <2>2 DEF Live, Made, Unreferenced, RefsTo, IInv, Leads
  <2>3. UNCHANGED <<file, Made, Live>>
    BY DEF DeleteBlob, FileAfterDelete, Made, Live
  <2>4. Store!Unlist(c)
    BY <1>2, <2>1, <2>2, <2>3 DEF Store!Unlist
  <2> QED
    BY <1>1, <2>4 DEF Store!Next
<1>4. CASE ~(Unreferenced(req[h].pk) /\ blob[c] = req[h].pk)
  BY <1>2, <1>4, Unseen DEF DeleteBlob
<1> QED
  BY <1>3, <1>4

\* A request that dies between row and file leaves its content due.
LEMMA DieRefines ==
  ASSUME IInv, NEW h \in Handlers, Die(h)
  PROVE  UNCHANGED Store!vars
<1>1. req \in [Handlers -> Request] /\ (req[h].pc = "place" => req[h].blob \in Blobs)
  BY DEF IInv, TypeOK, RequestsOK, Shaped, Knows, KnowingPCs
<1>2. Moves(h, Idle) /\ Idle.pc = "idle"
  BY Blank DEF Die, Moves
<1>3. Due' = Due
  <2>1. CASE req[h].pc # "place"
    BY <1>2, <2>1, DueSame DEF Die
  <2>2. CASE req[h].pc = "place"
    <3>1. broken' = broken \cup {req[h].blob} /\ Placing(req[h].blob)
      BY <2>2 DEF Die, Placing
    <3>2. \A b \in Blobs \ {req[h].blob} : Placing(b)' <=> Placing(b)
      BY <1>1, <1>2 DEF Placing, Moves
    <3> QED
      BY <1>1, <2>2, <3>1, <3>2 DEF Due
  <2> QED
    BY <2>1, <2>2
<1> QED
  BY <1>3, Unseen DEF Die

LEMMA InitRefines == Init => Store!Init
BY DEF Init, Store!Init, Listed, Due, Made, Live, Row, Present, Placing, NoRef, Idle

LEMMA StepRefines == IInv /\ Bound /\ [Next]_vars => [Store!Next]_(Store!vars)
<1> SUFFICES ASSUME IInv, Bound, [Next]_vars PROVE Store!Next \/ UNCHANGED Store!vars
  OBVIOUS
<1>1. blob \in [Blobs -> 0 .. MaxBlob] /\ ref \in [Refs -> RefRow] /\ req \in [Handlers -> Request]
  BY DEF IInv, TypeOK
<1>2. \A h \in Handlers : Shaped(req[h])
  BY DEF IInv, RequestsOK
\* A request begins.
<1>3. ASSUME NEW h \in Handlers, NEW q, q.pc # "place", Start(h, q),
             UNCHANGED <<blob, ref, file, broken>>
      PROVE  UNCHANGED Store!vars
  <2>1. req'[h] = q /\ (\A g \in Handlers \ {h} : req'[g] = req[g]) /\ req[h].pc = "idle"
    BY <1>1, <1>3
  <2>2. \A b \in Blobs : Placing(b) <=> Placing(b)'
    BY <1>3, <2>1 DEF Placing
  <2> QED
    BY <1>3, <2>2, Unseen DEF Due
<1>4. ASSUME NEW h \in Handlers, NEW b \in Blobs,
             Upload(h, b) \/ ReferTo(h, b) \/ ReadBlob(h, b) \/ AskDeleteBlob(h, b)
      PROVE  UNCHANGED Store!vars
  <2>1. PICK q : q.pc # "place" /\ Start(h, q)
    <3>1. [Idle EXCEPT !.pc = "getOrCreate", !.blob = b].pc = "getOrCreate"
      BY DEF Idle
    <3>2. \A l, k : [Idle EXCEPT !.pc = l, !.blob = b, !.pk = k].pc = l
      BY DEF Idle
    <3> HIDE DEF Start
    <3> QED
      BY <1>4, <3>1, <3>2 DEF Upload, ReferTo, ReadBlob, AskDeleteBlob
  <2>2. UNCHANGED <<blob, ref, file, broken>>
    BY <1>4 DEF Upload, ReferTo, ReadBlob, AskDeleteBlob
  <2> QED
    BY <1>3, <2>1, <2>2
<1>5. ASSUME NEW h \in Handlers, NEW r \in Refs, ReadRef(h, r) \/ AskDeleteRef(h, r)
      PROVE  UNCHANGED Store!vars
  <2>1. [Idle EXCEPT !.pc = "deleteRef", !.ref = r].pc # "place"
    BY DEF Idle
  <2> QED
    BY <1>3, <1>5, <2>1 DEF ReadRef, AskDeleteRef
<1>6. ASSUME NEW h \in Handlers, FetchBlob(h) \/ Open(h) PROVE UNCHANGED Store!vars
  <2>1. PICK l \in {"idle", "saveBlob"} : Continue(h, l) \/ Reply(h)
    <3> HIDE DEF Continue, Reply
    <3> QED
      BY <1>6 DEF FetchBlob, Open
  <2>2. PICK q \in Request : Moves(h, q) /\ q.pc # "place"
    <3> HIDE DEF Continue, Reply
    <3> QED
      BY <2>1, Goes
  <2>3. Due' = Due
    BY <1>6, <2>2, DueSame DEF FetchBlob, Open
  <2> QED
    BY <1>6, <2>3, Unseen DEF FetchBlob, Open
<1>7. ASSUME NEW h \in Handlers, Activate(h) \/ TouchBlob(h) \/ SaveBlob(h)
      PROVE  Store!Next \/ UNCHANGED Store!vars
  <2>1. req[h].pk # 0
    BY <1>2, <1>7 DEF Activate, TouchBlob, SaveBlob, Shaped, KnowingPCs
  <2> QED
    BY <1>7, <2>1, SaveRowRefines DEF Activate, TouchBlob, SaveBlob
<1>8. ASSUME NEW h \in Handlers, NEW r \in Refs, SaveNewRef(h, r) \/ InsertRef(h, r)
      PROVE  Store!Next \/ UNCHANGED Store!vars
  <2>1. req[h].pk # 0
    BY <1>2, <1>8 DEF SaveNewRef, InsertRef, Shaped, KnowingPCs
  <2> QED
    BY <1>8, <2>1, WriteRefRefines DEF SaveNewRef, InsertRef
<1>9. ASSUME NEW h \in Handlers, SaveRef(h) PROVE Store!Next \/ UNCHANGED Store!vars
  <2>1. req[h].pk # 0 /\ req[h].ref \in Refs /\ req[h].ref # None
    BY <1>2, <1>9, NoneAssumption DEF SaveRef, Shaped, KnowingPCs
  <2>2. ref[req[h].ref].blob = req[h].blob
    BY <1>9, <2>1 DEF SaveRef, Bound, Recalls
  <2> QED
    BY <1>9, <2>1, <2>2, WriteRefRefines DEF SaveRef
<1>10. ASSUME NEW h \in Handlers, DeleteRef(h) PROVE Store!Next
  <2>1. {req[h].ref} \in SUBSET Refs
    BY <1>2, <1>10 DEF DeleteRef, Shaped
  <2>2. Moves(h, Idle) /\ Idle.pc # "place"
    BY <1>10, Blank DEF DeleteRef, Moves
  <2> QED
    BY <1>10, <2>1, <2>2, DeleteRefines DEF DeleteRef
<1>11. ASSUME NEW h \in Handlers, DeleteRefs(h) PROVE Store!Next
  <2> DEFINE q == [req[h] EXCEPT !.pc = "deleteBlob"]
  <2>1. q \in Request /\ q.pc = "deleteBlob"
    BY <1>1 DEF Request
  <2>2. Moves(h, q)
    BY <1>11, <2>1 DEF DeleteRefs, Moves
  <2>3. RefsTo(req[h].pk) \in SUBSET Refs
    BY DEF RefsTo
  <2> QED
    BY <1>11, <2>1, <2>2, <2>3, DeleteRefines DEF DeleteRefs
<1>12. CASE UNCHANGED vars
  <2>1. Due' = Due
    BY <1>12 DEF vars, Due, Placing
  <2> QED
    BY <1>12, <2>1, Unseen DEF vars
<1>13. CASE WriteStep
  BY <1>4, <1>7, <1>8, <1>13, CreateRefines, PlaceRefines DEF WriteStep
<1>14. CASE ReadStep
  BY <1>4, <1>5, <1>6, <1>7, <1>9, <1>14 DEF ReadStep
<1>15. CASE DeleteStep
  BY <1>4, <1>5, <1>10, <1>11, <1>15, DeleteBlobRefines DEF DeleteStep
<1> QED
  BY <1>12, <1>13, <1>14, <1>15, DieRefines DEF Next

\* The views of blob/views.py, split into their statements on rows and files and
\* interleaved in any number, keep what ContentStore promises.
THEOREM Refinement == Spec => ImplementsStore
<1>1. Spec => Store!Init
  BY InitRefines DEF Spec
<1> QED
  BY <1>1, BoundHolds, StepRefines, PTL DEF Spec, ImplementsStore, Store!Spec

=============================================================================
