--------------------------- MODULE ResumableUpload ---------------------------
(***************************************************************************)
(* Uploads in pieces (resumable-upload.js) and the media library they end  *)
(* in (server.js).  A session is a directory with its metadata and one     *)
(* part for each received chunk; completing it assembles the parts, gives  *)
(* the file its name and registers it in the library.                      *)
(*                                                                         *)
(* Two locks order the work: `requests` is the queue of the operations     *)
(* that own the session (ResumableUploadStore.locked), `fileWork` the      *)
(* queue of those that own the file (withMediaFileWrite).  An assembly     *)
(* owns its session and waits for the file; a deletion owns the file and   *)
(* marks the session without waiting for it.                               *)
(*                                                                         *)
(* Code between two awaits is one action.  Several writes in one action    *)
(* may be cut short by an error, or by the end of the process: the         *)
(* parameter n is how many of them were made.                              *)
(***************************************************************************)
EXTENDS Naturals, Sequences, FiniteSets

CONSTANTS
    Uploads,      \* session ids; a random UUID is used once
    Chunks,       \* chunk numbers of an upload
    Quota,        \* uploads of one owner that may hold parts (maxOwnerBytes)
    MaxRequests   \* requests that wait for one session or file, a bound of the model

VARIABLES
    session,   \* session.json of each session
    parts,     \* verified chunks that are on disk
    expired,   \* the session is older than its time to live
    file,      \* the assembled file is in the media directory
    record,    \* its library record: none, plain (no upload identity), linked
    requests,  \* queue of the operations that own the session, the first runs
    job,       \* locals of the one that runs
    fileWork,  \* queue of the operations that own the file, the first runs
    added,     \* history: the library has accepted the upload
    asked      \* history: an operator asked to delete the file

store == <<session, parts, expired>>
library == <<file, record, added>>
locks == <<requests, job, fileWork>>
vars == <<session, parts, expired, file, record, requests, job, fileWork, added, asked>>

Absent == [is |-> "none"]   \* before create
Gone == [is |-> "gone"]     \* after it was cancelled or cleaned up

Fresh == [is |-> "stored", received |-> {}, pinned |-> FALSE, digest |-> FALSE,
          registered |-> FALSE, reclaimed |-> FALSE, deleted |-> FALSE]

Sessions == [is : {"stored"}, received : SUBSET Chunks, pinned : BOOLEAN, digest : BOOLEAN,
             registered : BOOLEAN, reclaimed : BOOLEAN, deleted : BOOLEAN]

Requests == [kind : {"chunk"}, chunk : Chunks] \cup [kind : {"complete", "cancel"}]

(* A running request: the await it is at, and the metadata it read when it *)
(* was given the session.                                                  *)
Idle == [pc |-> "idle"]
Jobs == {Idle} \cup [pc : {"body", "replay", "assemble", "register", "receipt", "replayed", "discard"}, meta : Sessions]

FileWorks == {"replay", "register", "discard", "delete", "convert"}

TypeOK ==
    /\ session \in [Uploads -> Sessions \cup {Absent, Gone}]
    /\ parts \in [Uploads -> SUBSET Chunks]
    /\ expired \in [Uploads -> BOOLEAN]
    /\ file \in [Uploads -> BOOLEAN]
    /\ record \in [Uploads -> {"none", "plain", "linked"}]
    /\ requests \in [Uploads -> Seq(Requests)]
    /\ job \in [Uploads -> Jobs]
    /\ fileWork \in [Uploads -> Seq(FileWorks)]
    /\ added \in [Uploads -> BOOLEAN] /\ asked \in [Uploads -> BOOLEAN]

Init ==
    /\ session = [u \in Uploads |-> Absent]
    /\ parts = [u \in Uploads |-> {}]
    /\ expired = [u \in Uploads |-> FALSE]
    /\ file = [u \in Uploads |-> FALSE]
    /\ record = [u \in Uploads |-> "none"]
    /\ requests = [u \in Uploads |-> <<>>]
    /\ job = [u \in Uploads |-> Idle]
    /\ fileWork = [u \in Uploads |-> <<>>]
    /\ added = [u \in Uploads |-> FALSE] /\ asked = [u \in Uploads |-> FALSE]

------------------------------------------------------------------------------
(* Sessions                                                                *)

Stored(u) == session[u].is = "stored"

(* assertNotRetired: the metadata is read again.                           *)
Retired(u) == ~Stored(u) \/ session[u].deleted

(* A session counts against the quota until its chunks are reclaimed.      *)
Active(u) == Stored(u) /\ ~(session[u].reclaimed /\ (session[u].registered \/ session[u].deleted))

(* cleanup(): expired sessions that no accepted request owns are removed.  *)
Reclaimable == {u \in Uploads : Stored(u) /\ expired[u] /\ requests[u] = <<>>}

Remove(U, base) ==
    /\ session' = [u \in Uploads |-> IF u \in U THEN Gone ELSE base[u]]
    /\ parts' = [u \in Uploads |-> IF u \in U THEN {} ELSE parts[u]]

Cleanup ==
    /\ Reclaimable # {}
    /\ Remove(Reclaimable, session)
    /\ UNCHANGED <<expired, library, locks, asked>>

(* create(): cleans up, refuses what exceeds the owner's quota, and        *)
(* publishes the new session with one rename.                              *)
Create(u) ==
    /\ session[u] = Absent
    /\ Cardinality({v \in Uploads \ Reclaimable : Active(v)}) < Quota
    /\ Remove(Reclaimable, [session EXCEPT ![u] = Fresh])
    /\ UNCHANGED <<expired, library, locks, asked>>

(* The clock: a session that is not written for its time to live.          *)
Expire(u) ==
    /\ Stored(u) /\ ~expired[u]
    /\ expired' = [expired EXCEPT ![u] = TRUE]
    /\ UNCHANGED <<session, parts, library, locks, asked>>

------------------------------------------------------------------------------
(* Ownership of a session and of a file                                    *)

(* A request is accepted: it joins the queue of its session.               *)
Accept(u, r) ==
    /\ session[u] # Absent /\ Len(requests[u]) < MaxRequests
    /\ requests' = [requests EXCEPT ![u] = Append(@, r)]
    /\ UNCHANGED <<store, library, job, fileWork, asked>>

(* An operator's work on the file joins the queue of the file.             *)
AcceptFileWork(u, kind) ==
    /\ session[u] # Absent /\ Len(fileWork[u]) < MaxRequests
    /\ fileWork' = [fileWork EXCEPT ![u] = Append(@, kind)]
    /\ asked' = [asked EXCEPT ![u] = @ \/ kind = "delete"]
    /\ UNCHANGED <<store, library, requests, job>>

Ready(u, kind) == requests[u] # <<>> /\ job[u] = Idle /\ Head(requests[u]).kind = kind

OwnsFile(u, kind) == fileWork[u] # <<>> /\ Head(fileWork[u]) = kind

Finish(u) ==
    /\ requests' = [requests EXCEPT ![u] = Tail(@)]
    /\ job' = [job EXCEPT ![u] = Idle]

GoOn(u, pc, meta) ==
    /\ job' = [job EXCEPT ![u] = [pc |-> pc, meta |-> meta]]
    /\ UNCHANGED requests

(* The request waits for the file, behind the work already accepted.       *)
WaitForFile(u, pc, meta, queue) ==
    /\ GoOn(u, pc, meta)
    /\ fileWork' = [fileWork EXCEPT ![u] = Append(queue, pc)]

------------------------------------------------------------------------------
(* Chunks                                                                  *)

(* _putChunk before its await: the session is gone, or the chunk is there  *)
(* already, or its body is read into a temporary file.                     *)
PutChunk(u) ==
    /\ Ready(u, "chunk")
    /\ IF Stored(u) /\ Head(requests[u]).chunk \notin session[u].received
       THEN GoOn(u, "body", session[u])
       ELSE Finish(u)
    /\ UNCHANGED <<store, library, fileWork, asked>>

(* The body has arrived.  It is verified (n = 0: it was not), renamed, and *)
(* recorded in the metadata that was read before.                          *)
ChunkArrives(u, n) ==
    /\ job[u].pc = "body"
    /\ LET c == Head(requests[u]).chunk
           meta == [job[u].meta EXCEPT !.received = @ \cup {c}]
       IN /\ parts' = IF n >= 1 THEN [parts EXCEPT ![u] = @ \cup {c}] ELSE parts
          /\ session' = IF n = 2 THEN [session EXCEPT ![u] = meta] ELSE session
          /\ expired' = [expired EXCEPT ![u] = @ /\ n < 2]
    /\ Finish(u)
    /\ UNCHANGED <<library, fileWork, asked>>

------------------------------------------------------------------------------
(* Completion                                                              *)

(* _assemble before its first await (pinned: the save of the name was      *)
(* made): a verified digest is replayed, complete parts are assembled.     *)
Complete(u, pinned) ==
    /\ Ready(u, "complete")
    /\ LET meta == [session[u] EXCEPT !.pinned = TRUE]
       IN IF Retired(u) \/ ~pinned
          THEN Finish(u) /\ UNCHANGED <<session, fileWork>>
          ELSE /\ session' = [session EXCEPT ![u] = meta]
               /\ \/ meta.digest /\ WaitForFile(u, "replay", meta, fileWork[u])
                  \/ ~meta.digest /\ meta.received = Chunks /\ GoOn(u, "assemble", meta) /\ UNCHANGED fileWork
                  \/ ~meta.digest /\ meta.received # Chunks /\ Finish(u) /\ UNCHANGED fileWork
    /\ UNCHANGED <<parts, expired, library, asked>>

(* replay() owns the file.  The library may have the upload and its file;  *)
(* an upload that was never registered is assembled again; a record of     *)
(* another identity, or a registered upload that is not there, is an error.*)
Replay(u) ==
    /\ OwnsFile(u, "replay")
    /\ fileWork' = [fileWork EXCEPT ![u] = Tail(@)]
    /\ LET meta == job[u].meta
       IN IF record[u] = "linked" /\ file[u]
          THEN GoOn(u, "replayed", meta)
          ELSE IF record[u] # "plain" /\ ~Retired(u) /\ ~meta.registered /\ meta.received = Chunks
               THEN GoOn(u, "assemble", meta)
               ELSE Finish(u)
    /\ UNCHANGED <<store, library, asked>>

(* The parts are read into a temporary file.  Unless one is missing, the   *)
(* content does not verify, or the upload was retired meanwhile (n = 0),   *)
(* it gets its name (n = 1) and its digest is saved (n = 2).               *)
Assemble(u, n) ==
    /\ job[u].pc = "assemble"
    /\ n > 0 => ~Retired(u) /\ parts[u] = Chunks
    /\ LET meta == [job[u].meta EXCEPT !.digest = TRUE]
       IN /\ file' = [file EXCEPT ![u] = @ \/ n > 0]
          /\ session' = IF n = 2 THEN [session EXCEPT ![u] = meta] ELSE session
          /\ CASE n = 0 -> Finish(u) /\ UNCHANGED fileWork
               [] n = 1 -> WaitForFile(u, "discard", meta, fileWork[u])
               [] n = 2 -> WaitForFile(u, "register", meta, fileWork[u])
    /\ UNCHANGED <<parts, expired, record, added, asked>>

(* registerUploadedMedia owns the file, and keeps it while a document is   *)
(* converted.  The library accepts its record, or not; an error after that *)
(* is raised all the same.                                                 *)
Register(u, accepted, failed) ==
    /\ OwnsFile(u, "register")
    /\ accepted => file[u]
    /\ ~accepted => failed
    /\ record' = [record EXCEPT ![u] = IF accepted THEN "linked" ELSE @]
    /\ added' = [added EXCEPT ![u] = @ \/ accepted]
    /\ IF failed
       THEN WaitForFile(u, "discard", job[u].meta, Tail(fileWork[u]))
       ELSE GoOn(u, "receipt", job[u].meta) /\ fileWork' = [fileWork EXCEPT ![u] = Tail(@)]
    /\ UNCHANGED <<store, file, asked>>

(* finishReceipt: registered is saved, the parts are removed, reclaimed is *)
(* saved, unless the upload was retired since the file was given up.  An   *)
(* error goes to the catch of the assembly; a replay is not in it.         *)
FinishReceipt(u, n) ==
    /\ job[u].pc \in {"receipt", "replayed"}
    /\ Retired(u) => n = 0
    /\ LET meta == [job[u].meta EXCEPT !.registered = TRUE]
       IN /\ session' = [session EXCEPT ![u] = IF n = 3 THEN [meta EXCEPT !.reclaimed = TRUE]
                                               ELSE IF n > 0 THEN meta ELSE @]
          /\ parts' = [parts EXCEPT ![u] = IF n >= 2 THEN {} ELSE @]
          /\ expired' = [expired EXCEPT ![u] = @ /\ (n = 0 \/ job[u].meta.registered)]
    /\ IF n < 3 /\ job[u].pc = "receipt"
       THEN WaitForFile(u, "discard", job[u].meta, fileWork[u])
       ELSE Finish(u) /\ UNCHANGED fileWork
    /\ UNCHANGED <<library, asked>>

DiscardAnyway(u) ==
    /\ OwnsFile(u, "discard")
    /\ file' = [file EXCEPT ![u] = FALSE]
    /\ fileWork' = [fileWork EXCEPT ![u] = Tail(@)]
    /\ Finish(u)
    /\ UNCHANGED <<store, record, added, asked>>

(* discard() owns the file: what the library has accepted is kept.         *)
Discard(u) ==
    /\ OwnsFile(u, "discard")
    /\ file' = [file EXCEPT ![u] = @ /\ record[u] # "none"]
    /\ fileWork' = [fileWork EXCEPT ![u] = Tail(@)]
    /\ Finish(u)
    /\ UNCHANGED <<store, record, added, asked>>

(* cancel(): the session is removed; what the library has is left there.   *)
Cancel(u) ==
    /\ Ready(u, "cancel")
    /\ IF Stored(u) THEN Remove({u}, session) ELSE UNCHANGED <<session, parts>>
    /\ Finish(u)
    /\ UNCHANGED <<expired, library, fileWork, asked>>

------------------------------------------------------------------------------
(* The library                                                             *)

(* DELETE of a media file, which owns the file.  An upload's session is    *)
(* retired first (n = 1: marked deleted, 2: its parts removed, 3: marked   *)
(* reclaimed), then the file is removed (4), then the record (5).          *)
Delete(u, n) ==
    /\ OwnsFile(u, "delete")
    /\ fileWork' = [fileWork EXCEPT ![u] = Tail(@)]
    /\ LET retires == record[u] = "linked" /\ Stored(u)
           marked == [session[u] EXCEPT !.deleted = TRUE]
       IN /\ retires \/ n >= 3
          /\ session' = IF ~retires \/ n = 0 THEN session
                        ELSE [session EXCEPT ![u] = IF n >= 3 THEN [marked EXCEPT !.reclaimed = TRUE] ELSE marked]
          /\ parts' = [parts EXCEPT ![u] = IF retires /\ n >= 2 THEN {} ELSE @]
    /\ file' = [file EXCEPT ![u] = @ /\ n < 4]
    /\ record' = [record EXCEPT ![u] = IF n = 5 THEN "none" ELSE @]
    /\ UNCHANGED <<expired, added, requests, job, asked>>

(* Conversion on request owns the file: a file without a record gets one,  *)
(* which does not name the upload.                                         *)
Convert(u) ==
    /\ OwnsFile(u, "convert")
    /\ fileWork' = [fileWork EXCEPT ![u] = Tail(@)]
    /\ record' = [record EXCEPT ![u] = IF file[u] /\ @ = "none" THEN "plain" ELSE @]
    /\ UNCHANGED <<store, file, added, requests, job, asked>>

(* The process ends, at any await, and starts again: the queues are in     *)
(* memory, everything else is on disk.                                     *)
Restart ==
    /\ requests' = [u \in Uploads |-> <<>>]
    /\ job' = [u \in Uploads |-> Idle]
    /\ fileWork' = [u \in Uploads |-> <<>>]
    /\ UNCHANGED <<store, library, asked>>

------------------------------------------------------------------------------
RequestStep(u) ==
    \/ PutChunk(u)
    \/ \E n \in 0..2 : ChunkArrives(u, n)
    \/ \E pinned \in BOOLEAN : Complete(u, pinned)
    \/ \E n \in 0..2 : Assemble(u, n)
    \/ \E n \in 0..3 : FinishReceipt(u, n)
    \/ Cancel(u)

FileStep(u) ==
    \/ Replay(u)
    \/ \E accepted, failed \in BOOLEAN : Register(u, accepted, failed)
    \/ Discard(u)
    \/ \E n \in 0..5 : Delete(u, n)
    \/ Convert(u)

Next ==
    \/ Cleanup
    \/ Restart
    \/ \E u \in Uploads :
          \/ Create(u)
          \/ Expire(u)
          \/ \E r \in Requests : Accept(u, r)
          \/ \E kind \in {"delete", "convert"} : AcceptFileWork(u, kind)
          \/ RequestStep(u)
          \/ FileStep(u)

Spec == Init /\ [][Next]_vars

(* The operations go on: a body ends or its connection is closed, files    *)
(* are read, a converter has a deadline.                                   *)
Fairness == \A u \in Uploads : WF_vars(RequestStep(u)) /\ WF_vars(FileStep(u))

FairSpec == Spec /\ Fairness

------------------------------------------------------------------------------
(* The chunks that the store has acknowledged are on disk as long as the   *)
(* upload is neither registered nor deleted, whatever failed or stopped    *)
(* between publishing its file and its receipt; and chunks that are on     *)
(* disk count against the owner's quota (_assemble, finishReceipt, retire).*)
PartsAreAccounted ==
    \A u \in Uploads :
        /\ Stored(u) /\ ~session[u].registered /\ ~session[u].deleted => session[u].received \subseteq parts[u]
        /\ parts[u] # {} => Active(u)

(* What the library promises of an upload: it is listed at most once, and  *)
(* once listed it goes only because an operator asked for it, for good.    *)
Library == INSTANCE LibraryItem WITH
    item <- [u \in Uploads |-> IF record[u] = "linked" /\ file[u] THEN "listed"
                               ELSE IF added[u] THEN "gone" ELSE "never"]

KeepsLibraryPromise == Library!Spec

(* A request that owns its session gives it up, although a deletion owns   *)
(* the file it waits for: no lock is awaited by the owner of the other.    *)
RequestsEnd == \A u \in Uploads : job[u] # Idle ~> job[u] = Idle

------------------------------------------------------------------------------
(* Why these hold: the inductive invariant of HubServicesProofs.           *)

(* A request at work waits for the file at most once, and nothing else     *)
(* waits in its name.                                                      *)
WaitsForItself(u) ==
    \A i \in DOMAIN fileWork[u] :
        fileWork[u][i] \in {"replay", "register", "discard"} =>
            /\ job[u].pc = fileWork[u][i]
            /\ \A j \in DOMAIN fileWork[u] : fileWork[u][j] = fileWork[u][i] => j = i

(* What was assembled, registered or deleted had all its chunks.           *)
WholeOnceAssembled(u) ==
    Stored(u) =>
        /\ session[u].digest \/ session[u].registered \/ session[u].deleted => session[u].received = Chunks
        /\ session[u].reclaimed => session[u].registered \/ session[u].deleted
        /\ record[u] = "linked" => session[u].digest

(* A request at work has its session; what it read of it is current, but   *)
(* for a deletion's mark.  Nothing was listed while it is still assembled. *)
OwnsSession(u) ==
    job[u] # Idle =>
        /\ requests[u] # <<>> /\ Stored(u)
        /\ job[u].pc # "discard" => session[u].deleted \/ session[u] = job[u].meta
        /\ job[u].pc \in {"body", "assemble", "register"} => ~session[u].deleted /\ record[u] # "linked"
        /\ job[u].pc = "register" => job[u].meta.digest
        /\ job[u].pc \in {"replay", "replayed", "assemble", "receipt"} => job[u].meta.received = Chunks
        /\ job[u].pc = "body" => Head(requests[u]).kind = "chunk" /\ job[u].meta.received # Chunks

(* What was listed is there until its session is retired; only operators   *)
(* delete.                                                                 *)
ListedUntilDeleted(u) ==
    /\ record[u] = "linked" => added[u]
    /\ added[u] /\ Stored(u) /\ ~session[u].deleted => record[u] = "linked" /\ file[u]
    /\ \A i \in DOMAIN fileWork[u] : fileWork[u][i] = "delete" => asked[u]
    /\ session[u] = Absent => requests[u] = <<>> /\ fileWork[u] = <<>> /\ record[u] = "none" /\ ~added[u]

UploadsInv ==
    /\ TypeOK /\ PartsAreAccounted
    /\ \A u \in Uploads :
         WaitsForItself(u) /\ WholeOnceAssembled(u) /\ OwnsSession(u) /\ ListedUntilDeleted(u)

==============================================================================
