----------------------------- MODULE Documents -----------------------------
(***************************************************************************)
(* Sanad's documents: the metadata database (sanad/db.py), the object      *)
(* store (sanad/storage.py) and the vector store (sanad/rag), and the      *)
(* routes of sanad/api/app.py that change or join them.  One action per    *)
(* call of a store; what a request still needs of what it has read is in   *)
(* loc.  The stores survive a restart, the requests do not.  The columns   *)
(* of a document's row never change: rows keeps them when the row is gone, *)
(* for the requests that have read it.                                     *)
(*                                                                         *)
(* upload_document is a coroutine that does not await once it has read the *)
(* file: while it runs, no other request begins.  All other routes run in  *)
(* threads, and so do the background jobs.                                 *)
(***************************************************************************)
EXTENDS Naturals, FiniteSetsExt

CONSTANTS
    Requests,       \* requests in progress at a time
    Users,
    Admins,         \* SANAD_ADMIN_USERS
    Nobody,         \* owner of a document without one, caller when auth is off
    AuthEnabled,
    Textless,       \* documents in which no text is found
    OldDocs,        \* how many documents date from before owners and versions
    MaxDocs,        \* bound: documents, failed uploads included
    MaxComments     \* bound: comments

ASSUME DocumentsAssumption ==
    /\ Admins \subseteq Users /\ Nobody \notin Users
    /\ IsFiniteSet(Requests) /\ Requests # {}
    /\ AuthEnabled \in BOOLEAN
    /\ Textless \subseteq Nat
    /\ MaxDocs \in Nat /\ OldDocs \in 0..MaxDocs /\ MaxComments \in Nat

\* A doc_id is a fresh uuid: documents are named in the order of their uploads.
Doc     == 1..MaxDocs
Comment == 1..MaxComments
NULL    == 0

VARIABLES
    present,    \* table documents: the doc_ids
    rows,       \* table documents: the other columns
    comments,   \* table comments
    objects,    \* files in the object store
    vectors,    \* documents with chunks in the vector store
    created,    \* doc_ids drawn so far
    commented,  \* comment_ids drawn so far
    pc, loc,    \* per request: its next call, and its local variables
    saved,      \* history: documents whose row has been saved
    asked       \* history: documents whose deletion has been accepted

stores  == <<present, rows, comments, objects, vectors>>
history == <<saved, asked>>
vars == <<stores, created, commented, pc, loc, history>>

Owner == Users \cup {Nobody}

\* The version columns of an old row are NULL.
Row    == [owner : Owner, group : Doc \cup {NULL}, number : Nat]
OldRow == [owner |-> Nobody, group |-> NULL, number |-> NULL]

\* Documents that have chunks.
Chunked == Doc \ Textless

\* late: history, whether the document was gone when the comment was stored.
CommentRow == [doc : Doc, author : Owner, late : BOOLEAN]
NoComment  == [doc |-> NULL, author |-> Nobody, late |-> FALSE]

Uploading   == {"number", "saveObject", "ingest", "saveRow"}
Deleting    == {"deleteVectors", "deleteObject", "deleteRow"}
OnComments  == {"addComment", "findComment", "deleteComment"}
OnJobs      == {"jobQueued", "computing"}
PC == {"idle"} \cup Uploading \cup Deleting \cup OnComments \cup OnJobs

Local == [user : Owner, doc : Doc \cup {NULL}, group : Doc \cup {NULL}, number : Nat,
          comment : Comment \cup {NULL}]

NoLocal == [user |-> Nobody, doc |-> NULL, group |-> NULL, number |-> 0,
            comment |-> NULL]

TypeOK ==
    /\ present \subseteq saved
    /\ rows \in [Doc -> Row]
    /\ comments \in [Comment -> CommentRow \cup {NoComment}]
    /\ objects \subseteq Doc
    /\ vectors \subseteq Doc
    /\ created \in 0..MaxDocs
    /\ commented \in 0..MaxComments
    /\ pc \in [Requests -> PC]
    /\ loc \in [Requests -> Local]
    /\ saved \subseteq Doc
    /\ asked \subseteq saved

-----------------------------------------------------------------------------
(* Access *)

\* require_user: who may make a request at all.
Callers == IF AuthEnabled THEN Users ELSE {Nobody}

IsAdmin(u) == u \in Admins

\* _can_access: a document without an owner is everybody's.
CanAccess(row, u) ==
    \/ ~AuthEnabled
    \/ row.owner = Nobody
    \/ row.owner = u
    \/ IsAdmin(u)

\* _get_record: otherwise the request ends with 404.
Finds(u, d) == d \in present /\ CanAccess(rows[d], u)

\* _row_to_record: a row from before the version columns is a chain of its own.
GroupOf(d)  == IF rows[d].group = NULL THEN d ELSE rows[d].group
NumberOf(d) == IF rows[d].number = NULL THEN 1 ELSE rows[d].number

\* list_version_group, as a set.
VersionGroup(g) == {d \in present : rows[d].group = g \/ (rows[d].group = NULL /\ d = g)}

-----------------------------------------------------------------------------
At(r, here) == pc[r] = here
Goto(r, there) == pc' = [pc EXCEPT ![r] = there]

\* The request ends, with an answer or an error.
Return(r) ==
    /\ pc'  = [pc EXCEPT ![r] = "idle"]
    /\ loc' = [loc EXCEPT ![r] = NoLocal]

\* The event loop can begin a request: it is not inside an upload.
LoopFree == \A r \in Requests : pc[r] \notin Uploading

\* A request of user u about document d begins: its lookup succeeds.
Begins(r, u, d) == At(r, "idle") /\ LoopFree /\ Finds(u, d)

Remember(r, u, d, c) ==
    loc' = [loc EXCEPT ![r] = [NoLocal EXCEPT !.user = u, !.doc = d, !.comment = c]]

(***************************************************************************)
(* A system upgraded from before owners and versions, or a new one.        *)
(***************************************************************************)
Init ==
    /\ created = OldDocs
    /\ present = 1..created
    /\ rows = [d \in Doc |-> OldRow]
    /\ objects = present /\ vectors = present \ Textless /\ saved = present
    /\ comments = [c \in Comment |-> NoComment]
    /\ commented = 0
    /\ pc = [r \in Requests |-> "idle"]
    /\ loc = [r \in Requests |-> NoLocal]
    /\ asked = {}

-----------------------------------------------------------------------------
(* upload_document *)

\* A new document, or a new version of one that the caller can see.
StartUpload(r) ==
    /\ At(r, "idle") /\ LoopFree
    /\ created < MaxDocs
    /\ \E u \in Callers :
          \/ /\ loc' = [loc EXCEPT ![r] = [NoLocal EXCEPT !.user = u, !.number = 1]]
             /\ Goto(r, "saveObject")
          \/ \E prior \in Doc :
                /\ Finds(u, prior)
                /\ loc' = [loc EXCEPT ![r] = [NoLocal EXCEPT !.user = u, !.group = GroupOf(prior)]]
                /\ Goto(r, "number")
    /\ UNCHANGED <<stores, created, commented, history>>

\* MUTANT of NextNumber: versions are counted.
NextNumber_Counted(g) == Cardinality(VersionGroup(g)) + 1

NextNumber(g) == Max({NumberOf(d) : d \in VersionGroup(g)}) + 1

\* The chain is read a second time; if it is empty by now, max() raises.
NumberVersion(r) ==
    /\ At(r, "number")
    /\ \/ /\ VersionGroup(loc[r].group) = {}
          /\ Return(r)
       \/ /\ VersionGroup(loc[r].group) # {}
          /\ loc' = [loc EXCEPT ![r].number = NextNumber(loc[r].group)]
          /\ Goto(r, "saveObject")
    /\ UNCHANGED <<stores, created, commented, history>>

\* MUTANT of SaveObject: the file is stored before its doc_id is drawn.
SaveObject_TooEarly(r) ==
    /\ At(r, "saveObject")
    /\ created' = created + 1
    /\ objects' = objects \cup {loc[r].doc}
    /\ loc' = [loc EXCEPT ![r].doc = created']
    /\ Goto(r, "ingest")
    /\ UNCHANGED <<present, rows, comments, vectors, commented, history>>

\* A doc_id is drawn, object_store.save.
SaveObject(r) ==
    /\ At(r, "saveObject")
    /\ created' = created + 1
    /\ objects' = objects \cup {created'}
    /\ loc' = [loc EXCEPT ![r].doc = created']
    /\ Goto(r, "ingest")
    /\ UNCHANGED <<present, rows, comments, vectors, commented, history>>

\* MUTANT of Ingest: what goes wrong with the chunks is only logged.
Ingest_BestEffort(r) ==
    /\ At(r, "ingest")
    /\ vectors' \in {vectors, vectors \cup {loc[r].doc}}
    /\ Goto(r, "saveRow")
    /\ UNCHANGED <<present, rows, comments, objects, created, commented, loc, history>>

\* ingest_document: extract, chunk, and add_document, which ignores an empty document.
Ingest(r) ==
    /\ At(r, "ingest")
    /\ vectors' = vectors \cup ({loc[r].doc} \cap Chunked)
    /\ Goto(r, "saveRow")
    /\ UNCHANGED <<present, rows, comments, objects, created, commented, loc, history>>

\* from_ingested, save_document: without a group the document starts its own.
SaveRow(r) ==
    /\ At(r, "saveRow")
    /\ LET d == loc[r].doc IN
       /\ present' = present \cup {d}
       /\ rows' = [rows EXCEPT ![d] =
              [owner  |-> loc[r].user,
               group  |-> IF loc[r].group = NULL THEN d ELSE loc[r].group,
               number |-> loc[r].number]]
       /\ saved' = saved \cup {d}
    /\ Return(r)
    /\ UNCHANGED <<comments, objects, vectors, created, commented, asked>>

-----------------------------------------------------------------------------
(* delete_document *)

\* MUTANT of StartDelete: the row goes first, so that nobody finds the document.
StartDelete_RowFirst(r) ==
    \E u \in Callers, d \in Doc :
        /\ Begins(r, u, d) /\ Remember(r, Nobody, d, NULL) /\ Goto(r, "deleteVectors")
        /\ present' = present \ {d}
        /\ asked' = asked \cup {d}
        /\ UNCHANGED <<rows, comments, objects, vectors, created, commented, saved>>

StartDelete(r) ==
    \E u \in Callers, d \in Doc :
        /\ Begins(r, u, d) /\ Remember(r, Nobody, d, NULL) /\ Goto(r, "deleteVectors")
        /\ asked' = asked \cup {d}
        /\ UNCHANGED <<stores, created, commented, saved>>

DeleteVectors(r) ==
    /\ At(r, "deleteVectors")
    /\ vectors' = vectors \ {loc[r].doc}
    /\ Goto(r, "deleteObject")
    /\ UNCHANGED <<present, rows, comments, objects, created, commented, loc, history>>

\* object_store.delete, which does not mind a file that is gone.
DeleteObject(r) ==
    /\ At(r, "deleteObject")
    /\ objects' = objects \ {loc[r].doc}
    /\ Goto(r, "deleteRow")
    /\ UNCHANGED <<present, rows, comments, vectors, created, commented, loc, history>>

\* MUTANT of WithoutCommentsOn: the comments stay.
WithoutCommentsOn_None(d) == comments

WithoutCommentsOn(d) ==
    [c \in Comment |-> IF comments[c].doc = d THEN NoComment ELSE comments[c]]

\* db.delete_document: the row and the comments in one transaction.
DeleteRow(r) ==
    /\ At(r, "deleteRow")
    /\ present' = present \ {loc[r].doc}
    /\ comments' = WithoutCommentsOn(loc[r].doc)
    /\ Return(r)
    /\ UNCHANGED <<rows, objects, vectors, created, commented, history>>

-----------------------------------------------------------------------------
(* comments *)

\* The bound on new comments, counting those under way.
MayComment == commented + Cardinality({r \in Requests : At(r, "addComment")}) < MaxComments

\* add_comment: a document without chunks has no clause to comment on (400).
StartComment(r) ==
    \E u \in Callers, d \in Doc :
        /\ Begins(r, u, d) /\ Remember(r, u, d, NULL) /\ Goto(r, "addComment")
        /\ d \in Chunked
        /\ MayComment
        /\ UNCHANGED <<stores, created, commented, history>>

AddComment(r) ==
    /\ At(r, "addComment")
    /\ commented' = commented + 1
    /\ comments' = [comments EXCEPT ![commented'] =
           [doc    |-> loc[r].doc,
            author |-> loc[r].user,
            late   |-> loc[r].doc \notin present]]
    /\ Return(r)
    /\ UNCHANGED <<present, rows, objects, vectors, created, history>>

\* delete_comment: the document, whose owner the request remembers ...
StartUncomment(r) ==
    \E u \in Callers, d \in Doc, c \in Comment :
        /\ c <= commented
        /\ Begins(r, u, d) /\ Remember(r, u, d, c) /\ Goto(r, "findComment")
        /\ UNCHANGED <<stores, created, commented, history>>

\* ... the comment, which must be on it and the caller's to delete (404, 403) ...
FindComment(r) ==
    /\ At(r, "findComment")
    /\ LET comment == comments[loc[r].comment] IN
       IF /\ comment.doc = loc[r].doc
          /\ \/ ~AuthEnabled
             \/ comment.author = loc[r].user
             \/ rows[loc[r].doc].owner = loc[r].user
             \/ IsAdmin(loc[r].user)
       THEN Goto(r, "deleteComment") /\ Remember(r, Nobody, NULL, loc[r].comment)
       ELSE Return(r)
    /\ UNCHANGED <<stores, created, commented, history>>

\* ... and its deletion.
DeleteComment(r) ==
    /\ At(r, "deleteComment")
    /\ comments' = [comments EXCEPT ![loc[r].comment] = NoComment]
    /\ Return(r)
    /\ UNCHANGED <<present, rows, objects, vectors, created, commented, history>>

-----------------------------------------------------------------------------
(* Background jobs: overview, obligations, review.  The job holds the      *)
(* doc_id and the user, and looks the document up again when it runs.      *)

StartJob(r) ==
    \E u \in Callers, d \in Doc :
        /\ Begins(r, u, d) /\ Remember(r, u, d, NULL) /\ Goto(r, "jobQueued")
        /\ UNCHANGED <<stores, created, commented, history>>

\* The job looks the document up again, once, before it computes.
RunJob(r) ==
    /\ At(r, "jobQueued")
    /\ IF Finds(loc[r].user, loc[r].doc)
       THEN Goto(r, "computing") /\ Remember(r, Nobody, NULL, NULL)
       ELSE Return(r)
    /\ UNCHANGED <<stores, created, commented, history>>

\* The job needs nothing but the text it has read.
EndJob(r) ==
    /\ At(r, "computing")
    /\ Return(r)
    /\ UNCHANGED <<stores, created, commented, history>>

-----------------------------------------------------------------------------
\* A store, the extraction or the language model raises: the request ends with
\* an error, and what it has done stays done.  A restart ends all of them.
Fails(r) ==
    /\ ~At(r, "idle")
    /\ Return(r)
    /\ UNCHANGED <<stores, created, commented, history>>

Restart ==
    /\ pc'  = [r \in Requests |-> "idle"]
    /\ loc' = [r \in Requests |-> NoLocal]
    /\ UNCHANGED <<stores, created, commented, history>>

Upload(r)  == StartUpload(r) \/ NumberVersion(r) \/ SaveObject(r) \/ Ingest(r) \/ SaveRow(r)
Delete(r)  == StartDelete(r) \/ DeleteVectors(r) \/ DeleteObject(r) \/ DeleteRow(r)
Discuss(r) == StartComment(r) \/ AddComment(r)
                \/ StartUncomment(r) \/ FindComment(r) \/ DeleteComment(r)
Job(r)     == StartJob(r) \/ RunJob(r) \/ EndJob(r)

Next ==
    \/ \E r \in Requests : Upload(r) \/ Delete(r) \/ Discuss(r) \/ Job(r) \/ Fails(r)
    \/ Restart

Spec == Init /\ [][Next]_vars

-----------------------------------------------------------------------------
Whole(d) == d \in objects /\ (d \in Chunked => d \in vectors)

(***************************************************************************)
(* A document that is listed can be opened and asked about: its file and   *)
(* its chunks are there, unless somebody has asked to delete it - however  *)
(* uploads fail or are cut short, and whatever overlaps them.              *)
(***************************************************************************)
RowsAreBacked == \A d \in present \ asked : Whole(d)

(***************************************************************************)
(* A deletion never leaves behind what nobody can delete any more: as long *)
(* as anything of a document is stored, so is its row, through which the   *)
(* deletion can be asked for again.  Deletions may fail half-way, overlap  *)
(* each other, or be cut short by a restart.                               *)
(***************************************************************************)
DeletionLeavesNothing == (saved \ present) \cap (objects \cup vectors) = {}

(***************************************************************************)
(* In a chain of versions a document that was uploaded later has a higher  *)
(* number, although upload_document takes its number from what is left of  *)
(* the chain while other requests delete from it.                          *)
(***************************************************************************)
VersionsFollowUploads ==
    \A d, e \in present :
        GroupOf(d) = GroupOf(e) /\ d < e => NumberOf(d) < NumberOf(e)

(***************************************************************************)
(* Comments go with their document: those of a document that is gone are   *)
(* only the ones that were stored when it was gone already, by a request   *)
(* that had looked it up before.                                           *)
(***************************************************************************)
CommentsGoWithTheirDocument ==
    \A c \in Comment :
        comments[c] # NoComment /\ comments[c].doc \notin present => comments[c].late

(***************************************************************************)
(* The three stores together implement Library.                            *)
(***************************************************************************)
StateOf(d) ==
    CASE d \in present /\ Whole(d)  -> "whole"
      [] d \in present /\ ~Whole(d) -> "incomplete"
      [] d \in saved \ present      -> "deleted"
      [] OTHER                      -> "absent"

Lib == INSTANCE Library WITH state <- [d \in Doc |-> StateOf(d)]

ImplementsLibrary == Lib!Spec
=============================================================================
