-------------------------- MODULE DocumentsProofs --------------------------
(***************************************************************************)
(* What holds of Documents for any number of requests, users, documents    *)
(* and comments, whichever documents have text.                            *)
(***************************************************************************)
EXTENDS Documents, FiniteSetTheorems, WellFoundedInduction, TLAPS

-----------------------------------------------------------------------------
(* The inductive invariant. *)

Commenting == {r \in Requests : pc[r] = "addComment"}

\* What the requests under way remember has its type, and the new comments fit.
Remembered ==
    /\ IsFiniteSet(Commenting)
    /\ commented + Cardinality(Commenting) <= MaxComments
    /\ \A r \in Requests :
          /\ pc[r] \in Deleting => loc[r].doc \in asked
          /\ pc[r] \in {"addComment", "findComment", "jobQueued"} => loc[r].doc \in Doc
          /\ pc[r] \in {"findComment", "deleteComment"} => loc[r].comment \in Comment

\* One upload at a time, of the newest document, which has no row yet and, once
\* ingested, is whole.
UploadIsFresh ==
    /\ saved \subseteq 1..created
    /\ \A r \in Requests :
          /\ pc[r] \in Uploading => \A s \in Requests : pc[s] \in Uploading => s = r
          /\ pc[r] \in {"number", "saveObject"} => created < MaxDocs
          /\ pc[r] \in {"ingest", "saveRow"} =>
                /\ loc[r].doc = created
                /\ created \in objects \ saved
          /\ pc[r] = "saveRow" => Whole(created)

\* What a deletion has removed stays removed.
DeletionIsFinal ==
    \A r \in Requests :
       /\ pc[r] \in {"deleteObject", "deleteRow"} => loc[r].doc \notin vectors
       /\ pc[r] = "deleteRow" => loc[r].doc \notin objects

Clean == TypeOK /\ Remembered /\ UploadIsFresh

\* The document numbered n, when it is saved, will be the last of its chain.
WillBeLast(r, n) ==
    /\ loc[r].group \in 0..(n - 1)
    /\ loc[r].number \in 1..n
    /\ \A d \in present : GroupOf(d) = loc[r].group => NumberOf(d) < loc[r].number

\* No document has a higher version number than documents were drawn before it.
NumbersGrow ==
    /\ VersionsFollowUploads
    /\ \A d \in saved : GroupOf(d) \in 1..d /\ NumberOf(d) \in 1..d
    /\ \A r \in Requests :
          /\ pc[r] = "number" => loc[r].group \in 1..created
          /\ pc[r] = "saveObject" => WillBeLast(r, created + 1)
          /\ pc[r] \in {"ingest", "saveRow"} => WillBeLast(r, created)

-----------------------------------------------------------------------------
(***************************************************************************)
(* A set of naturals with an upper bound has the maximum that Max names:   *)
(* the distances from the bound have a least element.                      *)
(***************************************************************************)
LEMMA MaxOfBounded ==
    ASSUME NEW n \in Nat, NEW S, S \subseteq 0..n, S # {}
    PROVE  /\ Max(S) \in S
           /\ \A y \in S : Max(S) >= y
  <1> DEFINE R == OpToRel(<, Nat)
             T == {n - x : x \in S}
  <1>1. IsWellFoundedOn(R, Nat)
    BY NatLessThanWellFounded
  <1>2. \A x \in S : x \in 0..n /\ n - x \in Nat
    OBVIOUS
  <1>3. T \subseteq Nat /\ T # {}
    BY <1>2
  <1>4. PICK t \in T : \A u \in T : ~(<<u, t>> \in R)
    <2> HIDE DEF R, T
    <2> QED BY <1>1, <1>3, WFMin
  <1>5. \A u \in T : ~(u < t)
    BY <1>3, <1>4 DEF OpToRel
  <1>6. PICK x \in S : t = n - x
    BY <1>4
  <1>7. \A y \in S : x >= y
    <2> TAKE y \in S
    <2>1. n - y \in T
      OBVIOUS
    <2>2. ~(n - y < n - x)
      BY <1>5, <1>6, <2>1
    <2> HIDE DEF T
    <2> QED BY <1>2, <2>2
  <1>8. QED BY <1>6, <1>7 DEF Max

LEMMA NextNumberIsHigher ==
    ASSUME TypeOK, NumbersGrow, saved \subseteq 1..created,
           NEW g \in 1..created, VersionGroup(g) # {}
    PROVE  /\ NextNumber(g) \in 1..(created + 1)
           /\ \A d \in present : GroupOf(d) = g => NumberOf(d) < NextNumber(g)
  <1> DEFINE S == {NumberOf(d) : d \in VersionGroup(g)}
  <1>1. created \in Nat
    BY DocumentsAssumption DEF TypeOK
  <1>2. \A d \in present : d \in 1..created /\ NumberOf(d) \in 1..created
    BY <1>1 DEF TypeOK, NumbersGrow
  <1>3. \A d \in present : GroupOf(d) = g => d \in VersionGroup(g)
    BY <1>2 DEF GroupOf, VersionGroup, NULL
  <1>4. VersionGroup(g) \subseteq present
    BY DEF VersionGroup
  <1>5. S \subseteq 0..created /\ S # {}
    BY <1>1, <1>2, <1>4
  <1>6. Max(S) \in S /\ \A y \in S : Max(S) >= y
    <2> HIDE DEF S
    <2> QED BY <1>1, <1>5, MaxOfBounded
  <1>7. NextNumber(g) = Max(S) + 1
    BY DEF NextNumber
  <1>8. \A d \in present : GroupOf(d) = g => NumberOf(d) \in S
    BY <1>3
  <1> HIDE DEF S
  <1>9. Max(S) \in 0..created
    BY <1>5, <1>6
  <1>10. NextNumber(g) \in 1..(created + 1)
    BY <1>1, <1>7, <1>9
  <1>11. ASSUME NEW d \in present, GroupOf(d) = g PROVE NumberOf(d) < NextNumber(g)
    <2>1. NumberOf(d) <= Max(S) /\ NumberOf(d) \in 1..created
      BY <1>2, <1>6, <1>8, <1>11
    <2>2. QED BY <1>1, <1>7, <1>9, <2>1
  <1>12. QED BY <1>10, <1>11

-----------------------------------------------------------------------------
(* Types. *)

LEMMA NoLocalType == NoLocal \in Local /\ \A u \in Owner : [NoLocal EXCEPT !.user = u] \in Local
  BY DocumentsAssumption DEF NoLocal, Local, Owner, NULL

LEMMA LocType ==
    ASSUME TypeOK, NEW r \in Requests, NEW x \in Local, loc' = [loc EXCEPT ![r] = x]
    PROVE  /\ loc' \in [Requests -> Local]
           /\ loc'[r] = x
           /\ \A s \in Requests \ {r} : loc'[s] = loc[s]
  BY DEF TypeOK

LEMMA CallersType == Callers \subseteq Owner
  BY DEF Callers, Owner

LEMMA InitClean == Init => Clean
  <1> SUFFICES ASSUME Init PROVE Clean
    OBVIOUS
  <1>1. TypeOK
    BY DocumentsAssumption, NoLocalType
       DEF Init, TypeOK, Doc, Row, OldRow, Owner, NULL, PC
  <1>2. Commenting = {}
    BY DEF Init, Commenting
  <1>3. Remembered
    BY <1>2, FS_EmptySet, DocumentsAssumption
       DEF Init, Remembered, Deleting
  <1>4. UploadIsFresh
    BY DEF Init, UploadIsFresh, Uploading
  <1>5. QED BY <1>1, <1>3, <1>4 DEF Clean

(***************************************************************************)
(* A step after which no more requests are adding comments.                *)
(***************************************************************************)
LEMMA FewerCommenting ==
    ASSUME TypeOK, Remembered, commented' = commented, Commenting' \subseteq Commenting
    PROVE  /\ IsFiniteSet(Commenting')
           /\ commented' + Cardinality(Commenting') <= MaxComments
  <1>1. IsFiniteSet(Commenting') /\ Cardinality(Commenting') <= Cardinality(Commenting)
    BY FS_Subset DEF Remembered
  <1>2. Cardinality(Commenting) \in Nat /\ Cardinality(Commenting') \in Nat
    BY <1>1, FS_CardinalityType DEF Remembered
  <1>3. commented \in Nat /\ MaxComments \in Nat
    BY DocumentsAssumption DEF TypeOK
  <1>4. commented + Cardinality(Commenting) <= MaxComments
    BY DEF Remembered
  <1>5. QED
    BY <1>1, <1>2, <1>3, <1>4

(***************************************************************************)
(* A request that ends changes nothing but its own pc and locals.          *)
(***************************************************************************)
LEMMA ReturnClean ==
    ASSUME Clean, NEW r \in Requests, Return(r),
           UNCHANGED <<stores, created, commented, history>>
    PROVE  Clean'
  <1> USE DEF Clean, Return, stores, history
  <1>1. TypeOK'
    BY NoLocalType DEF TypeOK, PC
  <1>2. /\ pc[r] \in PC /\ pc' = [pc EXCEPT ![r] = "idle"]
        /\ pc'[r] = "idle"
        /\ \A s \in Requests \ {r} : pc'[s] = pc[s] /\ loc'[s] = loc[s]
    BY DEF TypeOK
  <1>3. Commenting' \subseteq Commenting
    BY <1>2 DEF Commenting
  <1>4. Remembered'
    BY <1>2, <1>3, FewerCommenting DEF Remembered, Deleting
  <1>5. UploadIsFresh'
    BY <1>2 DEF UploadIsFresh, Uploading, Whole
  <1>6. QED BY <1>1, <1>4, <1>5

(***************************************************************************)
(* Requests begin one at a time, outside uploads.                          *)
(***************************************************************************)
LEMMA StartUploadClean ==
    ASSUME Clean, NEW r \in Requests, StartUpload(r) PROVE Clean'
  <1> USE DEF Clean, StartUpload, stores, history
  <1>1. PICK u \in Callers :
          \/ /\ loc' = [loc EXCEPT ![r] = [NoLocal EXCEPT !.user = u, !.number = 1]]
             /\ pc' = [pc EXCEPT ![r] = "saveObject"]
          \/ \E prior \in Doc :
                /\ Finds(u, prior)
                /\ loc' = [loc EXCEPT ![r] = [NoLocal EXCEPT !.user = u, !.group = GroupOf(prior)]]
                /\ pc' = [pc EXCEPT ![r] = "number"]
    BY DEF Goto
  <1>2. u \in Owner
    BY CallersType
  <1>3. loc' \in [Requests -> Local]
    <2>1. \A prior \in Doc : GroupOf(prior) \in Doc \cup {NULL}
      BY DEF GroupOf, TypeOK, Row
    <2>2. /\ [NoLocal EXCEPT !.user = u, !.number = 1] \in Local
          /\ \A g \in Doc \cup {NULL} : [NoLocal EXCEPT !.user = u, !.group = g] \in Local
      BY <1>2 DEF NoLocal, Local, NULL
    <2>3. \E x \in Local : loc' = [loc EXCEPT ![r] = x]
      <3>1. CASE loc' = [loc EXCEPT ![r] = [NoLocal EXCEPT !.user = u, !.number = 1]]
        BY <2>2, <3>1
      <3>2. ASSUME NEW prior \in Doc,
                   loc' = [loc EXCEPT ![r] = [NoLocal EXCEPT !.user = u, !.group = GroupOf(prior)]]
            PROVE  \E x \in Local : loc' = [loc EXCEPT ![r] = x]
        BY <2>1, <2>2, <3>2
      <3>3. QED BY <1>1, <3>1, <3>2
    <2>4. QED BY <2>3, LocType
  <1>4. /\ pc' \in [Requests -> PC]
        /\ pc'[r] \in {"number", "saveObject"}
        /\ \A s \in Requests \ {r} : pc'[s] = pc[s] /\ loc'[s] = loc[s]
    BY <1>1 DEF TypeOK, PC, Uploading
  <1>5. TypeOK'
    BY <1>3, <1>4 DEF TypeOK, Row, CommentRow
  <1>6. Commenting' \subseteq Commenting
    BY <1>4 DEF Commenting
  <1>7. Remembered'
    BY <1>4, <1>6, FewerCommenting DEF Remembered, Deleting
  <1>8. UploadIsFresh'
    BY <1>4 DEF UploadIsFresh, Uploading, Whole, LoopFree, At
  <1>9. QED BY <1>5, <1>7, <1>8

LEMMA BeginClean ==
    ASSUME Clean, NEW r \in Requests, NEW u \in Callers, NEW d \in Doc,
           NEW c \in Comment \cup {NULL}, NEW there \in PC \ (Uploading \cup {"idle"}),
           Begins(r, u, d), Goto(r, there),
           \E v \in {u, Nobody} : Remember(r, v, d, c),
           there \in Deleting => asked' = asked \cup {d},
           there \notin Deleting => asked' = asked,
           there = "addComment" => MayComment,
           there = "findComment" => c \in Comment,
           there # "deleteComment",
           UNCHANGED <<stores, created, commented, saved>>
    PROVE  Clean'
  <1> USE DEF Clean, Begins, Goto, Remember, stores, Finds
  <1>1. PICK v \in Owner : Remember(r, v, d, c)
    BY CallersType DEF Owner
  <1>2. /\ loc' \in [Requests -> Local]
        /\ loc'[r].doc = d
        /\ loc'[r].comment = c
    <2> DEFINE x == [NoLocal EXCEPT !.user = v, !.doc = d, !.comment = c]
    <2>1. x \in Local /\ x.doc = d /\ x.comment = c
      BY DocumentsAssumption DEF NoLocal, Local, Owner, NULL
    <2>2. loc' = [loc EXCEPT ![r] = x]
      BY <1>1
    <2> HIDE DEF x
    <2>3. QED BY <2>1, <2>2, LocType
  <1>3. /\ pc' \in [Requests -> PC]
        /\ pc'[r] = there
        /\ pc[r] = "idle"
        /\ \A s \in Requests \ {r} : pc'[s] = pc[s] /\ loc'[s] = loc[s]
    BY DEF TypeOK, At
  <1>4. asked \subseteq asked' /\ asked' \subseteq saved
    BY DEF TypeOK
  <1>5. TypeOK'
    BY <1>2, <1>3, <1>4 DEF TypeOK
  <1>6. /\ IsFiniteSet(Commenting')
        /\ commented' + Cardinality(Commenting') <= MaxComments
    <2>1. CASE there = "addComment"
      <3>1. Commenting' = Commenting \cup {r} /\ r \notin Commenting
        BY <1>3, <2>1 DEF Commenting
      <3>2. commented + Cardinality(Commenting) < MaxComments
        BY <2>1 DEF MayComment, Commenting, At
      <3>3. /\ IsFiniteSet(Commenting')
            /\ Cardinality(Commenting') = Cardinality(Commenting) + 1
        BY <3>1, FS_AddElement DEF Remembered
      <3>4. commented \in Nat /\ MaxComments \in Nat /\ Cardinality(Commenting) \in Nat
        BY FS_CardinalityType, DocumentsAssumption DEF TypeOK, Remembered
      <3>5. QED BY <3>2, <3>3, <3>4
    <2>2. CASE there # "addComment"
      <3>1. Commenting' \subseteq Commenting
        BY <1>3, <2>2 DEF Commenting
      <3>2. QED BY <3>1, FewerCommenting
    <2>3. QED BY <2>1, <2>2
  <1>7. Remembered'
    BY <1>2, <1>3, <1>4, <1>6 DEF Remembered, Deleting
  <1>8. UploadIsFresh'
    BY <1>3 DEF UploadIsFresh, Uploading, Whole, LoopFree
  <1>9. QED BY <1>5, <1>7, <1>8

LEMMA NumberVersionClean ==
    ASSUME Clean, NumbersGrow, NEW r \in Requests, NumberVersion(r) PROVE Clean'
  <1> USE DEF Clean, NumberVersion, stores, history
  <1>1. CASE Return(r)
    BY <1>1, ReturnClean
  <1>2. CASE /\ VersionGroup(loc[r].group) # {}
             /\ loc' = [loc EXCEPT ![r].number = NextNumber(loc[r].group)]
             /\ pc' = [pc EXCEPT ![r] = "saveObject"]
    <2>1. pc[r] = "number" /\ loc[r].group \in 1..created
      BY DEF NumbersGrow, At
    <2>2. NextNumber(loc[r].group) \in Nat
      <3>1. NextNumber(loc[r].group) \in 1..(created + 1)
        BY <1>2, <2>1, NextNumberIsHigher DEF UploadIsFresh
      <3>2. QED BY <3>1, DocumentsAssumption DEF TypeOK
    <2>3. /\ loc' \in [Requests -> Local]
          /\ \A s \in Requests : loc'[s].doc = loc[s].doc /\ loc'[s].comment = loc[s].comment
      BY <1>2, <2>2 DEF TypeOK, Local
    <2>4. /\ pc' \in [Requests -> PC]
          /\ pc'[r] = "saveObject"
          /\ \A s \in Requests \ {r} : pc'[s] = pc[s] /\ loc'[s] = loc[s]
      BY <1>2, <2>3 DEF TypeOK, PC, Uploading
    <2>5. TypeOK'
      BY <2>3, <2>4 DEF TypeOK
    <2>6. Commenting' \subseteq Commenting
      BY <2>4 DEF Commenting
    <2>7. Remembered'
      BY <2>3, <2>4, <2>6, FewerCommenting DEF Remembered, Deleting
    <2>8. UploadIsFresh'
      BY <2>1, <2>4 DEF UploadIsFresh, Uploading, Whole
    <2>9. QED BY <2>5, <2>7, <2>8
  <1>3. QED BY <1>1, <1>2 DEF Goto

LEMMA SaveObjectClean ==
    ASSUME Clean, NEW r \in Requests, SaveObject(r) PROVE Clean'
  <1> USE DEF Clean, SaveObject, Goto, At, history
  <1>1. created \in Nat /\ created' = created + 1 /\ created' \in Doc /\ created' \notin saved
    BY DocumentsAssumption DEF TypeOK, UploadIsFresh, Doc
  <1>2. /\ loc' \in [Requests -> Local]
        /\ loc'[r].doc = created'
        /\ \A s \in Requests \ {r} : loc'[s] = loc[s]
    BY <1>1 DEF TypeOK, Local
  <1>3. /\ pc' \in [Requests -> PC]
        /\ pc[r] = "saveObject" /\ pc'[r] = "ingest"
        /\ \A s \in Requests \ {r} : pc'[s] = pc[s]
    BY DEF TypeOK, PC, Uploading
  <1>4. TypeOK'
    BY <1>1, <1>2, <1>3, DocumentsAssumption DEF TypeOK, UploadIsFresh, Doc
  <1>5. Commenting' \subseteq Commenting
    BY <1>3 DEF Commenting
  <1>6. Remembered'
    BY <1>2, <1>3, <1>4, <1>5, FewerCommenting DEF Remembered, Deleting
  <1>7. UploadIsFresh'
    BY <1>1, <1>2, <1>3 DEF UploadIsFresh, Uploading, Whole
  <1>8. QED BY <1>4, <1>6, <1>7

LEMMA IngestClean ==
    ASSUME Clean, NEW r \in Requests, Ingest(r) PROVE Clean'
  <1> USE DEF Clean, Ingest, Goto, At, history
  <1>1. /\ pc' \in [Requests -> PC]
        /\ pc[r] = "ingest" /\ pc'[r] = "saveRow"
        /\ \A s \in Requests \ {r} : pc'[s] = pc[s]
    BY DEF TypeOK, PC, Uploading
  <1>2. TypeOK'
    BY <1>1 DEF TypeOK, Chunked
  <1>3. Commenting' \subseteq Commenting
    BY <1>1 DEF Commenting
  <1>4. Remembered'
    BY <1>1, <1>3, FewerCommenting DEF Remembered, Deleting
  <1>5. UploadIsFresh'
    BY <1>1 DEF UploadIsFresh, Uploading, Whole
  <1>6. QED BY <1>2, <1>4, <1>5

LEMMA SaveRowClean ==
    ASSUME Clean, NEW r \in Requests, SaveRow(r) PROVE Clean'
  <1> USE DEF Clean, SaveRow, Return, At
  <1>1. pc[r] = "saveRow" /\ loc[r].doc = created /\ created \in Doc
    BY DEF UploadIsFresh, TypeOK
  <1>2. loc' \in [Requests -> Local] /\ \A s \in Requests \ {r} : loc'[s] = loc[s]
    BY NoLocalType DEF TypeOK
  <1>3. /\ pc' \in [Requests -> PC]
        /\ pc'[r] = "idle"
        /\ \A s \in Requests \ {r} : pc'[s] = pc[s]
    BY DEF TypeOK, PC
  <1>4. rows' \in [Doc -> Row]
    BY <1>1 DEF TypeOK, Row, Local
  <1>5. TypeOK'
    BY <1>1, <1>2, <1>3, <1>4 DEF TypeOK
  <1>6. Commenting' \subseteq Commenting
    BY <1>3 DEF Commenting
  <1>7. Remembered'
    BY <1>2, <1>3, <1>6, FewerCommenting DEF Remembered, Deleting
  <1>8. UploadIsFresh'
    <2>1. created \in 1..created
      BY <1>1 DEF Doc
    <2>2. QED BY <1>1, <1>2, <1>3, <2>1 DEF UploadIsFresh, Uploading, Whole
  <1>9. QED BY <1>5, <1>7, <1>8

LEMMA UploadClean ==
    ASSUME Clean, NumbersGrow, NEW r \in Requests, Upload(r) PROVE Clean'
  BY StartUploadClean, NumberVersionClean, SaveObjectClean, IngestClean, SaveRowClean DEF Upload

(***************************************************************************)
(* A deletion goes from store to store.                                    *)
(***************************************************************************)
LEMMA StartDeleteClean ==
    ASSUME Clean, NEW r \in Requests, StartDelete(r) PROVE Clean'
  <1>1. PICK u \in Callers, d \in Doc :
          /\ Begins(r, u, d) /\ Remember(r, Nobody, d, NULL) /\ Goto(r, "deleteVectors")
          /\ asked' = asked \cup {d}
    BY DEF StartDelete
  <1>2. UNCHANGED <<stores, created, commented, saved>>
    BY DEF StartDelete
  <1>3. /\ "deleteVectors" \in Deleting
        /\ "deleteVectors" \in PC \ (Uploading \cup {"idle"})
    BY DEF Deleting, PC, Uploading
  <1>4. QED BY <1>1, <1>2, <1>3, BeginClean

LEMMA DeleteStoresClean ==
    ASSUME Clean, NEW r \in Requests, DeleteVectors(r) \/ DeleteObject(r) PROVE Clean'
  <1> USE DEF Clean, Goto, At, history
  <1>1. /\ pc' \in [Requests -> PC]
        /\ pc[r] \in Deleting /\ pc'[r] \in Deleting
        /\ \A s \in Requests \ {r} : pc'[s] = pc[s]
        /\ UNCHANGED <<present, rows, comments, created, commented, loc, saved, asked>>
    BY DEF TypeOK, PC, Deleting, DeleteVectors, DeleteObject
  <1>2. /\ vectors' \subseteq vectors /\ vectors \ vectors' \subseteq {loc[r].doc}
        /\ objects' \subseteq objects /\ objects \ objects' \subseteq {loc[r].doc}
    BY DEF DeleteVectors, DeleteObject
  <1>3. TypeOK'
    BY <1>1, <1>2 DEF TypeOK
  <1>4. Commenting' \subseteq Commenting
    BY <1>1 DEF Commenting, Deleting
  <1>5. Remembered'
    BY <1>1, <1>4, FewerCommenting DEF Remembered, Deleting
  <1>6. loc[r].doc \in saved
    BY <1>1 DEF Remembered, TypeOK
  <1>7. UploadIsFresh'
    BY <1>1, <1>2, <1>6 DEF UploadIsFresh, Uploading, Deleting, Whole
  <1>8. QED BY <1>3, <1>5, <1>7

LEMMA DeleteRowClean ==
    ASSUME Clean, NEW r \in Requests, DeleteRow(r) PROVE Clean'
  <1> USE DEF Clean, DeleteRow, Return, At, history
  <1>1. loc' \in [Requests -> Local] /\ \A s \in Requests \ {r} : loc'[s] = loc[s]
    BY NoLocalType DEF TypeOK
  <1>2. /\ pc' \in [Requests -> PC]
        /\ pc'[r] = "idle"
        /\ \A s \in Requests \ {r} : pc'[s] = pc[s]
    BY DEF TypeOK, PC
  <1>3. comments' \in [Comment -> CommentRow \cup {NoComment}]
    BY DEF TypeOK, WithoutCommentsOn
  <1>4. TypeOK'
    BY <1>1, <1>2, <1>3 DEF TypeOK
  <1>5. Commenting' \subseteq Commenting
    BY <1>2 DEF Commenting
  <1>6. Remembered'
    BY <1>1, <1>2, <1>5, FewerCommenting DEF Remembered, Deleting
  <1>7. UploadIsFresh'
    BY <1>1, <1>2 DEF UploadIsFresh, Uploading, Whole
  <1>8. QED BY <1>4, <1>6, <1>7

LEMMA DeleteClean ==
    ASSUME Clean, NEW r \in Requests, Delete(r) PROVE Clean'
  BY StartDeleteClean, DeleteStoresClean, DeleteRowClean DEF Delete

(***************************************************************************)
(* Comments.                                                               *)
(***************************************************************************)
LEMMA AddCommentClean ==
    ASSUME Clean, NEW r \in Requests, AddComment(r) PROVE Clean'
  <1> USE DEF Clean, AddComment, Return, At, history
  <1>1. loc' \in [Requests -> Local] /\ \A s \in Requests \ {r} : loc'[s] = loc[s]
    BY NoLocalType DEF TypeOK
  <1>2. /\ pc' \in [Requests -> PC]
        /\ pc[r] = "addComment" /\ pc'[r] = "idle"
        /\ \A s \in Requests \ {r} : pc'[s] = pc[s]
    BY DEF TypeOK, PC
  <1>3. Commenting' = Commenting \ {r} /\ r \in Commenting
    BY <1>2 DEF Commenting
  <1>4. /\ IsFiniteSet(Commenting')
        /\ Cardinality(Commenting') = Cardinality(Commenting) - 1
    BY <1>3, FS_RemoveElement DEF Remembered
  <1>5. Cardinality(Commenting) \in Nat /\ Cardinality(Commenting') \in Nat
    BY <1>4, FS_CardinalityType DEF Remembered
  <1>6. commented \in Nat /\ MaxComments \in Nat
    BY DocumentsAssumption DEF TypeOK
  <1>7. commented + Cardinality(Commenting) <= MaxComments
    BY DEF Remembered
  <1>8. /\ commented' \in Comment
        /\ commented' + Cardinality(Commenting') <= MaxComments
    BY <1>4, <1>5, <1>6, <1>7 DEF Comment
  <1>9. [doc |-> loc[r].doc, author |-> loc[r].user, late |-> loc[r].doc \notin present] \in CommentRow
    <2>1. loc[r].doc \in Doc /\ loc[r].user \in Owner
      BY <1>2 DEF Remembered, TypeOK, Local
    <2>2. (loc[r].doc \notin present) \in BOOLEAN
      OBVIOUS
    <2>3. QED BY <2>1, <2>2 DEF CommentRow
  <1>10. comments' \in [Comment -> CommentRow \cup {NoComment}]
    BY <1>8, <1>9 DEF TypeOK
  <1>11. TypeOK'
    BY <1>1, <1>2, <1>6, <1>8, <1>10 DEF TypeOK, Comment
  <1>12. Remembered'
    BY <1>1, <1>2, <1>4, <1>8 DEF Remembered, Deleting
  <1>13. UploadIsFresh'
    BY <1>1, <1>2 DEF UploadIsFresh, Uploading, Whole
  <1>14. QED BY <1>11, <1>12, <1>13

LEMMA FindCommentClean ==
    ASSUME Clean, NEW r \in Requests, FindComment(r) PROVE Clean'
  <1>1. CASE Return(r)
    BY <1>1, ReturnClean DEF FindComment
  <1>2. CASE Goto(r, "deleteComment") /\ Remember(r, Nobody, NULL, loc[r].comment)
    <2> USE DEF Clean, FindComment, stores, history
    <2>1. pc[r] = "findComment" /\ loc[r].comment \in Comment
      BY DEF At, Remembered
    <2>2. /\ loc' \in [Requests -> Local]
          /\ loc'[r].comment \in Comment
          /\ \A s \in Requests \ {r} : loc'[s] = loc[s]
      <3> DEFINE x == [NoLocal EXCEPT !.user = Nobody, !.doc = NULL, !.comment = loc[r].comment]
      <3>1. x \in Local /\ x.comment = loc[r].comment
        BY <2>1 DEF NoLocal, Local, Owner, NULL
      <3>2. loc' = [loc EXCEPT ![r] = x]
        BY <1>2 DEF Remember
      <3> HIDE DEF x
      <3>3. QED BY <2>1, <3>1, <3>2, LocType
    <2>3. /\ pc' \in [Requests -> PC]
          /\ pc'[r] = "deleteComment"
          /\ \A s \in Requests \ {r} : pc'[s] = pc[s]
      BY <1>2 DEF TypeOK, PC, Goto, OnComments
    <2>4. TypeOK'
      BY <2>2, <2>3 DEF TypeOK
    <2>5. Commenting' \subseteq Commenting
      BY <2>3 DEF Commenting
    <2>6. Remembered'
      BY <2>2, <2>3, <2>5, FewerCommenting DEF Remembered, Deleting
    <2>7. UploadIsFresh'
      BY <2>2, <2>3 DEF UploadIsFresh, Uploading, Whole
    <2>8. QED BY <2>4, <2>6, <2>7
  <1>3. QED BY <1>1, <1>2 DEF FindComment

LEMMA DeleteCommentClean ==
    ASSUME Clean, NEW r \in Requests, DeleteComment(r) PROVE Clean'
  <1> USE DEF Clean, DeleteComment, Return, At, history
  <1>1. loc' \in [Requests -> Local] /\ \A s \in Requests \ {r} : loc'[s] = loc[s]
    BY NoLocalType DEF TypeOK
  <1>2. /\ pc' \in [Requests -> PC]
        /\ pc'[r] = "idle"
        /\ \A s \in Requests \ {r} : pc'[s] = pc[s]
    BY DEF TypeOK, PC
  <1>3. TypeOK'
    BY <1>1, <1>2 DEF TypeOK
  <1>4. Commenting' \subseteq Commenting
    BY <1>2 DEF Commenting
  <1>5. Remembered'
    BY <1>1, <1>2, <1>4, FewerCommenting DEF Remembered, Deleting
  <1>6. UploadIsFresh'
    BY <1>1, <1>2 DEF UploadIsFresh, Uploading, Whole
  <1>7. QED BY <1>3, <1>5, <1>6

LEMMA DiscussClean ==
    ASSUME Clean, NEW r \in Requests, Discuss(r) PROVE Clean'
  <1>1. CASE StartComment(r)
    <2>1. PICK u \in Callers, d \in Doc :
            Begins(r, u, d) /\ Remember(r, u, d, NULL) /\ Goto(r, "addComment") /\ MayComment
      BY <1>1 DEF StartComment
    <2>2. UNCHANGED <<stores, created, commented, history>>
      BY <1>1 DEF StartComment
    <2>3. "addComment" \notin Deleting /\ "addComment" \in PC \ (Uploading \cup {"idle"})
      BY DEF Deleting, PC, Uploading, OnComments
    <2>4. QED BY <2>1, <2>2, <2>3, BeginClean DEF history
  <1>2. CASE StartUncomment(r)
    <2>1. PICK u \in Callers, d \in Doc, c \in Comment :
            Begins(r, u, d) /\ Remember(r, u, d, c) /\ Goto(r, "findComment")
      BY <1>2 DEF StartUncomment
    <2>2. UNCHANGED <<stores, created, commented, history>>
      BY <1>2 DEF StartUncomment
    <2>3. "findComment" \notin Deleting /\ "findComment" \in PC \ (Uploading \cup {"idle"})
      BY DEF Deleting, PC, Uploading, OnComments
    <2>4. QED BY <2>1, <2>2, <2>3, BeginClean DEF history
  <1>3. QED
    BY <1>1, <1>2, AddCommentClean, FindCommentClean, DeleteCommentClean DEF Discuss

(***************************************************************************)
(* Background jobs.                                                        *)
(***************************************************************************)
LEMMA JobClean ==
    ASSUME Clean, NEW r \in Requests, Job(r) PROVE Clean'
  <1>1. CASE StartJob(r)
    <2>1. PICK u \in Callers, d \in Doc :
            Begins(r, u, d) /\ Remember(r, u, d, NULL) /\ Goto(r, "jobQueued")
      BY <1>1 DEF StartJob
    <2>2. UNCHANGED <<stores, created, commented, history>>
      BY <1>1 DEF StartJob
    <2>3. "jobQueued" \notin Deleting /\ "jobQueued" \in PC \ (Uploading \cup {"idle"})
      BY DEF Deleting, PC, Uploading, OnJobs
    <2>4. QED BY <2>1, <2>2, <2>3, BeginClean DEF history
  <1>2. CASE /\ Goto(r, "computing") /\ Remember(r, Nobody, NULL, NULL)
             /\ UNCHANGED <<stores, created, commented, history>>
    <2> USE DEF Clean, stores, history
    <2>1. loc' \in [Requests -> Local] /\ \A s \in Requests \ {r} : loc'[s] = loc[s]
      <3> DEFINE x == [NoLocal EXCEPT !.user = Nobody, !.doc = NULL, !.comment = NULL]
      <3>1. x \in Local
        BY DEF NoLocal, Local, Owner, NULL
      <3>2. loc' = [loc EXCEPT ![r] = x]
        BY <1>2 DEF Remember
      <3> HIDE DEF x
      <3>3. QED BY <3>1, <3>2, LocType
    <2>2. /\ pc' \in [Requests -> PC]
          /\ pc'[r] = "computing"
          /\ \A s \in Requests \ {r} : pc'[s] = pc[s]
      BY <1>2 DEF TypeOK, PC, Goto, OnJobs
    <2>3. TypeOK'
      BY <1>2, <2>1, <2>2 DEF TypeOK
    <2>4. Commenting' \subseteq Commenting
      BY <2>2 DEF Commenting
    <2>5. Remembered'
      BY <1>2, <2>1, <2>2, <2>4, FewerCommenting DEF Remembered, Deleting
    <2>6. UploadIsFresh'
      BY <1>2, <2>1, <2>2 DEF UploadIsFresh, Uploading, Whole
    <2>7. QED BY <2>3, <2>5, <2>6
  <1>3. CASE /\ Return(r)
             /\ UNCHANGED <<stores, created, commented, history>>
    BY <1>3, ReturnClean
  <1>4. QED BY <1>1, <1>2, <1>3 DEF Job, RunJob, EndJob

LEMMA RestartClean ==
    ASSUME Clean, Restart PROVE Clean'
  <1> USE DEF Clean, Restart, stores, history
  <1>1. /\ pc' \in [Requests -> PC]
        /\ loc' \in [Requests -> Local]
        /\ \A r \in Requests : pc'[r] = "idle"
    BY NoLocalType DEF PC
  <1>2. TypeOK'
    BY <1>1 DEF TypeOK
  <1>3. Commenting' \subseteq Commenting
    BY <1>1 DEF Commenting
  <1>4. Remembered'
    BY <1>1, <1>3, FewerCommenting DEF Remembered, Deleting
  <1>5. UploadIsFresh'
    BY <1>1 DEF UploadIsFresh, Uploading, Whole
  <1>6. QED BY <1>2, <1>4, <1>5

LEMMA StutterClean ==
    ASSUME Clean, UNCHANGED vars PROVE Clean'
  <1> USE DEF Clean, vars, stores, history
  <1>1. TypeOK'
    BY DEF TypeOK
  <1>2. Remembered'
    BY DEF Remembered, Commenting
  <1>3. UploadIsFresh'
    BY DEF UploadIsFresh, Whole
  <1>4. QED BY <1>1, <1>2, <1>3

LEMMA NextClean ==
    ASSUME Clean, NumbersGrow, [Next]_vars PROVE Clean'
  <1>1. ASSUME NEW r \in Requests, Fails(r) PROVE Clean'
    BY <1>1, ReturnClean DEF Fails
  <1>2. QED
    BY <1>1, UploadClean, DeleteClean, DiscussClean, JobClean, RestartClean, StutterClean
       DEF Next

-----------------------------------------------------------------------------
(***************************************************************************)
(* Versions.  Only uploads change what a row says of its chain.            *)
(***************************************************************************)
OutsideUploads ==
    /\ present' \subseteq present
    /\ UNCHANGED <<rows, created, saved>>
    /\ \A s \in Requests : pc'[s] \in Uploading => pc'[s] = pc[s] /\ loc'[s] = loc[s]

LEMMA OthersAreOutside ==
    ASSUME TypeOK,
           \/ \E r \in Requests : Delete(r) \/ Discuss(r) \/ Job(r) \/ Fails(r)
           \/ Restart \/ UNCHANGED vars
    PROVE  OutsideUploads
  <1> USE DEF TypeOK, OutsideUploads, Uploading, Goto, Return, stores, history
  <1>1. ASSUME NEW r \in Requests, Delete(r) PROVE OutsideUploads
    BY <1>1 DEF Delete, StartDelete, DeleteVectors, DeleteObject, DeleteRow, Remember
  <1>2. ASSUME NEW r \in Requests, Discuss(r) PROVE OutsideUploads
    BY <1>2 DEF Discuss, StartComment, AddComment, StartUncomment, FindComment, DeleteComment,
                Remember
  <1>3. ASSUME NEW r \in Requests, Job(r) \/ Fails(r) PROVE OutsideUploads
    BY <1>3 DEF Job, StartJob, RunJob, EndJob, Fails, Remember
  <1>4. CASE Restart \/ UNCHANGED vars
    BY <1>4 DEF Restart, vars
  <1>5. QED BY <1>1, <1>2, <1>3, <1>4

LEMMA OutsideNumbers ==
    ASSUME TypeOK, NumbersGrow, OutsideUploads PROVE NumbersGrow'
  <1> USE DEF OutsideUploads
  <1>1. \A d : GroupOf(d)' = GroupOf(d) /\ NumberOf(d)' = NumberOf(d)
    BY DEF GroupOf, NumberOf
  <1>2. VersionsFollowUploads'
    BY <1>1 DEF NumbersGrow, VersionsFollowUploads
  <1>3. \A r \in Requests : \A n : pc'[r] \in Uploading /\ WillBeLast(r, n) => WillBeLast(r, n)'
    BY <1>1 DEF WillBeLast
  <1>4. \A r \in Requests :
           /\ pc'[r] = "number" => loc'[r].group \in 1..created'
           /\ pc'[r] = "saveObject" => WillBeLast(r, created + 1)'
           /\ pc'[r] \in {"ingest", "saveRow"} => WillBeLast(r, created)'
    BY <1>3 DEF NumbersGrow, Uploading
  <1>5. QED BY <1>1, <1>2, <1>4 DEF NumbersGrow

LEMMA InitNumbers == Init => NumbersGrow
  <1> SUFFICES ASSUME Init PROVE NumbersGrow
    OBVIOUS
  <1>1. \A d \in Doc : GroupOf(d) = d /\ NumberOf(d) = 1
    BY DEF Init, GroupOf, NumberOf, OldRow
  <1>2. saved \subseteq Doc /\ present = saved
    BY DocumentsAssumption DEF Init, Doc
  <1>3. VersionsFollowUploads
    BY <1>1, <1>2 DEF VersionsFollowUploads, Doc
  <1>4. \A d \in saved : GroupOf(d) \in 1..d /\ NumberOf(d) \in 1..d
    BY <1>1, <1>2 DEF Doc
  <1>5. QED BY <1>3, <1>4 DEF NumbersGrow, Init

LEMMA StartUploadNumbers ==
    ASSUME Clean, NumbersGrow, NEW r \in Requests, StartUpload(r) PROVE NumbersGrow'
  <1> USE DEF Clean
  <1>0. UNCHANGED <<present, rows, created, saved>> /\ LoopFree
    BY DEF StartUpload, stores, history
  <1>1. created \in Nat /\ created' = created
    BY <1>0, DocumentsAssumption DEF TypeOK
  <1>2. \A d : GroupOf(d)' = GroupOf(d) /\ NumberOf(d)' = NumberOf(d)
    BY <1>0 DEF GroupOf, NumberOf
  <1>3. VersionsFollowUploads'
    BY <1>0, <1>2 DEF NumbersGrow, VersionsFollowUploads
  <1>4. /\ \A s \in Requests \ {r} : pc'[s] = pc[s]
        /\ \A s \in Requests : pc[s] \notin Uploading
    BY <1>0 DEF TypeOK, Goto, LoopFree, StartUpload
  <1>5. \/ /\ pc'[r] = "saveObject" /\ loc'[r].group = NULL /\ loc'[r].number = 1
        \/ /\ pc'[r] = "number" /\ loc'[r].group \in 1..created
    <2>1. PICK u \in Callers :
          \/ /\ loc' = [loc EXCEPT ![r] = [NoLocal EXCEPT !.user = u, !.number = 1]]
             /\ pc' = [pc EXCEPT ![r] = "saveObject"]
          \/ \E prior \in Doc :
                /\ Finds(u, prior)
                /\ loc' = [loc EXCEPT ![r] = [NoLocal EXCEPT !.user = u, !.group = GroupOf(prior)]]
                /\ pc' = [pc EXCEPT ![r] = "number"]
      BY DEF StartUpload, Goto
    <2>2. CASE /\ loc' = [loc EXCEPT ![r] = [NoLocal EXCEPT !.user = u, !.number = 1]]
               /\ pc' = [pc EXCEPT ![r] = "saveObject"]
      BY <2>2 DEF TypeOK, NoLocal
    <2>3. ASSUME NEW prior \in Doc, Finds(u, prior),
                 loc' = [loc EXCEPT ![r] = [NoLocal EXCEPT !.user = u, !.group = GroupOf(prior)]],
                 pc' = [pc EXCEPT ![r] = "number"]
          PROVE  pc'[r] = "number" /\ loc'[r].group \in 1..created
      <3>1. prior \in 1..created /\ GroupOf(prior) \in 1..prior
        BY <2>3 DEF Finds, TypeOK, NumbersGrow, UploadIsFresh
      <3>2. loc'[r].group = GroupOf(prior) /\ pc'[r] = "number"
        BY <2>3 DEF TypeOK, NoLocal
      <3>3. GroupOf(prior) \in 1..created
        BY <1>1, <3>1
      <3>4. QED BY <3>2, <3>3
    <2>4. QED BY <2>1, <2>2, <2>3
  <1>6. pc'[r] = "saveObject" => WillBeLast(r, created + 1)'
    <2>1. ASSUME NEW d \in present PROVE GroupOf(d) # NULL
      <3>1. d \in Doc /\ GroupOf(d) \in 1..d
        BY DEF TypeOK, NumbersGrow
      <3>2. QED BY <3>1 DEF Doc, NULL
    <2>2. pc'[r] = "saveObject" => loc'[r].group = NULL /\ loc'[r].number = 1
      BY <1>5
    <2>3. QED BY <1>0, <1>1, <1>2, <2>1, <2>2 DEF WillBeLast, NULL
  <1>7. QED
    BY <1>0, <1>2, <1>3, <1>4, <1>5, <1>6 DEF NumbersGrow, Uploading

LEMMA NumberVersionNumbers ==
    ASSUME Clean, NumbersGrow, NEW r \in Requests, NumberVersion(r) PROVE NumbersGrow'
  <1> USE DEF Clean, NumberVersion, stores, history
  <1>1. CASE Return(r)
    <2>1. OutsideUploads
      BY <1>1 DEF OutsideUploads, Return, TypeOK, Uploading
    <2>2. QED BY <2>1, OutsideNumbers
  <1>2. CASE /\ VersionGroup(loc[r].group) # {}
             /\ loc' = [loc EXCEPT ![r].number = NextNumber(loc[r].group)]
             /\ Goto(r, "saveObject")
    <2>1. created \in Nat
      BY DocumentsAssumption DEF TypeOK
    <2>2. \A d : GroupOf(d)' = GroupOf(d) /\ NumberOf(d)' = NumberOf(d)
      BY DEF GroupOf, NumberOf
    <2>3. VersionsFollowUploads'
      BY <2>2 DEF NumbersGrow, VersionsFollowUploads
    <2>4. /\ pc[r] = "number" /\ pc'[r] = "saveObject"
          /\ \A s \in Requests \ {r} : pc'[s] = pc[s]
          /\ \A s \in Requests \ {r} : pc[s] \notin Uploading
      BY <1>2 DEF TypeOK, Goto, At, UploadIsFresh, Uploading
    <2>5. loc'[r].group = loc[r].group /\ loc'[r].number = NextNumber(loc[r].group)
      BY <1>2 DEF TypeOK, Local
    <2>6. loc[r].group \in 1..created
      BY <2>4 DEF NumbersGrow
    <2>7. /\ NextNumber(loc[r].group) \in 1..(created + 1)
          /\ \A d \in present :
                GroupOf(d) = loc[r].group => NumberOf(d) < NextNumber(loc[r].group)
      BY <1>2, <2>6, NextNumberIsHigher DEF UploadIsFresh
    <2>8. WillBeLast(r, created + 1)'
      BY <2>1, <2>2, <2>5, <2>6, <2>7 DEF WillBeLast
    <2>9. QED
      BY <2>2, <2>3, <2>4, <2>8 DEF NumbersGrow, Uploading
  <1>3. QED BY <1>1, <1>2

LEMMA SaveObjectNumbers ==
    ASSUME Clean, NumbersGrow, NEW r \in Requests, SaveObject(r) \/ Ingest(r) PROVE NumbersGrow'
  <1> USE DEF Clean, SaveObject, Ingest, Goto, At, history
  <1>1. \A d : GroupOf(d)' = GroupOf(d) /\ NumberOf(d)' = NumberOf(d)
    BY DEF GroupOf, NumberOf
  <1>2. VersionsFollowUploads'
    BY <1>1 DEF NumbersGrow, VersionsFollowUploads
  <1>3. /\ pc'[r] \in {"ingest", "saveRow"}
        /\ \A s \in Requests \ {r} : pc'[s] = pc[s] /\ pc[s] \notin Uploading
    BY DEF TypeOK, UploadIsFresh, Uploading
  <1>4. loc'[r].group = loc[r].group /\ loc'[r].number = loc[r].number
    BY DEF TypeOK, Local
  <1>5. WillBeLast(r, created')
    BY DEF NumbersGrow
  <1>6. WillBeLast(r, created)'
    BY <1>1, <1>4, <1>5 DEF WillBeLast
  <1>7. QED BY <1>1, <1>2, <1>3, <1>6 DEF NumbersGrow, Uploading

LEMMA SaveRowNumbers ==
    ASSUME Clean, NumbersGrow, NEW r \in Requests, SaveRow(r) PROVE NumbersGrow'
  <1> USE DEF Clean, SaveRow, Return, At
  <1>1. /\ created \in Doc /\ loc[r].doc = created /\ WillBeLast(r, created)
        /\ present \subseteq 1..created /\ created \notin saved /\ present \subseteq saved
    BY DEF TypeOK, UploadIsFresh, NumbersGrow
  <1>2. created \in Nat \ {0}
    BY <1>1 DEF Doc
  <1>3. rows'[created] = [owner  |-> loc[r].user,
                          group  |-> IF loc[r].group = NULL THEN created ELSE loc[r].group,
                          number |-> loc[r].number]
    BY <1>1 DEF TypeOK
  <1>4. /\ GroupOf(created)' = (IF loc[r].group = NULL THEN created ELSE loc[r].group)
        /\ NumberOf(created)' = loc[r].number
    BY <1>2, <1>3, <1>1 DEF GroupOf, NumberOf, WillBeLast, NULL
  <1>5. \A d \in saved : GroupOf(d)' = GroupOf(d) /\ NumberOf(d)' = NumberOf(d)
    BY <1>1 DEF GroupOf, NumberOf, TypeOK
  <1>6. \A d \in present : d < created /\ GroupOf(d) \in 1..d
    BY <1>1, <1>2 DEF NumbersGrow
  <1>7. \A d \in present :
           GroupOf(d)' = GroupOf(created)' => NumberOf(d)' < NumberOf(created)'
    BY <1>1, <1>2, <1>4, <1>5, <1>6 DEF WillBeLast
  <1>8. VersionsFollowUploads'
    <2> SUFFICES ASSUME NEW d \in present', NEW e \in present',
                        GroupOf(d)' = GroupOf(e)', d < e
                 PROVE  NumberOf(d)' < NumberOf(e)'
      BY DEF VersionsFollowUploads
    <2>1. d \in present
      BY <1>1, <1>2, <1>6
    <2>2. CASE e = created
      BY <1>7, <2>1, <2>2
    <2>3. CASE e # created
      BY <1>1, <1>5, <2>1, <2>3 DEF NumbersGrow, VersionsFollowUploads
    <2>4. QED BY <2>2, <2>3
  <1>9. \A d \in saved' : GroupOf(d)' \in 1..d /\ NumberOf(d)' \in 1..d
    <2>1. GroupOf(created)' \in 1..created /\ NumberOf(created)' \in 1..created
      BY <1>1, <1>2, <1>4 DEF WillBeLast, NULL
    <2>2. saved' = saved \cup {created}
      BY <1>1
    <2>3. QED BY <1>5, <2>1, <2>2 DEF NumbersGrow
  <1>10. \A s \in Requests : pc'[s] \notin Uploading
    <2>1. pc'[r] = "idle" /\ \A s \in Requests \ {r} : pc'[s] = pc[s]
      BY DEF TypeOK
    <2>2. QED BY <2>1 DEF UploadIsFresh, Uploading
  <1>11. QED BY <1>8, <1>9, <1>10 DEF NumbersGrow, Uploading

LEMMA NextNumbers ==
    ASSUME Clean, NumbersGrow, [Next]_vars PROVE NumbersGrow'
  <1>1. ASSUME NEW r \in Requests, Upload(r) PROVE NumbersGrow'
    BY <1>1, StartUploadNumbers, NumberVersionNumbers, SaveObjectNumbers, SaveRowNumbers
       DEF Upload
  <1>2. CASE \/ \E r \in Requests : Delete(r) \/ Discuss(r) \/ Job(r) \/ Fails(r)
             \/ Restart \/ UNCHANGED vars
    BY <1>2, OthersAreOutside, OutsideNumbers DEF Clean
  <1>3. QED BY <1>1, <1>2 DEF Next

-----------------------------------------------------------------------------
IInv == Clean /\ NumbersGrow

LEMMA Invariance == Spec => []IInv
  <1>1. Init => IInv
    BY InitClean, InitNumbers DEF IInv
  <1>2. IInv /\ [Next]_vars => IInv'
    BY NextClean, NextNumbers DEF IInv
  <1>3. QED BY <1>1, <1>2, PTL DEF Spec

(***************************************************************************)
(* The tables, the stores and the requests keep their types.               *)
(***************************************************************************)
THEOREM TypeCorrect == Spec => []TypeOK
  <1>1. IInv => TypeOK
    BY DEF IInv, Clean
  <1>2. QED BY <1>1, Invariance, PTL

(***************************************************************************)
(* In a chain of versions the numbers follow the uploads, however many     *)
(* requests delete from it in between.                                     *)
(***************************************************************************)
THEOREM NumbersFollowUploads == Spec => []VersionsFollowUploads
  <1>1. IInv => VersionsFollowUploads
    BY DEF IInv, NumbersGrow
  <1>2. QED BY <1>1, Invariance, PTL

-----------------------------------------------------------------------------
(* The stores. *)

StoresAgree == DeletionIsFinal /\ RowsAreBacked /\ DeletionLeavesNothing

\* Steps that leave the stores alone and do not advance a deletion.
LEMMA ElsewhereStores ==
    ASSUME StoresAgree,
           UNCHANGED <<present, objects, vectors, saved>>, asked \subseteq asked',
           \A s \in Requests : pc'[s] \in {"deleteObject", "deleteRow"} =>
                pc'[s] = pc[s] /\ loc'[s] = loc[s]
    PROVE  StoresAgree'
  <1> USE DEF StoresAgree
  <1>1. DeletionIsFinal'
    BY DEF DeletionIsFinal
  <1>2. RowsAreBacked'
    BY DEF RowsAreBacked, Whole
  <1>3. DeletionLeavesNothing'
    BY DEF DeletionLeavesNothing
  <1>4. QED BY <1>1, <1>2, <1>3

LEMMA UploadStores ==
    ASSUME Clean, StoresAgree, NEW r \in Requests, Upload(r) PROVE StoresAgree'
  <1> USE DEF Clean, StoresAgree, history
  <1>1. CASE StartUpload(r) \/ NumberVersion(r)
    <2>1. /\ UNCHANGED <<present, objects, vectors, saved, asked>>
          /\ \A s \in Requests : pc'[s] \in {"deleteObject", "deleteRow"} =>
                pc'[s] = pc[s] /\ loc'[s] = loc[s]
      BY <1>1 DEF StartUpload, NumberVersion, Return, Goto, TypeOK, stores
    <2>2. QED BY <2>1, ElsewhereStores
  <1>2. CASE SaveObject(r) \/ Ingest(r)
    <2>1. PICK new : /\ new \notin saved
                     /\ objects' \in {objects, objects \cup {new}}
                     /\ vectors' \in {vectors, vectors \cup {new}}
      <3>1. CASE SaveObject(r)
        <4>1. created' \notin saved
          BY <3>1, DocumentsAssumption DEF SaveObject, UploadIsFresh, TypeOK
        <4>2. objects' = objects \cup {created'} /\ vectors' = vectors
          BY <3>1 DEF SaveObject
        <4>3. QED BY <4>1, <4>2
      <3>2. CASE Ingest(r)
        BY <3>2 DEF Ingest, UploadIsFresh, At
      <3>3. QED BY <1>2, <3>1, <3>2
    <2>2. /\ UNCHANGED <<present, saved, asked>>
          /\ \A s \in Requests : pc'[s] \in {"deleteObject", "deleteRow"} =>
                pc'[s] = pc[s] /\ loc'[s] = loc[s]
      BY <1>2 DEF SaveObject, Ingest, Goto, TypeOK
    <2>3. present \subseteq saved /\ asked \subseteq saved
      BY DEF TypeOK
    <2>4. DeletionIsFinal'
      BY <2>1, <2>2, <2>3 DEF DeletionIsFinal, Remembered, Deleting
    <2>5. RowsAreBacked'
      BY <2>1, <2>2 DEF RowsAreBacked, Whole
    <2>6. DeletionLeavesNothing'
      BY <2>1, <2>2 DEF DeletionLeavesNothing
    <2>7. QED BY <2>4, <2>5, <2>6
  <1>3. CASE SaveRow(r)
    <2>1. /\ present' = present \cup {created} /\ saved' = saved \cup {created}
          /\ created \notin saved /\ Whole(created)
      BY <1>3 DEF SaveRow, UploadIsFresh, At
    <2>2. /\ UNCHANGED <<objects, vectors, asked>>
          /\ \A s \in Requests : pc'[s] \in {"deleteObject", "deleteRow"} =>
                pc'[s] = pc[s] /\ loc'[s] = loc[s]
      BY <1>3 DEF SaveRow, Return, TypeOK
    <2>3. DeletionIsFinal'
      BY <2>2 DEF DeletionIsFinal
    <2>4. RowsAreBacked'
      BY <2>1, <2>2 DEF RowsAreBacked, Whole
    <2>5. DeletionLeavesNothing'
      BY <2>1, <2>2 DEF DeletionLeavesNothing
    <2>6. QED BY <2>3, <2>4, <2>5
  <1>4. QED BY <1>1, <1>2, <1>3 DEF Upload

LEMMA DeleteStores ==
    ASSUME Clean, StoresAgree, NEW r \in Requests, Delete(r) PROVE StoresAgree'
  <1> USE DEF Clean, StoresAgree, history, At
  <1>1. CASE StartDelete(r)
    <2>1. /\ UNCHANGED <<present, objects, vectors, saved>> /\ asked \subseteq asked'
          /\ \A s \in Requests : pc'[s] \in {"deleteObject", "deleteRow"} =>
                pc'[s] = pc[s] /\ loc'[s] = loc[s]
      BY <1>1 DEF StartDelete, Goto, Remember, TypeOK, stores
    <2>2. QED BY <2>1, ElsewhereStores
  <1>2. CASE DeleteVectors(r)
    <2>1. /\ vectors' = vectors \ {loc[r].doc} /\ loc[r].doc \in asked
          /\ UNCHANGED <<present, objects, saved, asked, loc>>
      BY <1>2 DEF DeleteVectors, Remembered, Deleting
    <2>2. pc'[r] = "deleteObject" /\ \A s \in Requests \ {r} : pc'[s] = pc[s]
      BY <1>2 DEF DeleteVectors, Goto, TypeOK
    <2>3. DeletionIsFinal'
      BY <2>1, <2>2 DEF DeletionIsFinal
    <2>4. RowsAreBacked'
      BY <2>1 DEF RowsAreBacked, Whole
    <2>5. DeletionLeavesNothing'
      BY <2>1 DEF DeletionLeavesNothing
    <2>6. QED BY <2>3, <2>4, <2>5
  <1>3. CASE DeleteObject(r)
    <2>1. /\ objects' = objects \ {loc[r].doc} /\ loc[r].doc \in asked
          /\ pc[r] = "deleteObject"
          /\ UNCHANGED <<present, vectors, saved, asked, loc>>
      BY <1>3 DEF DeleteObject, Remembered, Deleting
    <2>2. pc'[r] = "deleteRow" /\ \A s \in Requests \ {r} : pc'[s] = pc[s]
      BY <1>3 DEF DeleteObject, Goto, TypeOK
    <2>3. DeletionIsFinal'
      BY <2>1, <2>2 DEF DeletionIsFinal
    <2>4. RowsAreBacked'
      BY <2>1 DEF RowsAreBacked, Whole
    <2>5. DeletionLeavesNothing'
      BY <2>1 DEF DeletionLeavesNothing
    <2>6. QED BY <2>3, <2>4, <2>5
  <1>4. CASE DeleteRow(r)
    <2>1. /\ present' = present \ {loc[r].doc} /\ pc[r] = "deleteRow"
          /\ UNCHANGED <<objects, vectors, saved, asked>>
      BY <1>4 DEF DeleteRow
    <2>2. pc'[r] = "idle" /\ \A s \in Requests \ {r} : pc'[s] = pc[s] /\ loc'[s] = loc[s]
      BY <1>4 DEF DeleteRow, Return, TypeOK
    <2>3. DeletionIsFinal'
      BY <2>1, <2>2 DEF DeletionIsFinal
    <2>4. RowsAreBacked'
      BY <2>1 DEF RowsAreBacked, Whole
    <2>5. DeletionLeavesNothing'
      BY <2>1 DEF DeletionLeavesNothing, DeletionIsFinal
    <2>6. QED BY <2>3, <2>4, <2>5
  <1>5. QED BY <1>1, <1>2, <1>3, <1>4 DEF Delete

LEMMA OtherStores ==
    ASSUME Clean, StoresAgree,
           \/ \E r \in Requests : Discuss(r) \/ Job(r) \/ Fails(r)
           \/ Restart \/ UNCHANGED vars
    PROVE  StoresAgree'
  <1> USE DEF Clean, TypeOK, Goto, Return, stores, history
  <1> DEFINE Still == /\ UNCHANGED <<present, objects, vectors, saved, asked>>
                      /\ \A s \in Requests : pc'[s] \in {"deleteObject", "deleteRow"} =>
                            pc'[s] = pc[s] /\ loc'[s] = loc[s]
  <1>1. ASSUME NEW r \in Requests, Discuss(r) PROVE Still
    BY <1>1 DEF Discuss, StartComment, AddComment, StartUncomment, FindComment, DeleteComment,
                Remember
  <1>2. ASSUME NEW r \in Requests, Job(r) \/ Fails(r) PROVE Still
    BY <1>2 DEF Job, StartJob, RunJob, EndJob, Fails, Remember
  <1>3. ASSUME Restart \/ UNCHANGED vars PROVE Still
    BY <1>3 DEF Restart, vars
  <1>4. Still
    <2> HIDE DEF Still
    <2> QED BY <1>1, <1>2, <1>3
  <1>5. QED BY <1>4, ElsewhereStores

LEMMA StoresInvariance == Spec => []StoresAgree
  <1>1. Init => StoresAgree
    <2> SUFFICES ASSUME Init PROVE StoresAgree
      OBVIOUS
    <2>1. DeletionIsFinal
      BY DEF Init, DeletionIsFinal
    <2>2. RowsAreBacked
      BY DocumentsAssumption DEF Init, RowsAreBacked, Whole, Chunked
    <2>3. DeletionLeavesNothing
      BY DEF Init, DeletionLeavesNothing
    <2>4. QED BY <2>1, <2>2, <2>3 DEF StoresAgree
  <1>2. IInv /\ StoresAgree /\ [Next]_vars => StoresAgree'
    BY UploadStores, DeleteStores, OtherStores DEF IInv, Next
  <1>3. QED BY <1>1, <1>2, Invariance, PTL DEF Spec

(***************************************************************************)
(* A document that is listed, and that nobody has asked to delete, has its *)
(* file and its chunks, whatever failed and whatever overlapped.           *)
(***************************************************************************)
THEOREM ListedDocumentsAreWhole == Spec => []RowsAreBacked
  <1>1. StoresAgree => RowsAreBacked
    BY DEF StoresAgree
  <1>2. QED BY <1>1, StoresInvariance, PTL

(***************************************************************************)
(* Of a document whose row is gone nothing is left in the other stores.    *)
(***************************************************************************)
THEOREM NothingOutlivesItsRow == Spec => []DeletionLeavesNothing
  <1>1. StoresAgree => DeletionLeavesNothing
    BY DEF StoresAgree
  <1>2. QED BY <1>1, StoresInvariance, PTL

-----------------------------------------------------------------------------
(* Comments and jobs. *)

LEMMA CommentsStep ==
    ASSUME IInv, CommentsGoWithTheirDocument, [Next]_vars
    PROVE  CommentsGoWithTheirDocument'
  <1> USE DEF IInv, Clean, TypeOK, CommentsGoWithTheirDocument, stores, history
  <1>1. ASSUME comments' = comments, present \subseteq present'
        PROVE  CommentsGoWithTheirDocument'
    BY <1>1
  <1>2. ASSUME NEW r \in Requests, Upload(r) PROVE CommentsGoWithTheirDocument'
    BY <1>1, <1>2 DEF Upload, StartUpload, NumberVersion, SaveObject, Ingest, SaveRow
  <1>3. ASSUME NEW r \in Requests, Delete(r) PROVE CommentsGoWithTheirDocument'
    <2>1. CASE DeleteRow(r)
      <3>1. \A c \in Comment :
               \/ comments'[c] = NoComment
               \/ comments'[c] = comments[c] /\ comments[c].doc # loc[r].doc
        BY <2>1 DEF DeleteRow, WithoutCommentsOn
      <3>2. present' = present \ {loc[r].doc}
        BY <2>1 DEF DeleteRow
      <3>3. QED BY <3>1, <3>2
    <2>2. QED BY <1>1, <1>3, <2>1 DEF Delete, StartDelete, DeleteVectors, DeleteObject
  <1>4. ASSUME NEW r \in Requests, Discuss(r) PROVE CommentsGoWithTheirDocument'
    <2>1. CASE AddComment(r)
      <3> DEFINE new == [doc    |-> loc[r].doc,
                         author |-> loc[r].user,
                         late   |-> loc[r].doc \notin present]
      <3>1. PICK n : comments' = [comments EXCEPT ![n] = new] /\ present' = present
        BY <2>1 DEF AddComment
      <3>2. new.doc \notin present => new.late
        <4>1. new.doc = loc[r].doc
          OBVIOUS
        <4>2. new.late = (loc[r].doc \notin present)
          BY Zenon
        <4>3. QED BY <4>1, <4>2
      <3> HIDE DEF new
      <3>3. QED BY <3>1, <3>2
    <2>2. CASE DeleteComment(r)
      BY <2>2 DEF DeleteComment
    <2>3. CASE StartComment(r) \/ StartUncomment(r) \/ FindComment(r)
      BY <1>1, <2>3 DEF StartComment, StartUncomment, FindComment
    <2>4. QED BY <1>4, <2>1, <2>2, <2>3 DEF Discuss
  <1>5. ASSUME NEW r \in Requests, Job(r) \/ Fails(r) PROVE CommentsGoWithTheirDocument'
    BY <1>1, <1>5 DEF Job, StartJob, RunJob, EndJob, Fails
  <1>6. CASE Restart \/ UNCHANGED vars
    BY <1>1, <1>6 DEF Restart, vars
  <1>7. QED BY <1>2, <1>3, <1>4, <1>5, <1>6 DEF Next

(***************************************************************************)
(* The comments of a deleted document are only those whose requests had    *)
(* looked the document up before it went.                                  *)
(***************************************************************************)
THEOREM CommentsFollowTheirDocument == Spec => []CommentsGoWithTheirDocument
  <1>1. Init => CommentsGoWithTheirDocument
    BY DEF Init, CommentsGoWithTheirDocument
  <1>2. QED BY <1>1, CommentsStep, Invariance, PTL DEF Spec

-----------------------------------------------------------------------------
(* Refinement: a step of the stores is a step of the library, or none. *)

State == [d \in Doc |-> StateOf(d)]

LEMMA StateValues ==
    ASSUME NEW d
    PROVE  /\ d \in present /\ Whole(d) => StateOf(d) = "whole"
           /\ d \in present /\ ~Whole(d) => StateOf(d) = "incomplete"
           /\ d \notin present /\ d \in saved => StateOf(d) = "deleted"
           /\ d \notin present /\ d \notin saved => StateOf(d) = "absent"
  BY DEF StateOf

LEMMA StateValuesNext ==
    ASSUME NEW d
    PROVE  /\ d \in present' /\ Whole(d)' => StateOf(d)' = "whole"
           /\ d \in present' /\ ~Whole(d)' => StateOf(d)' = "incomplete"
           /\ d \notin present' /\ d \in saved' => StateOf(d)' = "deleted"
           /\ d \notin present' /\ d \notin saved' => StateOf(d)' = "absent"
  BY DEF StateOf

LEMMA NoStep ==
    ASSUME \A d \in Doc : StateOf(d)' = StateOf(d), asked' = asked
    PROVE  UNCHANGED Lib!vars
  BY DEF Lib!vars

LEMMA OneStep ==
    ASSUME NEW d \in Doc, \A e \in Doc \ {d} : StateOf(e)' = StateOf(e)
    PROVE  State' = [State EXCEPT ![d] = StateOf(d)'] /\ State[d] = StateOf(d)
  BY DEF State

LEMMA QuietStep ==
    ASSUME UNCHANGED <<present, objects, vectors, saved, asked>> PROVE UNCHANGED Lib!vars
  <1>1. \A d \in Doc : StateOf(d)' = StateOf(d)
    BY DEF StateOf, Whole
  <1>2. QED BY <1>1, NoStep

LEMMA UploadRefines ==
    ASSUME Clean, NEW r \in Requests, Upload(r) PROVE Lib!Next \/ UNCHANGED Lib!vars
  <1> USE DEF Clean, history
  <1>1. CASE StartUpload(r) \/ NumberVersion(r)
    BY <1>1, QuietStep DEF StartUpload, NumberVersion, stores
  <1>2. present \subseteq saved
    BY DEF TypeOK
  <1>3. CASE SaveObject(r)
    <2>1. created' \notin saved
      BY <1>3, DocumentsAssumption DEF SaveObject, UploadIsFresh, TypeOK
    <2>2. objects' = objects \cup {created'} /\ UNCHANGED <<present, vectors, saved, asked>>
      BY <1>3 DEF SaveObject
    <2>3. \A d \in Doc : StateOf(d)' = StateOf(d)
      BY <1>2, <2>1, <2>2, StateValues, StateValuesNext DEF Whole
    <2>4. QED BY <2>2, <2>3, NoStep
  <1>4. CASE Ingest(r)
    <2>1. created \notin saved /\ loc[r].doc = created
      BY <1>4 DEF Ingest, UploadIsFresh, At
    <2>2. /\ vectors' = vectors \cup ({created} \cap Chunked)
          /\ UNCHANGED <<present, objects, saved, asked>>
      BY <1>4, <2>1 DEF Ingest
    <2>3. \A d \in Doc : StateOf(d)' = StateOf(d)
      BY <1>2, <2>1, <2>2, StateValues, StateValuesNext DEF Whole
    <2>4. QED BY <2>2, <2>3, NoStep
  <1>5. CASE SaveRow(r)
    <2>1. PICK d \in Doc : d = created /\ d = loc[r].doc /\ d \notin saved /\ Whole(d)
      BY <1>5 DEF SaveRow, UploadIsFresh, At, TypeOK
    <2>2. /\ present' = present \cup {d} /\ saved' = saved \cup {d}
          /\ UNCHANGED <<objects, vectors, asked>>
      BY <1>5, <2>1 DEF SaveRow
    <2>3. StateOf(d) = "absent" /\ StateOf(d)' = "whole"
      BY <1>2, <2>1, <2>2, StateValues, StateValuesNext DEF Whole
    <2>4. \A e \in Doc \ {d} : StateOf(e)' = StateOf(e)
      BY <2>2, StateValues, StateValuesNext DEF Whole
    <2>5. Lib!Appear(d)
      BY <2>2, <2>3, <2>4, OneStep DEF Lib!Appear, State
    <2>6. QED BY <2>5 DEF Lib!Next
  <1>6. QED BY <1>1, <1>3, <1>4, <1>5 DEF Upload

LEMMA DeleteRefines ==
    ASSUME Clean, StoresAgree, NEW r \in Requests, Delete(r)
    PROVE  Lib!Next \/ UNCHANGED Lib!vars
  <1> USE DEF Clean, history
  <1>1. CASE StartDelete(r)
    <2>1. PICK d \in Doc : d \in present /\ asked' = asked \cup {d}
      BY <1>1 DEF StartDelete, Begins, Finds
    <2>2. UNCHANGED <<present, objects, vectors, saved>>
      BY <1>1 DEF StartDelete, stores
    <2>3. \A e \in Doc : StateOf(e)' = StateOf(e)
      BY <2>2, StateValues, StateValuesNext DEF Whole
    <2>4. StateOf(d) \in {"whole", "incomplete"}
      BY <2>1, StateValues, StateValuesNext
    <2>5. State' = State /\ State[d] = StateOf(d)
      BY <2>3 DEF State
    <2>6. Lib!AskToDelete(d)
      BY <2>1, <2>4, <2>5 DEF Lib!AskToDelete, State
    <2>7. QED BY <2>6 DEF Lib!Next
  <1>2. CASE DeleteVectors(r) \/ DeleteObject(r)
    <2>1. PICK d \in Doc : d = loc[r].doc /\ d \in asked
      BY <1>2 DEF DeleteVectors, DeleteObject, At, Remembered, Deleting, TypeOK
    <2>2. /\ UNCHANGED <<present, saved, asked>>
          /\ objects' \in {objects, objects \ {d}} /\ vectors' \in {vectors, vectors \ {d}}
      BY <1>2, <2>1 DEF DeleteVectors, DeleteObject
    <2>3. \A e \in Doc \ {d} : StateOf(e)' = StateOf(e)
      BY <2>2, StateValues, StateValuesNext DEF Whole
    <2>4. CASE StateOf(d)' = StateOf(d)
      BY <2>2, <2>3, <2>4, NoStep
    <2>5. CASE StateOf(d)' # StateOf(d)
      <3>1. StateOf(d) = "whole" /\ StateOf(d)' = "incomplete"
        BY <2>2, <2>5, StateValues, StateValuesNext DEF Whole
      <3>2. Lib!LosePart(d)
        BY <2>1, <2>2, <2>3, <3>1, OneStep DEF Lib!LosePart, State
      <3>3. QED BY <2>1, <3>2 DEF Lib!Next
    <2>6. QED BY <2>4, <2>5
  <1>3. CASE DeleteRow(r)
    <2>1. PICK d \in Doc : d = loc[r].doc /\ d \in saved /\ d \notin objects
      BY <1>3 DEF DeleteRow, At, Remembered, Deleting, TypeOK, StoresAgree, DeletionIsFinal
    <2>2. present' = present \ {d} /\ UNCHANGED <<objects, vectors, saved, asked>>
      BY <1>3, <2>1 DEF DeleteRow
    <2>3. \A e \in Doc \ {d} : StateOf(e)' = StateOf(e)
      BY <2>2, StateValues, StateValuesNext DEF Whole
    <2>4. StateOf(d)' = "deleted"
      BY <2>1, <2>2, StateValues, StateValuesNext
    <2>5. CASE d \in present
      <3>1. StateOf(d) = "incomplete"
        BY <2>1, <2>5, StateValues, StateValuesNext DEF Whole
      <3>2. Lib!Vanish(d)
        BY <2>1, <2>2, <2>3, <2>4, <3>1, OneStep DEF Lib!Vanish, State
      <3>3. QED BY <2>1, <3>2 DEF Lib!Next
    <2>6. CASE d \notin present
      <3>1. StateOf(d) = "deleted"
        BY <2>1, <2>6, StateValues, StateValuesNext
      <3>2. QED BY <2>2, <2>3, <2>4, <3>1, NoStep
    <2>7. QED BY <2>5, <2>6
  <1>4. QED BY <1>1, <1>2, <1>3 DEF Delete

LEMMA NextRefines ==
    ASSUME IInv, StoresAgree, [Next]_vars PROVE [Lib!Next]_(Lib!vars)
  <1> USE DEF stores, history
  <1>1. ASSUME NEW r \in Requests, Discuss(r) PROVE UNCHANGED Lib!vars
    BY <1>1, QuietStep
       DEF Discuss, StartComment, AddComment, StartUncomment, FindComment, DeleteComment
  <1>2. ASSUME NEW r \in Requests, Job(r) \/ Fails(r) PROVE UNCHANGED Lib!vars
    BY <1>2, QuietStep DEF Job, StartJob, RunJob, EndJob, Fails
  <1>3. ASSUME Restart \/ UNCHANGED vars PROVE UNCHANGED Lib!vars
    BY <1>3, QuietStep DEF Restart, vars
  <1>4. QED
    BY <1>1, <1>2, <1>3, UploadRefines, DeleteRefines DEF IInv, Next

(***************************************************************************)
(* The three stores, with all the overlaps, failures and restarts, behave  *)
(* as the library they stand for.                                          *)
(***************************************************************************)
THEOREM StoresImplementLibrary == Spec => ImplementsLibrary
  <1>1. Init => Lib!Init
    <2> SUFFICES ASSUME Init PROVE Lib!Init
      OBVIOUS
    <2>1. \A d \in Doc : StateOf(d) \in {"absent", "whole"}
      BY StateValues, DocumentsAssumption DEF Init, Whole, Chunked
    <2>2. QED BY <2>1 DEF Lib!Init, Init
  <1>2. IInv /\ StoresAgree /\ [Next]_vars => [Lib!Next]_(Lib!vars)
    BY NextRefines
  <1>3. QED
    BY <1>1, <1>2, Invariance, StoresInvariance, PTL DEF Spec, ImplementsLibrary, Lib!Spec
====
