------------------------- MODULE ScrollServiceProofs -------------------------
(***************************************************************************)
(* Proofs about ScrollService, for any number of jars, scrolls, users and  *)
(* requests.  The lemmas of the first part say what one step can do to     *)
(* each table; the second part derives the inductive invariant IInv from   *)
(* them; the third part draws the properties from IInv.                    *)
(***************************************************************************)
EXTENDS ScrollService, TLAPS

USE NoneAssumption, BoundAssumption

-----------------------------------------------------------------------------
(* Types *)

\* An idle request is a request record.
LEMMA IdleType == Idle \in RequestRecords
BY DEF Idle, RequestRecords, Blank, Metadata

\* The rows that the service inserts, and the marks of rows that are not there,
\* are rows.
LEMMA RowTypes ==
    /\ FreeJar \in JarRows /\ GoneJar \in JarRows
    /\ FreeScroll \in ScrollRows /\ GoneScroll \in ScrollRows
    /\ \A j \in Jars, m \in Metadata : NewScroll(j, m) \in ScrollRows
BY DEF FreeJar, GoneJar, JarRows, JarStates, FreeScroll, GoneScroll,
       ScrollRows, NewScroll, Blank, Metadata

\* The trigger moves the version and leaves the rest of the row alone.
LEMMA TouchedRow ==
    ASSUME NEW row \in ScrollRows
    PROVE  /\ Touched(row) \in ScrollRows
           /\ Touched(row).version = row.version + 1
           /\ Touched(row).state = row.state
           /\ Touched(row).jar = row.jar
           /\ Touched(row).uploaded = row.uploaded
           /\ Touched(row).meta = row.meta
BY DEF ScrollRows, Touched

\* UPDATE title, format: new metadata, a new version, nothing else.
LEMMA EditedRow ==
    ASSUME NEW row \in ScrollRows, NEW m \in Metadata
    PROVE  /\ Edited(row, m) \in ScrollRows
           /\ Edited(row, m).version = row.version + 1
           /\ Edited(row, m).state = row.state
           /\ Edited(row, m).jar = row.jar
           /\ Edited(row, m).uploaded = row.uploaded
           /\ Edited(row, m).meta = m
<1> DEFINE new == [row EXCEPT !.meta = m]
<1>1. /\ new \in ScrollRows /\ new.meta = m
      /\ new.state = row.state /\ new.jar = row.jar
      /\ new.uploaded = row.uploaded /\ new.version = row.version
    BY DEF ScrollRows
<1> QED
    BY <1>1, TouchedRow DEF Edited

\* UPDATE uploaded: the mark, a new version, nothing else.
LEMMA PublishedRow ==
    ASSUME NEW row \in ScrollRows
    PROVE  /\ Published(row) \in ScrollRows
           /\ Published(row).version = row.version + 1
           /\ Published(row).state = row.state
           /\ Published(row).jar = row.jar
           /\ Published(row).uploaded
           /\ Published(row).meta = row.meta
<1> DEFINE new == [row EXCEPT !.uploaded = TRUE]
<1>1. /\ new \in ScrollRows /\ new.uploaded = TRUE
      /\ new.state = row.state /\ new.jar = row.jar
      /\ new.meta = row.meta /\ new.version = row.version
    BY DEF ScrollRows
<1> QED
    BY <1>1, TouchedRow DEF Published

\* A request that ends leaves the requests well typed.
LEMMA FinishType ==
    ASSUME TypeOK, NEW r \in Requests, Finish(r)
    PROVE  request' \in [Requests -> RequestRecords]
BY IdleType DEF TypeOK, Finish

\* So does one that moves on.
LEMMA GotoType ==
    ASSUME TypeOK, NEW r \in Requests,
           NEW pc \in {"write", "mark", "url"}, Goto(r, pc)
    PROVE  request' \in [Requests -> RequestRecords]
<1>1. request \in [Requests -> RequestRecords]
    BY DEF TypeOK
<1>2. [request[r] EXCEPT !.pc = pc] \in RequestRecords
    <2>1. request[r] \in RequestRecords
        BY <1>1
    <2> QED
        BY <2>1 DEF RequestRecords
<1> QED
    BY <1>1, <1>2 DEF Goto

\* A delivered upload token is a create or a patch token.
LEMMA DeliverType ==
    ASSUME TypeOK, NEW S, NEW kind \in {"create", "patch"}, Deliver(S, kind)
    PROVE  token' \in [Scrolls -> SUBSET {"create", "patch"}]
BY DEF TypeOK, Deliver

\* Removed rows leave the table well typed.
LEMMA RemoveType ==
    ASSUME TypeOK, NEW S, RemoveRows(S)
    PROVE  scroll' \in [Scrolls -> ScrollRows]
BY RowTypes DEF TypeOK, RemoveRows

\* The empty database is well typed.
LEMMA InitType == Init => TypeOK
BY IdleType, RowTypes DEF Init, TypeOK, CleanerIdle, CleanerRecords

\* Every step keeps the types; that a request's ids are ids is in RequestShape.
LEMMA StepType == TypeOK /\ RequestShape /\ [Next]_vars => TypeOK'
<1> SUFFICES ASSUME TypeOK, RequestShape, [Next]_vars
             PROVE  TypeOK'
    OBVIOUS
<1>1. ASSUME NEW j \in Jars, NEW S \in SUBSET Scrolls,
             NEW user \in Users \cup {None},
             NEW state \in LiveStates, NEW m \in Metadata,
             CreateJar(j, S, user, state, m)
      PROVE  TypeOK'
    BY <1>1, RowTypes, DeliverType
    DEF CreateJar, NewJar, TypeOK, JarRows, JarStates, LiveStates
<1>2. ASSUME NEW j \in Jars, ExpireJar(j)  PROVE TypeOK'
    BY <1>2, SMTT(20) DEF ExpireJar, TypeOK, JarRows, JarStates
<1>3. ASSUME NEW s \in Scrolls, NEW kind \in {"create", "patch"},
             ExpireToken(s, kind)
      PROVE  TypeOK'
    BY <1>3 DEF ExpireToken, TypeOK
<1>4. ASSUME NEW r \in Requests, NEW user \in Users, NEW input \in Metadata,
             NEW s \in Scrolls, NEW op \in {"patch", "delete"},
             StartScrollRequest(r, op, user, s, input)
      PROVE  TypeOK'
    BY <1>4 DEF StartScrollRequest, TypeOK, RequestRecords, ScrollRows, Ops
<1>5. ASSUME NEW r \in Requests, NEW user \in Users, NEW input \in Metadata,
             NEW j \in Jars, NEW op \in {"create", "deleteJar"},
             StartJarRequest(r, op, user, j, input)
      PROVE  TypeOK'
    BY <1>5, IdleType DEF StartJarRequest, TypeOK, RequestRecords, Ops, Idle
<1>6. ASSUME NEW r \in Requests, NEW s \in Scrolls, CreateWrite(r, s)
      PROVE  TypeOK'
    <2>1. request[r].jar \in Jars /\ request[r].input \in Metadata
        BY <1>6 DEF CreateWrite, At, RequestShape, TypeOK, RequestRecords
    <2> QED
        BY <1>6, <2>1, RowTypes, DeliverType, FinishType
        DEF CreateWrite, TypeOK
<1>7. ASSUME NEW r \in Requests, NEW s \in Scrolls, NEW c \in Contents,
             UploadStart(r, s, c)
      PROVE  TypeOK'
    BY <1>7, IdleType
    DEF UploadStart, TypeOK, RequestRecords, ScrollRows, Ops, Idle
<1>8. ASSUME NEW r \in Requests, Authorize(r)  PROVE TypeOK'
    BY <1>8, FinishType, GotoType DEF Authorize, TypeOK
<1>9. ASSUME NEW r \in Requests, PatchApply(r)  PROVE TypeOK'
    <2>1. request[r].scroll \in Scrolls /\ Patched(r) \in Metadata
        BY <1>9 DEF PatchApply, At, RequestShape, TypeOK, RequestRecords,
                    Patched, Metadata
    <2> QED
        BY <1>9, <2>1, EditedRow, DeliverType, FinishType
        DEF PatchApply, TypeOK
<1>10. ASSUME NEW r \in Requests, PatchConflict(r)  PROVE TypeOK'
    BY <1>10, FinishType DEF PatchConflict, TypeOK
<1>11. ASSUME NEW r \in Requests, DeleteWrite(r)  PROVE TypeOK'
    BY <1>11, RowTypes, RemoveType, FinishType DEF DeleteWrite, TypeOK
<1>12. ASSUME NEW r \in Requests, DeleteJarWrite(r)  PROVE TypeOK'
    BY <1>12, RowTypes, RemoveType, FinishType DEF DeleteJarWrite, TypeOK
<1>13. ASSUME NEW r \in Requests, UploadStream(r)  PROVE TypeOK'
    <2>1. request[r].content \in Contents \cup {None}
        BY DEF TypeOK, RequestRecords
    <2> QED
        BY <1>13, <2>1, GotoType, FinishType DEF UploadStream, TypeOK
<1>14. ASSUME NEW r \in Requests, UploadPublish(r)  PROVE TypeOK'
    <2>1. request[r].scroll \in Scrolls /\ request[r].content \in Contents
        BY <1>14 DEF UploadPublish, At, RequestShape, TypeOK, RequestRecords
    <2>2. scroll' \in [Scrolls -> ScrollRows]
        BY <1>14, <2>1, PublishedRow DEF UploadPublish, TypeOK
    <2>3. acked' \in [Scrolls -> Seq(Contents)]
        <3>1. Append(acked[request[r].scroll], request[r].content)
                \in Seq(Contents)
            BY <2>1 DEF TypeOK
        <3> QED
            BY <1>14, <2>1, <3>1 DEF UploadPublish, TypeOK
    <2> QED
        BY <1>14, <2>2, <2>3, FinishType DEF UploadPublish, TypeOK
<1>15. ASSUME NEW r \in Requests, UploadConflict(r)  PROVE TypeOK'
    BY <1>15, FinishType DEF UploadConflict, TypeOK
<1>16. ASSUME NEW r \in Requests, Abandon(r)  PROVE TypeOK'
    BY <1>16, FinishType DEF Abandon, TypeOK
<1>17. CASE CleanerList
    <2>1. PICK B \in SUBSET Stored :
              cleaner' = [cleaner EXCEPT !.batch = @ \cup B]
        BY <1>17 DEF CleanerList
    <2>2. cleaner' \in CleanerRecords
        BY <2>1 DEF TypeOK, CleanerRecords, Stored
    <2> QED
        BY <1>17, <2>2 DEF CleanerList, TypeOK
<1>18. CASE CleanerQuery
    BY <1>18 DEF CleanerQuery, TypeOK, CleanerRecords
<1>19. CASE CleanerDelete
    BY <1>19 DEF CleanerDelete, TypeOK, CleanerRecords
<1>20. CASE CleanerStop
    BY <1>20 DEF CleanerStop, TypeOK, CleanerRecords, CleanerIdle
<1>21. CASE UNCHANGED vars
    BY <1>21 DEF vars, TypeOK
<1>22. ASSUME NEW r \in Requests, NEW s \in Scrolls, FetchStart(r, s)
      PROVE  TypeOK'
    <2>1. scroll[s].jar \in Jars \cup {None}
        BY DEF TypeOK, ScrollRows
    <2>2. [Idle EXCEPT !.pc = "jar", !.op = "fetch", !.scroll = s,
                       !.jar = scroll[s].jar] \in RequestRecords
        BY <2>1, IdleType DEF RequestRecords, Ops, Idle
    <2> QED
        BY <1>22, <2>2 DEF FetchStart, TypeOK
<1>23. ASSUME NEW r \in Requests, FetchURL(r)  PROVE TypeOK'
    BY <1>23, FinishType, GotoType DEF FetchURL, TypeOK
<1>24. ASSUME NEW r \in Requests, FetchObject(r)  PROVE TypeOK'
    BY <1>24, FinishType DEF FetchObject, TypeOK
<1> QED
    BY <1>1, <1>2, <1>3, <1>4, <1>5, <1>6, <1>7, <1>8, <1>9, <1>10, <1>11,
       <1>12, <1>13, <1>14, <1>15, <1>16, <1>17, <1>18, <1>19, <1>20, <1>21,
       <1>22, <1>23, <1>24
    DEF Next, RequestNext, CleanerNext

-----------------------------------------------------------------------------
(* What one step can do to each table. *)

\* A scroll row is inserted once, with a jar that is there; it is removed for
\* good; and only PATCH and the mark of an upload change it.
LEMMA ScrollStep ==
    ASSUME TypeOK, RequestShape, [Next]_vars, NEW s \in Scrolls
    PROVE  \/ scroll'[s] = scroll[s]
           \/ /\ scroll[s].state = "free"
              /\ \E j \in Jars, m \in Metadata : scroll'[s] = NewScroll(j, m)
                                                 /\ JarRowExists(j)'
           \/ /\ scroll[s].state # "free" /\ scroll'[s] = GoneScroll
              /\ \E r \in Requests :
                    \/ DeleteWrite(r) /\ request[r].scroll = s
                    \/ DeleteJarWrite(r) /\ IsRow(s)
                       /\ scroll[s].jar = request[r].jar
           \/ \E r \in Requests : PatchApply(r) /\ request[r].scroll = s
           \/ \E r \in Requests : UploadPublish(r) /\ request[r].scroll = s
<1> DEFINE P == scroll'[s] = scroll[s]
<1>1. CASE \E j \in Jars, S \in SUBSET Scrolls, user \in Users \cup {None},
              state \in LiveStates, m \in Metadata :
                 CreateJar(j, S, user, state, m)
    <2>1. PICK j \in Jars, S \in SUBSET Scrolls, user \in Users \cup {None},
               state \in LiveStates, m \in Metadata :
                  CreateJar(j, S, user, state, m)
        BY <1>1
    <2>2. P \/ /\ scroll[s].state = "free"
               /\ scroll'[s] = NewScroll(j, m) /\ JarRowExists(j)'
        BY <2>1 DEF CreateJar, NewJar, TypeOK, JarRowExists, RowStates
    <2> QED
        BY <2>2
<1>2. ASSUME NEW r \in Requests, NEW x \in Scrolls, CreateWrite(r, x)
      PROVE  P \/ \E j \in Jars, m \in Metadata :
                     /\ scroll[s].state = "free"
                     /\ scroll'[s] = NewScroll(j, m) /\ JarRowExists(j)'
    <2>1. request[r].jar \in Jars /\ request[r].input \in Metadata
        BY <1>2 DEF CreateWrite, At, RequestShape, TypeOK, RequestRecords
    <2> QED
        BY <1>2, <2>1 DEF CreateWrite, TypeOK, JarRowExists
<1>3. ASSUME NEW r \in Requests, DeleteWrite(r)
      PROVE  P \/ /\ request[r].scroll = s /\ scroll'[s] = GoneScroll
                  /\ scroll[s].state # "free"
    BY <1>3 DEF DeleteWrite, RemoveRows, RequestShape, At
<1>4. ASSUME NEW r \in Requests, DeleteJarWrite(r)
      PROVE  P \/ /\ IsRow(s) /\ scroll'[s] = GoneScroll
                  /\ scroll[s].jar = request[r].jar
    BY <1>4 DEF DeleteJarWrite, RemoveRows, ScrollsOf
<1>5. ASSUME NEW r \in Requests, PatchApply(r)
      PROVE  P \/ request[r].scroll = s
    BY <1>5 DEF PatchApply, TypeOK
<1>6. ASSUME NEW r \in Requests, UploadPublish(r)
      PROVE  P \/ request[r].scroll = s
    BY <1>6 DEF UploadPublish, TypeOK
<1>7. ASSUME NEW r \in Requests,
             \/ Authorize(r) \/ PatchConflict(r) \/ UploadStream(r)
             \/ UploadConflict(r) \/ Abandon(r)
             \/ FetchURL(r) \/ FetchObject(r)
      PROVE  P
    BY <1>7 DEF Authorize, PatchConflict, UploadStream, UploadConflict,
                Abandon, FetchURL, FetchObject
<1>8. ASSUME \/ \E j \in Jars : ExpireJar(j)
             \/ \E x \in Scrolls, kind \in {"create", "patch"} :
                   ExpireToken(x, kind)
             \/ CleanerList \/ CleanerQuery \/ CleanerDelete \/ CleanerStop
             \/ UNCHANGED vars
      PROVE  P
    BY <1>8 DEF ExpireJar, ExpireToken, CleanerList, CleanerQuery,
                CleanerDelete, CleanerStop, vars
<1>16. CASE \E r \in Requests, x \in Scrolls : FetchStart(r, x)
    BY <1>16 DEF FetchStart
<1>9. CASE \E r \in Requests, user \in Users, input \in Metadata,
              x \in Scrolls, op \in {"patch", "delete"} :
                StartScrollRequest(r, op, user, x, input)
    BY <1>9 DEF StartScrollRequest
<1>10. CASE \E r \in Requests, user \in Users, input \in Metadata,
              j \in Jars, op \in {"create", "deleteJar"} :
                StartJarRequest(r, op, user, j, input)
    BY <1>10 DEF StartJarRequest
<1>11. CASE \E r \in Requests, x \in Scrolls, c \in Contents :
              UploadStart(r, x, c)
    BY <1>11 DEF UploadStart
<1>12. CASE \E r \in Requests, x \in Scrolls : CreateWrite(r, x)
    BY <1>2, <1>12
<1>13. CASE \E r \in Requests : DeleteWrite(r) \/ DeleteJarWrite(r)
    BY <1>3, <1>4, <1>13 DEF IsRow
<1>14. CASE \E r \in Requests : PatchApply(r) \/ UploadPublish(r)
    BY <1>5, <1>6, <1>14
<1>15. CASE \E r \in Requests : \/ Authorize(r) \/ PatchConflict(r)
                              \/ UploadStream(r) \/ UploadConflict(r)
                              \/ Abandon(r)
                              \/ FetchURL(r) \/ FetchObject(r)
    BY <1>7, <1>15
<1> QED
    BY <1>1, <1>8, <1>9, <1>10, <1>11, <1>12, <1>13, <1>14, <1>15, <1>16
    DEF Next, RequestNext, CleanerNext

\* A jar row is created once, keeps its owner, and disappears with its scrolls.
LEMMA JarStep ==
    ASSUME TypeOK, RequestShape, [Next]_vars, NEW j \in Jars,
           jar[j].state # "free"
    PROVE  /\ jar'[j].state # "free"
           /\ JarRowExists(j)' => JarRowExists(j)
                                  /\ jar'[j].owner = jar[j].owner
           /\ JarRowExists(j) => \/ JarRowExists(j)'
                                 \/ \A s \in Scrolls : IsRow(s)' =>
                                       scroll'[s].jar # j
<1> DEFINE Same == jar'[j] = jar[j]
<1>1. ASSUME NEW k \in Jars, ExpireJar(k)
      PROVE  Same \/ /\ jar[j].state = "expiring" /\ jar'[j].state = "expired"
                     /\ jar'[j].owner = jar[j].owner
    BY <1>1 DEF ExpireJar, TypeOK, JarRows
<1>2. ASSUME NEW r \in Requests, DeleteWrite(r)
      PROVE  Same \/ /\ jar'[j] = GoneJar
                     /\ \A s \in Scrolls : IsRow(s)' => scroll'[s].jar # j
    BY <1>2 DEF DeleteWrite, RemoveRows, ScrollsOf, IsRow, GoneScroll,
                FreeScroll, TypeOK
<1>3. ASSUME NEW r \in Requests, DeleteJarWrite(r)
      PROVE  Same \/ /\ jar'[j] = GoneJar
                     /\ \A s \in Scrolls : IsRow(s)' => scroll'[s].jar # j
    BY <1>3 DEF DeleteJarWrite, RemoveRows, ScrollsOf, IsRow, GoneScroll,
                FreeScroll, TypeOK
<1>4. ASSUME NEW k \in Jars, NEW S \in SUBSET Scrolls,
             NEW user \in Users \cup {None},
             NEW state \in LiveStates, NEW m \in Metadata,
             CreateJar(k, S, user, state, m)
      PROVE  Same
    BY <1>4 DEF CreateJar, NewJar, TypeOK
<1>5. \/ jar' = jar
      \/ \E k \in Jars : ExpireJar(k)
      \/ \E r \in Requests : DeleteWrite(r) \/ DeleteJarWrite(r)
      \/ \E k \in Jars, S \in SUBSET Scrolls, user \in Users \cup {None},
            state \in LiveStates, m \in Metadata :
               CreateJar(k, S, user, state, m)
    BY ZenonT(40)
    DEF Next, RequestNext, CleanerNext, vars, FetchStart, FetchURL,
       FetchObject, ExpireToken, StartScrollRequest, StartJarRequest,
       CreateWrite, UploadStart, Authorize, PatchApply, PatchConflict,
       UploadStream, UploadPublish, UploadConflict, Abandon,
       CleanerList, CleanerQuery, CleanerDelete, CleanerStop
<1>6. GoneJar.state = "deleted" /\ GoneJar.state # "free"
    BY DEF GoneJar
<1>7. Same => jar'[j].state # "free"
              /\ (JarRowExists(j)' <=> JarRowExists(j))
    BY DEF JarRowExists
<1>8. \/ Same \/ \E k \in Jars : ExpireJar(k)
      \/ \E r \in Requests : DeleteWrite(r) \/ DeleteJarWrite(r)
    BY <1>4, <1>5
<1> QED
    BY <1>1, <1>2, <1>3, <1>6, <1>7, <1>8
    DEF JarRowExists, RowStates, LiveStates

\* A request is untouched, ends, moves one step on, or starts.
LEMMA RequestStep ==
    ASSUME TypeOK, [Next]_vars, NEW r \in Requests
    PROVE  \/ request'[r] = request[r]
           \/ request'[r] = Idle
           \/ Authorize(r) /\ IsJarCreator(r) /\ Goto(r, "write")
           \/ UploadStream(r) /\ Goto(r, "mark")
           \/ \E user \in Users, input \in Metadata,
                 s \in Scrolls, op \in {"patch", "delete"} :
                 StartScrollRequest(r, op, user, s, input)
           \/ \E user \in Users, input \in Metadata,
                 j \in Jars, op \in {"create", "deleteJar"} :
                 StartJarRequest(r, op, user, j, input)
           \/ \E s \in Scrolls, c \in Contents : UploadStart(r, s, c)
           \/ \E s \in Scrolls : FetchStart(r, s)
           \/ FetchURL(r) /\ Goto(r, "url")
<1> DEFINE Same == request'[r] = request[r] \/ request'[r] = Idle
<1>1. ASSUME NEW q \in Requests, Finish(q)  PROVE Same
    BY <1>1 DEF Finish, TypeOK
<1>2. ASSUME NEW q \in Requests,
             \/ PatchApply(q) \/ PatchConflict(q) \/ DeleteWrite(q)
             \/ DeleteJarWrite(q) \/ UploadPublish(q) \/ UploadConflict(q)
             \/ Abandon(q) \/ \E s \in Scrolls : CreateWrite(q, s)
             \/ FetchObject(q)
      PROVE  Same
    BY <1>1, <1>2 DEF PatchApply, PatchConflict, DeleteWrite, DeleteJarWrite,
       UploadPublish, UploadConflict, Abandon, CreateWrite, FetchObject
<1>3. ASSUME NEW q \in Requests, NEW pc \in {"write", "mark", "url"},
             Goto(q, pc), q # r
      PROVE  Same
    BY <1>3 DEF Goto, TypeOK
<1>4. ASSUME NEW q \in Requests, Authorize(q)
      PROVE  \/ Same
             \/ Authorize(r) /\ IsJarCreator(r) /\ Goto(r, "write")
    <2>1. Finish(q) \/ (IsJarCreator(q) /\ Goto(q, "write"))
        BY <1>4 DEF Authorize
    <2>2. CASE Finish(q) \/ q # r
        BY <1>1, <1>3, <2>1, <2>2
    <2>3. CASE q = r /\ ~Finish(q)
        BY <1>4, <2>1, <2>3 DEF Authorize, IsJarCreator, Goto
    <2> QED
        BY <2>2, <2>3
<1>5. ASSUME NEW q \in Requests, UploadStream(q)
      PROVE  Same \/ (UploadStream(r) /\ Goto(r, "mark"))
    <2>1. Finish(q) \/ Goto(q, "mark")
        BY <1>5 DEF UploadStream
    <2>2. CASE Finish(q) \/ q # r
        BY <1>1, <1>3, <2>1, <2>2
    <2>3. CASE q = r /\ ~Finish(q)
        BY <1>5, <2>1, <2>3 DEF UploadStream, At, Goto
    <2> QED
        BY <2>2, <2>3
<1>15. ASSUME NEW q \in Requests, FetchURL(q)
      PROVE  Same \/ (FetchURL(r) /\ Goto(r, "url"))
    <2>1. Finish(q) \/ Goto(q, "url")
        BY <1>15 DEF FetchURL
    <2>2. CASE Finish(q) \/ q # r
        BY <1>1, <1>3, <2>1, <2>2
    <2>3. CASE q = r /\ ~Finish(q)
        BY <1>15, <2>1, <2>3 DEF FetchURL, At, Goto
    <2> QED
        BY <2>2, <2>3
<1>16. ASSUME NEW q \in Requests, NEW s \in Scrolls, FetchStart(q, s)
      PROVE  Same \/ FetchStart(r, s)
    <2>1. CASE q # r
        BY <1>16, <2>1 DEF FetchStart, TypeOK
    <2>2. CASE q = r
        BY <1>16, <2>2 DEF FetchStart
    <2> QED
        BY <2>1, <2>2
<1>6. ASSUME NEW q \in Requests, NEW user \in Users, NEW input \in Metadata,
             NEW s \in Scrolls, NEW op \in {"patch", "delete"},
             StartScrollRequest(q, op, user, s, input)
      PROVE  Same \/ StartScrollRequest(r, op, user, s, input)
    <2>1. CASE q # r
        BY <1>6, <2>1 DEF StartScrollRequest, TypeOK
    <2>2. CASE q = r
        BY <1>6, <2>2 DEF StartScrollRequest
    <2> QED
        BY <2>1, <2>2
<1>7. ASSUME NEW q \in Requests, NEW user \in Users, NEW input \in Metadata,
             NEW j \in Jars, NEW op \in {"create", "deleteJar"},
             StartJarRequest(q, op, user, j, input)
      PROVE  Same \/ StartJarRequest(r, op, user, j, input)
    <2>1. CASE q # r
        BY <1>7, <2>1 DEF StartJarRequest, TypeOK
    <2>2. CASE q = r
        BY <1>7, <2>2 DEF StartJarRequest
    <2> QED
        BY <2>1, <2>2
<1>8. ASSUME NEW q \in Requests, NEW s \in Scrolls, NEW c \in Contents,
             UploadStart(q, s, c)
      PROVE  Same \/ UploadStart(r, s, c)
    <2>1. CASE q # r
        BY <1>8, <2>1 DEF UploadStart, TypeOK
    <2>2. CASE q = r
        BY <1>8, <2>2 DEF UploadStart
    <2> QED
        BY <2>1, <2>2
<1>9. ASSUME \/ \E j \in Jars, S \in SUBSET Scrolls, user \in Users \cup {None},
                  state \in LiveStates, m \in Metadata :
                     CreateJar(j, S, user, state, m)
             \/ \E j \in Jars : ExpireJar(j)
             \/ \E s \in Scrolls, kind \in {"create", "patch"} :
                   ExpireToken(s, kind)
             \/ CleanerList \/ CleanerQuery \/ CleanerDelete \/ CleanerStop
             \/ UNCHANGED vars
      PROVE  Same
    BY <1>9 DEF CreateJar, NewJar, ExpireJar, ExpireToken, CleanerList,
       CleanerQuery,
                CleanerDelete, CleanerStop, vars
<1>10. CASE \E q \in Requests, user \in Users, input \in Metadata,
              s \in Scrolls, op \in {"patch", "delete"} :
                 StartScrollRequest(q, op, user, s, input)
    BY <1>6, <1>10
<1>11. CASE \E q \in Requests, user \in Users, input \in Metadata,
              j \in Jars, op \in {"create", "deleteJar"} :
                 StartJarRequest(q, op, user, j, input)
    BY <1>7, <1>11
<1>12. CASE \E q \in Requests, s \in Scrolls, c \in Contents :
               UploadStart(q, s, c)
    BY <1>8, <1>12
<1>13. CASE \E q \in Requests :
              \/ PatchApply(q) \/ PatchConflict(q) \/ DeleteWrite(q)
              \/ DeleteJarWrite(q) \/ UploadPublish(q) \/ UploadConflict(q)
              \/ Abandon(q) \/ \E s \in Scrolls : CreateWrite(q, s)
              \/ FetchObject(q)
    BY <1>2, <1>13
<1>14. CASE \E q \in Requests : Authorize(q) \/ UploadStream(q) \/ FetchURL(q)
    BY <1>4, <1>5, <1>14, <1>15
<1>17. CASE \E q \in Requests, s \in Scrolls : FetchStart(q, s)
    BY <1>16, <1>17
<1> QED
    BY <1>9, <1>10, <1>11, <1>12, <1>13, <1>14, <1>17
    DEF Next, RequestNext, CleanerNext

\* An object is written by an upload and erased by the cleaner, nothing else.
LEMMA BucketStep ==
    ASSUME TypeOK, [Next]_vars, NEW s \in Scrolls
    PROVE  \/ bucket'[s] = bucket[s]
           \/ \E r \in Requests : UploadStream(r) /\ request[r].scroll = s
           \/ bucket'[s] = None /\ s \in cleaner.doomed /\ scroll' = scroll
<1>1. ASSUME NEW r \in Requests, UploadStream(r)
      PROVE  bucket'[s] = bucket[s] \/ request[r].scroll = s
    BY <1>1 DEF UploadStream, TypeOK
<1>2. CASE CleanerDelete
    BY <1>2 DEF CleanerDelete
<1>3. \/ bucket' = bucket
      \/ \E r \in Requests : UploadStream(r)
      \/ CleanerDelete
    BY ZenonT(40) DEF Next, RequestNext, CleanerNext, vars, FetchStart, FetchURL,
       FetchObject, CreateJar, NewJar, ExpireJar,
       ExpireToken, StartScrollRequest, StartJarRequest,
       CreateWrite, UploadStart, Authorize, PatchApply, PatchConflict,
       DeleteWrite, DeleteJarWrite, UploadPublish,
       UploadConflict, Abandon, CleanerList, CleanerQuery, CleanerStop
<1> QED
    BY <1>1, <1>2, <1>3

\* An upload token is new only for a row that is inserted or patched.
LEMMA TokenStep ==
    ASSUME TypeOK, RequestShape, [Next]_vars, NEW s \in Scrolls
    PROVE  /\ token'[s] # {} => token[s] # {} \/ scroll'[s].state # "free"
           /\ "patch" \in token'[s] =>
                 \/ "patch" \in token[s]
                 \/ \E r \in Requests : PatchApply(r) /\ request[r].scroll = s
<1>1. ASSUME NEW j \in Jars, NEW S \in SUBSET Scrolls,
             NEW user \in Users \cup {None},
             NEW state \in LiveStates, NEW m \in Metadata,
             CreateJar(j, S, user, state, m)
      PROVE  /\ token'[s] # token[s] => scroll'[s].state # "free"
             /\ "patch" \in token'[s] => "patch" \in token[s]
    BY <1>1 DEF CreateJar, NewJar, Deliver, NewScroll, TypeOK
<1>2. ASSUME NEW x \in Scrolls, NEW kind \in {"create", "patch"},
             ExpireToken(x, kind)
      PROVE  token'[s] \subseteq token[s]
    BY <1>2 DEF ExpireToken, TypeOK
<1>3. ASSUME NEW r \in Requests, NEW x \in Scrolls, CreateWrite(r, x)
      PROVE  /\ token'[s] # token[s] => scroll'[s].state # "free"
             /\ "patch" \in token'[s] => "patch" \in token[s]
    BY <1>3 DEF CreateWrite, Deliver, NewScroll, TypeOK
<1>4. ASSUME NEW r \in Requests, PatchApply(r)
      PROVE  \/ token'[s] = token[s]
             \/ request[r].scroll = s /\ scroll'[s].state # "free"
    <2>1. request[r].scroll \in Scrolls /\ scroll[request[r].scroll].state = "row"
        BY <1>4 DEF PatchApply, At, RequestShape, Matches, IsRow
    <2>2. scroll[request[r].scroll] \in ScrollRows /\ Patched(r) \in Metadata
        BY <2>1 DEF TypeOK, RequestRecords, Metadata, Patched
    <2>3. scroll'[request[r].scroll].state = "row"
        BY <1>4, <2>1, <2>2, EditedRow DEF PatchApply, TypeOK
    <2> QED
        BY <1>4, <2>3 DEF PatchApply, Deliver, TypeOK
<1>5. \/ token' = token
      \/ \E j \in Jars, S \in SUBSET Scrolls, user \in Users \cup {None},
            state \in LiveStates, m \in Metadata :
               CreateJar(j, S, user, state, m)
      \/ \E x \in Scrolls, kind \in {"create", "patch"} : ExpireToken(x, kind)
      \/ \E r \in Requests, x \in Scrolls : CreateWrite(r, x)
      \/ \E r \in Requests : PatchApply(r)
    BY ZenonT(40)
    DEF Next, RequestNext, CleanerNext, vars, FetchStart, FetchURL,
       FetchObject, ExpireJar, StartScrollRequest, StartJarRequest,
       UploadStart, Authorize, PatchConflict, DeleteWrite, DeleteJarWrite,
       UploadStream, UploadPublish, UploadConflict, Abandon, CleanerList,
       CleanerQuery, CleanerDelete, CleanerStop
<1> QED
    BY <1>1, <1>2, <1>3, <1>4, <1>5

\* The cleaner's slices grow only from the bucket and from what it listed.
LEMMA CleanerStep ==
    ASSUME [Next]_vars
    PROVE  \/ cleaner' = cleaner \/ cleaner' = CleanerIdle
           \/ CleanerList \/ CleanerQuery
           \/ cleaner' = [cleaner EXCEPT !.doomed = {}]
BY ZenonT(40) DEF Next, RequestNext, CleanerNext, vars, FetchStart, FetchURL,
       FetchObject, CreateJar, NewJar, ExpireJar,
   ExpireToken, StartScrollRequest, StartJarRequest,
   CreateWrite, UploadStart, Authorize, PatchApply, PatchConflict,
   DeleteWrite, DeleteJarWrite, UploadStream, UploadPublish,
   UploadConflict, Abandon, CleanerDelete, CleanerStop

\* Only the mark of an upload is acknowledged.
LEMMA AckedStep ==
    ASSUME [Next]_vars
    PROVE  acked' = acked \/ \E r \in Requests : UploadPublish(r)
BY ZenonT(40) DEF Next, RequestNext, CleanerNext, vars, FetchStart, FetchURL,
       FetchObject, CreateJar, NewJar, ExpireJar,
   ExpireToken, StartScrollRequest, StartJarRequest,
   CreateWrite, UploadStart, Authorize, PatchApply, PatchConflict,
   DeleteWrite, DeleteJarWrite, UploadStream, UploadConflict,
   Abandon, CleanerList, CleanerQuery, CleanerDelete, CleanerStop

-----------------------------------------------------------------------------
(* The inductive invariant. *)

\* The life of a row: deleted is for ever, an update only moves forward.
LEMMA RowStep ==
    ASSUME TypeOK, RequestShape, [Next]_vars, NEW s \in Scrolls
    PROVE  /\ scroll[s].state # "free" => scroll'[s].state # "free"
           /\ scroll[s].state = "deleted" => scroll'[s].state = "deleted"
           /\ IsRow(s)' => IsRow(s) \/ scroll[s].state = "free"
           /\ IsRow(s) /\ IsRow(s)' =>
                 /\ scroll'[s].jar = scroll[s].jar
                 /\ scroll[s].uploaded => scroll'[s].uploaded
                 /\ \/ scroll'[s] = scroll[s]
                    \/ scroll'[s].version = scroll[s].version + 1
<1>1. scroll[s] \in ScrollRows
    BY DEF TypeOK
<1>2. ASSUME NEW r \in Requests, PatchApply(r), request[r].scroll = s
      PROVE  /\ IsRow(s)
             /\ \E m \in Metadata : scroll'[s] = Edited(scroll[s], m)
    <2>1. Patched(r) \in Metadata
        BY DEF TypeOK, RequestRecords, Patched, Metadata
    <2> QED
        BY <1>2, <2>1 DEF PatchApply, Matches, TypeOK
<1>3. ASSUME NEW r \in Requests, UploadPublish(r), request[r].scroll = s
      PROVE  IsRow(s) /\ scroll'[s] = Published(scroll[s])
    BY <1>3 DEF UploadPublish, Matches, TypeOK
<1>4. CASE scroll'[s] = scroll[s]
    BY <1>4 DEF IsRow
<1>5. CASE /\ scroll[s].state = "free"
           /\ \E j \in Jars, m \in Metadata : scroll'[s] = NewScroll(j, m)
    BY <1>5 DEF IsRow, NewScroll
<1>6. CASE scroll[s].state # "free" /\ scroll'[s] = GoneScroll
    BY <1>6 DEF IsRow, GoneScroll, FreeScroll
<1>7. CASE \E r \in Requests : PatchApply(r) /\ request[r].scroll = s
    BY <1>1, <1>2, <1>7, EditedRow DEF IsRow
<1>8. CASE \E r \in Requests : UploadPublish(r) /\ request[r].scroll = s
    BY <1>1, <1>3, <1>8, PublishedRow DEF IsRow
<1> QED
    BY <1>4, <1>5, <1>6, <1>7, <1>8, ScrollStep

\* A request keeps what its operation needs, and ids that were drawn stay so.
LEMMA ShapeStep == IInv /\ [Next]_vars => RequestShape'
<1> SUFFICES ASSUME IInv, [Next]_vars, NEW r \in Requests
             PROVE  LET q == request'[r] IN
                    /\ q.op = "none" => q.pc = "idle"
                    /\ q.op = "upload" =>
                          q.pc \in {"stream", "mark"} /\ q.content # None
                    /\ q.op = "fetch" => q.pc \in {"jar", "url"}
                    /\ q.op \in {"patch", "delete", "upload", "fetch"} =>
                          /\ q.scroll \in Scrolls
                          /\ scroll'[q.scroll].state # "free"
                    /\ q.op \in {"patch", "delete", "create", "deleteJar"} =>
                          /\ q.pc \in {"authorize", "write"}
                          /\ q.user \in Users
                          /\ q.jar \in Jars /\ jar'[q.jar].state # "free"
    BY DEF RequestShape
<1>1. TypeOK /\ RequestShape
    BY DEF IInv
<1>2. /\ \A s \in Scrolls : scroll[s].state # "free"
                            => scroll'[s].state # "free"
      /\ \A j \in Jars : jar[j].state # "free" => jar'[j].state # "free"
    BY <1>1, RowStep, JarStep
<1>3. CASE request'[r] = request[r]
    BY <1>1, <1>2, <1>3 DEF RequestShape
<1>4. CASE request'[r] = Idle
    BY <1>4 DEF Idle
<1>5. CASE Authorize(r) /\ Goto(r, "write")
    <2>1. /\ request'[r].op = request[r].op
          /\ request'[r].pc = "write"
          /\ request'[r].scroll = request[r].scroll
          /\ request'[r].jar = request[r].jar
          /\ request'[r].user = request[r].user
          /\ request[r].pc = "authorize"
          /\ request[r].op \in Ops \cup {"none"}
        BY <1>1, <1>5 DEF Authorize, Goto, TypeOK, RequestRecords
    <2> QED
        BY <1>1, <1>2, <2>1 DEF RequestShape, Ops
<1>6. CASE UploadStream(r) /\ Goto(r, "mark")
    <2>1. /\ request'[r].op = "upload"
          /\ request[r].op = "upload"
          /\ request'[r].pc = "mark"
          /\ request'[r].scroll = request[r].scroll
          /\ request'[r].content = request[r].content
        BY <1>1, <1>6 DEF UploadStream, At, Goto, TypeOK, RequestRecords
    <2> QED
        BY <1>1, <1>2, <2>1 DEF RequestShape
<1>7. ASSUME NEW user \in Users, NEW input \in Metadata, NEW s \in Scrolls,
             NEW op \in {"patch", "delete"},
             StartScrollRequest(r, op, user, s, input)
      PROVE  /\ request'[r].op = op /\ request'[r].pc = "authorize"
             /\ request'[r].user = user /\ request'[r].scroll = s
             /\ request'[r].jar = scroll[s].jar
             /\ scroll[s].jar \in Jars /\ jar[scroll[s].jar].state # "free"
             /\ scroll[s].state # "free"
    BY <1>1, <1>7 DEF StartScrollRequest, Found, IsRow, JarLive, LiveStates,
                      TypeOK, IInv
<1>8. ASSUME NEW user \in Users, NEW input \in Metadata, NEW j \in Jars,
             NEW op \in {"create", "deleteJar"},
             StartJarRequest(r, op, user, j, input)
      PROVE  /\ request'[r].op = op /\ request'[r].pc = "authorize"
             /\ request'[r].user = user /\ request'[r].jar = j
             /\ jar[j].state # "free"
    BY <1>1, <1>8 DEF StartJarRequest, Idle, TypeOK
<1>9. ASSUME NEW s \in Scrolls, NEW c \in Contents, UploadStart(r, s, c)
      PROVE  /\ request'[r].op = "upload" /\ request'[r].pc = "stream"
             /\ request'[r].scroll = s /\ request'[r].content = c
             /\ scroll[s].state # "free" /\ c # None
    BY <1>1, <1>9 DEF UploadStart, Found, IsRow, Idle, TypeOK
<1>10. CASE \E user \in Users, input \in Metadata,
               s \in Scrolls, op \in {"patch", "delete"} :
                  StartScrollRequest(r, op, user, s, input)
    BY <1>2, <1>7, <1>10
<1>11. CASE \E user \in Users, input \in Metadata,
               j \in Jars, op \in {"create", "deleteJar"} :
                  StartJarRequest(r, op, user, j, input)
    BY <1>2, <1>8, <1>11
<1>12. CASE \E s \in Scrolls, c \in Contents : UploadStart(r, s, c)
    BY <1>2, <1>9, <1>12
<1>13. CASE \E s \in Scrolls : FetchStart(r, s)
    <2>1. PICK s \in Scrolls : /\ request'[r].op = "fetch"
                               /\ request'[r].pc = "jar"
                               /\ request'[r].scroll = s
                               /\ scroll[s].state # "free"
        BY <1>1, <1>13 DEF FetchStart, Found, IsRow, Idle, TypeOK
    <2> QED
        BY <1>2, <2>1
<1>14. CASE FetchURL(r) /\ Goto(r, "url")
    <2>1. /\ request'[r].op = "fetch" /\ request[r].op = "fetch"
          /\ request'[r].pc = "url"
          /\ request'[r].scroll = request[r].scroll
        BY <1>1, <1>14 DEF FetchURL, At, Goto, TypeOK, RequestRecords
    <2> QED
        BY <1>1, <1>2, <2>1 DEF RequestShape
<1> QED
    BY <1>1, <1>3, <1>4, <1>5, <1>6, <1>10, <1>11, <1>12, <1>13, <1>14,
       RequestStep

\* No step leaves a row without its jar row: a jar goes with its scrolls.
LEMMA RowInJarStep ==
    IInv /\ [Next]_vars =>
        \A s \in Scrolls : IsRow(s)' =>
            scroll'[s].jar \in Jars /\ jar'[scroll'[s].jar].state \in RowStates
<1> SUFFICES ASSUME IInv, [Next]_vars, NEW s \in Scrolls, IsRow(s)'
             PROVE  scroll'[s].jar \in Jars /\ jar'[scroll'[s].jar].state \in RowStates
    OBVIOUS
<1>1. TypeOK /\ RequestShape
    BY DEF IInv
<1>2. CASE IsRow(s)
    <2>1. /\ scroll'[s].jar = scroll[s].jar /\ scroll[s].jar \in Jars
          /\ JarRowExists(scroll[s].jar)
        BY <1>1, <1>2, RowStep DEF IInv, ScrollHasJar
    <2>2. jar[scroll[s].jar].state # "free"
        BY <2>1 DEF JarRowExists, RowStates, LiveStates
    <2> QED
        BY <1>1, <2>1, <2>2, JarStep DEF JarRowExists
<1>3. CASE ~IsRow(s)
    <2>1. scroll[s].state = "free"
        BY <1>1, <1>3, RowStep
    <2>2. PICK j \in Jars, m \in Metadata : /\ scroll'[s] = NewScroll(j, m)
                                            /\ JarRowExists(j)'
        <3>1. scroll'[s] # scroll[s]
            BY <1>3 DEF IsRow
        <3>2. \A r \in Requests :
                 ~ ((PatchApply(r) \/ UploadPublish(r))
                    /\ request[r].scroll = s)
            BY <1>3 DEF PatchApply, UploadPublish, Matches
        <3> QED
            BY <1>1, <2>1, <3>1, <3>2, ScrollStep
    <2>3. scroll'[s].jar = j
        BY <2>2 DEF NewScroll
    <2> QED
        BY <2>2, <2>3 DEF JarRowExists
<1> QED
    BY <1>2, <1>3

\* A request that passed the owner check stays the owner's: jars do not change
\* hands, rows do not change jars.
LEMMA WriterStep == IInv /\ [Next]_vars => WriterOwnsJar'
<1> SUFFICES ASSUME IInv, [Next]_vars, NEW r \in Requests
             PROVE  LET q == request'[r] IN
                    /\ q.pc = "write" /\ jar'[q.jar].state \in RowStates
                          => jar'[q.jar].owner = q.user
                    /\ q.op \in {"patch", "delete"} /\ scroll'[q.scroll].state = "row"
                          => scroll'[q.scroll].jar = q.jar
    BY DEF WriterOwnsJar, IsRow, JarRowExists
<1>1. TypeOK /\ RequestShape /\ WriterOwnsJar
    BY DEF IInv
<1>2. \A s \in Scrolls : scroll[s].state # "free" /\ IsRow(s)' =>
         IsRow(s) /\ scroll'[s].jar = scroll[s].jar
    BY <1>1, RowStep
<1>3. \A j \in Jars : jar[j].state # "free" /\ JarRowExists(j)' =>
         JarRowExists(j) /\ jar'[j].owner = jar[j].owner
    BY <1>1, JarStep
<1>4. request[r].pc = "write" => request[r].jar \in Jars
                                 /\ jar[request[r].jar].state # "free"
    BY <1>1 DEF RequestShape, TypeOK, RequestRecords, Ops
<1>5. CASE request'[r] = request[r]
    BY <1>1, <1>2, <1>3, <1>4, <1>5
    DEF WriterOwnsJar, RequestShape, IsRow, JarRowExists
<1>6. CASE request'[r] = Idle
    BY <1>6 DEF Idle
<1>7. CASE Authorize(r) /\ IsJarCreator(r) /\ Goto(r, "write")
    <2>1. /\ request'[r].op = request[r].op
          /\ request'[r].scroll = request[r].scroll
          /\ request'[r].jar = request[r].jar
          /\ request'[r].user = request[r].user
          /\ jar' = jar /\ scroll' = scroll
        BY <1>1, <1>7 DEF Authorize, Goto, TypeOK, RequestRecords
    <2> QED
        BY <1>1, <1>7, <2>1 DEF IsJarCreator, WriterOwnsJar, IsRow
<1>8. CASE UploadStream(r) /\ Goto(r, "mark")
    <2>1. request'[r].op = "upload" /\ request'[r].pc = "mark"
        BY <1>1, <1>8 DEF UploadStream, At, Goto, TypeOK, RequestRecords
    <2> QED
        BY <2>1
<1>9. CASE \E user \in Users, input \in Metadata,
              s \in Scrolls, op \in {"patch", "delete"} :
                 StartScrollRequest(r, op, user, s, input)
    <2>1. PICK s \in Scrolls : /\ request'[r].pc = "authorize"
                               /\ request'[r].scroll = s
                               /\ request'[r].jar = scroll[s].jar
                               /\ scroll' = scroll
        BY <1>1, <1>9 DEF StartScrollRequest, TypeOK
    <2> QED
        BY <2>1
<1>10. CASE \E user \in Users, input \in Metadata,
               j \in Jars, op \in {"create", "deleteJar"} :
                  StartJarRequest(r, op, user, j, input)
    <2>1. /\ request'[r].pc = "authorize"
          /\ request'[r].op \in {"create", "deleteJar"}
        BY <1>1, <1>10 DEF StartJarRequest, Idle, TypeOK
    <2> QED
        BY <2>1
<1>11. CASE \E s \in Scrolls, c \in Contents : UploadStart(r, s, c)
    <2>1. request'[r].pc = "stream" /\ request'[r].op = "upload"
        BY <1>1, <1>11 DEF UploadStart, Idle, TypeOK
    <2> QED
        BY <2>1
<1>12. CASE \E s \in Scrolls : FetchStart(r, s)
    <2>1. request'[r].pc = "jar" /\ request'[r].op = "fetch"
        BY <1>1, <1>12 DEF FetchStart, Idle, TypeOK
    <2> QED
        BY <2>1
<1>13. CASE FetchURL(r) /\ Goto(r, "url")
    <2>1. request'[r].pc = "url" /\ request'[r].op = "fetch"
        BY <1>1, <1>13 DEF FetchURL, At, Goto, TypeOK, RequestRecords
    <2> QED
        BY <2>1
<1> QED
    BY <1>1, <1>5, <1>6, <1>7, <1>8, <1>9, <1>10, <1>11, <1>12, <1>13,
       RequestStep

\* What r read is still as old, or as current, after the row has moved.
LEMMA ReadsStep == IInv /\ [Next]_vars => ReadsAreOld'
<1> SUFFICES ASSUME IInv, [Next]_vars, NEW r \in Requests,
                    request'[r].op \in {"patch", "upload"},
                    scroll'[request'[r].scroll].state = "row"
             PROVE  LET q == request'[r]
                        row == scroll'[q.scroll]
                    IN  /\ q.version <= row.version
                        /\ q.version = row.version =>
                              /\ q.op = "patch" => q.meta = row.meta
                              /\ q.op = "upload" => ~row.uploaded
    BY DEF ReadsAreOld, IsRow
<1>1. TypeOK /\ RequestShape /\ ReadsAreOld
    BY DEF IInv
<1>2. ASSUME request'[r].op = request[r].op,
             request'[r].scroll = request[r].scroll,
             request'[r].version = request[r].version,
             request'[r].meta = request[r].meta
      PROVE  LET q == request'[r]
                 row == scroll'[q.scroll]
             IN  /\ q.version <= row.version
                 /\ q.version = row.version =>
                       /\ q.op = "patch" => q.meta = row.meta
                       /\ q.op = "upload" => ~row.uploaded
    <2> DEFINE s == request[r].scroll
    <2>1. /\ s \in Scrolls /\ scroll[s].state # "free"
          /\ scroll'[s].state = "row"
        BY <1>1, <1>2 DEF RequestShape
    <2>2. IsRow(s) /\ \/ scroll'[s] = scroll[s]
                      \/ scroll'[s].version = scroll[s].version + 1
        <3>1. \A x \in Scrolls :
                 scroll[x].state # "free" /\ scroll'[x].state = "row" =>
                    IsRow(x) /\ \/ scroll'[x] = scroll[x]
                                \/ scroll'[x].version = scroll[x].version + 1
            BY <1>1, RowStep DEF IsRow
        <3> QED
            BY <2>1, <3>1
    <2>3. /\ request[r].version <= scroll[s].version
          /\ request[r].version = scroll[s].version =>
                /\ request[r].op = "patch" => request[r].meta = scroll[s].meta
                /\ request[r].op = "upload" => ~scroll[s].uploaded
        BY <1>1, <1>2, <2>2 DEF ReadsAreOld
    <2>4. request[r].version \in Nat /\ scroll[s].version \in Nat
        BY <1>1, <2>1 DEF TypeOK, RequestRecords, ScrollRows
    <2> QED
        BY <1>2, <2>2, <2>3, <2>4
<1>3. CASE request'[r] = Idle
    BY <1>3 DEF Idle
<1>4. CASE Authorize(r) /\ Goto(r, "write")
    BY <1>1, <1>2, <1>4 DEF Goto, TypeOK, RequestRecords
<1>5. CASE UploadStream(r) /\ Goto(r, "mark")
    BY <1>1, <1>2, <1>5 DEF Goto, TypeOK, RequestRecords
<1>6. CASE \E user \in Users, input \in Metadata,
              s \in Scrolls, op \in {"patch", "delete"} :
                 StartScrollRequest(r, op, user, s, input)
    <2>1. PICK s \in Scrolls : /\ request'[r].op \in {"patch", "delete"}
                               /\ request'[r].scroll = s
                               /\ request'[r].version = scroll[s].version
                               /\ request'[r].meta = scroll[s].meta
                               /\ scroll' = scroll
        BY <1>1, <1>6 DEF StartScrollRequest, TypeOK
    <2> QED
        BY <1>1, <2>1 DEF TypeOK, ScrollRows
<1>7. CASE \E user \in Users, input \in Metadata,
              j \in Jars, op \in {"create", "deleteJar"} :
                 StartJarRequest(r, op, user, j, input)
    BY <1>1, <1>7 DEF StartJarRequest, Idle, TypeOK
<1>8. CASE \E s \in Scrolls, c \in Contents : UploadStart(r, s, c)
    <2>1. PICK s \in Scrolls : /\ request'[r].op = "upload"
                               /\ request'[r].scroll = s
                               /\ request'[r].version = scroll[s].version
                               /\ ~scroll[s].uploaded
                               /\ scroll' = scroll
        BY <1>1, <1>8 DEF UploadStart, Idle, TypeOK
    <2> QED
        BY <1>1, <2>1 DEF TypeOK, ScrollRows
<1>9. CASE \E s \in Scrolls : FetchStart(r, s)
    BY <1>1, <1>9 DEF FetchStart, Idle, TypeOK
<1>10. CASE FetchURL(r) /\ Goto(r, "url")
    BY <1>1, <1>2, <1>10 DEF Goto, TypeOK, RequestRecords
<1> QED
    BY <1>1, <1>2, <1>3, <1>4, <1>5, <1>6, <1>7, <1>8, <1>9, <1>10,
       RequestStep

\* The object that r stored stays: the cleaner erases only deleted scrolls.
LEMMA MarkStep == IInv /\ [Next]_vars => MarkHasObject'
<1> SUFFICES ASSUME IInv, [Next]_vars, NEW r \in Requests,
                    request'[r].pc = "mark",
                    scroll'[request'[r].scroll].state = "row"
             PROVE  bucket'[request'[r].scroll] # None
    BY DEF MarkHasObject, IsRow
<1>1. TypeOK /\ RequestShape /\ MarkHasObject /\ CleanerKnows
    BY DEF IInv
<1>2. CASE request'[r] = request[r]
    <2> DEFINE s == request[r].scroll
    <2>1. s \in Scrolls /\ scroll[s].state # "free"
        <3>1. request[r].op = "upload"
            BY <1>1, <1>2 DEF RequestShape, TypeOK, RequestRecords, Ops
        <3> QED
            BY <1>1, <3>1 DEF RequestShape
    <2>2. \A x \in Scrolls : scroll[x].state # "free"
                             /\ scroll'[x].state = "row" => IsRow(x)
        BY <1>1, RowStep DEF IsRow
    <2>3. IsRow(s) /\ bucket[s] # None /\ s \notin cleaner.doomed
        BY <1>1, <1>2, <2>1, <2>2 DEF MarkHasObject, CleanerKnows, IsRow
    <2>4. ASSUME NEW q \in Requests, UploadStream(q), request[q].scroll = s
          PROVE  bucket'[s] # None
        <3>1. request[q].op = "upload" /\ request[q].content # None
            BY <1>1, <2>4 DEF UploadStream, At, RequestShape
        <3> QED
            BY <1>1, <2>1, <2>4, <3>1 DEF UploadStream, TypeOK
    <2>5. \/ bucket'[s] = bucket[s]
          \/ \E q \in Requests : UploadStream(q) /\ request[q].scroll = s
          \/ s \in cleaner.doomed
        BY <1>1, <2>1, BucketStep
    <2> QED
        BY <1>2, <2>3, <2>4, <2>5
<1>3. CASE request'[r] = Idle
    BY <1>3 DEF Idle
<1>4. CASE Authorize(r) /\ Goto(r, "write")
    BY <1>1, <1>4 DEF Goto, TypeOK, RequestRecords
<1>5. CASE UploadStream(r) /\ Goto(r, "mark")
    <2>1. /\ request[r].scroll \in Scrolls /\ request[r].content # None
          /\ request'[r].scroll = request[r].scroll
        BY <1>1, <1>5
        DEF UploadStream, At, Goto, RequestShape, TypeOK, RequestRecords
    <2> QED
        BY <1>1, <1>5, <2>1 DEF UploadStream, TypeOK
<1>6. CASE \E user \in Users, input \in Metadata,
              s \in Scrolls, op \in {"patch", "delete"} :
                 StartScrollRequest(r, op, user, s, input)
    BY <1>1, <1>6 DEF StartScrollRequest, TypeOK
<1>7. CASE \E user \in Users, input \in Metadata,
              j \in Jars, op \in {"create", "deleteJar"} :
                 StartJarRequest(r, op, user, j, input)
    BY <1>1, <1>7 DEF StartJarRequest, Idle, TypeOK
<1>8. CASE \E s \in Scrolls, c \in Contents : UploadStart(r, s, c)
    BY <1>1, <1>8 DEF UploadStart, Idle, TypeOK
<1>9. CASE \E s \in Scrolls : FetchStart(r, s)
    BY <1>1, <1>9 DEF FetchStart, Idle, TypeOK
<1>10. CASE FetchURL(r) /\ Goto(r, "url")
    BY <1>1, <1>10 DEF Goto, TypeOK, RequestRecords
<1> QED
    BY <1>1, <1>2, <1>3, <1>4, <1>5, <1>6, <1>7, <1>8, <1>9, <1>10,
       RequestStep

\* What the cleaner holds was drawn once, and what it dooms stays deleted.
LEMMA CleanerKnowsStep == IInv /\ [Next]_vars => CleanerKnows'
<1> SUFFICES ASSUME IInv, [Next]_vars  PROVE CleanerKnows'
    OBVIOUS
<1>1. TypeOK /\ RequestShape /\ CleanerKnows
    BY DEF IInv
<1>2. \A s \in Scrolls :
         /\ scroll[s].state # "free" => scroll'[s].state # "free"
         /\ scroll[s].state = "deleted" => scroll'[s].state = "deleted"
    BY <1>1, RowStep
<1>3. ASSUME NEW s \in Scrolls, bucket'[s] # None
      PROVE  scroll'[s].state # "free"
    <2>1. ASSUME NEW r \in Requests, UploadStream(r), request[r].scroll = s
          PROVE  scroll[s].state # "free"
        BY <1>1, <2>1 DEF UploadStream, At, RequestShape
    <2> QED
        BY <1>1, <1>2, <1>3, <2>1, BucketStep DEF CleanerKnows
<1>4. /\ cleaner.batch \subseteq Scrolls /\ cleaner.doomed \subseteq Scrolls
      /\ \A s \in Scrolls : scroll[s].state \in {"free", "row", "deleted"}
    BY <1>1 DEF TypeOK, CleanerRecords, ScrollRows
<1>5. CASE cleaner' = cleaner
    BY <1>1, <1>2, <1>3, <1>4, <1>5 DEF CleanerKnows
<1>6. CASE cleaner' = CleanerIdle
    BY <1>3, <1>6 DEF CleanerKnows, CleanerIdle
<1>7. CASE CleanerList
    <2>1. /\ cleaner'.batch \subseteq cleaner.batch \cup Stored
          /\ cleaner'.doomed = cleaner.doomed /\ scroll' = scroll
        BY <1>1, <1>7 DEF CleanerList, TypeOK, CleanerRecords
    <2> QED
        BY <1>1, <1>3, <2>1 DEF CleanerKnows, Stored
<1>8. CASE CleanerQuery
    BY <1>1, <1>3, <1>4, <1>8 DEF CleanerQuery, CleanerKnows, IsRow
<1>9. CASE cleaner' = [cleaner EXCEPT !.doomed = {}]
    <2>1. cleaner'.batch = cleaner.batch /\ cleaner'.doomed = {}
        BY <1>1, <1>9 DEF TypeOK, CleanerRecords
    <2> QED
        BY <1>1, <1>2, <1>3, <1>4, <2>1 DEF CleanerKnows
<1> QED
    BY <1>5, <1>6, <1>7, <1>8, <1>9, CleanerStep

\* The mark of an upload goes to a row that was not marked: updated_at of a
\* marked row is newer than what any upload in flight has read.
LEMMA MarkedOnce ==
    ASSUME IInv, NEW r \in Requests, UploadPublish(r)
    PROVE  /\ request[r].scroll \in Scrolls
           /\ request[r].content \in Contents
           /\ IsRow(request[r].scroll)
           /\ ~scroll[request[r].scroll].uploaded
           /\ bucket[request[r].scroll] # None
<1>1. TypeOK /\ RequestShape /\ ReadsAreOld /\ MarkHasObject
    BY DEF IInv
<1>2. request[r].op = "upload" /\ request[r].pc = "mark" /\ Matches(r)
    BY DEF UploadPublish, At
<1>3. request[r].scroll \in Scrolls /\ request[r].content \in Contents
    BY <1>1, <1>2 DEF RequestShape, TypeOK, RequestRecords
<1> QED
    BY <1>1, <1>2, <1>3 DEF Matches, ReadsAreOld, MarkHasObject

\* An acknowledged upload marked its row, which stays marked until it goes.
LEMMA AckedIsUploadedStep == IInv /\ [Next]_vars => AckedIsUploaded'
<1> SUFFICES ASSUME IInv, [Next]_vars, NEW s \in Scrolls, acked'[s] # <<>>
             PROVE  /\ Len(acked'[s]) = 1
                    /\ scroll'[s].state # "free"
                    /\ scroll'[s].state = "row" => scroll'[s].uploaded
    BY DEF AckedIsUploaded, IsRow
<1>1. TypeOK /\ RequestShape /\ AckedIsUploaded
    BY DEF IInv
<1>2. CASE acked'[s] = acked[s]
    BY <1>1, <1>2, RowStep DEF AckedIsUploaded, IsRow
<1>3. CASE acked'[s] # acked[s]
    <2>1. PICK r \in Requests : UploadPublish(r)
        BY <1>3, AckedStep
    <2>2. /\ request[r].scroll = s
          /\ acked'[s] = Append(acked[s], request[r].content)
        BY <1>1, <1>3, <2>1 DEF UploadPublish, TypeOK
    <2>3. acked[s] = <<>>
        BY <1>1, <2>1, <2>2, MarkedOnce DEF AckedIsUploaded
    <2>4. scroll'[s] = Published(scroll[s]) /\ scroll[s] \in ScrollRows
          /\ IsRow(s)
        BY <1>1, <2>1, <2>2, MarkedOnce DEF UploadPublish, TypeOK
    <2> QED
        BY <2>2, <2>3, <2>4, PublishedRow DEF IsRow
<1> QED
    BY <1>2, <1>3

\* A marked row keeps its object: marks follow objects, deletions follow rows.
LEMMA PublishedStep == IInv /\ [Next]_vars => PublishedHasObject'
<1> SUFFICES ASSUME IInv, [Next]_vars, NEW s \in Scrolls,
                    scroll'[s].state = "row", scroll'[s].uploaded
             PROVE  bucket'[s] # None
    BY DEF PublishedHasObject, IsRow
<1>1. TypeOK /\ RequestShape /\ CleanerKnows /\ PublishedHasObject
    BY DEF IInv
<1>2. IsRow(s) /\ bucket[s] # None
    <2>1. CASE IsRow(s) /\ scroll[s].uploaded
        BY <1>1, <2>1 DEF PublishedHasObject
    <2>2. ASSUME NEW r \in Requests, UploadPublish(r), request[r].scroll = s
          PROVE  IsRow(s) /\ bucket[s] # None
        BY <2>2, MarkedOnce
    <2>3. ASSUME NEW r \in Requests, PatchApply(r), request[r].scroll = s
          PROVE  IsRow(s) /\ scroll[s].uploaded
        <3>1. Patched(r) \in Metadata /\ scroll[s] \in ScrollRows
            BY <1>1 DEF TypeOK, RequestRecords, Patched, Metadata
        <3>2. scroll'[s] = Edited(scroll[s], Patched(r)) /\ IsRow(s)
            BY <1>1, <2>3 DEF PatchApply, Matches, TypeOK
        <3> QED
            BY <3>1, <3>2, EditedRow
    <2>4. ASSUME NEW j \in Jars, NEW m \in Metadata,
                 scroll'[s] = NewScroll(j, m)
          PROVE  FALSE
        <3>1. scroll'[s].uploaded = FALSE
            BY <2>4 DEF NewScroll
        <3> QED
            BY <3>1
    <2>5. scroll'[s] # GoneScroll
        BY DEF GoneScroll, FreeScroll
    <2>6. CASE scroll'[s] = scroll[s]
        BY <2>1, <2>6 DEF IsRow
    <2> QED
        BY <1>1, <2>1, <2>2, <2>3, <2>4, <2>5, <2>6, ScrollStep
<1>3. ASSUME NEW r \in Requests, UploadStream(r), request[r].scroll = s
      PROVE  bucket'[s] # None
    BY <1>1, <1>3 DEF UploadStream, At, RequestShape, TypeOK
<1>4. s \notin cleaner.doomed
    BY <1>1, <1>2 DEF CleanerKnows, IsRow
<1> QED
    BY <1>1, <1>2, <1>3, <1>4, BucketStep

\* Tokens of ids that were drawn: an id is never undrawn.
LEMMA TokensStep == IInv /\ [Next]_vars => TokensAreIssued'
<1> SUFFICES ASSUME IInv, [Next]_vars, NEW s \in Scrolls, token'[s] # {}
             PROVE  scroll'[s].state # "free"
    BY DEF TokensAreIssued
<1>1. TypeOK /\ RequestShape /\ TokensAreIssued
    BY DEF IInv
<1> QED
    BY <1>1, TokenStep, RowStep DEF TokensAreIssued

\* The row that a PATCH or a GET has read stays uploaded for as long as it is there.
LEMMA UploadedReadsStep == IInv /\ [Next]_vars => ReadsUploaded'
<1> SUFFICES ASSUME IInv, [Next]_vars, NEW r \in Requests,
                    request'[r].op \in {"patch", "fetch"},
                    scroll'[request'[r].scroll].state = "row"
             PROVE  scroll'[request'[r].scroll].uploaded
    BY DEF ReadsUploaded, IsRow
<1>1. TypeOK /\ RequestShape /\ ReadsUploaded
    BY DEF IInv
<1>2. \A s \in Scrolls : scroll[s].state # "free" /\ scroll'[s].state = "row" =>
         IsRow(s) /\ (scroll[s].uploaded => scroll'[s].uploaded)
    BY <1>1, RowStep DEF IsRow
<1>3. CASE request'[r].op = request[r].op /\ request'[r].scroll = request[r].scroll
    BY <1>1, <1>2, <1>3 DEF ReadsUploaded, RequestShape
<1>4. CASE request'[r] = Idle
    BY <1>4 DEF Idle
<1>5. CASE Authorize(r) /\ IsJarCreator(r) /\ Goto(r, "write")
    BY <1>1, <1>3, <1>5 DEF Goto, TypeOK, RequestRecords
<1>6. CASE UploadStream(r) /\ Goto(r, "mark")
    BY <1>1, <1>3, <1>6 DEF Goto, TypeOK, RequestRecords
<1>7. CASE \E user \in Users, input \in Metadata,
              s \in Scrolls, op \in {"patch", "delete"} :
                 StartScrollRequest(r, op, user, s, input)
    <2>1. PICK user \in Users, input \in Metadata,
               s \in Scrolls, op \in {"patch", "delete"} :
                  StartScrollRequest(r, op, user, s, input)
        BY <1>7
    <2>2. request'[r].op = op /\ request'[r].scroll = s /\ scroll' = scroll
        BY <1>1, <2>1 DEF StartScrollRequest, TypeOK
    <2> QED
        BY <2>1, <2>2 DEF StartScrollRequest
<1>8. CASE \E user \in Users, input \in Metadata,
              j \in Jars, op \in {"create", "deleteJar"} :
                 StartJarRequest(r, op, user, j, input)
    <2>1. request'[r].op \in {"create", "deleteJar"}
        BY <1>1, <1>8 DEF StartJarRequest, Idle, TypeOK
    <2> QED
        BY <2>1
<1>9. CASE \E s \in Scrolls, c \in Contents : UploadStart(r, s, c)
    <2>1. request'[r].op = "upload"
        BY <1>1, <1>9 DEF UploadStart, Idle, TypeOK
    <2> QED
        BY <2>1
<1>10. CASE request'[r] = request[r]
    BY <1>3, <1>10
<1>11. CASE \E s \in Scrolls : FetchStart(r, s)
    <2>1. PICK s \in Scrolls : FetchStart(r, s)
        BY <1>11
    <2>2. request'[r].scroll = s /\ scroll' = scroll
        BY <1>1, <2>1 DEF FetchStart, Idle, TypeOK
    <2> QED
        BY <2>1, <2>2 DEF FetchStart
<1>12. CASE FetchURL(r) /\ Goto(r, "url")
    BY <1>1, <1>3, <1>12 DEF Goto, TypeOK, RequestRecords
<1> QED
    BY <1>1, <1>4, <1>5, <1>6, <1>7, <1>8, <1>9, <1>10, <1>11, <1>12,
       RequestStep

\* A PATCH token is issued for a row that is uploaded, and such rows stay so.
LEMMA InertStep == IInv /\ [Next]_vars => PatchTokenInert'
<1> SUFFICES ASSUME IInv, [Next]_vars, NEW s \in Scrolls,
                    scroll'[s].state = "row", "patch" \in token'[s]
             PROVE  scroll'[s].uploaded
    BY DEF PatchTokenInert, IsRow
<1>1. /\ TypeOK /\ RequestShape /\ TokensAreIssued
      /\ ReadsUploaded /\ PatchTokenInert
    BY DEF IInv
<1>2. scroll[s].state # "free" =>
         IsRow(s) /\ (scroll[s].uploaded => scroll'[s].uploaded)
    BY <1>1, RowStep DEF IsRow
<1>3. CASE "patch" \in token[s]
    BY <1>1, <1>2, <1>3 DEF TokensAreIssued, PatchTokenInert
<1>4. ASSUME NEW r \in Requests, PatchApply(r), request[r].scroll = s
      PROVE  scroll'[s].uploaded
    <2>1. request[r].op = "patch" /\ IsRow(s)
        BY <1>4 DEF PatchApply, At, Matches
    <2>2. scroll[s].state # "free" /\ scroll[s].uploaded
        BY <1>1, <1>4, <2>1 DEF ReadsUploaded, IsRow
    <2> QED
        BY <1>2, <2>2
<1> QED
    BY <1>1, <1>3, <1>4, TokenStep

\* The invariant holds at the start.
LEMMA InitInv == Init => IInv
<1> SUFFICES ASSUME Init  PROVE IInv
    OBVIOUS
<1>1. TypeOK
    BY InitType
<1>2. /\ \A r \in Requests : request[r] = Idle
      /\ \A s \in Scrolls : /\ scroll[s].state = "free"
                            /\ bucket[s] = None /\ acked[s] = <<>>
                            /\ token[s] = {}
      /\ cleaner.batch = {} /\ cleaner.doomed = {}
    BY DEF Init, FreeScroll, CleanerIdle
<1>3. /\ RequestShape /\ WriterOwnsJar /\ ReadsAreOld /\ MarkHasObject
      /\ ReadsUploaded
    BY <1>2 DEF RequestShape, WriterOwnsJar, ReadsAreOld, MarkHasObject,
       ReadsUploaded, Idle
<1> QED
    BY <1>1, <1>2, <1>3 DEF IInv, CleanerKnows, AckedIsUploaded,
       PublishedHasObject, ScrollHasJar, TokensAreIssued, PatchTokenInert, IsRow

\* Every step keeps the invariant.
LEMMA StepInv == IInv /\ [Next]_vars => IInv'
<1> SUFFICES ASSUME IInv, [Next]_vars  PROVE IInv'
    OBVIOUS
<1>1. TypeOK'
    BY StepType DEF IInv
<1>2. (\A s \in Scrolls : IsRow(s) => scroll[s].jar \in Jars)'
      /\ ScrollHasJar'
    BY RowInJarStep DEF ScrollHasJar, JarRowExists, IsRow
<1> QED
    BY <1>1, <1>2, ShapeStep, WriterStep, ReadsStep, MarkStep,
       CleanerKnowsStep, AckedIsUploadedStep, PublishedStep,
       TokensStep, UploadedReadsStep, InertStep
    DEF IInv

\* Every reachable state satisfies the inductive invariant.
THEOREM Inductive == Spec => []IInv
BY InitInv, StepInv, PTL DEF Spec

-----------------------------------------------------------------------------
(* The properties. *)

\* Every reachable state is well typed.
THEOREM TypeCorrect == Spec => []TypeOK
<1>1. IInv => TypeOK
    BY DEF IInv
<1> QED
    BY <1>1, Inductive, PTL

\* A row marked uploaded has an object, however uploads, edits, deletions,
\* failures and cleaner runs interleave.
THEOREM PublishedSafe == Spec => []PublishedHasObject
<1>1. IInv => PublishedHasObject
    BY DEF IInv
<1> QED
    BY <1>1, Inductive, PTL

\* A URL that was handed out finds an object as long as the scroll is there.
THEOREM UrlsFindObjects == Spec => []UrlFindsObject
<1>1. IInv => UrlFindsObject
    <2> SUFFICES ASSUME IInv, NEW r \in Requests, At(r, "fetch", "url"),
                        IsRow(request[r].scroll)
                 PROVE  bucket[request[r].scroll] # None
        BY DEF UrlFindsObject
    <2>1. request[r].op = "fetch"
        BY DEF At
    <2>2. request[r].scroll \in Scrolls /\ scroll[request[r].scroll].uploaded
        BY <2>1 DEF IInv, RequestShape, ReadsUploaded
    <2> QED
        BY <2>2 DEF IInv, PublishedHasObject
<1> QED
    BY <1>1, Inductive, PTL

\* Of all the uploads of a scroll at most one is ever acknowledged.
THEOREM AcknowledgedOnce == Spec => []SingleAck
<1>1. IInv => SingleAck
    <2> SUFFICES ASSUME IInv, NEW s \in Scrolls  PROVE Len(acked[s]) <= 1
        BY DEF SingleAck
    <2>1. CASE acked[s] = <<>>
        BY <2>1
    <2>2. CASE acked[s] # <<>>
        <3>1. AckedIsUploaded
            BY DEF IInv
        <3>2. Len(acked[s]) = 1
            BY <2>2, <3>1 DEF AckedIsUploaded
        <3> QED
            BY <3>2
    <2> QED
        BY <2>1, <2>2
<1> QED
    BY <1>1, Inductive, PTL

\* A scroll row never outlives its jar row.
THEOREM ScrollsHaveJars == Spec => []ScrollHasJar
<1>1. IInv => ScrollHasJar
    BY DEF IInv
<1> QED
    BY <1>1, Inductive, PTL

\* A token from PATCH never opens a published scroll to a second upload.
THEOREM PatchTokensInert == Spec => []PatchTokenInert
<1>1. IInv => PatchTokenInert
    BY DEF IInv
<1> QED
    BY <1>1, Inductive, PTL

\* The cleaner takes an object only when its row is gone for good.
THEOREM OnlyOrphansDeleted == Spec => CleanerDeletesOnlyOrphans
<1>1. ASSUME IInv, [Next]_vars, NEW s \in Scrolls,
             bucket[s] # None, bucket'[s] = None
      PROVE  scroll[s].state = "deleted" /\ scroll'[s].state = "deleted"
    <2>1. TypeOK /\ RequestShape /\ CleanerKnows
        BY <1>1 DEF IInv
    <2>2. ASSUME NEW r \in Requests, UploadStream(r), request[r].scroll = s
          PROVE  bucket'[s] # None
        BY <2>1, <2>2 DEF UploadStream, At, RequestShape, TypeOK
    <2>3. s \in cleaner.doomed /\ scroll' = scroll
        BY <1>1, <2>1, <2>2, BucketStep
    <2> QED
        BY <2>1, <2>3 DEF CleanerKnows
<1>2. IInv /\ [Next]_vars =>
         [\A s \in Scrolls : bucket[s] # None /\ bucket'[s] = None =>
             scroll[s].state = "deleted" /\ scroll'[s].state = "deleted"]_vars
    BY <1>1
<1> QED
    BY <1>2, Inductive, PTL DEF Spec, CleanerDeletesOnlyOrphans

\* A PATCH changes nothing but the fields that its client sent: a field that the
\* request did not carry is None in its input, and keeps what the row holds now.
THEOREM PatchesKeepOtherFields == Spec => PatchTouchesOnlyItsFields
<1>1. ASSUME IInv, [Next]_vars, NEW s \in Scrolls,
             IsRow(s), scroll'[s].state = "row",
             NEW f \in Fields, scroll'[s].meta[f] # scroll[s].meta[f]
      PROVE  \E r \in Requests : /\ At(r, "patch", "write")
                                 /\ request'[r] # request[r]
                                 /\ request[r].scroll = s
                                 /\ request[r].input[f] # None
                                 /\ request[r].input[f] = scroll'[s].meta[f]
    <2>1. TypeOK /\ RequestShape /\ ReadsAreOld
        BY <1>1 DEF IInv
    <2>2. scroll[s] \in ScrollRows
        BY <2>1 DEF TypeOK
    <2>3. ~ \E r \in Requests : UploadPublish(r) /\ request[r].scroll = s
        <3>1. ASSUME NEW r \in Requests, UploadPublish(r),
                     request[r].scroll = s
              PROVE  scroll'[s] = Published(scroll[s])
            BY <2>1, <3>1 DEF UploadPublish, TypeOK
        <3> QED
            BY <1>1, <2>2, <3>1, PublishedRow
    <2>4. PICK r \in Requests : PatchApply(r) /\ request[r].scroll = s
        <3>1. scroll'[s] # scroll[s] /\ scroll'[s] # GoneScroll
              /\ scroll[s].state # "free"
            BY <1>1 DEF IsRow, GoneScroll, FreeScroll
        <3> QED
            BY <1>1, <2>1, <2>3, <3>1, ScrollStep
    <2>5. request[r].meta = scroll[s].meta
        BY <1>1, <2>1, <2>4 DEF PatchApply, At, Matches, ReadsAreOld
    <2>6. scroll'[s].meta = Patched(r)
        <3>1. Patched(r) \in Metadata
            BY <2>1 DEF TypeOK, RequestRecords, Patched, Metadata
        <3>2. scroll'[s] = Edited(scroll[s], Patched(r))
            BY <2>1, <2>4 DEF PatchApply, TypeOK
        <3> QED
            BY <2>2, <3>1, <3>2, EditedRow
    <2>7. request[r].input[f] # None /\ request[r].input[f] = scroll'[s].meta[f]
        <3>1. Patched(r)[f] = IF request[r].input[f] = None
                              THEN scroll[s].meta[f] ELSE request[r].input[f]
            BY <1>1, <2>5 DEF Patched
        <3> QED
            BY <1>1, <2>6, <3>1
    <2>8. request'[r] # request[r]
        BY <2>1, <2>4 DEF PatchApply, At, Finish, Idle, TypeOK
    <2> QED
        BY <2>4, <2>7, <2>8 DEF PatchApply
<1>2. IInv /\ [Next]_vars =>
         [\A s \in Scrolls : IsRow(s) /\ scroll'[s].state = "row" =>
             \A f \in Fields : scroll'[s].meta[f] # scroll[s].meta[f] =>
                \E r \in Requests : /\ At(r, "patch", "write")
                                    /\ request'[r] # request[r]
                                    /\ request[r].scroll = s
                                    /\ request[r].input[f] # None
                                    /\ request[r].input[f]
                                         = scroll'[s].meta[f]]_vars
    BY <1>1
<1> QED
    BY <1>2, Inductive, PTL DEF Spec, PatchTouchesOnlyItsFields

\* Rows change hands with nobody: only the owner's requests write them.
THEOREM OnlyOwnersWrite == Spec => OnlyCreatorChanges
<1>1. ASSUME IInv, [Next]_vars, NEW s \in Scrolls, IsRow(s),
             scroll'[s].state # "row" \/ scroll'[s].meta # scroll[s].meta
      PROVE  \E r \in Requests : /\ request[r].pc = "write"
                                 /\ request[r].user # None
                                 /\ request[r].user = jar[scroll[s].jar].owner
    <2>1. /\ TypeOK /\ RequestShape /\ WriterOwnsJar
          /\ JarRowExists(scroll[s].jar)
        BY <1>1 DEF IInv, ScrollHasJar
    <2>2. ASSUME NEW r \in Requests, request[r].pc = "write",
                 request[r].jar = scroll[s].jar,
                 request[r].op \in Ops \ {"upload", "fetch"}
          PROVE  /\ request[r].user # None
                 /\ request[r].user = jar[scroll[s].jar].owner
        BY <2>1, <2>2 DEF RequestShape, WriterOwnsJar, Ops
    <2>3. ASSUME NEW r \in Requests, request[r].scroll = s,
                 PatchApply(r) \/ DeleteWrite(r)
          PROVE  /\ request[r].pc = "write" /\ request[r].jar = scroll[s].jar
                 /\ request[r].op \in Ops \ {"upload", "fetch"}
        BY <1>1, <2>1, <2>3
        DEF PatchApply, DeleteWrite, At, WriterOwnsJar, Ops
    <2>4. ASSUME NEW r \in Requests, DeleteJarWrite(r)
          PROVE  /\ request[r].pc = "write"
                 /\ request[r].op \in Ops \ {"upload", "fetch"}
        BY <2>4 DEF DeleteJarWrite, At, Ops
    <2>5. ~ \E r \in Requests : UploadPublish(r) /\ request[r].scroll = s
        <3>1. ASSUME NEW r \in Requests, UploadPublish(r),
                     request[r].scroll = s
              PROVE  scroll'[s] = Published(scroll[s])
                     /\ scroll[s] \in ScrollRows
            BY <2>1, <3>1 DEF UploadPublish, TypeOK
        <3> QED
            BY <1>1, <3>1, PublishedRow DEF IsRow
    <2>6. scroll'[s] # scroll[s] /\ scroll[s].state # "free"
        BY <1>1 DEF IsRow
    <2>7. \/ \E r \in Requests : DeleteWrite(r) /\ request[r].scroll = s
          \/ \E r \in Requests : /\ DeleteJarWrite(r)
                                 /\ scroll[s].jar = request[r].jar
          \/ \E r \in Requests : PatchApply(r) /\ request[r].scroll = s
        BY <1>1, <2>1, <2>5, <2>6, ScrollStep
    <2> QED
        BY <2>2, <2>3, <2>4, <2>7
<1>2. IInv /\ [Next]_vars =>
         [\A s \in Scrolls :
             IsRow(s) /\ (scroll'[s].state # "row"
                          \/ scroll'[s].meta # scroll[s].meta) =>
                \E r \in Requests : /\ request[r].pc = "write"
                                    /\ request[r].user # None
                                    /\ request[r].user
                                         = jar[scroll[s].jar].owner]_vars
    BY <1>1
<1> QED
    BY <1>2, Inductive, PTL DEF Spec, OnlyCreatorChanges

-----------------------------------------------------------------------------
(* The service implements PasteStore. *)

\* The stage of an id, by the state of its row.
LEMMA StageOf ==
    \A s \in Scrolls :
        /\ scroll[s].state = "free" => Stage(s) = "free"
        /\ scroll[s].state = "deleted" => Stage(s) = "removed"
        /\ scroll[s].state = "row" /\ scroll[s].uploaded
              => Stage(s) = "published"
        /\ scroll[s].state = "row" /\ ~scroll[s].uploaded
              => Stage(s) = "reserved"
BY DEF Stage, IsRow

\* The same after the step.
LEMMA StageOfNext ==
    \A s \in Scrolls :
        /\ scroll'[s].state = "free" => Stage(s)' = "free"
        /\ scroll'[s].state = "deleted" => Stage(s)' = "removed"
        /\ scroll'[s].state = "row" /\ scroll'[s].uploaded
              => Stage(s)' = "published"
        /\ scroll'[s].state = "row" /\ ~scroll'[s].uploaded
              => Stage(s)' = "reserved"
BY DEF Stage, IsRow

\* A step that leaves the rows alone leaves the stages alone.
LEMMA SameStages ==
    scroll' = scroll => [s \in Scrolls |-> Stage(s)]'
                           = [s \in Scrolls |-> Stage(s)]
BY DEF Stage, IsRow

\* So does, for one id, a step that keeps its state and its mark.
LEMMA SameStage ==
    ASSUME NEW s \in Scrolls, scroll'[s].state = scroll[s].state,
           scroll'[s].uploaded = scroll[s].uploaded
    PROVE  Stage(s)' = Stage(s)
BY DEF Stage, IsRow

\* A step that moves a set of ids to one stage, as PasteStore writes it.
LEMMA MovedStages ==
    ASSUME NEW S \in SUBSET Scrolls, NEW to,
           \A s \in S : Stage(s)' = to,
           \A s \in Scrolls \ S : Stage(s)' = Stage(s)
    PROVE  [s \in Scrolls |-> Stage(s)]'
              = [s \in Scrolls |-> IF s \in S THEN to
                                   ELSE [x \in Scrolls |-> Stage(x)][s]]
OBVIOUS

\* A step that leaves the bucket alone leaves what is stored alone.
LEMMA SameStored == bucket' = bucket => Stored' = Stored
BY DEF Stored

\* Every step of the service is a step of PasteStore or changes nothing there.
LEMMA StoreStep ==
    IInv /\ [Next]_vars => [Store!StoreNext]_(Store!storeVars)
<1> SUFFICES ASSUME IInv, [Next]_vars
             PROVE  [Store!StoreNext]_(Store!storeVars)
    OBVIOUS
<1> DEFINE stage == [s \in Scrolls |-> Stage(s)]
<1>1. TypeOK /\ RequestShape
    BY DEF IInv
<1>2. ASSUME stage' = stage, Stored' = Stored
      PROVE  UNCHANGED Store!storeVars
    BY <1>2 DEF Store!storeVars
<1>3. ASSUME NEW S \in SUBSET Scrolls, NEW j \in Jars, NEW m \in Metadata,
             \A s \in S : scroll[s].state = "free",
             scroll' = [s \in Scrolls |-> IF s \in S THEN NewScroll(j, m)
                                                     ELSE scroll[s]],
             bucket' = bucket
      PROVE  Store!Reserve(S)
    <2>1. \A s \in S : stage[s] = "free"
        BY <1>3, StageOf
    <2>2. stage' = [s \in Scrolls |-> IF s \in S THEN "reserved"
                                                 ELSE stage[s]]
        <3>1. \A s \in S : Stage(s)' = "reserved"
            <4>1. \A s \in S : scroll'[s].state = "row"
                              /\ ~scroll'[s].uploaded
                BY <1>3 DEF NewScroll
            <4> QED
                BY <4>1, StageOfNext
        <3>2. \A s \in Scrolls \ S : Stage(s)' = Stage(s)
            BY <1>3, SameStage
        <3> QED
            BY <3>1, <3>2, MovedStages
    <2> QED
        BY <1>3, <2>1, <2>2, SameStored DEF Store!Reserve, Store!Move
<1>4. ASSUME NEW S \in SUBSET Scrolls, RemoveRows(S),
             \A s \in S : IsRow(s), bucket' = bucket
      PROVE  Store!Remove(S)
    <2>1. \A s \in S : stage[s] \in {"reserved", "published"}
        BY <1>4, StageOf DEF IsRow
    <2>2. stage' = [s \in Scrolls |-> IF s \in S THEN "removed"
                                                 ELSE stage[s]]
        <3>1. \A s \in S : Stage(s)' = "removed"
            BY <1>4, StageOfNext DEF RemoveRows, GoneScroll, FreeScroll
        <3>2. \A s \in Scrolls \ S : Stage(s)' = Stage(s)
            BY <1>4, SameStage DEF RemoveRows
        <3> QED
            BY <3>1, <3>2, MovedStages
    <2> QED
        BY <1>4, <2>1, <2>2, SameStored DEF Store!Remove, Store!Move
<1>5. CASE \E j \in Jars, S \in SUBSET Scrolls, user \in Users \cup {None},
              state \in LiveStates, m \in Metadata :
                 CreateJar(j, S, user, state, m)
    <2>1. PICK j \in Jars, S \in SUBSET Scrolls, user \in Users \cup {None},
               state \in LiveStates, m \in Metadata :
                  CreateJar(j, S, user, state, m)
        BY <1>5
    <2> QED
        BY <1>3, <2>1 DEF CreateJar, NewJar, Store!StoreNext
<1>6. ASSUME NEW r \in Requests, NEW s \in Scrolls, CreateWrite(r, s)
      PROVE  Store!Reserve({s})
    <2>1. request[r].jar \in Jars /\ request[r].input \in Metadata
        BY <1>1, <1>6 DEF CreateWrite, At, RequestShape, TypeOK,
                          RequestRecords
    <2>2. scroll' = [x \in Scrolls |->
                       IF x \in {s} THEN NewScroll(request[r].jar,
                                                   request[r].input)
                                    ELSE scroll[x]]
        BY <1>1, <1>6 DEF CreateWrite, TypeOK
    <2>3. /\ {s} \in SUBSET Scrolls /\ bucket' = bucket
          /\ \A x \in {s} : scroll[x].state = "free"
        BY <1>6 DEF CreateWrite
    <2> QED
        BY <1>3, <2>1, <2>2, <2>3
<1>7. ASSUME NEW r \in Requests, DeleteWrite(r)
      PROVE  Store!StoreNext \/ UNCHANGED Store!storeVars
    <2>1. PICK s \in Scrolls : /\ scroll[s].state # "free"
                               /\ RemoveRows({s}) /\ bucket' = bucket
        BY <1>1, <1>7 DEF DeleteWrite, At, RequestShape
    <2>2. CASE IsRow(s)
        BY <1>4, <2>1, <2>2 DEF Store!StoreNext
    <2>3. CASE ~IsRow(s)
        <3>1. scroll[s].state = "deleted"
            BY <1>1, <2>1, <2>3 DEF IsRow, TypeOK, ScrollRows
        <3>2. stage' = stage
            <4>1. Stage(s)' = "removed" /\ Stage(s) = "removed"
                BY <2>1, <3>1, StageOf, StageOfNext
                DEF RemoveRows, GoneScroll, FreeScroll
            <4>2. \A x \in Scrolls \ {s} : Stage(x)' = Stage(x)
                BY <2>1, SameStage DEF RemoveRows
            <4> QED
                BY <2>1, <4>1, <4>2
        <3> QED
            BY <1>2, <2>1, <3>2, SameStored
    <2> QED
        BY <2>2, <2>3
<1>8. ASSUME NEW r \in Requests, DeleteJarWrite(r)
      PROVE  Store!StoreNext
    <2>1. Store!Remove(ScrollsOf(request[r].jar))
        BY <1>4, <1>8 DEF DeleteJarWrite, ScrollsOf
    <2>2. ScrollsOf(request[r].jar) \in SUBSET Scrolls
        BY DEF ScrollsOf
    <2> QED
        BY <2>1, <2>2 DEF Store!StoreNext
<1>9. ASSUME NEW r \in Requests, PatchApply(r)
      PROVE  UNCHANGED Store!storeVars
    <2>1. request[r].scroll \in Scrolls /\ Patched(r) \in Metadata
        BY <1>1, <1>9 DEF PatchApply, At, RequestShape, TypeOK,
                          RequestRecords, Patched, Metadata
    <2>2. \A s \in Scrolls : /\ scroll'[s].state = scroll[s].state
                             /\ scroll'[s].uploaded = scroll[s].uploaded
        BY <1>1, <1>9, <2>1, EditedRow DEF PatchApply, TypeOK
    <2>3. stage' = stage
        BY <2>2, SameStage
    <2> QED
        BY <1>2, <1>9, <2>3, SameStored DEF PatchApply
<1>10. ASSUME NEW r \in Requests, UploadStream(r)
       PROVE  \E s \in Scrolls : Store!StoreContent(s)
    <2> DEFINE s == request[r].scroll
    <2>1. s \in Scrolls /\ scroll[s].state # "free"
          /\ request[r].content # None
        BY <1>1, <1>10 DEF UploadStream, At, RequestShape
    <2>2. Stored' = Stored \cup {s}
        BY <1>1, <1>10, <2>1 DEF UploadStream, Stored, TypeOK
    <2>3. stage[s] # "free"
        BY <1>1, <2>1, StageOf DEF TypeOK, ScrollRows
    <2>4. stage' = stage
        BY <1>10, SameStages DEF UploadStream
    <2> QED
        BY <2>1, <2>2, <2>3, <2>4 DEF Store!StoreContent
<1>11. ASSUME NEW r \in Requests, UploadPublish(r)
       PROVE  \E s \in Scrolls : Store!Publish(s)
    <2> DEFINE s == request[r].scroll
    <2>1. s \in Stored /\ stage[s] = "reserved"
        BY <1>11, MarkedOnce, StageOf DEF Stored, IsRow
    <2>2. /\ scroll' = [scroll EXCEPT ![s] = Published(scroll[s])]
          /\ s \in Scrolls /\ scroll[s] \in ScrollRows /\ IsRow(s)
        BY <1>1, <1>11, MarkedOnce DEF UploadPublish, TypeOK
    <2>3. Published(scroll[s]).state = "row" /\ Published(scroll[s]).uploaded
        BY <2>2, PublishedRow DEF IsRow
    <2>4. stage' = [x \in Scrolls |-> IF x \in {s} THEN "published"
                                                   ELSE stage[x]]
        <3>1. scroll'[s] = Published(scroll[s])
            BY <1>1, <2>2 DEF TypeOK
        <3>2. \A x \in {s} : Stage(x)' = "published"
            BY <2>2, <2>3, <3>1, StageOfNext
        <3>3. \A x \in Scrolls \ {s} : scroll'[x] = scroll[x]
            BY <1>1, <2>2 DEF TypeOK
        <3>4. \A x \in Scrolls \ {s} : Stage(x)' = Stage(x)
            BY <3>3, SameStage
        <3> QED
            BY <2>2, <3>2, <3>4, MovedStages
    <2>5. Stored' = Stored
        BY <1>11, SameStored DEF UploadPublish
    <2> QED
        BY <2>1, <2>2, <2>4, <2>5 DEF Store!Publish, Store!Move
<1>12. CASE CleanerDelete
    <2>1. PICK D \in SUBSET cleaner.doomed :
              bucket' = [s \in Scrolls |-> IF s \in D THEN None
                                                      ELSE bucket[s]]
        BY <1>12 DEF CleanerDelete
    <2>2. D \in SUBSET Scrolls /\ \A s \in D : stage[s] = "removed"
        BY <1>1, StageOf DEF IInv, CleanerKnows, TypeOK, CleanerRecords
    <2>3. Stored' = Stored \ D /\ stage' = stage
        BY <1>12, <2>1, SameStages DEF CleanerDelete, Stored
    <2>4. Store!Reclaim(D)
        BY <2>2, <2>3 DEF Store!Reclaim
    <2> QED
        BY <2>2, <2>4 DEF Store!StoreNext
<1>13. CASE scroll' = scroll /\ bucket' = bucket
    BY <1>2, <1>13, SameStages, SameStored
<1>14. \/ \E j \in Jars, S \in SUBSET Scrolls, user \in Users \cup {None},
             state \in LiveStates, m \in Metadata :
                CreateJar(j, S, user, state, m)
       \/ \E r \in Requests, s \in Scrolls : CreateWrite(r, s)
       \/ \E r \in Requests :
             \/ DeleteWrite(r) \/ DeleteJarWrite(r) \/ PatchApply(r)
             \/ UploadStream(r) \/ UploadPublish(r)
       \/ CleanerDelete
       \/ scroll' = scroll /\ bucket' = bucket
    <2>1. \A j \in Jars : ExpireJar(j) => scroll' = scroll /\ bucket' = bucket
        BY DEF ExpireJar
    <2>2. \A s \in Scrolls, kind \in {"create", "patch"} :
             ExpireToken(s, kind) => scroll' = scroll /\ bucket' = bucket
        BY DEF ExpireToken
    <2>3. \A r \in Requests, user \in Users, input \in Metadata :
             /\ \A s \in Scrolls, op \in {"patch", "delete"} :
                   StartScrollRequest(r, op, user, s, input) =>
                      scroll' = scroll /\ bucket' = bucket
             /\ \A j \in Jars, op \in {"create", "deleteJar"} :
                   StartJarRequest(r, op, user, j, input) =>
                      scroll' = scroll /\ bucket' = bucket
        BY ZenonT(40) DEF StartScrollRequest, StartJarRequest
    <2>4. \A r \in Requests, s \in Scrolls, c \in Contents :
             UploadStart(r, s, c) => scroll' = scroll /\ bucket' = bucket
        BY DEF UploadStart
    <2>5. \A r \in Requests :
             Authorize(r) \/ PatchConflict(r) \/ UploadConflict(r)
             \/ FetchURL(r) \/ FetchObject(r)
             \/ Abandon(r) => scroll' = scroll /\ bucket' = bucket
        BY DEF Authorize, PatchConflict, UploadConflict, FetchURL,
               FetchObject, Abandon
    <2>7. \A r \in Requests, s \in Scrolls :
             FetchStart(r, s) => scroll' = scroll /\ bucket' = bucket
        BY DEF FetchStart
    <2>6. CleanerList \/ CleanerQuery \/ CleanerStop \/ UNCHANGED vars =>
             scroll' = scroll /\ bucket' = bucket
        BY DEF CleanerList, CleanerQuery, CleanerStop, vars
    <2> QED
        BY <2>1, <2>2, <2>3, <2>4, <2>5, <2>6, <2>7, ZenonT(30)
        DEF Next, RequestNext, CleanerNext
<1> QED
    BY <1>5, <1>6, <1>7, <1>8, <1>9, <1>10, <1>11, <1>12, <1>13, <1>14
    DEF Store!StoreNext

\* The service implements the abstract store, for every value of its constants.
THEOREM Implements == Spec => ImplementsStore
<1>1. Init => Store!StoreInit
    <2> SUFFICES ASSUME Init  PROVE Store!StoreInit
        OBVIOUS
    <2>1. \A s \in Scrolls : scroll[s].state = "free" /\ bucket[s] = None
        BY DEF Init, FreeScroll
    <2>2. \A s \in Scrolls : Stage(s) = "free"
        BY <2>1, StageOf
    <2> QED
        BY <2>1, <2>2 DEF Store!StoreInit, Stored
<1> QED
    BY <1>1, Inductive, StoreStep, PTL
    DEF Spec, ImplementsStore, Store!StoreSpec

-----------------------------------------------------------------------------
(* When the content that was acknowledged is the one that is served *)

\* The run of AckedContentServed has two uploads of a scroll in flight together.
UploadsApart ==
    \A r, q \in Requests :
        r # q /\ request[r].op = "upload" /\ request[q].op = "upload" =>
            request[r].scroll # request[q].scroll

\* An upload under way is of a scroll that is not uploaded yet, and from the
\* store to the mark the object is the one it has stored.
UploadsAlone ==
    \A r \in Requests :
        LET q == request[r] IN
        q.op = "upload" /\ IsRow(q.scroll) =>
            /\ ~scroll[q.scroll].uploaded
            /\ q.pc = "mark" => bucket[q.scroll] = q.content

\* What an upload relies on is not touched by anyone else.
LEMMA UploadsAloneStep ==
    ASSUME IInv, UploadsApart, UploadsAlone, [Next]_vars
    PROVE  UploadsAlone'
<1> SUFFICES ASSUME NEW r \in Requests, request'[r].op = "upload",
                    scroll'[request'[r].scroll].state = "row"
             PROVE  /\ ~scroll'[request'[r].scroll].uploaded
                    /\ request'[r].pc = "mark" =>
                          bucket'[request'[r].scroll] = request'[r].content
    BY DEF UploadsAlone, IsRow
<1>1. TypeOK /\ RequestShape /\ CleanerKnows
    BY DEF IInv
<1>2. CASE /\ request[r].op = "upload"
           /\ request'[r].scroll = request[r].scroll
           /\ request'[r].content = request[r].content
           /\ \/ request'[r] = request[r]
              \/ UploadStream(r)
    <2> DEFINE s == request[r].scroll
    <2>1. s \in Scrolls /\ scroll[s].state # "free"
        BY <1>1, <1>2 DEF RequestShape
    <2>2. IsRow(s) /\ ~scroll[s].uploaded
        BY <1>1, <1>2, <2>1, RowStep DEF UploadsAlone, IsRow
    <2>3. ASSUME NEW q \in Requests, UploadPublish(q), request[q].scroll = s
          PROVE  FALSE
        <3>1. request[q].op = "upload" /\ request'[q] = Idle
            BY <1>1, <2>3 DEF UploadPublish, At, Finish, TypeOK
        <3>2. q # r
            BY <1>2, <3>1 DEF Idle
        <3> QED
            BY <1>2, <2>3, <3>1, <3>2 DEF UploadsApart
    <2>4. ASSUME NEW q \in Requests, PatchApply(q), request[q].scroll = s
          PROVE  FALSE
        BY <2>2, <2>4 DEF PatchApply, At, IInv, ReadsUploaded
    <2>5. ~scroll'[s].uploaded
        <3>1. scroll'[s] = scroll[s]
            BY <1>1, <1>2, <2>1, <2>2, <2>3, <2>4, ScrollStep
            DEF GoneScroll, FreeScroll, IsRow
        <3> QED
            BY <2>2, <3>1
    <2>6. ASSUME request'[r].pc = "mark"
          PROVE  bucket'[s] = request[r].content
        <3>1. CASE UploadStream(r)
            BY <1>1, <2>1, <3>1 DEF UploadStream, TypeOK
        <3>2. ASSUME request'[r] = request[r], NEW q \in Requests,
                     UploadStream(q), request[q].scroll = s
              PROVE  FALSE
            <4>1. request[q].op = "upload" /\ request[q].pc = "stream"
                BY <3>2 DEF UploadStream, At
            <4> QED
                BY <1>2, <2>6, <3>2, <4>1 DEF UploadsApart
        <3>3. CASE request'[r] = request[r] /\ bucket'[s] = bucket[s]
            BY <1>2, <2>2, <2>6, <3>3 DEF UploadsAlone
        <3> QED
            BY <1>1, <1>2, <2>1, <2>2, <3>1, <3>2, <3>3, BucketStep
            DEF CleanerKnows, IsRow
    <2> QED
        BY <1>2, <2>5, <2>6
<1>3. ASSUME NEW s \in Scrolls, NEW c \in Contents, UploadStart(r, s, c)
      PROVE  /\ ~scroll'[request'[r].scroll].uploaded
             /\ request'[r].pc # "mark"
    BY <1>1, <1>3 DEF UploadStart, TypeOK, Idle
<1>4. CASE UploadStream(r) /\ Goto(r, "mark")
    <2>1. /\ request[r].op = "upload"
          /\ request'[r].scroll = request[r].scroll
          /\ request'[r].content = request[r].content
        BY <1>1, <1>4 DEF UploadStream, At, Goto, TypeOK, RequestRecords
    <2> QED
        BY <1>2, <1>4, <2>1
<1>5. CASE request'[r] = request[r]
    BY <1>2, <1>5
<1>6. request'[r] # Idle
    BY DEF Idle
<1>7. ASSUME Authorize(r), Goto(r, "write")  PROVE FALSE
    <2>1. request'[r].op = request[r].op /\ request[r].pc = "authorize"
        BY <1>1, <1>7 DEF Authorize, Goto, TypeOK, RequestRecords
    <2> QED
        BY <1>1, <2>1 DEF RequestShape
<1>8. ASSUME FetchURL(r), Goto(r, "url")  PROVE FALSE
    BY <1>1, <1>8 DEF FetchURL, At, Goto, TypeOK, RequestRecords
<1>9. ASSUME NEW user \in Users, NEW input \in Metadata, NEW s \in Scrolls,
             NEW op \in {"patch", "delete"},
             StartScrollRequest(r, op, user, s, input)
      PROVE  FALSE
    BY <1>1, <1>9 DEF StartScrollRequest, TypeOK
<1>10. ASSUME NEW user \in Users, NEW input \in Metadata, NEW j \in Jars,
              NEW op \in {"create", "deleteJar"},
              StartJarRequest(r, op, user, j, input)
       PROVE  FALSE
    BY <1>1, <1>10 DEF StartJarRequest, TypeOK, Idle
<1>11. ASSUME NEW s \in Scrolls, FetchStart(r, s)  PROVE FALSE
    BY <1>1, <1>11 DEF FetchStart, TypeOK, Idle
<1> QED
    BY <1>1, <1>3, <1>4, <1>5, <1>6, <1>7, <1>8, <1>9, <1>10, <1>11,
       RequestStep

\* The object of an acknowledged upload is replaced by no one.
LEMMA ServedStep ==
    ASSUME IInv, UploadsApart, UploadsAlone, AckedContentServed, [Next]_vars
    PROVE  AckedContentServed'
<1> SUFFICES ASSUME NEW s \in Scrolls, scroll'[s].state = "row",
                    acked'[s] # <<>>
             PROVE  bucket'[s] = acked'[s][1]
    BY DEF AckedContentServed, IsRow
<1>1. TypeOK /\ RequestShape /\ CleanerKnows /\ AckedIsUploaded
    BY DEF IInv
<1>2. CASE acked'[s] = acked[s]
    <2>1. IsRow(s) /\ scroll[s].uploaded
        BY <1>1, <1>2, RowStep DEF AckedIsUploaded, IsRow
    <2>2. ASSUME NEW r \in Requests, UploadStream(r), request[r].scroll = s
          PROVE  FALSE
        BY <2>1, <2>2 DEF UploadStream, At, UploadsAlone
    <2>3. bucket'[s] = bucket[s]
        BY <1>1, <2>1, <2>2, BucketStep DEF CleanerKnows, IsRow
    <2> QED
        BY <1>2, <2>1, <2>3 DEF AckedContentServed
<1>3. CASE acked'[s] # acked[s]
    <2>1. PICK r \in Requests : UploadPublish(r)
        BY <1>3, AckedStep
    <2>2. /\ request[r].scroll = s /\ bucket' = bucket
          /\ acked'[s] = Append(acked[s], request[r].content)
        BY <1>1, <1>3, <2>1 DEF UploadPublish, TypeOK
    <2>3. IsRow(s) /\ ~scroll[s].uploaded
        BY <2>1, <2>2, MarkedOnce
    <2>4. acked[s] = <<>>
        BY <1>1, <2>3 DEF AckedIsUploaded
    <2>5. bucket[s] = request[r].content
        BY <2>1, <2>2, <2>3 DEF UploadPublish, At, UploadsAlone
    <2> QED
        BY <2>2, <2>4, <2>5
<1> QED
    BY <1>2, <1>3

\* store.go:73.  As long as no two uploads of one scroll are in flight together,
\* the content that was answered 200 is the content that is served: the overlap
\* is the only way to the disagreement that the run acked_content shows, and
\* neither the cleaner nor lost answers, retries, deletions or edits are another.
THEOREM ServedUnlessOverlapping ==
    Spec /\ []UploadsApart => []AckedContentServed
<1>1. Init => UploadsAlone /\ AckedContentServed
    BY DEF Init, Idle, UploadsAlone, AckedContentServed
<1> QED
    BY <1>1, Inductive, UploadsAloneStep, ServedStep, PTL DEF Spec
=============================================================================
