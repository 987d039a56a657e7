-------------------------- MODULE UploadBodyProofs --------------------------
(***************************************************************************)
(* What UploadBody promises, for every size of the limits, of the parts    *)
(* and of the body, and however the connection cuts it.                    *)
(***************************************************************************)
EXTENDS UploadBody, SequenceTheorems, TLAPS

\* The bytes that were read and not refused are on their way, in order, and
\* none is left out; all of them are there when the object is put.
Passed ==
    /\ parts \o part = SubSeq(body, 1, taken)
    /\ Valid(parts) /\ Valid(part)
    /\ taken + left = maxSize + 1
    /\ pc \in {"put", "last", "complete"} => taken = Len(body)
    /\ pc = "put" => parts = <<>>
    /\ pc = "complete" => part = <<>>

\* The strengthening: what is passed on until the upload is over, and what is
\* stored and answered then.
IInv ==
    /\ TypeOK
    /\ pc # "done" => Passed /\ object = None /\ answer = None
    /\ StoredWhole
    /\ AnswersTrue

-----------------------------------------------------------------------------
(* Sequences *)

\* Valid text after valid text is valid text.
LEMMA ValidConcat ==
    ASSUME NEW s \in Seq(Bytes), NEW t \in Seq(Bytes), Valid(s), Valid(t)
    PROVE  Valid(s \o t)
<1> DEFINE c == s \o t
<1>1. /\ c \in Seq(Bytes) /\ Len(c) = Len(s) + Len(t)
      /\ Len(s) \in Nat /\ Len(t) \in Nat
  OBVIOUS
<1>2. ASSUME NEW i \in 1..Len(s)
      PROVE  c[i] = s[i]
  OBVIOUS
<1>3. ASSUME NEW i \in 1..Len(t)
      PROVE  c[Len(s) + i] = t[i]
  OBVIOUS
<1> HIDE DEF c
<1>4. ASSUME NEW i \in 1..Len(c), c[i] = "lead"
      PROVE  i < Len(c) /\ c[i + 1] = "tail"
  <2>1. CASE i <= Len(s)
    <3>1. s[i] = "lead" /\ i \in 1..Len(s)
      BY <1>1, <1>2, <1>4, <2>1
    <3>2. i < Len(s) /\ s[i + 1] = "tail"
      BY <3>1 DEF Valid
    <3>3. i + 1 \in 1..Len(s)
      BY <1>1, <3>1, <3>2
    <3>4. c[i + 1] = s[i + 1]
      BY <1>2, <3>3
    <3> QED
      BY <1>1, <3>2, <3>4
  <2>2. CASE i > Len(s)
    <3>0. i - Len(s) \in 1..Len(t) /\ i = Len(s) + (i - Len(s))
      BY <1>1, <2>2, i \in Nat, i <= Len(s) + Len(t)
    <3>1. PICK k \in 1..Len(t) : i = Len(s) + k
      BY <3>0
    <3>2. t[k] = "lead"
      BY <1>3, <1>4, <3>1
    <3>3. k < Len(t) /\ t[k + 1] = "tail"
      BY <3>2 DEF Valid
    <3>4. k + 1 \in 1..Len(t) /\ Len(s) + (k + 1) = i + 1
      BY <1>1, <3>1, <3>3
    <3>5. c[Len(s) + (k + 1)] = t[k + 1]
      BY <1>3, <3>4
    <3> QED
      BY <1>1, <3>1, <3>3, <3>4, <3>5
  <2> QED
    BY <1>1, <2>1, <2>2
<1>5. ASSUME NEW i \in 1..Len(c), c[i] = "tail"
      PROVE  i > 1 /\ c[i - 1] = "lead"
  <2>1. CASE i <= Len(s)
    <3>1. s[i] = "tail" /\ i \in 1..Len(s)
      BY <1>1, <1>2, <1>5, <2>1
    <3>2. i > 1 /\ s[i - 1] = "lead"
      BY <3>1 DEF Valid
    <3>3. i - 1 \in 1..Len(s)
      BY <1>1, <3>1, <3>2
    <3>4. c[i - 1] = s[i - 1]
      BY <1>2, <3>3
    <3> QED
      BY <3>2, <3>4
  <2>2. CASE i > Len(s)
    <3>0. i - Len(s) \in 1..Len(t) /\ i = Len(s) + (i - Len(s))
      BY <1>1, <2>2, i \in Nat, i <= Len(s) + Len(t)
    <3>1. PICK k \in 1..Len(t) : i = Len(s) + k
      BY <3>0
    <3>2. t[k] = "tail"
      BY <1>3, <1>5, <3>1
    <3>3. k > 1 /\ t[k - 1] = "lead"
      BY <3>2 DEF Valid
    <3>4. k - 1 \in 1..Len(t) /\ Len(s) + (k - 1) = i - 1
      BY <1>1, <3>1, <3>3
    <3>5. c[Len(s) + (k - 1)] = t[k - 1]
      BY <1>3, <3>4
    <3> QED
      BY <1>1, <3>1, <3>3, <3>4, <3>5
  <2> QED
    BY <1>1, <2>1, <2>2
<1> QED
  BY <1>4, <1>5 DEF Valid, c

\* A segment has the elements of the sequence, from k + 1 on.
LEMMA Segment ==
    ASSUME NEW s \in Seq(Bytes), NEW k \in Nat, NEW n \in Nat, k + n <= Len(s)
    PROVE  /\ SubSeq(s, k + 1, k + n) \in Seq(Bytes)
           /\ Len(SubSeq(s, k + 1, k + n)) = n
OBVIOUS

\* Position by position.
LEMMA SegmentAt ==
    ASSUME NEW s \in Seq(Bytes), NEW k \in Nat, NEW n \in Nat,
           k + n <= Len(s), NEW i \in 1..n
    PROVE  SubSeq(s, k + 1, k + n)[i] = s[k + i]
OBVIOUS

\* The next n bytes behind the first k ones are the first k + n.
LEMMA NextBytes ==
    ASSUME NEW s \in Seq(Bytes), NEW k \in Nat, NEW n \in Nat, k + n <= Len(s)
    PROVE  SubSeq(s, 1, k) \o SubSeq(s, k + 1, k + n) = SubSeq(s, 1, k + n)
<1>1. k \in 1 - 1 .. k + n /\ k + n \in 1 - 1 .. Len(s)
  BY Len(s) \in Nat
<1> QED
  BY <1>1, 1 \in 1..Len(s) + 1, ConcatAdjacentSubSeq

-----------------------------------------------------------------------------
\* The sizes and counters that the steps below reckon with.
LEMMA SizeTypes ==
    TypeOK =>
        /\ Len(body) \in Nat /\ Len(part) \in Nat
        /\ taken \in Nat /\ left \in Nat /\ maxSize \in Nat
        /\ PartSize \in Nat /\ PartSize > 0
BY SizeAssumption DEF TypeOK

\* Nothing was read and nothing is stored.
LEMMA InitIInv == Init => IInv
<1> SUFFICES ASSUME Init PROVE IInv
  OBVIOUS
<1>1. body \in Seq(Bytes)
  BY DEF Init, Bodies
<1>2. maxSize \in Nat
  BY SizeAssumption DEF Init
<1>3. TypeOK
  BY <1>1, <1>2, SizeAssumption DEF Init, TypeOK, Answers
<1>4. Passed
  <2>1. SubSeq(body, 1, 0) = <<>>
    BY <1>1
  <2>2. <<>> \o <<>> = <<>> /\ Valid(<<>>)
    BY DEF Valid
  <2> QED
    BY <2>1, <2>2, <1>2 DEF Init, Passed
<1>5. object = None /\ answer = None
  BY DEF Init
<1> QED
  BY <1>3, <1>4, <1>5, NoneAssumption DEF IInv, StoredWhole, AnswersTrue

\* One turn of the loop keeps what was read a valid prefix within the limit.
LEMMA ReadStep ==
    ASSUME IInv, NEW n \in 0..Asked, NEW end \in Ends, Read(n, end)
    PROVE  IInv'
<1>0. TypeOK /\ Passed /\ object = None /\ answer = None /\ pc = "read"
  BY DEF IInv, Read
<1>1. /\ Len(body) \in Nat /\ Len(part) \in Nat
      /\ taken \in Nat /\ left \in Nat /\ maxSize \in Nat
      /\ PartSize \in Nat /\ PartSize > 0
  BY <1>0, SizeTypes
<1>2. n \in Nat /\ n <= PartSize - Len(part) /\ Len(part) <= PartSize
  BY <1>0, <1>1 DEF Asked, Smaller, TypeOK
<1>3. taken + n <= Len(body)
  BY <1>0, <1>1, <1>2 DEF Read, Connection, TypeOK
<1> DEFINE kept == Smaller(n, left)
           low == Limited(n, end)
           read == Validated(low)
           filled == part \o read.chunk
<1>4. kept \in Nat /\ kept <= n /\ kept <= left
  BY <1>1, <1>2 DEF Smaller
<1>5. /\ low.chunk = SubSeq(body, taken + 1, taken + kept)
      /\ low.err = IF n > left THEN "oversize" ELSE end
  BY DEF Limited
<1>6. low.chunk \in Seq(Bytes) /\ Len(low.chunk) = kept
  <2>1. body \in Seq(Bytes) /\ taken + kept <= Len(body)
    BY <1>0, <1>1, <1>2, <1>3, <1>4 DEF TypeOK
  <2> HIDE DEF kept, low
  <2> QED
    BY <1>1, <1>4, <1>5, <2>1, Segment
<1>7. /\ body' = body /\ maxSize' = maxSize
      /\ parts' = parts /\ object' = object
      /\ taken' = taken + n /\ left' = left - kept
      /\ part' = filled /\ pc' = Position(read.err, filled)
      /\ answer' = Answer(read.err)
  BY DEF Read
<1>8. \/ read = low
      \/ read = [chunk |-> <<>>, err |-> "utf8"]
  BY DEF Validated
<1>9. read.chunk \in Seq(Bytes) /\ Len(read.chunk) <= kept
  <2> HIDE DEF kept, low, read
  <2>1. CASE read = low
    BY <1>4, <1>6, <2>1
  <2>2. CASE read = [chunk |-> <<>>, err |-> "utf8"]
    BY <1>4, <2>2
  <2> QED
    BY <1>8, <2>1, <2>2
<1>10. /\ filled \in Seq(Bytes)
       /\ Len(filled) = Len(part) + Len(read.chunk)
  BY <1>0, <1>9 DEF TypeOK
<1>11. read.err \in Ends \cup {"oversize", "utf8"}
  BY <1>5, <1>8
<1> HIDE DEF kept, low, read, filled
<1>12. Len(filled) <= PartSize
  BY <1>1, <1>2, <1>4, <1>9, <1>10
<1>13. TypeOK'
  <2>1. taken' \in 0..Len(body)
    BY <1>1, <1>2, <1>3, <1>7
  <2>2. left' \in 0..maxSize + 1
    BY <1>0, <1>1, <1>4, <1>7 DEF TypeOK
  <2>3. pc' \in {"read", "part", "last", "put", "complete", "done"}
    BY <1>7 DEF Position
  <2>4. answer' \in Answers
    BY <1>7 DEF Answer, Answers
  <2> QED
    BY <1>0, <1>7, <1>10, <1>12, <2>1, <2>2, <2>3, <2>4 DEF TypeOK
<1>14. ASSUME pc' # "done"
       PROVE  Passed'
  <2>1. read.err \in {"more", "eof"}
    <3>1. ASSUME read.err # "more", read.err # "eof"
          PROVE  Position(read.err, filled) = "done"
      BY <3>1 DEF Position
    <3> QED
      BY <1>7, <1>14, <3>1
  <2>2. read = low /\ n <= left /\ read.err = end
    <3> HIDE DEF low, read
    <3>1. read = low
      BY <1>8, <2>1
    <3> QED
      BY <1>1, <1>2, <1>5, <2>1, <3>1
  <2>3. kept = n /\ Valid(low.chunk)
    BY <1>1, <1>2, <2>1, <2>2 DEF kept, Smaller, read, Validated
  <2>4. parts \o filled = SubSeq(body, 1, taken + n)
    <3>1. parts \o filled = (parts \o part) \o low.chunk
      <4>1. parts \in Seq(Bytes) /\ part \in Seq(Bytes)
        BY <1>0 DEF TypeOK
      <4>2. filled = part \o low.chunk
        BY <2>2 DEF filled
      <4> DEFINE chunk == low.chunk
      <4>3. chunk \in Seq(Bytes)
        BY <1>6
      <4> HIDE DEF low, chunk
      <4>4. (parts \o part) \o chunk = parts \o (part \o chunk)
        BY <4>1, <4>3
      <4> QED
        BY <4>2, <4>4 DEF chunk
    <3>2. parts \o part = SubSeq(body, 1, taken)
      BY <1>0 DEF Passed
    <3>3. body \in Seq(Bytes)
      BY <1>0 DEF TypeOK
    <3>4. low.chunk = SubSeq(body, taken + 1, taken + n)
      BY <1>5, <2>3
    <3>5. SubSeq(body, 1, taken) \o low.chunk = SubSeq(body, 1, taken + n)
      BY <1>1, <1>2, <1>3, <3>3, <3>4, NextBytes
    <3> QED
      BY <3>1, <3>2, <3>5
  <2>5. Valid(filled)
    BY <1>0, <1>6, <2>2, <2>3, ValidConcat DEF filled, Passed, TypeOK
  <2>6. taken' + left' = maxSize + 1
    BY <1>0, <1>1, <1>2, <1>7, <2>3 DEF Passed
  <2>7. pc' \in {"put", "last", "complete"} => taken' = Len(body)
    <3>1. pc' \in {"put", "last", "complete"} => end = "eof"
      BY <1>7, <2>1, <2>2 DEF Position
    <3>2. end = "eof" => n = Len(body) - taken
      BY DEF Read, Connection
    <3> QED
      BY <1>1, <1>2, <1>7, <3>1, <3>2
  <2>8. /\ pc' = "put" => parts = <<>>
        /\ pc' = "complete" => filled = <<>>
    BY <1>7, <2>1 DEF Position
  <2> QED
    BY <1>0, <1>7, <2>4, <2>5, <2>6, <2>7, <2>8 DEF Passed
<1>15. object' = None /\ StoredWhole'
  BY <1>0, <1>7 DEF StoredWhole
<1>16. pc' # "done" => answer' = None
  BY <1>7 DEF Position, Answer
<1>17. ASSUME answer' = "invalid text"
       PROVE  \E i \in 1..Len(body) : body[i] # "ascii"
  <2>1. read.err = "utf8"
    BY <1>7, <1>17, NoneAssumption DEF Answer
  <2>2. ~Valid(low.chunk)
    <3>1. low.err # "utf8"
      BY <1>5 DEF Ends
    <3> QED
      BY <2>1, <3>1 DEF read, Validated
  <2>3. PICK i \in 1..kept : low.chunk[i] # "ascii"
    BY <1>6, <2>2 DEF Valid
  <2>4. low.chunk[i] = body[taken + i]
    BY <1>0, <1>1, <1>2, <1>3, <1>4, <1>5, SegmentAt DEF TypeOK
  <2>5. taken + i \in 1..Len(body)
    BY <1>1, <1>2, <1>3, <1>4
  <2> QED
    BY <2>3, <2>4, <2>5
<1>18. answer' # "stored"
  BY <1>7, NoneAssumption DEF Answer
<1> QED
  BY <1>7, <1>13, <1>14, <1>15, <1>16, <1>17, <1>18 DEF IInv, AnswersTrue

\* A part that was sent follows those that were sent before.
LEMMA UploadPartStep == IInv /\ UploadPart => IInv'
<1> SUFFICES ASSUME IInv, UploadPart PROVE IInv'
  OBVIOUS
<1>0. /\ TypeOK /\ Passed /\ object = None /\ answer = None
      /\ pc \in {"part", "last"}
  BY DEF IInv, UploadPart
<1>1. parts' \in Seq(Bytes) /\ Valid(parts')
  <2>1. /\ parts \in Seq(Bytes) /\ part \in Seq(Bytes)
        /\ Valid(parts) /\ Valid(part)
    BY <1>0 DEF Passed, TypeOK
  <2>2. parts \o part \in Seq(Bytes) /\ Valid(parts \o part)
    BY <2>1, ValidConcat
  <2>3. parts' = parts \o part
    BY DEF UploadPart
  <2> QED
    BY <2>2, <2>3
<1>2. part' = <<>> /\ part' \in Seq(Bytes) /\ Len(part') <= PartSize
      /\ Valid(part')
  BY SizeAssumption DEF UploadPart, Valid
<1>3. parts' \o part' = SubSeq(body, 1, taken)
  <2>1. parts' = SubSeq(body, 1, taken)
    BY <1>0 DEF UploadPart, Passed
  <2> QED
    BY <1>1, <1>2, <2>1
<1>4. TypeOK'
  BY <1>0, <1>1, <1>2 DEF UploadPart, TypeOK
<1>5. Passed'
  BY <1>0, <1>1, <1>2, <1>3 DEF UploadPart, Passed
<1>6. object' = None /\ answer' = None /\ StoredWhole' /\ AnswersTrue'
  BY <1>0, NoneAssumption DEF UploadPart, StoredWhole, AnswersTrue
<1> QED
  BY <1>4, <1>5, <1>6 DEF IInv

\* Everything that was read is what was sent, once its end was seen.
LEMMA StoreStep ==
    ASSUME IInv, NEW content \in Seq(Bytes), Store(content),
           pc \in {"put", "complete"}, content = parts \o part
    PROVE  IInv'
<1>0. TypeOK /\ Passed /\ object = None
  BY DEF IInv
<1>1. content = body
  BY <1>0 DEF Passed, TypeOK
<1>2. Valid(body)
  BY <1>0, <1>1, ValidConcat DEF Passed, TypeOK
<1>3. Len(body) <= maxSize + 1
  BY <1>0, SizeTypes DEF Passed
<1>4. TypeOK'
  BY <1>0 DEF Store, TypeOK, Answers
<1>5. StoredWhole'
  BY <1>0, <1>1, <1>2, <1>3 DEF Store, StoredWhole
<1>6. AnswersTrue'
  BY <1>0, <1>1 DEF Store, AnswersTrue
<1> QED
  BY <1>4, <1>5, <1>6 DEF Store, IInv

\* Every step keeps the invariant.
LEMMA NextStep == IInv /\ [Next]_vars => IInv'
<1> SUFFICES ASSUME IInv, [Next]_vars PROVE IInv'
  OBVIOUS
<1>1. ASSUME NEW n \in 0..Asked, NEW end \in Ends, Read(n, end)
      PROVE  IInv'
  BY <1>1, ReadStep
<1>2. CASE UploadPart
  BY <1>2, UploadPartStep
<1>3. CASE PutObject
  <2>1. part \in Seq(Bytes) /\ part = parts \o part
    BY <1>3 DEF PutObject, IInv, Passed, TypeOK
  <2> QED
    BY <1>3, <2>1, StoreStep DEF PutObject
<1>4. CASE CompleteUpload
  <2>1. parts \in Seq(Bytes) /\ parts = parts \o part
    BY <1>4 DEF CompleteUpload, IInv, Passed, TypeOK
  <2> QED
    BY <1>4, <2>1, StoreStep DEF CompleteUpload
<1>5. CASE PartRefused
  BY <1>5 DEF PartRefused, IInv, TypeOK, Answers, StoredWhole, AnswersTrue
<1>6. CASE UNCHANGED vars
  BY <1>6 DEF vars, IInv, TypeOK, Passed, StoredWhole, AnswersTrue, Valid
<1> QED
  BY <1>1, <1>2, <1>3, <1>4, <1>5, <1>6 DEF Next

-----------------------------------------------------------------------------
\* So the invariant always holds.
LEMMA Invariance == Spec => []IInv
BY InitIInv, NextStep, PTL DEF Spec

\* The types, for every size of bodies, parts and limits (uploadScroll).
THEOREM TypesOK == Spec => []TypeOK
<1>1. IInv => TypeOK
  BY DEF IInv
<1> QED
  BY <1>1, Invariance, PTL

\* Whatever is stored is the whole body, valid text, and within the limit:
\* checking chunk by chunk lets no invalid text pass, however the connection
\* cuts the body (utf8ValidationReader and http.MaxBytesReader).
THEOREM StoredIsWhole == Spec => []StoredWhole
<1>1. IInv => StoredWhole
  BY DEF IInv
<1> QED
  BY <1>1, Invariance, PTL

\* 200 means that the object is the body; "invalid text content" means that
\* there is something other than ASCII in it (uploadScroll, handleError).
THEOREM AnswersAreTrue == Spec => []AnswersTrue
<1>1. IInv => AnswersTrue
  BY DEF IInv
<1> QED
  BY <1>1, Invariance, PTL

-----------------------------------------------------------------------------
(* When text that is valid is refused *)

\* What was read from the connection ends within a rune.
Cut == taken < Len(body) /\ body[taken + 1] = "tail"

\* A body that meets both restrictions is refused as invalid text if a read
\* ended within a rune of it, and for no other reason.
RefusedIfCut ==
    Valid(body) /\ Len(body) <= maxSize => (answer = "invalid text" <=> Cut)

\* As long as the upload goes on, no read of such a body has ended in a rune.
CutEnds ==
    Valid(body) /\ Len(body) <= maxSize /\ pc # "done" => ~Cut

\* A segment of valid text that begins with a rune is valid text unless it
\* ends within one.
LEMMA SegmentValid ==
    ASSUME NEW s \in Seq(Bytes), Valid(s), NEW k \in Nat, NEW n \in Nat,
           k + n <= Len(s), ~(k < Len(s) /\ s[k + 1] = "tail")
    PROVE  Valid(SubSeq(s, k + 1, k + n)) <=>
              ~(k + n < Len(s) /\ s[k + n + 1] = "tail")
<1> DEFINE c == SubSeq(s, k + 1, k + n)
<1>1. Len(c) = n /\ Len(s) \in Nat
  BY Segment
<1>2. \A i \in 1..n : c[i] = s[k + i]
  BY SegmentAt
<1> HIDE DEF c
<1>3. \A i \in 1..n : k + i \in 1..Len(s)
  BY <1>1
<1>4. ASSUME Valid(c)
      PROVE  ~(k + n < Len(s) /\ s[k + n + 1] = "tail")
  <2>1. SUFFICES ASSUME k + n < Len(s), s[k + n + 1] = "tail"  PROVE FALSE
    OBVIOUS
  <2>2. n > 0
    BY <2>1
  <2>3. s[k + n] = "lead"
    <3>1. k + n + 1 \in 1..Len(s) /\ (k + n + 1) - 1 = k + n
      BY <1>1, <2>1
    <3> QED
      BY <2>1, <3>1 DEF Valid
  <2>4. n \in 1..Len(c) /\ c[n] = "lead"
    BY <1>1, <1>2, <2>2, <2>3
  <2>5. n < Len(c)
    BY <1>4, <2>4 DEF Valid
  <2> QED
    BY <1>1, <2>5
<1>5. ASSUME ~(k + n < Len(s) /\ s[k + n + 1] = "tail")
      PROVE  Valid(c)
  <2>1. ASSUME NEW i \in 1..n, c[i] = "lead"
        PROVE  i < n /\ c[i + 1] = "tail"
    <3>1. s[k + i] = "lead" /\ k + i \in 1..Len(s)
      BY <1>2, <1>3, <2>1
    <3>2. k + i < Len(s) /\ s[k + i + 1] = "tail"
      BY <3>1 DEF Valid
    <3>3. i # n
      BY <1>5, <3>2
    <3>4. i < n /\ i + 1 \in 1..n /\ k + (i + 1) = k + i + 1
      BY <3>3
    <3> QED
      BY <1>2, <3>2, <3>4
  <2>2. ASSUME NEW i \in 1..n, c[i] = "tail"
        PROVE  i > 1 /\ c[i - 1] = "lead"
    <3>1. s[k + i] = "tail" /\ k + i \in 1..Len(s)
      BY <1>2, <1>3, <2>2
    <3>2. s[k + i - 1] = "lead"
      BY <3>1 DEF Valid
    <3>3. i # 1
      BY <1>1, <3>1
    <3>4. i > 1 /\ i - 1 \in 1..n /\ k + (i - 1) = k + i - 1
      BY <3>3
    <3> QED
      BY <1>2, <3>2, <3>4
  <2> QED
    BY <1>1, <2>1, <2>2 DEF Valid
<1> QED
  BY <1>4, <1>5 DEF c

\* The read that ends within a rune is the one that refuses the body.
LEMMA ReadRefuses ==
    ASSUME IInv, CutEnds, NEW n \in 0..Asked, NEW end \in Ends, Read(n, end),
           Valid(body), Len(body) <= maxSize
    PROVE  /\ answer' = "invalid text" <=> Cut'
           /\ pc' # "done" => ~Cut'
<1>1. /\ TypeOK /\ Passed /\ pc = "read" /\ body \in Seq(Bytes)
      /\ Len(body) \in Nat /\ Len(part) \in Nat /\ Len(part) <= PartSize
      /\ taken \in Nat /\ left \in Nat /\ maxSize \in Nat /\ PartSize \in Nat
      /\ taken + left = maxSize + 1
  BY SizeTypes DEF IInv, Read, Passed, TypeOK
<1>2. /\ n \in Nat /\ taken + n <= Len(body) /\ n <= left
  BY <1>1 DEF Read, Connection, Asked, Smaller
<1> DEFINE chunk == SubSeq(body, taken + 1, taken + n)
           read == Validated(Limited(n, end))
<1>3. Limited(n, end) = [chunk |-> chunk, err |-> end]
  <2>1. Smaller(n, left) = n /\ ~(n > left)
    BY <1>1, <1>2 DEF Smaller
  <2> QED
    BY <2>1 DEF Limited
<1>4. read.err = IF Valid(chunk) THEN end ELSE "utf8"
  <2> DEFINE low == [chunk |-> chunk, err |-> end]
  <2>1. low.chunk = chunk /\ low.err = end
    OBVIOUS
  <2>2. read = Validated(low)
    BY <1>3
  <2> HIDE DEF chunk, low, read
  <2> QED
    BY <2>1, <2>2 DEF Validated
<1>5. /\ body' = body /\ taken' = taken + n
      /\ pc' = Position(read.err, part \o read.chunk)
      /\ answer' = Answer(read.err)
  BY DEF Read
<1>6. Valid(chunk) <=> ~Cut'
  <2>1. ~(taken < Len(body) /\ body[taken + 1] = "tail")
    BY <1>1 DEF CutEnds, Cut
  <2> QED
    BY <1>1, <1>2, <1>5, <2>1, SegmentValid DEF Cut
<1> HIDE DEF chunk, read
<1>7. answer' = "invalid text" <=> ~Valid(chunk)
  BY <1>4, <1>5, NoneAssumption DEF Answer, Ends
<1>8. ~Valid(chunk) => pc' = "done"
  BY <1>4, <1>5 DEF Position
<1> QED
  BY <1>6, <1>7, <1>8

\* The cause of a refusal stays what it was until the answer.
LEMMA CutStep ==
    IInv /\ CutEnds /\ RefusedIfCut /\ [Next]_vars => CutEnds' /\ RefusedIfCut'
<1> SUFFICES ASSUME IInv, CutEnds, RefusedIfCut, [Next]_vars
             PROVE  CutEnds' /\ RefusedIfCut'
  OBVIOUS
<1>1. ASSUME NEW n \in 0..Asked, NEW end \in Ends, Read(n, end)
      PROVE  CutEnds' /\ RefusedIfCut'
  <2>1. body' = body /\ maxSize' = maxSize
    BY <1>1 DEF Read
  <2>2. (Valid(body) <=> Valid(body)') /\ Len(body') = Len(body)
    BY <2>1 DEF Valid
  <2> QED
    BY <1>1, <2>1, <2>2, ReadRefuses DEF CutEnds, RefusedIfCut
<1>2. ASSUME pc # "done", UNCHANGED <<body, maxSize, taken>>,
             answer' # "invalid text"
      PROVE  CutEnds' /\ RefusedIfCut'
  <2>1. (Valid(body) <=> Valid(body)') /\ (Cut <=> Cut')
    BY <1>2 DEF Valid, Cut
  <2> QED
    BY <1>2, <2>1 DEF CutEnds, RefusedIfCut
<1>3. CASE UploadPart \/ PutObject \/ CompleteUpload \/ PartRefused
  <2>1. pc # "done" /\ UNCHANGED <<body, maxSize, taken>>
    BY <1>3 DEF UploadPart, PutObject, CompleteUpload, PartRefused, Store
  <2>2. answer = None
    BY <2>1 DEF IInv
  <2>3. answer' # "invalid text"
    BY <1>3, <2>2, NoneAssumption
    DEF UploadPart, PutObject, CompleteUpload, PartRefused, Store
  <2> QED
    BY <1>2, <2>1, <2>3
<1>4. CASE UNCHANGED vars
  BY <1>4 DEF vars, CutEnds, RefusedIfCut, Valid, Cut
<1> QED
  BY <1>1, <1>3, <1>4 DEF Next

\* utf8ValidationReader refuses a body that meets both restrictions if and only
\* if the connection, the buffer of a part or the limit let a read end within
\* one of its runes: this is all that is wrong with it.
THEOREM RefusedExactlyIfCut == Spec => []RefusedIfCut
<1>1. Init => CutEnds /\ RefusedIfCut
  <2> SUFFICES ASSUME Init  PROVE CutEnds /\ RefusedIfCut
    OBVIOUS
  <2>1. taken = 0
    BY DEF Init
  <2>2. ASSUME Valid(body), Cut  PROVE FALSE
    <3>1. Len(body) \in Nat
      BY InitIInv, SizeTypes DEF IInv
    <3>2. taken < Len(body) /\ body[taken + 1] = "tail"
      BY <2>2 DEF Cut
    <3>3. 1 \in 1..Len(body) /\ body[1] = "tail"
      BY <2>1, <3>1, <3>2
    <3> QED
      BY <2>2, <3>3 DEF Valid
  <2>3. answer # "invalid text"
    BY NoneAssumption DEF Init
  <2> QED
    BY <2>2, <2>3 DEF CutEnds, RefusedIfCut
<1> QED
  BY <1>1, CutStep, Invariance, PTL DEF Spec

\* So what README.md promises holds as long as no read ends within a rune.
THEOREM AcceptedUnlessCut == Spec /\ []~Cut => []ValidTextAccepted
<1>1. ASSUME IInv, RefusedIfCut, ~Cut  PROVE ValidTextAccepted
  <2>1. Len(body) \in Nat /\ maxSize \in Nat
    BY <1>1, SizeTypes DEF IInv
  <2>2. ASSUME ~(Len(body) <= maxSize)  PROVE Len(body) > maxSize
    BY <2>1, <2>2
  <2>3. answer = "invalid text" => ~Valid(body) \/ ~(Len(body) <= maxSize)
    BY <1>1 DEF RefusedIfCut
  <2> QED
    BY <2>2, <2>3, Zenon DEF ValidTextAccepted
<1> QED
  BY <1>1, RefusedExactlyIfCut, Invariance, PTL
=============================================================================
