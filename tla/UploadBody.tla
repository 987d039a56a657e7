----------------------------- MODULE UploadBody -----------------------------
(***************************************************************************)
(* The body of one upload on its way from the connection to the bucket:    *)
(* the readers that uploadScroll puts around it (http.MaxBytesReader, then *)
(* utf8ValidationReader) and the uploader of the AWS SDK that reads them   *)
(* until a part is full and stores the object in one or in several parts.  *)
(*                                                                         *)
(* A read gets as many bytes as the connection has ready, so the network   *)
(* decides where the body is cut.  Bytes are ascii, or the first or the    *)
(* second of a rune of two bytes; the sizes are scaled down.               *)
(***************************************************************************)
EXTENDS Naturals, Sequences

CONSTANTS
    MaxSizes,   \* maxSize with an anonymous token and with an account's
    PartSize,   \* what the uploader buffers (5 MiB)
    MaxLength,  \* bound: longest body that is sent
    None

ASSUME SizeAssumption ==
    /\ MaxSizes \subseteq Nat /\ PartSize \in Nat \ {0} /\ MaxLength \in Nat
ASSUME NoneAssumption == None \notin {"stored", "invalid text"}

VARIABLES
    body,       \* what the client sends
    maxSize,    \* from the upload token
    taken,      \* bytes of it that were read from the connection
    left,       \* what MaxBytesReader still lets through
    part,       \* the buffer that the uploader fills
    parts,      \* the parts of a multipart upload that S3 has, joined
    object,     \* the object of the scroll, None before the upload
    pc,
    answer

vars == <<body, maxSize, taken, left, part, parts, object, pc, answer>>

Bytes == {"ascii", "lead", "tail"}
Bodies == UNION {[1..n -> Bytes] : n \in 0..MaxLength}
Answers == {None, "stored", "invalid text", "entity too large", "error"}

\* utf8.Valid.
Valid(s) ==
    /\ \A i \in 1..Len(s) : s[i] = "lead" => i < Len(s) /\ s[i + 1] = "tail"
    /\ \A i \in 1..Len(s) : s[i] = "tail" => i > 1 /\ s[i - 1] = "lead"

Smaller(a, b) == IF a <= b THEN a ELSE b

TypeOK ==
    /\ body \in Seq(Bytes)
    /\ maxSize \in MaxSizes
    /\ taken \in 0..Len(body)
    /\ left \in 0..maxSize + 1
    /\ part \in Seq(Bytes) /\ Len(part) <= PartSize
    /\ parts \in Seq(Bytes)
    /\ object \in Seq(Bytes) \cup {None}
    /\ pc \in {"read", "part", "last", "put", "complete", "done"}
    /\ answer \in Answers

Init ==
    /\ body \in Bodies
    /\ maxSize \in MaxSizes
    /\ taken = 0 /\ left = maxSize + 1
    /\ part = <<>> /\ parts = <<>>
    /\ object = None
    /\ pc = "read"
    /\ answer = None

-----------------------------------------------------------------------------
(* The readers.  Each takes what the one below it returned, a chunk and an *)
(* error, and "more" stands for no error.                                  *)

Ends == {"more", "eof", "lost"}

\* n bytes from the connection, as the server of net/http hands them out: the
\* end of the body with the last bytes or after them, or a broken connection.
Connection(n, end) ==
    /\ n <= Len(body) - taken
    /\ end = "eof" => n = Len(body) - taken
    /\ end = "more" => n > 0

\* FAULT: every read gets the whole buffer.
AskedAgain == Smaller(PartSize, left + 1)

\* The buffer that reaches the connection: MaxBytesReader asks for one byte
\* more than it may let through, to see whether there is one.
Asked == Smaller(PartSize - Len(part), left + 1)

\* FAULT: the body just ends at the limit, as with io.LimitReader.
LimitedSilently(n, end) ==
    [chunk |-> SubSeq(body, taken + 1, taken + Smaller(n, left)),
     err |-> IF n > left THEN "eof" ELSE end]

\* MaxBytesReader.Read: the bytes up to the limit come with the error.
Limited(n, end) ==
    [chunk |-> SubSeq(body, taken + 1, taken + Smaller(n, left)),
     err |-> IF n > left THEN "oversize" ELSE end]

\* FAULT: a chunk is only looked at if there was no error with it.
ValidatedLate(read) ==
    IF read.err = "more" /\ ~Valid(read.chunk)
    THEN [chunk |-> <<>>, err |-> "utf8"] ELSE read

\* utf8ValidationReader.Read: every chunk has to be valid text by itself.
Validated(read) ==
    IF ~Valid(read.chunk) THEN [chunk |-> <<>>, err |-> "utf8"] ELSE read

-----------------------------------------------------------------------------
(* The uploader, and what uploadScroll makes of its error *)

\* FAULT: a multipart upload is complete when the end of the body is seen.
PositionDroppingRest(err, filled) ==
    CASE err = "eof" -> IF parts = <<>> THEN "put" ELSE "complete"
      [] err = "more" -> IF Len(filled) = PartSize THEN "part" ELSE "read"
      [] OTHER -> "done"

\* readFillBuf goes on until the part is full or an error comes.  EOF with the
\* first part means one PutObject, EOF later means that this is the last part;
\* a last part without a byte is not sent.
Position(err, filled) ==
    CASE err = "eof" /\ parts = <<>> -> "put"
      [] err = "eof" /\ parts # <<>> -> IF filled = <<>> THEN "complete"
                                                        ELSE "last"
      [] err = "more" -> IF Len(filled) = PartSize THEN "part" ELSE "read"
      [] OTHER -> "done"

\* FAULT: everything that goes wrong while the body is read is put on the text.
AnswerInvalid(err) ==
    IF err \in {"utf8", "oversize", "lost"} THEN "invalid text" ELSE None

\* http.ErrBodyReadAfterClose, for which 413 is meant, is none of the errors
\* of the readers.
Answer(err) ==
    CASE err = "utf8" -> "invalid text"
      [] err = "closed" -> "entity too large"
      [] err \in {"oversize", "lost"} -> "error"
      [] OTHER -> None

\* One Read of the uploader; an error of the readers aborts the upload.
Read(n, end) ==
    LET read == Validated(Limited(n, end))
        filled == part \o read.chunk
    IN  /\ pc = "read"
        /\ n <= Asked /\ Connection(n, end)
        /\ taken' = taken + n
        /\ left' = left - Smaller(n, left)
        /\ part' = filled
        /\ pc' = Position(read.err, filled)
        /\ answer' = Answer(read.err)
        /\ UNCHANGED <<body, maxSize, parts, object>>

\* CreateMultipartUpload before the first one, then UploadPart.
UploadPart ==
    /\ pc \in {"part", "last"}
    /\ parts' = parts \o part
    /\ part' = <<>>
    /\ pc' = IF pc = "part" THEN "read" ELSE "complete"
    /\ UNCHANGED <<body, maxSize, taken, left, object, answer>>

\* S3 has the object or not, and the answer that says so may be lost.
Store(content) ==
    /\ \/ object' = content /\ answer' \in {"stored", "error"}
       \/ object' = object /\ answer' = "error"
    /\ pc' = "done"
    /\ UNCHANGED <<body, maxSize, taken, left, part, parts>>

PutObject == pc = "put" /\ Store(part)
CompleteUpload == pc = "complete" /\ Store(parts)

\* A part is refused: the upload is aborted.
PartRefused ==
    /\ pc \in {"part", "last"}
    /\ pc' = "done"
    /\ answer' = "error"
    /\ UNCHANGED <<body, maxSize, taken, left, part, parts, object>>

Next ==
    \/ \E n \in 0..Asked, end \in Ends : Read(n, end)
    \/ UploadPart
    \/ PutObject
    \/ CompleteUpload
    \/ PartRefused

Spec == Init /\ [][Next]_vars

-----------------------------------------------------------------------------
(* Properties *)

\* However the network cuts the body and wherever it breaks off: what is in
\* the bucket is all of it, in order, valid text, and within the limit (which
\* is one byte more than maxSize).
StoredWhole ==
    object # None =>
        object = body /\ Valid(body) /\ Len(body) <= maxSize + 1

\* 200 is answered for a stored object only, and a client that sends plain
\* ASCII is never told that its text is invalid, also when the limit cuts it.
AnswersTrue ==
    /\ answer = "stored" => object = body
    /\ answer = "invalid text" => \E i \in 1..Len(body) : body[i] # "ascii"

\* README.md:35, "Enforces size and encoding restrictions": a body that meets
\* both is not refused as invalid text, wherever a read ends.
ValidTextAccepted ==
    answer = "invalid text" => ~Valid(body) \/ Len(body) > maxSize
=============================================================================
