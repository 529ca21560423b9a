------------------------------ MODULE S3Upload ------------------------------
(* A stream uploaded in parts to an object store: uploadStream, the parts it has
   in flight, and what the store keeps of them
   (src/apps/api/src/infrastructure/storage/s3.ts).

   Any call may fail, with or without having taken effect at the store.  A part
   that fails for good leaves its error in `failure` for the main line to find. *)
EXTENDS Naturals, Sequences, FiniteSets

CONSTANTS CONCURRENCY, ATTEMPTS,   \* options.concurrency, options.attempts
          MAX_PARTS

\* Bound of the model, not of the code.
CONSTANT MaxSource                 \* parts that a source fills

ASSUME UploadAssumption ==
  /\ CONCURRENCY \in Nat \ {0} /\ ATTEMPTS \in Nat \ {0}
  /\ MAX_PARTS \in Nat \ {0} /\ MaxSource \in Nat \ {0}

PartNumbers == 1 .. MaxSource

VARIABLES upload,   \* the main line: its step, parts it will need, parts sent, failure
          part,     \* each part: "unsent", "flying" (with retries), "landed", "lost"
          listed,   \* parts: the numbers in the order of their answers
          bucket,   \* the store: the multipart upload and the object made of it
          leaked    \* history: a lost reply hid the upload from the uploader

uploadVars == <<upload, part, listed, bucket, leaked>>

Unsent == [at |-> "unsent", tries |-> 0]

\* A source that fills no part at all still sends one, the empty one.
UploadInit ==
  /\ \E n \in PartNumbers :
       upload = [pc |-> "creating", need |-> n, sent |-> 0, failure |-> FALSE]
  /\ part = [n \in PartNumbers |-> Unsent]
  /\ listed = <<>>
  /\ bucket = [state |-> "none", object |-> <<>>]
  /\ leaked = FALSE

InFlight == {n \in PartNumbers : part[n].at = "flying"}
UploadGoes(pc) == upload' = [upload EXCEPT !.pc = pc]

\* createMultipartUpload: before the try block, so nothing is cleaned up.
CreateUpload ==
  /\ upload.pc = "creating"
  /\ \/ /\ bucket' = [bucket EXCEPT !.state = "open"]
        /\ UploadGoes("reading")
        /\ UNCHANGED leaked
     \/ \E took \in BOOLEAN :
        /\ bucket' = IF took THEN [bucket EXCEPT !.state = "open"] ELSE bucket
        /\ leaked' = took
        /\ UploadGoes("failed")
  /\ UNCHANGED <<part, listed>>

\* send: a full part, or the last one.  With `concurrency` in flight the line waits.
SendPart ==
  /\ upload.pc = "reading" /\ upload.sent < upload.need
  /\ ~upload.failure /\ upload.sent + 1 <= MAX_PARTS
  /\ part' = [part EXCEPT ![upload.sent + 1].at = "flying"]
  /\ upload' = [upload EXCEPT !.sent = @ + 1,
                  !.pc = IF Cardinality(InFlight) + 1 >= CONCURRENCY THEN "waiting" ELSE @]
  /\ UNCHANGED <<listed, bucket, leaked>>

\* The stream throws, a part has failed meanwhile, or the file is too long.
ReadingFails ==
  /\ upload.pc = "reading"
  /\ UploadGoes("cleaning")
  /\ UNCHANGED <<part, listed, bucket, leaked>>

\* Promise.race: somebody has answered.
RoomAgain ==
  /\ upload.pc = "waiting" /\ Cardinality(InFlight) < CONCURRENCY
  /\ UploadGoes(IF upload.failure THEN "cleaning" ELSE "reading")
  /\ UNCHANGED <<part, listed, bucket, leaked>>

\* The end of the stream; from here on the last parts are waited for.
SourceEnds ==
  /\ upload.pc = "reading" /\ upload.sent = upload.need
  /\ UploadGoes("draining")
  /\ UNCHANGED <<part, listed, bucket, leaked>>

Drained ==
  /\ upload.pc = "draining" /\ InFlight = {}
  /\ UploadGoes(IF upload.failure THEN "cleaning" ELSE "completing")
  /\ UNCHANGED <<part, listed, bucket, leaked>>

\* Mutant of ListToSend: the parts go in the order in which they were answered.
ListAsAnswered == listed

\* completeMultipartUpload sends the parts by number; the store joins what it is
\* told to join, in that order.
ListToSend ==
  LET places == 1 .. Len(listed)
      order == CHOOSE p \in [places -> places] :
                 /\ \A j \in places : \E i \in places : p[i] = j
                 /\ \A i, j \in places : i < j => listed[p[i]] <= listed[p[j]]
  IN [i \in places |-> listed[order[i]]]

CompleteUpload ==
  /\ upload.pc = "completing"
  /\ \E took \in BOOLEAN, answered \in BOOLEAN :
       /\ bucket' = IF took THEN [state |-> "object", object |-> ListToSend] ELSE bucket
       /\ UploadGoes(IF took /\ answered THEN "done" ELSE "cleaning")
  /\ UNCHANGED <<part, listed, leaked>>

Cleaned ==
  /\ upload.pc = "cleaning" /\ InFlight = {}
  /\ UploadGoes("aborting")
  /\ UNCHANGED <<part, listed, bucket, leaked>>

\* abortMultipartUpload: a 404 is welcome, any other failure only logged.
AbortUpload ==
  /\ upload.pc = "aborting"
  /\ \/ /\ bucket' = IF bucket.state = "open" THEN [bucket EXCEPT !.state = "aborted"]
                     ELSE bucket
        /\ UNCHANGED leaked
     \/ leaked' = TRUE /\ UNCHANGED bucket
  /\ UploadGoes("failed")
  /\ UNCHANGED <<part, listed>>

----------------------------------------------------------------------------
\* uploadPart is answered with an ETag.
PartLands(n) ==
  /\ n \in InFlight
  /\ part' = [part EXCEPT ![n].at = "landed"]
  /\ listed' = Append(listed, n)
  /\ UNCHANGED <<upload, bucket, leaked>>

\* It fails, with or without having arrived: again after a pause, or given up.
PartFails(n) ==
  /\ n \in InFlight
  /\ part' = [part EXCEPT ![n] = [at |-> IF @.tries + 1 < ATTEMPTS THEN "flying" ELSE "lost",
                                  tries |-> @.tries + 1]]
  /\ upload' = [upload EXCEPT !.failure = @ \/ part[n].tries + 1 >= ATTEMPTS]
  /\ UNCHANGED <<listed, bucket, leaked>>

----------------------------------------------------------------------------
MainLine ==
  \/ CreateUpload \/ SendPart \/ ReadingFails \/ RoomAgain \/ SourceEnds
  \/ Drained \/ CompleteUpload \/ Cleaned \/ AbortUpload

UploadNext == MainLine \/ \E n \in PartNumbers : PartLands(n) \/ PartFails(n)

UploadSpec == UploadInit /\ [][UploadNext]_uploadVars

----------------------------------------------------------------------------
\* The shape of the state: among others, no part is tried more than ATTEMPTS times.
UploadTypeOK ==
  /\ upload \in [pc : {"creating", "reading", "waiting", "draining", "completing",
                       "cleaning", "aborting", "done", "failed"},
                 need : PartNumbers, sent : 0 .. MaxSource, failure : BOOLEAN]
  /\ part \in [PartNumbers -> [at : {"unsent", "flying", "landed", "lost"},
                               tries : 0 .. ATTEMPTS]]
  /\ listed \in Seq(PartNumbers)
  /\ bucket \in [state : {"none", "open", "object", "aborted"}, object : Seq(PartNumbers)]
  /\ leaked \in BOOLEAN

\* The object, if there is one, is the file: every part once, in its place, whatever
\* the order of the answers, however often parts were sent again.
ObjectIsTheFile ==
  bucket.state = "object" => bucket.object = [i \in 1 .. upload.need |-> i]

\* Never more than `concurrency` parts are held in memory for sending.
InFlightIsBounded == Cardinality(InFlight) <= CONCURRENCY

\* An upload that is over has left nothing at the store but an object, and nothing
\* is still on its way there, unless a reply was lost that named or ended it.
NothingLeftBehind ==
  upload.pc \in {"done", "failed"} =>
    /\ bucket.state # "open" \/ leaked
    /\ InFlight = {}

\* The upload at every moment and after its end: parts are bounded, the object is the
\* file, and nothing is left at the store.
UploadSafe ==
  /\ UploadTypeOK
  /\ ObjectIsTheFile
  /\ InFlightIsBounded
  /\ NothingLeftBehind
============================================================================
