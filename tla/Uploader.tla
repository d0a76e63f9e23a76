-------------------------------- MODULE Uploader --------------------------------
(***************************************************************************)
(* Uploading one session file (uploader/wdgwars.py): upload_with_retry     *)
(* tries a few times, by the synchronous endpoint (v1) or by the queue     *)
(* (v2), which answers with a job to be polled until a deadline.           *)
(*                                                                         *)
(* The server is external: it takes a request or does not, runs the jobs   *)
(* it took in its own time, and its answers may be replaced by an error of *)
(* a gateway, or lost.  It says "ok" only of what it has imported.         *)
(*                                                                         *)
(* Statuses are the classes the client tells apart: "client" (400, 403,    *)
(* 413, 415), "key" (401), "gateway" (0, no answer, and 408, 502, 503,     *)
(* 504), "other" (any other, a 200 or 202 that is no success among them).  *)
(***************************************************************************)
EXTENDS Integers, FiniteSets

CONSTANTS
  Files,     \* session files, numbered from the oldest
  Big,       \* those of V2_THRESHOLD_BYTES and more
  Modes,     \* upload.mode, of "auto", "v1", "v2"
  Tries,     \* Len(RETRY_DELAYS_S)
  MaxPolls   \* polls that fit before the deadline

ASSUME UploaderAssumption ==
  /\ Files \subseteq Nat \ {0} /\ Big \subseteq Files
  /\ Modes \subseteq {"auto", "v1", "v2"}
  /\ Tries \in Nat \ {0} /\ MaxPolls \in Nat \ {0}

ASSUME FilesAreFinite == IsFiniteSet(Files)

Statuses == {"ok", "client", "key", "gateway", "other"}

VARIABLES
  mode,      \* upload.mode
  pc,        \* where the program is
  file,      \* the file being uploaded
  attempt,   \* which try this is
  useV2,     \* use_v2
  polls,     \* polls of the job so far
  result,    \* status of the latest UploadResult
  temps,     \* bodies staged on the disk, the one in use included
  partial,   \* a body whose staging failed is on the disk, in part
  taken,     \* the server has taken the request in progress
  job,       \* server: the job of the request in progress
  known,     \* server: running jobs the client has polled and given up
  unknown,   \* server: running jobs the client was never told of
  imported,  \* history: how often the server has imported a file
  unnoted    \* history: requests taken whose end the program did not note

server == <<job, known, unknown, imported>>
upVars == <<mode, pc, file, attempt, useV2, polls, result, temps, partial,
            taken, server, unnoted>>

UploadPlaces == {"stage", "send", "answer", "poll", "judge"}

UploadTypeOK ==
  /\ mode \in Modes /\ file \in Files \cup {0} /\ attempt \in 0..Tries
  /\ useV2 \in BOOLEAN /\ polls \in 0..MaxPolls /\ result \in Statuses
  /\ temps \in Nat /\ partial \in BOOLEAN /\ taken \in BOOLEAN
  /\ job \in {"none", "running", "done", "failed"}
  /\ {known, unknown, imported, unnoted} \subseteq [Files -> Nat]

UploadInit ==
  /\ mode \in Modes /\ file = 0 /\ attempt = 0 /\ useV2 = FALSE /\ polls = 0
  /\ result = "other" /\ temps = 0 /\ partial = FALSE /\ taken = FALSE
  /\ job = "none"
  /\ known = [f \in Files |-> 0] /\ unknown = known
  /\ imported = known /\ unnoted = known

-------------------------------------------------------------------------------
(* The server's jobs. *)

Plus(count, f) == [count EXCEPT ![f] = @ + 1]
Minus(count, f) == [count EXCEPT ![f] = @ - 1]

\* A job ends, in an import or without.
JobEnds ==
  /\ \/ /\ job = "running"
        /\ \/ job' = "done" /\ imported' = Plus(imported, file)
           \/ job' = "failed" /\ UNCHANGED imported
        /\ UNCHANGED <<known, unknown>>
     \/ \E f \in Files :
          /\ known[f] > 0 /\ known' = Minus(known, f)
          /\ imported' \in {imported, Plus(imported, f)}
          /\ UNCHANGED <<job, unknown>>
     \/ \E f \in Files :
          /\ unknown[f] > 0 /\ unknown' = Minus(unknown, f)
          /\ imported' \in {imported, Plus(imported, f)}
          /\ UNCHANGED <<job, known>>
  /\ UNCHANGED <<mode, pc, file, attempt, useV2, polls, result, temps, partial,
                 taken, unnoted>>

-------------------------------------------------------------------------------
(* The client. *)

\* upload_with_retry(f): routed by mode and size.
StartUpload(f) ==
  /\ pc' = "stage" /\ file' = f /\ attempt' = 1
  /\ useV2' = (mode = "v2" \/ (mode = "auto" /\ f \in Big))
  /\ UNCHANGED <<mode, polls, result, temps, partial, taken, server, unnoted>>

\* What a call of upload_with_retry() held in its locals goes with it.
Forget ==
  /\ file' = 0 /\ attempt' = 0 /\ useV2' = FALSE /\ polls' = 0
  /\ result' = "other"

\* The UploadResult of this try.
Result(status) == pc' = "judge" /\ result' = status

\* _write_multipart().  When it raises, tmp has not been assigned and _unlink has
\* nothing to remove, whatever part of the body is on the disk.  The queue's body
\* may turn out to be over the cap, and is removed.
Stage ==
  /\ pc = "stage"
  /\ \/ pc' = "send" /\ temps' = temps + 1 /\ UNCHANGED <<result, partial>>
     \/ useV2 /\ Result("client") /\ UNCHANGED <<temps, partial>>
     \/ Result("gateway") /\ partial' \in {partial, TRUE} /\ UNCHANGED temps
  /\ UNCHANGED <<mode, file, attempt, useV2, polls, taken, server, unnoted>>

\* The request goes out.  It reaches the server, which imports the file or
\* queues a job, or it does not.
Send ==
  /\ pc = "send" /\ pc' = "answer"
  /\ \/ taken' = FALSE /\ UNCHANGED <<job, imported>>
     \/ /\ taken' = TRUE
        /\ IF useV2
           THEN job' = "running" /\ UNCHANGED imported
           ELSE imported' = Plus(imported, file) /\ UNCHANGED job
  /\ UNCHANGED <<mode, file, attempt, useV2, polls, result, temps, partial, known,
                 unknown, unnoted>>

\* The client has no more to do with the job, which goes on if it still runs:
\* among those it knew of, or those it was never told of.
Leave ==
  /\ job' = "none"
  /\ UNCHANGED imported
  /\ IF job # "running" THEN UNCHANGED <<known, unknown>>
     ELSE IF pc = "poll" THEN known' = Plus(known, file) /\ UNCHANGED unknown
     ELSE unknown' = Plus(unknown, file) /\ UNCHANGED known

\* The three ways a request is answered: taken, refused with a status or not
\* even received, taken but answered by a gateway or not at all.
Refused ==
  /\ ~taken
  /\ \E status \in Statuses \ {"ok"} : Result(status)
  /\ UNCHANGED <<polls, server, unnoted>>

Unanswered ==
  /\ taken
  /\ \E status \in {"gateway", "other"} : Result(status)
  /\ Leave
  /\ unnoted' = Plus(unnoted, file)
  /\ UNCHANGED polls

\* Mutant of Accepted: the queue's 202 is taken for the import.
AcceptedIsDone ==
  /\ taken
  /\ Result("ok") /\ Leave
  /\ UNCHANGED <<polls, unnoted>>

\* A v1 request taken is a success, the queue's 202 names a job to be polled.
Accepted ==
  /\ taken
  /\ IF useV2
     THEN pc' = "poll" /\ UNCHANGED result
     ELSE Result("ok")
  /\ UNCHANGED <<polls, server, unnoted>>

\* Mutant of Answer: the body is only removed after a success.
AnswerKeepsBody ==
  /\ pc = "answer"
  /\ \/ Accepted /\ temps' = temps - 1
     \/ (Refused \/ Unanswered) /\ UNCHANGED temps
  /\ taken' = FALSE
  /\ UNCHANGED <<mode, file, attempt, useV2, partial>>

\* upload_csv(), upload_csv_v2(): the answer, and `finally` the body is removed.
Answer ==
  /\ pc = "answer"
  /\ Accepted \/ Refused \/ Unanswered
  /\ temps' = temps - 1
  /\ taken' = FALSE
  /\ UNCHANGED <<mode, file, attempt, useV2, partial>>

GiveUpJob(status) ==
  /\ Result(status) /\ Leave
  /\ unnoted' = Plus(unnoted, file)
  /\ polls' = 0

\* Mutant of AskAgain: the deadline moves on with every poll.
AskForever ==
  /\ polls' = (polls + 1) % MaxPolls
  /\ UNCHANGED <<pc, result, server, unnoted>>

\* Poll again, unless the deadline has passed.
AskAgain ==
  IF polls + 1 < MaxPolls
  THEN polls' = polls + 1 /\ UNCHANGED <<pc, result, server, unnoted>>
  ELSE \E status \in {"gateway", "other"} : GiveUpJob(status)

\* poll_job(), one GET: the job's end is told; the job is pending, or the poll
\* was dropped, and it is asked again; an HTTP error ends the polling.
Poll ==
  /\ pc = "poll"
  /\ \/ /\ \/ job = "done" /\ Result("ok")
           \/ job = "failed" /\ Result("other")
        /\ Leave
        /\ polls' = 0 /\ UNCHANGED unnoted
     \/ AskAgain
     \/ \E status \in Statuses \ {"ok"} : GiveUpJob(status)
  /\ UNCHANGED <<mode, file, attempt, useV2, temps, partial, taken>>

\* Mutant of Final: one try too many.
FinalLate == result \in {"ok", "client", "key"} \/ attempt > Tries

\* upload_with_retry() returns: success, a client error, or the last try.
Final == result \in {"ok", "client", "key"} \/ attempt = Tries

\* The next try, by the queue when a gateway came in the way of v1.
Retry ==
  /\ pc = "judge" /\ ~Final
  /\ pc' = "stage" /\ attempt' = attempt + 1
  /\ useV2' = (useV2 \/ result = "gateway")
  /\ UNCHANGED <<mode, file, polls, result, temps, partial, taken, server,
                 unnoted>>

Upload == Stage \/ Send \/ Answer \/ Poll \/ Retry
===============================================================================
