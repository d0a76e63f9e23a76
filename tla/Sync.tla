---------------------------------- MODULE Sync ----------------------------------
(***************************************************************************)
(* SYNC NOW (App._action_sync) with the markers beside the session files   *)
(* (storage/session.py): the files without a .uploaded marker are uploaded *)
(* one after the other, oldest first, and marked .uploaded or .error.      *)
(*                                                                         *)
(* Environment: the server of module Uploader; the process may end at any  *)
(* moment (killed, out of battery, an exception such as a full disk when   *)
(* the marker is written) and is started again.                            *)
(***************************************************************************)
EXTENDS Uploader

CONSTANTS
  MaxSyncs,   \* bound: syncs
  MaxCrashes  \* bound: crashes

ASSUME SyncAssumption == MaxSyncs \in Nat /\ MaxCrashes \in Nat

VARIABLES
  pending,   \* the files of this sync still to come
  uploaded,  \* files with a .uploaded marker
  errors,    \* files with a .error marker
  syncs,     \* history: syncs so far
  crashes    \* history: crashes so far

syncVars == <<pending, uploaded, errors, syncs, crashes>>
vars == <<upVars, syncVars>>

TypeOK ==
  /\ UploadTypeOK
  /\ pc \in UploadPlaces \cup {"idle", "next"}
  /\ pending \subseteq Files
  /\ uploaded \subseteq Files /\ errors \subseteq Files
  /\ syncs \in 0..MaxSyncs /\ crashes \in 0..MaxCrashes

Init ==
  /\ UploadInit
  /\ pc = "idle"
  /\ pending = {} /\ uploaded = {} /\ errors = {} /\ syncs = 0 /\ crashes = 0

-------------------------------------------------------------------------------

\* Mutant of list_pending: the markers are not looked at.
PendingAll == Files

list_pending == Files \ uploaded

\* The sync starts when something is pending and the probe of /api/me answers.
StartSync ==
  /\ pc = "idle" /\ syncs < MaxSyncs
  /\ list_pending # {}
  /\ pending' = list_pending /\ pc' = "next" /\ syncs' = syncs + 1
  /\ UNCHANGED <<mode, file, attempt, useV2, polls, result, temps, partial, taken,
                 server, unnoted, uploaded, errors, crashes>>

\* The oldest comes first.
NextFile ==
  /\ pc = "next"
  /\ \E f \in pending :
       /\ \A g \in pending : f <= g
       /\ pending' = pending \ {f}
       /\ StartUpload(f)
  /\ UNCHANGED <<uploaded, errors, syncs, crashes>>

FinishSync ==
  /\ pc = "next" /\ pending = {}
  /\ pc' = "idle"
  /\ UNCHANGED <<mode, file, attempt, useV2, polls, result, temps, partial, taken,
                 server, unnoted, syncVars>>

Uploading == Upload /\ UNCHANGED syncVars

\* The file is marked.  A rejected key ends the sync, anything else goes on to
\* the next file.
NoteResult ==
  /\ pc = "judge" /\ Final
  /\ IF result = "ok"
     THEN uploaded' = uploaded \cup {file} /\ UNCHANGED errors
     ELSE errors' = errors \cup {file} /\ UNCHANGED uploaded
  /\ pc' = IF result = "key" THEN "idle" ELSE "next"
  /\ pending' = IF result = "key" THEN {} ELSE pending
  /\ Forget
  /\ UNCHANGED <<mode, temps, partial, taken, server, unnoted, syncs, crashes>>

\* The process ends in the middle of a sync and is started again.  What the
\* server has taken of the request in progress, or said of it, is forgotten.
Crash ==
  /\ pc # "idle" /\ crashes < MaxCrashes
  /\ crashes' = crashes + 1
  /\ pc' = "idle" /\ taken' = FALSE
  /\ unnoted' = IF taken \/ pc = "poll" \/ (pc = "judge" /\ result = "ok")
                THEN Plus(unnoted, file) ELSE unnoted
  /\ Leave
  /\ Forget
  /\ pending' = {}
  /\ UNCHANGED <<mode, temps, partial, uploaded, errors, syncs>>

ServerWorks == JobEnds /\ UNCHANGED syncVars

Program == NextFile \/ FinishSync \/ Uploading \/ NoteResult

Next ==
  \/ StartSync
  \/ NextFile
  \/ FinishSync
  \/ Uploading
  \/ NoteResult
  \/ Crash
  \/ ServerWorks

\* Every request has a timeout and every poll counts, so the program goes on;
\* nothing is assumed of the user and the server.
Spec == Init /\ [][Next]_vars /\ WF_vars(Program)

-------------------------------------------------------------------------------
(* Properties. *)

\* A file marked .uploaded, which is never sent again, has been imported: for
\* the queue, the job was seen done, not just accepted.
MarkedIsImported == \A f \in uploaded : imported[f] > 0

\* Duplicates are never the program's own doing: it sends a file that may
\* already have been imported only when the end of an earlier request was not
\* noted, because the answer got lost, polling was given up, or the process
\* ended before the marker was written.
DuplicatesExplained == \A f \in Files : imported[f] <= 1 + unnoted[f]

\* A body that was staged beside the session files is removed whatever the
\* request's fate: whole bodies are only left over from crashes.
TempsRemoved == pc \notin {"send", "answer"} => temps <= crashes

\* What a sync leaves beside the session files is what its types say and no body.
FilesTidy == TypeOK /\ TempsRemoved

\* Every sync comes to its end, whatever the server does or does not answer.
SyncEnds == pc # "idle" ~> pc = "idle"

\* "A dropped poll is not a failed import - the job keeps running server-side"
\* (wdgwars.py:267): the client, having polled a job that still runs, submits
\* no second one for the same file.
NoSecondJob == job # "none" => known[file] = 0
===============================================================================
