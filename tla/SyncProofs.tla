------------------------------- MODULE SyncProofs -------------------------------
(***************************************************************************)
(* Theorems about Sync, for any files, tries, polls, syncs and crashes: a  *)
(* file marked .uploaded has been imported, no duplicate is the program's  *)
(* own doing, no staged body stays, and a sync has only so many steps.     *)
(***************************************************************************)
EXTENDS Sync, FiniteSetTheorems, TLAPS

-------------------------------------------------------------------------------
(* Counts. *)

Counts == [Files -> Nat]

LEMMA PlusFacts ==
  ASSUME NEW c \in Counts, NEW f \in Files
  PROVE  /\ Plus(c, f) \in Counts /\ Plus(c, f)[f] = c[f] + 1
         /\ \A g \in Files : g # f => Plus(c, f)[g] = c[g]
BY DEF Plus, Counts

LEMMA MinusFacts ==
  ASSUME NEW c \in Counts, NEW f \in Files, c[f] > 0
  PROVE  /\ Minus(c, f) \in Counts /\ Minus(c, f)[f] = c[f] - 1
         /\ \A g \in Files : g # f => Minus(c, f)[g] = c[g]
BY DEF Minus, Counts

-------------------------------------------------------------------------------
(* The invariant. *)

\* The file in hand is neither marked nor still to come.
InHand ==
  /\ pc \in UploadPlaces => file \in Files \ (uploaded \cup pending)
                            /\ attempt >= 1
  /\ pending \cap uploaded = {}

\* The server's side of the request in progress: a job is one the client polls or
\* is about to hear of, and what is a success has been imported.
JobKnown ==
  /\ taken => pc = "answer"
  /\ job # "none" => pc = "poll" \/ (taken /\ useV2)
  /\ \/ taken /\ ~useV2
     \/ job = "done"
     \/ pc = "judge" /\ result = "ok"
     => imported[file] > 0

\* There is one body while a request is made, and one more for every crash.
Bodies == IF pc \in {"send", "answer"} THEN temps \in 1..crashes + 1
                                      ELSE temps <= crashes

\* What has become of the request in progress may still be noted.
Going == job # "failed" /\ (taken \/ pc = "poll" \/ (pc = "judge" /\ result = "ok"))
Running(f) == IF job = "running" /\ f = file THEN 1 ELSE 0
Open(f) == IF f \in uploaded \/ (f = file /\ Going) THEN 1 ELSE 0

\* Every import there is or may be is that of a file marked, that of the request
\* in progress, or one whose end was not noted.
Accounted ==
  \A f \in Files :
    imported[f] + known[f] + unknown[f] + Running(f) <= unnoted[f] + Open(f)

SyncInv == TypeOK /\ InHand /\ JobKnown /\ Bodies /\ Accounted /\ MarkedIsImported

LEMMA Types ==
  ASSUME TypeOK
  PROVE  /\ known \in Counts /\ unknown \in Counts /\ imported \in Counts
         /\ unnoted \in Counts /\ temps \in Nat /\ crashes \in Nat /\ syncs \in Nat
         /\ attempt \in Nat /\ polls \in Nat /\ MaxPolls \in Nat /\ Tries \in Nat
         /\ MaxSyncs \in Nat /\ MaxCrashes \in Nat
BY UploaderAssumption, SyncAssumption DEF TypeOK, UploadTypeOK, Counts

LEMMA Zeros == 0 \in 0..Tries /\ 0 \in 0..MaxPolls /\ 0 \in 0..MaxSyncs /\ 0 \in 0..MaxCrashes
BY UploaderAssumption, SyncAssumption

\* A step that leaves the server, the notes and the markers alone, and has no
\* request go.
LEMMA Unrelated ==
  ASSUME SyncInv, UNCHANGED <<server, unnoted, uploaded>>,
         job = "none", Going' = FALSE, Going = FALSE
  PROVE  Accounted' /\ MarkedIsImported'
BY Types DEF SyncInv, Accounted, MarkedIsImported, Running, Open, server

\* Accounted is kept when a request and its note balance the imports.
LEMMA Balance ==
  ASSUME SyncInv, imported' \in Counts, known' \in Counts, unknown' \in Counts, unnoted' \in Counts,
         \A f \in Files :
           imported'[f] + known'[f] + unknown'[f] + Running(f)' + unnoted[f] + Open(f)
             <= imported[f] + known[f] + unknown[f] + Running(f) + unnoted'[f] + Open(f)'
  PROVE  Accounted'
<1> SUFFICES ASSUME NEW f \in Files
             PROVE  (imported[f] + known[f] + unknown[f] + Running(f) <= unnoted[f] + Open(f))'
  BY DEF Accounted
<1>1. imported[f] + known[f] + unknown[f] + Running(f) <= unnoted[f] + Open(f)
  BY DEF SyncInv, Accounted
<1>2. /\ imported[f] \in Nat /\ known[f] \in Nat /\ unknown[f] \in Nat /\ unnoted[f] \in Nat
      /\ imported'[f] \in Nat /\ known'[f] \in Nat /\ unknown'[f] \in Nat /\ unnoted'[f] \in Nat
  BY Types DEF SyncInv, Counts
<1>3. /\ Running(f) \in {0, 1} /\ Running(f)' \in {0, 1} /\ Open(f) \in {0, 1} /\ Open(f)' \in {0, 1}
  BY DEF Running, Open
<1> QED
  BY <1>1, <1>2, <1>3

LEMMA StartStep ==
  ASSUME SyncInv, StartSync
  PROVE  SyncInv'
<1>1. TypeOK'
  BY Types DEF SyncInv, StartSync, TypeOK, UploadTypeOK, UploadPlaces, list_pending, server
<1>2. InHand' /\ JobKnown' /\ Bodies'
  BY DEF SyncInv, StartSync, InHand, JobKnown, Bodies, UploadPlaces, list_pending, server
<1>3. Accounted' /\ MarkedIsImported'
  <2>1. job = "none" /\ Going = FALSE /\ Going' = FALSE
    BY DEF SyncInv, StartSync, JobKnown, Going, server
  <2> QED
    BY <2>1, Unrelated DEF StartSync
<1> QED
  BY <1>1, <1>2, <1>3 DEF SyncInv

LEMMA NextFileStep ==
  ASSUME SyncInv, NextFile
  PROVE  SyncInv'
<1>0. PICK f \in pending : pending' = pending \ {f} /\ StartUpload(f)
  BY DEF NextFile
<1>1. TypeOK'
  BY <1>0, UploaderAssumption
     DEF SyncInv, NextFile, StartUpload, TypeOK, UploadTypeOK, UploadPlaces, server
<1>2. InHand' /\ Bodies'
  BY <1>0 DEF SyncInv, NextFile, StartUpload, InHand, Bodies, UploadPlaces, TypeOK, server
<1>3. pc = "next" /\ pc' = "stage" /\ taken = FALSE /\ job = "none" /\ UNCHANGED <<taken, job>>
  BY <1>0 DEF SyncInv, NextFile, StartUpload, JobKnown, TypeOK, UploadTypeOK, server
<1>4. JobKnown'
  BY <1>3 DEF JobKnown
<1>5. Accounted' /\ MarkedIsImported'
  <2>1. Going = FALSE /\ Going' = FALSE
    BY <1>3 DEF Going
  <2> QED
    BY <1>0, <1>3, <2>1, Unrelated DEF NextFile, StartUpload
<1> QED
  BY <1>1, <1>2, <1>4, <1>5 DEF SyncInv

LEMMA FinishStep ==
  ASSUME SyncInv, FinishSync
  PROVE  SyncInv'
<1>1. TypeOK'
  BY DEF SyncInv, FinishSync, TypeOK, UploadTypeOK, UploadPlaces, syncVars, server
<1>2. InHand' /\ JobKnown' /\ Bodies'
  BY DEF SyncInv, FinishSync, InHand, JobKnown, Bodies, UploadPlaces, syncVars, server
<1>3. Accounted' /\ MarkedIsImported'
  <2>1. job = "none" /\ Going = FALSE /\ Going' = FALSE
    BY DEF SyncInv, FinishSync, JobKnown, Going, server
  <2> QED
    BY <2>1, Unrelated DEF FinishSync, syncVars
<1> QED
  BY <1>1, <1>2, <1>3 DEF SyncInv

-------------------------------------------------------------------------------
(* The steps of an upload. *)

LEMMA StageStep ==
  ASSUME SyncInv, Stage, UNCHANGED syncVars
  PROVE  SyncInv'
<1>1. /\ pc = "stage" /\ pc' \in {"send", "judge"} /\ (pc' = "judge" => result' # "ok")
      /\ taken = FALSE /\ taken' = FALSE /\ job = "none" /\ job' = "none"
  BY DEF SyncInv, Stage, Result, JobKnown, TypeOK, UploadTypeOK, server
<1>2. TypeOK'
  <2>1. /\ UNCHANGED <<mode, file, attempt, useV2, polls, taken, job, known, unknown, imported, unnoted,
                       pending, uploaded, errors, syncs, crashes>>
        /\ result' \in {result, "client", "gateway"} /\ partial' \in {partial, TRUE}
        /\ temps' \in {temps, temps + 1}
    BY DEF Stage, Result, syncVars, server
  <2>2. partial' \in BOOLEAN
    BY <2>1, Zenon DEF SyncInv, TypeOK, UploadTypeOK
  <2>3. temps' \in Nat
    BY <2>1, Types DEF SyncInv
  <2>4. result' \in Statuses
    BY <2>1 DEF SyncInv, TypeOK, UploadTypeOK, Statuses
  <2> QED
    BY <1>1, <2>1, <2>2, <2>3, <2>4 DEF SyncInv, TypeOK, UploadTypeOK, UploadPlaces
<1>3. InHand'
  BY <1>1 DEF SyncInv, Stage, InHand, UploadPlaces, syncVars
<1>4. JobKnown'
  BY <1>1 DEF JobKnown
<1>5. Bodies'
  <2>1. temps <= crashes /\ temps \in Nat /\ crashes \in Nat /\ crashes' = crashes
    BY <1>1, Types DEF SyncInv, Bodies, syncVars
  <2>2. (pc' = "send" => temps' = temps + 1) /\ (pc' = "judge" => temps' = temps)
    BY <1>1 DEF Stage, Result
  <2> QED
    BY <1>1, <2>1, <2>2 DEF Bodies
<1>6. Accounted' /\ MarkedIsImported'
  <2>1. Going = FALSE /\ Going' = FALSE
    BY <1>1 DEF Going
  <2> QED
    BY <1>1, <2>1, Unrelated DEF Stage, syncVars
<1> QED
  BY <1>2, <1>3, <1>4, <1>5, <1>6 DEF SyncInv

LEMMA SendStep ==
  ASSUME SyncInv, Send, UNCHANGED syncVars
  PROVE  SyncInv'
<1>0. /\ pc = "send" /\ pc' = "answer" /\ taken = FALSE /\ job = "none"
      /\ file \in Files /\ file \notin uploaded
      /\ UNCHANGED <<mode, file, attempt, useV2, polls, result, temps, partial, known,
                     unknown, unnoted, pending, uploaded, errors, syncs, crashes>>
  BY DEF SyncInv, Send, JobKnown, InHand, UploadPlaces, TypeOK, UploadTypeOK, syncVars
<1>1. CASE taken' = FALSE /\ UNCHANGED <<job, imported>>
  <2>1. TypeOK' /\ InHand' /\ JobKnown' /\ Bodies'
    <3>1. TypeOK'
      BY <1>0, <1>1 DEF SyncInv, TypeOK, UploadTypeOK, UploadPlaces
    <3>2. InHand'
      BY <1>0, <1>1 DEF SyncInv, UploadPlaces, InHand
    <3>3. JobKnown'
      BY <1>0, <1>1 DEF SyncInv, JobKnown
    <3>4. Bodies'
      BY <1>0, <1>1 DEF SyncInv, Bodies
    <3> QED
      BY <3>1, <3>2, <3>3, <3>4
  <2>2. Going = FALSE /\ Going' = FALSE
    BY <1>0, <1>1 DEF Going
  <2>3. Accounted' /\ MarkedIsImported'
    BY <1>0, <1>1, <2>2, Unrelated DEF server
  <2> QED
    BY <2>1, <2>3 DEF SyncInv
<1>2. CASE taken' = TRUE /\ useV2 /\ job' = "running" /\ UNCHANGED imported
  <2>1. TypeOK' /\ InHand' /\ JobKnown' /\ Bodies'
    <3>1. TypeOK'
      BY <1>0, <1>2 DEF SyncInv, TypeOK, UploadTypeOK, UploadPlaces
    <3>2. InHand'
      BY <1>0, <1>2 DEF SyncInv, UploadPlaces, InHand
    <3>3. JobKnown'
      BY <1>0, <1>2 DEF SyncInv, JobKnown
    <3>4. Bodies'
      BY <1>0, <1>2 DEF SyncInv, Bodies
    <3> QED
      BY <3>1, <3>2, <3>3, <3>4
  <2>2. Going'
    BY <1>2 DEF Going
  <2>3. Accounted' /\ MarkedIsImported'
    <3>1. \A f \in Files : Running(f)' + Open(f) = Running(f) + Open(f)'
      BY <1>0, <1>2, <2>2 DEF Running, Open, Going
    <3>2. /\ imported \in Counts /\ known \in Counts /\ unknown \in Counts /\ unnoted \in Counts
          /\ \A f \in Files : Running(f) \in {0, 1} /\ Running(f)' \in {0, 1}
                                /\ Open(f) \in {0, 1} /\ Open(f)' \in {0, 1}
      BY Types DEF SyncInv, Running, Open
    <3>3. Accounted'
      BY <1>0, <1>2, <3>1, <3>2, Balance DEF Counts
    <3> QED
      BY <1>0, <1>2, <3>3 DEF SyncInv, MarkedIsImported
  <2> QED
    BY <2>1, <2>3 DEF SyncInv
<1>3. CASE taken' = TRUE /\ ~useV2 /\ UNCHANGED job /\ imported' = Plus(imported, file)
  <2>0. /\ imported' \in Counts /\ imported'[file] = imported[file] + 1
        /\ \A g \in Files : g # file => imported'[g] = imported[g]
        /\ imported \in Counts
    BY <1>0, <1>3, Types, PlusFacts DEF SyncInv
  <2>1. TypeOK' /\ InHand' /\ JobKnown' /\ Bodies'
    <3>1. TypeOK'
      BY <1>0, <1>3, <2>0 DEF SyncInv, TypeOK, UploadTypeOK, UploadPlaces, Counts
    <3>2. InHand'
      BY <1>0, <1>3, <2>0 DEF SyncInv, UploadPlaces, InHand
    <3>3. JobKnown'
      BY <1>0, <1>3, <2>0 DEF SyncInv, JobKnown, Counts
    <3>4. Bodies'
      BY <1>0, <1>3, <2>0 DEF SyncInv, Bodies
    <3> QED
      BY <3>1, <3>2, <3>3, <3>4
  <2>2. Going'
    BY <1>0, <1>3 DEF Going
  <2>3. Accounted'
    <3>1. \A f \in Files : /\ Running(f)' = 0 /\ Running(f) = 0
                           /\ f # file => Open(f)' = Open(f)
                           /\ f = file => Open(f)' = 1 /\ Open(f) = 0
      BY <1>0, <1>3, <2>2 DEF Running, Open, Going
    <3>2. known \in Counts /\ unknown \in Counts /\ unnoted \in Counts
      BY Types DEF SyncInv
    <3>3. ASSUME NEW f \in Files
          PROVE  imported'[f] + known'[f] + unknown'[f] + Running(f)' + unnoted[f] + Open(f)
                   <= imported[f] + known[f] + unknown[f] + Running(f) + unnoted'[f] + Open(f)'
      <4>1. /\ imported[f] \in Nat /\ known[f] \in Nat /\ unknown[f] \in Nat /\ unnoted[f] \in Nat
            /\ known'[f] = known[f] /\ unknown'[f] = unknown[f] /\ unnoted'[f] = unnoted[f]
            /\ Open(f) \in {0, 1} /\ Open(f)' \in {0, 1}
        BY <1>0, <2>0, <3>2 DEF Counts, Open
      <4>2. CASE f = file
        BY <2>0, <3>1, <4>1, <4>2
      <4>3. CASE f # file
        BY <2>0, <3>1, <4>1, <4>3
      <4> QED
        BY <4>2, <4>3
    <3> QED
      BY <1>0, <2>0, <3>2, <3>3, Balance
  <2>4. MarkedIsImported'
    BY <1>0, <2>0 DEF SyncInv, MarkedIsImported, TypeOK, Counts
  <2> QED
    BY <2>1, <2>3, <2>4 DEF SyncInv
<1> QED
  BY <1>1, <1>2, <1>3 DEF Send

\* A job that is left goes on, and the end of its request is noted or not.
LEMMA LeaveFacts ==
  ASSUME SyncInv, Leave, file \in Files
  PROVE  /\ known' \in Counts /\ unknown' \in Counts /\ imported' = imported /\ job' = "none"
         /\ \A f \in Files :
              known'[f] + unknown'[f] = known[f] + unknown[f] + Running(f)
<1>1. /\ known \in Counts /\ unknown \in Counts
  BY Types DEF SyncInv
<1>2. CASE job # "running"
  BY <1>1, <1>2 DEF Leave, Running, Counts
<1>3. CASE job = "running" /\ pc = "poll"
  <2>1. known' = Plus(known, file) /\ UNCHANGED unknown /\ imported' = imported /\ job' = "none"
    BY <1>3 DEF Leave
  <2>2. /\ known' \in Counts /\ known'[file] = known[file] + 1
        /\ \A f \in Files : f # file => known'[f] = known[f]
    BY <1>1, <2>1, PlusFacts
  <2>3. \A f \in Files : known[f] \in Nat /\ unknown[f] \in Nat
                         /\ Running(f) = IF f = file THEN 1 ELSE 0
    BY <1>1, <1>3 DEF Running, Counts
  <2> QED
    BY <1>1, <2>1, <2>2, <2>3
<1>4. CASE job = "running" /\ pc # "poll"
  <2>1. unknown' = Plus(unknown, file) /\ UNCHANGED known /\ imported' = imported /\ job' = "none"
    BY <1>4 DEF Leave
  <2>2. /\ unknown' \in Counts /\ unknown'[file] = unknown[file] + 1
        /\ \A f \in Files : f # file => unknown'[f] = unknown[f]
    BY <1>1, <2>1, PlusFacts
  <2>3. \A f \in Files : known[f] \in Nat /\ unknown[f] \in Nat
                         /\ Running(f) = IF f = file THEN 1 ELSE 0
    BY <1>1, <1>4 DEF Running, Counts
  <2> QED
    BY <1>1, <2>1, <2>2, <2>3
<1> QED
  BY <1>2, <1>3, <1>4

\* The request in progress ends with a status that is no success, unnoted when it
\* had been taken, or by its success.
LEMMA RequestEnds ==
  ASSUME SyncInv, file \in Files, file \notin uploaded, Leave, pc' = "judge", taken' = FALSE,
         UNCHANGED <<file, uploaded>>,
         \/ unnoted' = Plus(unnoted, file) /\ result' # "ok"
         \/ unnoted' = unnoted /\ Going /\ result' = "ok" /\ job # "running"
         \/ unnoted' = unnoted /\ ~Going /\ job # "running"
  PROVE  /\ Accounted' /\ MarkedIsImported' /\ unnoted' \in Counts
         /\ known' \in Counts /\ unknown' \in Counts /\ imported' = imported /\ job' = "none"
<1>1. /\ known' \in Counts /\ unknown' \in Counts /\ imported' = imported /\ job' = "none"
      /\ \A f \in Files : known'[f] + unknown'[f] = known[f] + unknown[f] + Running(f)
  BY LeaveFacts
<1>2. /\ imported \in Counts /\ unnoted \in Counts /\ known \in Counts /\ unknown \in Counts
  BY Types DEF SyncInv
<1>3. unnoted' \in Counts /\ \A f \in Files : f # file => unnoted'[f] = unnoted[f]
  BY <1>2, PlusFacts
<1>4. \A f \in Files : Running(f)' = 0
  BY <1>1 DEF Running
<1>5. \A f \in Files : f # file => Open(f)' = Open(f)
  BY DEF Open
<1>6. unnoted'[file] + Open(file)' >= unnoted[file] + Open(file)
  <2>1. CASE unnoted' = Plus(unnoted, file)
    <3>1. unnoted'[file] = unnoted[file] + 1
      BY <1>2, <2>1, PlusFacts
    <3>2. Open(file) \in {0, 1} /\ Open(file)' \in {0, 1} /\ unnoted[file] \in Nat
      BY <1>2 DEF Open, Counts
    <3> QED
      BY <3>1, <3>2
  <2>2. CASE unnoted' = unnoted /\ Going /\ result' = "ok"
    <3>1. Going'
      BY <1>1, <2>2 DEF Going
    <3>2. Open(file)' = 1 /\ Open(file) = 1 /\ unnoted[file] \in Nat
      BY <1>2, <2>2, <3>1 DEF Open, Counts
    <3> QED
      BY <2>2, <3>2
  <2>3. CASE unnoted' = unnoted /\ ~Going
    <3>1. Open(file) = 0 /\ Open(file)' \in {0, 1} /\ unnoted[file] \in Nat
      BY <1>2, <2>3 DEF Open, Counts
    <3> QED
      BY <2>3, <3>1
  <2> QED
    BY <2>1, <2>2, <2>3
<1>7. Accounted'
  <2> SUFFICES ASSUME NEW f \in Files
               PROVE  (imported[f] + known[f] + unknown[f] + Running(f) <= unnoted[f] + Open(f))'
    BY DEF Accounted
  <2>1. imported[f] + known[f] + unknown[f] + Running(f) <= unnoted[f] + Open(f)
    BY DEF SyncInv, Accounted
  <2>2. /\ imported[f] \in Nat /\ known[f] \in Nat /\ unknown[f] \in Nat /\ unnoted[f] \in Nat
        /\ known'[f] \in Nat /\ unknown'[f] \in Nat /\ unnoted'[f] \in Nat
    BY <1>1, <1>2, <1>3 DEF Counts
  <2>3. Running(f) \in {0, 1} /\ Open(f) \in {0, 1} /\ Open(f)' \in {0, 1}
    BY DEF Running, Open
  <2>4. unnoted'[f] + Open(f)' >= unnoted[f] + Open(f)
    BY <1>3, <1>5, <1>6, <2>2, <2>3
  <2> QED
    BY <1>1, <1>4, <2>1, <2>2, <2>3, <2>4
<1>8. MarkedIsImported'
  BY <1>1 DEF SyncInv, MarkedIsImported
<1> QED
  BY <1>1, <1>3, <1>7, <1>8

LEMMA AnswerStep ==
  ASSUME SyncInv, Answer, UNCHANGED syncVars
  PROVE  SyncInv'
<1>0. /\ pc = "answer" /\ file \in Files /\ file \notin uploaded /\ taken' = FALSE
      /\ UNCHANGED <<mode, file, attempt, useV2, partial, pending, uploaded, errors, syncs, crashes>>
      /\ temps' \in Nat /\ temps' <= crashes
  <2>1. pc = "answer" /\ temps' = temps - 1 /\ temps \in 1..crashes + 1 /\ crashes \in Nat
    BY Types DEF SyncInv, Answer, Bodies
  <2>2. temps' \in Nat /\ temps' <= crashes
    BY <2>1
  <2> QED
    BY <2>1, <2>2 DEF SyncInv, Answer, InHand, UploadPlaces, syncVars
<1>1. CASE Accepted /\ useV2
  <2>1. taken /\ pc' = "poll" /\ UNCHANGED <<result, polls, server, unnoted>>
    BY <1>1 DEF Accepted
  <2>2. TypeOK' /\ InHand' /\ JobKnown' /\ Bodies'
    <3>1. TypeOK'
      BY <1>0, <2>1 DEF SyncInv, TypeOK, UploadTypeOK, UploadPlaces, server
    <3>2. InHand'
      BY <1>0, <2>1 DEF SyncInv, UploadPlaces, InHand, server
    <3>3. JobKnown'
      BY <1>0, <2>1 DEF SyncInv, JobKnown, server
    <3>4. Bodies'
      BY <1>0, <2>1 DEF SyncInv, Bodies, server
    <3> QED
      BY <3>1, <3>2, <3>3, <3>4
  <2>3. Going' = Going
    BY <1>0, <2>1 DEF Going, server
  <2>4. Accounted' /\ MarkedIsImported'
    BY <1>0, <2>1, <2>3 DEF SyncInv, Accounted, MarkedIsImported, Running, Open, server
  <2> QED
    BY <2>2, <2>4 DEF SyncInv
<1>2. CASE Accepted /\ ~useV2
  <2>1. /\ taken /\ pc' = "judge" /\ result' = "ok" /\ UNCHANGED <<polls, server, unnoted>>
        /\ imported[file] > 0 /\ job = "none"
    BY <1>0, <1>2 DEF Accepted, Result, SyncInv, JobKnown
  <2>2. TypeOK' /\ InHand' /\ JobKnown' /\ Bodies'
    <3>1. TypeOK'
      BY <1>0, <2>1 DEF SyncInv, TypeOK, UploadTypeOK, UploadPlaces, Statuses, server
    <3>2. InHand'
      BY <1>0, <2>1 DEF SyncInv, UploadPlaces, InHand, server
    <3>3. JobKnown'
      BY <1>0, <2>1 DEF SyncInv, JobKnown, server
    <3>4. Bodies'
      BY <1>0, <2>1 DEF SyncInv, Bodies, server
    <3> QED
      BY <3>1, <3>2, <3>3, <3>4
  <2>3. Going' = Going
    BY <1>0, <2>1 DEF Going, server
  <2>4. Accounted' /\ MarkedIsImported'
    BY <1>0, <2>1, <2>3 DEF SyncInv, Accounted, MarkedIsImported, Running, Open, server
  <2> QED
    BY <2>2, <2>4 DEF SyncInv
<1>3. CASE Refused
  <2>1. /\ ~taken /\ pc' = "judge" /\ result' \in Statuses \ {"ok"}
        /\ UNCHANGED <<polls, server, unnoted>> /\ job = "none"
    BY <1>0, <1>3 DEF Refused, Result, SyncInv, JobKnown
  <2>2. TypeOK' /\ InHand' /\ JobKnown' /\ Bodies'
    <3>1. TypeOK'
      BY <1>0, <2>1 DEF SyncInv, TypeOK, UploadTypeOK, UploadPlaces, server
    <3>2. InHand'
      BY <1>0, <2>1 DEF SyncInv, UploadPlaces, InHand, server
    <3>3. JobKnown'
      BY <1>0, <2>1 DEF SyncInv, JobKnown, server
    <3>4. Bodies'
      BY <1>0, <2>1 DEF SyncInv, Bodies, server
    <3> QED
      BY <3>1, <3>2, <3>3, <3>4
  <2>3. Going = FALSE /\ Going' = FALSE
    BY <1>0, <2>1 DEF Going, server
  <2>4. Accounted' /\ MarkedIsImported'
    BY <1>0, <2>1, <2>3, Unrelated
  <2> QED
    BY <2>2, <2>4 DEF SyncInv
<1>4. CASE Unanswered
  <2>1. /\ pc' = "judge" /\ result' \in {"gateway", "other"} /\ Leave
        /\ unnoted' = Plus(unnoted, file) /\ UNCHANGED polls
    BY <1>4 DEF Unanswered, Result
  <2>2. /\ Accounted' /\ MarkedIsImported' /\ unnoted' \in Counts
        /\ known' \in Counts /\ unknown' \in Counts /\ imported' = imported /\ job' = "none"
    BY <1>0, <2>1, RequestEnds
  <2>3. TypeOK' /\ InHand' /\ JobKnown' /\ Bodies'
    <3>1. TypeOK'
      BY <1>0, <2>1, <2>2 DEF SyncInv, TypeOK, UploadTypeOK, UploadPlaces, Statuses, Counts
    <3>2. InHand'
      BY <1>0, <2>1, <2>2 DEF SyncInv, UploadPlaces, InHand
    <3>3. JobKnown'
      BY <1>0, <2>1, <2>2 DEF SyncInv, JobKnown
    <3>4. Bodies'
      BY <1>0, <2>1, <2>2 DEF SyncInv, Bodies
    <3> QED
      BY <3>1, <3>2, <3>3, <3>4
  <2> QED
    BY <2>2, <2>3 DEF SyncInv
<1> QED
  BY <1>1, <1>2, <1>3, <1>4 DEF Answer

LEMMA PollStep ==
  ASSUME SyncInv, Poll, UNCHANGED syncVars
  PROVE  SyncInv'
<1>0. /\ pc = "poll" /\ file \in Files /\ file \notin uploaded /\ taken = FALSE /\ taken' = FALSE
      /\ UNCHANGED <<mode, file, attempt, useV2, temps, partial, pending, uploaded, errors, syncs, crashes>>
  BY DEF SyncInv, Poll, InHand, JobKnown, TypeOK, UploadTypeOK, UploadPlaces, syncVars
<1>1. CASE polls + 1 < MaxPolls /\ polls' = polls + 1 /\ UNCHANGED <<pc, result, server, unnoted>>
  <2>0. polls' \in 0..MaxPolls /\ UNCHANGED <<pc, result, server, unnoted>>
    BY <1>1, Types DEF SyncInv, TypeOK, UploadTypeOK
  <2>1. TypeOK' /\ InHand' /\ JobKnown' /\ Bodies'
    <3>1. TypeOK'
      BY <1>0, <2>0 DEF SyncInv, TypeOK, UploadTypeOK, UploadPlaces, server
    <3>2. InHand'
      BY <1>0, <1>1, Types DEF SyncInv, UploadPlaces, InHand, server
    <3>3. JobKnown'
      BY <1>0, <1>1, Types DEF SyncInv, JobKnown, server
    <3>4. Bodies'
      BY <1>0, <1>1, Types DEF SyncInv, Bodies, server
    <3> QED
      BY <3>1, <3>2, <3>3, <3>4
  <2>2. Going' = Going
    BY <1>0, <1>1 DEF Going, server
  <2>3. Accounted' /\ MarkedIsImported'
    BY <1>0, <1>1, <2>2 DEF SyncInv, Accounted, MarkedIsImported, Running, Open, server
  <2> QED
    BY <2>1, <2>3 DEF SyncInv
<1>2. CASE \/ \E status \in Statuses \ {"ok"} : GiveUpJob(status)
           \/ job = "done" /\ Result("ok") /\ Leave /\ polls' = 0 /\ UNCHANGED unnoted
           \/ job = "failed" /\ Result("other") /\ Leave /\ polls' = 0 /\ UNCHANGED unnoted
  <2>1. /\ pc' = "judge" /\ result' \in Statuses /\ Leave /\ polls' = 0
        /\ \/ unnoted' = Plus(unnoted, file) /\ result' # "ok"
           \/ unnoted' = unnoted /\ result' = "ok" /\ job = "done"
           \/ unnoted' = unnoted /\ result' # "ok" /\ job = "failed"
    BY <1>2 DEF GiveUpJob, Result, Statuses
  <2>2. (job = "done" => Going) /\ (job = "failed" => ~Going)
    BY <1>0 DEF Going
  <2>3. /\ Accounted' /\ MarkedIsImported' /\ unnoted' \in Counts
        /\ known' \in Counts /\ unknown' \in Counts /\ imported' = imported /\ job' = "none"
    BY <1>0, <2>1, <2>2, RequestEnds
  <2>4. TypeOK' /\ InHand' /\ Bodies'
    <3>1. TypeOK'
      BY <1>0, <2>1, <2>3, Zeros DEF SyncInv, TypeOK, UploadTypeOK, UploadPlaces, Counts
    <3>2. InHand'
      BY <1>0, <2>1, <2>3, Types DEF SyncInv, UploadPlaces, InHand
    <3>3. Bodies'
      BY <1>0, <2>1, <2>3, Types DEF SyncInv, Bodies
    <3> QED
      BY <3>1, <3>2, <3>3
  <2>5. JobKnown'
    BY <1>0, <2>1, <2>3 DEF SyncInv, JobKnown
  <2> QED
    BY <2>3, <2>4, <2>5 DEF SyncInv
<1>3. CASE AskAgain
  BY <1>1, <1>2, <1>3 DEF AskAgain, Statuses
<1> QED
  BY <1>2, <1>3 DEF Poll

LEMMA RetryStep ==
  ASSUME SyncInv, Retry, UNCHANGED syncVars
  PROVE  SyncInv'
<1>0. /\ pc = "judge" /\ result # "ok" /\ attempt # Tries /\ pc' = "stage" /\ attempt' = attempt + 1
      /\ taken = FALSE /\ job = "none" /\ useV2' \in BOOLEAN
      /\ UNCHANGED <<mode, file, polls, result, temps, partial, taken, job, known, unknown, imported,
                     unnoted, pending, uploaded, errors, syncs, crashes>>
  BY DEF SyncInv, Retry, Final, JobKnown, TypeOK, UploadTypeOK, syncVars, server
<1>1. TypeOK' /\ InHand'
  BY <1>0, Types DEF SyncInv, TypeOK, UploadTypeOK, UploadPlaces, InHand
<1>2. JobKnown' /\ Bodies'
  BY <1>0 DEF SyncInv, JobKnown, Bodies
<1>3. Going = FALSE /\ Going' = FALSE
  BY <1>0 DEF Going
<1>4. Accounted' /\ MarkedIsImported'
  BY <1>0, <1>3, Unrelated DEF server
<1> QED
  BY <1>1, <1>2, <1>4 DEF SyncInv

-------------------------------------------------------------------------------
(* Markers, crashes and the server. *)

LEMMA NoteStep ==
  ASSUME SyncInv, NoteResult
  PROVE  SyncInv'
<1>0. /\ pc = "judge" /\ taken = FALSE /\ job = "none" /\ file \in Files /\ file \notin uploaded \cup pending
      /\ pc' \in {"idle", "next"} /\ pending' \subseteq pending
      /\ file' = 0 /\ attempt' = 0 /\ useV2' = FALSE /\ polls' = 0 /\ result' = "other"
      /\ UNCHANGED <<mode, temps, partial, taken, job, known, unknown, imported, unnoted, syncs, crashes>>
      /\ uploaded' = IF result = "ok" THEN uploaded \cup {file} ELSE uploaded
      /\ errors' \subseteq errors \cup {file}
  BY DEF SyncInv, NoteResult, Forget, JobKnown, InHand, TypeOK, UploadTypeOK, UploadPlaces, server
<1>1. TypeOK'
  <2>1. errors' \subseteq Files /\ uploaded' \subseteq Files /\ pending' \subseteq Files
    BY <1>0 DEF SyncInv, TypeOK
  <2> QED
    BY <1>0, <2>1, Zeros DEF SyncInv, TypeOK, UploadTypeOK, UploadPlaces, Statuses
<1>2. InHand' /\ JobKnown' /\ Bodies'
  BY <1>0 DEF SyncInv, InHand, JobKnown, Bodies, UploadPlaces
<1>3. \A f \in Files : Running(f) = 0 /\ Running(f)' = 0 /\ Open(f)' = Open(f)
  BY <1>0 DEF Running, Open, Going
<1>4. Accounted'
  BY <1>0, <1>3 DEF SyncInv, Accounted
<1>5. MarkedIsImported'
  BY <1>0 DEF SyncInv, MarkedIsImported, JobKnown
<1> QED
  BY <1>1, <1>2, <1>4, <1>5 DEF SyncInv

LEMMA CrashStep ==
  ASSUME SyncInv, Crash
  PROVE  SyncInv'
<1>0. /\ pc # "idle" /\ crashes < MaxCrashes /\ crashes' = crashes + 1 /\ pc' = "idle" /\ taken' = FALSE
      /\ Leave /\ pending' = {} /\ UNCHANGED <<mode, temps, partial, uploaded, errors, syncs>>
      /\ file' = 0 /\ attempt' = 0 /\ useV2' = FALSE /\ polls' = 0 /\ result' = "other"
  BY DEF Crash, Forget
<1>1. /\ known \in Counts /\ unknown \in Counts /\ imported \in Counts /\ unnoted \in Counts
      /\ crashes \in Nat /\ MaxCrashes \in Nat
  BY Types DEF SyncInv
<1>c. crashes' \in 0..MaxCrashes
  BY <1>0, <1>1
<1>d. /\ pc' = "idle" /\ taken' = FALSE /\ pending' = {}
      /\ UNCHANGED <<mode, temps, partial, uploaded, errors, syncs>>
      /\ file' = 0 /\ attempt' = 0 /\ useV2' = FALSE /\ polls' = 0 /\ result' = "other"
  BY <1>0
<1>2. CASE pc \in UploadPlaces
  <2>0. file \in Files /\ file \notin uploaded
    BY <1>2 DEF SyncInv, InHand
  <2>1. /\ known' \in Counts /\ unknown' \in Counts /\ imported' = imported /\ job' = "none"
        /\ \A f \in Files : known'[f] + unknown'[f] = known[f] + unknown[f] + Running(f)
    BY <1>0, <2>0, LeaveFacts
  <2>2. \/ unnoted' = Plus(unnoted, file)
        \/ unnoted' = unnoted /\ ~Going
    BY DEF Crash, Going
  <2>3. unnoted' \in Counts /\ \A f \in Files : f # file => unnoted'[f] = unnoted[f]
    BY <1>1, <2>0, <2>2, PlusFacts
  <2>4. \A f \in Files : /\ Running(f)' = 0
                         /\ f # file => Open(f)' = Open(f)
                         /\ f = file => Open(f)' = 0
    BY <1>0, <2>0, <2>1 DEF Running, Open, Going
  <2>5. unnoted'[file] >= unnoted[file] + Open(file)
    <3>1. CASE unnoted' = Plus(unnoted, file)
      BY <1>1, <2>0, <3>1, PlusFacts DEF Open, Counts
    <3>2. CASE unnoted' = unnoted /\ ~Going
      BY <1>1, <2>0, <3>2 DEF Open, Counts
    <3> QED
      BY <2>2, <3>1, <3>2
  <2>6. Accounted'
    <3> SUFFICES ASSUME NEW f \in Files
                 PROVE  (imported[f] + known[f] + unknown[f] + Running(f) <= unnoted[f] + Open(f))'
      BY DEF Accounted
    <3>1. imported[f] + known[f] + unknown[f] + Running(f) <= unnoted[f] + Open(f)
      BY DEF SyncInv, Accounted
    <3>2. /\ imported[f] \in Nat /\ known[f] \in Nat /\ unknown[f] \in Nat /\ unnoted[f] \in Nat
          /\ known'[f] \in Nat /\ unknown'[f] \in Nat /\ unnoted'[f] \in Nat
      BY <1>1, <2>1, <2>3 DEF Counts
    <3>3. Running(f) \in {0, 1} /\ Open(f) \in {0, 1}
      BY DEF Running, Open
    <3>4. unnoted'[f] + Open(f)' >= unnoted[f] + Open(f)
      BY <2>3, <2>4, <2>5, <3>2, <3>3
    <3>5. Open(f)' \in {0, 1}
      BY DEF Open
    <3> QED
      BY <2>1, <2>4, <3>1, <3>2, <3>3, <3>4, <3>5
  <2> QED
    <3>1. TypeOK'
      BY <1>c, <1>d, <1>1, <2>1, <2>3, Zeros
         DEF SyncInv, TypeOK, UploadTypeOK, UploadPlaces, Statuses, Counts
    <3>2. InHand' /\ JobKnown'
      BY <1>0, <2>1 DEF SyncInv, InHand, JobKnown, UploadPlaces
    <3>3. Bodies'
      BY <1>0, <1>1, Types DEF SyncInv, Bodies
    <3>4. MarkedIsImported'
      BY <1>0, <2>1 DEF SyncInv, MarkedIsImported
    <3> QED
      BY <2>6, <3>1, <3>2, <3>3, <3>4 DEF SyncInv
<1>3. CASE pc \notin UploadPlaces
  <2>1. taken = FALSE /\ job = "none" /\ Going = FALSE
    BY <1>3 DEF SyncInv, JobKnown, TypeOK, UploadTypeOK, UploadPlaces, Going
  <2>2. UNCHANGED <<job, known, unknown, imported, unnoted>>
    BY <1>0, <1>3, <2>1 DEF Leave, Crash, UploadPlaces
  <2>3. Going' = FALSE
    BY <1>0 DEF Going
  <2>4. Accounted' /\ MarkedIsImported'
    BY <1>0, <2>1, <2>2, <2>3, Unrelated DEF server
  <2>5. TypeOK'
    BY <1>c, <1>d, <2>2, Zeros DEF SyncInv, TypeOK, UploadTypeOK, UploadPlaces, Statuses
  <2>6. InHand' /\ JobKnown'
    BY <1>0, <2>1, <2>2 DEF SyncInv, InHand, JobKnown, UploadPlaces
  <2>7. Bodies'
    BY <1>0, <1>1, Types DEF SyncInv, Bodies
  <2> QED
    BY <2>4, <2>5, <2>6, <2>7 DEF SyncInv
<1> QED
  BY <1>2, <1>3

\* A job nobody asks after any more ends, in an import or without.
LEMMA JobForgotten ==
  ASSUME SyncInv, NEW c \in Counts, NEW f \in Files, c[f] > 0,
         imported' \in {imported, Plus(imported, f)}
  PROVE  /\ imported' \in Counts /\ Minus(c, f) \in Counts
         /\ \A g \in Files : imported'[g] >= imported[g]
         /\ \A g \in Files : imported'[g] + Minus(c, f)[g] <= imported[g] + c[g]
<1>1. imported \in Counts
  BY Types DEF SyncInv
<1>2. /\ Minus(c, f) \in Counts /\ Minus(c, f)[f] = c[f] - 1
      /\ \A g \in Files : g # f => Minus(c, f)[g] = c[g]
  BY MinusFacts
<1>3. CASE imported' = imported
  BY <1>1, <1>2, <1>3 DEF Counts
<1>4. CASE imported' = Plus(imported, f)
  <2>1. /\ imported' \in Counts /\ imported'[f] = imported[f] + 1
        /\ \A g \in Files : g # f => imported'[g] = imported[g]
    BY <1>1, <1>4, PlusFacts
  <2> QED
    BY <1>1, <1>2, <2>1 DEF Counts
<1> QED
  BY <1>3, <1>4

LEMMA ServerStep ==
  ASSUME SyncInv, ServerWorks
  PROVE  SyncInv'
<1>0. UNCHANGED <<mode, pc, file, attempt, useV2, polls, result, temps, partial, taken, unnoted,
                  pending, uploaded, errors, syncs, crashes>>
  BY DEF ServerWorks, JobEnds, syncVars
<1>1. /\ known \in Counts /\ unknown \in Counts /\ imported \in Counts /\ unnoted \in Counts
  BY Types DEF SyncInv
<1>2. InHand' /\ Bodies'
  BY <1>0 DEF SyncInv, InHand, Bodies
<1>3. CASE /\ job = "running"
           /\ \/ job' = "done" /\ imported' = Plus(imported, file)
              \/ job' = "failed" /\ UNCHANGED imported
           /\ UNCHANGED <<known, unknown>>
  <2>0. file \in Files /\ file \notin uploaded /\ Going /\ (pc = "poll" \/ (taken /\ useV2))
    BY <1>3 DEF SyncInv, JobKnown, InHand, UploadPlaces, Going
  <2>1. CASE job' = "done" /\ imported' = Plus(imported, file)
    <3>1. /\ imported' \in Counts /\ imported'[file] = imported[file] + 1
          /\ \A g \in Files : g # file => imported'[g] = imported[g]
      BY <1>1, <2>0, <2>1, PlusFacts
    <3>2. TypeOK' /\ JobKnown'
      BY <1>0, <1>1, <1>3, <2>0, <2>1, <3>1
         DEF SyncInv, TypeOK, UploadTypeOK, JobKnown, Counts
    <3>3. Going'
      BY <1>0, <1>3, <2>0, <2>1 DEF Going
    <3>4. \A f \in Files : Open(f)' = Open(f)
      BY <1>0, <2>0, <3>3 DEF Open
    <3>5. \A f \in Files : imported'[f] + Running(f)' = imported[f] + Running(f)
      BY <1>0, <1>1, <1>3, <2>1, <3>1 DEF Running, Counts
    <3>6. Accounted'
      <4> SUFFICES ASSUME NEW f \in Files
                   PROVE  (imported[f] + known[f] + unknown[f] + Running(f) <= unnoted[f] + Open(f))'
        BY DEF Accounted
      <4>1. imported[f] + known[f] + unknown[f] + Running(f) <= unnoted[f] + Open(f)
        BY DEF SyncInv, Accounted
      <4>2. /\ imported[f] \in Nat /\ known[f] \in Nat /\ unknown[f] \in Nat /\ unnoted[f] \in Nat
            /\ imported'[f] \in Nat
        BY <1>1, <3>1 DEF Counts
      <4>3. Running(f) \in {0, 1} /\ Running(f)' \in {0, 1} /\ Open(f) \in {0, 1}
        BY DEF Running, Open
      <4> QED
        BY <1>0, <1>3, <3>4, <3>5, <4>1, <4>2, <4>3
    <3>7. MarkedIsImported'
      BY <1>0, <1>1, <3>1 DEF SyncInv, MarkedIsImported, TypeOK, Counts
    <3> QED
      BY <1>2, <3>2, <3>6, <3>7 DEF SyncInv
  <2>2. CASE job' = "failed" /\ UNCHANGED imported
    <3>1. TypeOK' /\ JobKnown'
      BY <1>0, <1>3, <2>0, <2>2 DEF SyncInv, TypeOK, UploadTypeOK, JobKnown
    <3>2. \A f \in Files : Open(f) - Open(f)' = Running(f) - Running(f)'
                           /\ Open(f) \in {0, 1} /\ Open(f)' \in {0, 1}
                           /\ Running(f) \in {0, 1} /\ Running(f)' \in {0, 1}
      BY <1>0, <1>3, <2>0, <2>2 DEF Open, Running, Going
    <3>3. Accounted'
      <4> SUFFICES ASSUME NEW f \in Files
                   PROVE  (imported[f] + known[f] + unknown[f] + Running(f) <= unnoted[f] + Open(f))'
        BY DEF Accounted
      <4>1. imported[f] + known[f] + unknown[f] + Running(f) <= unnoted[f] + Open(f)
        BY DEF SyncInv, Accounted
      <4>2. imported[f] \in Nat /\ known[f] \in Nat /\ unknown[f] \in Nat /\ unnoted[f] \in Nat
        BY <1>1 DEF Counts
      <4> QED
        BY <1>0, <1>3, <2>2, <3>2, <4>1, <4>2
    <3>4. MarkedIsImported'
      BY <1>0, <2>2 DEF SyncInv, MarkedIsImported
    <3> QED
      BY <1>2, <3>1, <3>3, <3>4 DEF SyncInv
  <2> QED
    BY <1>3, <2>1, <2>2
<1>4. CASE job' = job /\ \E f \in Files :
               \/ /\ known[f] > 0 /\ known' = Minus(known, f)
                  /\ imported' \in {imported, Plus(imported, f)} /\ unknown' = unknown
               \/ /\ unknown[f] > 0 /\ unknown' = Minus(unknown, f)
                  /\ imported' \in {imported, Plus(imported, f)} /\ known' = known
  <2>1. /\ imported' \in Counts /\ known' \in Counts /\ unknown' \in Counts
        /\ \A g \in Files : imported'[g] >= imported[g]
        /\ \A g \in Files : imported'[g] + known'[g] + unknown'[g] <= imported[g] + known[g] + unknown[g]
    <3> PICK f \in Files :
               \/ /\ known[f] > 0 /\ known' = Minus(known, f)
                  /\ imported' \in {imported, Plus(imported, f)} /\ unknown' = unknown
               \/ /\ unknown[f] > 0 /\ unknown' = Minus(unknown, f)
                  /\ imported' \in {imported, Plus(imported, f)} /\ known' = known
      BY <1>4
    <3>1. CASE /\ known[f] > 0 /\ known' = Minus(known, f)
               /\ imported' \in {imported, Plus(imported, f)} /\ unknown' = unknown
      <4>1. /\ imported' \in Counts /\ known' \in Counts
            /\ \A g \in Files : imported'[g] >= imported[g]
            /\ \A g \in Files : imported'[g] + known'[g] <= imported[g] + known[g]
        BY <1>1, <3>1, JobForgotten
      <4> QED
        BY <1>1, <3>1, <4>1 DEF Counts
    <3>2. CASE /\ unknown[f] > 0 /\ unknown' = Minus(unknown, f)
               /\ imported' \in {imported, Plus(imported, f)} /\ known' = known
      <4>1. /\ imported' \in Counts /\ unknown' \in Counts
            /\ \A g \in Files : imported'[g] >= imported[g]
            /\ \A g \in Files : imported'[g] + unknown'[g] <= imported[g] + unknown[g]
        BY <1>1, <3>2, JobForgotten
      <4> QED
        BY <1>1, <3>2, <4>1 DEF Counts
    <3> QED
      BY <3>1, <3>2
  <2>2. \A g \in Files : Open(g)' = Open(g) /\ Running(g)' = Running(g)
                         /\ Open(g) \in {0, 1} /\ Running(g) \in {0, 1}
    BY <1>0, <1>4 DEF Open, Running, Going
  <2>3. TypeOK'
    BY <1>0, <1>4, <2>1 DEF SyncInv, TypeOK, UploadTypeOK, Counts
  <2>4. MarkedIsImported'
    <3> SUFFICES ASSUME NEW g \in uploaded
                 PROVE  imported'[g] > 0
      BY <1>0 DEF MarkedIsImported
    <3>1. g \in Files /\ imported[g] > 0
      BY DEF SyncInv, MarkedIsImported, TypeOK
    <3> QED
      BY <1>1, <2>1, <3>1 DEF Counts
  <2>5. JobKnown'
    <3>1. file \in Files => imported'[file] >= imported[file] /\ imported[file] \in Nat
                            /\ imported'[file] \in Nat
      BY <1>1, <2>1 DEF Counts
    <3>2. (taken \/ job = "done" \/ pc = "judge") => file \in Files
      BY DEF SyncInv, JobKnown, InHand, UploadPlaces
    <3> QED
      BY <1>0, <1>4, <3>1, <3>2 DEF SyncInv, JobKnown
  <2>6. Accounted'
    <3> SUFFICES ASSUME NEW f \in Files
                 PROVE  (imported[f] + known[f] + unknown[f] + Running(f) <= unnoted[f] + Open(f))'
      BY DEF Accounted
    <3>1. imported[f] + known[f] + unknown[f] + Running(f) <= unnoted[f] + Open(f)
      BY DEF SyncInv, Accounted
    <3>2. /\ imported[f] \in Nat /\ known[f] \in Nat /\ unknown[f] \in Nat /\ unnoted[f] \in Nat
          /\ imported'[f] \in Nat /\ known'[f] \in Nat /\ unknown'[f] \in Nat
      BY <1>1, <2>1 DEF Counts
    <3> QED
      BY <1>0, <2>1, <2>2, <3>1, <3>2
  <2> QED
    BY <1>2, <2>3, <2>4, <2>5, <2>6 DEF SyncInv
<1> QED
  BY <1>3, <1>4 DEF ServerWorks, JobEnds

LEMMA StutterStep ==
  ASSUME SyncInv, UNCHANGED vars
  PROVE  SyncInv'
BY DEF SyncInv, vars, upVars, syncVars, server, TypeOK, UploadTypeOK, UploadPlaces, InHand,
       JobKnown, Bodies, Accounted, Running, Open, Going, MarkedIsImported

LEMMA SyncInvariant == Spec => []SyncInv
<1>1. Init => SyncInv
  <2> SUFFICES ASSUME Init
               PROVE  SyncInv
    OBVIOUS
  <2>1. /\ known \in Counts /\ \A f \in Files : known[f] = 0
        /\ unknown = known /\ imported = known /\ unnoted = known
    BY DEF Init, UploadInit, Counts
  <2>2. TypeOK
    BY <2>1, Zeros
       DEF Init, UploadInit, TypeOK, UploadTypeOK, Statuses, Counts
  <2>3. InHand /\ JobKnown /\ Bodies /\ MarkedIsImported
    BY DEF Init, UploadInit, InHand, JobKnown, Bodies, MarkedIsImported, UploadPlaces
  <2>4. Accounted
    <3>1. \A f \in Files : Running(f) = 0 /\ Open(f) = 0
      BY DEF Init, UploadInit, Running, Open, Going
    <3>2. \A f \in Files : known[f] = 0 /\ unknown[f] = 0 /\ imported[f] = 0 /\ unnoted[f] = 0
      BY <2>1
    <3>3. ASSUME NEW f \in Files
          PROVE  imported[f] + known[f] + unknown[f] + Running(f) <= unnoted[f] + Open(f)
      <4>1. /\ Running(f) = 0 /\ Open(f) = 0
            /\ known[f] = 0 /\ unknown[f] = 0 /\ imported[f] = 0 /\ unnoted[f] = 0
        BY <3>1, <3>2
      <4> QED
        BY <4>1
    <3> QED
      BY <3>3 DEF Accounted
  <2> QED
    BY <2>2, <2>3, <2>4 DEF SyncInv
<1>2. SyncInv /\ [Next]_vars => SyncInv'
  <2> SUFFICES ASSUME SyncInv, [Next]_vars
               PROVE  SyncInv'
    OBVIOUS
  <2>1. CASE Uploading
    BY <2>1, StageStep, SendStep, AnswerStep, PollStep, RetryStep DEF Uploading, Upload
  <2> QED
    BY <2>1, StartStep, NextFileStep, FinishStep, NoteStep, CrashStep, ServerStep, StutterStep
       DEF Next
<1> QED
  BY <1>1, <1>2, PTL DEF Spec

-------------------------------------------------------------------------------
(* The theorems. *)

\* What a sync leaves beside the session files is no whole body but one for a
\* crash (the `finally` of upload_csv() and upload_csv_v2()).
THEOREM SyncFilesTidy == Spec => []FilesTidy
<1>1. SyncInv => FilesTidy
  BY DEF SyncInv, Bodies, FilesTidy, TempsRemoved
<1> QED
  BY <1>1, SyncInvariant, PTL

\* A file marked .uploaded has been imported (mark_uploaded() after
\* upload_with_retry()).
THEOREM SyncMarkedIsImported == Spec => []MarkedIsImported
<1>1. SyncInv => MarkedIsImported
  BY DEF SyncInv
<1> QED
  BY <1>1, SyncInvariant, PTL

\* A file is imported once more than there are requests of it whose end was not
\* noted, at most: the program makes no duplicates of its own.
THEOREM SyncDuplicatesExplained == Spec => []DuplicatesExplained
<1>1. SyncInv => DuplicatesExplained
  <2> SUFFICES ASSUME SyncInv, NEW f \in Files
               PROVE  imported[f] <= 1 + unnoted[f]
    BY DEF DuplicatesExplained
  <2>1. imported[f] + known[f] + unknown[f] + Running(f) <= unnoted[f] + Open(f)
    BY DEF SyncInv, Accounted
  <2>2. imported[f] \in Nat /\ known[f] \in Nat /\ unknown[f] \in Nat /\ unnoted[f] \in Nat
    BY Types DEF SyncInv, Counts
  <2>3. Running(f) \in {0, 1} /\ Open(f) \in {0, 1}
    BY DEF Running, Open
  <2> QED
    BY <2>1, <2>2, <2>3
<1> QED
  BY <1>1, SyncInvariant, PTL

-------------------------------------------------------------------------------
(***************************************************************************)
(* The end of a sync.  That it comes is a liveness property; what makes it *)
(* come is that every step of the program lowers Work, which counts the    *)
(* steps left at most, and that no other step raises it during a sync.     *)
(***************************************************************************)

\* At most so many steps make up a try, a poll each, and a file.
Round == MaxPolls + 5
PerFile == Tries * Round + 1

\* What is left of the try in progress.
Place ==
  IF pc = "stage" THEN Round
  ELSE IF pc = "send" THEN Round - 1
  ELSE IF pc = "answer" THEN Round - 2
  ELSE IF pc = "poll" THEN Round - 3 - polls
  ELSE 1

Ahead == Cardinality(pending) * PerFile + 1
Work ==
  IF pc = "idle" THEN 0
  ELSE IF pc = "next" THEN Ahead
  ELSE Ahead + (Tries - attempt) * Round + Place

LEMMA TimesNat == \A a, b \in Nat : a * b \in Nat
OBVIOUS

LEMMA TimesNext ==
  /\ \A a, b \in Nat : (a + 1) * b = a * b + b
  /\ \A b \in Nat : 0 * b = 0
OBVIOUS

LEMMA PlaceNumbers ==
  ASSUME NEW m \in Nat, NEW n \in 0..m, NEW r, r = m + 5
  PROVE  /\ r \in Nat /\ r - 1 \in Nat /\ r - 2 \in Nat /\ r - 3 - n \in Nat
         /\ 1 < r /\ r - 1 < r /\ r - 2 < r - 1 /\ 1 < r - 2
         /\ 1 < r - 3 - n /\ r - 3 - n < r - 2
         /\ r - 3 - (n + 1) < r - 3 - n
OBVIOUS

LEMMA SumLess ==
  ASSUME NEW a \in Nat, NEW b \in Nat, NEW c \in Nat, NEW d \in Nat, d < c
  PROVE  a + b + d < a + b + c
OBVIOUS

LEMMA WorkTypes ==
  ASSUME SyncInv
  PROVE  /\ Round \in Nat /\ PerFile \in Nat /\ Tries \in Nat /\ MaxPolls \in Nat
         /\ polls \in 0..MaxPolls /\ attempt \in 0..Tries
         /\ Cardinality(pending) \in Nat /\ Ahead \in Nat /\ Ahead >= 1
         /\ IsFiniteSet(pending)
         /\ (Tries - attempt) * Round \in Nat
         /\ Place \in Nat /\ Place >= 1
<1>1. MaxPolls \in Nat /\ Tries \in Nat /\ polls \in 0..MaxPolls /\ attempt \in 0..Tries
  BY Types DEF SyncInv, TypeOK, UploadTypeOK
<1>2. Round \in Nat /\ Round = MaxPolls + 5
  BY <1>1 DEF Round
<1>3. Tries * Round \in Nat
  BY <1>1, <1>2, TimesNat
<1>4. PerFile \in Nat
  BY <1>3 DEF PerFile
<1>5. IsFiniteSet(pending) /\ Cardinality(pending) \in Nat
  <2>1. pending \subseteq Files
    BY DEF SyncInv, TypeOK
  <2> QED
    BY <2>1, FilesAreFinite, FS_Subset, FS_CardinalityType
<1>6. Cardinality(pending) * PerFile \in Nat
  BY <1>4, <1>5, TimesNat
<1>7. Ahead \in Nat /\ Ahead >= 1
  BY <1>6 DEF Ahead
<1>8. Tries - attempt \in Nat
  BY <1>1
<1>9. (Tries - attempt) * Round \in Nat
  BY <1>2, <1>8, TimesNat
<1>10. Place \in Nat /\ Place >= 1
  BY <1>1, <1>2 DEF Place
<1> QED
  BY <1>1, <1>2, <1>4, <1>5, <1>7, <1>9, <1>10

LEMMA WorkIsNat ==
  ASSUME SyncInv
  PROVE  Work \in Nat /\ (pc # "idle" => Work >= 1)
BY WorkTypes DEF Work

\* A step within a try.
LEMMA TryGoesOn ==
  ASSUME SyncInv, SyncInv', pc \in UploadPlaces, pc' \in UploadPlaces,
         pending' = pending, attempt' = attempt, Place' < Place
  PROVE  Work' < Work
<1>1. Ahead' = Ahead
  BY DEF Ahead
<1>2. /\ Ahead \in Nat /\ (Tries - attempt) * Round \in Nat /\ Place \in Nat
      /\ Place' \in Nat
  <2>1. Place \in Nat /\ Ahead \in Nat /\ (Tries - attempt) * Round \in Nat
    BY WorkTypes
  <2>2. Place' \in Nat
    <3>1. MaxPolls \in Nat /\ polls' \in 0..MaxPolls
      BY Types DEF SyncInv, TypeOK, UploadTypeOK
    <3>2. /\ Round \in Nat /\ Round - 1 \in Nat /\ Round - 2 \in Nat
          /\ Round - 3 - polls' \in Nat
      BY <3>1, PlaceNumbers DEF Round
    <3> QED
      BY <3>2 DEF Place
  <2> QED
    BY <2>1, <2>2
<1>3. /\ Work = Ahead + (Tries - attempt) * Round + Place
      /\ Work' = Ahead + (Tries - attempt) * Round + Place'
  <2> DEFINE rest == Ahead + (Tries - attempt) * Round
  <2>1. rest' = rest
    BY <1>1
  <2>2. pc \notin {"idle", "next"} /\ pc' \notin {"idle", "next"}
    BY DEF UploadPlaces
  <2> QED
    BY <2>1, <2>2 DEF Work
<1> DEFINE r == (Tries - attempt) * Round
<1> HIDE DEF r
<1>4. r \in Nat /\ Work = Ahead + r + Place /\ Work' = Ahead + r + Place'
  BY <1>2, <1>3 DEF r
<1>5. Place \in Nat /\ Place' \in Nat /\ Ahead \in Nat
  BY <1>2
<1>6. Ahead + r + Place' < Ahead + r + Place
  BY <1>4, <1>5, SumLess
<1> QED
  BY <1>4, <1>6

LEMMA UploadLowers ==
  ASSUME SyncInv, SyncInv', Uploading
  PROVE  Work' < Work
<1>1. MaxPolls \in Nat /\ polls \in 0..MaxPolls /\ polls' \in 0..MaxPolls
  BY Types DEF SyncInv, TypeOK, UploadTypeOK
<1>8. /\ Round \in Nat /\ 1 < Round /\ Round - 1 < Round
      /\ Round - 2 < Round - 1 /\ 1 < Round - 2
      /\ 1 < Round - 3 - polls /\ Round - 3 - (polls + 1) < Round - 3 - polls
  BY <1>1, PlaceNumbers DEF Round
<1>9. Round - 3 - polls' < Round - 2
  BY <1>1, PlaceNumbers DEF Round
<1>2. pending' = pending
  BY DEF Uploading, syncVars
<1>3. CASE Stage
  <2>1. pc = "stage" /\ pc' \in {"send", "judge"} /\ attempt' = attempt
    BY <1>3 DEF Stage, Result
  <2>2. Place' < Place
    BY <1>8, <1>9, <2>1 DEF Place
  <2> QED
    BY <1>2, <2>1, <2>2, TryGoesOn DEF UploadPlaces
<1>4. CASE Send
  <2>1. pc = "send" /\ pc' = "answer" /\ attempt' = attempt
    BY <1>4 DEF Send
  <2>2. Place' < Place
    BY <1>8, <1>9, <2>1 DEF Place
  <2> QED
    BY <1>2, <2>1, <2>2, TryGoesOn DEF UploadPlaces
<1>5. CASE Answer
  <2>1. pc = "answer" /\ pc' \in {"poll", "judge"} /\ attempt' = attempt
    BY <1>5 DEF Answer, Accepted, Refused, Unanswered, Result
  <2>2. Place' < Place
    BY <1>8, <1>9, <2>1 DEF Place
  <2> QED
    BY <1>2, <2>1, <2>2, TryGoesOn DEF UploadPlaces
<1>6. CASE Poll
  <2>1. /\ pc = "poll" /\ attempt' = attempt
        /\ pc' = "judge" \/ (pc' = "poll" /\ polls' = polls + 1)
    BY <1>6 DEF Poll, AskAgain, GiveUpJob, Result
  <2>2. Place' < Place
    BY <1>8, <1>9, <2>1 DEF Place
  <2> QED
    BY <1>2, <2>1, <2>2, TryGoesOn DEF UploadPlaces
<1>7. CASE Retry
  <2>1. pc = "judge" /\ pc' = "stage" /\ attempt' = attempt + 1
    BY <1>7 DEF Retry
  <2>2. /\ Ahead' = Ahead /\ Place = 1 /\ Place' = Round
    BY <1>2, <2>1 DEF Ahead, Place
  <2>3. /\ Round \in Nat /\ Ahead \in Nat /\ Tries \in Nat
        /\ attempt \in 0..Tries
    BY WorkTypes
  <2>4. attempt + 1 \in 0..Tries
    BY <2>1 DEF SyncInv, TypeOK, UploadTypeOK
  <2>5. PICK n \in Nat : n = Tries - attempt' /\ Tries - attempt = n + 1
    BY <2>1, <2>3, <2>4
  <2>6. (n + 1) * Round = n * Round + Round /\ n * Round \in Nat
    BY <2>3, TimesNext, TimesNat
  <2>7. Work = Ahead + (n + 1) * Round + 1 /\ Work' = Ahead + n * Round + Round
    BY <2>1, <2>2, <2>5 DEF Work
  <2> DEFINE r == n * Round
  <2>8. r \in Nat /\ Work = Ahead + (r + Round) + 1 /\ Work' = Ahead + r + Round
    BY <2>6, <2>7
  <2> HIDE DEF r
  <2> QED
    BY <2>3, <2>8
<1> QED
  BY <1>3, <1>4, <1>5, <1>6, <1>7 DEF Uploading, Upload

LEMMA NextFileLowers ==
  ASSUME SyncInv, SyncInv', NextFile
  PROVE  Work' < Work
<1>1. PICK f \in pending : pending' = pending \ {f} /\ StartUpload(f)
  BY DEF NextFile
<1>2. pc = "next" /\ pc' = "stage" /\ attempt' = 1
  BY <1>1 DEF NextFile, StartUpload
<1>3. /\ IsFiniteSet(pending) /\ Cardinality(pending) \in Nat
      /\ PerFile \in Nat /\ Round \in Nat /\ Tries \in Nat
  BY WorkTypes
<1>4. /\ IsFiniteSet(pending') /\ Cardinality(pending') = Cardinality(pending) - 1
      /\ Cardinality(pending') \in Nat
  <2>1. /\ IsFiniteSet(pending \ {f})
        /\ Cardinality(pending \ {f}) = Cardinality(pending) - 1
    BY <1>3, FS_RemoveElement
  <2> QED
    BY <1>1, <2>1, FS_CardinalityType
<1>5. PICK n \in Nat : n = Cardinality(pending') /\ Cardinality(pending) = n + 1
  BY <1>3, <1>4
<1>6. (n + 1) * PerFile = n * PerFile + PerFile /\ n * PerFile \in Nat
  BY <1>3, TimesNext, TimesNat
<1>7. Tries \in Nat \ {0}
  BY UploaderAssumption
<1>8. PICK k \in Nat : k = Tries - 1 /\ Tries = k + 1
  BY <1>7
<1>9. Tries * Round = k * Round + Round /\ k * Round \in Nat
  BY <1>3, <1>8, TimesNext, TimesNat
<1>10. Work = (n + 1) * PerFile + 1
  BY <1>2, <1>5 DEF Work, Ahead
<1>11. Work' = (n * PerFile + 1) + k * Round + Round
  BY <1>2, <1>5, <1>8 DEF Work, Ahead, Place
<1>12. PerFile = (k * Round + Round) + 1
  BY <1>9 DEF PerFile
<1> DEFINE p == n * PerFile
           r == k * Round
<1>13. /\ p \in Nat /\ r \in Nat
       /\ Work = (p + PerFile) + 1 /\ Work' = (p + 1) + r + Round
       /\ PerFile = (r + Round) + 1
  BY <1>6, <1>9, <1>10, <1>11, <1>12
<1> HIDE DEF p, r
<1> QED
  BY <1>3, <1>13

\* Every step of the program but those within an upload.
LEMMA ProgramLowers ==
  ASSUME SyncInv, SyncInv', Program
  PROVE  Work' < Work
<1>1. CASE FinishSync
  BY <1>1, WorkIsNat DEF FinishSync, Work
<1>2. CASE NoteResult
  <2>1. pc = "judge" /\ pc' \in {"idle", "next"}
        /\ (pc' = "next" => pending' = pending)
    BY <1>2 DEF NoteResult
  <2>2. /\ Ahead \in Nat /\ Ahead >= 1
        /\ (Tries - attempt) * Round \in Nat /\ Place \in Nat /\ Place >= 1
    BY WorkTypes
  <2>3. pc' = "next" => Ahead' = Ahead
    BY <2>1 DEF Ahead
  <2>4. Work = Ahead + (Tries - attempt) * Round + Place
    BY <2>1 DEF Work
  <2>5. Work' = IF pc' = "idle" THEN 0 ELSE Ahead
    BY <2>1, <2>3 DEF Work
  <2> DEFINE r == (Tries - attempt) * Round
  <2>6. r \in Nat /\ Work = Ahead + r + Place
    BY <2>2, <2>4
  <2> HIDE DEF r
  <2> QED
    BY <2>2, <2>5, <2>6
<1> QED
  BY <1>1, <1>2, NextFileLowers, UploadLowers DEF Program

\* A sync takes no more steps than its files, tries and polls allow, whatever the
\* server answers or does not: each step of the program lowers Work, a natural
\* number, and during a sync nothing raises it (App._action_sync,
\* upload_with_retry(), poll_job()).
THEOREM SyncWorkGoesDown ==
  Spec => /\ [](Work \in Nat)
          /\ [][/\ Program => Work' < Work
                /\ pc # "idle" => Work' <= Work]_vars
<1>1. SyncInv => Work \in Nat
  BY WorkIsNat
<1> DEFINE WorkOK == Work \in Nat
<1> HIDE DEF WorkOK
<1>2. SyncInv => WorkOK
  BY <1>1 DEF WorkOK
<1>3. SyncInv' => WorkOK'
  BY <1>2, PTL
<1>4. SyncInv' => Work' \in Nat
  BY <1>3 DEF WorkOK
<1>5. SyncInv /\ SyncInv' /\ [Next]_vars =>
        [/\ Program => Work' < Work
         /\ pc # "idle" => Work' <= Work]_vars
  <2> SUFFICES ASSUME SyncInv, SyncInv', Next
               PROVE  /\ Program => Work' < Work
                      /\ pc # "idle" => Work' <= Work
    OBVIOUS
  <2>1. Program => Work' < Work
    BY ProgramLowers
  <2>2. Work \in Nat /\ Work' \in Nat
    <3>1. Work \in Nat
      BY WorkIsNat
    <3> QED
      BY <3>1, <1>4
  <2>3. CASE Program
    BY <2>1, <2>2, <2>3
  <2>4. CASE StartSync
    BY <2>1, <2>4 DEF StartSync
  <2>5. CASE Crash
    BY <2>1, <2>2, <2>5 DEF Crash, Work
  <2>6. CASE ServerWorks
    <3>1. UNCHANGED <<pc, pending, attempt, polls>>
      BY <2>6 DEF ServerWorks, JobEnds, syncVars
    <3>2. Work' = Work
      BY <3>1 DEF Work, Ahead, Place
    <3> QED
      BY <2>1, <2>2, <3>2
  <2> QED
    BY <2>3, <2>4, <2>5, <2>6 DEF Next, Program
<1> QED
  BY <1>1, <1>5, SyncInvariant, PTL DEF Spec

===============================================================================
