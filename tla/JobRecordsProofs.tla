-------------------------- MODULE JobRecordsProofs --------------------------
(***************************************************************************)
(* The safety properties of JobRecords for any documents, failures and     *)
(* bounds.  The types hold always; that no record is completed by mistake  *)
(* and none is forgotten holds as long as no two documents were given the  *)
(* same number, for the table and the poller know a job by its number      *)
(* alone.  On one CUPS server that is always so; every further one counts  *)
(* for itself.                                                             *)
(***************************************************************************)
EXTENDS JobRecords, TLAPS

----------------------------------------------------------------------------
(* What the types rest on. *)

\* A record that exists names a job, and whoever looks one up or writes one knows
\* which and what to write.
Filed ==
    /\ \A d \in Docs :
          /\ printing[d] # "submit" => job1[d] \in Numbers
          /\ hook[d] # "none" => printing[d] # "submit"
          /\ status[d] \in Present => recordId[d] \in Numbers
    /\ \A u \in Updaters :
          /\ task[u].step \in {"find", "write"} =>
                task[u].number \in Numbers /\ task[u].status \in Present
          /\ task[u].step = "write" => task[u].found \in Docs

TypeInv == TypeOK /\ Filed

----------------------------------------------------------------------------
(* What the safety properties rest on. *)

\* n is the number of one of d's jobs, or of the first pass of a manual duplex d.
JobOf(d, n) == n # 0 /\ n \in {job1[d], job2[d]}
FirstPass(d, n) == d \in Manual /\ n = job1[d]

\* No two documents were given the same number.
OwnNumbers == \A d, e \in Docs, n \in Numbers : JobOf(d, n) /\ JobOf(e, n) => d = e

\* All printers are on one CUPS server, so that numbers are not given twice.
SingleServer == \A d, e \in Docs : Server[d] = Server[e]

\* What keeps numbers: each is given once and taken on the document's server.
Numbered ==
    \A d \in Docs :
        /\ printing[d] = "submit" => job1[d] = 0
        /\ d \in byBot /\ printing[d] = "persist" => hook[d] = "none"
        /\ job2[d] # 0 => hook[d] = "closed"
        /\ \A n \in Numbers : JobOf(d, n) => cups[Server[d]][n] # "none"

\* A job has one document.
JobsDiffer ==
    /\ \A d \in Docs, n \in Numbers : JobOf(d, n) => cups[Server[d]][n] # "none"
    /\ OwnNumbers
    /\ \A d \in Docs : job1[d] # 0 => job1[d] # job2[d]

\* A document's way: submitted, then saved, then perhaps continued, and its record
\* names the pass that its status is about.
RecordsNamed ==
    \A d \in Docs :
        /\ printing[d] = "submit" <=> job1[d] = 0
        /\ printing[d] \in {"submit", "persist"} => status[d] = "absent" /\ recordId[d] = 0
        /\ d \in old => printing[d] = "done"
        /\ hook[d] # "none" => d \in Manual
        /\ d \in byBot /\ printing[d] = "persist" => hook[d] = "none"
        /\ job2[d] # 0 => hook[d] = "closed"
        /\ status[d] # "absent" => JobOf(d, recordId[d])
        /\ status[d] = "manual" => FirstPass(d, recordId[d])
        /\ status[d] = "pending" => ~FirstPass(d, recordId[d])

\* What the poller knows of a job is right: whose it is, and whether it is a first
\* pass; it knows a first job once it is saved, a second when the continue is over or
\* has at least named it in the record.
Right(n, s, st) ==
    \E d \in Docs :
        /\ JobOf(d, n) /\ s = Server[d]
        /\ st = "manual" <=> FirstPass(d, n)
        /\ n = job1[d] => printing[d] = "done"
        /\ n = job2[d] => task[d].kind # "continue" \/ recordId[d] = n

TrackedRight ==
    \A n \in Numbers :
        tracked[n] # Untracked => Right(n, tracked[n].server, tracked[n].status)
BatchRight == \A i \in batch : Right(i.number, i.server, i.status)
ItemRight == item # NoItem => Right(item.number, item.server, item.status)
PollerKnows == TrackedRight /\ BatchRight /\ ItemRight

\* A continue or a cancel is about its own document's record.
DocTask(d) ==
    /\ task[d].kind # "none" => hook[d] = "closed"
    /\ task[d].kind # "poll"
    /\ task[d].kind = "continue" =>
          task[d].status = "pending" /\ task[d].number = job2[d] /\ job2[d] # 0
    /\ task[d].kind \in {"webCancel", "botCancel"} =>
          task[d].status = "cancelled" /\ job2[d] = 0
    /\ task[d].kind = "none" => task[d].step = "idle"
    /\ task[d].kind = "continue" => task[d].step # "idle"
    /\ task[d].step \in {"find", "write"} => task[d].look = job1[d]
    /\ task[d].step = "write" =>
          /\ task[d].found = d /\ status[d] # "absent"
          /\ task[d].kind = "continue" => recordId[d] = job1[d]
    /\ task[d].step = "track" => task[d].kind = "continue"
    /\ task[d].step = "untrack" => task[d].kind = "botCancel"

\* The poller writes what it saw in CUPS, or what the sweep decides, to a record
\* that has the job's number, or had it before the document was continued; and a
\* job it is about to untrack has no record that still waits for it.
PollTask ==
    LET t == task[Poller] IN
    /\ t.kind \in {"none", "poll"} /\ t.step # "track"
    /\ t.step # "idle" => item # NoItem
    /\ t.step \in {"find", "write"} =>
          /\ t.kind = "poll" /\ t.look = item.number /\ t.status \notin Open
          /\ t.status = "completed" /\ ~item.sweep =>
                cups[item.server][item.number] = "completed" /\ item.status = "pending"
    /\ t.step = "write" =>
          /\ status[t.found] # "absent" /\ JobOf(t.found, item.number)
          /\ item.number = job2[t.found] => recordId[t.found] = item.number
    /\ t.step = "untrack" =>
          \A d \in Docs : recordId[d] = item.number =>
              /\ status[d] # "pending"
              /\ status[d] = "manual" => StateOf(d) = "completed"

\* NoOpenRecordForgotten, with the second pass of a document tracked even if its
\* first one is still being reported to the poller.
Followed ==
    \A d \in Docs \ excused :
        /\ status[d] = "pending" /\ d \in Manual /\ task[d].step = "idle" =>
              tracked[recordId[d]] # Untracked
        /\ status[d] = "pending" /\ d \notin Manual /\ printing[d] = "done" =>
              tracked[recordId[d]] # Untracked
        /\ status[d] = "manual" /\ hook[d] = "open" /\ printing[d] = "done" =>
              tracked[job1[d]] # Untracked \/ StateOf(d) = "completed"

SafeInv ==
    /\ JobsDiffer
    /\ RecordsNamed
    /\ PollerKnows
    /\ \A d \in Docs : DocTask(d)
    /\ PollTask
    /\ NoFalseCompletion
    /\ Followed

----------------------------------------------------------------------------
(* Typing. *)

\* No update.
LEMMA RestTyped ==
    Rest \in Updates /\ Rest.step = "idle" /\ Rest.kind = "none"
  BY DocsAssumption DEF Rest, Updates, Steps, Kinds

\* Only u's update goes on.
OnlyMoves(u) ==
    /\ task' \in [Updaters -> Updates]
    /\ \A v \in Updaters \ {u} : task'[v] = task[v]

\* And it is still about the same record and status.
SameUpdate(u) ==
    /\ task'[u].kind = task[u].kind /\ task'[u].look = task[u].look
    /\ task'[u].status = task[u].status /\ task'[u].number = task[u].number

\* An update begins.
LEMMA BeginMoves ==
    ASSUME TypeOK, NEW u \in Updaters, NEW k \in Kinds, NEW look \in 0 .. MaxJobs,
           NEW st \in Statuses, NEW n \in 0 .. MaxJobs, Begin(u, k, look, st, n)
    PROVE  /\ OnlyMoves(u)
           /\ task'[u].step = "find" /\ task'[u].kind = k /\ task'[u].look = look
           /\ task'[u].status = st /\ task'[u].number = n
<1> DEFINE R == [Rest EXCEPT !.step = "find", !.kind = k, !.look = look,
                             !.status = st, !.number = n]
<1>1. R \in Updates
  BY RestTyped, DocsAssumption DEF Updates, Steps
<1>2. R.step = "find" /\ R.kind = k /\ R.look = look /\ R.status = st /\ R.number = n
  BY RestTyped DEF Updates
<1>3. task' = [task EXCEPT ![u] = R]
  BY DEF Begin
<1> HIDE DEF R
<1> QED  BY <1>1, <1>2, <1>3 DEF TypeOK, OnlyMoves

\* Nothing is left to do.
LEMMA RestMoves ==
    ASSUME TypeOK, NEW u \in Updaters, task' = [task EXCEPT ![u] = Rest]
    PROVE  OnlyMoves(u) /\ task'[u].step = "idle" /\ task'[u].kind = "none"
  BY RestTyped DEF TypeOK, OnlyMoves

\* An update has ended, one way or the other.
LEMMA EndsMoves ==
    ASSUME TypeOK, NEW u \in Updaters, NEW ok \in BOOLEAN, Ends(u, ok)
    PROVE  OnlyMoves(u) /\ SameUpdate(u) /\ task'[u].step = NextStep(u, ok)
<1>1. NextStep(u, ok) \in Steps
  BY DEF NextStep, Steps
<1>2. [task[u] EXCEPT !.step = NextStep(u, ok)] \in Updates
  BY <1>1 DEF TypeOK, Updates
<1>3. /\ task' = [task EXCEPT ![u] = [task[u] EXCEPT !.step = NextStep(u, ok)]]
      /\ task[u] \in Updates
  BY DEF Ends, TypeOK
<1> QED  BY <1>2, <1>3 DEF TypeOK, OnlyMoves, SameUpdate, Updates

\* The record is looked up again, or the last attempt has failed.
LEMMA TryAgainMoves ==
    ASSUME TypeOK, NEW u \in Updaters, TryAgain(u)
    PROVE  /\ OnlyMoves(u) /\ SameUpdate(u)
           /\ task'[u].step = "find" \/ task'[u].step = NextStep(u, FALSE)
<1>1. CASE task[u].tries + 1 < MaxAttempts
  <2> DEFINE k == task[u].tries + 1
             R == [task[u] EXCEPT !.step = "find", !.tries = k]
  <2>1. task[u] \in Updates
    BY DEF TypeOK
  <2>2. k \in 0 .. MaxAttempts - 1
    BY <1>1, <2>1, DocsAssumption DEF Updates
  <2>3. task' = [task EXCEPT ![u] = R]
    BY <1>1 DEF TryAgain
  <2> HIDE DEF k
  <2>4. R \in Updates /\ R.step = "find"
    BY <2>1, <2>2 DEF Updates, Steps
  <2> QED  BY <2>1, <2>3, <2>4 DEF TypeOK, OnlyMoves, SameUpdate, Updates
<1>2. CASE ~(task[u].tries + 1 < MaxAttempts)
  BY <1>2, EndsMoves DEF TryAgain
<1> QED  BY <1>1, <1>2

\* A record is found.
LEMMA FoundMoves ==
    ASSUME TypeOK, NEW u \in Updaters, NEW d \in Docs,
           task' = [task EXCEPT ![u].step = "write", ![u].found = d]
    PROVE  /\ OnlyMoves(u) /\ SameUpdate(u)
           /\ task'[u].step = "write" /\ task'[u].found = d
<1> DEFINE R == [task[u] EXCEPT !.step = "write", !.found = d]
<1>1. task[u] \in Updates
  BY DEF TypeOK
<1>2. R \in Updates /\ R.step = "write" /\ R.found = d
  BY <1>1 DEF Updates, Steps
<1>3. task' = [task EXCEPT ![u] = R]
  OBVIOUS
<1> QED  BY <1>1, <1>2, <1>3 DEF TypeOK, OnlyMoves, SameUpdate, Updates

----------------------------------------------------------------------------
(* Every step keeps the types. *)

\* Job numbers, and the failures counted, are natural numbers within their bounds.
LEMMA NumbersBounded == Numbers \subseteq 0 .. MaxJobs /\ 0 \notin Numbers
  BY DocsAssumption DEF Numbers

\* The bound on mishaps.
LEMMA MishapCounted ==
    ASSUME mishaps \in 0 .. MaxMishaps, Mishap \/ UNCHANGED mishaps
    PROVE  mishaps' \in 0 .. MaxMishaps
  BY DocsAssumption DEF Mishap

\* A server takes a job.
LEMMA TakesJobTyped ==
    ASSUME TypeOK, NEW s \in Servers, NEW n \in Numbers, TakesJob(s, n)
    PROVE  cups' \in [Servers -> [Numbers -> JobStates]]
<1>1. [cups[s] EXCEPT ![n] = "active"] \in [Numbers -> JobStates]
  BY DEF TypeOK, JobStates
<1> QED  BY <1>1 DEF TypeOK, TakesJob

\* At the start there are no jobs, records or updates.
LEMMA TypeInit == Init => TypeInv
<1> SUFFICES ASSUME Init PROVE TypeInv
  OBVIOUS
<1>1. TypeOK
  BY RestTyped, DocsAssumption DEF Init, TypeOK, JobStates, Statuses, Present, Open,
      Numbers
<1>2. Filed
  BY RestTyped, DocsAssumption DEF Init, Filed, Present, Open, Updaters
<1> QED  BY <1>1, <1>2 DEF TypeInv

\* A submission takes a free number.
LEMMA SubmitTyped ==
    ASSUME TypeInv, NEW d \in Docs, Submit(d)
    PROVE  TypeInv'
<1> USE DEF TypeInv
<1>1. PICK n \in Numbers : TakesJob(Server[d], n) /\ job1' = [job1 EXCEPT ![d] = n]
  BY DEF Submit
<1>2. cups' \in [Servers -> [Numbers -> JobStates]]
  BY <1>1, TakesJobTyped, DocsAssumption
<1>3. TypeOK'
  BY <1>1, <1>2, NumbersBounded DEF Submit, recordVars, roundVars, TypeOK
<1>4. Filed'
  BY <1>1, <1>2 DEF Submit, recordVars, TypeOK, Filed
<1> QED  BY <1>3, <1>4

\* The record saved names the first job.
LEMMA PersistTyped ==
    ASSUME TypeInv, NEW d \in Docs, Persist(d)
    PROVE  TypeInv'
<1> USE DEF TypeInv
<1>1. mishaps' \in 0 .. MaxMishaps
  BY MishapCounted DEF Persist, TypeOK
<1>2. job1[d] \in Numbers /\ FirstStatus(d) \in Statuses
  BY DEF Persist, Filed, FirstStatus, Statuses, Present, Open
<1>3. status' \in [Docs -> Statuses] /\ recordId' \in [Docs -> 0 .. MaxJobs]
  BY <1>2, NumbersBounded DEF Persist, Saved, TypeOK
<1>4. TypeOK'
  BY <1>1, <1>2, <1>3 DEF Persist, jobVars, roundVars, TypeOK
<1>5. Filed'
  <2>1. /\ recordId'[d] = recordId[d] \/ recordId'[d] \in Numbers
        /\ status'[d] = status[d] \/ recordId'[d] \in Numbers
        /\ \A e \in Docs \ {d} : recordId'[e] = recordId[e] /\ status'[e] = status[e]
    BY <1>2 DEF Persist, Saved, TypeOK
  <2>2. task' = task /\ job1' = job1
    BY DEF Persist, jobVars
  <2>3. printing'[d] # "submit"
    BY DEF Persist, TypeOK
  <2>4. \A e \in Docs \ {d} : hook'[e] = hook[e] /\ printing'[e] = printing[e]
    BY DEF Persist, TypeOK
  <2> QED  BY <1>2, <2>1, <2>2, <2>3, <2>4 DEF Filed
<1> QED  BY <1>4, <1>5

\* The job tracked is open.
LEMMA TrackTyped ==
    ASSUME TypeInv, NEW d \in Docs, Track(d)
    PROVE  TypeInv'
<1> USE DEF TypeInv
<1>1. tracked' \in [Numbers -> Entries \cup {Untracked}]
  BY DocsAssumption DEF Track, FirstStatus, TypeOK, Entries, Open
<1>2. TypeOK'
  BY <1>1 DEF Track, jobVars, recordVars, roundVars, TypeOK
<1>3. Filed'
  BY <1>1 DEF Track, jobVars, recordVars, TypeOK, Filed
<1> QED  BY <1>2, <1>3

\* The second pass is pending.
LEMMA ContinueTyped ==
    ASSUME TypeInv, NEW d \in Docs, Continue(d)
    PROVE  TypeInv'
<1> USE DEF TypeInv
<1>1. PICK n \in Numbers : TakesJob(Server[d], n) /\ job2' = [job2 EXCEPT ![d] = n]
                      /\ Begin(d, "continue", job1[d], "pending", n)
  BY DEF Continue
<1>2. OnlyMoves(d) /\ task'[d].step = "find" /\ task'[d].number = n /\ task'[d].status = "pending"
  BY <1>1, BeginMoves, DocsAssumption
  DEF TypeOK, Updaters, Kinds, Statuses, Present, Open, Numbers
<1>3. cups' \in [Servers -> [Numbers -> JobStates]]
  BY <1>1, TakesJobTyped, DocsAssumption
<1>4. TypeOK'
  BY <1>1, <1>2, <1>3, NumbersBounded DEF Continue, recordVars, roundVars, TypeOK, OnlyMoves
<1>5. Filed'
  BY <1>1, <1>2, <1>3 DEF Continue, recordVars, TypeOK, OnlyMoves, Filed, Updaters, Present, Open
<1> QED  BY <1>4, <1>5

\* A cancel over HTTP is about the first pass.
LEMMA WebCancelTyped ==
    ASSUME TypeInv, NEW d \in Docs, WebCancel(d)
    PROVE  TypeInv'
<1> USE DEF TypeInv
<1>1. job1[d] \in Numbers
  BY DEF WebCancel, Filed
<1>2. /\ OnlyMoves(d) /\ task'[d].step = "find"
      /\ task'[d].number = job1[d] /\ task'[d].status = "cancelled"
  BY <1>1, BeginMoves, DocsAssumption
  DEF WebCancel, TypeOK, Updaters, Kinds, Statuses, Present, Open, Numbers
<1>3. TypeOK'
  BY <1>1, <1>2, DocsAssumption DEF WebCancel, jobVars, recordVars, roundVars, TypeOK, OnlyMoves
<1>4. Filed'
  BY <1>1, <1>2, DocsAssumption
  DEF WebCancel, jobVars, recordVars, TypeOK, OnlyMoves, Filed, Updaters, Present, Open
<1> QED  BY <1>3, <1>4

\* So is a cancel by the bot.
LEMMA BotCancelTyped ==
    ASSUME TypeInv, NEW d \in Docs, BotCancel(d)
    PROVE  TypeInv'
<1> USE DEF TypeInv
<1>1. job1[d] \in Numbers
  BY DEF BotCancel, Filed
<1>2. /\ OnlyMoves(d) /\ task'[d].step = "find"
      /\ task'[d].number = job1[d] /\ task'[d].status = "cancelled"
  BY <1>1, BeginMoves, DocsAssumption
  DEF BotCancel, TypeOK, Updaters, Kinds, Statuses, Present, Open, Numbers
<1>3. TypeOK'
  BY <1>1, <1>2, DocsAssumption DEF BotCancel, jobVars, recordVars, roundVars, TypeOK, OnlyMoves
<1>4. Filed'
  BY <1>1, <1>2, DocsAssumption
  DEF BotCancel, jobVars, recordVars, TypeOK, OnlyMoves, Filed, Updaters, Present, Open
<1> QED  BY <1>3, <1>4

\* The second pass is tracked as pending.
LEMMA TrackSecondTyped ==
    ASSUME TypeInv, NEW d \in Docs, TrackSecond(d)
    PROVE  TypeInv'
<1> USE DEF TypeInv
<1>1. OnlyMoves(d) /\ task'[d].step = "idle"
  BY RestMoves DEF TrackSecond, Updaters
<1>2. tracked' \in [Numbers -> Entries \cup {Untracked}]
  BY DocsAssumption DEF TrackSecond, TypeOK, Entries, Open
<1>3. TypeOK'
  BY <1>1, <1>2 DEF TrackSecond, jobVars, recordVars, roundVars, TypeOK, OnlyMoves
<1>4. Filed'
  BY <1>1, <1>2 DEF TrackSecond, jobVars, recordVars, TypeOK, Filed, OnlyMoves, Updaters
<1> QED  BY <1>3, <1>4

\* A cancelled job is no longer tracked.
LEMMA UntrackCancelledTyped ==
    ASSUME TypeInv, NEW d \in Docs, UntrackCancelled(d)
    PROVE  TypeInv'
<1> USE DEF TypeInv
<1>1. OnlyMoves(d) /\ task'[d].step = "idle"
  BY RestMoves DEF UntrackCancelled, Updaters
<1>2. TypeOK'
  BY <1>1 DEF UntrackCancelled, jobVars, recordVars, roundVars, TypeOK, OnlyMoves
<1>3. Filed'
  BY <1>1 DEF UntrackCancelled, jobVars, recordVars, TypeOK, Filed, OnlyMoves, Updaters
<1> QED  BY <1>2, <1>3

\* An update has found its record, or begins again, or is over.
LEMMA FindTyped ==
    ASSUME TypeInv, NEW u \in Updaters, Find(u)
    PROVE  TypeInv'
<1> USE DEF TypeInv
<1>1. /\ OnlyMoves(u) /\ SameUpdate(u)
      /\ task'[u].step = "write" => task'[u].found \in Docs
  BY FoundMoves, TryAgainMoves DEF Find, NextStep
<1>2. mishaps' \in 0 .. MaxMishaps
  BY MishapCounted DEF Find, TypeOK
<1>3. TypeOK'
  BY <1>1, <1>2 DEF Find, jobVars, recordVars, roundVars, TypeOK, OnlyMoves
<1>4. Filed'
  BY <1>1, <1>2 DEF Find, jobVars, recordVars, TypeOK, Filed, OnlyMoves, SameUpdate
<1> QED  BY <1>3, <1>4

\* The record is written, or not.
LEMMA WriteTyped ==
    ASSUME TypeInv, NEW u \in Updaters, Write(u)
    PROVE  TypeInv'
<1> USE DEF TypeInv
<1>1. /\ OnlyMoves(u) /\ SameUpdate(u) /\ task'[u].step # "write"
  BY EndsMoves, TryAgainMoves DEF Write, NextStep
<1>2. mishaps' \in 0 .. MaxMishaps
  BY MishapCounted DEF Write, TypeOK
<1>3. /\ task[u].found \in Docs /\ task[u].number \in Numbers
      /\ task[u].status \in Present
  BY DEF Write, Filed
<1>4. /\ status' \in [Docs -> Statuses] /\ recordId' \in [Docs -> 0 .. MaxJobs]
      /\ swept' \subseteq Docs
  <2>1. CASE Written(u)
    BY <1>3, <2>1, NumbersBounded DEF Written, TypeOK, Statuses
  <2>2. CASE UNCHANGED <<status, recordId, swept>>
    BY <2>2 DEF TypeOK
  <2> QED  BY <2>1, <2>2 DEF Write
<1>5. TypeOK'
  BY <1>1, <1>2, <1>3, <1>4 DEF Write, jobVars, roundVars, TypeOK, OnlyMoves
<1>6. Filed'
  BY <1>1, <1>2, <1>3, <1>4 DEF Write, Written, jobVars, TypeOK, Filed, OnlyMoves, SameUpdate
<1> QED  BY <1>5, <1>6

\* A record is deleted.
LEMMA DeleteTyped ==
    ASSUME TypeInv, NEW d \in Docs, Delete(d)
    PROVE  TypeInv'
<1> USE DEF TypeInv
<1>1. TypeOK'
  BY DEF Delete, jobVars, roundVars, TypeOK, Statuses
<1>2. Filed'
  BY DEF Delete, jobVars, TypeOK, Filed, Present, Open
<1> QED  BY <1>1, <1>2

\* A record grows old.
LEMMA AgesTyped ==
    ASSUME TypeInv, NEW d \in Docs, Ages(d)
    PROVE  TypeInv'
<1> USE DEF TypeInv
<1>1. TypeOK'
  BY DEF Ages, jobVars, roundVars, TypeOK
<1>2. Filed'
  BY DEF Ages, jobVars, TypeOK, Filed
<1> QED  BY <1>1, <1>2

\* The jobs tracked are the items of a round.
LEMMA PollStartsTyped ==
    ASSUME TypeInv, PollStarts
    PROVE  TypeInv'
<1> USE DEF TypeInv
<1>1. \A m \in Numbers : tracked[m] # Untracked => tracked[m] \in Entries
  BY DEF TypeOK
<1>2. \A m \in Numbers : tracked[m] # Untracked =>
         [number |-> m, server |-> tracked[m].server, status |-> tracked[m].status,
          sweep |-> FALSE] \in Items
  BY <1>1 DEF Items, Entries
<1>3. batch' \subseteq Items
  BY <1>2 DEF PollStarts
<1>4. TypeOK'
  BY <1>1, <1>2, <1>3 DEF PollStarts, jobVars, recordVars, TypeOK
<1>5. Filed'
  BY <1>1, <1>2, <1>3 DEF PollStarts, jobVars, recordVars, Filed
<1> QED  BY <1>4, <1>5

\* Old open records are those of a sweep.
LEMMA SweepStartsTyped ==
    ASSUME TypeInv, SweepStarts
    PROVE  TypeInv'
<1> USE DEF TypeInv
<1>1. \A e \in old : e \in Docs /\ (status[e] \in Open => recordId[e] \in Numbers)
  BY DEF TypeOK, Filed, Present
<1>2. \A e \in old : status[e] \in Open =>
         [number |-> recordId[e], server |-> Server[e], status |-> status[e],
          sweep |-> TRUE] \in Items
  BY <1>1, DocsAssumption DEF Items
<1>3. batch' \subseteq Items
  BY <1>2 DEF SweepStarts
<1>4. TypeOK'
  BY <1>1, <1>2, <1>3 DEF SweepStarts, jobVars, recordVars, TypeOK
<1>5. Filed'
  BY <1>1, <1>2, <1>3 DEF SweepStarts, jobVars, recordVars, Filed
<1> QED  BY <1>4, <1>5

\* A state that the poller writes is one of a record.
LEMMA PollTakesTyped ==
    ASSUME TypeInv, NEW i \in batch, PollTakes(i)
    PROVE  TypeInv'
<1> USE DEF TypeInv
<1>1. i.number \in Numbers /\ i \in Items
  BY DEF TypeOK, Items
<1>2. \/ UNCHANGED task
      \/ OnlyMoves(Poller) /\ task'[Poller].step = "untrack"
      \/ /\ OnlyMoves(Poller) /\ task'[Poller].step = "find"
         /\ task'[Poller].number \in Numbers /\ task'[Poller].status \in Present
  <2>1. CASE task' = [task EXCEPT ![Poller] = [Rest EXCEPT !.step = "untrack"]]
    <3>1. [Rest EXCEPT !.step = "untrack"] \in Updates
      BY RestTyped DEF Updates, Steps
    <3>2. [Rest EXCEPT !.step = "untrack"].step = "untrack"
      BY RestTyped DEF Updates
    <3> QED  BY <2>1, <3>1, <3>2 DEF TypeOK, OnlyMoves, Updaters
  <2>2. ASSUME NEW st \in {"stopped", "completed", "failed"},
               Begin(Poller, "poll", i.number, st, i.number)
        PROVE  /\ OnlyMoves(Poller) /\ task'[Poller].step = "find"
               /\ task'[Poller].number \in Numbers /\ task'[Poller].status \in Present
    <3>1. /\ Poller \in Updaters /\ "poll" \in Kinds /\ i.number \in 0 .. MaxJobs
          /\ st \in Statuses /\ st \in Present
      BY <1>1, NumbersBounded DEF Updaters, Kinds, Statuses, Present
    <3> QED  BY <1>1, <2>2, <3>1, BeginMoves
  <2> QED  BY <2>1, <2>2 DEF PollTakes
<1>3. TypeOK'
  BY <1>1, <1>2 DEF PollTakes, Takes, jobVars, recordVars, TypeOK, OnlyMoves
<1>4. Filed'
  BY <1>1, <1>2 DEF PollTakes, Takes, jobVars, recordVars, Filed, OnlyMoves, Updaters
<1> QED  BY <1>3, <1>4

\* The sweep writes that a job has completed.
LEMMA SweepTakesTyped ==
    ASSUME TypeInv, NEW i \in batch, SweepTakes(i)
    PROVE  TypeInv'
<1> USE DEF TypeInv
<1>1. i.number \in Numbers /\ i \in Items
  BY DEF TypeOK, Items
<1>2. /\ Poller \in Updaters /\ "poll" \in Kinds /\ i.number \in 0 .. MaxJobs
      /\ "completed" \in Statuses /\ "completed" \in Present
  BY <1>1, NumbersBounded DEF Updaters, Kinds, Statuses, Present
<1>3. /\ OnlyMoves(Poller) /\ task'[Poller].step = "find"
      /\ task'[Poller].number \in Numbers /\ task'[Poller].status \in Present
  BY <1>1, <1>2, BeginMoves DEF SweepTakes
<1>4. TypeOK'
  BY <1>1, <1>2, <1>3 DEF SweepTakes, Takes, jobVars, recordVars, TypeOK, OnlyMoves
<1>5. Filed'
  BY <1>1, <1>2, <1>3 DEF SweepTakes, Takes, jobVars, recordVars, Filed, OnlyMoves, Updaters
<1> QED  BY <1>4, <1>5

\* The poller lets go of a job.
LEMMA UntrackTyped ==
    ASSUME TypeInv, Untrack
    PROVE  TypeInv'
<1> USE DEF TypeInv
<1>1. OnlyMoves(Poller) /\ task'[Poller].step = "idle"
  BY RestMoves DEF Untrack, Updaters
<1>2. TypeOK'
  BY <1>1 DEF Untrack, jobVars, recordVars, TypeOK, OnlyMoves
<1>3. Filed'
  BY <1>1 DEF Untrack, jobVars, recordVars, Filed, OnlyMoves, Updaters
<1> QED  BY <1>2, <1>3

\* A job goes on in CUPS.
LEMMA JobMovesTyped ==
    ASSUME TypeInv, NEW s \in Servers, NEW n \in Numbers, JobMoves(s, n)
    PROVE  TypeInv'
<1> USE DEF TypeInv
<1>1. TypeOK'
  <2>1. cups' \in [Servers -> [Numbers -> JobStates]]
    BY DEF JobMoves, TypeOK, JobStates
  <2> QED  BY <2>1 DEF JobMoves, recordVars, roundVars, TypeOK
<1>2. Filed'
  BY DEF JobMoves, recordVars, Filed
<1> QED  BY <1>1, <1>2

\* CUPS forgets a job.
LEMMA PurgeTyped ==
    ASSUME TypeInv, NEW s \in Servers, NEW n \in Numbers, Purge(s, n)
    PROVE  TypeInv'
<1> USE DEF TypeInv
<1>1. TypeOK'
  BY DEF Purge, recordVars, roundVars, TypeOK
<1>2. Filed'
  BY DEF Purge, recordVars, Filed
<1> QED  BY <1>1, <1>2

\* The poller reads the open records after a restart.
LEMMA RestartTyped ==
    ASSUME TypeInv, Restart
    PROVE  TypeInv'
<1> USE DEF TypeInv
<1>1. \A n \in Numbers : Restorable(n) \subseteq Entries
  BY DocsAssumption DEF Restorable, Entries
<1>2. tracked' \in [Numbers -> Entries \cup {Untracked}]
  BY <1>1 DEF Restart, Restored
<1>3. \A u \in Updaters : task'[u] \in Updates /\ task'[u].step = "idle"
  BY RestTyped DEF Restart
<1>4. task' \in [Updaters -> Updates]
  BY <1>3 DEF Restart
<1>5. mishaps' \in 0 .. MaxMishaps
  BY MishapCounted DEF Restart, TypeOK
<1>6. TypeOK'
  BY <1>1, <1>2, <1>3, <1>4, <1>5 DEF Restart, jobVars, recordVars, TypeOK
<1>7. Filed'
  BY <1>1, <1>2, <1>3, <1>4, <1>5 DEF Restart, jobVars, recordVars, TypeOK, Filed
<1> QED  BY <1>6, <1>7

\* Every step keeps the types.
LEMMA TypeStep == TypeInv /\ [Next]_vars => TypeInv'
<1> SUFFICES ASSUME TypeInv, [Next]_vars PROVE TypeInv'
  OBVIOUS
<1>1. CASE UNCHANGED vars
  BY <1>1 DEF vars, TypeInv, TypeOK, Filed
<1>2. ASSUME NEW d \in Docs, DocSteps(d) \/ UserSteps(d) \/ Ages(d)
      PROVE  TypeInv'
  BY <1>2, SubmitTyped, PersistTyped, TrackTyped, TrackSecondTyped, UntrackCancelledTyped,
      FindTyped, WriteTyped, ContinueTyped, WebCancelTyped, BotCancelTyped, DeleteTyped,
      AgesTyped DEF DocSteps, UserSteps, Updaters
<1>3. ASSUME PollerSteps
      PROVE  TypeInv'
  BY <1>3, PollTakesTyped, SweepTakesTyped, FindTyped, WriteTyped, UntrackTyped
      DEF PollerSteps, Updaters
<1>4. ASSUME NEW s \in Servers, NEW n \in Numbers, JobMoves(s, n) \/ Purge(s, n)
      PROVE  TypeInv'
  BY <1>4, JobMovesTyped, PurgeTyped
<1> QED
  BY <1>1, <1>2, <1>3, <1>4, PollStartsTyped, SweepStartsTyped, RestartTyped DEF Next

\* Every variable of the records, the updates and the poller keeps its type, for
\* any documents, printers and servers: an update is tried at most MaxAttempts
\* times, and what the poller takes up is an open record's job.
THEOREM TypeCorrect == Spec => []TypeOK
<1>1. Spec => []TypeInv
  BY TypeInit, TypeStep, PTL DEF Spec
<1>2. TypeInv => TypeOK
  BY DEF TypeInv
<1> QED  BY <1>1, <1>2, PTL

----------------------------------------------------------------------------
(* Every step keeps what the safety properties rest on. *)

\* What any step but a submission does to the documents that the poller knows.
Onward ==
    \A e \in Docs :
        /\ \A n \in Numbers : JobOf(e, n) =>
              JobOf(e, n)' /\ (n = job1'[e] <=> n = job1[e]) /\ (n = job2'[e] <=> n = job2[e])
        /\ printing[e] = "done" => printing'[e] = "done"
        /\ job2[e] # 0 /\ task[e].kind # "continue" => task'[e].kind # "continue"
        /\ job2[e] # 0 /\ recordId[e] = job2[e] => recordId'[e] = recordId[e]

\* What the poller knows stays right meanwhile.
LEMMA RightKept ==
    ASSUME Onward, NEW n \in Numbers, NEW s, NEW st, Right(n, s, st)
    PROVE  Right(n, s, st)'
  BY DEF Onward, Right, JobOf, FirstPass

\* What is right of a job stays so: the poller's map, its copy and its item.
LEMMA TrackedKept ==
    ASSUME Onward, TrackedRight, \A n \in Numbers : tracked'[n] \in {tracked[n], Untracked}
    PROVE  TrackedRight'
<1> SUFFICES ASSUME NEW n \in Numbers, (tracked[n] # Untracked)'
             PROVE  Right(n, tracked[n].server, tracked[n].status)'
  BY DEF TrackedRight
<1>1. PICK s, st : s = tracked[n].server /\ st = tracked[n].status
  OBVIOUS
<1>2. tracked'[n] = tracked[n] /\ Right(n, s, st)
  BY <1>1 DEF TrackedRight
<1>3. Right(n, s, st)'
  BY <1>2, RightKept
<1> QED  BY <1>1, <1>2, <1>3

\* The same of the copy or list.
LEMMA BatchKept ==
    ASSUME TypeOK, Onward, BatchRight, batch' \subseteq batch
    PROVE  BatchRight'
  BY RightKept DEF BatchRight, TypeOK, Items

\* The same of the item.
LEMMA ItemKept ==
    ASSUME TypeOK, Onward, ItemRight, item' \in {item, NoItem}
    PROVE  ItemRight'
<1> SUFFICES ASSUME (item # NoItem)'
             PROVE  Right(item.number, item.server, item.status)'
  BY DEF ItemRight
<1>1. PICK n, s, st : n \in Numbers /\ n = item.number /\ s = item.server /\ st = item.status
  BY DEF TypeOK, Items
<1>2. item' = item /\ n \in Numbers /\ Right(n, s, st)
  BY <1>1 DEF ItemRight
<1>3. Right(n, s, st)'
  BY <1>2, RightKept
<1> QED  BY <1>1, <1>2, <1>3

\* A step that adds nothing to what the poller has.
LEMMA PollerKnowsKept ==
    ASSUME TypeOK, Onward, PollerKnows,
           \A n \in Numbers : tracked'[n] \in {tracked[n], Untracked},
           batch' \subseteq batch, item' \in {item, NoItem}
    PROVE  PollerKnows'
  BY TrackedKept, BatchKept, ItemKept DEF PollerKnows

\* A document that is being cancelled has no second pass, so its record is not pending.
LEMMA CancelNotPending ==
    ASSUME TypeInv, RecordsNamed, NEW d \in Docs, DocTask(d),
           task[d].kind \in {"webCancel", "botCancel"}
    PROVE  job2[d] = 0 /\ job1[d] # 0 /\ hook[d] = "closed" /\ status[d] # "pending"
<1>1. job2[d] = 0 /\ hook[d] = "closed"
  BY DEF DocTask
<1>2. job1[d] \in Numbers
  BY <1>1 DEF TypeInv, Filed
<1> QED  BY <1>1, <1>2, NumbersBounded DEF RecordsNamed, JobOf, FirstPass

\* CUPS gives a job a number that no document has, if numbers are not shared
\* afterwards either, and changes no other job.
LEMMA NumberIsFree ==
    ASSUME TypeOK, JobsDiffer, OwnNumbers', NEW d \in Docs, NEW n \in Numbers,
           TakesJob(Server[d], n), JobOf(d, n)', \A e \in Docs : JobOf(e, n) => JobOf(e, n)'
    PROVE  /\ \A e \in Docs : ~JobOf(e, n)
           /\ \A t \in Servers, m \in Numbers :
                 /\ cups'[t][m] = IF t = Server[d] /\ m = n THEN "active" ELSE cups[t][m]
                 /\ cups[t][m] # "none" => cups'[t][m] # "none"
                 /\ cups[t][m] = "completed" => cups'[t][m] = "completed"
<1>1. cups[Server[d]][n] = "none" /\ cups' = [cups EXCEPT ![Server[d]][n] = "active"]
  BY DEF TakesJob
<1>2. ASSUME NEW e \in Docs, JobOf(e, n)
      PROVE  FALSE
  <2>1. e = d
    BY <1>2 DEF OwnNumbers
  <2> QED  BY <1>1, <1>2, <2>1 DEF JobsDiffer
<1>3. ASSUME NEW t \in Servers, NEW m \in Numbers
      PROVE  cups'[t][m] = IF t = Server[d] /\ m = n THEN "active" ELSE cups[t][m]
  BY <1>1, DocsAssumption DEF TypeOK
<1> QED  BY <1>1, <1>2, <1>3

\* CUPS forgets a job.
LEMMA PurgeKeeps ==
    ASSUME OwnNumbers', TypeInv, TypeInv', SafeInv,
           NEW s \in Servers, NEW n \in Numbers, Purge(s, n)
    PROVE  SafeInv'
<1> USE DocsAssumption DEF TypeInv, SafeInv, TypeOK, Updaters
<1>1. JobsDiffer'
  BY DEF Purge, recordVars, roundVars, JobsDiffer, OwnNumbers, JobOf
<1>2. RecordsNamed'
  BY DEF Purge, recordVars, roundVars, RecordsNamed, JobOf, FirstPass
<1>3. PollerKnows'
  BY
  DEF Purge, recordVars, roundVars, PollerKnows, TrackedRight, BatchRight, ItemRight, Right,
      JobOf, FirstPass
<1>4. (\A e \in Docs : DocTask(e))'
  BY DEF Purge, recordVars, roundVars, DocTask
<1>5. PollTask'
  BY DEF Purge, recordVars, roundVars, PollTask, StateOf, JobOf
<1>6. NoFalseCompletion'
  BY DEF Purge, recordVars, roundVars, NoFalseCompletion, StateOf
<1>7. Followed'
  BY DEF Purge, recordVars, roundVars, Followed, StateOf
<1> QED  BY <1>1, <1>2, <1>3, <1>4, <1>5, <1>6, <1>7

\* A record grows old.
LEMMA AgesKeeps ==
    ASSUME OwnNumbers', TypeInv, TypeInv', SafeInv, NEW d \in Docs, Ages(d)
    PROVE  SafeInv'
<1> USE DocsAssumption DEF TypeInv, SafeInv, TypeOK, Updaters
<1>1. JobsDiffer'
  BY DEF Ages, jobVars, roundVars, JobsDiffer, OwnNumbers, JobOf
<1>2. RecordsNamed'
  BY DEF Ages, jobVars, roundVars, RecordsNamed, JobOf, FirstPass
<1>3. PollerKnows'
  BY
  DEF Ages, jobVars, roundVars, PollerKnows, TrackedRight, BatchRight, ItemRight, Right, JobOf,
      FirstPass
<1>4. (\A e \in Docs : DocTask(e))'
  BY DEF Ages, jobVars, roundVars, DocTask
<1>5. PollTask'
  BY DEF Ages, jobVars, roundVars, PollTask, StateOf, JobOf
<1>6. NoFalseCompletion'
  BY DEF Ages, jobVars, roundVars, NoFalseCompletion, StateOf
<1>7. Followed'
  BY DEF Ages, jobVars, roundVars, Followed, StateOf
<1> QED  BY <1>1, <1>2, <1>3, <1>4, <1>5, <1>6, <1>7

\* A record is deleted.
LEMMA DeleteKeeps ==
    ASSUME OwnNumbers', TypeInv, TypeInv', SafeInv, NEW d \in Docs, Delete(d)
    PROVE  SafeInv'
<1> USE DocsAssumption DEF TypeInv, SafeInv, TypeOK, Updaters
<1>1. JobsDiffer'
  BY DEF Delete, jobVars, roundVars, Present, Open, JobsDiffer, OwnNumbers, JobOf
<1>2. RecordsNamed'
  BY DEF Delete, jobVars, roundVars, Present, Open, RecordsNamed, JobOf, FirstPass
<1>3. PollerKnows'
  BY
  DEF Delete, jobVars, roundVars, Present, Open, PollerKnows, TrackedRight, BatchRight,
      ItemRight, Right, JobOf, FirstPass
<1>4. (\A e \in Docs : DocTask(e))'
  BY DEF Delete, jobVars, roundVars, Present, Open, DocTask
<1>5. PollTask'
  BY DEF Delete, jobVars, roundVars, Present, Open, PollTask, StateOf, JobOf
<1>6. NoFalseCompletion'
  BY DEF Delete, jobVars, roundVars, Present, Open, NoFalseCompletion, StateOf
<1>7. Followed'
  BY DEF Delete, jobVars, roundVars, Present, Open, Followed, StateOf
<1> QED  BY <1>1, <1>2, <1>3, <1>4, <1>5, <1>6, <1>7

\* A job goes on in CUPS, but a final state is final.
LEMMA JobMovesKeeps ==
    ASSUME OwnNumbers', TypeInv, TypeInv', SafeInv,
           NEW s \in Servers, NEW n \in Numbers, JobMoves(s, n)
    PROVE  SafeInv'
<1> USE DocsAssumption DEF TypeInv, SafeInv, TypeOK, Updaters
<1>1. \A t \in Servers, m \in Numbers :
         /\ cups[t][m] # "none" => cups'[t][m] # "none"
         /\ cups[t][m] = "completed" => cups'[t][m] = "completed"
  <2>1. PICK to \in JobStates \ {"none"} :
          cups[s][n] \in {"active", "stopped"} /\ cups' = [cups EXCEPT ![s][n] = to]
    BY DEF JobMoves, JobStates
  <2>2. \A t \in Servers, m \in Numbers :
           cups'[t][m] = IF t = s /\ m = n THEN to ELSE cups[t][m]
    BY <2>1
  <2> QED  BY <2>1, <2>2
<1>2. \A d \in Docs : /\ Server[d] \in Servers
                      /\ status[d] \in Present => recordId[d] \in Numbers
  BY DEF Filed
<1>3. item # NoItem => item.server \in Servers /\ item.number \in Numbers
  BY DEF Items
<1>4. JobsDiffer'
  BY <1>1, <1>2, <1>3 DEF JobMoves, recordVars, roundVars, JobsDiffer, OwnNumbers, JobOf
<1>5. RecordsNamed'
  BY <1>1, <1>2, <1>3 DEF JobMoves, recordVars, roundVars, RecordsNamed, JobOf, FirstPass
<1>6. PollerKnows'
  BY <1>1, <1>2, <1>3
  DEF JobMoves, recordVars, roundVars, PollerKnows, TrackedRight, BatchRight, ItemRight, Right,
      JobOf, FirstPass
<1>7. (\A e \in Docs : DocTask(e))'
  BY <1>1, <1>2, <1>3 DEF JobMoves, recordVars, roundVars, DocTask
<1>8. PollTask'
  BY <1>1, <1>2, <1>3 DEF JobMoves, recordVars, roundVars, PollTask, StateOf, JobOf, Present, Open
<1>9. NoFalseCompletion'
  BY <1>1, <1>2 DEF JobMoves, recordVars, roundVars, NoFalseCompletion, StateOf, Present
<1>10. Followed'
  BY <1>1, <1>2 DEF JobMoves, recordVars, roundVars, Followed, StateOf, Present, Open
<1> QED  BY <1>4, <1>5, <1>6, <1>7, <1>8, <1>9, <1>10

\* The jobs tracked are the items of a round.
LEMMA PollStartsKeeps ==
    ASSUME OwnNumbers', TypeInv, TypeInv', SafeInv, PollStarts
    PROVE  SafeInv'
<1> USE DocsAssumption DEF TypeInv, SafeInv, TypeOK, Updaters
<1>1. Onward
  BY DEF PollStarts, jobVars, recordVars, Onward, JobOf
<1>2. \A i \in batch' : i.number \in Numbers /\ Right(i.number, i.server, i.status)
  BY DEF PollStarts, PollerKnows, TrackedRight
<1>3. JobsDiffer'
  BY <1>1, <1>2 DEF PollStarts, jobVars, recordVars, JobsDiffer, OwnNumbers, JobOf
<1>4. RecordsNamed'
  BY <1>1, <1>2 DEF PollStarts, jobVars, recordVars, RecordsNamed, JobOf, FirstPass
<1>5. PollerKnows'
  <2>1. BatchRight'
    BY <1>1, <1>2, RightKept DEF BatchRight
  <2>2. TrackedRight' /\ ItemRight'
    BY <1>1, TrackedKept, ItemKept DEF PollStarts, PollerKnows
  <2> QED  BY <2>1, <2>2 DEF PollerKnows
<1>6. (\A e \in Docs : DocTask(e))'
  BY <1>1, <1>2 DEF PollStarts, jobVars, recordVars, DocTask
<1>7. PollTask'
  BY <1>1, <1>2 DEF PollStarts, jobVars, recordVars, PollTask, StateOf, JobOf
<1>8. NoFalseCompletion'
  BY <1>1, <1>2 DEF PollStarts, jobVars, recordVars, NoFalseCompletion, StateOf
<1>9. Followed'
  BY <1>1, <1>2 DEF PollStarts, jobVars, recordVars, Followed, StateOf
<1> QED  BY <1>3, <1>4, <1>5, <1>6, <1>7, <1>8, <1>9

\* Old open records are those of a sweep.
LEMMA SweepStartsKeeps ==
    ASSUME OwnNumbers', TypeInv, TypeInv', SafeInv, SweepStarts
    PROVE  SafeInv'
<1> USE DocsAssumption DEF TypeInv, SafeInv, TypeOK, Updaters
<1>1. Onward
  BY DEF SweepStarts, jobVars, recordVars, Onward, JobOf
<1>2. \A e \in old : status[e] \in Open => Right(recordId[e], Server[e], status[e])
  BY DEF RecordsNamed, Right, JobOf, FirstPass, Open
<1>3. \A i \in batch' : i.number \in Numbers /\ Right(i.number, i.server, i.status)
  BY <1>2 DEF SweepStarts, Items
<1>4. JobsDiffer'
  BY <1>1, <1>2, <1>3 DEF SweepStarts, jobVars, recordVars, JobsDiffer, OwnNumbers, JobOf
<1>5. RecordsNamed'
  BY <1>1, <1>2, <1>3 DEF SweepStarts, jobVars, recordVars, RecordsNamed, JobOf, FirstPass
<1>6. PollerKnows'
  <2>1. BatchRight'
    BY <1>1, <1>3, RightKept DEF BatchRight
  <2>2. TrackedRight' /\ ItemRight'
    BY <1>1, TrackedKept, ItemKept DEF SweepStarts, PollerKnows
  <2> QED  BY <2>1, <2>2 DEF PollerKnows
<1>7. (\A e \in Docs : DocTask(e))'
  BY <1>1, <1>2, <1>3 DEF SweepStarts, jobVars, recordVars, DocTask
<1>8. PollTask'
  BY <1>1, <1>2, <1>3 DEF SweepStarts, jobVars, recordVars, PollTask, StateOf, JobOf
<1>9. NoFalseCompletion'
  BY <1>1, <1>2, <1>3 DEF SweepStarts, jobVars, recordVars, NoFalseCompletion, StateOf
<1>10. Followed'
  BY <1>1, <1>2, <1>3 DEF SweepStarts, jobVars, recordVars, Followed, StateOf
<1> QED  BY <1>4, <1>5, <1>6, <1>7, <1>8, <1>9, <1>10

\* A submission takes a number that nobody knows.
LEMMA SubmitKeeps ==
    ASSUME OwnNumbers', TypeInv, TypeInv', SafeInv, NEW d \in Docs, Submit(d)
    PROVE  SafeInv'
<1> USE DocsAssumption DEF TypeInv, SafeInv, TypeOK, Updaters
<1>1. \A e \in Docs : /\ Server[e] \in Servers
                      /\ status[e] \in Present => recordId[e] \in Numbers
  BY DEF Filed
<1>2. item # NoItem => item.server \in Servers /\ item.number \in Numbers
  BY DEF Items
<1>3. PICK n \in Numbers : TakesJob(Server[d], n) /\ job1' = [job1 EXCEPT ![d] = n]
  BY DEF Submit
<1>4. /\ \A e \in Docs : ~JobOf(e, n)
      /\ \A t \in Servers, m \in Numbers :
            /\ cups[t][m] # "none" => cups'[t][m] # "none"
            /\ cups[t][m] = "completed" => cups'[t][m] = "completed"
  <2>1. job1[d] = 0 /\ n # 0
    BY NumbersBounded DEF Submit, RecordsNamed
  <2>2. JobOf(d, n)' /\ \A e \in Docs : JobOf(e, n) => JobOf(e, n)'
    BY <1>3, <2>1 DEF Submit, JobOf
  <2>3. TypeOK /\ JobsDiffer
    OBVIOUS
  <2> HIDE DEF TypeOK, TypeInv, SafeInv
  <2> QED  BY <1>3, <2>2, <2>3, NumberIsFree
<1>5. cups'[Server[d]][n] = "active"
  BY <1>1, <1>3 DEF TakesJob
<1>6. job1[d] = 0 /\ job2[d] = 0 /\ n # 0 /\ hook[d] = "none"
  BY NumbersBounded DEF Submit, RecordsNamed, Filed
<1>7. Onward
  BY <1>3, <1>6 DEF Submit, recordVars, Onward, JobOf
<1>8. JobsDiffer'
  <2>1. \A e \in Docs, m \in Numbers : JobOf(e, m)' => JobOf(e, m) \/ (e = d /\ m = n)
    BY <1>3, <1>6 DEF Submit, JobOf
  <2> QED  BY <1>1, <1>3, <1>4, <1>5, <1>6, <2>1 DEF Submit, JobsDiffer, OwnNumbers, JobOf
<1>9. RecordsNamed'
  BY <1>1, <1>2, <1>3, <1>4, <1>5, <1>6, <1>7
  DEF Submit, recordVars, roundVars, RecordsNamed, JobOf, FirstPass
<1>10. PollerKnows'
  BY <1>7, PollerKnowsKept DEF Submit, roundVars
<1>11. (\A e \in Docs : DocTask(e))'
  <2>1. task[d].kind = "none"
    BY <1>6 DEF Submit, Filed, DocTask
  <2> QED  BY <2>1 DEF Submit, recordVars, DocTask
<1>12. PollTask'
  BY <1>1, <1>2, <1>3, <1>4, <1>6
  DEF Submit, recordVars, roundVars, PollTask, StateOf, JobOf, Present, Open
<1>13. NoFalseCompletion'
  BY <1>1, <1>4 DEF Submit, recordVars, NoFalseCompletion, StateOf, RecordsNamed, Present
<1>14. Followed'
  BY <1>1, <1>4 DEF Submit, recordVars, Followed, StateOf, RecordsNamed, Present, Open
<1> QED  BY <1>8, <1>9, <1>10, <1>11, <1>12, <1>13, <1>14

\* The record that is saved names the first pass.
LEMMA PersistKeeps ==
    ASSUME OwnNumbers', TypeInv, TypeInv', SafeInv, NEW d \in Docs, Persist(d)
    PROVE  SafeInv'
<1> USE DocsAssumption DEF TypeInv, SafeInv, TypeOK, Updaters
<1>1. \A e \in Docs : /\ Server[e] \in Servers
                      /\ status[e] \in Present => recordId[e] \in Numbers
  BY DEF Filed
<1>2. item # NoItem => item.server \in Servers /\ item.number \in Numbers
  BY DEF Items
<1>3. /\ job1[d] \in Numbers /\ status[d] = "absent" /\ recordId[d] = 0
      /\ printing'[d] # "done" \/ d \in excused'
  BY DEF Persist, Filed, RecordsNamed
<1>4. Onward
  BY <1>3 DEF Persist, Saved, jobVars, Onward, JobOf
<1>5. /\ status' = [status EXCEPT ![d] = FirstStatus(d)]
      /\ recordId' = [recordId EXCEPT ![d] = job1[d]]
      \/ UNCHANGED <<status, recordId>>
  BY DEF Persist, Saved
<1>6. \A e \in Docs \ {d} : status'[e] = status[e] /\ recordId'[e] = recordId[e]
  BY <1>5
<1>7. JobsDiffer'
  BY DEF Persist, jobVars, JobsDiffer, OwnNumbers, JobOf
<1>8. RecordsNamed'
  BY <1>1, <1>2, <1>3, <1>4, <1>5, <1>6
  DEF Persist, FirstStatus, jobVars, roundVars, RecordsNamed, JobOf, FirstPass
<1>9. PollerKnows'
  BY <1>4, PollerKnowsKept DEF Persist, roundVars
<1>10. (\A e \in Docs : DocTask(e))'
  <2>1. d \in Manual \cap byBot => task[d].kind = "none"
    BY DEF Persist, DocTask, RecordsNamed
  <2> QED  BY <1>3, <1>5, <1>6, <2>1 DEF Persist, jobVars, DocTask
<1>11. PollTask'
  <2>1. item # NoItem => item.number # job1[d]
    BY <1>2, <1>3 DEF Persist, PollerKnows, ItemRight, Right, JobsDiffer, OwnNumbers, JobOf
  <2>2. UNCHANGED <<cups, job1, job2, task, item>>
    BY DEF Persist, jobVars, roundVars
  <2> QED  BY <1>3, <1>5, <1>6, <2>1, <2>2, SMTT(30) DEF Filed, PollTask, StateOf, JobOf
<1>12. NoFalseCompletion'
  BY <1>1, <1>3, <1>5, <1>6 DEF Persist, FirstStatus, jobVars, NoFalseCompletion, StateOf
<1>13. Followed'
  BY <1>3, <1>5, <1>6 DEF Persist, FirstStatus, jobVars, Followed, StateOf
<1> QED  BY <1>7, <1>8, <1>9, <1>10, <1>11, <1>12, <1>13

\* The poller is told of the first pass.
LEMMA TrackKeeps ==
    ASSUME OwnNumbers', TypeInv, TypeInv', SafeInv, NEW d \in Docs, Track(d)
    PROVE  SafeInv'
<1> USE DocsAssumption DEF TypeInv, SafeInv, TypeOK, Updaters
<1>1. \A e \in Docs : /\ Server[e] \in Servers
                      /\ status[e] \in Present => recordId[e] \in Numbers
  BY DEF Filed
<1>2. item # NoItem => item.server \in Servers /\ item.number \in Numbers
  BY DEF Items
<1>3. Onward
  BY DEF Track, jobVars, recordVars, Onward, JobOf
<1>4. job1[d] \in Numbers /\ job1[d] # job2[d] /\ job1[d] # 0
  BY NumbersBounded DEF Track, Filed, JobsDiffer, OwnNumbers
<1>5. JobsDiffer'
  BY <1>1, <1>2, <1>3, <1>4
  DEF Track, FirstStatus, jobVars, recordVars, roundVars, JobsDiffer, OwnNumbers, JobOf
<1>6. RecordsNamed'
  BY <1>1, <1>2, <1>3, <1>4
  DEF Track, FirstStatus, jobVars, recordVars, roundVars, RecordsNamed, JobOf, FirstPass
<1>7. PollerKnows'
  <2>1. ASSUME NEW n \in Numbers, n # job1[d], (tracked[n] # Untracked)'
        PROVE  Right(n, tracked[n].server, tracked[n].status)'
    <3>1. PICK s, st : s = tracked[n].server /\ st = tracked[n].status
      OBVIOUS
    <3>2. tracked'[n] = tracked[n] /\ Right(n, s, st)
      BY <2>1, <3>1 DEF Track, PollerKnows, TrackedRight
    <3> QED  BY <1>3, <3>1, <3>2, RightKept
  <2>2. Right(job1[d], tracked[job1[d]].server, tracked[job1[d]].status)'
    BY <1>4 DEF Track, FirstStatus, jobVars, Right, JobOf, FirstPass
  <2>3. TrackedRight'
    BY <2>1, <2>2 DEF Track, jobVars, TrackedRight
  <2> QED  BY <1>3, <2>3, BatchKept, ItemKept DEF Track, roundVars, PollerKnows
<1>8. (\A e \in Docs : DocTask(e))'
  BY <1>1, <1>2, <1>3, <1>4 DEF Track, FirstStatus, jobVars, recordVars, roundVars, DocTask
<1>9. PollTask'
  BY <1>1, <1>2, <1>3, <1>4
  DEF Track, FirstStatus, jobVars, recordVars, roundVars, PollTask, StateOf, JobOf
<1>10. NoFalseCompletion'
  BY <1>1, <1>2, <1>3, <1>4
  DEF Track, FirstStatus, jobVars, recordVars, roundVars, NoFalseCompletion, StateOf
<1>11. Followed'
  BY <1>1, <1>4
  DEF Track, FirstStatus, jobVars, recordVars, Followed, StateOf, RecordsNamed, JobOf, FirstPass,
      Untracked
<1> QED  BY <1>5, <1>6, <1>7, <1>8, <1>9, <1>10, <1>11

\* The second pass takes a number that nobody knows.
LEMMA ContinueKeeps ==
    ASSUME OwnNumbers', TypeInv, TypeInv', SafeInv, NEW d \in Docs, Continue(d)
    PROVE  SafeInv'
<1> USE DocsAssumption DEF TypeInv, SafeInv, TypeOK, Updaters
<1>1. \A e \in Docs : /\ Server[e] \in Servers
                      /\ status[e] \in Present => recordId[e] \in Numbers
  BY DEF Filed
<1>2. item # NoItem => item.server \in Servers /\ item.number \in Numbers
  BY DEF Items
<1>3. PICK n \in Numbers : TakesJob(Server[d], n) /\ job2' = [job2 EXCEPT ![d] = n]
                      /\ Begin(d, "continue", job1[d], "pending", n)
  BY DEF Continue
<1>4. /\ \A e \in Docs : ~JobOf(e, n)
      /\ \A t \in Servers, m \in Numbers :
            /\ cups[t][m] # "none" => cups'[t][m] # "none"
            /\ cups[t][m] = "completed" => cups'[t][m] = "completed"
  <2>1. job2[d] = 0 /\ n # 0
    BY NumbersBounded DEF Continue, RecordsNamed
  <2>2. JobOf(d, n)' /\ \A e \in Docs : JobOf(e, n) => JobOf(e, n)'
    BY <1>3, <2>1 DEF Continue, JobOf
  <2>3. TypeOK /\ JobsDiffer
    OBVIOUS
  <2> HIDE DEF TypeOK, TypeInv, SafeInv
  <2> QED  BY <1>3, <2>2, <2>3, NumberIsFree
<1>5. cups'[Server[d]][n] = "active"
  BY <1>1, <1>3 DEF TakesJob
<1>6. /\ job1[d] \in Numbers /\ job1[d] # 0 /\ job2[d] = 0 /\ n # 0 /\ d \in Manual
      /\ hook[d] = "open" /\ hook' = [hook EXCEPT ![d] = "closed"]
  BY NumbersBounded DEF Continue, RecordsNamed, Filed
<1>7. /\ OnlyMoves(d) /\ task'[d].step = "find" /\ task'[d].kind = "continue"
      /\ task'[d].look = job1[d] /\ task'[d].status = "pending" /\ task'[d].number = n
  BY <1>3, <1>6, BeginMoves, NumbersBounded DEF Kinds, Statuses, Present, Open
<1>8. Onward
  BY <1>3, <1>4, <1>6, <1>7 DEF Continue, recordVars, OnlyMoves, Onward, JobOf
<1>9. JobsDiffer'
  <2>1. \A e \in Docs, m \in Numbers : JobOf(e, m)' => JobOf(e, m) \/ (e = d /\ m = n)
    BY <1>3, <1>6 DEF Continue, JobOf
  <2> QED  BY <1>1, <1>3, <1>4, <1>5, <1>6, <2>1 DEF Continue, JobsDiffer, OwnNumbers, JobOf
<1>10. RecordsNamed'
  BY <1>3, <1>4, <1>6 DEF Continue, recordVars, RecordsNamed, JobOf, FirstPass
<1>11. PollerKnows'
  BY <1>8, PollerKnowsKept DEF Continue, roundVars
<1>12. (\A e \in Docs : DocTask(e))'
  BY <1>3, <1>6, <1>7 DEF Continue, recordVars, DocTask, OnlyMoves
<1>13. PollTask'
  <2>1. task'[Poller] = task[Poller]
    BY <1>7 DEF OnlyMoves, Poller
  <2> QED  BY <1>1, <1>2, <1>3, <1>4, <1>6, <2>1
           DEF Continue, recordVars, roundVars, Filed, PollTask, StateOf, JobOf, Present, Open
<1>14. NoFalseCompletion'
  BY <1>1, <1>3, <1>4, <1>6, NumbersBounded
  DEF Continue, recordVars, NoFalseCompletion, StateOf, Present
<1>15. Followed'
  BY <1>1, <1>4, <1>6, <1>7 DEF Continue, recordVars, OnlyMoves, Followed, StateOf, Present, Open
<1> QED  BY <1>9, <1>10, <1>11, <1>12, <1>13, <1>14, <1>15

\* A cancel over HTTP lets go of the first pass.
LEMMA WebCancelKeeps ==
    ASSUME OwnNumbers', TypeInv, TypeInv', SafeInv, NEW d \in Docs, WebCancel(d)
    PROVE  SafeInv'
<1> USE DocsAssumption DEF TypeInv, SafeInv, TypeOK, Updaters
<1>1. \A e \in Docs : /\ Server[e] \in Servers
                      /\ status[e] \in Present => recordId[e] \in Numbers
  BY DEF Filed
<1>2. item # NoItem => item.server \in Servers /\ item.number \in Numbers
  BY DEF Items
<1>3. /\ job1[d] \in Numbers /\ job1[d] # 0 /\ job2[d] = 0 /\ d \in Manual
      /\ hook[d] = "open" /\ hook' = [hook EXCEPT ![d] = "closed"]
  BY NumbersBounded DEF WebCancel, RecordsNamed, Filed
<1>4. /\ OnlyMoves(d) /\ task'[d].step = "find" /\ task'[d].kind = "webCancel"
      /\ task'[d].look = job1[d] /\ task'[d].status = "cancelled"
  BY <1>3, BeginMoves, NumbersBounded DEF WebCancel, Kinds, Statuses, Present, Open
<1>5. Onward
  BY <1>4 DEF WebCancel, jobVars, recordVars, OnlyMoves, Onward, JobOf
<1>6. JobsDiffer'
  BY DEF WebCancel, jobVars, JobsDiffer, OwnNumbers, JobOf
<1>7. RecordsNamed'
  BY <1>3 DEF WebCancel, jobVars, recordVars, RecordsNamed, JobOf, FirstPass
<1>8. PollerKnows'
  BY <1>5, PollerKnowsKept DEF WebCancel, roundVars
<1>9. (\A e \in Docs : DocTask(e))'
  BY <1>3, <1>4 DEF WebCancel, jobVars, recordVars, DocTask, OnlyMoves
<1>10. PollTask'
  <2>1. task'[Poller] = task[Poller]
    BY <1>4 DEF OnlyMoves, Poller
  <2> QED  BY <2>1 DEF WebCancel, jobVars, recordVars, roundVars, PollTask, StateOf, JobOf
<1>11. NoFalseCompletion'
  BY DEF WebCancel, jobVars, recordVars, NoFalseCompletion, StateOf
<1>12. Followed'
  <2>1. ASSUME NEW e \in Docs, e # d, status[e] \in Open
        PROVE  recordId[e] # job1[d] /\ (status[e] = "manual" => job1[e] # job1[d])
    BY <1>1, <1>3, <2>1 DEF RecordsNamed, JobsDiffer, OwnNumbers, JobOf, FirstPass, Present, Open
  <2>2. status[d] = "pending" => recordId[d] # job1[d]
    BY <1>3 DEF RecordsNamed, FirstPass
  <2> QED  BY <1>1, <1>3, <1>4, <2>1, <2>2
           DEF WebCancel, jobVars, recordVars, OnlyMoves, Followed, StateOf, Present, Open
<1> QED  BY <1>6, <1>7, <1>8, <1>9, <1>10, <1>11, <1>12

\* A cancel by the bot begins an update.
LEMMA BotCancelKeeps ==
    ASSUME OwnNumbers', TypeInv, TypeInv', SafeInv, NEW d \in Docs, BotCancel(d)
    PROVE  SafeInv'
<1> USE DocsAssumption DEF TypeInv, SafeInv, TypeOK, Updaters
<1>1. \A e \in Docs : /\ Server[e] \in Servers
                      /\ status[e] \in Present => recordId[e] \in Numbers
  BY DEF Filed
<1>2. item # NoItem => item.server \in Servers /\ item.number \in Numbers
  BY DEF Items
<1>3. /\ job1[d] \in Numbers /\ job1[d] # 0 /\ job2[d] = 0 /\ d \in Manual
      /\ hook[d] = "open" /\ hook' = [hook EXCEPT ![d] = "closed"]
  BY NumbersBounded DEF BotCancel, RecordsNamed, Filed
<1>4. /\ OnlyMoves(d) /\ task'[d].step = "find" /\ task'[d].kind = "botCancel"
      /\ task'[d].look = job1[d] /\ task'[d].status = "cancelled"
  BY <1>3, BeginMoves, NumbersBounded DEF BotCancel, Kinds, Statuses, Present, Open
<1>5. Onward
  BY <1>4 DEF BotCancel, jobVars, recordVars, OnlyMoves, Onward, JobOf
<1>6. JobsDiffer'
  BY DEF BotCancel, jobVars, JobsDiffer, OwnNumbers, JobOf
<1>7. RecordsNamed'
  BY <1>3 DEF BotCancel, jobVars, recordVars, RecordsNamed, JobOf, FirstPass
<1>8. PollerKnows'
  BY <1>5, PollerKnowsKept DEF BotCancel, roundVars
<1>9. (\A e \in Docs : DocTask(e))'
  BY <1>3, <1>4 DEF BotCancel, jobVars, recordVars, DocTask, OnlyMoves
<1>10. PollTask'
  <2>1. task'[Poller] = task[Poller]
    BY <1>4 DEF OnlyMoves, Poller
  <2> QED  BY <2>1 DEF BotCancel, jobVars, recordVars, roundVars, PollTask, StateOf, JobOf
<1>11. NoFalseCompletion'
  BY DEF BotCancel, jobVars, recordVars, NoFalseCompletion, StateOf
<1>12. Followed'
  BY <1>1, <1>3, <1>4 DEF BotCancel, jobVars, recordVars, OnlyMoves, Followed, StateOf
<1> QED  BY <1>6, <1>7, <1>8, <1>9, <1>10, <1>11, <1>12

\* The poller is told of the second pass.
LEMMA TrackSecondKeeps ==
    ASSUME OwnNumbers', TypeInv, TypeInv', SafeInv, NEW d \in Docs, TrackSecond(d)
    PROVE  SafeInv'
<1> USE DocsAssumption DEF TypeInv, SafeInv, TypeOK, Updaters
<1>1. \A e \in Docs : /\ Server[e] \in Servers
                      /\ status[e] \in Present => recordId[e] \in Numbers
  BY DEF Filed
<1>2. item # NoItem => item.server \in Servers /\ item.number \in Numbers
  BY DEF Items
<1>3. /\ task[d].kind = "continue" /\ job2[d] # 0 /\ job2[d] \in Numbers
      /\ hook[d] = "closed" /\ d \in Manual /\ job1[d] # job2[d]
  BY DocsAssumption DEF TrackSecond, DocTask, RecordsNamed, JobsDiffer, OwnNumbers, Numbers
<1>4. OnlyMoves(d) /\ task'[d].step = "idle" /\ task'[d].kind = "none"
  BY RestMoves DEF TrackSecond
<1>5. Onward
  BY <1>4 DEF TrackSecond, jobVars, recordVars, OnlyMoves, Onward, JobOf
<1>6. JobsDiffer'
  BY <1>1, <1>2, <1>3, <1>4, <1>5
  DEF TrackSecond, jobVars, recordVars, roundVars, JobsDiffer, OwnNumbers, JobOf
<1>7. RecordsNamed'
  BY <1>1, <1>2, <1>3, <1>4, <1>5
  DEF TrackSecond, jobVars, recordVars, roundVars, RecordsNamed, JobOf, FirstPass
<1>8. PollerKnows'
  <2>1. ASSUME NEW n \in Numbers, n # job2[d], (tracked[n] # Untracked)'
        PROVE  Right(n, tracked[n].server, tracked[n].status)'
    <3>1. PICK s, st : s = tracked[n].server /\ st = tracked[n].status
      OBVIOUS
    <3>2. tracked'[n] = tracked[n] /\ Right(n, s, st)
      BY <2>1, <3>1 DEF TrackSecond, PollerKnows, TrackedRight
    <3> QED  BY <1>5, <3>1, <3>2, RightKept
  <2>2. Right(job2[d], tracked[job2[d]].server, tracked[job2[d]].status)'
    BY <1>3, <1>4 DEF TrackSecond, jobVars, Right, JobOf, FirstPass
  <2>3. TrackedRight'
    BY <2>1, <2>2 DEF TrackSecond, jobVars, TrackedRight
  <2> QED  BY <1>5, <2>3, BatchKept, ItemKept DEF TrackSecond, roundVars, PollerKnows
<1>9. (\A e \in Docs : DocTask(e))'
  BY <1>3, <1>4 DEF TrackSecond, jobVars, recordVars, DocTask, OnlyMoves
<1>10. PollTask'
  <2>1. task'[Poller] = task[Poller]
    BY <1>4 DEF OnlyMoves, Poller
  <2> QED  BY <2>1 DEF TrackSecond, jobVars, recordVars, roundVars, PollTask, StateOf, JobOf
<1>11. NoFalseCompletion'
  BY <1>1, <1>2, <1>3, <1>4, <1>5
  DEF TrackSecond, jobVars, recordVars, roundVars, NoFalseCompletion, StateOf
<1>12. Followed'
  BY <1>1, <1>3, <1>4
  DEF TrackSecond, jobVars, recordVars, OnlyMoves, Followed, StateOf, RecordsNamed, JobOf,
      FirstPass, Untracked
<1> QED  BY <1>6, <1>7, <1>8, <1>9, <1>10, <1>11, <1>12

\* The poller lets go of a first pass that was cancelled.
LEMMA UntrackCancelledKeeps ==
    ASSUME OwnNumbers', TypeInv, TypeInv', SafeInv, NEW d \in Docs, UntrackCancelled(d)
    PROVE  SafeInv'
<1> USE DocsAssumption DEF TypeInv, SafeInv, TypeOK, Updaters
<1>1. \A e \in Docs : /\ Server[e] \in Servers
                      /\ status[e] \in Present => recordId[e] \in Numbers
  BY DEF Filed
<1>2. item # NoItem => item.server \in Servers /\ item.number \in Numbers
  BY DEF Items
<1>3. /\ hook[d] = "closed" /\ d \in Manual
  BY DocsAssumption DEF UntrackCancelled, DocTask, RecordsNamed
<1>4. OnlyMoves(d) /\ task'[d].step = "idle" /\ task'[d].kind = "none"
  BY RestMoves DEF UntrackCancelled
<1>5. Onward
  BY <1>4 DEF UntrackCancelled, jobVars, recordVars, OnlyMoves, Onward, JobOf
<1>6. JobsDiffer'
  BY <1>1, <1>2, <1>3, <1>4, <1>5
  DEF UntrackCancelled, jobVars, recordVars, roundVars, JobsDiffer, OwnNumbers, JobOf
<1>7. RecordsNamed'
  BY <1>1, <1>2, <1>3, <1>4, <1>5
  DEF UntrackCancelled, jobVars, recordVars, roundVars, RecordsNamed, JobOf, FirstPass
<1>8. PollerKnows'
  BY <1>5, PollerKnowsKept DEF UntrackCancelled, roundVars
<1>9. (\A e \in Docs : DocTask(e))'
  BY <1>3, <1>4 DEF UntrackCancelled, jobVars, recordVars, DocTask, OnlyMoves
<1>10. PollTask'
  <2>1. task'[Poller] = task[Poller]
    BY <1>4 DEF OnlyMoves, Poller
  <2> QED  BY <2>1 DEF UntrackCancelled, jobVars, recordVars, roundVars, PollTask, StateOf, JobOf
<1>11. NoFalseCompletion'
  BY <1>1, <1>2, <1>3, <1>4, <1>5
  DEF UntrackCancelled, jobVars, recordVars, roundVars, NoFalseCompletion, StateOf
<1>12. Followed'
  <2>1. job2[d] = 0 /\ job1[d] # 0 /\ status[d] # "pending"
    <3>1. task[d].kind = "botCancel"
      BY DEF UntrackCancelled, DocTask
    <3> QED  BY <3>1, CancelNotPending
  <2>2. ASSUME NEW e \in Docs, e # d, status[e] \in Open
        PROVE  recordId[e] # job1[d] /\ (status[e] = "manual" => job1[e] # job1[d])
    BY <1>1, <1>3, <2>1, <2>2
    DEF RecordsNamed, JobsDiffer, OwnNumbers, JobOf, FirstPass, Present, Open
  <2> QED  BY <1>1, <1>3, <1>4, <2>1, <2>2
           DEF UntrackCancelled, jobVars, recordVars, OnlyMoves, Followed, StateOf, Present, Open
<1> QED  BY <1>6, <1>7, <1>8, <1>9, <1>10, <1>11, <1>12

\* The poller lets go of a job whose record is written, or whose first pass is over.
LEMMA UntrackKeeps ==
    ASSUME OwnNumbers', TypeInv, TypeInv', SafeInv, Untrack
    PROVE  SafeInv'
<1> USE DocsAssumption DEF TypeInv, SafeInv, TypeOK, Updaters
<1>1. \A e \in Docs : /\ Server[e] \in Servers
                      /\ status[e] \in Present => recordId[e] \in Numbers
  BY DEF Filed
<1>2. item # NoItem => item.server \in Servers /\ item.number \in Numbers
  BY DEF Items
<1>3. OnlyMoves(Poller) /\ task'[Poller].step = "idle" /\ task'[Poller].kind = "none"
  BY RestMoves DEF Untrack
<1>4. \A e \in Docs : task'[e] = task[e]
  BY <1>3, DocsAssumption DEF OnlyMoves, Poller
<1>5. Onward
  BY <1>4 DEF Untrack, jobVars, recordVars, Onward, JobOf
<1>6. JobsDiffer'
  BY <1>1, <1>2, <1>3, <1>4, <1>5 DEF Untrack, jobVars, recordVars, JobsDiffer, OwnNumbers, JobOf
<1>7. RecordsNamed'
  BY <1>1, <1>2, <1>3, <1>4, <1>5 DEF Untrack, jobVars, recordVars, RecordsNamed, JobOf, FirstPass
<1>8. PollerKnows'
  BY <1>5, PollerKnowsKept DEF Untrack
<1>9. (\A e \in Docs : DocTask(e))'
  BY <1>4 DEF Untrack, jobVars, recordVars, DocTask
<1>10. PollTask'
  BY <1>3 DEF Untrack, PollTask
<1>11. NoFalseCompletion'
  BY <1>1, <1>2, <1>3, <1>4, <1>5 DEF Untrack, jobVars, recordVars, NoFalseCompletion, StateOf
<1>12. Followed'
  <2>1. \A e \in Docs : recordId[e] = item.number =>
           status[e] # "pending" /\ (status[e] = "manual" => StateOf(e) = "completed")
    BY DEF Untrack, PollTask
  <2>2. \A e \in Docs : status[e] = "manual" => recordId[e] = job1[e]
    BY DEF RecordsNamed, FirstPass
  <2> QED  BY <1>1, <1>4, <2>1, <2>2
           DEF Untrack, jobVars, recordVars, Followed, StateOf, Present, Open
<1> QED  BY <1>6, <1>7, <1>8, <1>9, <1>10, <1>11, <1>12

\* The poller looks at a job and writes what it saw, or lets go of a first pass.
LEMMA PollTakesKeeps ==
    ASSUME OwnNumbers', TypeInv, TypeInv', SafeInv, NEW i \in batch, PollTakes(i)
    PROVE  SafeInv'
<1> USE DocsAssumption DEF TypeInv, SafeInv, TypeOK, Updaters
<1>1. \A d \in Docs : /\ Server[d] \in Servers
                      /\ status[d] \in Present => recordId[d] \in Numbers
  BY DEF Filed
<1>2. /\ i \in Items /\ i.number \in Numbers /\ i.number \in 0 .. MaxJobs /\ i.server \in Servers
      /\ Right(i.number, i.server, i.status)
  BY NumbersBounded DEF Items, PollerKnows, BatchRight
<1>3. item' = i /\ i # NoItem /\ ~i.sweep /\ task[Poller].step = "idle"
  BY <1>2 DEF PollTakes, Takes, NoItem, Numbers
<1>4. \/ UNCHANGED task
      \/ /\ OnlyMoves(Poller) /\ task'[Poller].step = "untrack" /\ task'[Poller].kind = "none"
         /\ cups[i.server][i.number] = "completed" /\ i.status = "manual"
      \/ /\ OnlyMoves(Poller) /\ task'[Poller].step = "find" /\ task'[Poller].kind = "poll"
         /\ task'[Poller].look = i.number /\ task'[Poller].status \notin Open
         /\ task'[Poller].status = "completed" =>
               cups[i.server][i.number] = "completed" /\ i.status = "pending"
  <2>1. ASSUME task' = [task EXCEPT ![Poller] = [Rest EXCEPT !.step = "untrack"]]
        PROVE  OnlyMoves(Poller) /\ task'[Poller].step = "untrack" /\ task'[Poller].kind = "none"
    <3>1. [Rest EXCEPT !.step = "untrack"] \in Updates
      BY RestTyped DEF Updates, Steps
    <3>2. /\ [Rest EXCEPT !.step = "untrack"].step = "untrack"
          /\ [Rest EXCEPT !.step = "untrack"].kind = "none"
      BY RestTyped DEF Updates
    <3> QED  BY <2>1, <3>1, <3>2 DEF OnlyMoves
  <2>2. ASSUME NEW st \in {"stopped", "completed", "failed"},
               Begin(Poller, "poll", i.number, st, i.number)
        PROVE  /\ OnlyMoves(Poller) /\ task'[Poller].step = "find" /\ task'[Poller].kind = "poll"
               /\ task'[Poller].look = i.number /\ task'[Poller].status = st
    <3>1. "poll" \in Kinds /\ st \in Statuses
      BY DEF Kinds, Statuses, Present
    <3> QED  BY <1>2, <2>2, <3>1, BeginMoves
  <2>3. i.status \in Open
    BY <1>2 DEF Items
  <2> QED  BY <2>1, <2>2, <2>3 DEF PollTakes, Open
<1>5. \A e \in Docs : task'[e] = task[e]
  BY <1>4, DocsAssumption DEF OnlyMoves, Poller
<1>6. Onward
  BY <1>5 DEF PollTakes, Takes, jobVars, recordVars, Onward, JobOf
<1>7. JobsDiffer'
  BY <1>1, <1>2, <1>3, <1>4, <1>5, <1>6
  DEF PollTakes, Takes, jobVars, recordVars, JobsDiffer, OwnNumbers, JobOf
<1>8. RecordsNamed'
  BY <1>1, <1>2, <1>3, <1>4, <1>5, <1>6
  DEF PollTakes, Takes, jobVars, recordVars, RecordsNamed, JobOf, FirstPass
<1>9. PollerKnows'
  <2>1. Right(i.number, i.server, i.status)'
    BY <1>2, <1>6, RightKept
  <2>2. ItemRight'
    BY <1>3, <2>1 DEF ItemRight
  <2>3. batch' \subseteq batch /\ UNCHANGED tracked
    BY DEF PollTakes, Takes
  <2> QED  BY <1>6, <2>2, <2>3, BatchKept, TrackedKept DEF PollerKnows
<1>10. (\A e \in Docs : DocTask(e))'
  BY <1>5 DEF PollTakes, Takes, jobVars, recordVars, DocTask
<1>11. PollTask'
  <2>1. UNCHANGED <<cups, job1, job2, status, recordId>>
    BY DEF PollTakes, Takes, jobVars, recordVars
  <2>2. ASSUME i.status = "manual", cups[i.server][i.number] = "completed",
               NEW e \in Docs, recordId[e] = i.number
        PROVE  status[e] # "pending" /\ (status[e] = "manual" => StateOf(e) = "completed")
    BY <1>2, <2>2 DEF Right, RecordsNamed, JobsDiffer, OwnNumbers, JobOf, FirstPass, StateOf
  <2> QED  BY <1>3, <1>4, <2>1, <2>2 DEF PollTask, StateOf
<1>12. NoFalseCompletion'
  BY <1>1, <1>2, <1>3, <1>4, <1>5, <1>6
  DEF PollTakes, Takes, jobVars, recordVars, NoFalseCompletion, StateOf
<1>13. Followed'
  BY <1>5 DEF PollTakes, Takes, jobVars, recordVars, Followed, StateOf
<1> QED  BY <1>7, <1>8, <1>9, <1>10, <1>11, <1>12, <1>13

\* The sweep takes up a record that has been open too long.
LEMMA SweepTakesKeeps ==
    ASSUME OwnNumbers', TypeInv, TypeInv', SafeInv, NEW i \in batch, SweepTakes(i)
    PROVE  SafeInv'
<1> USE DocsAssumption DEF TypeInv, SafeInv, TypeOK, Updaters
<1>1. \A d \in Docs : /\ Server[d] \in Servers
                      /\ status[d] \in Present => recordId[d] \in Numbers
  BY DEF Filed
<1>2. /\ i \in Items /\ i.number \in Numbers /\ i.number \in 0 .. MaxJobs
      /\ Right(i.number, i.server, i.status)
  BY NumbersBounded DEF Items, PollerKnows, BatchRight
<1>3. item' = i /\ i # NoItem /\ i.sweep
  BY <1>2 DEF SweepTakes, Takes, NoItem, Numbers
<1>4. /\ OnlyMoves(Poller) /\ task'[Poller].step = "find" /\ task'[Poller].kind = "poll"
      /\ task'[Poller].look = i.number /\ task'[Poller].status = "completed"
  <2>1. "poll" \in Kinds /\ "completed" \in Statuses
    BY DEF Kinds, Statuses, Present
  <2> QED  BY <1>2, <2>1, BeginMoves DEF SweepTakes
<1>5. \A e \in Docs : task'[e] = task[e]
  BY <1>4, DocsAssumption DEF OnlyMoves, Poller
<1>6. Onward
  BY <1>5 DEF SweepTakes, Takes, jobVars, recordVars, Onward, JobOf
<1>7. JobsDiffer'
  BY <1>1, <1>2, <1>3, <1>4, <1>5, <1>6
  DEF SweepTakes, Takes, jobVars, recordVars, JobsDiffer, OwnNumbers, JobOf
<1>8. RecordsNamed'
  BY <1>1, <1>2, <1>3, <1>4, <1>5, <1>6
  DEF SweepTakes, Takes, jobVars, recordVars, RecordsNamed, JobOf, FirstPass
<1>9. PollerKnows'
  <2>1. Right(i.number, i.server, i.status)'
    BY <1>2, <1>6, RightKept
  <2>2. ItemRight'
    BY <1>3, <2>1 DEF ItemRight
  <2>3. batch' \subseteq batch /\ UNCHANGED tracked
    BY DEF SweepTakes, Takes
  <2> QED  BY <1>6, <2>2, <2>3, BatchKept, TrackedKept DEF PollerKnows
<1>10. (\A e \in Docs : DocTask(e))'
  BY <1>5 DEF SweepTakes, Takes, jobVars, recordVars, DocTask
<1>11. PollTask'
  BY <1>3, <1>4 DEF PollTask, Open
<1>12. NoFalseCompletion'
  BY <1>1, <1>2, <1>3, <1>4, <1>5, <1>6
  DEF SweepTakes, Takes, jobVars, recordVars, NoFalseCompletion, StateOf
<1>13. Followed'
  BY <1>5 DEF SweepTakes, Takes, jobVars, recordVars, Followed, StateOf
<1> QED  BY <1>7, <1>8, <1>9, <1>10, <1>11, <1>12, <1>13

\* An update looks its record up.
LEMMA FindKeeps ==
    ASSUME OwnNumbers', TypeInv, TypeInv', SafeInv, NEW u \in Updaters, Find(u)
    PROVE  SafeInv'
<1> USE DocsAssumption DEF TypeInv, SafeInv, TypeOK, Updaters
<1>1. \A e \in Docs : /\ Server[e] \in Servers
                      /\ status[e] \in Present => recordId[e] \in Numbers
  BY DEF Filed
<1>2. item # NoItem => item.server \in Servers /\ item.number \in Numbers
  BY DEF Items
<1>3. /\ OnlyMoves(u) /\ SameUpdate(u) /\ task[u].step = "find"
      /\ \/ \E d \in Docs : /\ Matches(d, task[u].look)
                            /\ task'[u].step = "write" /\ task'[u].found = d
         \/ task'[u].step = "find" \/ task'[u].step = NextStep(u, FALSE)
  <2>1. ASSUME NEW d \in Docs, Matches(d, task[u].look),
               task' = [task EXCEPT ![u].step = "write", ![u].found = d]
        PROVE  /\ OnlyMoves(u) /\ SameUpdate(u)
               /\ task'[u].step = "write" /\ task'[u].found = d
    <3>1. TypeOK /\ u \in Updaters
      OBVIOUS
    <3> HIDE DEF TypeOK, TypeInv, SafeInv, Updaters
    <3> QED  BY <2>1, <3>1, FoundMoves
  <2>2. CASE TryAgain(u)
    BY <2>2, TryAgainMoves DEF Find
  <2> QED  BY <2>1, <2>2 DEF Find
<1>4. UNCHANGED <<byBot, cups, job1, job2, printing, hook, status, recordId, old, swept, tracked,
                    batch, item, excused>>
  BY DEF Find, jobVars, recordVars, roundVars
<1>5. \A e \in Docs : task'[e].kind = task[e].kind
  BY <1>3 DEF OnlyMoves, SameUpdate
<1>6. Onward
  BY <1>4, <1>5 DEF Onward, JobOf
<1>7. u \in Docs => u # Poller /\ task'[Poller] = task[Poller]
  BY <1>3, DocsAssumption DEF OnlyMoves, Poller
<1>8. ASSUME u \in Docs
      PROVE  /\ task[u].kind \in {"continue", "webCancel", "botCancel"}
             /\ task[u].look = job1[u] /\ job1[u] # 0
  <2>1. task[u].kind # "none" /\ task[u].kind # "poll" /\ task[u].kind \in Kinds
    BY <1>3, <1>8 DEF DocTask, Updates
  <2>2. task[u].look = job1[u] /\ hook[u] = "closed"
    BY <1>3, <1>8, <2>1 DEF DocTask
  <2> QED  BY <1>8, <2>1, <2>2, NumbersBounded DEF Filed, Kinds
<1>9. JobsDiffer'
  BY <1>4 DEF JobsDiffer, OwnNumbers, JobOf
<1>10. RecordsNamed'
  BY <1>4 DEF RecordsNamed, JobOf, FirstPass
<1>11. PollerKnows'
  BY <1>4, <1>6, PollerKnowsKept
<1>12. (\A e \in Docs : DocTask(e))'
  <2>1. ASSUME NEW e \in Docs, u # e PROVE DocTask(e)'
    BY <1>3, <1>4, <2>1 DEF DocTask, OnlyMoves
  <2>2. ASSUME u \in Docs PROVE DocTask(u)'
    <3>1. ASSUME NEW d \in Docs, Matches(d, task[u].look)
          PROVE  d = u /\ recordId[u] = job1[u] /\ status[u] # "absent"
      BY <1>8, <2>2, <3>1
      DEF Matches, Present, Open, RecordsNamed, JobsDiffer, OwnNumbers, JobOf, Filed, Numbers
    <3>2. DocTask(u)
      BY <2>2
    <3> QED  BY <1>3, <1>4, <1>8, <2>2, <3>1, <3>2 DEF DocTask, SameUpdate, NextStep
  <2> QED  BY <2>1, <2>2
<1>13. PollTask'
  <2>1. ASSUME u \in Docs PROVE PollTask'
    BY <1>4, <1>7, <2>1 DEF PollTask, StateOf, JobOf
  <2>2. ASSUME u = Poller PROVE PollTask'
    <3>1. ASSUME NEW d \in Docs, Matches(d, task[u].look)
          PROVE  status[d] # "absent" /\ JobOf(d, task[u].look) /\ recordId[d] = task[u].look
      BY <3>1 DEF Matches, Present, Open, RecordsNamed
    <3>2. task[u].kind = "poll" /\ task[u].look = item.number
      BY <1>3, <2>2 DEF PollTask
    <3> QED  BY <1>3, <1>4, <2>2, <3>1, <3>2 DEF PollTask, SameUpdate, NextStep, StateOf, JobOf
  <2> QED  BY <2>1, <2>2
<1>14. NoFalseCompletion'
  BY <1>4 DEF NoFalseCompletion, StateOf
<1>15. Followed'
  <2>1. ASSUME NEW e \in Docs, task'[e].step = "idle", status[e] = "pending"
        PROVE  task[e].step = "idle"
    <3>1. CASE u # e
      BY <1>3, <2>1, <3>1 DEF OnlyMoves
    <3>2. CASE u = e
      BY <1>3, <1>8, <2>1, <3>2, CancelNotPending DEF NextStep
    <3> QED  BY <3>1, <3>2
  <2> QED  BY <1>4, <2>1 DEF Followed, StateOf
<1> QED  BY <1>9, <1>10, <1>11, <1>12, <1>13, <1>14, <1>15

\* An update writes its record, or fails to.
LEMMA WriteKeeps ==
    ASSUME OwnNumbers', TypeInv, TypeInv', SafeInv, NEW u \in Updaters, Write(u)
    PROVE  SafeInv'
<1> USE DocsAssumption DEF TypeInv, SafeInv, TypeOK, Updaters
<1>1. \A e \in Docs : /\ Server[e] \in Servers
                      /\ status[e] \in Present => recordId[e] \in Numbers
  BY DEF Filed
<1>2. item # NoItem => item.server \in Servers /\ item.number \in Numbers
  BY DEF Items
<1>3. PICK d \in Docs : /\ d = task[u].found /\ task[u].step = "write"
  BY DEF Write, Filed
<1>4. /\ OnlyMoves(u) /\ SameUpdate(u)
      /\ \/ status[d] \in Present /\ Written(u) /\ task'[u].step = NextStep(u, TRUE)
         \/ /\ (status[d] \in Present /\ Written(u)) \/ UNCHANGED <<status, recordId, swept>>
            /\ task'[u].step = "find" \/ task'[u].step = NextStep(u, FALSE)
  <2>1. ASSUME NEW ok \in BOOLEAN, Ends(u, ok)
        PROVE  OnlyMoves(u) /\ SameUpdate(u) /\ task'[u].step = NextStep(u, ok)
    BY <2>1, EndsMoves
  <2>2. ASSUME TryAgain(u)
        PROVE  /\ OnlyMoves(u) /\ SameUpdate(u)
               /\ task'[u].step = "find" \/ task'[u].step = NextStep(u, FALSE)
    BY <2>2, TryAgainMoves
  <2> QED  BY <1>3, <2>1, <2>2 DEF Write
<1>5. UNCHANGED <<byBot, cups, job1, job2, printing, hook, old, tracked, batch, item, excused>>
  BY DEF Write, jobVars, roundVars
<1>6. \A e \in Docs : task'[e].kind = task[e].kind
  BY <1>4 DEF OnlyMoves, SameUpdate
<1>7. u \in Docs => u # Poller /\ task'[Poller] = task[Poller]
  BY <1>4, DocsAssumption DEF OnlyMoves, Poller
<1>8. ASSUME u \in Docs
      PROVE  /\ d = u /\ task[u].kind \in {"continue", "webCancel", "botCancel"}
             /\ task[u].kind = "continue" =>
                   /\ task[u].status = "pending" /\ task[u].number = job2[u] /\ job2[u] # 0
                   /\ recordId[u] = job1[u] /\ job1[u] # job2[u] /\ u \in Manual
             /\ task[u].kind # "continue" => task[u].status = "cancelled"
  <2>1. DocTask(u) /\ task[u].kind \in Kinds
    BY <1>8 DEF Updates
  <2>2. /\ d = u /\ task[u].kind \in {"continue", "webCancel", "botCancel"}
        /\ hook[u] = "closed"
    BY <1>3, <2>1 DEF DocTask, Kinds
  <2>3. job1[u] # 0 /\ job1[u] # job2[u] /\ u \in Manual
    BY <1>8, <2>2, NumbersBounded DEF Filed, JobsDiffer, OwnNumbers, RecordsNamed
  <2> QED  BY <1>3, <2>1, <2>2, <2>3 DEF DocTask
<1>9. u = Poller => /\ task[u].kind = "poll" /\ task[u].status \notin Open
                     /\ task[u].status \in Present /\ JobOf(d, item.number)
                     /\ item # NoItem
  BY <1>3 DEF PollTask, Filed
<1>10. \A e \in Docs \ {d} :
          status'[e] = status[e] /\ recordId'[e] = recordId[e] /\ (e \in swept' <=> e \in swept)
  BY <1>3, <1>4 DEF Written
<1>11. \/ UNCHANGED <<status, recordId, swept>>
       \/ /\ status[d] \in Present /\ status'[d] = task[u].status
          /\ recordId'[d] = IF task[u].kind = "continue" THEN task[u].number ELSE recordId[d]
          /\ d \in swept' <=> u = Poller /\ item.sweep
  BY <1>3, <1>4 DEF Written
<1>12. Onward
  <2>1. ASSUME NEW e \in Docs, job2[e] # 0, recordId[e] = job2[e]
        PROVE  recordId'[e] = recordId[e]
    BY <1>8, <1>9, <1>10, <1>11, <2>1
  <2> QED  BY <1>5, <1>6, <2>1 DEF Onward, JobOf
<1>13. JobsDiffer'
  BY <1>5 DEF JobsDiffer, OwnNumbers, JobOf
<1>14. RecordsNamed'
  <2>1. status[d] \in Present => printing[d] \notin {"submit", "persist"} /\ JobOf(d, recordId[d])
    BY DEF RecordsNamed, Present, Open
  <2> QED  BY <1>5, <1>8, <1>9, <1>10, <1>11, <2>1
           DEF RecordsNamed, JobOf, FirstPass, Present, Open
<1>15. PollerKnows'
  BY <1>5, <1>12, PollerKnowsKept
<1>16. (\A e \in Docs : DocTask(e))'
  <2>1. \A e \in Docs : status[e] # "absent" => status'[e] # "absent"
    BY <1>8, <1>9, <1>10, <1>11 DEF Present, Open
  <2>2. ASSUME NEW e \in Docs, u # e PROVE DocTask(e)'
    <3>1. recordId'[e] = recordId[e]
      BY <1>8, <1>9, <1>10, <1>11, <2>2
    <3> QED  BY <1>4, <1>5, <2>1, <2>2, <3>1 DEF DocTask, OnlyMoves
  <2>3. ASSUME u \in Docs PROVE DocTask(u)'
    <3>1. DocTask(u)
      BY <2>3
    <3> QED  BY <1>3, <1>4, <1>5, <1>8, <2>3, <3>1 DEF DocTask, SameUpdate, NextStep
  <2> QED  BY <2>2, <2>3
<1>17. PollTask'
  <2>1. ASSUME u \in Docs PROVE PollTask'
    <3>1. /\ task[Poller].step = "write" => task[Poller].found \in Docs
          /\ \A e \in Docs : status[e] # "absent" => status'[e] # "absent"
      BY <1>8, <1>10, <1>11, <2>1 DEF Filed, Present, Open
    <3>2. ASSUME task[u].kind = "continue", item # NoItem
          PROVE  item.number # job2[u]
      BY <1>2, <1>8, <2>1, <3>2 DEF PollerKnows, ItemRight, Right, JobsDiffer, OwnNumbers, JobOf
    <3>3. PollTask /\ UNCHANGED <<cups, job1, job2, item>> /\ task'[Poller] = task[Poller]
      BY <1>5, <1>7, <2>1
    <3> QED  BY <1>8, <1>10, <1>11, <2>1, <3>1, <3>2, <3>3 DEF PollTask, StateOf, JobOf
  <2>2. ASSUME u = Poller PROVE PollTask'
    <3>1. ASSUME task'[u].step = "untrack", NEW e \in Docs, recordId'[e] = item.number
          PROVE  status'[e] \notin Open
      <4>1. status[d] \in Present /\ Written(u)
        BY <1>4, <1>9, <2>2, <3>1 DEF NextStep
      <4>2. status'[d] = task[u].status
        BY <1>3, <4>1 DEF Written
      <4>3. CASE e = d
        BY <1>9, <2>2, <4>2, <4>3
      <4>4. CASE e # d
        <5>1. recordId[e] = item.number /\ item.number # 0
          BY <1>9, <1>10, <2>2, <3>1, <4>4 DEF JobOf
        <5>2. status[e] \in Open => JobOf(e, item.number)
          BY <5>1 DEF RecordsNamed, Open
        <5> QED  BY <1>2, <1>9, <1>10, <2>2, <4>4, <5>2 DEF JobsDiffer, OwnNumbers
      <4> QED  BY <4>3, <4>4
    <3> QED  BY <1>3, <1>4, <1>5, <1>9, <2>2, <3>1 DEF PollTask, SameUpdate, NextStep, Open
  <2> QED  BY <2>1, <2>2
<1>18. NoFalseCompletion'
  <2>1. ASSUME u = Poller, task[u].status = "completed", ~item.sweep
        PROVE  StateOf(d) = "completed" /\ (d \in Manual => recordId[d] = job2[d])
    <3>1. /\ cups[item.server][item.number] = "completed" /\ item.status = "pending"
          /\ item.number = job2[d] => recordId[d] = item.number
          /\ status[d] # "absent"
      BY <1>3, <2>1 DEF PollTask
    <3>2. item.server = Server[d] /\ ~FirstPass(d, item.number)
      BY <1>2, <1>9, <2>1, <3>1 DEF PollerKnows, ItemRight, Right, JobsDiffer, OwnNumbers
    <3>3. recordId[d] = item.number /\ (d \in Manual => recordId[d] = job2[d])
      BY <1>9, <2>1, <3>1, <3>2 DEF RecordsNamed, JobOf, FirstPass
    <3> QED  BY <3>1, <3>2, <3>3 DEF StateOf
  <2> QED  BY <1>5, <1>8, <1>9, <1>10, <1>11, <2>1 DEF NoFalseCompletion, StateOf
<1>19. Followed'
  <2>1. ASSUME NEW e \in Docs, task'[e].step = "idle", status'[e] = "pending"
        PROVE  task[e].step = "idle" /\ status[e] = "pending"
    <3>1. CASE u # e
      BY <1>4, <1>8, <1>9, <1>10, <1>11, <2>1, <3>1 DEF OnlyMoves, Open
    <3>2. CASE u = e
      BY <1>4, <1>8, <1>11, <2>1, <3>2, CancelNotPending DEF NextStep
    <3> QED  BY <3>1, <3>2
  <2>2. ASSUME NEW e \in Docs, e \notin Manual, status'[e] = "pending"
        PROVE  status[e] = "pending" /\ recordId'[e] = recordId[e]
    BY <1>8, <1>9, <1>10, <1>11, <2>2 DEF Open
  <2>3. ASSUME NEW e \in Docs, status'[e] = "manual"
        PROVE  status[e] = "manual" /\ recordId'[e] = recordId[e]
    BY <1>8, <1>9, <1>10, <1>11, <2>3 DEF Open
  <2>4. ASSUME NEW e \in Docs, status'[e] = "pending", task'[e].step = "idle"
        PROVE  recordId'[e] = recordId[e]
    BY <1>4, <1>8, <1>9, <1>10, <1>11, <2>4 DEF NextStep, Open
  <2> QED  BY <1>5, <2>1, <2>2, <2>3, <2>4 DEF Followed, StateOf
<1> QED  BY <1>13, <1>14, <1>15, <1>16, <1>17, <1>18, <1>19

\* After a restart the poller follows the open records it read, or has read none.
LEMMA RestartKeeps ==
    ASSUME OwnNumbers', TypeInv, TypeInv', SafeInv, Restart
    PROVE  SafeInv'
<1> USE DocsAssumption DEF TypeInv, SafeInv, TypeOK, Updaters
<1>1. \A e \in Docs : /\ Server[e] \in Servers
                      /\ status[e] \in Present => recordId[e] \in Numbers
  BY DEF Filed
<1>2. item # NoItem => item.server \in Servers /\ item.number \in Numbers
  BY DEF Items
<1>3. \A e \in Updaters : task'[e].step = "idle" /\ task'[e].kind = "none"
  BY RestTyped DEF Restart
<1>4. \A e \in Docs : /\ printing'[e] = "submit" <=> printing[e] = "submit"
                      /\ printing[e] # "submit" => printing'[e] = "done"
                      /\ hook'[e] # "open"
                      /\ hook'[e] = "none" <=> hook[e] = "none"
                      /\ hook[e] = "closed" => hook'[e] = "closed"
  BY DEF Restart
<1>5. /\ UNCHANGED <<byBot, cups, job1, job2, status, recordId, old, swept>>
      /\ batch' = {} /\ item' = NoItem
  BY DEF Restart, jobVars, recordVars
<1>6. \A n \in Numbers :
          /\ tracked'[n] # Untracked => tracked'[n] \in Restorable(n)
          /\ Restorable(n) # {} /\ tracked'[n] = Untracked =>
                excused' = excused \cup {e \in Docs : status[e] \in Open}
  <2>1. CASE /\ tracked' = [n \in Numbers |-> Untracked]
             /\ excused' = excused \cup {e \in Docs : status[e] \in Open}
    BY <2>1
  <2>2. CASE Restored
    <3>1. ASSUME NEW n \in Numbers
          PROVE  IF Restorable(n) = {} THEN tracked'[n] = Untracked
                 ELSE tracked'[n] \in Restorable(n)
      BY <2>2 DEF Restored
    <3>2. \A n \in Numbers : Untracked \notin Restorable(n)
      BY DEF Restorable, Untracked, Open
    <3> QED  BY <3>1, <3>2
  <2> QED  BY <2>1, <2>2 DEF Restart
<1>7. excused \subseteq excused'
  BY DEF Restart
<1>8. JobsDiffer'
  BY <1>5 DEF JobsDiffer, OwnNumbers, JobOf
<1>9. RecordsNamed'
  <2>1. ASSUME NEW e \in Docs
        PROVE  /\ printing'[e] = "submit" <=> job1[e] = 0
               /\ printing'[e] \in {"submit", "persist"} => status[e] = "absent" /\ recordId[e] = 0
               /\ e \in old => printing'[e] = "done"
               /\ hook'[e] # "none" => e \in Manual
               /\ e \in byBot /\ printing'[e] = "persist" => hook'[e] = "none"
               /\ job2[e] # 0 => hook'[e] = "closed"
    <3>1. printing'[e] # "persist"
      BY <1>4
    <3>2. /\ printing[e] = "submit" <=> job1[e] = 0
          /\ printing[e] = "submit" => status[e] = "absent" /\ recordId[e] = 0
          /\ e \in old => printing[e] = "done"
          /\ hook[e] # "none" => e \in Manual
          /\ job2[e] # 0 => hook[e] = "closed"
      BY DEF RecordsNamed
    <3> QED  BY <1>4, <3>1, <3>2
  <2>2. ASSUME NEW e \in Docs
        PROVE  /\ status[e] # "absent" => JobOf(e, recordId[e])
               /\ status[e] = "manual" => FirstPass(e, recordId[e])
               /\ status[e] = "pending" => ~FirstPass(e, recordId[e])
    BY DEF RecordsNamed
  <2> QED  BY <1>5, <2>1, <2>2 DEF RecordsNamed, JobOf, FirstPass
<1>10. PollerKnows'
  <2>1. ASSUME NEW n \in Numbers, tracked'[n] # Untracked, NEW s, NEW st,
               s = tracked'[n].server, st = tracked'[n].status
        PROVE  Right(n, s, st)'
    <3>0. tracked'[n] \in Restorable(n)
      BY <1>6, <2>1
    <3>1. PICK e \in Docs : /\ status[e] \in Open /\ recordId[e] = n
                            /\ tracked'[n] = [server |-> Server[e], status |-> status[e]]
      BY <3>0 DEF Restorable
    <3>2. tracked'[n].server = Server[e] /\ tracked'[n].status = status[e]
      BY <3>1
    <3>3. JobOf(e, n) /\ (status[e] = "manual" <=> FirstPass(e, n)) /\ printing[e] # "submit"
      BY <3>1 DEF RecordsNamed, Open, FirstPass
    <3>4. printing'[e] = "done" /\ task'[e].kind # "continue"
      BY <1>3, <1>4, <3>3
    <3> QED  BY <1>5, <2>1, <3>2, <3>3, <3>4 DEF Right, JobOf, FirstPass
  <2>2. TrackedRight'
    BY <2>1 DEF TrackedRight
  <2> QED  BY <1>5, <2>2 DEF PollerKnows, TrackedRight, BatchRight, ItemRight
<1>11. (\A e \in Docs : DocTask(e))'
  BY <1>3 DEF DocTask
<1>12. PollTask'
  BY <1>3 DEF PollTask
<1>13. NoFalseCompletion'
  BY <1>5 DEF NoFalseCompletion, StateOf
<1>14. Followed'
  <2>1. ASSUME NEW e \in Docs, e \notin excused', status[e] = "pending"
        PROVE  tracked'[recordId[e]] # Untracked
    <3>1. recordId[e] \in Numbers /\ status[e] \in Open
      BY <1>1, <2>1 DEF Present, Open
    <3>2. [server |-> Server[e], status |-> status[e]] \in Restorable(recordId[e])
      BY <3>1 DEF Restorable
    <3>3. SUFFICES ASSUME tracked'[recordId[e]] = Untracked PROVE FALSE
      OBVIOUS
    <3>4. excused' = excused \cup {d \in Docs : status[d] \in Open}
      BY <1>6, <3>1, <3>2, <3>3
    <3> QED  BY <2>1, <3>1, <3>4
  <2>2. status' = status /\ recordId' = recordId
    BY <1>5
  <2>3. \A e \in Docs : hook'[e] # "open"
    BY <1>4
  <2> QED  BY <2>1, <2>2, <2>3 DEF Followed
<1> QED  BY <1>8, <1>9, <1>10, <1>11, <1>12, <1>13, <1>14

\* At the start nothing is submitted, tracked or written.
LEMMA SafeInit == Init => SafeInv
  BY RestTyped, DocsAssumption
  DEF Init, SafeInv, JobsDiffer, OwnNumbers, RecordsNamed, PollerKnows, TrackedRight,
      BatchRight, ItemRight, DocTask, PollTask, NoFalseCompletion, Followed, JobOf, FirstPass,
      Updaters, Open, Numbers

\* Every step keeps what the safety properties rest on.
LEMMA SafeStep ==
    ASSUME OwnNumbers', TypeInv, TypeInv', SafeInv, [Next]_vars
    PROVE  SafeInv'
<1>1. CASE \E d \in Docs : DocSteps(d)
  BY <1>1, SubmitKeeps, PersistKeeps, TrackKeeps, TrackSecondKeeps, UntrackCancelledKeeps,
     FindKeeps, WriteKeeps DEF DocSteps, Updaters
<1>2. CASE \E d \in Docs : UserSteps(d) \/ Ages(d)
  BY <1>2, ContinueKeeps, WebCancelKeeps, BotCancelKeeps, DeleteKeeps, AgesKeeps DEF UserSteps
<1>3. CASE PollStarts \/ SweepStarts \/ PollerSteps
  BY <1>3, PollStartsKeeps, SweepStartsKeeps, PollTakesKeeps, SweepTakesKeeps, FindKeeps,
     WriteKeeps, UntrackKeeps DEF PollerSteps, Updaters
<1>4. CASE \E s \in Servers, n \in Numbers : JobMoves(s, n) \/ Purge(s, n)
  BY <1>4, JobMovesKeeps, PurgeKeeps
<1>5. CASE Restart
  BY <1>5, RestartKeeps
<1>6. CASE UNCHANGED vars
  BY <1>6
  DEF vars, jobVars, recordVars, roundVars, SafeInv, JobsDiffer, OwnNumbers, RecordsNamed,
      PollerKnows, TrackedRight, BatchRight, ItemRight, Right, DocTask, PollTask, NoFalseCompletion,
      Followed, JobOf, FirstPass, StateOf
<1> QED  BY <1>1, <1>2, <1>3, <1>4, <1>5, <1>6 DEF Next

----------------------------------------------------------------------------
(* Numbers. *)

\* At the start no number is given.
LEMMA NumberedInit == Init => Numbered /\ OwnNumbers
  BY NumbersBounded DEF Init, Numbered, OwnNumbers, JobOf

\* No document loses its numbers, so that a shared number stays shared.
LEMMA NumberedStep ==
    ASSUME TypeInv, Numbered, [Next]_vars
    PROVE  Numbered' /\ \A d \in Docs, n \in Numbers : JobOf(d, n) => JobOf(d, n)'
<1> USE DocsAssumption DEF TypeInv, TypeOK
<1>1. ASSUME NEW d \in Docs, NEW n \in Numbers, TakesJob(Server[d], n)
      PROVE  /\ \A t \in Servers, m \in Numbers : cups[t][m] # "none" => cups'[t][m] # "none"
             /\ cups'[Server[d]][n] # "none" /\ n # 0
  BY <1>1, NumbersBounded DEF TakesJob
<1>2. CASE \E d \in Docs : Submit(d)
  <2>1. PICK d \in Docs, n \in Numbers :
            Submit(d) /\ TakesJob(Server[d], n) /\ job1' = [job1 EXCEPT ![d] = n]
    BY <1>2 DEF Submit
  <2>2. job1[d] = 0 /\ hook[d] = "none"
    BY <2>1 DEF Submit, Numbered, Filed
  <2> QED  BY <1>1, <2>1, <2>2 DEF Submit, Numbered, JobOf
<1>3. CASE \E d \in Docs : Continue(d)
  <2>1. PICK d \in Docs, n \in Numbers :
            Continue(d) /\ TakesJob(Server[d], n) /\ job2' = [job2 EXCEPT ![d] = n]
    BY <1>3 DEF Continue
  <2>2. job2[d] = 0
    BY <2>1 DEF Continue, Numbered
  <2> QED  BY <1>1, <2>1, <2>2 DEF Continue, Numbered, JobOf
<1>4. ASSUME NEW d \in Docs, Persist(d) \/ Track(d) \/ WebCancel(d) \/ BotCancel(d)
      PROVE  Numbered' /\ UNCHANGED <<job1, job2>>
  BY <1>4 DEF Persist, Track, WebCancel, BotCancel, jobVars, Numbered, JobOf
<1>5. ASSUME NEW s \in Servers, NEW n \in Numbers, JobMoves(s, n)
      PROVE  Numbered' /\ UNCHANGED <<job1, job2>>
  <2>1. \A t \in Servers, m \in Numbers : cups[t][m] # "none" => cups'[t][m] # "none"
    BY <1>5 DEF JobMoves
  <2> QED  BY <1>5, <2>1 DEF JobMoves, Numbered, JobOf
<1>6. CASE Restart
  BY <1>6 DEF Restart, jobVars, Numbered, JobOf
<1>7. ASSUME UNCHANGED <<byBot, cups, job1, job2, printing, hook>>
      PROVE  Numbered' /\ UNCHANGED <<job1, job2>>
  BY <1>7 DEF Numbered, JobOf
<1>8. ASSUME NEW d \in Docs,
             TrackSecond(d) \/ UntrackCancelled(d) \/ Find(d) \/ Write(d) \/ Delete(d) \/ Ages(d)
      PROVE  UNCHANGED <<byBot, cups, job1, job2, printing, hook>>
  BY <1>8 DEF TrackSecond, UntrackCancelled, Find, Write, Delete, Ages, jobVars
<1>9. ASSUME PollStarts \/ SweepStarts \/ PollerSteps
      PROVE  UNCHANGED <<byBot, cups, job1, job2, printing, hook>>
  BY <1>9 DEF PollStarts, SweepStarts, PollerSteps, PollTakes, SweepTakes, Takes, Find, Write,
              Untrack, jobVars
<1>10. ASSUME NEW s \in Servers, NEW n \in Numbers, Purge(s, n)
       PROVE  UNCHANGED <<byBot, cups, job1, job2, printing, hook>>
  BY <1>10 DEF Purge
<1>11. CASE UNCHANGED vars
  BY <1>7, <1>11 DEF vars, jobVars, JobOf
<1> QED  BY <1>2, <1>3, <1>4, <1>5, <1>6, <1>7, <1>8, <1>9, <1>10, <1>11
         DEF Next, DocSteps, UserSteps, JobOf

\* One server gives no number twice.
LEMMA OwnNumbersStep ==
    ASSUME SingleServer, TypeInv, Numbered, OwnNumbers, [Next]_vars
    PROVE  OwnNumbers'
<1> USE DocsAssumption DEF TypeInv, TypeOK
<1>1. ASSUME NEW d \in Docs, NEW n \in Numbers, TakesJob(Server[d], n)
      PROVE  \A e \in Docs : ~JobOf(e, n)
  BY <1>1 DEF TakesJob, Numbered, SingleServer
<1>2. CASE \E d \in Docs : Submit(d) \/ Continue(d)
  <2>1. PICK d \in Docs, n \in Numbers :
            /\ Submit(d) \/ Continue(d)
            /\ TakesJob(Server[d], n)
            /\ \/ job1' = [job1 EXCEPT ![d] = n] /\ job2' = job2
               \/ job2' = [job2 EXCEPT ![d] = n] /\ job1' = job1
    BY <1>2 DEF Submit, Continue
  <2>2. \A e \in Docs, m \in Numbers : JobOf(e, m)' => JobOf(e, m) \/ (e = d /\ m = n)
    <3>1. job1 \in [Docs -> 0 .. MaxJobs] /\ job2 \in [Docs -> 0 .. MaxJobs]
      OBVIOUS
    <3> HIDE DEF TypeInv, TypeOK
    <3>2. CASE job1' = [job1 EXCEPT ![d] = n] /\ job2' = job2
      BY <3>1, <3>2 DEF JobOf
    <3>3. CASE job2' = [job2 EXCEPT ![d] = n] /\ job1' = job1
      BY <3>1, <3>3 DEF JobOf
    <3> QED  BY <2>1, <3>2, <3>3
  <2>3. \A e \in Docs : ~JobOf(e, n)
    BY <1>1, <2>1
  <2> HIDE DEF TypeInv, TypeOK
  <2> QED  BY <2>2, <2>3 DEF OwnNumbers
<1>3. ASSUME UNCHANGED <<job1, job2>>
      PROVE  OwnNumbers'
  BY <1>3 DEF OwnNumbers, JobOf
<1>4. ASSUME NEW d \in Docs,
             \/ Persist(d) \/ Track(d) \/ WebCancel(d) \/ BotCancel(d) \/ TrackSecond(d)
             \/ UntrackCancelled(d) \/ Find(d) \/ Write(d) \/ Delete(d) \/ Ages(d)
      PROVE  UNCHANGED <<job1, job2>>
  BY <1>4 DEF Persist, Track, WebCancel, BotCancel, TrackSecond, UntrackCancelled, Find, Write,
              Delete, Ages, jobVars
<1>5. ASSUME PollStarts \/ SweepStarts \/ PollerSteps \/ Restart \/ UNCHANGED vars
      PROVE  UNCHANGED <<job1, job2>>
  BY <1>5 DEF PollStarts, SweepStarts, PollerSteps, PollTakes, SweepTakes, Takes, Find, Write,
              Untrack, Restart, jobVars, vars
<1>6. ASSUME NEW s \in Servers, NEW n \in Numbers, JobMoves(s, n) \/ Purge(s, n)
      PROVE  UNCHANGED <<job1, job2>>
  BY <1>6 DEF JobMoves, Purge
<1> QED  BY <1>2, <1>3, <1>4, <1>5, <1>6 DEF Next, DocSteps, UserSteps

----------------------------------------------------------------------------
(* The theorems. *)

\* The inductive invariant: as long as no number is shared, what the table and the
\* poller hold of a job is about that job, whichever writers and failures interleave.
THEOREM Invariance == Spec => [](TypeInv /\ Numbered /\ (OwnNumbers => SafeInv))
<1>1. Init => TypeInv /\ Numbered /\ SafeInv
  BY TypeInit, NumberedInit, SafeInit
<1>2. TypeInv /\ Numbered /\ (OwnNumbers => SafeInv) /\ [Next]_vars =>
          (TypeInv /\ Numbered /\ (OwnNumbers => SafeInv))'
  <2>1. SUFFICES ASSUME TypeInv, Numbered, OwnNumbers => SafeInv, [Next]_vars
                 PROVE  TypeInv' /\ Numbered' /\ (OwnNumbers' => SafeInv')
    OBVIOUS
  <2>2. TypeInv'
    BY <2>1, TypeStep
  <2>3. Numbered' /\ (OwnNumbers' => OwnNumbers)
    BY <2>1, NumberedStep DEF OwnNumbers
  <2>4. ASSUME OwnNumbers'
        PROVE  SafeInv'
    BY <2>1, <2>2, <2>3, <2>4, SafeStep
  <2> QED  BY <2>2, <2>3, <2>4
<1> QED  BY <1>1, <1>2, PTL DEF Spec

\* Only a number that two documents share can mislead the table and the poller, on
\* however many servers: without one, no record is completed by mistake, and no open
\* record that the poller was told of is dropped.
THEOREM OnlySharedNumbersMislead ==
    Spec => [](OwnNumbers => NoFalseCompletion /\ NoOpenRecordForgotten)
<1>1. TypeInv /\ (OwnNumbers => SafeInv) =>
          (OwnNumbers => NoFalseCompletion /\ NoOpenRecordForgotten)
  BY DEF SafeInv, Followed, NoOpenRecordForgotten
<1> QED  BY <1>1, Invariance, PTL

\* No number is shared on one server.
THEOREM OneServerSharesNone ==
    ASSUME SingleServer
    PROVE  Spec => []OwnNumbers
<1>1. TypeInv /\ Numbered /\ OwnNumbers /\ [Next]_vars => OwnNumbers'
  BY OwnNumbersStep
<1> QED  BY <1>1, NumberedInit, Invariance, PTL DEF Spec

\* On one server a record says "completed" only if its job has completed in CUPS, the
\* second one for a document duplexed by hand, unless the sweep wrote it.
THEOREM NoneCompletedByMistake ==
    ASSUME SingleServer
    PROVE  Spec => []NoFalseCompletion
  BY OnlySharedNumbersMislead, OneServerSharesNone, PTL

\* On one server an open record that the poller was told of is tracked whenever its own
\* goroutines are done: no lost update, continue, cancel or restart drops it.
THEOREM NoneForgotten ==
    ASSUME SingleServer
    PROVE  Spec => []NoOpenRecordForgotten
  BY OnlySharedNumbersMislead, OneServerSharesNone, PTL

\* Who is about to write has found the record it is meant for: a continue or a cancel
\* its own document's, the poller that of the job it took up, on that job's server.
UpdatesHit ==
    \A u \in Updaters : task[u].step = "write" =>
        IF u = Poller
        THEN JobOf(task[u].found, item.number) /\ Server[task[u].found] = item.server
        ELSE task[u].found = u

\* updateJobFields looks a record up by the number alone, with renames and other
\* writers in between; without a shared number it never writes another document's.
THEOREM UpdatesHitTheirRecord == Spec => [](OwnNumbers => UpdatesHit)
<1>1. TypeInv /\ (OwnNumbers => SafeInv) => (OwnNumbers => UpdatesHit)
  <2> SUFFICES ASSUME TypeInv, OwnNumbers, SafeInv, NEW u \in Updaters, task[u].step = "write"
               PROVE  IF u = Poller
                      THEN JobOf(task[u].found, item.number)
                           /\ Server[task[u].found] = item.server
                      ELSE task[u].found = u
    BY DEF UpdatesHit
  <2>1. CASE u = Poller
    <3>1. /\ JobOf(task[u].found, item.number) /\ task[u].found \in Docs
          /\ item # NoItem
      BY <2>1 DEF SafeInv, PollTask, TypeInv, Filed
    <3>2. PICK d \in Docs : JobOf(d, item.number) /\ item.server = Server[d]
      BY <3>1 DEF SafeInv, PollerKnows, ItemRight, Right
    <3>3. item.number \in Numbers
      BY <3>1 DEF TypeInv, TypeOK, Items
    <3>4. d = task[u].found
      BY <3>1, <3>2, <3>3 DEF OwnNumbers
    <3> QED  BY <2>1, <3>1, <3>2, <3>4
  <2>2. CASE u \in Docs
    <3>1. u # Poller
      BY <2>2, DocsAssumption DEF Poller
    <3> QED  BY <2>2, <3>1 DEF SafeInv, DocTask
  <2> QED  BY <2>1, <2>2 DEF Updaters
<1> QED  BY <1>1, Invariance, PTL

\* A record that names the second pass and is closed is not opened again.
ClosedStaysClosed ==
    [][\A d \in Docs :
          job2[d] # 0 /\ recordId[d] = job2[d] /\ status[d] \notin Open =>
              status'[d] \notin Open]_vars

\* Only Persist and Write open a record.
LEMMA OthersOpenNone ==
    ASSUME TypeInv, [Next]_vars, \A d \in Docs : ~Persist(d), \A u \in Updaters : ~Write(u)
    PROVE  \A d \in Docs : status'[d] \in Open => status[d] \in Open
<1>1. ASSUME NEW e \in Docs, Delete(e)
      PROVE  \A d \in Docs : status'[d] \in Open => status[d] \in Open
  BY <1>1 DEF Delete, TypeInv, TypeOK, Open
<1>2. ASSUME NEW e \in Docs,
             Submit(e) \/ Track(e) \/ TrackSecond(e) \/ UntrackCancelled(e) \/ Find(e)
                \/ Continue(e) \/ WebCancel(e) \/ BotCancel(e) \/ Ages(e)
      PROVE  status' = status
  BY <1>2 DEF Submit, Track, TrackSecond, UntrackCancelled, Find, Continue, WebCancel, BotCancel,
              Ages, recordVars
<1>3. ASSUME PollStarts \/ SweepStarts \/ (\E i \in batch : PollTakes(i) \/ SweepTakes(i))
                \/ Find(Poller) \/ Untrack \/ Restart \/ UNCHANGED vars
      PROVE  status' = status
  BY <1>3 DEF PollStarts, SweepStarts, PollTakes, SweepTakes, Takes, Find, Untrack, Restart,
              recordVars, vars
<1>4. ASSUME NEW s \in Servers, NEW n \in Numbers, JobMoves(s, n) \/ Purge(s, n)
      PROVE  status' = status
  BY <1>4 DEF JobMoves, Purge, recordVars
<1>5. \A d \in Docs : ~Write(d)
  BY DEF Updaters
<1>6. ~Write(Poller)
  BY DEF Updaters
<1> QED
  BY <1>1, <1>2, <1>3, <1>4, <1>5, <1>6 DEF Next, DocSteps, UserSteps, PollerSteps

\* A late answer to a continue, a lookup made before the rename, a sweep or a poll of
\* the first pass: none reopens the record of a document whose second pass is over.
THEOREM ClosedForGood ==
    ASSUME SingleServer
    PROVE  Spec => ClosedStaysClosed
<1>1. TypeInv /\ OwnNumbers /\ (OwnNumbers => SafeInv) /\ [Next]_vars =>
          [\A d \in Docs :
              job2[d] # 0 /\ recordId[d] = job2[d] /\ status[d] \notin Open =>
                  status'[d] \notin Open]_vars
  <2> SUFFICES ASSUME TypeInv, SafeInv, [Next]_vars, NEW d \in Docs,
                      job2[d] # 0, recordId[d] = job2[d], status[d] \notin Open
               PROVE  status'[d] \notin Open
    OBVIOUS
  <2>1. ASSUME NEW e \in Docs, Persist(e)
        PROVE  status'[d] \notin Open
    <3>1. e # d
      BY <2>1 DEF Persist, SafeInv, RecordsNamed
    <3>2. status'[d] = status[d]
      BY <2>1, <3>1 DEF Persist, Saved, TypeInv, TypeOK
    <3> QED  BY <3>2
  <2>2. ASSUME NEW u \in Updaters, Write(u)
        PROVE  status'[d] \notin Open
    <3>1. status'[d] = status[d] \/ (task[u].found = d /\ status'[d] = task[u].status)
      BY <2>2 DEF Write, Written, TypeInv, TypeOK
    <3>2. task[u].step = "write"
      BY <2>2 DEF Write
    <3>3. CASE u = Poller
      BY <3>1, <3>2, <3>3 DEF SafeInv, PollTask
    <3>4. CASE u \in Docs
      <4>1. task[u].found = u
        BY <3>2, <3>4 DEF SafeInv, DocTask
      <4>2. task[u].kind = "continue" => recordId[u] = job1[u]
        BY <3>2, <3>4 DEF SafeInv, DocTask
      <4>3. job1[d] # job2[d]
        BY DEF SafeInv, JobsDiffer
      <4>4. task[u].kind \in {"continue", "webCancel", "botCancel"}
        BY <3>2, <3>4 DEF SafeInv, DocTask, TypeInv, TypeOK, Updates, Kinds
      <4>5. task[u].found = d => task[u].status = "cancelled"
        BY <3>4, <4>1, <4>2, <4>3, <4>4 DEF SafeInv, DocTask
      <4> QED  BY <3>1, <4>5 DEF Open
    <3> QED  BY <3>3, <3>4 DEF Updaters
  <2>3. ASSUME \A e \in Docs : ~Persist(e), \A u \in Updaters : ~Write(u)
        PROVE  status'[d] \notin Open
    BY <2>3, OthersOpenNone
  <2> QED  BY <2>1, <2>2, <2>3
<1> QED  BY <1>1, OneServerSharesNone, Invariance, PTL DEF Spec, ClosedStaysClosed

----------------------------------------------------------------------------
(* The abstract specification of a record's life. *)

LifeMap == [d \in Docs |-> LifeOf(d)]
PassMap == [d \in Docs |-> PassOf(d)]

\* At the start nothing is saved.
LEMMA LifeInit == Init => Life!Init
BY DEF Init, Life!Init, LifeOf, PassOf

\* What RecordLife sees depends on the record and the first job's number alone.
LEMMA LifeKept ==
    ASSUME NEW d \in Docs, status'[d] = status[d], recordId'[d] = recordId[d],
           job1'[d] = job1[d] \/ status[d] = "absent"
    PROVE  LifeOf(d)' = LifeOf(d) /\ PassOf(d)' = PassOf(d)
BY DEF LifeOf, PassOf

\* A step that writes no record and submits no first job is a stutter of RecordLife.
LEMMA RecordsUnwritten ==
    ASSUME UNCHANGED <<status, recordId, job1>>
    PROVE  UNCHANGED Life!lvars
BY LifeKept DEF Life!lvars, LifeOf, PassOf

\* The record of a step's document moves, and the others stay.
LEMMA OneMoves ==
    ASSUME NEW d \in Docs, NEW l, NEW p, LifeOf(d)' = l, PassOf(d)' = p,
           UNCHANGED job1,
           \A e \in Docs \ {d} : status'[e] = status[e] /\ recordId'[e] = recordId[e]
    PROVE  /\ LifeMap' = [LifeMap EXCEPT ![d] = l]
           /\ PassMap' = [PassMap EXCEPT ![d] = p]
<1>1. \A e \in Docs \ {d} : LifeOf(e)' = LifeOf(e) /\ PassOf(e)' = PassOf(e)
  BY LifeKept
<1> QED  BY <1>1 DEF LifeMap, PassMap

\* A document is submitted before its record exists.
LEMMA SubmitStutters ==
    ASSUME TypeInv, SafeInv, NEW e \in Docs, Submit(e)
    PROVE  UNCHANGED Life!lvars
<1>1. status[e] = "absent"
  BY DEF Submit, SafeInv, RecordsNamed
<1>2. UNCHANGED <<status, recordId>> /\ \A d \in Docs \ {e} : job1'[d] = job1[d]
  BY DEF Submit, recordVars, TypeInv, TypeOK
<1>3. \A d \in Docs : LifeOf(d)' = LifeOf(d) /\ PassOf(d)' = PassOf(d)
  BY <1>1, <1>2, LifeKept
<1> QED  BY <1>3 DEF Life!lvars

\* The record is saved, or is not.
LEMMA PersistSaves ==
    ASSUME TypeInv, SafeInv, NEW d \in Docs, Persist(d)
    PROVE  Life!Save(d) \/ UNCHANGED Life!lvars
<1>1. status[d] = "absent" /\ job1[d] # 0
  BY DEF Persist, SafeInv, RecordsNamed
<1>2. UNCHANGED job1
  BY DEF Persist, jobVars
<1>3. CASE UNCHANGED <<status, recordId>>
  BY <1>2, <1>3, RecordsUnwritten
<1>4. CASE Saved(d)
  <2>1. /\ status'[d] = FirstStatus(d) /\ recordId'[d] = job1[d]
        /\ \A e \in Docs \ {d} : status'[e] = status[e] /\ recordId'[e] = recordId[e]
    BY <1>4 DEF Saved, TypeInv, TypeOK
  <2>2. LifeOf(d) = "none"
    BY <1>1 DEF LifeOf
  <2>3. LifeOf(d)' = (IF d \in Manual THEN "waiting" ELSE "printing") /\ PassOf(d)' = 1
    BY <1>2, <2>1 DEF LifeOf, PassOf, FirstStatus
  <2> QED
    BY <1>2, <2>1, <2>2, <2>3, OneMoves
    DEF Life!Save, Life!Enters, Life!Names, LifeMap, PassMap
<1> QED  BY <1>3, <1>4 DEF Persist

\* The user deletes a record that is there.
LEMMA DeleteDeletes ==
    ASSUME TypeInv, NEW d \in Docs, Delete(d)
    PROVE  Life!Delete(d)
<1>1. UNCHANGED <<job1, recordId>>
  BY DEF Delete, jobVars
<1>2. /\ status[d] \in Present /\ status'[d] = "deleted"
      /\ \A e \in Docs \ {d} : status'[e] = status[e]
  BY DEF Delete, TypeInv, TypeOK
<1>3. LifeOf(d) \in {"waiting", "printing", "closed"}
  BY <1>2 DEF LifeOf, Present, Open
<1>4. LifeOf(d)' = "deleted" /\ PassOf(d)' = PassOf(d)
  BY <1>1, <1>2 DEF LifeOf, PassOf, Present, Open
<1>5. /\ LifeMap' = [LifeMap EXCEPT ![d] = "deleted"]
      /\ PassMap' = [PassMap EXCEPT ![d] = PassOf(d)]
  BY <1>1, <1>2, <1>4, OneMoves
<1> QED
  BY <1>3, <1>5 DEF Life!Delete, Life!Enters, LifeMap, PassMap

\* An update that has found its record is one of these: a continue that renames the
\* document's own record, which still names the first pass, or a closing status.
LEMMA WriterKnown ==
    ASSUME TypeInv, SafeInv, NEW u \in Updaters, task[u].step = "write"
    PROVE  LET d == task[u].found IN
           /\ d \in Docs /\ task[u].status \in Present
           /\ \/ /\ task[u].kind = "continue" /\ d \in Manual
                 /\ task[u].status = "pending" /\ recordId[d] = job1[d]
                 /\ task[u].number = job2[d] /\ job2[d] # job1[d]
              \/ task[u].kind # "continue" /\ task[u].status \notin Open
<1>1. task[u].found \in Docs /\ task[u].status \in Present
  BY DEF TypeInv, Filed
<1>2. CASE u = Poller
  BY <1>1, <1>2 DEF SafeInv, PollTask
<1>3. CASE u \in Docs
  <2>1. task[u].found = u /\ task[u].kind \in {"continue", "webCancel", "botCancel"}
    BY <1>3 DEF SafeInv, DocTask, TypeInv, TypeOK, Updates, Kinds
  <2>2. CASE task[u].kind = "continue"
    <3>1. /\ task[u].status = "pending" /\ recordId[u] = job1[u]
          /\ task[u].number = job2[u] /\ job2[u] # 0 /\ hook[u] = "closed"
      BY <1>3, <2>2 DEF SafeInv, DocTask
    <3>2. u \in Manual /\ job1[u] # 0
      BY <1>3, <3>1 DEF SafeInv, RecordsNamed, TypeInv, Filed
    <3>3. job1[u] # job2[u]
      BY <1>3, <3>2 DEF SafeInv, JobsDiffer
    <3> QED  BY <1>1, <2>1, <2>2, <3>1, <3>2, <3>3
  <2>3. CASE task[u].kind # "continue"
    <3>1. task[u].status = "cancelled"
      BY <1>3, <2>1, <2>3 DEF SafeInv, DocTask
    <3> QED  BY <1>1, <2>3, <3>1 DEF Open
  <2> QED  BY <2>2, <2>3
<1> QED  BY <1>2, <1>3 DEF Updaters

\* The continue opens the record for the second pass; every other write closes it, or
\* finds it closed.
LEMMA WriteMaps ==
    ASSUME TypeInv, SafeInv, NEW u \in Updaters, Write(u)
    PROVE  \/ \E d \in Docs : Life!GoOn(d) \/ Life!Close(d)
           \/ UNCHANGED Life!lvars
<1>1. task[u].step = "write" /\ UNCHANGED job1
  BY DEF Write, jobVars
<1>2. PICK d \in Docs :
      /\ d = task[u].found /\ task[u].status \in Present
      /\ \/ /\ task[u].kind = "continue" /\ d \in Manual
            /\ task[u].status = "pending" /\ recordId[d] = job1[d]
            /\ task[u].number = job2[d] /\ job2[d] # job1[d]
         \/ task[u].kind # "continue" /\ task[u].status \notin Open
  BY <1>1, WriterKnown
<1>3. CASE UNCHANGED <<status, recordId>>
  BY <1>1, <1>3, RecordsUnwritten
<1>4. CASE status[d] \in Present /\ Written(u)
  <2>1. /\ status'[d] = task[u].status
        /\ recordId'[d] = IF task[u].kind = "continue" THEN task[u].number ELSE recordId[d]
        /\ \A e \in Docs \ {d} : status'[e] = status[e] /\ recordId'[e] = recordId[e]
    BY <1>2, <1>4 DEF Written, TypeInv, TypeOK
  <2>2. CASE task[u].kind = "continue"
    <3>1. d \in Manual /\ PassOf(d) = 1 /\ PassOf(d)' = 2 /\ LifeOf(d)' = "printing"
      BY <1>1, <1>2, <1>4, <2>1, <2>2 DEF LifeOf, PassOf, Present, Open
    <3>2. LifeOf(d) \in {"waiting", "closed"}
      <4>1. status[d] # "pending"
        BY <1>2, <1>4, <2>2 DEF SafeInv, RecordsNamed, FirstPass
      <4> QED  BY <1>4, <4>1 DEF LifeOf, Present, Open
    <3>3. /\ LifeMap' = [LifeMap EXCEPT ![d] = "printing"]
          /\ PassMap' = [PassMap EXCEPT ![d] = 2]
      BY <1>1, <1>2, <2>1, <3>1, OneMoves
    <3> QED
      BY <1>2, <3>1, <3>2, <3>3 DEF Life!GoOn, Life!Enters, Life!Names, LifeMap, PassMap
  <2>3. CASE task[u].kind # "continue"
    <3>1. LifeOf(d)' = "closed" /\ PassOf(d)' = PassOf(d)
      BY <1>1, <1>2, <1>4, <2>1, <2>3 DEF LifeOf, PassOf, Present, Open
    <3>2. LifeOf(d) \in {"waiting", "printing", "closed"}
      BY <1>4 DEF LifeOf, Present, Open
    <3>3. /\ LifeMap' = [LifeMap EXCEPT ![d] = "closed"]
          /\ PassMap' = [PassMap EXCEPT ![d] = PassOf(d)]
      BY <1>1, <1>2, <2>1, <3>1, OneMoves
    <3>4. PassMap' = PassMap
      BY <3>3 DEF PassMap
    <3>5. LifeOf(d) = "closed" => LifeMap' = LifeMap
      BY <3>3 DEF LifeMap
    <3> QED
      BY <1>2, <3>2, <3>3, <3>4, <3>5
      DEF Life!Close, Life!Enters, Life!lvars, LifeMap, PassMap
  <2> QED  BY <2>2, <2>3
<1> QED  BY <1>2, <1>3, <1>4 DEF Write

\* Everything else leaves the records alone.
LEMMA OthersStutter ==
    ASSUME [Next]_vars, \A d \in Docs : ~Submit(d) /\ ~Persist(d) /\ ~Delete(d),
           \A u \in Updaters : ~Write(u)
    PROVE  UNCHANGED <<status, recordId, job1>>
<1>1. ASSUME NEW e \in Docs,
             Track(e) \/ TrackSecond(e) \/ UntrackCancelled(e) \/ Find(e)
                \/ Continue(e) \/ WebCancel(e) \/ BotCancel(e) \/ Ages(e)
      PROVE  UNCHANGED <<status, recordId, job1>>
  BY <1>1 DEF Track, TrackSecond, UntrackCancelled, Find, Continue, WebCancel, BotCancel, Ages,
              recordVars, jobVars
<1>2. ASSUME PollStarts \/ SweepStarts \/ (\E i \in batch : PollTakes(i) \/ SweepTakes(i))
                \/ Find(Poller) \/ Untrack \/ Restart \/ UNCHANGED vars
      PROVE  UNCHANGED <<status, recordId, job1>>
  BY <1>2 DEF PollStarts, SweepStarts, PollTakes, SweepTakes, Takes, Find, Untrack, Restart,
              recordVars, jobVars, vars
<1>3. ASSUME NEW s \in Servers, NEW n \in Numbers, JobMoves(s, n) \/ Purge(s, n)
      PROVE  UNCHANGED <<status, recordId, job1>>
  BY <1>3 DEF JobMoves, Purge, recordVars
<1>4. ~Write(Poller) /\ \A d \in Docs : ~Write(d)
  BY DEF Updaters
<1> QED
  BY <1>1, <1>2, <1>3, <1>4 DEF Next, DocSteps, UserSteps, PollerSteps

\* Every step of the code is a step of RecordLife or a stutter.
LEMMA LifeStep ==
    ASSUME TypeInv, SafeInv, [Next]_vars
    PROVE  [Life!Next]_(Life!lvars)
<1>1. ASSUME NEW d \in Docs, Submit(d) \/ Persist(d) \/ Delete(d)
      PROVE  [Life!Next]_(Life!lvars)
  BY <1>1, SubmitStutters, PersistSaves, DeleteDeletes DEF Life!Next
<1>2. ASSUME NEW u \in Updaters, Write(u)
      PROVE  [Life!Next]_(Life!lvars)
  BY <1>2, WriteMaps DEF Life!Next
<1>3. ASSUME \A d \in Docs : ~Submit(d) /\ ~Persist(d) /\ ~Delete(d),
             \A u \in Updaters : ~Write(u)
      PROVE  [Life!Next]_(Life!lvars)
  BY <1>3, OthersStutter, RecordsUnwritten
<1> QED  BY <1>1, <1>2, <1>3

\* On one CUPS server the table shows the life RecordLife promises: a record is saved
\* once, continued once, after its last pass never opened again and deleted for good.
THEOREM ImplementsRecordLife ==
    ASSUME SingleServer
    PROVE  Spec => KeepsLife
<1>1. TypeInv /\ OwnNumbers /\ (OwnNumbers => SafeInv) /\ [Next]_vars =>
          [Life!Next]_(Life!lvars)
  BY LifeStep
<1> QED
  BY <1>1, LifeInit, OneServerSharesNone, Invariance, PTL DEF Spec, KeepsLife, Life!Spec

=============================================================================
