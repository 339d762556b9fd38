----------------------------- MODULE JobRecords -----------------------------
(***************************************************************************)
(* The record of a print job in the Feishu table, and everyone who writes  *)
(* it: the goroutine that printed the document (api/handlers.go,           *)
(* api/bot_actions.go), the one that continues or cancels a manual duplex  *)
(* document, the user who deletes the record, and the single goroutine of  *)
(* the status poller (api/job_status_poller.go), which follows in CUPS the *)
(* jobs it tracks and now and then sweeps records older than 12 hours.     *)
(*                                                                         *)
(* The table is reached over the network: an update looks the record up by *)
(* job_id and then writes it (api/bitable_job_store.go), with other        *)
(* writers in between, and each call may fail.  Every CUPS server numbers  *)
(* its own jobs; the table and the poller know a job by its number alone.  *)
(***************************************************************************)
EXTENDS Naturals, FiniteSets

CONSTANTS
    Docs,        \* documents printed
    Manual,      \* those duplexed by hand, in two passes
    Servers,     \* CUPS servers
    Server,      \* the server of each document's printer
    MaxJobs,     \* bound: jobs one server accepts
    MaxAttempts, \* attempts of one update (3 in the code)
    MaxMishaps   \* bound: calls to the table that fail or whose answer is lost, and restarts

ASSUME DocsAssumption ==
    /\ Manual \subseteq Docs
    /\ Server \in [Docs -> Servers]
    /\ "poller" \notin Docs
    /\ MaxJobs \in Nat \ {0} /\ MaxAttempts \in Nat \ {0} /\ MaxMishaps \in Nat

VARIABLES
    byBot,    \* documents printed by the bot; the others come over HTTP
    cups,     \* per server and number: the state of the job
    purged,   \* <<server, number>> of final jobs that CUPS no longer knows
    job1,     \* the number of a document's (first) job, 0 before it is submitted
    job2,     \* the number of its second pass, 0 before
    printing, \* the next step of the goroutine that prints a document
    hook,     \* its manual duplex hook: "none", "open" or "closed"
    status,   \* its record's status: "absent" before it is saved, "deleted" after
    recordId, \* its record's job_id
    old,      \* documents whose record was submitted more than 12 hours ago
    tracked,  \* the poller's map from a job number to its printer and record status
    task,     \* the update an updater is at: the poller, or a document's continue or cancel
    batch,    \* what the poller still has to look at in this round
    item,     \* what it is looking at
    swept,    \* documents whose record the sweep was the last to write
    excused,  \* documents with a record the poller was never told of (see Persist, Restart)
    mishaps

jobVars == <<byBot, cups, purged, job1, job2>>
recordVars == <<status, recordId, old, swept>>
roundVars == <<batch, item>>
vars == <<byBot, cups, purged, job1, job2, printing, hook, status, recordId, old, tracked,
          task, batch, item, swept, excused, mishaps>>

Poller == "poller"
Nobody == "nobody"
Updaters == Docs \cup {Poller}
Numbers == 1 .. MaxJobs

\* "active" stands for pending, held and processing, "failed" for cancelled and
\* aborted by CUPS; "manual" is pending_manual_continue.
JobStates == {"none", "active", "stopped", "completed", "failed"}
Open == {"pending", "manual"}
Present == Open \cup {"stopped", "completed", "failed", "cancelled"}
Statuses == Present \cup {"absent", "deleted"}
Steps == {"idle", "find", "write", "track", "untrack"}
Kinds == {"none", "continue", "webCancel", "botCancel", "poll"}

Untracked == [server |-> Nobody, status |-> "none"]
Rest == [step |-> "idle", kind |-> "none", look |-> 0, status |-> "none", number |-> 0,
         found |-> Nobody, tries |-> 0]
NoItem == [number |-> 0, server |-> Nobody, status |-> "none", sweep |-> FALSE]

Init ==
    /\ byBot \in SUBSET Docs
    /\ cups = [s \in Servers |-> [n \in Numbers |-> "none"]]
    /\ purged = {}
    /\ job1 = [d \in Docs |-> 0] /\ job2 = [d \in Docs |-> 0]
    /\ printing = [d \in Docs |-> "submit"]
    /\ hook = [d \in Docs |-> "none"]
    /\ status = [d \in Docs |-> "absent"]
    /\ recordId = [d \in Docs |-> 0]
    /\ old = {}
    /\ tracked = [n \in Numbers |-> Untracked]
    /\ task = [u \in Updaters |-> Rest]
    /\ batch = {} /\ item = NoItem
    /\ swept = {} /\ excused = {}
    /\ mishaps = 0

Mishap == mishaps < MaxMishaps /\ mishaps' = mishaps + 1

----------------------------------------------------------------------------
(* CUPS. *)

\* PrintJob: the server takes the next job of its own numbering.
TakesJob(s, n) ==
    /\ cups[s][n] = "none"
    /\ \A m \in 1 .. n - 1 : cups[s][m] # "none"
    /\ cups' = [cups EXCEPT ![s][n] = "active"]

\* A job finishes, stops (the printer jams or is out of paper) or goes on.
JobMoves(s, n) ==
    /\ \/ /\ cups[s][n] = "active"
          /\ \E to \in {"stopped", "completed", "failed"} : cups' = [cups EXCEPT ![s][n] = to]
       \/ /\ cups[s][n] = "stopped"
          /\ \E to \in {"active", "failed"} : cups' = [cups EXCEPT ![s][n] = to]
    /\ UNCHANGED <<byBot, purged, job1, job2, printing, hook, recordVars, tracked, task, roundVars,
                   excused, mishaps>>

\* CUPS forgets a final job: GetPrintJobDetails fails from now on.
Purge(s, n) ==
    /\ cups[s][n] \in {"completed", "failed"} /\ <<s, n>> \notin purged
    /\ purged' = purged \cup {<<s, n>>}
    /\ UNCHANGED <<byBot, cups, job1, job2, printing, hook, recordVars, tracked, task, roundVars,
                   excused, mishaps>>

----------------------------------------------------------------------------
(* Printing a document. *)

\* SubmitJob; a manual duplex document printed over HTTP is answered, with its
\* hook, before its record is saved.
Submit(d) ==
    /\ printing[d] = "submit"
    /\ \E n \in Numbers : TakesJob(Server[d], n) /\ job1' = [job1 EXCEPT ![d] = n]
    /\ printing' = [printing EXCEPT ![d] = "persist"]
    /\ hook' = [hook EXCEPT ![d] = IF d \in Manual \ byBot THEN "open" ELSE @]
    /\ UNCHANGED <<byBot, purged, job2, recordVars, tracked, task, roundVars, excused, mishaps>>

FirstStatus(d) == IF d \in Manual THEN "manual" ELSE "pending"

Saved(d) ==
    /\ status' = [status EXCEPT ![d] = FirstStatus(d)]
    /\ recordId' = [recordId EXCEPT ![d] = job1[d]]

\* SaveJob: the record is created, or not, and the server may not hear of it.
\* The HTTP handlers track the job whatever happened, the bot only if it heard
\* of success; the bot's card with the hook is sent afterwards.
Persist(d) ==
    /\ printing[d] = "persist"
    /\ \/ /\ Saved(d)
          /\ printing' = [printing EXCEPT ![d] = "track"]
          /\ UNCHANGED <<excused, mishaps>>
       \/ /\ Mishap
          /\ Saved(d) \/ UNCHANGED <<status, recordId>>
          /\ printing' = [printing EXCEPT ![d] = IF d \in byBot THEN "done" ELSE "track"]
          /\ excused' = IF d \in byBot THEN excused \cup {d} ELSE excused
    /\ hook' = [hook EXCEPT ![d] = IF d \in Manual \cap byBot THEN "open" ELSE @]
    /\ UNCHANGED <<jobVars, old, swept, tracked, task, roundVars>>

\* AddPendingJobWithStatus
Track(d) ==
    /\ printing[d] = "track"
    /\ printing' = [printing EXCEPT ![d] = "done"]
    /\ tracked' = [tracked EXCEPT ![job1[d]] =
                      [server |-> Server[d], status |-> FirstStatus(d)]]
    /\ UNCHANGED <<jobVars, hook, recordVars, task, roundVars, excused, mishaps>>

----------------------------------------------------------------------------
(* Continuing and cancelling a manual duplex document.  That the hook is    *)
(* used once is the subject of ManualDuplexHooks; here it closes in a step. *)

Begin(u, k, look, st, n) ==
    task' = [task EXCEPT ![u] = [Rest EXCEPT !.step = "find", !.kind = k, !.look = look,
                                             !.status = st, !.number = n]]

\* The second pass is submitted, then UpdateManualDuplexContinued is called.
Continue(d) ==
    /\ hook[d] = "open"
    /\ hook' = [hook EXCEPT ![d] = "closed"]
    /\ \E n \in Numbers :
          /\ TakesJob(Server[d], n)
          /\ job2' = [job2 EXCEPT ![d] = n]
          /\ Begin(d, "continue", job1[d], "pending", n)
    /\ UNCHANGED <<byBot, purged, job1, printing, recordVars, tracked, roundVars, excused, mishaps>>

\* Over HTTP the job is untracked first and the record updated in the background.
WebCancel(d) ==
    /\ hook[d] = "open"
    /\ hook' = [hook EXCEPT ![d] = "closed"]
    /\ tracked' = [tracked EXCEPT ![job1[d]] = Untracked]
    /\ Begin(d, "webCancel", job1[d], "cancelled", job1[d])
    /\ UNCHANGED <<jobVars, printing, recordVars, roundVars, excused, mishaps>>

\* The bot updates the record first.
BotCancel(d) ==
    /\ hook[d] = "open" /\ d \in byBot
    /\ hook' = [hook EXCEPT ![d] = "closed"]
    /\ Begin(d, "botCancel", job1[d], "cancelled", job1[d])
    /\ UNCHANGED <<jobVars, printing, recordVars, tracked, roundVars, excused, mishaps>>

\* AddPendingJob for the second pass, whether or not the update succeeded.
TrackSecond(d) ==
    /\ task[d].step = "track"
    /\ tracked' = [tracked EXCEPT ![job2[d]] = [server |-> Server[d], status |-> "pending"]]
    /\ task' = [task EXCEPT ![d] = Rest]
    /\ UNCHANGED <<jobVars, printing, hook, recordVars, roundVars, excused, mishaps>>

UntrackCancelled(d) ==
    /\ task[d].step = "untrack"
    /\ tracked' = [tracked EXCEPT ![job1[d]] = Untracked]
    /\ task' = [task EXCEPT ![d] = Rest]
    /\ UNCHANGED <<jobVars, printing, hook, recordVars, roundVars, excused, mishaps>>

----------------------------------------------------------------------------
(* updateJobFields: look the record up by job_id, then write it. *)

\* Variant: the poller untracks the job although the update failed.
NextStepAlways(u, ok) ==
    CASE task[u].kind = "continue" -> "track"
      [] task[u].kind \in {"botCancel", "poll"} -> "untrack"
      [] OTHER -> "idle"

\* What follows an update: the poller untracks the job only if it succeeded.
NextStep(u, ok) ==
    CASE task[u].kind = "continue" -> "track"
      [] task[u].kind = "botCancel" -> "untrack"
      [] task[u].kind = "poll" /\ ok -> "untrack"
      [] OTHER -> "idle"

Ends(u, ok) == task' = [task EXCEPT ![u].step = NextStep(u, ok)]

\* Variant: one attempt too many.
TryAgainOnceMore(u) ==
    IF task[u].tries < MaxAttempts
    THEN task' = [task EXCEPT ![u].step = "find", ![u].tries = @ + 1]
    ELSE Ends(u, FALSE)

TryAgain(u) ==
    IF task[u].tries + 1 < MaxAttempts
    THEN task' = [task EXCEPT ![u].step = "find", ![u].tries = @ + 1]
    ELSE Ends(u, FALSE)

\* Variant: the first record of the page is taken.
MatchesAny(d, n) == status[d] \in Present

Matches(d, n) == status[d] \in Present /\ recordId[d] = n

\* findRecordIDByJobID returns the first record with that job_id, or fails.
Find(u) ==
    /\ task[u].step = "find"
    /\ \/ /\ \E d \in Docs :
                /\ Matches(d, task[u].look)
                /\ task' = [task EXCEPT ![u].step = "write", ![u].found = d]
          /\ UNCHANGED mishaps
       \/ /\ \A d \in Docs : ~Matches(d, task[u].look)
          /\ TryAgain(u)
          /\ UNCHANGED mishaps
       \/ Mishap /\ TryAgain(u)
    /\ UNCHANGED <<jobVars, printing, hook, recordVars, tracked, roundVars, excused>>

Written(u) ==
    LET d == task[u].found IN
    /\ status' = [status EXCEPT ![d] = task[u].status]
    /\ recordId' = [recordId EXCEPT ![d] =
                       IF task[u].kind = "continue" THEN task[u].number ELSE @]
    /\ swept' = IF u = Poller /\ item.sweep THEN swept \cup {d} ELSE swept \ {d}

\* The update of that record: done, not done, or done without the server hearing
\* of it.  It fails if the user has deleted the record meanwhile.
Write(u) ==
    LET d == task[u].found IN
    /\ task[u].step = "write"
    /\ \/ status[d] \in Present /\ Written(u) /\ Ends(u, TRUE) /\ UNCHANGED mishaps
       \/ status[d] \in Present /\ Written(u) /\ Mishap /\ TryAgain(u)
       \/ Mishap /\ TryAgain(u) /\ UNCHANGED <<status, recordId, swept>>
       \/ status[d] = "deleted" /\ TryAgain(u) /\ UNCHANGED <<status, recordId, swept, mishaps>>
    /\ UNCHANGED <<jobVars, printing, hook, old, tracked, roundVars, excused>>

\* CancelPrintJob deletes the record and nothing else.
Delete(d) ==
    /\ status[d] \in Present
    /\ status' = [status EXCEPT ![d] = "deleted"]
    /\ UNCHANGED <<jobVars, printing, hook, recordId, old, swept, tracked, task, roundVars,
                   excused, mishaps>>

\* Twelve hours pass; a call to the table is given up after seconds, so that none
\* is under way all that time.
Ages(d) ==
    /\ status[d] \in Present /\ d \notin old
    /\ printing[d] = "done" /\ \A u \in Updaters : task[u].step = "idle"
    /\ old' = old \cup {d}
    /\ UNCHANGED <<jobVars, printing, hook, status, recordId, swept, tracked, task, roundVars,
                   excused, mishaps>>

----------------------------------------------------------------------------
(* The poller: one goroutine, a round of polling or a sweep at a time. *)

Between == task[Poller].step = "idle" /\ batch = {}

\* checkPendingJobs copies the map of tracked jobs.
PollStarts ==
    /\ Between
    /\ batch' = {[number |-> n, server |-> tracked[n].server, status |-> tracked[n].status,
                  sweep |-> FALSE] : n \in {m \in Numbers : tracked[m] # Untracked}}
    /\ batch' # {}
    /\ UNCHANGED <<jobVars, printing, hook, recordVars, tracked, task, item, excused, mishaps>>

\* Variant: records waiting for the second pass are left out.
SweepStartsPending ==
    /\ Between
    /\ batch' = {[number |-> recordId[d], server |-> Server[d], status |-> status[d],
                  sweep |-> TRUE] : d \in {e \in old : status[e] = "pending"}}
    /\ batch' # {}
    /\ UNCHANGED <<jobVars, printing, hook, recordVars, tracked, task, item, excused, mishaps>>

\* completeStaleBitableJobs lists the old records that are still open.
SweepStarts ==
    /\ Between
    /\ batch' = {[number |-> recordId[d], server |-> Server[d], status |-> status[d],
                  sweep |-> TRUE] : d \in {e \in old : status[e] \in Open}}
    /\ batch' # {}
    /\ UNCHANGED <<jobVars, printing, hook, recordVars, tracked, task, item, excused, mishaps>>

Takes(i) ==
    /\ task[Poller].step = "idle"
    /\ i \in batch /\ batch' = batch \ {i}
    /\ item' = i
    /\ UNCHANGED <<jobVars, printing, hook, recordVars, tracked, excused, mishaps>>

\* Variant: a completed first pass completes the record.
PollTakesFirstPass(i) ==
    LET state == cups[i.server][i.number] IN
    /\ Takes(i) /\ ~i.sweep
    /\ state \in {"stopped", "completed", "failed"} /\ <<i.server, i.number>> \notin purged
    /\ Begin(Poller, "poll", i.number, state, i.number)

\* CUPS is asked for the job: an error or an unfinished job ends the matter for
\* this round, a first pass that completed is untracked, and any other state is
\* written to the record.
PollTakes(i) ==
    LET state == cups[i.server][i.number] IN
    /\ Takes(i) /\ ~i.sweep
    /\ \/ UNCHANGED task
       \/ /\ state = "completed" /\ i.status = "manual" /\ <<i.server, i.number>> \notin purged
          /\ task' = [task EXCEPT ![Poller] = [Rest EXCEPT !.step = "untrack"]]
       \/ /\ state \in {"stopped", "completed", "failed"}
          /\ ~(state = "completed" /\ i.status = "manual") /\ <<i.server, i.number>> \notin purged
          /\ Begin(Poller, "poll", i.number, state, i.number)

SweepTakes(i) ==
    /\ Takes(i) /\ i.sweep
    /\ Begin(Poller, "poll", i.number, "completed", i.number)

\* removePendingJob
Untrack ==
    /\ task[Poller].step = "untrack"
    /\ tracked' = [tracked EXCEPT ![item.number] = Untracked]
    /\ task' = [task EXCEPT ![Poller] = Rest]
    /\ item' = NoItem
    /\ UNCHANGED <<jobVars, printing, hook, recordVars, batch, excused, mishaps>>

----------------------------------------------------------------------------
\* The process restarts.  Hooks and goroutines are gone; restorePendingJobs
\* reads the open records once, and tracks nothing if it cannot.
Restorable(n) ==
    {[server |-> Server[d], status |-> status[d]] :
        d \in {e \in Docs : status[e] \in Open /\ recordId[e] = n}}

Restored ==
    tracked' \in {f \in [Numbers -> UNION {Restorable(n) : n \in Numbers} \cup {Untracked}] :
                    \A n \in Numbers : IF Restorable(n) = {} THEN f[n] = Untracked
                                       ELSE f[n] \in Restorable(n)}

Restart ==
    /\ Mishap
    /\ \/ Restored /\ UNCHANGED excused
       \/ tracked' = [n \in Numbers |-> Untracked]
          /\ excused' = excused \cup {d \in Docs : status[d] \in Open}
    /\ printing' = [d \in Docs |-> IF printing[d] = "submit" THEN "submit" ELSE "done"]
    /\ hook' = [d \in Docs |-> IF hook[d] = "open" THEN "closed" ELSE hook[d]]
    /\ task' = [u \in Updaters |-> Rest]
    /\ batch' = {} /\ item' = NoItem
    /\ UNCHANGED <<jobVars, recordVars>>

DocSteps(d) ==
    \/ Submit(d) \/ Persist(d) \/ Track(d)
    \/ TrackSecond(d) \/ UntrackCancelled(d) \/ Find(d) \/ Write(d)

UserSteps(d) == Continue(d) \/ WebCancel(d) \/ BotCancel(d) \/ Delete(d)

PollerSteps ==
    \/ \E i \in batch : PollTakes(i) \/ SweepTakes(i)
    \/ Find(Poller) \/ Write(Poller) \/ Untrack

Next ==
    \/ \E d \in Docs : DocSteps(d) \/ UserSteps(d) \/ Ages(d)
    \/ PollStarts \/ SweepStarts \/ PollerSteps
    \/ \E s \in Servers, n \in Numbers : JobMoves(s, n) \/ Purge(s, n)
    \/ Restart

Spec == Init /\ [][Next]_vars

\* Goroutines run, time passes, and the poller's select, which chooses among the
\* tickers that are due, does not pass the sweep over for ever.
Fairness ==
    /\ \A d \in Docs : WF_vars(DocSteps(d)) /\ SF_vars(Ages(d))
    /\ WF_vars(PollerSteps) /\ SF_vars(SweepStarts)
FairSpec == Spec /\ Fairness

----------------------------------------------------------------------------
(* Properties. *)

\* What the poller keeps of a job, what it takes up in a round, and an update.
Entries == [server : Servers, status : Open]
Items == [number : Numbers, server : Servers, status : Open, sweep : BOOLEAN]
Updates == [step : Steps, kind : Kinds, look : 0 .. MaxJobs,
            status : Statuses \cup {"none"}, number : 0 .. MaxJobs,
            found : Docs \cup {Nobody}, tries : 0 .. MaxAttempts - 1]

TypeOK ==
    /\ byBot \subseteq Docs
    /\ cups \in [Servers -> [Numbers -> JobStates]]
    /\ purged \subseteq Servers \X Numbers
    /\ job1 \in [Docs -> 0 .. MaxJobs] /\ job2 \in [Docs -> 0 .. MaxJobs]
    /\ printing \in [Docs -> {"submit", "persist", "track", "done"}]
    /\ hook \in [Docs -> {"none", "open", "closed"}]
    /\ status \in [Docs -> Statuses] /\ recordId \in [Docs -> 0 .. MaxJobs]
    /\ old \subseteq Docs /\ swept \subseteq Docs /\ excused \subseteq Docs
    /\ tracked \in [Numbers -> Entries \cup {Untracked}]
    /\ task \in [Updaters -> Updates]
    /\ batch \subseteq Items /\ item \in Items \cup {NoItem}
    /\ mishaps \in 0 .. MaxMishaps

StateOf(d) == cups[Server[d]][recordId[d]]

\* Whatever the writers of a record do to each other, a record says "completed"
\* only if the job it names has completed in CUPS, and for a manual duplex
\* document only if that is the second pass, unless the sweep wrote it.
NoFalseCompletion ==
    \A d \in Docs : status[d] = "completed" /\ d \notin swept =>
        /\ StateOf(d) = "completed"
        /\ d \in Manual => recordId[d] = job2[d]

\* No open record is forgotten: when its own goroutines are done, a pending
\* record's job is tracked, and a record waiting for the second pass has its
\* first one tracked or completed.  Excused are the records the poller was never
\* told of: the bot heard an error of a SaveJob that had worked, or the table
\* could not be read at a restart.
NoOpenRecordForgotten ==
    \A d \in Docs \ excused :
        printing[d] = "done" /\ task[d].step = "idle" =>
            /\ status[d] = "pending" => tracked[recordId[d]] # Untracked
            /\ status[d] = "manual" /\ hook[d] = "open" =>
                  tracked[job1[d]] # Untracked \/ StateOf(d) = "completed"

\* What RecordLife sees of a record.
LifeOf(d) ==
    CASE status[d] = "absent" -> "none"
      [] status[d] = "manual" -> "waiting"
      [] status[d] = "pending" -> "printing"
      [] status[d] = "deleted" -> "deleted"
      [] OTHER -> "closed"

PassOf(d) ==
    IF status[d] = "absent" THEN 0 ELSE IF recordId[d] = job1[d] THEN 1 ELSE 2

Life == INSTANCE RecordLife WITH
    Documents <- Docs, TwoPass <- Manual,
    life <- [d \in Docs |-> LifeOf(d)], pass <- [d \in Docs |-> PassOf(d)]

\* However the goroutines that print, continue and cancel, the poller, the sweep
\* and the user come between each other's lookups and writes, a record is saved
\* once, continued once, and after its last pass never opened again.
KeepsLife == Life!Spec

\* Every record is closed or deleted in the end, whatever calls failed, updates
\* were lost or records were not restored (README.md:405).
RecordsClose == \A d \in Docs : status[d] \in Open ~> status[d] \notin Open

(* Statements of the repository that the code does not keep. *)

\* The sweep closes records that are still pending or pending_manual_continue
\* (README.md:405).
SweepClosesOpenRecords == [][\A d \in swept' \ swept : status[d] \in Open]_vars

\* A job's status in CUPS is synchronised to the table (README.md:405): a record
\* the poller has let go of agrees with CUPS.
ReleasedRecordAgrees ==
    \A d \in Docs :
        status[d] = "stopped" /\ tracked[recordId[d]] = Untracked => StateOf(d) = "stopped"

=============================================================================
