--------------------------- MODULE SubmitPipeline ---------------------------
(***************************************************************************)
(* What an HTTP request goes through before its document is at CUPS: the   *)
(* one submit slot (api/submitqueue), the cache of uploaded and converted  *)
(* files named by content hash (api/handlers.go, api/office_cache.go), the *)
(* conversion service, or the export of a Feishu document.                 *)
(*                                                                         *)
(* The slot is a token in a channel of capacity one; it is held from the   *)
(* upload to the end of the handler.  The cache cleaner and the conversion *)
(* service know nothing of the slot.  A step is one call to the file       *)
(* system, the converter, Feishu, CUPS or the table.  A client may leave   *)
(* at any time; that cancels the context of its request.                   *)
(***************************************************************************)
EXTENDS Naturals

CONSTANTS
    Requests, \* HTTP requests
    Hashes,   \* contents of the documents that need conversion
    MaxPolls  \* feishuExportMaxPolls

ASSUME PipelineAssumption == MaxPolls \in Nat \ {0}

VARIABLES
    slot,       \* tokens in the channel: 1, or 0 while a request holds it
    pc,         \* the next step of each request
    kind,       \* what it asks for
    hash,       \* its content
    left,       \* requests whose client has gone: their context is cancelled
    polls,      \* polls of its export so far
    cache,      \* files of the cache: "absent", "fresh", or "old" (past cache_max_age)
    doomed,     \* files the cleaner has found old and is about to remove
    uploads,    \* requests whose upload is in output_dir
    converting, \* requests the conversion service works for
    outputs,    \* requests whose converted file is in output_dir
    stored,     \* requests that put their own conversion into the cache
    missed,     \* requests that did not find the PDF they had looked up or stored
    jobs        \* jobs CUPS accepted for each request

clientVars == <<kind, hash, left>>
requestVars == <<pc, kind, hash, left, polls>>
cacheVars == <<cache, doomed>>
fileVars == <<uploads, converting, outputs>>
historyVars == <<stored, missed, jobs>>
vars == <<slot, pc, kind, hash, left, polls, cache, doomed, uploads, converting, outputs,
          stored, missed, jobs>>

Kinds == {"print", "preview", "feishuPrint", "feishuPreview"}
Sides == {"source", "pdf"}
Files == Sides \X Hashes
Holding == {"upload", "keep", "move", "lookup", "convert", "await", "store",
            "parse", "resolve", "create", "export", "download",
            "check", "send", "write", "record", "release"}
AtFeishu == {"resolve", "create", "export", "download"}
PCs == {"idle", "waiting", "done"} \cup Holding

Source(r) == <<"source", hash[r]>>
Pdf(r) == <<"pdf", hash[r]>>
There(f) == cache[f] # "absent"
OfFeishu(r) == kind[r] \in {"feishuPrint", "feishuPreview"}
IsPreview(r) == kind[r] \in {"preview", "feishuPreview"}

Init ==
    /\ slot = 1
    /\ pc = [r \in Requests |-> "idle"]
    /\ kind \in [Requests -> Kinds]
    /\ hash \in [Requests -> Hashes]
    /\ left = {}
    /\ polls = [r \in Requests |-> 0]
    /\ cache = [f \in Files |-> "absent"]
    /\ doomed = {}
    /\ uploads = {} /\ converting = {} /\ outputs = {}
    /\ stored = {} /\ missed = {}
    /\ jobs = [r \in Requests |-> 0]

Goto(r, from, to) == pc[r] = from /\ pc' = [pc EXCEPT ![r] = to]

----------------------------------------------------------------------------
(* The client and the submit queue. *)

\* The client leaves; net/http cancels the context of its request.
Leave(r) ==
    /\ pc[r] \notin {"idle", "done"} /\ r \notin left
    /\ left' = left \cup {r}
    /\ UNCHANGED <<slot, pc, kind, hash, polls, cacheVars, fileVars, historyVars>>

Arrive(r) ==
    /\ Goto(r, "idle", "waiting")
    /\ UNCHANGED <<slot, clientVars, polls, cacheVars, fileVars, historyVars>>

\* Variant: the token is looked at, not taken.
AcquirePeeks(r) ==
    /\ slot > 0
    /\ Goto(r, "waiting", IF OfFeishu(r) THEN "parse" ELSE "upload")
    /\ UNCHANGED <<slot, clientVars, polls, cacheVars, fileVars, historyVars>>

\* Acquire receives the token.
Acquire(r) ==
    /\ slot > 0
    /\ slot' = slot - 1
    /\ Goto(r, "waiting", IF OfFeishu(r) THEN "parse" ELSE "upload")
    /\ UNCHANGED <<clientVars, polls, cacheVars, fileVars, historyVars>>

\* Variant: the token is received after the caller has given up on it.
GiveUpTakesToken(r) ==
    /\ Goto(r, "waiting", "done")
    /\ slot' = 0
    /\ UNCHANGED <<clientVars, polls, cacheVars, fileVars, historyVars>>

\* The wait times out or the client leaves, whether or not the token is there:
\* select takes either case.
GiveUp(r) ==
    /\ Goto(r, "waiting", "done")
    /\ UNCHANGED <<slot, clientVars, polls, cacheVars, fileVars, historyVars>>

\* The deferred Release is the last thing the handler does.  The channel has
\* capacity one: a second token would block it.
Release(r) ==
    /\ slot < 1
    /\ slot' = slot + 1
    /\ Goto(r, "release", "done")
    /\ UNCHANGED <<clientVars, polls, cacheVars, fileVars, historyVars>>

----------------------------------------------------------------------------
(* prepareUploadedSource and ensureCachedConvertedPDF. *)

\* The upload is written to output_dir and hashed; a failure removes it.
Upload(r) ==
    /\ \/ Goto(r, "upload", "keep") /\ uploads' = uploads \cup {r}
       \/ Goto(r, "upload", "release") /\ UNCHANGED uploads
    /\ UNCHANGED <<slot, clientVars, polls, cacheVars, converting, outputs, historyVars>>

\* The source is cached already: the upload is removed.  Its age is not looked at.
KeepSource(r) ==
    /\ pc[r] = "keep"
    /\ IF There(Source(r))
          THEN Goto(r, "keep", "lookup") /\ uploads' = uploads \ {r}
          ELSE Goto(r, "keep", "move") /\ UNCHANGED uploads
    /\ UNCHANGED <<slot, clientVars, polls, cacheVars, converting, outputs, historyVars>>

\* It is not: the upload is renamed into place.
MoveSource(r) ==
    /\ uploads' = uploads \ {r}
    /\ \/ Goto(r, "move", "lookup") /\ cache' = [cache EXCEPT ![Source(r)] = "fresh"]
       \/ Goto(r, "move", "release") /\ UNCHANGED cache
    /\ UNCHANGED <<slot, clientVars, polls, doomed, converting, outputs, historyVars>>

\* Variant: a hit refreshes the file's modification time.
LookupTouches(r) ==
    /\ Goto(r, "lookup", IF There(Pdf(r)) THEN "check" ELSE "convert")
    /\ cache' = [cache EXCEPT ![Pdf(r)] = IF @ = "absent" THEN @ ELSE "fresh"]
    /\ UNCHANGED <<slot, clientVars, polls, doomed, fileVars, historyVars>>

\* A hit leaves the modification time alone.
LookupPdf(r) ==
    /\ Goto(r, "lookup", IF There(Pdf(r)) THEN "check" ELSE "convert")
    /\ UNCHANGED <<slot, clientVars, polls, cacheVars, fileVars, historyVars>>

\* The conversion is asked for; the service fails at once if the source is gone.
Convert(r) ==
    /\ IF There(Source(r))
          THEN Goto(r, "convert", "await") /\ converting' = converting \cup {r}
          ELSE Goto(r, "convert", "release") /\ UNCHANGED converting
    /\ UNCHANGED <<slot, clientVars, polls, cacheVars, uploads, outputs, historyVars>>

\* The service writes a file of its own, or fails, whether or not the request
\* still waits for it.
ConverterEnds(r) ==
    /\ r \in converting
    /\ converting' = converting \ {r}
    /\ outputs' \in {outputs, outputs \cup {r}}
    /\ UNCHANGED <<slot, requestVars, cacheVars, uploads, historyVars>>

Converted(r) ==
    /\ r \in outputs
    /\ Goto(r, "await", "store")
    /\ UNCHANGED <<slot, clientVars, polls, cacheVars, fileVars, historyVars>>

\* The service failed, request_timeout has passed, or the client has left.
ConversionLost(r) ==
    /\ Goto(r, "await", "release")
    /\ UNCHANGED <<slot, clientVars, polls, cacheVars, fileVars, historyVars>>

\* The converted file is renamed into the cache; a failure removes it.
StorePdf(r) ==
    /\ outputs' = outputs \ {r}
    /\ \/ /\ Goto(r, "store", "check")
          /\ cache' = [cache EXCEPT ![Pdf(r)] = "fresh"]
          /\ stored' = stored \cup {r}
       \/ Goto(r, "store", "release") /\ UNCHANGED <<cache, stored>>
    /\ UNCHANGED <<slot, clientVars, polls, doomed, uploads, converting, missed, jobs>>

----------------------------------------------------------------------------
(* The rest of the handler. *)

Opens(r) == OfFeishu(r) \/ There(Pdf(r))

\* The page limit is checked on the PDF: it is opened by name.
CheckPages(r) ==
    /\ IF Opens(r)
          THEN /\ \E to \in {"send", "release"} : Goto(r, "check", to)
               /\ UNCHANGED missed
          ELSE Goto(r, "check", "release") /\ missed' = missed \cup {r}
    /\ UNCHANGED <<slot, clientVars, polls, cacheVars, fileVars, stored, jobs>>

\* It is opened again: a preview writes it to the client, a print submits it and
\* records the job after the client has been answered.
Send(r) ==
    /\ IF Opens(r)
          THEN /\ UNCHANGED missed
               /\ \/ IsPreview(r) /\ Goto(r, "send", "write") /\ UNCHANGED jobs
                  \/ /\ ~IsPreview(r)
                     /\ jobs' = [jobs EXCEPT ![r] = @ + 1]
                     /\ \E to \in {"record", "release"} : Goto(r, "send", to)
                  \/ ~IsPreview(r) /\ Goto(r, "send", "release") /\ UNCHANGED jobs
          ELSE Goto(r, "send", "release") /\ missed' = missed \cup {r} /\ UNCHANGED jobs
    /\ UNCHANGED <<slot, clientVars, polls, cacheVars, fileVars, stored>>

\* The client has taken the whole preview.  The server sets no limit to that.
Written(r) ==
    /\ Goto(r, "write", "release")
    /\ UNCHANGED <<slot, clientVars, polls, cacheVars, fileVars, historyVars>>

\* SaveJob, with the slot still held
Record(r) ==
    /\ Goto(r, "record", "release")
    /\ UNCHANGED <<slot, clientVars, polls, cacheVars, fileVars, historyVars>>

----------------------------------------------------------------------------
(* exportFeishuDocToPDF.  No call to Feishu has a timeout: each ends when      *)
(* Feishu answers, the connection fails, or the client has left.              *)

\* A call begun under a cancelled context fails at once.
Begins(r, step) == IF r \in left THEN "release" ELSE step

\* The Feishu client is made and the address read: a wiki address is resolved first.
ParseUrl(r) ==
    /\ \E to \in {Begins(r, "resolve"), Begins(r, "create"), "release"} : Goto(r, "parse", to)
    /\ UNCHANGED <<slot, clientVars, polls, cacheVars, fileVars, historyVars>>

\* The node is a document, another shortcut (each is followed, there is no bound),
\* or nothing to export.
Resolved(r) ==
    /\ pc[r] = "resolve"
    /\ \/ r \notin left /\ UNCHANGED pc
       \/ \E to \in {Begins(r, "create"), "release"} : Goto(r, "resolve", to)
    /\ UNCHANGED <<slot, clientVars, polls, cacheVars, fileVars, historyVars>>

Created(r) ==
    /\ \E to \in {Begins(r, "export"), "release"} : Goto(r, "create", to)
    /\ UNCHANGED <<slot, clientVars, polls, cacheVars, fileVars, historyVars>>

\* Variant: the bound is compared after the poll.
PolledOnceMore(r) ==
    /\ pc[r] = "export"
    /\ polls' = [polls EXCEPT ![r] = @ + 1]
    /\ \/ \E to \in {Begins(r, "download"), "release"} : Goto(r, "export", to)
       \/ polls[r] < MaxPolls /\ UNCHANGED pc
    /\ UNCHANGED <<slot, clientVars, cacheVars, fileVars, historyVars>>

\* One poll of the export task: done, failed, or (also when the call fails)
\* not yet; the loop ends after MaxPolls.
Polled(r) ==
    /\ pc[r] = "export"
    /\ polls' = [polls EXCEPT ![r] = @ + 1]
    /\ \/ \E to \in {Begins(r, "download"), "release"} : Goto(r, "export", to)
       \/ polls[r] + 1 < MaxPolls /\ UNCHANGED pc
    /\ UNCHANGED <<slot, clientVars, cacheVars, fileVars, historyVars>>

\* The PDF is in a temporary file of the request's own, or too large, or cut off.
Downloaded(r) ==
    /\ \E to \in {"check", "release"} : Goto(r, "download", to)
    /\ UNCHANGED <<slot, clientVars, polls, cacheVars, fileVars, historyVars>>

\* Variant: only the wait between two polls looks at the context.
CutOffPolling(r) ==
    /\ r \in left
    /\ pc[r] \in {"export", "write"}
    /\ Goto(r, pc[r], "release")
    /\ UNCHANGED <<slot, clientVars, polls, cacheVars, fileVars, historyVars>>

\* The client has left: a call to Feishu, the wait between two polls, and the
\* writing of a preview end with an error.
CutOff(r) ==
    /\ r \in left
    /\ pc[r] \in AtFeishu \cup {"write"}
    /\ Goto(r, pc[r], "release")
    /\ UNCHANGED <<slot, clientVars, polls, cacheVars, fileVars, historyVars>>

FeishuAnswers(r) == Resolved(r) \/ Created(r) \/ Polled(r) \/ Downloaded(r)

----------------------------------------------------------------------------
\* What the server does by itself, without Feishu's answers or the client's reading.
HandlerStep(r) ==
    \/ Upload(r) \/ KeepSource(r) \/ MoveSource(r) \/ LookupPdf(r) \/ Convert(r)
    \/ Converted(r) \/ ConversionLost(r) \/ StorePdf(r) \/ CheckPages(r) \/ Send(r)
    \/ Record(r) \/ ParseUrl(r) \/ CutOff(r) \/ Release(r)

----------------------------------------------------------------------------
(* The cleaner, time, and a restart. *)

\* Variant: the walk does not look at the modification time.
FindAny(f) ==
    /\ doomed = {} /\ There(f)
    /\ doomed' = {f}
    /\ UNCHANGED <<slot, requestVars, cache, fileVars, historyVars>>

\* The walk finds a file older than cache_max_age ...
FindOld(f) ==
    /\ doomed = {} /\ cache[f] = "old"
    /\ doomed' = {f}
    /\ UNCHANGED <<slot, requestVars, cache, fileVars, historyVars>>

\* ... and removes it by name.
RemoveOld(f) ==
    /\ f \in doomed
    /\ doomed' = {}
    /\ cache' = [cache EXCEPT ![f] = "absent"]
    /\ UNCHANGED <<slot, requestVars, fileVars, historyVars>>

\* A file passes cache_max_age, which is longer than a request takes from storing
\* a file to opening it.
Age(f) ==
    /\ cache[f] = "fresh"
    /\ \A r \in stored : pc[r] \in {"check", "send"} => Pdf(r) # f
    /\ cache' = [cache EXCEPT ![f] = "old"]
    /\ UNCHANGED <<slot, requestVars, doomed, fileVars, historyVars>>

\* The server dies and starts again: a new channel, no requests; the cache and
\* what lies beside it in output_dir stay, and so does the conversion service.
Restart ==
    /\ slot' = 1
    /\ pc' = [r \in Requests |-> IF pc[r] = "idle" THEN "idle" ELSE "done"]
    /\ doomed' = {}
    /\ UNCHANGED <<clientVars, polls, cache, fileVars, historyVars>>

Next ==
    \/ \E r \in Requests :
          \/ Leave(r) \/ Arrive(r) \/ Acquire(r) \/ GiveUp(r) \/ HandlerStep(r)
          \/ ConverterEnds(r) \/ FeishuAnswers(r) \/ Written(r)
    \/ \E f \in Files : FindOld(f) \/ RemoveOld(f) \/ Age(f)
    \/ Restart

Spec == Init /\ [][Next]_vars

\* Handlers are scheduled; the calls that have a timeout end (the wait for the
\* slot, the conversion, CUPS, the table), and so do those whose context is
\* cancelled.  Nothing is asked of Feishu, which may never answer, of the
\* conversion service, the cleaner, or a client, which may stop reading.
Fairness == \A r \in Requests : WF_vars(GiveUp(r)) /\ WF_vars(HandlerStep(r))
FairSpec == Spec /\ Fairness

----------------------------------------------------------------------------
(* Properties. *)

Holds(r) == pc[r] \in Holding

TypeOK ==
    /\ slot \in {0, 1}
    /\ pc \in [Requests -> PCs]
    /\ kind \in [Requests -> Kinds]
    /\ hash \in [Requests -> Hashes]
    /\ left \subseteq Requests
    /\ polls \in [Requests -> 0 .. MaxPolls]
    /\ cache \in [Files -> {"absent", "fresh", "old"}]
    /\ doomed \subseteq Files
    /\ uploads \subseteq Requests /\ converting \subseteq Requests
    /\ outputs \subseteq Requests
    /\ stored \subseteq Requests /\ missed \subseteq Requests
    /\ jobs \in [Requests -> Nat]

\* Uploads, conversions, exports and submissions of two requests never overlap.
OneAtATime == \A r1, r2 \in Requests : Holds(r1) /\ Holds(r2) => r1 = r2

\* The token is never lost, whether a wait times out as the token comes back, a
\* client leaves, a step fails or the server restarts: it is in the channel
\* exactly when no handler has it (queue.go:24-33).
SlotNeverLost == slot = 0 <=> \E r \in Requests : Holds(r)

\* A request whose own conversion went into the cache finds it there, whatever
\* the cleaner does in the meantime (handlers.go:320, 614).
OwnConversionStays == stored \cap missed = {}

\* A file leaves the cache only when it is old: what the cleaner saw is still
\* what it removes, although it takes no lock between look and removal.
FreshStays == \A f \in Files : cache[f] = "fresh" => cache'[f] # "absent"
FreshFileStays == [][FreshStays]_vars

\* A print of an uploaded file is answered in the end, whatever Feishu, the
\* conversion service and the other requests do: one that holds the slot for ever
\* costs it no more than its wait.  Any request, also one for which Feishu never
\* answers or serves a ring of shortcuts, or whose preview is not read, lets go of
\* the slot once its client has left; until then it may keep it (queue.go:24-33,
\* feishu_export.go:114, 197, 336).
MustEnd(r) == pc[r] # "idle" /\ (kind[r] = "print" \/ r \in left)
RequestsEnd == \A r \in Requests : MustEnd(r) ~> pc[r] = "done"

=============================================================================
