------------------------- MODULE ManualDuplexHooks -------------------------
(***************************************************************************)
(* The second pass of a manually duplexed document (api/manual_duplex.go   *)
(* and its callers in api/handlers.go and api/bot_actions.go).  One side   *)
(* of the sheets is printed at once; the pages of the other side are kept  *)
(* in a file in the temp directory, named by a hook in an in-memory map.   *)
(* The user turns the stack over and continues, extends or cancels the     *)
(* hook, over HTTP or by a card of the Feishu bot.                         *)
(*                                                                         *)
(* Everything under the lock of manualDuplexStore is one step.  What the   *)
(* code does outside that lock (claim, open the file, send it to CUPS,     *)
(* unlink the file, delete the hook) is one step each, so that the other   *)
(* goroutines, the clock and a restart of the process come in between.     *)
(***************************************************************************)
EXTENDS Naturals

CONSTANTS
    Tokens,         \* hook tokens: one for each manually duplexed document
    Requests,       \* goroutines that continue or cancel hooks
    PageCounts,     \* pages * copies of a document; 0 when they could not be counted
    PerPageTimeout, \* printers[].manual_duplex_per_page_timeout
    MinTimeout,     \* printing.manual_duplex_min_timeout
    ExtendWindow,   \* printing.manual_duplex_extend_window
    MaxTime,        \* bound: the clock stops here
    MaxUnheard      \* bound: accepted jobs of one document whose answer is lost

ASSUME ConfigAssumption ==
    /\ PageCounts \subseteq Nat
    /\ PerPageTimeout \in Nat \ {0}
    /\ MinTimeout \in Nat \ {0}
    /\ ExtendWindow \in Nat \ {0}
    /\ MaxTime \in Nat
    /\ MaxUnheard \in Nat

VARIABLES
    now,       \* time.Now()
    origin,    \* who prints the document: "web", "webCopies" (copies > 1), "bot"
    stage,     \* how far the goroutine that creates the hook has come
    original,  \* documents whose secondPassPath is on disk beside the copied file
    staged,    \* documents whose RemainingFilePath is on disk
    live,      \* tokens in manualDuplexStore.items
    busy,      \* those of them with ActionInProgress
    expiresAt, \* their ExpiresAt
    pc,        \* the next step of each request
    token,     \* the token it names
    kind,      \* "continue" or "cancel"
    jobs,      \* second-pass jobs of the document that CUPS has accepted
    unheard,   \* those of them whose answer never reached the server
    cancelled, \* documents whose cancel was carried out and confirmed
    promised   \* documents whose card says that the rest is cancelled

createVars == <<origin, stage>>
diskVars == <<original, staged>>
hookVars == <<live, busy, expiresAt>>
requestVars == <<pc, token, kind>>
cupsVars == <<jobs, unheard>>
userVars == <<cancelled, promised>>
vars == <<now, origin, stage, original, staged, live, busy, expiresAt,
          pc, token, kind, jobs, unheard, cancelled, promised>>

Origins == {"web", "webCopies", "bot"}
Stages == {"none", "prepared", "firstPass", "saved", "failed"}
Kinds == {"continue", "cancel"}
Holding == {"claimed", "sending", "release", "remove", "delete"}
PCs == {"idle", "claim"} \cup Holding

Init ==
    /\ now = 0
    /\ origin \in [Tokens -> Origins]
    /\ stage = [t \in Tokens |-> "none"]
    /\ original = {} /\ staged = {}
    /\ live = {} /\ busy = {}
    /\ expiresAt = [t \in Tokens |-> 0]
    /\ pc = [r \in Requests |-> "idle"]
    /\ token \in [Requests -> Tokens]
    /\ kind = [r \in Requests |-> "continue"]
    /\ jobs = [t \in Tokens |-> 0]
    /\ unheard = [t \in Tokens |-> 0]
    /\ cancelled = {} /\ promised = {}

----------------------------------------------------------------------------
(* The hook store. *)

\* manualDuplexTimeout: max(min_timeout, pages * per_page_timeout).
HookTimeout(pages) ==
    IF pages * PerPageTimeout > MinTimeout THEN pages * PerPageTimeout ELSE MinTimeout

Expired(t) == now > expiresAt[t]

\* Variant: the hook goes, its claim stays behind.
DropKeepsClaim(t) ==
    /\ staged' = staged \ {t}
    /\ live' = live \ {t}
    /\ UNCHANGED busy

\* An expired hook goes, with its file, the first time a lookup meets it,
\* claimed or not.
Drop(t) ==
    /\ staged' = staged \ {t}
    /\ live' = live \ {t}
    /\ busy' = busy \ {t}

----------------------------------------------------------------------------
(* Creating a hook: prepare the files, print the first pass, save the hook. *)

\* prepareManualDuplexFiles, then (web only) applyCopiesMode, which for
\* copies > 1 writes a second file and leaves secondPassPath where it is.
Prepare(t) ==
    /\ stage[t] = "none"
    /\ stage' = [stage EXCEPT ![t] = "prepared"]
    /\ staged' = staged \cup {t}
    /\ original' = IF origin[t] = "webCopies" THEN original \cup {t} ELSE original
    /\ UNCHANGED <<now, origin, hookVars, requestVars, cupsVars, userVars>>

\* applyCopiesMode fails: the handler returns, secondPassPath stays on disk.
CopiesFail(t) ==
    /\ stage[t] = "none" /\ origin[t] = "webCopies"
    /\ stage' = [stage EXCEPT ![t] = "failed"]
    /\ original' = original \cup {t}
    /\ UNCHANGED <<now, origin, staged, hookVars, requestVars, cupsVars, userVars>>

\* The first pass is submitted; if that fails nobody removes the staged file.
SubmitFirstPass(t) ==
    /\ stage[t] = "prepared"
    /\ \E ok \in BOOLEAN :
          stage' = [stage EXCEPT ![t] = IF ok THEN "firstPass" ELSE "failed"]
    /\ UNCHANGED <<now, origin, diskVars, hookVars, requestVars, cupsVars, userVars>>

\* saveManualDuplexPending
Save(t) ==
    /\ stage[t] = "firstPass"
    /\ stage' = [stage EXCEPT ![t] = "saved"]
    /\ live' = live \cup {t}
    /\ \E pages \in PageCounts :
          expiresAt' = [expiresAt EXCEPT ![t] = now + HookTimeout(pages)]
    /\ UNCHANGED <<now, origin, diskVars, busy, requestVars, cupsVars, userVars>>

\* randomToken fails.  The HTTP handler removes the staged file, the bot does not.
SaveFails(t) ==
    /\ stage[t] = "firstPass"
    /\ stage' = [stage EXCEPT ![t] = "failed"]
    /\ staged' = IF origin[t] = "bot" THEN staged ELSE staged \ {t}
    /\ UNCHANGED <<now, origin, original, hookVars, requestVars, cupsVars, userVars>>

Create(t) ==
    Prepare(t) \/ CopiesFail(t) \/ SubmitFirstPass(t) \/ Save(t) \/ SaveFails(t)

----------------------------------------------------------------------------
(* Lookups and the extend endpoint: one step under the lock. *)

\* getManualDuplexPending, or a refused extend, meets an expired hook.
LookupExpired(t) ==
    /\ t \in live /\ Expired(t)
    /\ Drop(t)
    /\ UNCHANGED <<now, createVars, original, expiresAt, requestVars, cupsVars, userVars>>

\* Variant: the check of the window is gone.
ExtendAnytime(t) ==
    /\ t \in live /\ ~Expired(t) /\ t \notin busy
    /\ expiresAt' = [expiresAt EXCEPT ![t] = now + MinTimeout]
    /\ UNCHANGED <<now, createVars, diskVars, live, busy, requestVars, cupsVars, userVars>>

\* extendManualDuplexPending: only within ExtendWindow of the expiry.
Extend(t) ==
    /\ t \in live /\ ~Expired(t) /\ t \notin busy
    /\ expiresAt[t] - now <= ExtendWindow
    /\ expiresAt' = [expiresAt EXCEPT ![t] = now + MinTimeout]
    /\ UNCHANGED <<now, createVars, diskVars, live, busy, requestVars, cupsVars, userVars>>

----------------------------------------------------------------------------
(* Requests that continue or cancel a hook. *)

Goto(r, from, to) == pc[r] = from /\ pc' = [pc EXCEPT ![r] = to]

Start(r, t, k) ==
    /\ Goto(r, "idle", "claim")
    /\ token' = [token EXCEPT ![r] = t]
    /\ kind' = [kind EXCEPT ![r] = k]

\* POST .../continue or .../cancel for a token the server once gave out.
WebRequest(r, t, k) ==
    /\ stage[t] = "saved"
    /\ Start(r, t, k)
    /\ UNCHANGED <<now, createVars, diskVars, hookVars, cupsVars, userVars>>

\* A click on the bot's card looks the hook up and answers with the card's
\* final text; the goroutine it starts claims the hook later.
CardClick(r, t, k) ==
    /\ origin[t] = "bot"
    /\ t \in live /\ ~Expired(t) /\ t \notin busy
    /\ Start(r, t, k)
    /\ promised' = IF k = "cancel" THEN promised \cup {t} ELSE promised
    /\ UNCHANGED <<now, createVars, diskVars, hookVars, cupsVars, cancelled>>

\* Variant: ActionInProgress is not looked at.
ClaimUnguarded(r) ==
    LET t == token[r] IN
    /\ t \in live /\ ~Expired(t)
    /\ Goto(r, "claim", "claimed")
    /\ busy' = busy \cup {t}
    /\ UNCHANGED <<now, createVars, diskVars, live, expiresAt, token, kind, cupsVars, userVars>>

\* claimManualDuplexPending succeeds
Claim(r) ==
    LET t == token[r] IN
    /\ t \in live /\ ~Expired(t) /\ t \notin busy
    /\ Goto(r, "claim", "claimed")
    /\ busy' = busy \cup {t}
    /\ UNCHANGED <<now, createVars, diskVars, live, expiresAt, token, kind, cupsVars, userVars>>

\* ... or answers "not found, already used, or already processing"
ClaimRefused(r) ==
    LET t == token[r] IN
    /\ Goto(r, "claim", "idle")
    /\ IF t \in live /\ Expired(t)
          THEN Drop(t)
          ELSE /\ t \in live => t \in busy
               /\ UNCHANGED <<staged, live, busy>>
    /\ UNCHANGED <<now, createVars, original, expiresAt, token, kind, cupsVars, userVars>>

\* Variant: an error path returns without releasing the hook.
AbandonHeld(r) ==
    /\ Goto(r, "claimed", "idle")
    /\ UNCHANGED <<now, createVars, diskVars, hookVars, token, kind, cupsVars, userVars>>

\* The printer cannot be resolved, its URI is invalid, the configuration is
\* missing, or a card's operator is not the requester.
Abandon(r) ==
    /\ Goto(r, "claimed", "release")
    /\ UNCHANGED <<now, createVars, diskVars, hookVars, token, kind, cupsVars, userVars>>

\* SubmitJob stats and opens the staged file before it talks to CUPS.
OpenFile(r) ==
    /\ kind[r] = "continue"
    /\ Goto(r, "claimed", IF token[r] \in staged THEN "sending" ELSE "release")
    /\ UNCHANGED <<now, createVars, diskVars, hookVars, token, kind, cupsVars, userVars>>

Accepted(r) == jobs' = [jobs EXCEPT ![token[r]] = @ + 1]

\* Variant: the hook is released after a successful submission as well.
JobAcceptedReleases(r) ==
    /\ Goto(r, "sending", "release")
    /\ Accepted(r)
    /\ UNCHANGED <<now, createVars, diskVars, hookVars, token, kind, unheard, userVars>>

\* CUPS takes the job and the server hears of it.
JobAccepted(r) ==
    /\ Goto(r, "sending", "remove")
    /\ Accepted(r)
    /\ UNCHANGED <<now, createVars, diskVars, hookVars, token, kind, unheard, userVars>>

\* CUPS takes the job, but its answer is lost or comes too late.
AnswerLost(r) ==
    /\ Goto(r, "sending", "release")
    /\ unheard[token[r]] < MaxUnheard
    /\ unheard' = [unheard EXCEPT ![token[r]] = @ + 1]
    /\ Accepted(r)
    /\ UNCHANGED <<now, createVars, diskVars, hookVars, token, kind, userVars>>

\* CUPS refuses the job or cannot be reached.
JobRefused(r) ==
    /\ Goto(r, "sending", "release")
    /\ UNCHANGED <<now, createVars, diskVars, hookVars, token, kind, cupsVars, userVars>>

\* A cancel untracks the job (and, for the bot, updates its record) first.
BeginCancel(r) ==
    /\ kind[r] = "cancel"
    /\ Goto(r, "claimed", "remove")
    /\ UNCHANGED <<now, createVars, diskVars, hookVars, token, kind, cupsVars, userVars>>

\* Variant: the staged file is left behind.
RemoveNothing(r) ==
    /\ Goto(r, "remove", "delete")
    /\ UNCHANGED <<now, createVars, diskVars, hookVars, token, kind, cupsVars, userVars>>

\* os.Remove(pending.RemainingFilePath)
RemoveFile(r) ==
    /\ Goto(r, "remove", "delete")
    /\ staged' = staged \ {token[r]}
    /\ UNCHANGED <<now, createVars, original, hookVars, token, kind, cupsVars, userVars>>

\* Variant: the hook is released where it should be deleted.
FinishReleases(r) ==
    /\ Goto(r, "delete", "idle")
    /\ busy' = busy \ {token[r]}
    /\ cancelled' = IF kind[r] = "cancel" THEN cancelled \cup {token[r]} ELSE cancelled
    /\ UNCHANGED <<now, createVars, diskVars, live, expiresAt, token, kind, cupsVars, promised>>

\* deleteManualDuplexPending, and the answer to the user
Finish(r) ==
    /\ Goto(r, "delete", "idle")
    /\ live' = live \ {token[r]}
    /\ busy' = busy \ {token[r]}
    /\ cancelled' = IF kind[r] = "cancel" THEN cancelled \cup {token[r]} ELSE cancelled
    /\ UNCHANGED <<now, createVars, diskVars, expiresAt, token, kind, cupsVars, promised>>

\* Variant: the item is written back without looking whether it is still there.
ReleaseRevives(r) ==
    /\ Goto(r, "release", "idle")
    /\ live' = live \cup {token[r]}
    /\ busy' = busy \ {token[r]}
    /\ UNCHANGED <<now, createVars, diskVars, expiresAt, token, kind, cupsVars, userVars>>

\* releaseManualDuplexPending: nothing to do if the hook is gone.
Release(r) ==
    /\ Goto(r, "release", "idle")
    /\ busy' = busy \ {token[r]}
    /\ UNCHANGED <<now, createVars, diskVars, live, expiresAt, token, kind, cupsVars, userVars>>

HandlerStep(r) ==
    \/ Claim(r) \/ ClaimRefused(r) \/ Abandon(r) \/ OpenFile(r)
    \/ JobAccepted(r) \/ AnswerLost(r) \/ JobRefused(r)
    \/ BeginCancel(r) \/ RemoveFile(r) \/ Finish(r) \/ Release(r)

----------------------------------------------------------------------------
Tick ==
    /\ now < MaxTime
    /\ now' = now + 1
    /\ UNCHANGED <<createVars, diskVars, hookVars, requestVars, cupsVars, userVars>>

\* The process dies and starts again: the store is empty, InitTempDir wipes the
\* temp directory, and the goroutines that were creating or acting are gone.
Restart ==
    /\ live' = {} /\ busy' = {}
    /\ original' = {} /\ staged' = {}
    /\ pc' = [r \in Requests |-> "idle"]
    /\ stage' = [t \in Tokens |->
                   IF stage[t] \in {"prepared", "firstPass"} THEN "failed" ELSE stage[t]]
    /\ UNCHANGED <<now, origin, expiresAt, token, kind, cupsVars, userVars>>

Next ==
    \/ \E t \in Tokens : Create(t) \/ LookupExpired(t) \/ Extend(t)
    \/ \E r \in Requests, t \in Tokens, k \in Kinds : WebRequest(r, t, k) \/ CardClick(r, t, k)
    \/ \E r \in Requests : HandlerStep(r)
    \/ Tick
    \/ Restart

Spec == Init /\ [][Next]_vars

\* Goroutines are scheduled and CUPS calls return (the IPP transport gives up
\* on an answer that does not come); users and the clock owe nothing.
Fairness == \A r \in Requests : WF_vars(HandlerStep(r))
FairSpec == Spec /\ Fairness

----------------------------------------------------------------------------
(* Properties. *)

Holds(r, t) == pc[r] \in Holding /\ token[r] = t
Held(t) == \E r \in Requests : Holds(r, t)

\* A continue was answered with a job id: CUPS accepted it and the server knows.
Printed(t) == jobs[t] > unheard[t]

TypeOK ==
    /\ now \in 0 .. MaxTime
    /\ origin \in [Tokens -> Origins]
    /\ stage \in [Tokens -> Stages]
    /\ original \subseteq Tokens /\ staged \subseteq Tokens
    /\ live \subseteq Tokens /\ busy \subseteq live
    /\ expiresAt \in [Tokens -> Nat]
    /\ pc \in [Requests -> PCs]
    /\ token \in [Requests -> Tokens]
    /\ kind \in [Requests -> Kinds]
    /\ jobs \in [Tokens -> Nat]
    /\ unheard \in [Tokens -> 0 .. MaxUnheard]
    /\ cancelled \subseteq Tokens /\ promised \subseteq Tokens

\* However claims, releases, expiry and clicks interleave, two requests never
\* act on one hook at once (claimManualDuplexPending, manual_duplex.go:92).
OneHolder ==
    \A r1, r2 \in Requests : \A t \in Tokens :
        Holds(r1, t) /\ Holds(r2, t) => r1 = r2

\* The remaining pages are printed at most once, not counting jobs whose answer
\* the server never heard: a refused or failed continue may be repeated, an
\* answered one may not (handlers.go:1013-1024, bot_actions.go:944-952).
PrintedAtMostOnce == \A t \in Tokens : jobs[t] \in {unheard[t], unheard[t] + 1}

\* Once a continue is answered or a cancel confirmed, CUPS gets no further job
\* for the document, whatever requests are still on their way.
NoJobOnceSettled ==
    \A t \in Tokens : jobs'[t] # jobs[t] => ~Printed(t) /\ t \notin cancelled
SettledIsFinal == [][NoJobOnceSettled]_vars

\* A document is never both reported cancelled and reported printed.
NotBothReported == \A t \in cancelled : ~Printed(t)

\* While the hook has not expired, nobody takes the hook or its file from the
\* request that claimed it, before it has opened or removed the file.
HolderKeepsHook ==
    \A r \in Requests :
        pc[r] \in {"claimed", "sending", "remove"} /\ ~Expired(token[r]) =>
            token[r] \in live /\ token[r] \in staged

\* A hook that can be looked up has its file, so that a continue cannot fail
\* for want of it, except in the moment between a holder's unlink and delete.
OfferedHookHasFile ==
    \A t \in live : t \in staged \/ \E r \in Requests : pc[r] = "delete" /\ token[r] = t

\* The staged file of a saved hook does not outlive the hook: every way out of
\* the store (continue, cancel, expiry met by a lookup, restart) removes it.
NoFileWithoutHook ==
    \A t \in staged : stage[t] = "saved" => t \in live

\* extendManualDuplexPending counts from now, not from the expiry, and no
\* configuration rules out a window longer than the minimum timeout: what an
\* extension takes away is at most what the window exceeds the minimum by, whoever
\* extends, and no other step of any actor moves the expiry of a hook.
ShortensByExcess ==
    \A t \in live : t \in live' /\ expiresAt'[t] # expiresAt[t] =>
        expiresAt'[t] + ExtendWindow >= expiresAt[t] + MinTimeout
ExtensionBounded == [][ShortensByExcess]_vars

\* The inductive invariant behind the safety properties.
\*   UnsavedIsFresh   nothing has happened yet to a document without a hook;
\*   HolderMarked     while the hook of a holder exists, it is marked in progress,
\*                    so that nobody else can claim it;
\*   SettledUnclaimed a printed document's hook cannot be claimed again and only
\*                    its printer still cleans up; a cancelled one has no holder;
\*   ReadyToDelete    the holder unlinks the file before it deletes the hook, and a
\*                    continue does neither before the document is printed.
UnsavedIsFresh ==
    \A t \in Tokens : stage[t] # "saved" =>
        /\ t \notin live /\ t \notin cancelled
        /\ jobs[t] = 0 /\ unheard[t] = 0
        /\ \A r \in Requests : pc[r] # "idle" => token[r] # t
        /\ stage[t] \in {"prepared", "firstPass"} => t \in staged
        /\ stage[t] = "none" => t \notin staged

HolderMarked ==
    \A r \in Requests : pc[r] \in Holding /\ token[r] \in live => token[r] \in busy

SettledUnclaimed ==
    \A t \in Tokens :
        /\ Printed(t) =>
              /\ t \in live => t \in busy
              /\ \A r \in Requests :
                    Holds(r, t) => pc[r] \in {"remove", "delete"} /\ kind[r] = "continue"
        /\ t \in cancelled => t \notin live /\ ~Held(t)

ReadyToDelete ==
    \A r \in Requests :
        /\ pc[r] = "sending" => kind[r] = "continue"
        /\ pc[r] = "delete" => token[r] \notin staged
        /\ pc[r] \in {"remove", "delete"} /\ kind[r] = "continue" => Printed(token[r])

IndInv ==
    /\ TypeOK
    /\ UnsavedIsFresh
    /\ HolderMarked
    /\ OneHolder
    /\ PrintedAtMostOnce
    /\ SettledUnclaimed
    /\ NotBothReported
    /\ ReadyToDelete
    /\ HolderKeepsHook
    /\ OfferedHookHasFile
    /\ NoFileWithoutHook

\* The hook store keeps the promise of SecondPass.
Outcome(t) ==
    CASE Printed(t) -> "printed"
      [] ~Printed(t) /\ t \in cancelled -> "cancelled"
      [] ~Printed(t) /\ t \notin cancelled /\ t \in live -> "offered"
      [] ~Printed(t) /\ t \notin cancelled /\ t \notin live /\ stage[t] = "saved" -> "lapsed"
      [] OTHER -> "none"

Promise == INSTANCE SecondPass WITH
    Documents <- Tokens,
    outcome <- [t \in Tokens |-> Outcome(t)],
    acting <- {t \in Tokens : Held(t)}

KeepsPromise == Promise!Spec

\* No failure leaves a hook claimed for ever: a hook in progress is released,
\* deleted or dropped, so that the user can try again or is told it is gone.
ClaimsEnd == \A t \in Tokens : t \in busy ~> t \notin busy

(* A statement of the repository that the code does not keep. *)

\* The card that answers a click on "cancel" says that the remaining pages are
\* cancelled (bot_actions.go:309).
CancelCardIsTrue == \A t \in promised : ~Printed(t)

=============================================================================
