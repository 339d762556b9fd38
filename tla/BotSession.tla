----------------------------- MODULE BotSession -----------------------------
(***************************************************************************)
(* A document sent to the Feishu bot and the card it is printed from       *)
(* (api/bot_session.go, api/bot_actions.go).  A message's file is          *)
(* converted, a card is sent, the file is moved to bot-sessions/ and a     *)
(* session is stored under the card's id.  Clicks on the card, which stays *)
(* clickable for ever, choose a printer, print, confirm or cancel.         *)
(*                                                                         *)
(* Everything under botSessionsMu is one step.  A click looks the session  *)
(* up, answers with the card's next text and starts a goroutine, which     *)
(* claims the session later and is one step for each call after that.      *)
(***************************************************************************)
EXTENDS Naturals

CONSTANTS
    Messages,   \* messages with a document; each has its own session id
    Clicks,     \* goroutines that serve clicks
    TTL,        \* bot.card_timeout, in ticks of the clock
    MaxUnheard, \* bound: accepted jobs of one card whose answer is lost
    MaxUnsaved  \* bound: first passes of one card without a hook

ASSUME SessionAssumption ==
    /\ TTL \in Nat \ {0}
    /\ MaxUnheard \in Nat
    /\ MaxUnsaved \in Nat

VARIABLES
    stage,     \* how far the goroutine that serves the message has come
    file,      \* messages whose SourcePath is on disk
    live,      \* keys of botSessions
    busy,      \* those of them with ActionInProgress
    age,       \* time.Since(CreatedAt), counted up to the first value past TTL
    asked,     \* messages whose conflict card ("print anyway?") was sent
    pc,        \* the next step of each click
    card,      \* the message it belongs to
    kind,      \* "print", "confirm" or "cancel"
    jobs,      \* jobs (whole documents or first passes) CUPS has accepted
    unheard,   \* those of them whose answer never reached the server
    unsaved,   \* accepted first passes for which no hook has been saved
    hooks,     \* manual duplex hooks saved for the message
    cancelled  \* messages whose cancel was carried out

storeVars == <<file, live, busy, age>>
clickVars == <<pc, card, kind>>
printVars == <<jobs, unheard, unsaved, hooks>>
vars == <<stage, file, live, busy, age, asked, pc, card, kind,
          jobs, unheard, unsaved, hooks, cancelled>>

Stages == {"none", "prepared", "carded", "persisted", "saved", "failed"}
Kinds == {"print", "confirm", "cancel"}
Sending == {"sending", "sendingFirst"}
Holding == Sending \cup {"claimed", "warn", "saveHook", "release", "remove", "delete"}
PCs == {"idle", "claim", "unlink", "drop"} \cup Holding

Init ==
    /\ stage = [m \in Messages |-> "none"]
    /\ file = {} /\ live = {} /\ busy = {}
    /\ age = [m \in Messages |-> 0]
    /\ asked = {}
    /\ pc = [c \in Clicks |-> "idle"]
    /\ card \in [Clicks -> Messages]
    /\ kind = [c \in Clicks |-> "print"]
    /\ jobs = [m \in Messages |-> 0]
    /\ unheard = [m \in Messages |-> 0]
    /\ unsaved = [m \in Messages |-> 0]
    /\ hooks = [m \in Messages |-> 0]
    /\ cancelled = {}

Expired(m) == age[m] > TTL

----------------------------------------------------------------------------
(* From the message to the session. *)

\* The file is downloaded and converted; any failure answers and cleans up.
Prepare(m) ==
    /\ stage[m] = "none"
    /\ \E to \in {"prepared", "failed"} : stage' = [stage EXCEPT ![m] = to]
    /\ UNCHANGED <<storeVars, asked, clickVars, printVars, cancelled>>

\* The card is sent before there is a session behind it.
SendCard(m) ==
    /\ stage[m] = "prepared"
    /\ \E to \in {"carded", "failed"} : stage' = [stage EXCEPT ![m] = to]
    /\ UNCHANGED <<storeVars, asked, clickVars, printVars, cancelled>>

\* persistSessionFile; if it fails, the card stays and leads nowhere.
Persist(m) ==
    /\ stage[m] = "carded"
    /\ \/ stage' = [stage EXCEPT ![m] = "persisted"] /\ file' = file \cup {m}
       \/ stage' = [stage EXCEPT ![m] = "failed"] /\ UNCHANGED file
    /\ UNCHANGED <<live, busy, age, asked, clickVars, printVars, cancelled>>

\* saveBotSession
Save(m) ==
    /\ stage[m] = "persisted"
    /\ stage' = [stage EXCEPT ![m] = "saved"]
    /\ live' = live \cup {m}
    /\ UNCHANGED <<file, busy, age, asked, clickVars, printVars, cancelled>>

ServeMessage(m) == Prepare(m) \/ SendCard(m) \/ Persist(m) \/ Save(m)

----------------------------------------------------------------------------
(* A click: the lookup that answers it. *)

Goto(c, from, to) == pc[c] = from /\ pc' = [pc EXCEPT ![c] = to]

\* The session is there, unexpired and unclaimed, and the click is the
\* requester's: the card is answered as if the action had been taken.
Click(c, m, k) ==
    /\ m \in live /\ ~Expired(m) /\ m \notin busy
    /\ k = "confirm" => m \in asked
    /\ Goto(c, "idle", "claim")
    /\ card' = [card EXCEPT ![c] = m]
    /\ kind' = [kind EXCEPT ![c] = k]
    /\ UNCHANGED <<stage, storeVars, asked, printVars, cancelled>>

\* getBotSession reads an expired session under the read lock ...
LookupExpired(c, m) ==
    /\ m \in live /\ Expired(m)
    /\ Goto(c, "idle", "unlink")
    /\ card' = [card EXCEPT ![c] = m]
    /\ UNCHANGED <<stage, storeVars, asked, kind, printVars, cancelled>>

\* ... and removes its file without the lock, whoever has claimed it since.
UnlinkExpired(c) ==
    /\ Goto(c, "unlink", "drop")
    /\ file' = file \ {card[c]}
    /\ UNCHANGED <<stage, live, busy, age, asked, card, kind, printVars, cancelled>>

\* Variant: the session goes, its claim stays behind.
DropKeepsClaim(c) ==
    /\ Goto(c, "drop", "idle")
    /\ live' = live \ {card[c]}
    /\ UNCHANGED <<stage, file, busy, age, asked, card, kind, printVars, cancelled>>

\* deleteBotSession
DropExpired(c) ==
    /\ Goto(c, "drop", "idle")
    /\ live' = live \ {card[c]}
    /\ busy' = busy \ {card[c]}
    /\ UNCHANGED <<stage, file, age, asked, card, kind, printVars, cancelled>>

----------------------------------------------------------------------------
(* The goroutine: handleBotPrint and handleBotCancel. *)

\* Variant: ActionInProgress is not looked at.
ClaimUnguarded(c) ==
    LET m == card[c] IN
    /\ m \in live /\ ~Expired(m)
    /\ Goto(c, "claim", "claimed")
    /\ busy' = busy \cup {m}
    /\ UNCHANGED <<stage, file, live, age, asked, card, kind, printVars, cancelled>>

\* claimBotSessionAction succeeds
Claim(c) ==
    LET m == card[c] IN
    /\ m \in live /\ ~Expired(m) /\ m \notin busy
    /\ Goto(c, "claim", "claimed")
    /\ busy' = busy \cup {m}
    /\ UNCHANGED <<stage, file, live, age, asked, card, kind, printVars, cancelled>>

\* ... or not: an expired session goes with its file; a missing or claimed one
\* ends the goroutine without a word to the user.
ClaimRefused(c) ==
    LET m == card[c] IN
    /\ Goto(c, "claim", "idle")
    /\ IF m \in live /\ Expired(m)
          THEN file' = file \ {m} /\ live' = live \ {m} /\ busy' = busy \ {m}
          ELSE (m \in live => m \in busy) /\ UNCHANGED <<file, live, busy>>
    /\ UNCHANGED <<stage, age, asked, card, kind, printVars, cancelled>>

\* A value of the card is invalid, the printer is gone, page selection or
\* layout fails: the session is released, by hand or by the deferred function.
Abandon(c) ==
    /\ kind[c] # "cancel"
    /\ Goto(c, "claimed", "release")
    /\ UNCHANGED <<stage, storeVars, asked, card, kind, printVars, cancelled>>

\* activeJobWarningForPrinter finds a job of the printer; a confirmed card is
\* not asked again.
Warn(c) ==
    /\ kind[c] = "print"
    /\ Goto(c, "claimed", "warn")
    /\ UNCHANGED <<stage, storeVars, asked, card, kind, printVars, cancelled>>

\* The conflict card is sent, or the attempt fails and a text is sent instead.
Ask(c) ==
    /\ Goto(c, "warn", "release")
    /\ \E sent \in BOOLEAN : asked' = IF sent THEN asked \cup {card[c]} ELSE asked
    /\ UNCHANGED <<stage, storeVars, card, kind, printVars, cancelled>>

\* The pages come from the session's file; without it the print fails.  The
\* card's options decide whether only a first pass is sent.
ReadFile(c) ==
    /\ kind[c] # "cancel"
    /\ IF card[c] \in file
          THEN \E to \in Sending : Goto(c, "claimed", to)
          ELSE Goto(c, "claimed", "release")
    /\ UNCHANGED <<stage, storeVars, asked, card, kind, printVars, cancelled>>

Accepted(c) == jobs' = [jobs EXCEPT ![card[c]] = @ + 1]

\* Variant: the deferred release is not disarmed after a success.
JobAcceptedReleases(c) ==
    /\ Goto(c, "sending", "release")
    /\ Accepted(c)
    /\ UNCHANGED <<stage, storeVars, asked, card, kind, unheard, unsaved, hooks, cancelled>>

\* CUPS takes the document and the server hears of it.
JobAccepted(c) ==
    /\ Goto(c, "sending", "remove")
    /\ Accepted(c)
    /\ UNCHANGED <<stage, storeVars, asked, card, kind, unheard, unsaved, hooks, cancelled>>

\* CUPS takes the first pass and the server hears of it.
FirstPassAccepted(c) ==
    /\ unsaved[card[c]] < MaxUnsaved
    /\ Goto(c, "sendingFirst", "saveHook")
    /\ Accepted(c)
    /\ unsaved' = [unsaved EXCEPT ![card[c]] = @ + 1]
    /\ UNCHANGED <<stage, storeVars, asked, card, kind, unheard, hooks, cancelled>>

AnswerLost(c) ==
    /\ unheard[card[c]] < MaxUnheard
    /\ pc[c] \in Sending
    /\ pc' = [pc EXCEPT ![c] = "release"]
    /\ Accepted(c)
    /\ unheard' = [unheard EXCEPT ![card[c]] = @ + 1]
    /\ UNCHANGED <<stage, storeVars, asked, card, kind, unsaved, hooks, cancelled>>

JobRefused(c) ==
    /\ pc[c] \in Sending
    /\ pc' = [pc EXCEPT ![c] = "release"]
    /\ UNCHANGED <<stage, storeVars, asked, card, kind, printVars, cancelled>>

\* Variant: the session survives the first pass, as if it had to be kept for
\* the second one.
SaveHookReleases(c) ==
    /\ Goto(c, "saveHook", "release")
    /\ hooks' = [hooks EXCEPT ![card[c]] = @ + 1]
    /\ unsaved' = [unsaved EXCEPT ![card[c]] = @ - 1]
    /\ UNCHANGED <<stage, storeVars, asked, card, kind, jobs, unheard, cancelled>>

\* saveManualDuplexPending
SaveHook(c) ==
    /\ Goto(c, "saveHook", "remove")
    /\ hooks' = [hooks EXCEPT ![card[c]] = @ + 1]
    /\ unsaved' = [unsaved EXCEPT ![card[c]] = @ - 1]
    /\ UNCHANGED <<stage, storeVars, asked, card, kind, jobs, unheard, cancelled>>

\* It fails: the first pass is on paper, the session is released.
SaveHookFails(c) ==
    /\ Goto(c, "saveHook", "release")
    /\ UNCHANGED <<stage, storeVars, asked, card, kind, printVars, cancelled>>

BeginCancel(c) ==
    /\ kind[c] = "cancel"
    /\ Goto(c, "claimed", "remove")
    /\ UNCHANGED <<stage, storeVars, asked, card, kind, printVars, cancelled>>

\* Variant: the session is deleted but its file is not.
RemoveNothing(c) ==
    /\ Goto(c, "remove", "delete")
    /\ UNCHANGED <<stage, storeVars, asked, card, kind, printVars, cancelled>>

\* os.Remove(session.SourcePath)
RemoveFile(c) ==
    /\ Goto(c, "remove", "delete")
    /\ file' = file \ {card[c]}
    /\ UNCHANGED <<stage, live, busy, age, asked, card, kind, printVars, cancelled>>

\* deleteBotSession
Delete(c) ==
    /\ Goto(c, "delete", "idle")
    /\ live' = live \ {card[c]}
    /\ busy' = busy \ {card[c]}
    /\ cancelled' = IF kind[c] = "cancel" THEN cancelled \cup {card[c]} ELSE cancelled
    /\ UNCHANGED <<stage, file, age, asked, card, kind, printVars>>

\* Variant: what was prepared is cleaned up together with the source.
ReleaseDropsFile(c) ==
    /\ Goto(c, "release", "idle")
    /\ busy' = busy \ {card[c]}
    /\ file' = file \ {card[c]}
    /\ UNCHANGED <<stage, live, age, asked, card, kind, printVars, cancelled>>

\* Variant: the holder's copy of the session is stored back.
ReleaseRevives(c) ==
    /\ Goto(c, "release", "idle")
    /\ live' = live \cup {card[c]}
    /\ busy' = busy \ {card[c]}
    /\ UNCHANGED <<stage, file, age, asked, card, kind, printVars, cancelled>>

\* Variant: every release starts the card's timeout anew.
ReleaseRefreshes(c) ==
    /\ Goto(c, "release", "idle")
    /\ busy' = busy \ {card[c]}
    /\ age' = [age EXCEPT ![card[c]] = IF card[c] \in live THEN 0 ELSE @]
    /\ UNCHANGED <<stage, file, live, asked, card, kind, printVars, cancelled>>

\* releaseBotSessionAction: nothing to do if the session is gone.
Release(c) ==
    /\ Goto(c, "release", "idle")
    /\ busy' = busy \ {card[c]}
    /\ UNCHANGED <<stage, file, live, age, asked, card, kind, printVars, cancelled>>

ClickStep(c) ==
    \/ UnlinkExpired(c) \/ DropExpired(c)
    \/ Claim(c) \/ ClaimRefused(c) \/ Abandon(c) \/ Warn(c) \/ Ask(c) \/ ReadFile(c)
    \/ JobAccepted(c) \/ FirstPassAccepted(c) \/ AnswerLost(c) \/ JobRefused(c)
    \/ SaveHook(c) \/ SaveHookFails(c)
    \/ BeginCancel(c) \/ RemoveFile(c) \/ Delete(c) \/ Release(c)

----------------------------------------------------------------------------
(* The cleaner, the clock, and a restart. *)

\* Variant: the cleaner does not look at the age of a session.
CleanAll ==
    /\ live # {}
    /\ file' = file \ live /\ live' = {} /\ busy' = {}
    /\ UNCHANGED <<stage, age, asked, clickVars, printVars, cancelled>>

\* A tick of the cleaner: every expired session goes, claimed or not.
Clean ==
    /\ \E m \in live : Expired(m)
    /\ LET old == {m \in live : Expired(m)} IN
          file' = file \ old /\ live' = live \ old /\ busy' = busy \ old
    /\ UNCHANGED <<stage, age, asked, clickVars, printVars, cancelled>>

Tick ==
    /\ \E m \in live : ~Expired(m)
    /\ age' = [m \in Messages |-> IF m \in live /\ ~Expired(m) THEN age[m] + 1 ELSE age[m]]
    /\ UNCHANGED <<stage, file, live, busy, asked, clickVars, printVars, cancelled>>

\* The process dies and starts again: no sessions, InitTempDir wipes the files.
Restart ==
    /\ file' = {} /\ live' = {} /\ busy' = {}
    /\ pc' = [c \in Clicks |-> "idle"]
    /\ stage' = [m \in Messages |->
                   IF stage[m] \in {"prepared", "carded", "persisted"} THEN "failed" ELSE stage[m]]
    /\ UNCHANGED <<age, asked, card, kind, printVars, cancelled>>

Next ==
    \/ \E m \in Messages : ServeMessage(m)
    \/ \E c \in Clicks, m \in Messages : LookupExpired(c, m) \/ \E k \in Kinds : Click(c, m, k)
    \/ \E c \in Clicks : ClickStep(c)
    \/ Clean
    \/ Tick
    \/ Restart

Spec == Init /\ [][Next]_vars

\* Goroutines are scheduled, calls to CUPS and Feishu return, the cleaner's
\* ticker fires and time passes; users owe nothing.
Fairness ==
    /\ \A c \in Clicks : WF_vars(ClickStep(c))
    /\ WF_vars(Clean)
    /\ WF_vars(Tick)
FairSpec == Spec /\ Fairness

----------------------------------------------------------------------------
(* Properties. *)

Holds(c, m) == pc[c] \in Holding /\ card[c] = m
Held(m) == \E c \in Clicks : Holds(c, m)

\* A job of the card was accepted and its success acted upon.
Printed(m) == jobs[m] > unheard[m] + unsaved[m]

TypeOK ==
    /\ stage \in [Messages -> Stages]
    /\ file \subseteq Messages /\ live \subseteq Messages /\ busy \subseteq live
    /\ age \in [Messages -> 0 .. TTL + 1]
    /\ asked \subseteq Messages
    /\ pc \in [Clicks -> PCs]
    /\ card \in [Clicks -> Messages]
    /\ kind \in [Clicks -> Kinds]
    /\ jobs \in [Messages -> Nat]
    /\ unheard \in [Messages -> 0 .. MaxUnheard]
    /\ unsaved \in [Messages -> 0 .. MaxUnsaved]
    /\ hooks \in [Messages -> Nat]
    /\ cancelled \subseteq Messages

\* Two clicks on one document's cards (the choice, the options, the conflict
\* card, an old card) never act on its session at once (bot_session.go:119).
OneHolder ==
    \A c1, c2 \in Clicks : \A m \in Messages : Holds(c1, m) /\ Holds(c2, m) => c1 = c2

\* However often the cards are clicked, a document is printed once, not
\* counting jobs whose answer was lost and first passes without a hook, after
\* which the user is told of a failure (bot_actions.go:788, 796, 849) or the
\* server died.
\* A first pass that was followed by a hook counts as the one print: a session
\* never makes two hooks, whose second passes would both be offered.
PrintedOnce ==
    \A m \in Messages :
        /\ jobs[m] <= unheard[m] + unsaved[m] + 1
        /\ hooks[m] <= 1

\* A document that was cancelled was not printed and is not printed later, nor
\* does a hook for its second pass exist.
CancelHolds == \A m \in cancelled : ~Printed(m) /\ hooks[m] = 0

\* Neither the cleaner, nor a lookup, nor another click takes the session or its
\* file from the click that holds it before the card's timeout.
HolderKeepsFile ==
    \A c \in Clicks :
        /\ pc[c] \in Holding \ {"delete"}
        /\ ~Expired(card[c])
        => card[c] \in live /\ card[c] \in file

\* A session that can be claimed has its file, so that no click fails for want
\* of it, except between a holder's unlink and its delete.
ClaimableHasFile ==
    \A m \in live : ~Expired(m) =>
        m \in file \/ \E c \in Clicks : pc[c] = "delete" /\ card[c] = m

\* A file in bot-sessions/ belongs to a session, except for the moment between
\* the rename and saveBotSession: the cleaner, which only sees sessions, misses none.
NoOrphanFile == \A m \in file : m \in live \/ stage[m] = "persisted"

\* The bot session keeps the same promise as a hook: offered once, acted upon by
\* one click at a time, and printed, cancelled or lapsed for good.
Outcome(m) ==
    CASE Printed(m) -> "printed"
      [] ~Printed(m) /\ m \in cancelled -> "cancelled"
      [] ~Printed(m) /\ m \notin cancelled /\ m \in live -> "offered"
      [] ~Printed(m) /\ m \notin cancelled /\ m \notin live /\ stage[m] = "saved" -> "lapsed"
      [] OTHER -> "none"

Promise == INSTANCE SecondPass WITH
    Documents <- Messages,
    outcome <- [m \in Messages |-> Outcome(m)],
    acting <- {m \in Messages : Held(m)}

KeepsPromise == Promise!Spec

\* Every session ends and takes its file with it, even one whose holder hangs
\* on to it, and even if nobody ever clicks: nothing piles up on the server.
SessionsEnd == \A m \in Messages : m \in live ~> m \notin live /\ m \notin file

=============================================================================
