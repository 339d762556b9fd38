---------------------------- MODULE DuplexDialog ----------------------------
(***************************************************************************)
(* The web client's dialog for a hook (public/assets/index-DJmFytzG.js, the*)
(* print page and the job history) composed with the hook store of         *)
(* ManualDuplexHooks.  A dialog counts down to the expiry the server wrote *)
(* in an answer or a record, to the minute; its buttons continue, cancel or*)
(* extend.  Requests and answers travel, may be lost, and come back to a   *)
(* page that has moved on: the countdown has closed the dialog, or another *)
(* document has opened one.                                                *)
(***************************************************************************)
EXTENDS ManualDuplexHooks

CONSTANTS
    Tabs,    \* pages that show at most one dialog each
    None,    \* no dialog
    Minute,  \* bound: what the clock counts to a minute
    Zone     \* the server's local time is this far ahead of GMT

ASSUME DialogAssumption ==
    /\ Minute \in Nat \ {0} /\ Zone \in Nat
    /\ None \notin Tokens
    /\ Requests \cap {"unsent", "ok", "error"} = {}

VARIABLES
    posted,        \* the expiry a dialog is opened with (answer, job record)
    shown,         \* the document whose dialog the tab shows, or None
    deadline,      \* what its countdown runs to
    mode,          \* "idle", the confirmation of an extension, or what is in flight
    target,        \* the document that confirmation or request is about
    net,           \* the request on the server, or the answer on its way back
    fresh,         \* the deadline in the answer to an extension
    toldPrinted,   \* documents the user was told are printed
    toldCancelled  \* documents the user was told are cancelled

tabVars == <<posted, shown, deadline, mode, target, net, fresh, toldPrinted, toldCancelled>>
dialogVars == <<vars, tabVars>>

InFlight == {"continue", "cancel", "extend"}

DialogInit ==
    /\ Init
    /\ origin = [t \in Tokens |-> "web"]
    /\ posted = [t \in Tokens |-> 0]
    /\ shown = [d \in Tabs |-> None]
    /\ deadline = [d \in Tabs |-> 0]
    /\ mode = [d \in Tabs |-> "idle"]
    /\ target \in [Tabs -> Tokens]
    /\ net = [d \in Tabs |-> "unsent"]
    /\ fresh = [d \in Tabs |-> 0]
    /\ toldPrinted = {} /\ toldCancelled = {}

----------------------------------------------------------------------------
(* What the server writes and what the browser reads. *)

\* Variant: the time is rounded to the next minute.
ReadRoundsUp(time) == ((time + Minute - 1) \div Minute) * Minute + Zone

\* Format("2006-01-02 15:04") in local time, then new Date(... + " GMT").
Read(time) == (time \div Minute) * Minute + Zone

\* The hook is saved and its expiry goes into the answer and the record.
SaveAndAnswer(t) ==
    /\ Save(t)
    /\ posted' = [posted EXCEPT ![t] = expiresAt'[t]]
    /\ UNCHANGED <<shown, deadline, mode, target, net, fresh, toldPrinted, toldCancelled>>

\* syncManualDuplexExpireAtToBitable fails silently.
Synced(t) == posted' = posted \/ posted' = [posted EXCEPT ![t] = expiresAt'[t]]

\* An extension by another client.
ExtendElsewhere(t) ==
    /\ Extend(t)
    /\ Synced(t)
    /\ UNCHANGED <<shown, deadline, mode, target, net, fresh, toldPrinted, toldCancelled>>

----------------------------------------------------------------------------
(* The dialog.  Be is the setter of the page's dialog, We and qe of its two *)
(* "in flight" flags, which disable the buttons but not the print form.     *)

\* The answer to a submission, or "continue" in the job history, opens a dialog.
Open(d, t) ==
    /\ stage[t] = "saved"
    /\ shown[d] = None /\ mode[d] # "confirm"
    /\ shown' = [shown EXCEPT ![d] = t]
    /\ deadline' = [deadline EXCEPT ![d] = Read(posted[t])]
    /\ UNCHANGED <<vars, posted, mode, target, net, fresh, toldPrinted, toldCancelled>>

Close(d) ==
    /\ shown' = [shown EXCEPT ![d] = None]
    /\ deadline' = [deadline EXCEPT ![d] = 0]

\* The countdown, every second: at zero the dialog is closed.
CountedDown(d) ==
    /\ shown[d] # None /\ now >= deadline[d]
    /\ Close(d)
    /\ UNCHANGED <<vars, posted, mode, target, net, fresh, toldPrinted, toldCancelled>>

\* Ht, Ut: the request reaches a goroutine of the server, or nobody.
Press(d, k) ==
    /\ shown[d] # None /\ mode[d] = "idle"
    /\ mode' = [mode EXCEPT ![d] = k]
    /\ target' = [target EXCEPT ![d] = shown[d]]
    /\ \/ \E r \in Requests :
             /\ WebRequest(r, shown[d], k)
             /\ net' = [net EXCEPT ![d] = r]
       \/ /\ net' = [net EXCEPT ![d] = "error"]
          /\ UNCHANGED vars
    /\ UNCHANGED <<posted, shown, deadline, fresh, toldPrinted, toldCancelled>>

\* Wt: within the window before the deadline the user may ask for more time.
AskExtend(d) ==
    /\ shown[d] # None /\ mode[d] = "idle"
    /\ now < deadline[d] /\ deadline[d] - now <= ExtendWindow
    /\ mode' = [mode EXCEPT ![d] = "confirm"]
    /\ target' = [target EXCEPT ![d] = shown[d]]
    /\ UNCHANGED <<vars, posted, shown, deadline, net, fresh, toldPrinted, toldCancelled>>

Dismiss(d) ==
    /\ mode[d] = "confirm"
    /\ mode' = [mode EXCEPT ![d] = "idle"]
    /\ UNCHANGED <<vars, posted, shown, deadline, target, net, fresh, toldPrinted, toldCancelled>>

ExtendRefused(t) ==
    \/ LookupExpired(t)
    \/ /\ t \in live => ~Expired(t) /\ (t \in busy \/ expiresAt[t] - now > ExtendWindow)
       /\ UNCHANGED vars

\* Confirmed, with the dialog perhaps closed by now: the server extends the
\* hook, or refuses, or never hears of it; the answer may be lost.
ConfirmExtend(d) ==
    LET t == target[d] IN
    /\ mode[d] = "confirm"
    /\ mode' = [mode EXCEPT ![d] = "extend"]
    /\ \/ /\ Extend(t)
          /\ Synced(t)
          /\ \/ /\ net' = [net EXCEPT ![d] = "ok"]
                /\ fresh' = [fresh EXCEPT ![d] = Read(expiresAt'[t])]
             \/ /\ net' = [net EXCEPT ![d] = "error"]
                /\ UNCHANGED fresh
       \/ /\ ExtendRefused(t) \/ UNCHANGED vars
          /\ net' = [net EXCEPT ![d] = "error"]
          /\ UNCHANGED <<posted, fresh>>
    /\ UNCHANGED <<shown, deadline, target, toldPrinted, toldCancelled>>

Heard(d, k) ==
    /\ mode[d] = k /\ net[d] \in {"ok", "error"}
    /\ mode' = [mode EXCEPT ![d] = "idle"]
    /\ net' = [net EXCEPT ![d] = "unsent"]
    /\ UNCHANGED <<vars, posted, target>>

\* Variant: the buttons come back only after a success.
HearContinueOnce(d) ==
    /\ net[d] = "ok" /\ Heard(d, "continue")
    /\ Close(d)
    /\ toldPrinted' = toldPrinted \cup {target[d]}
    /\ UNCHANGED <<fresh, toldCancelled>>

\* A continue closes the dialog if it worked.
HearContinue(d) ==
    /\ Heard(d, "continue")
    /\ IF net[d] = "ok"
          THEN Close(d) /\ toldPrinted' = toldPrinted \cup {target[d]}
          ELSE UNCHANGED <<shown, deadline, toldPrinted>>
    /\ UNCHANGED <<fresh, toldCancelled>>

\* Variant: a failed cancel is reported like one that worked.
HearCancelAsDone(d) ==
    /\ Heard(d, "cancel")
    /\ Close(d)
    /\ toldCancelled' = toldCancelled \cup {target[d]}
    /\ UNCHANGED <<fresh, toldPrinted>>

\* A cancel closes it in any case, and says so only if it worked.
HearCancel(d) ==
    /\ Heard(d, "cancel")
    /\ Close(d)
    /\ toldCancelled' = IF net[d] = "ok" THEN toldCancelled \cup {target[d]} ELSE toldCancelled
    /\ UNCHANGED <<fresh, toldPrinted>>

\* An extension that worked opens it with the new deadline.
HearExtend(d) ==
    /\ Heard(d, "extend")
    /\ IF net[d] = "ok"
          THEN /\ shown' = [shown EXCEPT ![d] = target[d]]
               /\ deadline' = [deadline EXCEPT ![d] = fresh[d]]
          ELSE UNCHANGED <<shown, deadline>>
    /\ fresh' = [fresh EXCEPT ![d] = 0]
    /\ UNCHANGED <<toldPrinted, toldCancelled>>

Hear(d) == HearContinue(d) \/ HearCancel(d) \/ HearExtend(d)

\* Variant: the flags survive.
ReloadKeepsNet(d) ==
    /\ shown[d] # None \/ mode[d] # "idle"
    /\ Close(d)
    /\ mode' = [mode EXCEPT ![d] = "idle"]
    /\ UNCHANGED <<vars, posted, target, net, fresh, toldPrinted, toldCancelled>>

\* The tab is closed or reloaded; the server goes on with what it was sent.
Reload(d) ==
    /\ shown[d] # None \/ mode[d] # "idle"
    /\ Close(d)
    /\ mode' = [mode EXCEPT ![d] = "idle"]
    /\ net' = [net EXCEPT ![d] = "unsent"]
    /\ fresh' = [fresh EXCEPT ![d] = 0]
    /\ UNCHANGED <<vars, posted, target, toldPrinted, toldCancelled>>

----------------------------------------------------------------------------
(* The server's steps. *)

\* The goroutine answers as it ends; the answer may be lost on the way.
Serve(r) ==
    /\ HandlerStep(r)
    /\ IF pc'[r] = "idle"
          THEN \E heard \in {"error"} \cup {x \in {"ok"} : pc[r] = "delete"} :
                  net' = [d \in Tabs |-> IF net[d] = r THEN heard ELSE net[d]]
          ELSE net' = net
    /\ UNCHANGED <<posted, shown, deadline, mode, target, fresh, toldPrinted, toldCancelled>>

\* A restart breaks the connections.
RestartServer ==
    /\ Restart
    /\ net' = [d \in Tabs |-> IF net[d] \in Requests THEN "error" ELSE net[d]]
    /\ UNCHANGED <<posted, shown, deadline, mode, target, fresh, toldPrinted, toldCancelled>>

\* Documents are created, lookups drop expired hooks, other clients send
\* requests of their own, the clock runs.
Elsewhere ==
    /\ \/ \E t \in Tokens :
             Prepare(t) \/ SubmitFirstPass(t) \/ SaveFails(t) \/ LookupExpired(t)
       \/ \E r \in Requests, t \in Tokens, k \in Kinds :
             WebRequest(r, t, k) /\ \A d \in Tabs : net[d] # r
       \/ Tick
    /\ UNCHANGED tabVars

TabStep(d) ==
    \/ \E t \in Tokens : Open(d, t)
    \/ \E k \in Kinds : Press(d, k)
    \/ CountedDown(d) \/ AskExtend(d) \/ Dismiss(d) \/ ConfirmExtend(d)
    \/ Hear(d) \/ Reload(d)

DialogNext ==
    \/ \E d \in Tabs : TabStep(d)
    \/ \E r \in Requests : Serve(r)
    \/ \E t \in Tokens : SaveAndAnswer(t) \/ ExtendElsewhere(t)
    \/ Elsewhere
    \/ RestartServer

DialogSpec == DialogInit /\ [][DialogNext]_dialogVars

\* Goroutines run, browsers run their timers and callbacks, and a connection
\* ends in an answer or an error.
DialogFairSpec ==
    /\ DialogSpec
    /\ \A r \in Requests : WF_dialogVars(Serve(r))
    /\ \A d \in Tabs : WF_dialogVars(Hear(d)) /\ WF_dialogVars(CountedDown(d))

----------------------------------------------------------------------------
(* Properties. *)

DialogTypeOK ==
    /\ TypeOK
    /\ posted \in [Tokens -> Nat] /\ deadline \in [Tabs -> Nat] /\ fresh \in [Tabs -> Nat]
    /\ shown \in [Tabs -> Tokens \cup {None}]
    /\ mode \in [Tabs -> {"idle", "confirm"} \cup InFlight]
    /\ target \in [Tabs -> Tokens]
    /\ net \in [Tabs -> Requests \cup {"unsent", "ok", "error"}]
    /\ \A d \in Tabs : net[d] = "unsent" <=> mode[d] \notin InFlight
    /\ toldPrinted \subseteq Tokens /\ toldCancelled \subseteq Tokens

\* Whatever tabs, other clients, lost answers and restarts do, a user is told
\* that the rest is printed only if CUPS has it, that it is cancelled only if it
\* is and stays so, and no two tabs are told one and the other.
ToldIsTrue ==
    /\ \A t \in toldPrinted : Printed(t) /\ t \notin cancelled
    /\ \A t \in toldCancelled : t \in cancelled /\ ~Printed(t)

\* While a dialog counts down, the hook does not lapse under it: the store lets
\* it go only for a continue or a cancel that is done, or in a restart.
Lapses(t) ==
    /\ t \in live /\ t \notin live'
    /\ ~ \E r \in Requests : pc[r] = "delete" /\ token[r] = t /\ pc'[r] = "idle"
    /\ ~ (live' = {} /\ \A r \in Requests : pc'[r] = "idle")

\* The two errors of a countdown that the code does not rule out: the browser takes
\* the server's local time for GMT, and an extension by somebody else may shorten
\* the wait by what the window exceeds the minimum timeout.
Slack == Zone + IF ExtendWindow > MinTimeout THEN ExtendWindow - MinTimeout ELSE 0

\* However the reading cuts the time, whichever answers are lost and whoever else
\* extends, the dialog is not further from the truth than those two errors; with
\* the server on GMT and the default timeouts, no hook lapses under a countdown.
CountdownKept ==
    [][\A d \in Tabs, t \in Tokens :
          shown[d] = t /\ Lapses(t) => now + Slack >= deadline[d]]_dialogVars

\* Every press of a button is answered and the buttons come back.
PressesEnd == \A d \in Tabs : mode[d] \in InFlight ~> mode[d] \notin InFlight

=============================================================================
