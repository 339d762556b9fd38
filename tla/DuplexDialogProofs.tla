------------------------- MODULE DuplexDialogProofs -------------------------
(***************************************************************************)
(* What the users of the dialogs are told, for any number of pages,        *)
(* documents and requests.  Each step of the composition is a step of the  *)
(* hook store or none of its steps, so that all that is proved of the store*)
(* holds in the composition too; DialogInv adds what a page knows of the   *)
(* request it sent.                                                        *)
(***************************************************************************)
EXTENDS DuplexDialog, ManualDuplexHooksProofs

----------------------------------------------------------------------------
(* What the properties rest on. *)

\* A request under way for a tab is about the tab's document, and is not over.
RequestKnown ==
    \A d \in Tabs : net[d] \in Requests =>
        /\ token[net[d]] = target[d] /\ kind[net[d]] = mode[d]
        /\ pc[net[d]] # "idle"

\* A good answer on its way to a tab is true.
AnswerTrue ==
    \A d \in Tabs : net[d] = "ok" =>
        /\ mode[d] = "continue" => Printed(target[d])
        /\ mode[d] = "cancel" => target[d] \in cancelled

DialogInv ==
    /\ IndInv
    /\ DialogTypeOK
    /\ RequestKnown
    /\ AnswerTrue
    /\ ToldIsTrue

\* A time that is told of an expiry e at the time n: late by the zone, or, after an
\* extension, by the whole slack, and then the expiry is no further than the minimum
\* timeout.
Near(v, e, n) ==
    \/ v <= e + Zone
    \/ v <= e + Slack /\ e <= n + MinTimeout

\* A tab deals with documents that have a hook, and what it has been or will be
\* told of the expiry is near it.
DeadlineNear ==
    /\ \A t \in Tokens : stage[t] = "saved" => Near(Read(posted[t]), expiresAt[t], now)
    /\ \A d \in Tabs :
          /\ shown[d] # None =>
                stage[shown[d]] = "saved" /\ Near(deadline[d], expiresAt[shown[d]], now)
          /\ mode[d] # "idle" => stage[target[d]] = "saved"
          /\ net[d] = "ok" /\ mode[d] = "extend" =>
                Near(fresh[d], expiresAt[target[d]], now)

----------------------------------------------------------------------------
(* The hook store in the composition. *)

\* The composition starts where the hook store does.
LEMMA StartIsStart == DialogInit => Init
  BY DEF DialogInit

\* The endpoint for an extension does a step of the store, or nothing.
LEMMA ExtensionIsHookStep ==
    ASSUME NEW d \in Tabs, DialogTypeOK, ConfirmExtend(d)
    PROVE  [Next]_vars
<1>1. target[d] \in Tokens
  BY DEF DialogTypeOK
<1> QED  BY <1>1 DEF ConfirmExtend, ExtendRefused, Next

\* What a tab does is a request to the store, or the page's own affair.
LEMMA TabIsHookStep ==
    ASSUME NEW d \in Tabs, DialogTypeOK, TabStep(d)
    PROVE  [Next]_vars
<1>1. CASE \E t \in Tokens : Open(d, t)
  BY <1>1 DEF Open
<1>2. CASE \E k \in Kinds : Press(d, k)
  <2>1. PICK k \in Kinds : Press(d, k)
    BY <1>2
  <2>2. shown[d] # None => shown[d] \in Tokens
    BY DEF DialogTypeOK
  <2> QED  BY <2>1, <2>2 DEF Press, Next
<1>3. CASE CountedDown(d) \/ AskExtend(d) \/ Dismiss(d) \/ Reload(d)
  BY <1>3 DEF CountedDown, AskExtend, Dismiss, Reload
<1>4. CASE ConfirmExtend(d)
  BY <1>4, ExtensionIsHookStep
<1>5. CASE Hear(d)
  BY <1>5 DEF Hear, HearContinue, HearCancel, HearExtend, Heard
<1> QED  BY <1>1, <1>2, <1>3, <1>4, <1>5 DEF TabStep

\* Every step of the composition is a step of the hook store, or leaves it alone.
LEMMA DialogIsHookStep ==
    ASSUME DialogTypeOK, [DialogNext]_dialogVars
    PROVE  [Next]_vars
<1>1. CASE \E d \in Tabs : TabStep(d)
  BY <1>1, TabIsHookStep
<1>2. CASE \E r \in Requests : Serve(r)
  BY <1>2 DEF Serve, Next
<1>3. CASE \E t \in Tokens : SaveAndAnswer(t) \/ ExtendElsewhere(t)
  BY <1>3 DEF SaveAndAnswer, ExtendElsewhere, Create, Next
<1>4. CASE Elsewhere
  BY <1>4 DEF Elsewhere, Create, Next
<1>5. CASE RestartServer
  BY <1>5 DEF RestartServer, Next
<1>6. CASE UNCHANGED dialogVars
  BY <1>6 DEF dialogVars
<1> QED  BY <1>1, <1>2, <1>3, <1>4, <1>5, <1>6 DEF DialogNext

\* What a step of the store never takes back: a print, a cancel and a saved hook.
LEMMA OutcomesStay ==
    ASSUME TypeOK, [Next]_vars
    PROVE  /\ \A t \in Tokens : Printed(t) => Printed(t)'
           /\ cancelled \subseteq cancelled'
           /\ \A t \in Tokens : stage[t] = "saved" => stage'[t] = "saved"
<1> USE DEF Printed
<1>1. CASE \E t \in Tokens : Create(t) \/ LookupExpired(t) \/ Extend(t)
  BY <1>1
  DEF Create, Prepare, CopiesFail, SubmitFirstPass, Save, SaveFails, LookupExpired, Extend,
              createVars, cupsVars, userVars, TypeOK
<1>2. CASE \E r \in Requests, t \in Tokens, k \in Kinds :
              WebRequest(r, t, k) \/ CardClick(r, t, k)
  BY <1>2 DEF WebRequest, CardClick, createVars, cupsVars, userVars
<1>3. ASSUME NEW r \in Requests, JobAccepted(r) \/ AnswerLost(r)
      PROVE  /\ \A t \in Tokens : Printed(t) => Printed(t)'
             /\ cancelled' = cancelled /\ stage' = stage
  <2>1. token[r] \in Tokens /\ jobs[token[r]] \in Nat /\ unheard[token[r]] \in Nat
    BY ConfigAssumption DEF TypeOK
  <2> QED  BY <1>3, <2>1 DEF JobAccepted, AnswerLost, Accepted, createVars, userVars, TypeOK
<1>4. ASSUME NEW r \in Requests,
             Claim(r) \/ ClaimRefused(r) \/ Abandon(r) \/ OpenFile(r) \/ JobRefused(r)
                \/ BeginCancel(r) \/ RemoveFile(r) \/ Finish(r) \/ Release(r)
      PROVE  /\ jobs' = jobs /\ unheard' = unheard /\ stage' = stage
             /\ cancelled \subseteq cancelled'
  BY <1>4 DEF Claim, ClaimRefused, Abandon, OpenFile, JobRefused, BeginCancel, RemoveFile, Finish,
              Release, createVars, cupsVars, userVars
<1>5. CASE \E r \in Requests : HandlerStep(r)
  BY <1>3, <1>4, <1>5 DEF HandlerStep
<1>6. CASE Tick
  BY <1>6 DEF Tick, createVars, cupsVars, userVars
<1>7. CASE Restart
  BY <1>7 DEF Restart, cupsVars, userVars
<1>8. CASE UNCHANGED vars
  BY <1>8 DEF vars
<1> QED  BY <1>1, <1>2, <1>5, <1>6, <1>7, <1>8 DEF Next

\* A request that is not over keeps its subject, unless the server restarts.
LEMMA RequestsStay ==
    ASSUME NEW r \in Requests, TypeOK, HandlerStep(r)
    PROVE  /\ token' = token /\ kind' = kind
           /\ \A q \in Requests : q # r => pc'[q] = pc[q]
           /\ pc[r] = "delete" /\ pc'[r] = "idle" => Finish(r)
<1>1. CASE Claim(r) \/ ClaimRefused(r) \/ Abandon(r) \/ OpenFile(r)
  BY <1>1 DEF Claim, ClaimRefused, Abandon, OpenFile, Goto, TypeOK
<1>2. CASE JobAccepted(r) \/ AnswerLost(r) \/ JobRefused(r) \/ BeginCancel(r)
  BY <1>2 DEF JobAccepted, AnswerLost, JobRefused, BeginCancel, Goto, TypeOK
<1>3. CASE RemoveFile(r) \/ Finish(r) \/ Release(r)
  BY <1>3 DEF RemoveFile, Finish, Release, Goto, TypeOK
<1> QED  BY <1>1, <1>2, <1>3 DEF HandlerStep

\* What a page knows holds after a step that tells nobody anything and keeps the
\* requests that pages wait for.
NothingTakenBack ==
    /\ \A t \in Tokens : Printed(t) => Printed(t)'
    /\ cancelled \subseteq cancelled'
    /\ \A t \in Tokens : stage[t] = "saved" => stage'[t] = "saved"

\* The clock types.
LEMMA ReadIsNat ==
    ASSUME NEW time \in Nat
    PROVE  Read(time) \in Nat
<1>1. Minute \in Nat \ {0} /\ Zone \in Nat
  BY DialogAssumption
<1>2. time \div Minute \in Nat
  BY <1>1
<1>3. (time \div Minute) * Minute \in Nat
  BY <1>1, <1>2
<1> QED  BY <1>1, <1>3 DEF Read

\* What the browser reads is late by no more than the zone.
LEMMA ReadIsNear ==
    ASSUME NEW time \in Nat, NEW n \in Nat
    PROVE  Near(Read(time), time, n)
<1>1. Minute \in Nat \ {0} /\ Zone \in Nat
  BY DialogAssumption
<1>2. (time \div Minute) * Minute <= time
  BY <1>1
<1>3. time \div Minute \in Nat
  BY <1>1
<1>4. (time \div Minute) * Minute \in Nat
  BY <1>1, <1>3
<1>5. ASSUME NEW p \in Nat, p <= time
      PROVE  p + Zone <= time + Zone
  BY <1>1, <1>5
<1>6. Read(time) <= time + Zone
  BY <1>2, <1>4, <1>5 DEF Read
<1> QED  BY <1>6 DEF Near

----------------------------------------------------------------------------
(* The steps of the composition. *)

\* Opening, closing, asking: the page's own affair.
LEMMA PageKeeps ==
    ASSUME NEW d \in Tabs, DialogInv, IndInv',
           \/ \E t \in Tokens : Open(d, t)
           \/ CountedDown(d) \/ AskExtend(d) \/ Dismiss(d) \/ Reload(d)
    PROVE  DialogInv'
<1> USE DialogAssumption DEF DialogInv, Close
<1>1. UNCHANGED vars
  BY DEF Open, CountedDown, AskExtend, Dismiss, Reload
<1>2. \A t \in Tokens : posted[t] \in Nat /\ Read(posted[t]) \in Nat
  BY ReadIsNat DEF DialogTypeOK
<1>3. DialogTypeOK'
  <2>1. TypeOK'
    BY DEF IndInv
  <2>2. CASE \E t \in Tokens : Open(d, t)
    BY <1>2, <2>1, <2>2 DEF Open, DialogTypeOK
  <2>3. CASE CountedDown(d) \/ Reload(d)
    BY <2>1, <2>3 DEF CountedDown, Reload, DialogTypeOK, InFlight
  <2>4. CASE AskExtend(d) \/ Dismiss(d)
    BY <2>1, <2>4 DEF AskExtend, Dismiss, DialogTypeOK, InFlight
  <2> QED  BY <2>2, <2>3, <2>4
<1>4. \A e \in Tabs : net'[e] # "unsent" =>
          net'[e] = net[e] /\ target'[e] = target[e] /\ mode'[e] = mode[e]
  BY DEF Open, CountedDown, AskExtend, Dismiss, Reload, DialogTypeOK, InFlight
<1>5. RequestKnown' /\ AnswerTrue'
  BY <1>1, <1>4 DEF RequestKnown, AnswerTrue, Printed, vars
<1>6. ToldIsTrue'
  <2>1. UNCHANGED <<toldPrinted, toldCancelled>>
    BY DEF Open, CountedDown, AskExtend, Dismiss, Reload
  <2> QED  BY <1>1, <2>1 DEF ToldIsTrue, Printed, vars
<1> QED  BY <1>3, <1>5, <1>6

\* A request goes to a goroutine that had nothing to do, so that no tab waits for it.
LEMMA PressKeeps ==
    ASSUME NEW d \in Tabs, NEW k \in Kinds, DialogInv, IndInv', Press(d, k)
    PROVE  DialogInv'
<1> USE DialogAssumption DEF DialogInv
<1>1. /\ UNCHANGED <<jobs, unheard, cancelled, toldPrinted, toldCancelled>>
      /\ UNCHANGED <<posted, shown, deadline, fresh>>
      /\ shown[d] \in Tokens /\ k \in {"continue", "cancel"}
      /\ mode' = [mode EXCEPT ![d] = k] /\ target' = [target EXCEPT ![d] = shown[d]]
  BY DEF Press, WebRequest, vars, cupsVars, userVars, DialogTypeOK, Kinds
<1>2. TypeOK /\ TypeOK'
  BY DEF IndInv
<1>3. CASE net' = [net EXCEPT ![d] = "error"] /\ UNCHANGED vars
  <2>1. DialogTypeOK'
    BY <1>1, <1>2, <1>3 DEF DialogTypeOK, InFlight
  <2>2. RequestKnown' /\ AnswerTrue' /\ ToldIsTrue'
    BY <1>1, <1>3 DEF RequestKnown, AnswerTrue, ToldIsTrue, Printed, vars, DialogTypeOK
  <2> QED  BY <2>1, <2>2
<1>4. ASSUME NEW r \in Requests, WebRequest(r, shown[d], k), net' = [net EXCEPT ![d] = r]
      PROVE  DialogInv'
  <2>1. /\ pc[r] = "idle" /\ pc'[r] = "claim" /\ token'[r] = shown[d] /\ kind'[r] = k
        /\ \A q \in Requests :
              q # r => pc'[q] = pc[q] /\ token'[q] = token[q] /\ kind'[q] = kind[q]
    BY <1>1, <1>2, <1>4 DEF WebRequest, Start, Goto, TypeOK
  <2>2. \A e \in Tabs : net[e] # r
    BY <2>1 DEF RequestKnown
  <2>3. DialogTypeOK'
    BY <1>1, <1>2, <1>4 DEF DialogTypeOK, InFlight
  <2>4. RequestKnown'
    <3>1. ASSUME NEW e \in Tabs, net'[e] \in Requests
          PROVE  /\ token'[net'[e]] = target'[e] /\ kind'[net'[e]] = mode'[e]
                 /\ pc'[net'[e]] # "idle"
      <4>1. CASE e = d
        BY <1>1, <1>4, <2>1, <4>1 DEF DialogTypeOK
      <4>2. CASE e # d
        BY <1>1, <1>4, <2>1, <2>2, <3>1, <4>2 DEF DialogTypeOK, RequestKnown
      <4> QED  BY <4>1, <4>2
    <3> QED  BY <3>1 DEF RequestKnown
  <2>5. AnswerTrue' /\ ToldIsTrue'
    BY <1>1, <1>4 DEF AnswerTrue, ToldIsTrue, Printed, DialogTypeOK
  <2> QED  BY <2>3, <2>4, <2>5
<1> QED  BY <1>3, <1>4 DEF Press

\* The answer to an extension says nothing of prints and cancels.
LEMMA ConfirmExtendKeeps ==
    ASSUME NEW d \in Tabs, DialogInv, IndInv', ConfirmExtend(d)
    PROVE  DialogInv'
<1> USE DialogAssumption DEF DialogInv
<1>1. TypeOK /\ TypeOK' /\ target[d] \in Tokens
  BY DEF IndInv, DialogTypeOK
<1>2. UNCHANGED <<jobs, unheard, cancelled, pc, token, kind>>
  BY
  DEF ConfirmExtend, Extend, ExtendRefused, LookupExpired, vars, cupsVars, userVars, requestVars
<1>3. /\ mode[d] = "confirm" /\ mode' = [mode EXCEPT ![d] = "extend"]
      /\ net' = [net EXCEPT ![d] = "ok"] \/ net' = [net EXCEPT ![d] = "error"]
      /\ UNCHANGED <<shown, deadline, target, toldPrinted, toldCancelled>>
  BY DEF ConfirmExtend
<1>4. posted' \in [Tokens -> Nat] /\ fresh' \in [Tabs -> Nat]
  <2>1. expiresAt'[target[d]] \in Nat /\ Read(expiresAt'[target[d]]) \in Nat
    BY <1>1, ReadIsNat DEF TypeOK
  <2>2. posted' \in [Tokens -> Nat]
    BY <1>1, <2>1 DEF ConfirmExtend, Synced, DialogTypeOK
  <2>3. fresh' \in [Tabs -> Nat]
    BY <2>1 DEF ConfirmExtend, DialogTypeOK
  <2> QED  BY <2>2, <2>3
<1>5. DialogTypeOK'
  BY <1>1, <1>3, <1>4 DEF DialogTypeOK, InFlight
<1>6. RequestKnown' /\ AnswerTrue' /\ ToldIsTrue'
  BY <1>2, <1>3 DEF RequestKnown, AnswerTrue, ToldIsTrue, Printed, DialogTypeOK
<1> QED  BY <1>5, <1>6

\* The user is told what a good answer says.
LEMMA HearKeeps ==
    ASSUME NEW d \in Tabs, DialogInv, IndInv', Hear(d)
    PROVE  DialogInv'
<1> USE DialogAssumption DEF DialogInv, Heard
<1>1. /\ mode[d] \in InFlight /\ net[d] \in {"ok", "error"}
      /\ mode' = [mode EXCEPT ![d] = "idle"] /\ net' = [net EXCEPT ![d] = "unsent"]
      /\ UNCHANGED <<vars, posted, target>>
  BY DEF Hear, HearContinue, HearCancel, HearExtend, InFlight
<1>2. /\ toldPrinted' \subseteq toldPrinted \cup {t \in Tokens : Printed(t)}
      /\ toldCancelled' \subseteq toldCancelled \cup cancelled
  BY DEF Hear, HearContinue, HearCancel, HearExtend, AnswerTrue, DialogTypeOK
<1>3. /\ shown' \in [Tabs -> Tokens \cup {None}]
      /\ deadline' \in [Tabs -> Nat] /\ fresh' \in [Tabs -> Nat]
  <2>1. CASE HearContinue(d) \/ HearCancel(d)
    BY <2>1 DEF HearContinue, HearCancel, Close, DialogTypeOK
  <2>2. CASE HearExtend(d)
    BY <2>2 DEF HearExtend, DialogTypeOK
  <2> QED  BY <2>1, <2>2 DEF Hear
<1>4. TypeOK /\ TypeOK' /\ cancelled \subseteq Tokens
  BY DEF IndInv, TypeOK
<1>5. DialogTypeOK'
  BY <1>1, <1>2, <1>3, <1>4 DEF DialogTypeOK, InFlight
<1>6. RequestKnown' /\ AnswerTrue'
  BY <1>1 DEF RequestKnown, AnswerTrue, Printed, DialogTypeOK, vars
<1>7. ToldIsTrue'
  BY <1>1, <1>2 DEF ToldIsTrue, IndInv, NotBothReported, Printed, vars
<1> QED  BY <1>5, <1>6, <1>7

\* The goroutine's last step: it says "ok" only after the delete of a hook whose
\* document it has printed or now cancels.
LEMMA ServeKeeps ==
    ASSUME NEW r \in Requests, DialogInv, IndInv', NothingTakenBack, Serve(r)
    PROVE  DialogInv'
<1> USE DialogAssumption DEF DialogInv
<1>1. TypeOK /\ TypeOK'
  BY DEF IndInv
<1>2. /\ token' = token /\ kind' = kind
      /\ \A q \in Requests : q # r => pc'[q] = pc[q]
      /\ pc[r] = "delete" /\ pc'[r] = "idle" => Finish(r)
  BY <1>1, RequestsStay DEF Serve
<1>3. UNCHANGED <<posted, shown, deadline, mode, target, fresh, toldPrinted, toldCancelled>>
  BY DEF Serve
<1>4. CASE pc'[r] # "idle"
  <2>1. net' = net
    BY <1>4 DEF Serve
  <2>2. DialogTypeOK'
    BY <1>1, <1>3, <2>1 DEF DialogTypeOK
  <2>3. RequestKnown'
    BY <1>2, <1>3, <1>4, <2>1 DEF RequestKnown
  <2>4. AnswerTrue' /\ ToldIsTrue'
    BY <1>3, <2>1
    DEF AnswerTrue, ToldIsTrue, NothingTakenBack, IndInv, NotBothReported, DialogTypeOK
  <2> QED  BY <2>2, <2>3, <2>4
<1>5. CASE pc'[r] = "idle"
  <2>1. PICK heard \in {"error"} \cup {x \in {"ok"} : pc[r] = "delete"} :
            net' = [d \in Tabs |-> IF net[d] = r THEN heard ELSE net[d]]
    BY <1>5 DEF Serve
  <2>2. heard \in {"error", "ok"} /\ heard \notin Requests
    BY <2>1
  <2>3. heard = "ok" =>
            /\ kind[r] = "continue" => Printed(token[r])'
            /\ kind[r] = "cancel" => token[r] \in cancelled'
    <3>1. ASSUME heard = "ok"
          PROVE  Finish(r) /\ pc[r] = "delete" /\ token[r] \in Tokens
      BY <1>1, <1>2, <1>5, <2>1, <3>1 DEF TypeOK
    <3> QED  BY <3>1 DEF Finish, IndInv, ReadyToDelete, NothingTakenBack
  <2>4. DialogTypeOK'
    BY <1>1, <1>3, <2>1, <2>2 DEF DialogTypeOK, RequestKnown, Kinds, InFlight, TypeOK
  <2>5. RequestKnown'
    BY <1>2, <1>3, <2>1, <2>2 DEF RequestKnown
  <2>6. AnswerTrue'
    BY <1>2, <1>3, <2>1, <2>2, <2>3 DEF AnswerTrue, RequestKnown, NothingTakenBack, DialogTypeOK
  <2>7. ToldIsTrue'
    BY <1>3 DEF ToldIsTrue, NothingTakenBack, IndInv, NotBothReported, DialogTypeOK
  <2> QED  BY <2>4, <2>5, <2>6, <2>7
<1> QED  BY <1>4, <1>5

\* Other clients leave alone the requests that tabs wait for.
LEMMA ElsewhereKeeps ==
    ASSUME DialogInv, IndInv', NothingTakenBack,
           (\E t \in Tokens : SaveAndAnswer(t) \/ ExtendElsewhere(t)) \/ Elsewhere
    PROVE  DialogInv'
<1> USE DialogAssumption DEF DialogInv
<1>1. TypeOK /\ TypeOK'
  BY DEF IndInv
<1>2. UNCHANGED <<shown, deadline, mode, target, net, fresh, toldPrinted, toldCancelled>>
  BY DEF SaveAndAnswer, ExtendElsewhere, Elsewhere, tabVars
<1>3. posted' \in [Tokens -> Nat]
  <2>1. CASE Elsewhere
    BY <2>1 DEF Elsewhere, tabVars, DialogTypeOK
  <2>2. ASSUME NEW t \in Tokens, SaveAndAnswer(t) \/ ExtendElsewhere(t)
        PROVE  posted' \in [Tokens -> Nat]
    <3>1. expiresAt'[t] \in Nat
      BY <1>1 DEF TypeOK
    <3> QED  BY <2>2, <3>1 DEF SaveAndAnswer, ExtendElsewhere, Synced, DialogTypeOK
  <2> QED  BY <2>1, <2>2
<1>4. DialogTypeOK'
  BY <1>1, <1>2, <1>3 DEF DialogTypeOK
<1>5. \A d \in Tabs : net[d] \in Requests =>
          /\ pc'[net[d]] = pc[net[d]] /\ token'[net[d]] = token[net[d]]
          /\ kind'[net[d]] = kind[net[d]]
  <2>1. CASE \E t \in Tokens : SaveAndAnswer(t) \/ ExtendElsewhere(t)
    BY <2>1 DEF SaveAndAnswer, ExtendElsewhere, Save, Extend, requestVars
  <2>2. CASE Tick \/ \E t \in Tokens :
                         Prepare(t) \/ SubmitFirstPass(t) \/ SaveFails(t) \/ LookupExpired(t)
    BY <2>2 DEF Tick, Prepare, SubmitFirstPass, SaveFails, LookupExpired, requestVars
  <2>3. CASE \E r \in Requests, t \in Tokens, k \in Kinds :
                WebRequest(r, t, k) /\ \A d \in Tabs : net[d] # r
    BY <1>1, <2>3 DEF WebRequest, Start, Goto, TypeOK
  <2> QED  BY <2>1, <2>2, <2>3 DEF Elsewhere
<1>6. RequestKnown'
  BY <1>2, <1>5 DEF RequestKnown
<1>7. AnswerTrue' /\ ToldIsTrue'
  BY <1>2 DEF AnswerTrue, ToldIsTrue, NothingTakenBack, IndInv, NotBothReported, DialogTypeOK
<1> QED  BY <1>4, <1>6, <1>7

\* Nobody is told anything by a server that is gone.
LEMMA RestartServerKeeps ==
    ASSUME DialogInv, IndInv', NothingTakenBack, RestartServer
    PROVE  DialogInv'
<1> USE DialogAssumption DEF DialogInv
<1>1. /\ net' = [d \in Tabs |-> IF net[d] \in Requests THEN "error" ELSE net[d]]
      /\ UNCHANGED <<posted, shown, deadline, mode, target, fresh, toldPrinted, toldCancelled>>
  BY DEF RestartServer
<1>2. DialogTypeOK'
  BY <1>1 DEF DialogTypeOK, IndInv, RequestKnown
<1>3. RequestKnown'
  BY <1>1 DEF RequestKnown
<1>4. AnswerTrue' /\ ToldIsTrue'
  BY <1>1 DEF AnswerTrue, ToldIsTrue, NothingTakenBack, IndInv, NotBothReported, DialogTypeOK
<1> QED  BY <1>2, <1>3, <1>4

\* At the start nothing is under way.
LEMMA DialogInvInit == DialogInit => DialogInv
<1> SUFFICES ASSUME DialogInit PROVE DialogInv
  OBVIOUS
<1>1. IndInv
  BY InitInv DEF DialogInit
<1>2. DialogTypeOK
  BY <1>1, DialogAssumption DEF IndInv, DialogInit, DialogTypeOK, InFlight
<1>3. RequestKnown /\ AnswerTrue /\ ToldIsTrue
  BY DialogAssumption DEF DialogInit, RequestKnown, AnswerTrue, ToldIsTrue
<1> QED  BY <1>1, <1>2, <1>3 DEF DialogInv

\* What every step of the composition does to the store, and what it keeps.
LEMMA DialogStep ==
    ASSUME DialogInv, [DialogNext]_dialogVars
    PROVE  NothingTakenBack /\ DialogInv'
<1>1. [Next]_vars
  BY DialogIsHookStep DEF DialogInv
<1>2. IndInv'
  BY <1>1, StepKeeps DEF DialogInv
<1>3. NothingTakenBack
  BY <1>1, OutcomesStay DEF DialogInv, IndInv, NothingTakenBack
<1>4. CASE \E d \in Tabs : TabStep(d)
  BY <1>2, <1>3, <1>4, PageKeeps, PressKeeps, ConfirmExtendKeeps, HearKeeps DEF TabStep
<1>5. CASE \E r \in Requests : Serve(r)
  BY <1>2, <1>3, <1>5, ServeKeeps
<1>6. CASE (\E t \in Tokens : SaveAndAnswer(t) \/ ExtendElsewhere(t)) \/ Elsewhere
  BY <1>2, <1>3, <1>6, ElsewhereKeeps
<1>7. CASE RestartServer
  BY <1>2, <1>3, <1>7, RestartServerKeeps
<1>8. CASE UNCHANGED dialogVars
  <2>1. UNCHANGED <<vars, tabVars>> /\ TypeOK'
    BY <1>2, <1>8 DEF dialogVars, IndInv
  <2>2. DialogTypeOK'
    BY <2>1 DEF DialogInv, DialogTypeOK, tabVars
  <2>3. RequestKnown' /\ AnswerTrue' /\ ToldIsTrue'
    BY <2>1 DEF DialogInv, RequestKnown, AnswerTrue, ToldIsTrue, Printed, vars, tabVars
  <2> QED  BY <1>2, <1>3, <2>2, <2>3 DEF DialogInv
<1> QED  BY <1>3, <1>4, <1>5, <1>6, <1>7, <1>8 DEF DialogNext

----------------------------------------------------------------------------
(* The theorems. *)

\* The inductive invariant: tabs and the requests they wait for agree, whatever is
\* lost, closed or restarted on the way.
THEOREM DialogInvariance == DialogSpec => []DialogInv
<1>1. DialogInv /\ [DialogNext]_dialogVars => DialogInv'
  BY DialogStep
<1> QED  BY DialogInvInit, <1>1, PTL DEF DialogSpec

\* The dialogs, their requests and lost answers are users of the hook store: each
\* behaviour of the composition is one of ManualDuplexHooks, whose theorems hold in it.
THEOREM DialogsUseTheStore == DialogSpec => Spec
<1>1. DialogInv /\ [DialogNext]_dialogVars => [Next]_vars
  BY DialogIsHookStep DEF DialogInv
<1> QED  BY <1>1, StartIsStart, DialogInvariance, PTL DEF DialogSpec, Spec

\* A dialog's fields have their types, and a tab waits for an answer exactly when
\* something is in flight.
THEOREM DialogTypeCorrect == DialogSpec => []DialogTypeOK
<1>1. DialogInv => DialogTypeOK
  BY DEF DialogInv
<1> QED  BY <1>1, DialogInvariance, PTL

\* Users are told that the rest is printed or cancelled only if it is and stays so.
THEOREM ToldTheTruth == DialogSpec => []ToldIsTrue
<1>1. DialogInv => ToldIsTrue
  BY DEF DialogInv
<1> QED  BY <1>1, DialogInvariance, PTL

\* The expiry of a saved hook stays, or is close and is set anew.
Stays(t) == expiresAt'[t] = expiresAt[t] /\ now <= now'
SetAnew(t) ==
    expiresAt'[t] = now + MinTimeout /\ expiresAt[t] <= now + ExtendWindow /\ now' = now
LEMMA ExpiryMoves ==
    ASSUME TypeOK, [Next]_vars, NEW t \in Tokens, stage[t] = "saved"
    PROVE  Stays(t) \/ SetAnew(t)
<1> USE ConfigAssumption
<1>0. expiresAt[t] \in Nat /\ now \in Nat
  BY DEF TypeOK
<1>1. ASSUME NEW u \in Tokens, Save(u)
      PROVE  Stays(t)
  BY <1>0, <1>1 DEF Save, Stays, TypeOK
<1>2. ASSUME NEW u \in Tokens, Extend(u)
      PROVE  Stays(t) \/ SetAnew(t)
  BY <1>0, <1>2 DEF Extend, Stays, SetAnew, TypeOK
<1>3. ASSUME NEW u \in Tokens,
             Prepare(u) \/ CopiesFail(u) \/ SubmitFirstPass(u) \/ SaveFails(u) \/ LookupExpired(u)
      PROVE  Stays(t)
  BY <1>0, <1>3 DEF Stays, Prepare, CopiesFail, SubmitFirstPass, SaveFails, LookupExpired, hookVars
<1>4. CASE \E r \in Requests, u \in Tokens, k \in Kinds :
              WebRequest(r, u, k) \/ CardClick(r, u, k)
  BY <1>0, <1>4 DEF Stays, WebRequest, CardClick, hookVars
<1>5. CASE \E r \in Requests : HandlerStep(r)
  BY <1>0, <1>5 DEF Stays, HandlerStep, Claim, ClaimRefused, Abandon, OpenFile, JobAccepted, AnswerLost,
                    JobRefused, BeginCancel, RemoveFile, Finish, Release, hookVars
<1>6. CASE Tick \/ Restart \/ UNCHANGED vars
  BY <1>0, <1>6 DEF Stays, Tick, Restart, vars, hookVars
<1> QED  BY <1>1, <1>2, <1>3, <1>4, <1>5, <1>6 DEF Next, Create

\* Whatever was near the expiry of a saved hook is near it after any step.
LEMMA NearStays ==
    ASSUME TypeOK, TypeOK', [Next]_vars, NEW t \in Tokens, stage[t] = "saved",
           NEW v \in Nat, Near(v, expiresAt[t], now)
    PROVE  Near(v, expiresAt'[t], now')
<1> USE ConfigAssumption, DialogAssumption
<1>1. {expiresAt[t], expiresAt'[t], now, now'} \subseteq Nat
  BY DEF TypeOK
<1>2. Slack \in Nat /\ Zone <= Slack /\ Zone + ExtendWindow <= MinTimeout + Slack
  BY DEF Slack
<1>3. CASE Stays(t)
  BY <1>1, <1>2, <1>3 DEF Near, Stays
<1>4. CASE SetAnew(t)
  <2>1. v <= now + MinTimeout + Slack
    BY <1>1, <1>2, <1>4 DEF Near, SetAnew
  <2> QED  BY <1>1, <1>2, <1>4, <2>1 DEF Near, SetAnew
<1> QED  BY <1>3, <1>4, ExpiryMoves

\* A hook goes only with a finished request, after its expiry or in a restart.
LEMMA LapsesExpired ==
    ASSUME TypeOK, [Next]_vars, NEW t \in Tokens, Lapses(t)
    PROVE  Expired(t)
<1> USE DEF Lapses
<1>1. CASE \E u \in Tokens : Create(u) \/ LookupExpired(u) \/ Extend(u)
  BY <1>1
  DEF Create, Prepare, CopiesFail, SubmitFirstPass, Save, SaveFails, LookupExpired, Extend,
              Drop, hookVars
<1>2. CASE \E r \in Requests, u \in Tokens, k \in Kinds :
              WebRequest(r, u, k) \/ CardClick(r, u, k)
  BY <1>2 DEF WebRequest, CardClick, hookVars
<1>3. ASSUME NEW r \in Requests, HandlerStep(r)
      PROVE  Expired(t)
  <2>1. CASE ClaimRefused(r)
    BY <2>1 DEF ClaimRefused, Drop
  <2>2. CASE Finish(r)
    BY <2>2 DEF Finish, Goto, TypeOK
  <2>3. CASE Claim(r) \/ Abandon(r) \/ OpenFile(r) \/ JobAccepted(r) \/ AnswerLost(r)
                \/ JobRefused(r) \/ BeginCancel(r) \/ RemoveFile(r) \/ Release(r)
    BY <2>3 DEF Claim, Abandon, OpenFile, JobAccepted, AnswerLost, JobRefused, BeginCancel,
                RemoveFile, Release, hookVars
  <2> QED  BY <1>3, <2>1, <2>2, <2>3 DEF HandlerStep
<1>4. CASE Tick \/ UNCHANGED vars
  BY <1>4 DEF Tick, vars, hookVars
<1>5. CASE Restart
  BY <1>5 DEF Restart
<1> QED  BY <1>1, <1>2, <1>3, <1>4, <1>5 DEF Next

\* At the start no dialog is shown.
LEMMA DeadlineInit == DialogInit => DeadlineNear
  BY DialogAssumption DEF DialogInit, Init, DeadlineNear

\* An extension moves the expiry and only then a tab hears of it.
LEMMA DeadlineKeeps ==
    ASSUME DialogInv, DialogInv', NothingTakenBack, DeadlineNear, [DialogNext]_dialogVars
    PROVE  DeadlineNear'
<1> USE DialogAssumption
<1>1. TypeOK /\ TypeOK' /\ DialogTypeOK /\ DialogTypeOK'
  BY DEF DialogInv, IndInv
<1>2. \A t \in Tokens : stage[t] = "saved" =>
          /\ stage'[t] = "saved"
          /\ \A v \in Nat : Near(v, expiresAt[t], now) => Near(v, expiresAt'[t], now')
  BY <1>1, DialogIsHookStep, NearStays DEF NothingTakenBack
<1>3. \A t \in Tokens : {posted[t], expiresAt[t], posted'[t], expiresAt'[t], now, now'} \subseteq Nat
  BY <1>1 DEF TypeOK, DialogTypeOK
<1>4. \A d \in Tabs :
          /\ deadline[d] \in Nat /\ deadline'[d] \in Nat
          /\ fresh[d] \in Nat /\ fresh'[d] \in Nat
          /\ target[d] \in Tokens /\ target'[d] \in Tokens
          /\ shown[d] # None => shown[d] \in Tokens
  BY <1>1 DEF DialogTypeOK
<1>5. \A t \in Tokens :
          /\ Read(posted[t]) \in Nat /\ Read(posted'[t]) \in Nat
          /\ Read(expiresAt'[t]) \in Nat /\ Near(Read(expiresAt'[t]), expiresAt'[t], now')
  BY <1>3, ReadIsNat, ReadIsNear
<1>6. ASSUME NEW d \in Tabs
       PROVE  /\ shown[d] # None =>
                    stage'[shown[d]] = "saved" /\ Near(deadline[d], expiresAt'[shown[d]], now')
              /\ mode[d] # "idle" => stage'[target[d]] = "saved"
              /\ net[d] = "ok" /\ mode[d] = "extend" => Near(fresh[d], expiresAt'[target[d]], now')
  <2>1. ASSUME shown[d] # None
        PROVE  stage'[shown[d]] = "saved" /\ Near(deadline[d], expiresAt'[shown[d]], now')
    <3>1. stage[shown[d]] = "saved" /\ Near(deadline[d], expiresAt[shown[d]], now) /\ shown[d] \in Tokens
      BY <1>4, <2>1 DEF DeadlineNear
    <3> QED  BY <1>2, <1>3, <1>4, <3>1
  <2>2. mode[d] # "idle" => stage[target[d]] = "saved" /\ target[d] \in Tokens
    BY <1>4 DEF DeadlineNear
  <2>3. ASSUME net[d] = "ok", mode[d] = "extend"
        PROVE  Near(fresh[d], expiresAt'[target[d]], now')
    <3>1. Near(fresh[d], expiresAt[target[d]], now)
      BY <2>3 DEF DeadlineNear
    <3> QED  BY <1>2, <1>3, <1>4, <2>2, <2>3, <3>1
  <2> QED  BY <1>2, <2>1, <2>2, <2>3
<1>7. ASSUME UNCHANGED <<shown, deadline, mode, target, fresh>>,
             \A t \in Tokens : stage'[t] = "saved" => Near(Read(posted'[t]), expiresAt'[t], now'),
             \A d \in Tabs : net'[d] = "ok" /\ mode[d] = "extend" => net[d] = "ok"
      PROVE  DeadlineNear'
  BY <1>6, <1>7 DEF DeadlineNear
<1>8. ASSUME UNCHANGED <<stage, posted>>
      PROVE  \A t \in Tokens : stage'[t] = "saved" => Near(Read(posted'[t]), expiresAt'[t], now')
  BY <1>2, <1>3, <1>5, <1>8 DEF DeadlineNear
<1>9. ASSUME NEW d \in Tabs, TabStep(d)
      PROVE  DeadlineNear'
  <2>1. stage' = stage
    BY <1>9 DEF TabStep, Open, Press, CountedDown, AskExtend, Dismiss, ConfirmExtend, Hear,
       HearContinue, HearCancel, HearExtend, Heard, Reload, WebRequest, Extend, ExtendRefused,
       LookupExpired, vars, createVars
  <2>2. CASE \E t \in Tokens : Open(d, t)
    BY <1>1, <1>2, <1>3, <1>4, <1>5, <1>8, <2>1, <2>2 DEF Open, DeadlineNear, DialogTypeOK, vars
  <2>3. CASE CountedDown(d) \/ Reload(d)
    BY <1>1, <1>2, <1>3, <1>4, <1>8, <2>1, <2>3
    DEF CountedDown, Reload, Close, DeadlineNear, DialogTypeOK, vars
  <2>4. CASE AskExtend(d) \/ Dismiss(d)
    BY <1>1, <1>2, <1>3, <1>4, <1>8, <2>1, <2>4
    DEF AskExtend, Dismiss, DeadlineNear, DialogTypeOK, vars
  <2>5. CASE \E k \in Kinds : Press(d, k)
    BY <1>1, <1>2, <1>3, <1>4, <1>8, <2>1, <2>5
    DEF Press, WebRequest, hookVars, DeadlineNear, DialogTypeOK, Kinds, vars
  <2>6. CASE ConfirmExtend(d)
    <3>1. \A t \in Tokens : stage[t] = "saved" => Near(Read(posted'[t]), expiresAt'[t], now')
      BY <1>1, <1>2, <1>3, <1>5, <2>1, <2>6
      DEF ConfirmExtend, Synced, DeadlineNear, DialogTypeOK, vars
    <3>2. net'[d] = "ok" => Near(fresh'[d], expiresAt'[target[d]], now')
      BY <1>1, <1>4, <1>5, <2>6 DEF ConfirmExtend, DialogTypeOK
    <3>3. /\ \A e \in Tabs : e # d =>
                 net'[e] = net[e] /\ mode'[e] = mode[e] /\ fresh'[e] = fresh[e]
          /\ UNCHANGED <<shown, deadline, target>> /\ mode[d] # "idle"
      BY <1>1, <2>6 DEF ConfirmExtend, DialogTypeOK
    <3> QED  BY <1>6, <2>1, <3>1, <3>2, <3>3 DEF DeadlineNear
  <2>7. CASE Hear(d)
    <3>1. /\ UNCHANGED <<now, stage, expiresAt, posted, target>>
          /\ mode'[d] = "idle" /\ net'[d] = "unsent"
          /\ \A e \in Tabs : e # d => /\ net'[e] = net[e] /\ mode'[e] = mode[e]
                                      /\ shown'[e] = shown[e] /\ deadline'[e] = deadline[e]
                                      /\ fresh'[e] = fresh[e]
      BY <1>1, <2>7
      DEF Hear, HearContinue, HearCancel, HearExtend, Heard, Close, DialogTypeOK, vars
    <3>2. shown'[d] # None =>
              stage[shown'[d]] = "saved" /\ Near(deadline'[d], expiresAt[shown'[d]], now)
      <4>1. CASE HearContinue(d) \/ HearCancel(d)
        BY <1>1, <4>1 DEF HearContinue, HearCancel, Close, DeadlineNear, DialogTypeOK
      <4>2. CASE HearExtend(d)
        BY <1>1, <1>4, <4>2 DEF HearExtend, Heard, DeadlineNear, DialogTypeOK
      <4> QED  BY <2>7, <4>1, <4>2 DEF Hear
    <3> QED  BY <1>4, <3>1, <3>2 DEF DeadlineNear
  <2> QED  BY <1>9, <2>2, <2>3, <2>4, <2>5, <2>6, <2>7 DEF TabStep
<1>10. ASSUME NEW r \in Requests, Serve(r)
      PROVE  DeadlineNear'
  <2>1. \A d \in Tabs : net[d] = r => mode[d] # "extend"
    BY <1>1 DEF DialogInv, RequestKnown, TypeOK, Kinds
  <2>2. stage' = stage
    BY <1>10
    DEF Serve, HandlerStep, Claim, ClaimRefused, Abandon, OpenFile, JobAccepted, AnswerLost,
                JobRefused, BeginCancel, RemoveFile, Finish, Release, createVars
  <2> QED  BY <1>7, <1>8, <1>10, <2>1, <2>2 DEF Serve
<1>11. ASSUME NEW t \in Tokens, SaveAndAnswer(t) \/ ExtendElsewhere(t)
       PROVE  DeadlineNear'
  <2>1. ASSUME NEW u \in Tokens, stage'[u] = "saved"
        PROVE  posted'[u] = expiresAt'[u] \/ (posted'[u] = posted[u] /\ stage[u] = "saved")
    BY <1>1, <1>11, <2>1
    DEF SaveAndAnswer, ExtendElsewhere, Synced, Save, Extend, createVars, DialogTypeOK, TypeOK
  <2>2. ASSUME NEW u \in Tokens, stage'[u] = "saved"
        PROVE  Near(Read(posted'[u]), expiresAt'[u], now')
    BY <1>2, <1>5, <2>1, <2>2 DEF DeadlineNear
  <2> QED  BY <1>7, <1>11, <2>2 DEF SaveAndAnswer, ExtendElsewhere
<1>12. CASE Elsewhere
  <2>1. \A u \in Tokens : stage'[u] = "saved" => stage[u] = "saved"
    BY <1>1, <1>12
    DEF Elsewhere, Prepare, SubmitFirstPass, SaveFails, LookupExpired, WebRequest, Tick,
        createVars,
        TypeOK
  <2> QED  BY <1>2, <1>3, <1>5, <1>7, <1>12, <2>1 DEF Elsewhere, tabVars, DeadlineNear
<1>13. CASE RestartServer
  <2>1. \A u \in Tokens : stage'[u] = "saved" => stage[u] = "saved"
    BY <1>13 DEF RestartServer, Restart
  <2> QED  BY <1>2, <1>3, <1>5, <1>7, <1>13, <2>1 DEF RestartServer, DeadlineNear
<1>14. CASE UNCHANGED dialogVars
  BY <1>7, <1>8, <1>14 DEF dialogVars, vars, tabVars
<1> QED  BY <1>9, <1>10, <1>11, <1>12, <1>13, <1>14 DEF DialogNext

\* Whatever the zone, the minute, the timeouts and the window are, no hook lapses
\* under a countdown by more than the slack.
THEOREM CountdownsKept == DialogSpec => CountdownKept
<1>1. DialogInv /\ [DialogNext]_dialogVars => NothingTakenBack /\ DialogInv'
  BY DialogStep
<1>2. DialogInv /\ DeadlineNear /\ [DialogNext]_dialogVars => DeadlineNear'
  BY <1>1, DeadlineKeeps
<1>3. DialogInv /\ DeadlineNear /\ [DialogNext]_dialogVars =>
          [\A d \in Tabs, t \in Tokens : shown[d] = t /\ Lapses(t) => now + Slack >= deadline[d]]_dialogVars
  <2>1. ASSUME DialogInv, DeadlineNear, [DialogNext]_dialogVars,
               NEW d \in Tabs, NEW t \in Tokens, shown[d] = t, Lapses(t)
        PROVE  now + Slack >= deadline[d]
    <3>1. TypeOK /\ DialogTypeOK /\ t # None
      BY <2>1, DialogAssumption DEF DialogInv, IndInv
    <3>2. Expired(t)
      BY <2>1, <3>1, DialogIsHookStep, LapsesExpired
    <3>3. Near(deadline[d], expiresAt[t], now) /\ {deadline[d], expiresAt[t], now} \subseteq Nat
      BY <2>1, <3>1 DEF DeadlineNear, DialogTypeOK, TypeOK
    <3>4. Slack \in Nat /\ Zone \in Nat /\ Zone <= Slack
      BY ConfigAssumption, DialogAssumption DEF Slack
    <3> QED  BY <3>2, <3>3, <3>4 DEF Expired, Near
  <2> QED  BY <2>1
<1> QED  BY <1>1, <1>2, <1>3, DialogInvInit, DeadlineInit, PTL DEF DialogSpec, CountdownKept

=============================================================================
