------------------------ MODULE SecondPassRefinement ------------------------
(***************************************************************************)
(* ManualDuplexHooks implements SecondPass, for all values of the          *)
(* constants: each of its steps changes the outcome of at most one         *)
(* document in a way that SecondPass allows, or changes none.  The         *)
(* inductive invariant IndInv rules out the steps that would break the     *)
(* promise: a second claim, a second print, a cancel after a print.        *)
(***************************************************************************)
EXTENDS ManualDuplexHooksProofs

\* What SecondPass sees.
OutcomeMap == [t \in Tokens |-> Outcome(t)]
ActingSet == {t \in Tokens : Held(t)}

\* At the start no document has an outcome and nobody acts.
LEMMA InitMaps == Init => Promise!Init
BY DEF Init, Promise!Init, Outcome, Held, Holds, Holding, Printed

\* A step that leaves the hooks, the jobs, the cancellations, the saved stages
\* and the holders alone is a stutter of SecondPass.
LEMMA QuietStep ==
    ASSUME UNCHANGED <<live, cupsVars, cancelled>>,
           \A t \in Tokens : (stage'[t] = "saved") = (stage[t] = "saved"),
           \A t \in Tokens : Held(t)' = Held(t)
    PROVE  UNCHANGED Promise!svars
BY DEF Promise!svars, Outcome, Printed, cupsVars

\* Creating a hook shows nothing until it is saved.
LEMMA CreateMaps ==
    ASSUME NEW t \in Tokens, IndInv,
           Prepare(t) \/ CopiesFail(t) \/ SubmitFirstPass(t) \/ SaveFails(t)
    PROVE  UNCHANGED Promise!svars
<1>1. UNCHANGED <<live, cupsVars, cancelled, pc, token>>
  BY DEF Prepare, CopiesFail, SubmitFirstPass, SaveFails, hookVars, requestVars, userVars
<1>2. \A d \in Tokens : (stage'[d] = "saved") = (stage[d] = "saved")
  BY DEF IndInv, TypeOK, Prepare, CopiesFail, SubmitFirstPass, SaveFails
<1>3. \A d \in Tokens : Held(d)' = Held(d)
  BY <1>1 DEF Held, Holds
<1> QED  BY <1>1, <1>2, <1>3, QuietStep

\* Saving a hook offers the document, which nobody has acted on.
LEMMA SaveMaps ==
    ASSUME NEW t \in Tokens, IndInv, Save(t)
    PROVE  Promise!Offer(t)
<1>1. Outcome(t) = "none" /\ Outcome(t)' = "offered"
  BY DEF IndInv, TypeOK, UnsavedIsFresh, Save, Outcome, Printed, cupsVars, userVars
<1>2. \A d \in Tokens \ {t} : Outcome(d)' = Outcome(d)
  BY DEF IndInv, TypeOK, Save, Outcome, Printed, cupsVars, userVars
<1>3. ActingSet' = ActingSet
  BY DEF Save, ActingSet, Held, Holds, requestVars
<1>4. OutcomeMap' = [OutcomeMap EXCEPT ![t] = "offered"]
  BY <1>1, <1>2 DEF OutcomeMap
<1> QED
  BY <1>1, <1>3, <1>4 DEF OutcomeMap, ActingSet, Promise!Offer, Promise!Settle

\* A lookup that meets an expired hook makes the offer lapse, unless a request
\* has printed the document and is about to delete the hook.
LEMMA DropMaps ==
    ASSUME NEW t \in Tokens, IndInv, t \in live, Drop(t),
           UNCHANGED <<stage, cupsVars, cancelled>>,
           \A d \in Tokens : Held(d)' = Held(d)
    PROVE  Promise!Lapse({t}) \/ UNCHANGED Promise!svars
<1>1. \A d \in Tokens \ {t} : Outcome(d)' = Outcome(d)
  BY DEF IndInv, TypeOK, Drop, Outcome, Printed, cupsVars
<1>2. ActingSet' = ActingSet
  BY DEF ActingSet
<1>3. CASE Printed(t)
  <2>1. Outcome(t)' = Outcome(t)
    BY <1>3 DEF Outcome, Printed, cupsVars
  <2> QED  BY <1>1, <1>2, <2>1 DEF ActingSet, Promise!svars
<1>4. CASE ~Printed(t)
  <2>1. Outcome(t) = "offered" /\ Outcome(t)' = "lapsed"
    BY <1>4 DEF IndInv, TypeOK, UnsavedIsFresh, SettledUnclaimed, Drop, Outcome, Printed, cupsVars
  <2>2. OutcomeMap' = [OutcomeMap EXCEPT ![t] = "lapsed"]
    BY <1>1, <2>1 DEF OutcomeMap
  <2> QED
    BY <1>2, <2>1, <2>2 DEF OutcomeMap, ActingSet, Promise!Lapse, Promise!Settle
<1> QED  BY <1>3, <1>4

\* getManualDuplexPending and a refused extend meet an expired hook.
LEMMA LookupExpiredMaps ==
    ASSUME NEW t \in Tokens, IndInv, LookupExpired(t)
    PROVE  Promise!Lapse({t}) \/ UNCHANGED Promise!svars
<1>1. \A d \in Tokens : Held(d)' = Held(d)
  BY DEF LookupExpired, requestVars, Held, Holds
<1> QED  BY <1>1, DropMaps DEF LookupExpired, createVars, userVars

\* An extension changes no outcome, nor does the clock.
LEMMA TimeMaps ==
    ASSUME IndInv, Tick \/ \E t \in Tokens : Extend(t)
    PROVE  UNCHANGED Promise!svars
<1>1. UNCHANGED <<live, cupsVars, cancelled, stage, pc, token>>
  BY DEF Tick, Extend, createVars, hookVars, requestVars, userVars
<1>2. \A t \in Tokens : Held(t)' = Held(t)
  BY <1>1 DEF Held, Holds
<1> QED  BY <1>1, <1>2, QuietStep

\* A request that has only been received, or a click on a card, holds nothing.
LEMMA ReceiveMaps ==
    ASSUME NEW r \in Requests, NEW t \in Tokens, NEW k \in Kinds, IndInv,
           WebRequest(r, t, k) \/ CardClick(r, t, k)
    PROVE  UNCHANGED Promise!svars
<1>1. UNCHANGED <<live, cupsVars, cancelled, stage>>
  BY DEF WebRequest, CardClick, createVars, hookVars, userVars
<1>2. \A d \in Tokens : Held(d)' = Held(d)
  BY DEF IndInv, TypeOK, WebRequest, CardClick, Start, Goto, Held, Holds, Holding
<1> QED  BY <1>1, <1>2, QuietStep

\* A claim: the document is offered and nobody else acts on it.
LEMMA ClaimMaps ==
    ASSUME NEW r \in Requests, IndInv, Claim(r)
    PROVE  Promise!Act(token[r])
<1> DEFINE t == token[r]
<1>1. t \in Tokens /\ Outcome(t) = "offered"
  BY DEF IndInv, TypeOK, SettledUnclaimed, Claim, Outcome
<1>2. t \notin ActingSet
  BY DEF IndInv, HolderMarked, Claim, ActingSet, Held, Holds
<1>3. ActingSet' = ActingSet \cup {t}
  BY <1>1 DEF IndInv, TypeOK, Claim, Goto, ActingSet, Held, Holds, Holding
<1>4. OutcomeMap' = OutcomeMap
  BY DEF Claim, createVars, cupsVars, userVars, OutcomeMap, Outcome, Printed
<1> QED
  BY <1>1, <1>2, <1>3, <1>4 DEF OutcomeMap, ActingSet, Promise!Act

\* A refused claim changes nothing, or drops an expired hook.
LEMMA ClaimRefusedMaps ==
    ASSUME NEW r \in Requests, IndInv, ClaimRefused(r)
    PROVE  Promise!Lapse({token[r]}) \/ UNCHANGED Promise!svars
<1>1. \A d \in Tokens : Held(d)' = Held(d)
  BY DEF IndInv, TypeOK, ClaimRefused, Goto, Held, Holds, Holding
<1>2. token[r] \in Tokens /\ UNCHANGED <<stage, cupsVars, cancelled>>
  BY DEF IndInv, TypeOK, ClaimRefused, createVars, userVars
<1>3. CASE token[r] \in live /\ Expired(token[r])
  BY <1>1, <1>2, <1>3, DropMaps DEF ClaimRefused
<1>4. CASE ~(token[r] \in live /\ Expired(token[r]))
  BY <1>1, <1>2, <1>4, QuietStep DEF ClaimRefused
<1> QED  BY <1>3, <1>4

\* While a request makes its way to CUPS or to the deletion it shows nothing.
\* A job whose answer is lost counts as not printed.
LEMMA HolderMaps ==
    ASSUME NEW r \in Requests, IndInv,
           Abandon(r) \/ OpenFile(r) \/ JobRefused(r) \/ BeginCancel(r) \/ RemoveFile(r)
    PROVE  UNCHANGED Promise!svars
<1>1. UNCHANGED <<live, cupsVars, cancelled, stage>>
  BY DEF Abandon, OpenFile, JobRefused, BeginCancel, RemoveFile, createVars, hookVars, userVars
<1>2. \A d \in Tokens : Held(d)' = Held(d)
  BY DEF IndInv, TypeOK, Abandon, OpenFile, JobRefused, BeginCancel, RemoveFile, Goto,
     Held, Holds, Holding
<1> QED  BY <1>1, <1>2, QuietStep

\* A job whose answer is lost is not printed as far as the server can tell.
LEMMA AnswerLostMaps ==
    ASSUME NEW r \in Requests, IndInv, AnswerLost(r)
    PROVE  UNCHANGED Promise!svars
<1>1. ActingSet' = ActingSet
  BY DEF IndInv, TypeOK, AnswerLost, Goto, ActingSet, Held, Holds, Holding
<1>2. \A d \in Tokens : Printed(d)' = Printed(d)
  BY DEF IndInv, TypeOK, AnswerLost, Accepted, Printed
<1>3. OutcomeMap' = OutcomeMap
  BY <1>2 DEF AnswerLost, createVars, hookVars, userVars, OutcomeMap, Outcome
<1> QED  BY <1>1, <1>3 DEF OutcomeMap, ActingSet, Promise!svars

\* CUPS takes the job: the holder prints the document, which is not settled yet.
LEMMA JobAcceptedMaps ==
    ASSUME NEW r \in Requests, IndInv, JobAccepted(r)
    PROVE  Promise!PrintRest(token[r])
<1> DEFINE t == token[r]
<1>1. t \in ActingSet /\ ActingSet' = ActingSet
  BY DEF IndInv, TypeOK, JobAccepted, Goto, ActingSet, Held, Holds, Holding
<1>2. ~Printed(t) /\ t \notin cancelled
  BY <1>1 DEF IndInv, TypeOK, SettledUnclaimed, JobAccepted, Goto, ActingSet, Held, Holds, Holding
<1>3. Outcome(t) \in {"offered", "lapsed"}
  BY <1>1, <1>2
  DEF IndInv, UnsavedIsFresh, JobAccepted, Goto, Outcome, ActingSet, Held, Holds, Holding
<1>4. Printed(t)' /\ \A d \in Tokens \ {t} : Printed(d)' = Printed(d)
  BY <1>1, <1>2 DEF IndInv, TypeOK, PrintedAtMostOnce, JobAccepted, Accepted, Printed, ActingSet
<1>5. OutcomeMap' = [OutcomeMap EXCEPT ![t] = "printed"]
  BY <1>1, <1>4 DEF JobAccepted, createVars, hookVars, userVars, OutcomeMap, Outcome, ActingSet
<1> QED
  BY <1>1, <1>3, <1>5 DEF OutcomeMap, ActingSet, Promise!PrintRest, Promise!Settle

\* The end of a request: a cancel settles the document, a continue just leaves.
LEMMA FinishMaps ==
    ASSUME NEW r \in Requests, IndInv, Finish(r)
    PROVE  Promise!Cancel(token[r]) \/ Promise!Leave(token[r])
<1> DEFINE t == token[r]
<1>1. t \in ActingSet /\ ActingSet' = ActingSet \ {t}
  BY DEF IndInv, TypeOK, OneHolder, Finish, Goto, ActingSet, Held, Holds, Holding
<1>2. \A d \in Tokens \ {t} : Outcome(d)' = Outcome(d)
  BY DEF IndInv, TypeOK, Finish, createVars, cupsVars, Outcome, Printed
<1>3. stage[t] = "saved" /\ UNCHANGED token
  BY <1>1 DEF IndInv, UnsavedIsFresh, Finish, Goto, ActingSet
<1>4. CASE kind[r] = "cancel"
  <2>1. ~Printed(t) /\ t \notin cancelled
    BY <1>1, <1>4 DEF IndInv, SettledUnclaimed, Finish, Goto, ActingSet, Held, Holds, Holding
  <2>2. Outcome(t) \in {"offered", "lapsed"} /\ Outcome(t)' = "cancelled"
    BY <1>3, <1>4, <2>1 DEF Finish, createVars, cupsVars, Outcome, Printed
  <2>3. OutcomeMap' = [OutcomeMap EXCEPT ![t] = "cancelled"]
    BY <1>2, <1>3, <2>2 DEF OutcomeMap
  <2> QED
    BY <1>1, <2>2, <2>3 DEF OutcomeMap, ActingSet, Promise!Cancel, Promise!Settle
<1>5. CASE kind[r] # "cancel"
  <2>1. Printed(t)
    BY <1>5 DEF IndInv, TypeOK, ReadyToDelete, Finish, Goto, Kinds
  <2>2. OutcomeMap' = OutcomeMap
    BY <1>2, <2>1 DEF Finish, cupsVars, OutcomeMap, Outcome, Printed
  <2> QED
    BY <1>1, <2>2 DEF OutcomeMap, ActingSet, Promise!Leave
<1> QED  BY <1>4, <1>5

\* A holder that gives the hook back has not printed the document: it leaves the
\* outcome as it is, whether the hook is still there or not.
LEMMA ReleaseMaps ==
    ASSUME NEW r \in Requests, IndInv, Release(r)
    PROVE  Promise!Leave(token[r])
<1> DEFINE t == token[r]
<1>1. t \in ActingSet /\ ActingSet' = ActingSet \ {t}
  BY DEF IndInv, TypeOK, OneHolder, Release, Goto, ActingSet, Held, Holds, Holding
<1>2. OutcomeMap' = OutcomeMap
  BY DEF Release, createVars, cupsVars, userVars, OutcomeMap, Outcome, Printed
<1> QED
  BY <1>1, <1>2 DEF OutcomeMap, ActingSet, Promise!Leave

\* A restart makes every offer lapse and ends every request.
LEMMA RestartMaps ==
    ASSUME IndInv, Restart
    PROVE  Promise!Crash
<1>1. ActingSet' = {}
  BY DEF Restart, ActingSet, Held, Holds, Holding
<1>2. \A t \in Tokens : Outcome(t)' = IF Outcome(t) = "offered" THEN "lapsed" ELSE Outcome(t)
  <2> TAKE t \in Tokens
  <2>1. Printed(t)' = Printed(t) /\ (t \in cancelled') = (t \in cancelled) /\ t \notin live'
    BY DEF Restart, cupsVars, userVars, Printed
  <2>2. (stage'[t] = "saved") = (stage[t] = "saved")
    BY DEF IndInv, TypeOK, Restart
  <2>3. t \in live => stage[t] = "saved"
    BY DEF IndInv, UnsavedIsFresh
  <2> QED  BY <2>1, <2>2, <2>3 DEF Outcome
<1> QED  BY <1>1, <1>2 DEF ActingSet, Promise!Crash

\* Every step of the code is a step of SecondPass or a stutter.
LEMMA StepMaps == IndInv /\ [Next]_vars => [Promise!Next]_(Promise!svars)
<1> SUFFICES ASSUME IndInv, [Next]_vars PROVE [Promise!Next]_(Promise!svars)
  OBVIOUS
<1>1. ASSUME NEW t \in Tokens, Create(t)
      PROVE  [Promise!Next]_(Promise!svars)
  BY <1>1, CreateMaps, SaveMaps DEF Create, Promise!Next
<1>2. ASSUME NEW t \in Tokens, LookupExpired(t)
      PROVE  [Promise!Next]_(Promise!svars)
  BY <1>2, LookupExpiredMaps DEF Promise!Next
<1>3. ASSUME Tick \/ \E t \in Tokens : Extend(t)
      PROVE  [Promise!Next]_(Promise!svars)
  BY <1>3, TimeMaps
<1>4. ASSUME NEW r \in Requests, NEW t \in Tokens, NEW k \in Kinds,
             WebRequest(r, t, k) \/ CardClick(r, t, k)
      PROVE  [Promise!Next]_(Promise!svars)
  BY <1>4, ReceiveMaps
<1>5. ASSUME NEW r \in Requests, HandlerStep(r)
      PROVE  [Promise!Next]_(Promise!svars)
  <2>1. token[r] \in Tokens
    BY DEF IndInv, TypeOK
  <2> QED
    BY <1>5, <2>1, ClaimMaps, ClaimRefusedMaps, HolderMaps, AnswerLostMaps, JobAcceptedMaps,
       FinishMaps, ReleaseMaps DEF HandlerStep, Promise!Next
<1>6. CASE Restart
  BY <1>6, RestartMaps DEF Promise!Next
<1>7. CASE UNCHANGED vars
  <2>1. \A t \in Tokens : Held(t)' = Held(t)
    BY <1>7 DEF vars, Held, Holds
  <2> QED  BY <1>7, <2>1, QuietStep DEF vars, cupsVars
<1> QED
  BY <1>1, <1>2, <1>3, <1>4, <1>5, <1>6, <1>7 DEF Next

\* The hook store, its callers, the clock and the restarts together keep the
\* promise made to the user: one offer, one actor at a time, one outcome.
THEOREM ImplementsSecondPass == Spec => KeepsPromise
<1>1. Init => Promise!Init
  BY InitMaps
<1>2. IndInv /\ [Next]_vars => [Promise!Next]_(Promise!svars)
  BY StepMaps
<1> QED
  BY <1>1, <1>2, Invariance, PTL DEF Spec, KeepsPromise, Promise!Spec

=============================================================================
