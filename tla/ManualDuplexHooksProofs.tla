---------------------- MODULE ManualDuplexHooksProofs ----------------------
(***************************************************************************)
(* Safety of the manual duplex hooks, for every number of documents and    *)
(* requests, every timeout and every bound.  IndInv is inductive: one      *)
(* lemma per action below, with one step per conjunct that the action can  *)
(* disturb.  The theorems at the end follow from it.                       *)
(***************************************************************************)
EXTENDS ManualDuplexHooks, TLAPS

\* At the start there are no hooks, files, requests or jobs.
LEMMA InitInv == Init => IndInv
BY ConfigAssumption DEF Init, IndInv, TypeOK, UnsavedIsFresh, HolderMarked, OneHolder,
    PrintedAtMostOnce, SettledUnclaimed, NotBothReported, ReadyToDelete, HolderKeepsHook,
    OfferedHookHasFile, NoFileWithoutHook, Holds, Held, Printed, Expired, Holding, PCs,
    Origins, Stages, Kinds

\* The new staged file belongs to a document without a hook.
LEMMA PrepareKeeps ==
    ASSUME NEW t \in Tokens, IndInv, Prepare(t)
    PROVE  IndInv'
<1> USE DEF IndInv, Prepare, hookVars, requestVars, cupsVars, userVars
<1>1. TypeOK'
  BY DEF TypeOK, Stages
<1>2. UnsavedIsFresh'
  BY DEF TypeOK, UnsavedIsFresh
<1>3. ReadyToDelete'
  BY DEF UnsavedIsFresh, ReadyToDelete, Printed
<1>4. HolderKeepsHook'
  BY DEF HolderKeepsHook, Expired
<1>5. OfferedHookHasFile'
  BY DEF OfferedHookHasFile
<1>6. NoFileWithoutHook'
  BY DEF NoFileWithoutHook
<1>7. HolderMarked' /\ OneHolder' /\ PrintedAtMostOnce' /\ SettledUnclaimed' /\
      NotBothReported'
  BY DEF HolderMarked, OneHolder, PrintedAtMostOnce, SettledUnclaimed, NotBothReported,
      Holds, Held, Printed
<1> QED  BY <1>1, <1>2, <1>3, <1>4, <1>5, <1>6, <1>7

\* A failed creation touches no hook.
LEMMA CopiesFailKeeps ==
    ASSUME NEW t \in Tokens, IndInv, CopiesFail(t)
    PROVE  IndInv'
<1> USE DEF IndInv, CopiesFail, hookVars, requestVars, cupsVars, userVars
<1>1. TypeOK'
  BY DEF TypeOK, Stages
<1>2. UnsavedIsFresh'
  BY DEF UnsavedIsFresh
<1>3. NoFileWithoutHook'
  BY DEF NoFileWithoutHook
<1>4. HolderMarked' /\ OneHolder' /\ PrintedAtMostOnce' /\ SettledUnclaimed' /\
      NotBothReported' /\ ReadyToDelete' /\ HolderKeepsHook' /\ OfferedHookHasFile'
  BY DEF HolderMarked, OneHolder, PrintedAtMostOnce, SettledUnclaimed, NotBothReported,
      ReadyToDelete, HolderKeepsHook, OfferedHookHasFile, Holds, Held, Printed, Expired
<1> QED  BY <1>1, <1>2, <1>3, <1>4

\* The first pass says nothing about the hook, which does not exist yet.
LEMMA SubmitFirstPassKeeps ==
    ASSUME NEW t \in Tokens, IndInv, SubmitFirstPass(t)
    PROVE  IndInv'
<1> USE DEF IndInv, SubmitFirstPass, diskVars, hookVars, requestVars, cupsVars, userVars
<1>1. TypeOK'
  BY DEF TypeOK, Stages
<1>2. UnsavedIsFresh'
  BY DEF UnsavedIsFresh
<1>3. NoFileWithoutHook'
  BY DEF NoFileWithoutHook
<1>4. HolderMarked' /\ OneHolder' /\ PrintedAtMostOnce' /\ SettledUnclaimed' /\
      NotBothReported' /\ ReadyToDelete' /\ HolderKeepsHook' /\ OfferedHookHasFile'
  BY DEF HolderMarked, OneHolder, PrintedAtMostOnce, SettledUnclaimed, NotBothReported,
      ReadyToDelete, HolderKeepsHook, OfferedHookHasFile, Holds, Held, Printed, Expired
<1> QED  BY <1>1, <1>2, <1>3, <1>4

\* saveManualDuplexPending: the hook is new, so nobody holds it, and its file is staged.
LEMMA SaveKeeps ==
    ASSUME NEW t \in Tokens, IndInv, Save(t)
    PROVE  IndInv'
<1> USE DEF IndInv, Save, HookTimeout, diskVars, requestVars, cupsVars, userVars
<1>1. TypeOK'
  BY ConfigAssumption DEF TypeOK, Stages
<1>2. UnsavedIsFresh'
  BY DEF TypeOK, UnsavedIsFresh
<1>3. HolderMarked'
  BY DEF UnsavedIsFresh, HolderMarked, Holding
<1>4. SettledUnclaimed'
  BY DEF UnsavedIsFresh, SettledUnclaimed, Holds, Held, Printed
<1>5. HolderKeepsHook'
  BY DEF UnsavedIsFresh, HolderKeepsHook, Expired
<1>6. OfferedHookHasFile'
  BY DEF UnsavedIsFresh, OfferedHookHasFile
<1>7. NoFileWithoutHook'
  BY DEF NoFileWithoutHook
<1>8. OneHolder' /\ PrintedAtMostOnce' /\ NotBothReported' /\ ReadyToDelete'
  BY DEF OneHolder, PrintedAtMostOnce, NotBothReported, ReadyToDelete, Holds, Printed
<1> QED  BY <1>1, <1>2, <1>3, <1>4, <1>5, <1>6, <1>7, <1>8

\* The staged file that the HTTP handler removes belongs to no hook.
LEMMA SaveFailsKeeps ==
    ASSUME NEW t \in Tokens, IndInv, SaveFails(t)
    PROVE  IndInv'
<1> USE DEF IndInv, SaveFails, hookVars, requestVars, cupsVars, userVars
<1>1. TypeOK'
  BY DEF TypeOK, Stages
<1>2. UnsavedIsFresh'
  BY DEF TypeOK, UnsavedIsFresh
<1>3. ReadyToDelete'
  BY DEF ReadyToDelete, Printed
<1>4. HolderKeepsHook'
  BY DEF UnsavedIsFresh, HolderKeepsHook, Expired
<1>5. OfferedHookHasFile'
  BY DEF UnsavedIsFresh, OfferedHookHasFile
<1>6. NoFileWithoutHook'
  BY DEF NoFileWithoutHook
<1>7. HolderMarked' /\ OneHolder' /\ PrintedAtMostOnce' /\ SettledUnclaimed' /\
      NotBothReported'
  BY DEF HolderMarked, OneHolder, PrintedAtMostOnce, SettledUnclaimed, NotBothReported,
      Holds, Held, Printed
<1> QED  BY <1>1, <1>2, <1>3, <1>4, <1>5, <1>6, <1>7

\* An expired hook and its file go together; its holder, if any, is past its time.
LEMMA LookupExpiredKeeps ==
    ASSUME NEW t \in Tokens, IndInv, LookupExpired(t)
    PROVE  IndInv'
<1> USE DEF IndInv, LookupExpired, Drop, createVars, requestVars, cupsVars, userVars
<1>1. TypeOK'
  BY DEF TypeOK
<1>2. UnsavedIsFresh'
  BY DEF UnsavedIsFresh
<1>3. HolderMarked'
  BY DEF HolderMarked
<1>4. SettledUnclaimed'
  BY DEF SettledUnclaimed, Holds, Held, Printed
<1>5. ReadyToDelete'
  BY DEF ReadyToDelete, Printed
<1>6. HolderKeepsHook'
  BY DEF HolderKeepsHook, Expired
<1>7. OfferedHookHasFile'
  BY DEF OfferedHookHasFile
<1>8. NoFileWithoutHook'
  BY DEF NoFileWithoutHook
<1>9. OneHolder' /\ PrintedAtMostOnce' /\ NotBothReported'
  BY DEF OneHolder, PrintedAtMostOnce, NotBothReported, Holds, Printed
<1> QED  BY <1>1, <1>2, <1>3, <1>4, <1>5, <1>6, <1>7, <1>8, <1>9

\* Only a hook that nobody holds is extended.
LEMMA ExtendKeeps ==
    ASSUME NEW t \in Tokens, IndInv, Extend(t)
    PROVE  IndInv'
<1> USE DEF IndInv, Extend, createVars, diskVars, requestVars, cupsVars, userVars
<1>1. TypeOK'
  BY ConfigAssumption DEF TypeOK
<1>2. HolderKeepsHook'
  BY DEF HolderKeepsHook, Expired
<1>3. UnsavedIsFresh' /\ HolderMarked' /\ OneHolder' /\ PrintedAtMostOnce' /\
      SettledUnclaimed' /\ NotBothReported' /\ ReadyToDelete' /\ OfferedHookHasFile' /\
      NoFileWithoutHook'
  BY DEF UnsavedIsFresh, HolderMarked, OneHolder, PrintedAtMostOnce, SettledUnclaimed,
      NotBothReported, ReadyToDelete, OfferedHookHasFile, NoFileWithoutHook, Holds,
      Held, Printed
<1> QED  BY <1>1, <1>2, <1>3

\* A request on its way holds nothing yet.
LEMMA WebRequestKeeps ==
    ASSUME NEW r \in Requests, NEW t \in Tokens, NEW k \in Kinds, IndInv, WebRequest(r, t, k)
    PROVE  IndInv'
<1> USE DEF IndInv, WebRequest, Start, Goto, createVars, diskVars, hookVars, cupsVars,
    userVars
<1>1. TypeOK'
  BY DEF TypeOK, PCs
<1>2. UnsavedIsFresh'
  BY DEF TypeOK, UnsavedIsFresh
<1>3. HolderMarked'
  BY DEF HolderMarked, Holding
<1>4. OneHolder'
  BY DEF OneHolder, Holds, Holding
<1>5. SettledUnclaimed'
  BY DEF SettledUnclaimed, Holds, Held, Printed, Holding
<1>6. ReadyToDelete'
  BY DEF ReadyToDelete, Printed
<1>7. HolderKeepsHook'
  BY DEF HolderKeepsHook, Expired
<1>8. OfferedHookHasFile'
  BY DEF OfferedHookHasFile
<1>9. PrintedAtMostOnce' /\ NotBothReported' /\ NoFileWithoutHook'
  BY DEF PrintedAtMostOnce, NotBothReported, NoFileWithoutHook, Printed
<1> QED  BY <1>1, <1>2, <1>3, <1>4, <1>5, <1>6, <1>7, <1>8, <1>9

\* A click that was accepted holds nothing yet.
LEMMA CardClickKeeps ==
    ASSUME NEW r \in Requests, NEW t \in Tokens, NEW k \in Kinds, IndInv, CardClick(r, t, k)
    PROVE  IndInv'
<1> USE DEF IndInv, CardClick, Start, Goto, createVars, diskVars, hookVars, cupsVars
<1>1. TypeOK'
  BY DEF TypeOK, PCs
<1>2. UnsavedIsFresh'
  BY DEF TypeOK, UnsavedIsFresh
<1>3. HolderMarked'
  BY DEF HolderMarked, Holding
<1>4. OneHolder'
  BY DEF OneHolder, Holds, Holding
<1>5. SettledUnclaimed'
  BY DEF TypeOK, SettledUnclaimed, Holds, Held, Printed
<1>6. ReadyToDelete'
  BY DEF ReadyToDelete, Printed
<1>7. HolderKeepsHook'
  BY DEF HolderKeepsHook, Expired
<1>8. OfferedHookHasFile'
  BY DEF OfferedHookHasFile
<1>9. PrintedAtMostOnce' /\ NotBothReported' /\ NoFileWithoutHook'
  BY DEF PrintedAtMostOnce, NotBothReported, NoFileWithoutHook, Printed
<1> QED  BY <1>1, <1>2, <1>3, <1>4, <1>5, <1>6, <1>7, <1>8, <1>9

\* claimManualDuplexPending: the hook was not in progress, so that HolderMarked leaves
\* it no other holder, and a printed document's hook is in progress until it is deleted.
LEMMA ClaimKeeps ==
    ASSUME NEW r \in Requests, IndInv, Claim(r)
    PROVE  IndInv'
<1> USE DEF IndInv, Claim, Goto, createVars, diskVars, cupsVars, userVars
<1>1. TypeOK'
  BY DEF TypeOK, Holding, PCs
<1>2. UnsavedIsFresh'
  BY DEF UnsavedIsFresh
<1>3. HolderMarked'
  BY DEF HolderMarked
<1>4. OneHolder'
  BY DEF HolderMarked, OneHolder, Holds
<1>5. SettledUnclaimed'
  BY DEF SettledUnclaimed, Holds, Held, Printed
<1>6. ReadyToDelete'
  BY DEF ReadyToDelete, Printed
<1>7. HolderKeepsHook'
  BY DEF HolderMarked, HolderKeepsHook, OfferedHookHasFile, Expired, Holding
<1>8. OfferedHookHasFile'
  BY DEF OfferedHookHasFile
<1>9. PrintedAtMostOnce' /\ NotBothReported' /\ NoFileWithoutHook'
  BY DEF PrintedAtMostOnce, NotBothReported, NoFileWithoutHook, Printed
<1> QED  BY <1>1, <1>2, <1>3, <1>4, <1>5, <1>6, <1>7, <1>8, <1>9

\* A refused claim leaves the hook alone, or drops it because it has expired.
LEMMA ClaimRefusedKeeps ==
    ASSUME NEW r \in Requests, IndInv, ClaimRefused(r)
    PROVE  IndInv'
<1> USE DEF IndInv, ClaimRefused, Goto, Drop, createVars, cupsVars, userVars
<1>1. TypeOK'
  BY DEF TypeOK, PCs
<1>2. UnsavedIsFresh'
  BY DEF UnsavedIsFresh
<1>3. HolderMarked'
  BY DEF HolderMarked
<1>4. OneHolder'
  BY DEF OneHolder, Holds, Holding
<1>5. SettledUnclaimed'
  BY DEF SettledUnclaimed, Holds, Held, Printed, Holding
<1>6. ReadyToDelete'
  BY DEF ReadyToDelete, Printed
<1>7. HolderKeepsHook'
  BY DEF HolderKeepsHook, Expired
<1>8. OfferedHookHasFile'
  BY DEF OfferedHookHasFile
<1>9. NoFileWithoutHook'
  BY DEF NoFileWithoutHook
<1>10. PrintedAtMostOnce' /\ NotBothReported'
  BY DEF PrintedAtMostOnce, NotBothReported, Printed
<1> QED  BY <1>1, <1>2, <1>3, <1>4, <1>5, <1>6, <1>7, <1>8, <1>9, <1>10

\* A holder that gives up has taken nothing.
LEMMA AbandonKeeps ==
    ASSUME NEW r \in Requests, IndInv, Abandon(r)
    PROVE  IndInv'
<1> USE DEF IndInv, Abandon, Goto, createVars, diskVars, hookVars, cupsVars, userVars
<1>1. TypeOK'
  BY DEF TypeOK, Holding, PCs
<1>2. UnsavedIsFresh'
  BY DEF UnsavedIsFresh
<1>3. HolderMarked'
  BY DEF HolderMarked, Holding
<1>4. OneHolder'
  BY DEF OneHolder, Holds, Holding
<1>5. SettledUnclaimed'
  BY DEF SettledUnclaimed, Holds, Held, Printed, Holding
<1>6. ReadyToDelete'
  BY DEF ReadyToDelete, Printed
<1>7. HolderKeepsHook'
  BY DEF HolderKeepsHook, Expired
<1>8. OfferedHookHasFile'
  BY DEF OfferedHookHasFile
<1>9. PrintedAtMostOnce' /\ NotBothReported' /\ NoFileWithoutHook'
  BY DEF PrintedAtMostOnce, NotBothReported, NoFileWithoutHook, Printed
<1> QED  BY <1>1, <1>2, <1>3, <1>4, <1>5, <1>6, <1>7, <1>8, <1>9

\* Opening the staged file, or failing to, changes only what the holder does next.
LEMMA OpenFileKeeps ==
    ASSUME NEW r \in Requests, IndInv, OpenFile(r)
    PROVE  IndInv'
<1> USE DEF IndInv, OpenFile, Goto, createVars, diskVars, hookVars, cupsVars, userVars
<1>1. TypeOK'
  BY DEF TypeOK, Holding, PCs
<1>2. UnsavedIsFresh'
  BY DEF UnsavedIsFresh
<1>3. HolderMarked'
  BY DEF HolderMarked, Holding
<1>4. OneHolder'
  BY DEF OneHolder, Holds, Holding
<1>5. SettledUnclaimed'
  BY DEF SettledUnclaimed, Holds, Held, Printed, Holding
<1>6. ReadyToDelete'
  BY DEF ReadyToDelete, Printed
<1>7. HolderKeepsHook'
  BY DEF HolderKeepsHook, Expired
<1>8. OfferedHookHasFile'
  BY DEF OfferedHookHasFile
<1>9. PrintedAtMostOnce' /\ NotBothReported' /\ NoFileWithoutHook'
  BY DEF PrintedAtMostOnce, NotBothReported, NoFileWithoutHook, Printed
<1> QED  BY <1>1, <1>2, <1>3, <1>4, <1>5, <1>6, <1>7, <1>8, <1>9

\* The document was not printed while its holder was sending; now it is, and the
\* holder is the only one and cleans up.
LEMMA JobAcceptedKeeps ==
    ASSUME NEW r \in Requests, IndInv, JobAccepted(r)
    PROVE  IndInv'
<1> USE DEF IndInv, JobAccepted, Goto, Accepted, createVars, diskVars, hookVars,
    userVars
<1>1. TypeOK'
  BY DEF TypeOK, Holding, PCs
<1>2. UnsavedIsFresh'
  BY DEF UnsavedIsFresh
<1>3. HolderMarked'
  BY DEF HolderMarked, Holding
<1>4. OneHolder'
  BY DEF OneHolder, Holds, Holding
<1>5. PrintedAtMostOnce'
  BY DEF TypeOK, PrintedAtMostOnce, SettledUnclaimed, Holds, Printed, Holding
<1>6. SettledUnclaimed'
  BY DEF TypeOK, HolderMarked, OneHolder, SettledUnclaimed, ReadyToDelete, Holds, Held,
      Printed, Holding
<1>7. NotBothReported'
  BY DEF TypeOK, SettledUnclaimed, NotBothReported, Holds, Held, Printed, Holding
<1>8. ReadyToDelete'
  BY DEF TypeOK, PrintedAtMostOnce, ReadyToDelete, Printed
<1>9. HolderKeepsHook'
  BY DEF HolderKeepsHook, Expired
<1>10. OfferedHookHasFile'
  BY DEF OfferedHookHasFile
<1>11. NoFileWithoutHook'
  BY DEF NoFileWithoutHook
<1> QED  BY <1>1, <1>2, <1>3, <1>4, <1>5, <1>6, <1>7, <1>8, <1>9, <1>10, <1>11

\* A job whose answer is lost counts as unheard.
LEMMA AnswerLostKeeps ==
    ASSUME NEW r \in Requests, IndInv, AnswerLost(r)
    PROVE  IndInv'
<1> USE DEF IndInv, AnswerLost, Goto, Accepted, createVars, diskVars, hookVars, userVars
<1>1. TypeOK'
  BY ConfigAssumption DEF TypeOK, Holding, PCs
<1>2. UnsavedIsFresh'
  BY DEF UnsavedIsFresh
<1>3. HolderMarked'
  BY DEF HolderMarked, Holding
<1>4. OneHolder'
  BY DEF OneHolder, Holds, Holding
<1>5. PrintedAtMostOnce'
  BY DEF TypeOK, PrintedAtMostOnce
<1>6. SettledUnclaimed'
  BY DEF TypeOK, SettledUnclaimed, Holds, Held, Printed, Holding
<1>7. NotBothReported'
  BY DEF TypeOK, NotBothReported, Printed
<1>8. ReadyToDelete'
  BY DEF TypeOK, ReadyToDelete, Printed
<1>9. HolderKeepsHook'
  BY DEF HolderKeepsHook, Expired
<1>10. OfferedHookHasFile'
  BY DEF OfferedHookHasFile
<1>11. NoFileWithoutHook'
  BY DEF NoFileWithoutHook
<1> QED  BY <1>1, <1>2, <1>3, <1>4, <1>5, <1>6, <1>7, <1>8, <1>9, <1>10, <1>11

\* A refused job changes only what the holder does next.
LEMMA JobRefusedKeeps ==
    ASSUME NEW r \in Requests, IndInv, JobRefused(r)
    PROVE  IndInv'
<1> USE DEF IndInv, JobRefused, Goto, createVars, diskVars, hookVars, cupsVars, userVars
<1>1. TypeOK'
  BY DEF TypeOK, Holding, PCs
<1>2. UnsavedIsFresh'
  BY DEF UnsavedIsFresh
<1>3. HolderMarked'
  BY DEF HolderMarked, Holding
<1>4. OneHolder'
  BY DEF OneHolder, Holds, Holding
<1>5. SettledUnclaimed'
  BY DEF SettledUnclaimed, Holds, Held, Printed, Holding
<1>6. ReadyToDelete'
  BY DEF ReadyToDelete, Printed
<1>7. HolderKeepsHook'
  BY DEF HolderKeepsHook, Expired
<1>8. OfferedHookHasFile'
  BY DEF OfferedHookHasFile
<1>9. PrintedAtMostOnce' /\ NotBothReported' /\ NoFileWithoutHook'
  BY DEF PrintedAtMostOnce, NotBothReported, NoFileWithoutHook, Printed
<1> QED  BY <1>1, <1>2, <1>3, <1>4, <1>5, <1>6, <1>7, <1>8, <1>9

\* A holder that cancels has not printed.
LEMMA BeginCancelKeeps ==
    ASSUME NEW r \in Requests, IndInv, BeginCancel(r)
    PROVE  IndInv'
<1> USE DEF IndInv, BeginCancel, Goto, createVars, diskVars, hookVars, cupsVars,
    userVars
<1>1. TypeOK'
  BY DEF TypeOK, Holding, PCs
<1>2. UnsavedIsFresh'
  BY DEF UnsavedIsFresh
<1>3. HolderMarked'
  BY DEF HolderMarked, Holding
<1>4. OneHolder'
  BY DEF OneHolder, Holds, Holding
<1>5. SettledUnclaimed'
  BY DEF SettledUnclaimed, Holds, Held, Printed, Holding
<1>6. ReadyToDelete'
  BY DEF ReadyToDelete, Printed
<1>7. HolderKeepsHook'
  BY DEF HolderKeepsHook, Expired
<1>8. OfferedHookHasFile'
  BY DEF OfferedHookHasFile
<1>9. PrintedAtMostOnce' /\ NotBothReported' /\ NoFileWithoutHook'
  BY DEF PrintedAtMostOnce, NotBothReported, NoFileWithoutHook, Printed
<1> QED  BY <1>1, <1>2, <1>3, <1>4, <1>5, <1>6, <1>7, <1>8, <1>9

\* The file goes before the hook; OneHolder keeps it from any other holder.
LEMMA RemoveFileKeeps ==
    ASSUME NEW r \in Requests, IndInv, RemoveFile(r)
    PROVE  IndInv'
<1> USE DEF IndInv, RemoveFile, Goto, createVars, hookVars, cupsVars, userVars
<1>1. TypeOK'
  BY DEF TypeOK, Holding, PCs
<1>2. UnsavedIsFresh'
  BY DEF UnsavedIsFresh
<1>3. HolderMarked'
  BY DEF HolderMarked, Holding
<1>4. OneHolder'
  BY DEF OneHolder, Holds, Holding
<1>5. SettledUnclaimed'
  BY DEF SettledUnclaimed, Holds, Held, Printed, Holding
<1>6. ReadyToDelete'
  BY DEF ReadyToDelete, Printed
<1>7. HolderKeepsHook'
  BY DEF TypeOK, OneHolder, HolderKeepsHook, Holds, Expired, Holding
<1>8. OfferedHookHasFile'
  BY DEF TypeOK, OfferedHookHasFile
<1>9. NoFileWithoutHook'
  BY DEF NoFileWithoutHook
<1>10. PrintedAtMostOnce' /\ NotBothReported'
  BY DEF PrintedAtMostOnce, NotBothReported, Printed
<1> QED  BY <1>1, <1>2, <1>3, <1>4, <1>5, <1>6, <1>7, <1>8, <1>9, <1>10

\* deleteManualDuplexPending: the hook goes after its file; a cancelled document has
\* no other holder and was not printed.
LEMMA FinishKeeps ==
    ASSUME NEW r \in Requests, IndInv, Finish(r)
    PROVE  IndInv'
<1> USE DEF IndInv, Finish, Goto, createVars, diskVars, cupsVars
<1>1. TypeOK'
  BY DEF TypeOK, PCs
<1>2. UnsavedIsFresh'
  BY DEF UnsavedIsFresh
<1>3. HolderMarked'
  BY DEF HolderMarked
<1>4. OneHolder'
  BY DEF OneHolder, Holds, Holding
<1>5. SettledUnclaimed'
  BY DEF TypeOK, OneHolder, SettledUnclaimed, Holds, Held, Printed, Holding
<1>6. NotBothReported'
  BY DEF TypeOK, SettledUnclaimed, NotBothReported, Holds, Printed, Holding
<1>7. ReadyToDelete'
  BY DEF ReadyToDelete, Printed
<1>8. HolderKeepsHook'
  BY DEF ReadyToDelete, HolderKeepsHook, Expired
<1>9. OfferedHookHasFile'
  BY DEF OfferedHookHasFile
<1>10. NoFileWithoutHook'
  BY DEF ReadyToDelete, NoFileWithoutHook
<1>11. PrintedAtMostOnce'
  BY DEF PrintedAtMostOnce
<1> QED  BY <1>1, <1>2, <1>3, <1>4, <1>5, <1>6, <1>7, <1>8, <1>9, <1>10, <1>11

\* releaseManualDuplexPending: the holder had neither printed nor removed the file.
LEMMA ReleaseKeeps ==
    ASSUME NEW r \in Requests, IndInv, Release(r)
    PROVE  IndInv'
<1> USE DEF IndInv, Release, Goto, createVars, diskVars, cupsVars, userVars
<1>1. TypeOK'
  BY DEF TypeOK, PCs
<1>2. UnsavedIsFresh'
  BY DEF UnsavedIsFresh
<1>3. HolderMarked'
  BY DEF TypeOK, HolderMarked, OneHolder, Holds, Holding
<1>4. OneHolder'
  BY DEF OneHolder, Holds, Holding
<1>5. SettledUnclaimed'
  BY DEF SettledUnclaimed, Holds, Held, Printed, Holding
<1>6. ReadyToDelete'
  BY DEF ReadyToDelete, Printed
<1>7. HolderKeepsHook'
  BY DEF HolderKeepsHook, Expired
<1>8. OfferedHookHasFile'
  BY DEF OfferedHookHasFile
<1>9. PrintedAtMostOnce' /\ NotBothReported' /\ NoFileWithoutHook'
  BY DEF PrintedAtMostOnce, NotBothReported, NoFileWithoutHook, Printed
<1> QED  BY <1>1, <1>2, <1>3, <1>4, <1>5, <1>6, <1>7, <1>8, <1>9

\* The clock can only expire hooks.
LEMMA TickKeeps ==
    ASSUME IndInv, Tick
    PROVE  IndInv'
<1> USE DEF IndInv, Tick, createVars, diskVars, hookVars, requestVars, cupsVars,
    userVars
<1>1. TypeOK'
  BY ConfigAssumption DEF TypeOK
<1>2. HolderKeepsHook'
  BY DEF TypeOK, HolderKeepsHook, Expired
<1>3. UnsavedIsFresh' /\ HolderMarked' /\ OneHolder' /\ PrintedAtMostOnce' /\
      SettledUnclaimed' /\ NotBothReported' /\ ReadyToDelete' /\ OfferedHookHasFile' /\
      NoFileWithoutHook'
  BY DEF UnsavedIsFresh, HolderMarked, OneHolder, PrintedAtMostOnce, SettledUnclaimed,
      NotBothReported, ReadyToDelete, OfferedHookHasFile, NoFileWithoutHook, Holds,
      Held, Printed
<1> QED  BY <1>1, <1>2, <1>3

\* After a restart there are no hooks, no holders and no files.
LEMMA RestartKeeps ==
    ASSUME IndInv, Restart
    PROVE  IndInv'
<1> USE DEF IndInv, Restart, cupsVars, userVars
<1>1. TypeOK'
  BY DEF TypeOK, PCs, Stages
<1>2. UnsavedIsFresh'
  BY DEF UnsavedIsFresh
<1>3. HolderMarked'
  BY DEF HolderMarked
<1>4. OneHolder'
  BY DEF OneHolder, Holds, Holding
<1>5. SettledUnclaimed'
  BY DEF SettledUnclaimed, Holds, Held, Holding
<1>6. ReadyToDelete'
  BY DEF ReadyToDelete, Printed
<1>7. HolderKeepsHook'
  BY DEF HolderKeepsHook
<1>8. OfferedHookHasFile'
  BY DEF OfferedHookHasFile
<1>9. NoFileWithoutHook'
  BY DEF NoFileWithoutHook
<1>10. PrintedAtMostOnce' /\ NotBothReported'
  BY DEF PrintedAtMostOnce, NotBothReported, Printed
<1> QED  BY <1>1, <1>2, <1>3, <1>4, <1>5, <1>6, <1>7, <1>8, <1>9, <1>10

----------------------------------------------------------------------------
\* IndInv holds after every step of the program, and after none.
LEMMA StepKeeps == IndInv /\ [Next]_vars => IndInv'
<1> SUFFICES ASSUME IndInv, [Next]_vars PROVE IndInv'
  OBVIOUS
<1>1. CASE UNCHANGED vars
  BY <1>1 DEF vars, IndInv, TypeOK, UnsavedIsFresh, HolderMarked, OneHolder,
      PrintedAtMostOnce, SettledUnclaimed, NotBothReported, ReadyToDelete,
      HolderKeepsHook, OfferedHookHasFile, NoFileWithoutHook, Holds, Held, Printed,
      Expired
<1>2. ASSUME NEW t \in Tokens, Create(t) \/ LookupExpired(t) \/ Extend(t)
      PROVE  IndInv'
  BY <1>2, PrepareKeeps, CopiesFailKeeps, SubmitFirstPassKeeps, SaveKeeps, SaveFailsKeeps,
      LookupExpiredKeeps, ExtendKeeps DEF Create
<1>3. ASSUME NEW r \in Requests, NEW t \in Tokens, NEW k \in Kinds,
             WebRequest(r, t, k) \/ CardClick(r, t, k)
      PROVE  IndInv'
  BY <1>3, WebRequestKeeps, CardClickKeeps
<1>4. ASSUME NEW r \in Requests, HandlerStep(r)
      PROVE  IndInv'
  BY <1>4, ClaimKeeps, ClaimRefusedKeeps, AbandonKeeps, OpenFileKeeps, JobAcceptedKeeps,
      AnswerLostKeeps, JobRefusedKeeps, BeginCancelKeeps, RemoveFileKeeps, FinishKeeps,
      ReleaseKeeps DEF HandlerStep
<1> QED
  BY <1>1, <1>2, <1>3, <1>4, TickKeeps, RestartKeeps DEF Next

\* The inductive invariant holds in every reachable state.
THEOREM Invariance == Spec => []IndInv
<1> QED  BY InitInv, StepKeeps, PTL DEF Spec

\* Every variable of the hook store, the disk and the requests keeps its type.
THEOREM TypeCorrect == Spec => []TypeOK
<1>1. IndInv => TypeOK
  BY DEF IndInv
<1> QED  BY <1>1, Invariance, PTL

\* claimManualDuplexPending is a lock: two requests never act on one hook at once.
THEOREM MutualExclusion == Spec => []OneHolder
<1>1. IndInv => OneHolder
  BY DEF IndInv
<1> QED  BY <1>1, Invariance, PTL

\* The second pass is printed at most once, plus once per answer that was lost,
\* and a document reported cancelled was not printed.
THEOREM AtMostOnce == Spec => [](PrintedAtMostOnce /\ NotBothReported)
<1>1. IndInv => PrintedAtMostOnce /\ NotBothReported
  BY DEF IndInv
<1> QED  BY <1>1, Invariance, PTL

\* A hook that is offered has its file, and a holder keeps both until the expiry.
THEOREM FilesFollowHooks == Spec => [](OfferedHookHasFile /\ HolderKeepsHook)
<1>1. IndInv => OfferedHookHasFile /\ HolderKeepsHook
  BY DEF IndInv
<1> QED  BY <1>1, Invariance, PTL

\* No way out of the hook store, be it a continue, a cancel, an expired lookup or a
\* save that fails, leaves a staged file behind.
THEOREM StagedFilesFreed == Spec => []NoFileWithoutHook
<1>1. IndInv => NoFileWithoutHook
  BY DEF IndInv
<1> QED  BY <1>1, Invariance, PTL

\* Only a sending holder causes a job, and while it is sending the document is
\* neither printed nor cancelled: SettledUnclaimed.
LEMMA StepSettles == IndInv /\ [Next]_vars => [NoJobOnceSettled]_vars
<1> SUFFICES ASSUME IndInv, Next PROVE NoJobOnceSettled
  BY DEF vars
<1>1. ASSUME NEW r \in Requests, JobAccepted(r) \/ AnswerLost(r)
      PROVE  NoJobOnceSettled
  BY <1>1 DEF JobAccepted, AnswerLost, Accepted, Goto, NoJobOnceSettled, IndInv, TypeOK,
      SettledUnclaimed, Held, Holds, Holding
<1>2. ASSUME UNCHANGED jobs
      PROVE  NoJobOnceSettled
  BY <1>2 DEF NoJobOnceSettled
<1>3. ASSUME NEW t \in Tokens, Create(t) \/ LookupExpired(t) \/ Extend(t)
      PROVE  UNCHANGED jobs
  BY <1>3 DEF Create, Prepare, CopiesFail, SubmitFirstPass, Save, SaveFails, LookupExpired,
      Extend, cupsVars
<1>4. ASSUME NEW r \in Requests, NEW t \in Tokens, NEW k \in Kinds,
             WebRequest(r, t, k) \/ CardClick(r, t, k)
      PROVE  UNCHANGED jobs
  BY <1>4 DEF WebRequest, CardClick, cupsVars
<1>5. ASSUME NEW r \in Requests, HandlerStep(r), ~(JobAccepted(r) \/ AnswerLost(r))
      PROVE  UNCHANGED jobs
  BY <1>5 DEF HandlerStep, Claim, ClaimRefused, Abandon, OpenFile, JobRefused, BeginCancel,
      RemoveFile, Finish, Release, cupsVars
<1>6. Tick \/ Restart => UNCHANGED jobs
  BY DEF Tick, Restart, cupsVars
<1> QED
  BY <1>1, <1>2, <1>3, <1>4, <1>5, <1>6 DEF Next

\* Once a continue is answered or a cancel confirmed, no step submits another job.
THEOREM SettledForGood == Spec => SettledIsFinal
<1> QED  BY Invariance, StepSettles, PTL DEF Spec, SettledIsFinal

\* What the expiry loses by an extension is bounded by the window in which it is allowed.
LEMMA StepExtends == IndInv /\ [Next]_vars => [ShortensByExcess]_vars
<1> SUFFICES ASSUME IndInv, Next PROVE ShortensByExcess
  BY DEF vars
<1>1. ASSUME NEW t \in Tokens, Extend(t)
      PROVE  ShortensByExcess
  BY <1>1, ConfigAssumption DEF Extend, ShortensByExcess, Expired, IndInv, TypeOK, hookVars
<1>2. ASSUME NEW t \in Tokens, Save(t)
      PROVE  ShortensByExcess
  BY <1>2, ConfigAssumption DEF Save, ShortensByExcess, IndInv, TypeOK, UnsavedIsFresh, hookVars
<1>3. ASSUME UNCHANGED expiresAt
      PROVE  ShortensByExcess
  BY <1>3 DEF ShortensByExcess, IndInv, TypeOK
<1>4. ASSUME NEW t \in Tokens, Create(t) \/ LookupExpired(t), ~Save(t)
      PROVE  UNCHANGED expiresAt
  BY <1>4 DEF Create, Prepare, CopiesFail, SubmitFirstPass, SaveFails, LookupExpired, hookVars
<1>5. ASSUME NEW r \in Requests, NEW t \in Tokens, NEW k \in Kinds,
             WebRequest(r, t, k) \/ CardClick(r, t, k)
      PROVE  UNCHANGED expiresAt
  BY <1>5 DEF WebRequest, CardClick, hookVars
<1>6. ASSUME NEW r \in Requests, HandlerStep(r)
      PROVE  UNCHANGED expiresAt
  BY <1>6 DEF HandlerStep, Claim, ClaimRefused, Abandon, OpenFile, JobAccepted, AnswerLost,
      JobRefused, BeginCancel, RemoveFile, Finish, Release, hookVars
<1>7. Tick \/ Restart => UNCHANGED expiresAt
  BY DEF Tick, Restart, hookVars
<1> QED
  BY <1>1, <1>2, <1>3, <1>4, <1>5, <1>6, <1>7 DEF Next

\* Whatever the timeouts and the window are, an extension takes away at most what the
\* window exceeds the minimum timeout by; nothing else moves the expiry of a hook.
THEOREM ExtensionsBounded == Spec => ExtensionBounded
<1> QED  BY Invariance, StepExtends, PTL DEF Spec, ExtensionBounded

============================================================================
