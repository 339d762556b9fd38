------------------------ MODULE SubmitPipelineProofs ------------------------
(***************************************************************************)
(* The safety properties of SubmitPipeline for any requests, documents and *)
(* number of polls.                                                        *)
(***************************************************************************)
EXTENDS SubmitPipeline, TLAPS

\* An export is polled at most MaxPolls times.
PollsCounted ==
    \A r \in Requests :
        /\ pc[r] \in {"idle", "waiting", "parse", "resolve", "create"} => polls[r] = 0
        /\ pc[r] = "export" => polls[r] < MaxPolls

\* What a handler did not find in the cache stays away until it puts it there,
\* because nobody else has the slot.
AbsentUntilStored ==
    \A r \in Requests :
        /\ pc[r] = "move" => cache[Source(r)] = "absent"
        /\ pc[r] \in {"convert", "await", "store"} => cache[Pdf(r)] = "absent"

\* What the cleaner has found old is not renewed before it is removed.
DoomedIsOld == \A f \in doomed : cache[f] = "old"

\* A request that stored its conversion is past the conversion, and the file is
\* fresh until the request has opened it for the last time.
StoredIsFresh ==
    \A r \in stored :
        /\ pc[r] \in {"check", "send", "write", "record", "release", "done"}
        /\ pc[r] \in {"check", "send"} => cache[Pdf(r)] = "fresh"

MissedIsOver == \A r \in missed : pc[r] \in {"release", "done"}

IndInv ==
    /\ TypeOK
    /\ PollsCounted
    /\ OneAtATime
    /\ SlotNeverLost
    /\ AbsentUntilStored
    /\ DoomedIsOld
    /\ StoredIsFresh
    /\ MissedIsOver
    /\ OwnConversionStays

----------------------------------------------------------------------------
(* One lemma per action, one step per conjunct that the action can disturb. *)

\* At the start the slot is free, the cache empty and nobody at work.
LEMMA InitInv == Init => IndInv
BY PipelineAssumption DEF Init, IndInv, TypeOK, PollsCounted, OneAtATime, SlotNeverLost,
    AbsentUntilStored, DoomedIsOld, StoredIsFresh, MissedIsOver, OwnConversionStays, Holds,
    Holding, PCs

\* Wherever the handler goes next, it still has the slot.
LEMMA HolderMoves ==
    ASSUME IndInv, NEW r \in Requests, NEW to \in Holding, pc[r] \in Holding,
           pc' = [pc EXCEPT ![r] = to], slot' = slot
    PROVE  OneAtATime' /\ SlotNeverLost'
BY DEF IndInv, TypeOK, OneAtATime, SlotNeverLost, Holds

\* A request that does not hold the slot, before and after.
LEMMA BystanderMoves ==
    ASSUME IndInv, NEW r \in Requests, NEW to \in PCs \ Holding, pc[r] \notin Holding,
           pc' = [pc EXCEPT ![r] = to], slot' = slot
    PROVE  OneAtATime' /\ SlotNeverLost'
BY DEF IndInv, TypeOK, OneAtATime, SlotNeverLost, Holds

\* A request begins to wait.
LEMMA ArriveKeeps ==
    ASSUME NEW r \in Requests, IndInv, Arrive(r)
    PROVE  IndInv'
<1> USE DEF IndInv, Arrive, clientVars, cacheVars, fileVars, historyVars
<1>1. TypeOK'
  BY DEF TypeOK, Goto, PCs, Holding
<1>2. PollsCounted'
  BY DEF TypeOK, PollsCounted, Goto
<1>3. OneAtATime' /\ SlotNeverLost'
  BY BystanderMoves DEF Goto, PCs, Holding
<1>4. AbsentUntilStored'
  BY DEF TypeOK, AbsentUntilStored, Source, Pdf, Goto
<1>5. DoomedIsOld'
  BY DEF DoomedIsOld
<1>6. StoredIsFresh'
  BY DEF TypeOK, StoredIsFresh, Pdf, Holding, Goto
<1>7. MissedIsOver' /\ OwnConversionStays'
  BY DEF TypeOK, MissedIsOver, OwnConversionStays, Goto
<1> QED  BY <1>1, <1>2, <1>3, <1>4, <1>5, <1>6, <1>7

\* Nobody held the slot when its token was there.
LEMMA AcquireKeeps ==
    ASSUME NEW r \in Requests, IndInv, Acquire(r)
    PROVE  IndInv'
<1> USE DEF IndInv, Acquire, clientVars, cacheVars, fileVars, historyVars
<1>1. TypeOK'
  BY DEF TypeOK, Goto, PCs, Holding
<1>2. PollsCounted'
  BY PipelineAssumption DEF TypeOK, PollsCounted, Goto
<1>3. OneAtATime' /\ SlotNeverLost'
  BY DEF TypeOK, OneAtATime, SlotNeverLost, Holds, Holding, Goto
<1>4. AbsentUntilStored'
  BY DEF TypeOK, AbsentUntilStored, Source, Pdf, Goto
<1>5. DoomedIsOld'
  BY DEF DoomedIsOld
<1>6. StoredIsFresh'
  BY DEF TypeOK, StoredIsFresh, Pdf, Holding, Goto
<1>7. MissedIsOver' /\ OwnConversionStays'
  BY DEF TypeOK, MissedIsOver, OwnConversionStays, Goto
<1> QED  BY <1>1, <1>2, <1>3, <1>4, <1>5, <1>6, <1>7

\* A request that waits has no token to give back.
LEMMA GiveUpKeeps ==
    ASSUME NEW r \in Requests, IndInv, GiveUp(r)
    PROVE  IndInv'
<1> USE DEF IndInv, GiveUp, clientVars, cacheVars, fileVars, historyVars
<1>1. TypeOK'
  BY DEF TypeOK, Goto, PCs, Holding
<1>2. PollsCounted'
  BY DEF TypeOK, PollsCounted, Goto
<1>3. OneAtATime' /\ SlotNeverLost'
  BY BystanderMoves DEF Goto, PCs, Holding
<1>4. AbsentUntilStored'
  BY DEF TypeOK, AbsentUntilStored, Source, Pdf, Goto
<1>5. DoomedIsOld'
  BY DEF DoomedIsOld
<1>6. StoredIsFresh'
  BY DEF TypeOK, StoredIsFresh, Pdf, Holding, Goto
<1>7. MissedIsOver' /\ OwnConversionStays'
  BY DEF TypeOK, MissedIsOver, OwnConversionStays, Goto
<1> QED  BY <1>1, <1>2, <1>3, <1>4, <1>5, <1>6, <1>7

\* The one holder gives the slot back.
LEMMA ReleaseKeeps ==
    ASSUME NEW r \in Requests, IndInv, Release(r)
    PROVE  IndInv'
<1> USE DEF IndInv, Release, clientVars, cacheVars, fileVars, historyVars
<1>1. TypeOK'
  BY DEF TypeOK, Goto, PCs, Holding
<1>2. PollsCounted'
  BY DEF TypeOK, PollsCounted, Goto
<1>3. OneAtATime' /\ SlotNeverLost'
  BY DEF TypeOK, OneAtATime, SlotNeverLost, Holds, Holding, Goto
<1>4. AbsentUntilStored'
  BY DEF TypeOK, AbsentUntilStored, Source, Pdf, Goto
<1>5. DoomedIsOld'
  BY DEF DoomedIsOld
<1>6. StoredIsFresh'
  BY DEF TypeOK, StoredIsFresh, Pdf, Holding, Goto
<1>7. MissedIsOver' /\ OwnConversionStays'
  BY DEF TypeOK, MissedIsOver, OwnConversionStays, Goto
<1> QED  BY <1>1, <1>2, <1>3, <1>4, <1>5, <1>6, <1>7

\* The upload is outside the cache.
LEMMA UploadKeeps ==
    ASSUME NEW r \in Requests, IndInv, Upload(r)
    PROVE  IndInv'
<1> USE DEF IndInv, Upload, clientVars, cacheVars, historyVars
<1>1. TypeOK'
  BY DEF TypeOK, Goto, PCs, Holding
<1>2. PollsCounted'
  BY DEF TypeOK, PollsCounted, Goto
<1>3. OneAtATime' /\ SlotNeverLost'
  BY HolderMoves DEF Goto, Holding
<1>4. AbsentUntilStored'
  BY DEF TypeOK, AbsentUntilStored, Source, Pdf, Goto
<1>5. DoomedIsOld'
  BY DEF DoomedIsOld
<1>6. StoredIsFresh'
  BY DEF TypeOK, StoredIsFresh, Pdf, Holding, Goto
<1>7. MissedIsOver' /\ OwnConversionStays'
  BY DEF TypeOK, MissedIsOver, OwnConversionStays, Goto
<1> QED  BY <1>1, <1>2, <1>3, <1>4, <1>5, <1>6, <1>7

\* A source that is not there sends the handler to the rename.
LEMMA KeepSourceKeeps ==
    ASSUME NEW r \in Requests, IndInv, KeepSource(r)
    PROVE  IndInv'
<1> USE DEF IndInv, KeepSource, clientVars, cacheVars, historyVars
<1>1. TypeOK'
  BY DEF TypeOK, Goto, PCs, Holding
<1>2. PollsCounted'
  BY DEF TypeOK, PollsCounted, Goto
<1>3. OneAtATime' /\ SlotNeverLost'
  BY HolderMoves DEF Goto, Holding
<1>4. AbsentUntilStored'
  BY DEF TypeOK, AbsentUntilStored, Source, Pdf, Goto, There
<1>5. DoomedIsOld'
  BY DEF DoomedIsOld
<1>6. StoredIsFresh'
  BY DEF TypeOK, StoredIsFresh, Pdf, Holding, Goto
<1>7. MissedIsOver' /\ OwnConversionStays'
  BY DEF TypeOK, MissedIsOver, OwnConversionStays, Goto
<1> QED  BY <1>1, <1>2, <1>3, <1>4, <1>5, <1>6, <1>7

\* The source that appears was absent, so it was not doomed.
LEMMA MoveSourceKeeps ==
    ASSUME NEW r \in Requests, IndInv, MoveSource(r)
    PROVE  IndInv'
<1> USE DEF IndInv, MoveSource, clientVars, historyVars
<1>1. TypeOK'
  BY DEF TypeOK, Goto, PCs, Holding, Source, Files, Sides
<1>2. PollsCounted'
  BY DEF TypeOK, PollsCounted, Goto
<1>3. OneAtATime' /\ SlotNeverLost'
  BY HolderMoves DEF Goto, Holding
<1>4. AbsentUntilStored'
  BY DEF TypeOK, AbsentUntilStored, OneAtATime, Holds, Holding, Source, Pdf, Goto, Files, Sides
<1>5. DoomedIsOld'
  BY DEF TypeOK, DoomedIsOld, AbsentUntilStored, Source, Goto, Files, Sides
<1>6. StoredIsFresh'
  BY DEF TypeOK, StoredIsFresh, Pdf, Source, Holding, Goto, Files, Sides
<1>7. MissedIsOver' /\ OwnConversionStays'
  BY DEF TypeOK, MissedIsOver, OwnConversionStays, Goto
<1> QED  BY <1>1, <1>2, <1>3, <1>4, <1>5, <1>6, <1>7

\* A miss sends the handler to the converter.
LEMMA LookupPdfKeeps ==
    ASSUME NEW r \in Requests, IndInv, LookupPdf(r)
    PROVE  IndInv'
<1> USE DEF IndInv, LookupPdf, clientVars, cacheVars, fileVars, historyVars
<1>1. TypeOK'
  BY DEF TypeOK, Goto, PCs, Holding
<1>2. PollsCounted'
  BY DEF TypeOK, PollsCounted, Goto
<1>3. OneAtATime' /\ SlotNeverLost'
  BY HolderMoves DEF Goto, Holding
<1>4. AbsentUntilStored'
  BY DEF TypeOK, AbsentUntilStored, Source, Pdf, Goto, There
<1>5. DoomedIsOld'
  BY DEF DoomedIsOld
<1>6. StoredIsFresh'
  BY DEF TypeOK, StoredIsFresh, Pdf, Holding, Goto
<1>7. MissedIsOver' /\ OwnConversionStays'
  BY DEF TypeOK, MissedIsOver, OwnConversionStays, Goto
<1> QED  BY <1>1, <1>2, <1>3, <1>4, <1>5, <1>6, <1>7

\* The conversion does not touch the cache.
LEMMA ConvertKeeps ==
    ASSUME NEW r \in Requests, IndInv, Convert(r)
    PROVE  IndInv'
<1> USE DEF IndInv, Convert, clientVars, cacheVars, historyVars
<1>1. TypeOK'
  BY DEF TypeOK, Goto, PCs, Holding
<1>2. PollsCounted'
  BY DEF TypeOK, PollsCounted, Goto
<1>3. OneAtATime' /\ SlotNeverLost'
  BY HolderMoves DEF Goto, Holding
<1>4. AbsentUntilStored'
  BY DEF TypeOK, AbsentUntilStored, Source, Pdf, Goto
<1>5. DoomedIsOld'
  BY DEF DoomedIsOld
<1>6. StoredIsFresh'
  BY DEF TypeOK, StoredIsFresh, Pdf, Holding, Goto
<1>7. MissedIsOver' /\ OwnConversionStays'
  BY DEF TypeOK, MissedIsOver, OwnConversionStays, Goto
<1> QED  BY <1>1, <1>2, <1>3, <1>4, <1>5, <1>6, <1>7

\* The answer of the conversion service does not touch the cache.
LEMMA ConvertedKeeps ==
    ASSUME NEW r \in Requests, IndInv, Converted(r)
    PROVE  IndInv'
<1> USE DEF IndInv, Converted, clientVars, cacheVars, fileVars, historyVars
<1>1. TypeOK'
  BY DEF TypeOK, Goto, PCs, Holding
<1>2. PollsCounted'
  BY DEF TypeOK, PollsCounted, Goto
<1>3. OneAtATime' /\ SlotNeverLost'
  BY HolderMoves DEF Goto, Holding
<1>4. AbsentUntilStored'
  BY DEF TypeOK, AbsentUntilStored, Source, Pdf, Goto
<1>5. DoomedIsOld'
  BY DEF DoomedIsOld
<1>6. StoredIsFresh'
  BY DEF TypeOK, StoredIsFresh, Pdf, Holding, Goto
<1>7. MissedIsOver' /\ OwnConversionStays'
  BY DEF TypeOK, MissedIsOver, OwnConversionStays, Goto
<1> QED  BY <1>1, <1>2, <1>3, <1>4, <1>5, <1>6, <1>7

\* The handler gives up on the conversion.
LEMMA ConversionLostKeeps ==
    ASSUME NEW r \in Requests, IndInv, ConversionLost(r)
    PROVE  IndInv'
<1> USE DEF IndInv, ConversionLost, clientVars, cacheVars, fileVars, historyVars
<1>1. TypeOK'
  BY DEF TypeOK, Goto, PCs, Holding
<1>2. PollsCounted'
  BY DEF TypeOK, PollsCounted, Goto
<1>3. OneAtATime' /\ SlotNeverLost'
  BY HolderMoves DEF Goto, Holding
<1>4. AbsentUntilStored'
  BY DEF TypeOK, AbsentUntilStored, Source, Pdf, Goto
<1>5. DoomedIsOld'
  BY DEF DoomedIsOld
<1>6. StoredIsFresh'
  BY DEF TypeOK, StoredIsFresh, Pdf, Holding, Goto
<1>7. MissedIsOver' /\ OwnConversionStays'
  BY DEF TypeOK, MissedIsOver, OwnConversionStays, Goto
<1> QED  BY <1>1, <1>2, <1>3, <1>4, <1>5, <1>6, <1>7

\* The PDF that appears was absent, so it was not doomed.
LEMMA StorePdfKeeps ==
    ASSUME NEW r \in Requests, IndInv, StorePdf(r)
    PROVE  IndInv'
<1> USE DEF IndInv, StorePdf, clientVars
<1>1. TypeOK'
  BY DEF TypeOK, Goto, PCs, Holding, Pdf, Files, Sides
<1>2. PollsCounted'
  BY DEF TypeOK, PollsCounted, Goto
<1>3. OneAtATime' /\ SlotNeverLost'
  BY HolderMoves DEF Goto, Holding
<1>4. AbsentUntilStored'
  BY DEF TypeOK, AbsentUntilStored, OneAtATime, Holds, Holding, Source, Pdf, Goto, Files, Sides
<1>5. DoomedIsOld'
  BY DEF TypeOK, DoomedIsOld, AbsentUntilStored, Pdf, Goto, Files, Sides
<1>6. StoredIsFresh'
  BY DEF TypeOK, StoredIsFresh, Pdf, Holding, Goto, Files, Sides
<1>7. MissedIsOver' /\ OwnConversionStays'
  BY DEF TypeOK, MissedIsOver, OwnConversionStays, Goto
<1> QED  BY <1>1, <1>2, <1>3, <1>4, <1>5, <1>6, <1>7

\* A request that stored its PDF finds it fresh.
LEMMA CheckPagesKeeps ==
    ASSUME NEW r \in Requests, IndInv, CheckPages(r)
    PROVE  IndInv'
<1> USE DEF IndInv, CheckPages, clientVars, cacheVars, fileVars
<1>1. TypeOK'
  BY DEF TypeOK, Goto, PCs, Holding
<1>2. PollsCounted'
  BY DEF TypeOK, PollsCounted, Goto
<1>3. OneAtATime' /\ SlotNeverLost'
  BY HolderMoves DEF Goto, Holding
<1>4. AbsentUntilStored'
  BY DEF TypeOK, AbsentUntilStored, Source, Pdf, Goto
<1>5. DoomedIsOld'
  BY DEF DoomedIsOld
<1>6. StoredIsFresh'
  BY DEF TypeOK, StoredIsFresh, Pdf, Holding, Goto
<1>7. MissedIsOver' /\ OwnConversionStays'
  BY DEF TypeOK, MissedIsOver, OwnConversionStays, StoredIsFresh, Opens, There, Holding, Goto
<1> QED  BY <1>1, <1>2, <1>3, <1>4, <1>5, <1>6, <1>7

\* A request that stored its PDF finds it fresh.
LEMMA SendKeeps ==
    ASSUME NEW r \in Requests, IndInv, Send(r)
    PROVE  IndInv'
<1> USE DEF IndInv, Send, clientVars, cacheVars, fileVars
<1>1. TypeOK'
  BY DEF TypeOK, Goto, PCs, Holding
<1>2. PollsCounted'
  BY DEF TypeOK, PollsCounted, Goto
<1>3. OneAtATime' /\ SlotNeverLost'
  BY HolderMoves DEF Goto, Holding
<1>4. AbsentUntilStored'
  BY DEF TypeOK, AbsentUntilStored, Source, Pdf, Goto
<1>5. DoomedIsOld'
  BY DEF DoomedIsOld
<1>6. StoredIsFresh'
  BY DEF TypeOK, StoredIsFresh, Pdf, Holding, Goto
<1>7. MissedIsOver' /\ OwnConversionStays'
  BY DEF TypeOK, MissedIsOver, OwnConversionStays, StoredIsFresh, Opens, There, Holding, Goto
<1> QED  BY <1>1, <1>2, <1>3, <1>4, <1>5, <1>6, <1>7

\* The record is written with the slot held.
LEMMA RecordKeeps ==
    ASSUME NEW r \in Requests, IndInv, Record(r)
    PROVE  IndInv'
<1> USE DEF IndInv, Record, clientVars, cacheVars, fileVars, historyVars
<1>1. TypeOK'
  BY DEF TypeOK, Goto, PCs, Holding
<1>2. PollsCounted'
  BY DEF TypeOK, PollsCounted, Goto
<1>3. OneAtATime' /\ SlotNeverLost'
  BY HolderMoves DEF Goto, Holding
<1>4. AbsentUntilStored'
  BY DEF TypeOK, AbsentUntilStored, Source, Pdf, Goto
<1>5. DoomedIsOld'
  BY DEF DoomedIsOld
<1>6. StoredIsFresh'
  BY DEF TypeOK, StoredIsFresh, Pdf, Holding, Goto
<1>7. MissedIsOver' /\ OwnConversionStays'
  BY DEF TypeOK, MissedIsOver, OwnConversionStays, Goto
<1> QED  BY <1>1, <1>2, <1>3, <1>4, <1>5, <1>6, <1>7

\* A client that leaves takes nothing with it.
LEMMA LeaveKeeps ==
    ASSUME NEW r \in Requests, IndInv, Leave(r)
    PROVE  IndInv'
<1> USE DEF IndInv, Leave, clientVars, cacheVars, fileVars, historyVars
<1>1. TypeOK'
  BY DEF TypeOK, PollsCounted, Goto, PCs, Holding, AtFeishu, Begins
<1>2. PollsCounted'
  BY DEF TypeOK, PollsCounted, Goto, AtFeishu, Begins
<1>3. OneAtATime' /\ SlotNeverLost'
  BY DEF OneAtATime, SlotNeverLost, Holds
<1>4. AbsentUntilStored'
  BY DEF TypeOK, AbsentUntilStored, Source, Pdf, Goto, AtFeishu, Begins
<1>5. DoomedIsOld'
  BY DEF DoomedIsOld
<1>6. StoredIsFresh'
  BY DEF TypeOK, StoredIsFresh, Pdf, Holding, Goto, AtFeishu, Begins
<1>7. MissedIsOver' /\ OwnConversionStays'
  BY DEF TypeOK, MissedIsOver, OwnConversionStays, Goto, AtFeishu, Begins
<1> QED  BY <1>1, <1>2, <1>3, <1>4, <1>5, <1>6, <1>7

\* A preview that has been read was opened before.
LEMMA WrittenKeeps ==
    ASSUME NEW r \in Requests, IndInv, Written(r)
    PROVE  IndInv'
<1> USE DEF IndInv, Written, clientVars, cacheVars, fileVars, historyVars
<1>1. TypeOK'
  BY DEF TypeOK, PollsCounted, Goto, PCs, Holding, AtFeishu, Begins
<1>2. PollsCounted'
  BY DEF TypeOK, PollsCounted, Goto, AtFeishu, Begins
<1>3. OneAtATime' /\ SlotNeverLost'
  BY HolderMoves DEF Goto, Holding, AtFeishu, Begins, OneAtATime, SlotNeverLost, Holds
<1>4. AbsentUntilStored'
  BY DEF TypeOK, AbsentUntilStored, Source, Pdf, Goto, AtFeishu, Begins
<1>5. DoomedIsOld'
  BY DEF DoomedIsOld
<1>6. StoredIsFresh'
  BY DEF TypeOK, StoredIsFresh, Pdf, Holding, Goto, AtFeishu, Begins
<1>7. MissedIsOver' /\ OwnConversionStays'
  BY DEF TypeOK, MissedIsOver, OwnConversionStays, Goto, AtFeishu, Begins
<1> QED  BY <1>1, <1>2, <1>3, <1>4, <1>5, <1>6, <1>7

\* An export has not been polled before it is created.
LEMMA ParseUrlKeeps ==
    ASSUME NEW r \in Requests, IndInv, ParseUrl(r)
    PROVE  IndInv'
<1> USE DEF IndInv, ParseUrl, clientVars, cacheVars, fileVars, historyVars
<1>1. TypeOK'
  BY DEF TypeOK, PollsCounted, Goto, PCs, Holding, AtFeishu, Begins
<1>2. PollsCounted'
  BY DEF TypeOK, PollsCounted, Goto, AtFeishu, Begins
<1>3. OneAtATime' /\ SlotNeverLost'
  BY HolderMoves DEF Goto, Holding, AtFeishu, Begins, OneAtATime, SlotNeverLost, Holds
<1>4. AbsentUntilStored'
  BY DEF TypeOK, AbsentUntilStored, Source, Pdf, Goto, AtFeishu, Begins
<1>5. DoomedIsOld'
  BY DEF DoomedIsOld
<1>6. StoredIsFresh'
  BY DEF TypeOK, StoredIsFresh, Pdf, Holding, Goto, AtFeishu, Begins
<1>7. MissedIsOver' /\ OwnConversionStays'
  BY DEF TypeOK, MissedIsOver, OwnConversionStays, Goto, AtFeishu, Begins
<1> QED  BY <1>1, <1>2, <1>3, <1>4, <1>5, <1>6, <1>7

\* A shortcut leads to the same step again.
LEMMA ResolvedKeeps ==
    ASSUME NEW r \in Requests, IndInv, Resolved(r)
    PROVE  IndInv'
<1> USE DEF IndInv, Resolved, clientVars, cacheVars, fileVars, historyVars
<1>1. TypeOK'
  BY DEF TypeOK, PollsCounted, Goto, PCs, Holding, AtFeishu, Begins
<1>2. PollsCounted'
  BY DEF TypeOK, PollsCounted, Goto, AtFeishu, Begins
<1>3. OneAtATime' /\ SlotNeverLost'
  BY HolderMoves DEF Goto, Holding, AtFeishu, Begins, OneAtATime, SlotNeverLost, Holds
<1>4. AbsentUntilStored'
  BY DEF TypeOK, AbsentUntilStored, Source, Pdf, Goto, AtFeishu, Begins
<1>5. DoomedIsOld'
  BY DEF DoomedIsOld
<1>6. StoredIsFresh'
  BY DEF TypeOK, StoredIsFresh, Pdf, Holding, Goto, AtFeishu, Begins
<1>7. MissedIsOver' /\ OwnConversionStays'
  BY DEF TypeOK, MissedIsOver, OwnConversionStays, Goto, AtFeishu, Begins
<1> QED  BY <1>1, <1>2, <1>3, <1>4, <1>5, <1>6, <1>7

\* The polls are counted from none.
LEMMA CreatedKeeps ==
    ASSUME NEW r \in Requests, IndInv, Created(r)
    PROVE  IndInv'
<1> USE DEF IndInv, Created, clientVars, cacheVars, fileVars, historyVars
<1>1. TypeOK'
  BY PipelineAssumption DEF TypeOK, PollsCounted, Goto, PCs, Holding, AtFeishu, Begins
<1>2. PollsCounted'
  BY PipelineAssumption DEF TypeOK, PollsCounted, Goto, AtFeishu, Begins
<1>3. OneAtATime' /\ SlotNeverLost'
  BY HolderMoves DEF Goto, Holding, AtFeishu, Begins, OneAtATime, SlotNeverLost, Holds
<1>4. AbsentUntilStored'
  BY DEF TypeOK, AbsentUntilStored, Source, Pdf, Goto, AtFeishu, Begins
<1>5. DoomedIsOld'
  BY DEF DoomedIsOld
<1>6. StoredIsFresh'
  BY DEF TypeOK, StoredIsFresh, Pdf, Holding, Goto, AtFeishu, Begins
<1>7. MissedIsOver' /\ OwnConversionStays'
  BY DEF TypeOK, MissedIsOver, OwnConversionStays, Goto, AtFeishu, Begins
<1> QED  BY <1>1, <1>2, <1>3, <1>4, <1>5, <1>6, <1>7

\* The last poll ends the export.
LEMMA PolledKeeps ==
    ASSUME NEW r \in Requests, IndInv, Polled(r)
    PROVE  IndInv'
<1> USE DEF IndInv, Polled, clientVars, cacheVars, fileVars, historyVars
<1>1. TypeOK'
  BY PipelineAssumption DEF TypeOK, PollsCounted, Goto, PCs, Holding, AtFeishu, Begins
<1>2. PollsCounted'
  BY PipelineAssumption DEF TypeOK, PollsCounted, Goto, AtFeishu, Begins
<1>3. OneAtATime' /\ SlotNeverLost'
  BY HolderMoves DEF Goto, Holding, AtFeishu, Begins, OneAtATime, SlotNeverLost, Holds
<1>4. AbsentUntilStored'
  BY DEF TypeOK, AbsentUntilStored, Source, Pdf, Goto, AtFeishu, Begins
<1>5. DoomedIsOld'
  BY DEF DoomedIsOld
<1>6. StoredIsFresh'
  BY DEF TypeOK, StoredIsFresh, Pdf, Holding, Goto, AtFeishu, Begins
<1>7. MissedIsOver' /\ OwnConversionStays'
  BY DEF TypeOK, MissedIsOver, OwnConversionStays, Goto, AtFeishu, Begins
<1> QED  BY <1>1, <1>2, <1>3, <1>4, <1>5, <1>6, <1>7

\* The download is a file outside the cache.
LEMMA DownloadedKeeps ==
    ASSUME NEW r \in Requests, IndInv, Downloaded(r)
    PROVE  IndInv'
<1> USE DEF IndInv, Downloaded, clientVars, cacheVars, fileVars, historyVars
<1>1. TypeOK'
  BY DEF TypeOK, PollsCounted, Goto, PCs, Holding, AtFeishu, Begins
<1>2. PollsCounted'
  BY DEF TypeOK, PollsCounted, Goto, AtFeishu, Begins
<1>3. OneAtATime' /\ SlotNeverLost'
  BY HolderMoves DEF Goto, Holding, AtFeishu, Begins, OneAtATime, SlotNeverLost, Holds
<1>4. AbsentUntilStored'
  BY DEF TypeOK, AbsentUntilStored, Source, Pdf, Goto, AtFeishu, Begins
<1>5. DoomedIsOld'
  BY DEF DoomedIsOld
<1>6. StoredIsFresh'
  BY DEF TypeOK, StoredIsFresh, Pdf, Holding, Goto, AtFeishu, Begins
<1>7. MissedIsOver' /\ OwnConversionStays'
  BY DEF TypeOK, MissedIsOver, OwnConversionStays, Goto, AtFeishu, Begins
<1> QED  BY <1>1, <1>2, <1>3, <1>4, <1>5, <1>6, <1>7

\* Who is cut off still has the slot to give back.
LEMMA CutOffKeeps ==
    ASSUME NEW r \in Requests, IndInv, CutOff(r)
    PROVE  IndInv'
<1> USE DEF IndInv, CutOff, clientVars, cacheVars, fileVars, historyVars
<1>1. TypeOK'
  BY DEF TypeOK, PollsCounted, Goto, PCs, Holding, AtFeishu, Begins
<1>2. PollsCounted'
  BY DEF TypeOK, PollsCounted, Goto, AtFeishu, Begins
<1>3. OneAtATime' /\ SlotNeverLost'
  BY HolderMoves DEF Goto, Holding, AtFeishu, Begins, OneAtATime, SlotNeverLost, Holds
<1>4. AbsentUntilStored'
  BY DEF TypeOK, AbsentUntilStored, Source, Pdf, Goto, AtFeishu, Begins
<1>5. DoomedIsOld'
  BY DEF DoomedIsOld
<1>6. StoredIsFresh'
  BY DEF TypeOK, StoredIsFresh, Pdf, Holding, Goto, AtFeishu, Begins
<1>7. MissedIsOver' /\ OwnConversionStays'
  BY DEF TypeOK, MissedIsOver, OwnConversionStays, Goto, AtFeishu, Begins
<1> QED  BY <1>1, <1>2, <1>3, <1>4, <1>5, <1>6, <1>7

\* The service writes beside the cache.
LEMMA ConverterEndsKeeps ==
    ASSUME NEW r \in Requests, IndInv, ConverterEnds(r)
    PROVE  IndInv'
<1> USE DEF IndInv, ConverterEnds, clientVars, requestVars, cacheVars, historyVars
<1>1. TypeOK'
  BY DEF TypeOK, Goto, PCs, Holding
<1>2. PollsCounted'
  BY DEF TypeOK, PollsCounted, Goto
<1>3. OneAtATime' /\ SlotNeverLost'
  BY DEF OneAtATime, SlotNeverLost, Holds
<1>4. AbsentUntilStored'
  BY DEF TypeOK, AbsentUntilStored, Source, Pdf, Goto
<1>5. DoomedIsOld'
  BY DEF DoomedIsOld
<1>6. StoredIsFresh'
  BY DEF TypeOK, StoredIsFresh, Pdf, Holding, Goto
<1>7. MissedIsOver' /\ OwnConversionStays'
  BY DEF TypeOK, MissedIsOver, OwnConversionStays, Goto
<1> QED  BY <1>1, <1>2, <1>3, <1>4, <1>5, <1>6, <1>7

\* What the cleaner finds is old.
LEMMA FindOldKeeps ==
    ASSUME NEW f \in Files, IndInv, FindOld(f)
    PROVE  IndInv'
<1> USE DEF IndInv, FindOld, clientVars, requestVars, fileVars, historyVars
<1>1. TypeOK'
  BY DEF TypeOK, Goto, PCs, Holding
<1>2. PollsCounted'
  BY DEF TypeOK, PollsCounted, Goto
<1>3. OneAtATime' /\ SlotNeverLost'
  BY DEF OneAtATime, SlotNeverLost, Holds
<1>4. AbsentUntilStored'
  BY DEF TypeOK, AbsentUntilStored, Source, Pdf, Goto
<1>5. DoomedIsOld'
  BY DEF DoomedIsOld
<1>6. StoredIsFresh'
  BY DEF TypeOK, StoredIsFresh, Pdf, Holding, Goto
<1>7. MissedIsOver' /\ OwnConversionStays'
  BY DEF TypeOK, MissedIsOver, OwnConversionStays, Goto
<1> QED  BY <1>1, <1>2, <1>3, <1>4, <1>5, <1>6, <1>7

\* What the cleaner removes is old, so no request at work has stored it.
LEMMA RemoveOldKeeps ==
    ASSUME NEW f \in Files, IndInv, RemoveOld(f)
    PROVE  IndInv'
<1> USE DEF IndInv, RemoveOld, clientVars, requestVars, fileVars, historyVars
<1>1. TypeOK'
  BY DEF TypeOK, Goto, PCs, Holding
<1>2. PollsCounted'
  BY DEF TypeOK, PollsCounted, Goto
<1>3. OneAtATime' /\ SlotNeverLost'
  BY DEF OneAtATime, SlotNeverLost, Holds
<1>4. AbsentUntilStored'
  BY DEF TypeOK, AbsentUntilStored, Source, Pdf, Goto
<1>5. DoomedIsOld'
  BY DEF DoomedIsOld
<1>6. StoredIsFresh'
  BY DEF TypeOK, StoredIsFresh, DoomedIsOld, Pdf, Holding, Files, Sides
<1>7. MissedIsOver' /\ OwnConversionStays'
  BY DEF TypeOK, MissedIsOver, OwnConversionStays, Goto
<1> QED  BY <1>1, <1>2, <1>3, <1>4, <1>5, <1>6, <1>7

\* A file does not age under the request that stored it.
LEMMA AgeKeeps ==
    ASSUME NEW f \in Files, IndInv, Age(f)
    PROVE  IndInv'
<1> USE DEF IndInv, Age, clientVars, requestVars, fileVars, historyVars
<1>1. TypeOK'
  BY DEF TypeOK, Goto, PCs, Holding
<1>2. PollsCounted'
  BY DEF TypeOK, PollsCounted, Goto
<1>3. OneAtATime' /\ SlotNeverLost'
  BY DEF OneAtATime, SlotNeverLost, Holds
<1>4. AbsentUntilStored'
  BY DEF TypeOK, AbsentUntilStored, Source, Pdf, Files, Sides
<1>5. DoomedIsOld'
  BY DEF DoomedIsOld
<1>6. StoredIsFresh'
  BY DEF TypeOK, StoredIsFresh, Pdf, Holding, Files, Sides
<1>7. MissedIsOver' /\ OwnConversionStays'
  BY DEF TypeOK, MissedIsOver, OwnConversionStays, Goto
<1> QED  BY <1>1, <1>2, <1>3, <1>4, <1>5, <1>6, <1>7

\* A restart ends every request and makes a new channel.
LEMMA RestartKeeps ==
    ASSUME IndInv, Restart
    PROVE  IndInv'
<1> USE DEF IndInv, Restart, clientVars, fileVars, historyVars
<1>1. TypeOK'
  BY DEF TypeOK, Goto, PCs, Holding
<1>2. PollsCounted'
  BY DEF TypeOK, PollsCounted, Goto
<1>3. OneAtATime' /\ SlotNeverLost'
  BY DEF TypeOK, OneAtATime, SlotNeverLost, Holds, Holding
<1>4. AbsentUntilStored'
  BY DEF TypeOK, AbsentUntilStored, Source, Pdf, Goto
<1>5. DoomedIsOld'
  BY DEF DoomedIsOld
<1>6. StoredIsFresh'
  BY DEF TypeOK, StoredIsFresh, Pdf, Holding, Goto
<1>7. MissedIsOver' /\ OwnConversionStays'
  BY DEF TypeOK, MissedIsOver, OwnConversionStays, Goto
<1> QED  BY <1>1, <1>2, <1>3, <1>4, <1>5, <1>6, <1>7

----------------------------------------------------------------------------
\* IndInv holds after every step of the program, and after none.
LEMMA StepKeeps == IndInv /\ [Next]_vars => IndInv'
<1> SUFFICES ASSUME IndInv, [Next]_vars PROVE IndInv'
  OBVIOUS
<1>1. CASE UNCHANGED vars
  BY <1>1 DEF vars, IndInv, TypeOK, PollsCounted, OneAtATime, SlotNeverLost,
      AbsentUntilStored, DoomedIsOld, StoredIsFresh, MissedIsOver, OwnConversionStays,
      Holds, Source, Pdf
<1>2. ASSUME NEW r \in Requests,
             \/ Leave(r) \/ Arrive(r) \/ Acquire(r) \/ GiveUp(r) \/ HandlerStep(r)
             \/ ConverterEnds(r) \/ FeishuAnswers(r) \/ Written(r)
      PROVE  IndInv'
  BY <1>2, LeaveKeeps, ArriveKeeps, AcquireKeeps, GiveUpKeeps, UploadKeeps, KeepSourceKeeps,
      MoveSourceKeeps, LookupPdfKeeps, ConvertKeeps, ConvertedKeeps, ConversionLostKeeps,
      StorePdfKeeps, CheckPagesKeeps, SendKeeps, WrittenKeeps, RecordKeeps, ParseUrlKeeps,
      ResolvedKeeps, CreatedKeeps, PolledKeeps, DownloadedKeeps, CutOffKeeps, ReleaseKeeps,
      ConverterEndsKeeps DEF HandlerStep, FeishuAnswers
<1>3. ASSUME NEW f \in Files, FindOld(f) \/ RemoveOld(f) \/ Age(f)
      PROVE  IndInv'
  BY <1>3, FindOldKeeps, RemoveOldKeeps, AgeKeeps
<1> QED  BY <1>1, <1>2, <1>3, RestartKeeps DEF Next

\* The inductive invariant holds in every reachable state.
THEOREM Invariance == Spec => []IndInv
<1> QED  BY InitInv, StepKeeps, PTL DEF Spec

\* Every variable keeps its type; an export is polled at most MaxPolls times.
THEOREM TypeCorrect == Spec => []TypeOK
<1>1. IndInv => TypeOK
  BY DEF IndInv
<1> QED  BY <1>1, Invariance, PTL

\* The submit queue is a lock: two handlers never prepare a document at once.
THEOREM MutualExclusion == Spec => []OneAtATime
<1>1. IndInv => OneAtATime
  BY DEF IndInv
<1> QED  BY <1>1, Invariance, PTL

\* The submit queue is never lost nor doubled: the token is in the channel exactly
\* when no handler has it.
THEOREM SlotIsSafe == Spec => []SlotNeverLost
<1>1. IndInv => SlotNeverLost
  BY DEF IndInv
<1> QED  BY <1>1, Invariance, PTL

\* The cleaner does not take a conversion from the request that paid for it.
THEOREM ConversionStays == Spec => []OwnConversionStays
<1>1. IndInv => OwnConversionStays
  BY DEF IndInv
<1> QED  BY <1>1, Invariance, PTL

\* Only what is doomed leaves the cache, and that is old.
LEMMA StepSpares == IndInv /\ [Next]_vars => [FreshStays]_vars
<1> SUFFICES ASSUME IndInv, Next PROVE FreshStays
  BY DEF vars
<1>1. ASSUME UNCHANGED cache
      PROVE  FreshStays
  BY <1>1 DEF FreshStays
<1>2. ASSUME NEW r \in Requests, MoveSource(r) \/ StorePdf(r)
      PROVE  FreshStays
  BY <1>2 DEF FreshStays, MoveSource, StorePdf, IndInv, TypeOK
<1>3. ASSUME NEW f \in Files, RemoveOld(f) \/ Age(f)
      PROVE  FreshStays
  BY <1>3 DEF FreshStays, RemoveOld, Age, IndInv, TypeOK, DoomedIsOld
<1>4. ASSUME NEW r \in Requests, HandlerStep(r), ~(MoveSource(r) \/ StorePdf(r))
      PROVE  UNCHANGED cache
  BY <1>4 DEF HandlerStep, Upload, KeepSource, LookupPdf, Convert, Converted,
      ConversionLost, CheckPages, Send, Record, ParseUrl, CutOff, Release, cacheVars
<1>5. ASSUME NEW r \in Requests,
             \/ Leave(r) \/ Arrive(r) \/ Acquire(r) \/ GiveUp(r) \/ ConverterEnds(r)
             \/ FeishuAnswers(r) \/ Written(r)
      PROVE  UNCHANGED cache
  BY <1>5 DEF Leave, Arrive, Acquire, GiveUp, ConverterEnds, FeishuAnswers, Resolved,
      Created, Polled, Downloaded, Written, cacheVars
<1>6. ASSUME NEW f \in Files, FindOld(f)
      PROVE  UNCHANGED cache
  BY <1>6 DEF FindOld
<1>7. Restart => UNCHANGED cache
  BY DEF Restart
<1> QED  BY <1>1, <1>2, <1>3, <1>4, <1>5, <1>6, <1>7 DEF Next

\* A file leaves the cache only when it is old, although the cleaner takes no lock.
THEOREM CleanerSparesFresh == Spec => FreshFileStays
<1> QED  BY Invariance, StepSpares, PTL DEF Spec, FreshFileStays

=============================================================================
