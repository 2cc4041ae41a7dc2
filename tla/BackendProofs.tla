---------------------------- MODULE BackendProofs -----------------------------
(***************************************************************************)
(* Proofs about what the orchestrator and the manager keep outside of them-*)
(* selves: the calls of the language model, the records of the registry and*)
(* the index of vectors.                                                   *)
(***************************************************************************)
EXTENDS LLMBackends, RecordUpdate, VectorIndex, FiniteSetTheorems, FunctionTheorems,
        WellFoundedInduction, TLAPS

-------------------------------------------------------------------------------
(***************************************************************************)
(* The tally and the tries of a call, for any number of calls, attempts    *)
(* and days.  The tally is right because no day after the one it belongs   *)
(* to has had an answer yet, so that a roll-over may begin with nothing.   *)
(***************************************************************************)

TallyInv ==
  /\ tally.day <= today
  /\ tally.day >= 0 =>
       /\ tally.requests = answered[tally.day]
       /\ tally.exhausted <=> tally.day \in refused
  /\ \A d \in 0 .. LastDay : d > tally.day => answered[d] = 0 /\ d \notin refused

(* A call has left Gemini once it was told of the quota, and has ended     *)
(* once it made a try without time left.                                   *)
CallInv ==
  \A c \in Callers :
    /\ call[c].quotas <= 1
    /\ call[c].pc \in {"idle", "gemini"} => call[c].quotas = 0
    /\ call[c].dead <= 1
    /\ call[c].pc \in {"idle", "gemini", "openai"} => call[c].dead = 0
    /\ call[c].pc = "idle" => call[c].attempt = 0
    /\ call[c].pc = "gemini" => call[c].attempt < GeminiAttempts
    /\ call[c].pc = "openai" => call[c].attempt < OpenAIAttempts

LLMInv == LLMTypeOK /\ TallyInv /\ CallInv

CallType ==
  [pc : {"idle", "gemini", "openai", "replied", "expired", "failed"},
   attempt : 0 .. GeminiAttempts + OpenAIAttempts, live : BOOLEAN, quotas : Nat,
   dead : Nat]

TallyType == [day : -1 .. LastDay, requests : Nat, exhausted : BOOLEAN, limit : Nat]

-------------------------------------------------------------------------------
(* The tally                                                               *)

(* A roll-over keeps what the tally says of today, and there is no other   *)
(* day it belongs to then.                                                 *)
LEMMA RolloverToday ==
  ASSUME LLMInv
  PROVE  /\ Rollover \in TallyType
         /\ Rollover.day = today
         /\ Rollover.requests = answered[today]
         /\ Rollover.exhausted <=> today \in refused
         /\ \A d \in 0 .. LastDay : d > today => answered[d] = 0 /\ d \notin refused
<1>1. /\ tally \in TallyType /\ today \in 0 .. LastDay /\ LastDay \in Nat
      /\ tally.day \in -1 .. LastDay
  BY LLMAssumption DEF LLMInv, LLMTypeOK, TallyType
<1>2. \A d \in 0 .. LastDay : d > today => answered[d] = 0 /\ d \notin refused
  BY <1>1 DEF LLMInv, TallyInv
<1>3. CASE tally.day = today
  BY <1>1, <1>2, <1>3 DEF Rollover, LLMInv, TallyInv
<1>4. CASE tally.day # today
  <2>1. Rollover = [tally EXCEPT !.day = today, !.requests = 0, !.exhausted = FALSE]
    BY <1>4 DEF Rollover
  <2>2. /\ Rollover \in TallyType /\ Rollover.day = today
        /\ Rollover.requests = 0 /\ Rollover.exhausted = FALSE
    <3>1. today \in -1 .. LastDay
      BY <1>1
    <3> QED
      BY <1>1, <2>1, <3>1 DEF TallyType
  <2>3. answered[today] = 0 /\ today \notin refused
    <3>1. tally.day <= today
      BY DEF LLMInv, TallyInv
    <3>2. today > tally.day
      BY <1>1, <1>4, <3>1
    <3> QED
      BY <1>1, <3>2 DEF LLMInv, TallyInv
  <2> QED
    BY <1>2, <2>2, <2>3
<1> QED
  BY <1>3, <1>4

LEMMA TallyRecorded ==
  ASSUME LLMInv, UNCHANGED today,
         \/ RecordSuccess \/ RecordNothing
         \/ \E named \in BOOLEAN : RecordQuotaExhausted(named)
         \/ tally' = Rollover /\ UNCHANGED <<answered, refused>>
  PROVE  /\ TallyInv'
         /\ tally' \in TallyType
         /\ answered' \in [0 .. LastDay -> Nat]
         /\ refused' \subseteq 0 .. LastDay
<1> DEFINE r == Rollover
<1>1. /\ r \in TallyType /\ r.day = today
      /\ r.requests = answered[today]
      /\ r.exhausted <=> today \in refused
      /\ \A d \in 0 .. LastDay : d > today => answered[d] = 0 /\ d \notin refused
  BY RolloverToday
<1>2. /\ tally \in TallyType /\ today \in 0 .. LastDay /\ LastDay \in Nat
      /\ answered \in [0 .. LastDay -> Nat] /\ refused \subseteq 0 .. LastDay
      /\ QuotaLimit \in Nat
  BY LLMAssumption DEF LLMInv, LLMTypeOK, TallyType
<1> HIDE DEF r
<1>3. CASE RecordSuccess
  <2>1. /\ tally' = [r EXCEPT !.requests = r.requests + 1]
        /\ answered' = [answered EXCEPT ![today] = answered[today] + 1]
        /\ refused' = refused
    BY <1>3 DEF RecordSuccess, r
  <2>2. /\ tally' \in TallyType /\ tally'.day = today
        /\ tally'.requests = r.requests + 1 /\ tally'.exhausted = r.exhausted
    BY <1>1, <2>1 DEF TallyType
  <2>3. /\ answered' \in [0 .. LastDay -> Nat]
        /\ answered'[today] = answered[today] + 1
        /\ \A d \in 0 .. LastDay : d > today => answered'[d] = answered[d]
    BY <1>2, <2>1
  <2> QED
    BY <1>1, <1>2, <2>1, <2>2, <2>3 DEF TallyInv
<1>4. CASE \E named \in BOOLEAN : RecordQuotaExhausted(named)
  <2>1. PICK named \in BOOLEAN : RecordQuotaExhausted(named)
    BY <1>4
  <2> DEFINE limit == IF r.limit = 0 /\ named THEN QuotaLimit ELSE r.limit
  <2>2. /\ tally' = [r EXCEPT !.exhausted = TRUE, !.limit = limit]
        /\ refused' = refused \cup {today}
        /\ answered' = answered
    BY <2>1 DEF RecordQuotaExhausted, r
  <2>3. limit \in Nat
    BY <1>1, <1>2 DEF TallyType
  <2> HIDE DEF limit
  <2>4. /\ tally' \in TallyType /\ tally'.day = today
        /\ tally'.requests = r.requests /\ tally'.exhausted = TRUE
    BY <1>1, <2>2, <2>3 DEF TallyType
  <2> QED
    BY <1>1, <1>2, <2>2, <2>4 DEF TallyInv
<1>5. CASE tally' = Rollover /\ UNCHANGED <<answered, refused>>
  <2>1. tally' = r
    BY <1>5 DEF r
  <2> QED
    BY <1>1, <1>2, <1>5, <2>1 DEF TallyInv
<1>6. CASE RecordNothing
  BY <1>2, <1>6 DEF RecordNothing, LLMInv, TallyInv
<1> QED
  BY <1>3, <1>4, <1>5, <1>6

-------------------------------------------------------------------------------
(* The calls                                                               *)

(* What a call may become in one step.                                     *)
GoodCall(r) ==
  /\ r \in CallType
  /\ r.quotas <= 1
  /\ r.pc \in {"idle", "gemini"} => r.quotas = 0
  /\ r.dead <= 1
  /\ r.pc \in {"idle", "gemini", "openai"} => r.dead = 0
  /\ r.pc = "idle" => r.attempt = 0
  /\ r.pc = "gemini" => r.attempt < GeminiAttempts
  /\ r.pc = "openai" => r.attempt < OpenAIAttempts

LEMMA Moved ==
  ASSUME LLMInv, NEW c \in Callers, NEW r, GoodCall(r), Move(c, r)
  PROVE  CallInv' /\ call' \in [Callers -> CallType]
<1>1. call \in [Callers -> CallType]
  BY DEF LLMInv, LLMTypeOK, CallType
<1>2. call' = [call EXCEPT ![c] = r]
  BY DEF Move
<1>3. call' \in [Callers -> CallType]
  BY <1>1, <1>2 DEF GoodCall
<1>4. ASSUME NEW d \in Callers
      PROVE  GoodCall(call'[d])
  <2>1. CASE d = c
    BY <1>1, <1>2, <2>1
  <2>2. CASE d # c
    <3>1. call'[d] = call[d] /\ call[d] \in CallType
      BY <1>1, <1>2, <2>2
    <3> QED
      BY <3>1 DEF LLMInv, CallInv, GoodCall
  <2> QED
    BY <2>1, <2>2
<1> QED
  BY <1>3, <1>4 DEF CallInv, GoodCall

LEMMA CallIsGood ==
  ASSUME LLMInv, NEW c \in Callers
  PROVE  GoodCall(call[c])
<1>1. call[c] \in CallType
  BY DEF LLMInv, LLMTypeOK, CallType
<1> QED
  BY <1>1 DEF LLMInv, CallInv, GoodCall

(* A step of a call keeps the invariant if its call and the tally do.      *)
LEMMA CallStepKeeps ==
  ASSUME LLMInv, NEW c \in Callers, NEW r, GoodCall(r), Move(c, r), UNCHANGED today,
         \/ RecordSuccess \/ RecordNothing
         \/ \E named \in BOOLEAN : RecordQuotaExhausted(named)
  PROVE  LLMInv'
<1>1. CallInv' /\ call' \in [Callers -> CallType]
  BY Moved
<1>2. /\ TallyInv' /\ tally' \in TallyType
      /\ answered' \in [0 .. LastDay -> Nat] /\ refused' \subseteq 0 .. LastDay
  BY TallyRecorded
<1> QED
  BY <1>1, <1>2 DEF LLMInv, LLMTypeOK, CallType, TallyType

LEMMA GeminiKeeps ==
  ASSUME LLMInv, NEW c \in Callers, NEW result \in Results, TryGemini(c, result)
  PROVE  LLMInv'
<1> DEFINE quotas == call[c].quotas + (IF result = "quota" THEN 1 ELSE 0)
           dead == call[c].dead + Dead(c)
           tried == [call[c] EXCEPT !.attempt = @ + 1, !.dead = @ + Dead(c),
                                    !.quotas = @ + (IF result = "quota" THEN 1 ELSE 0)]
<1>1. /\ call[c].pc = "gemini" /\ UNCHANGED today
      /\ call[c].live \/ result = "transient"
  BY DEF TryGemini
<1>2. /\ call[c] \in CallType /\ call[c].attempt < GeminiAttempts
      /\ call[c].quotas = 0 /\ call[c].dead = 0
  BY <1>1, CallIsGood DEF GoodCall
<1>3. /\ tried \in [pc : {"gemini"}, attempt : 1 .. GeminiAttempts, live : BOOLEAN,
                    quotas : {0, 1}, dead : {0, 1}]
      /\ result # "quota" => tried.quotas = 0
      /\ call[c].live => tried.dead = 0
  <2>1. /\ dead \in {0, 1} /\ (call[c].live => dead = 0)
        /\ quotas \in {0, 1} /\ (result # "quota" => quotas = 0)
    BY <1>2 DEF Dead
  <2>2. tried = [call[c] EXCEPT !.attempt = call[c].attempt + 1, !.dead = dead,
                                !.quotas = quotas]
    OBVIOUS
  <2> HIDE DEF dead, quotas
  <2>3. call[c].attempt + 1 \in 1 .. GeminiAttempts
    BY <1>2, LLMAssumption DEF CallType
  <2> HIDE DEF tried
  <2> QED
    BY <1>1, <1>2, <2>1, <2>2, <2>3 DEF CallType
<1>4. PICK live \in IF call[c].live THEN BOOLEAN ELSE {FALSE} :
        LET r == [tried EXCEPT !.live = live] IN
        Move(c, IF result = "text" THEN [r EXCEPT !.pc = "replied"]
                ELSE IF live /\ Retryable(result) /\ r.attempt < GeminiAttempts THEN r
                ELSE Fallback(r))
  BY DEF TryGemini
<1> DEFINE r == [tried EXCEPT !.live = live]
           next == IF result = "text" THEN [r EXCEPT !.pc = "replied"]
                   ELSE IF live /\ Retryable(result) /\ r.attempt < GeminiAttempts THEN r
                   ELSE Fallback(r)
<1>5. live \in BOOLEAN /\ (live => call[c].live)
  BY <1>4, <1>2 DEF CallType
<1> HIDE DEF tried
<1>6. /\ r \in [pc : {"gemini"}, attempt : 1 .. GeminiAttempts, live : BOOLEAN,
                quotas : {0, 1}, dead : {0, 1}]
      /\ r.live = live /\ r.quotas = tried.quotas /\ r.dead = tried.dead
      /\ r.attempt = tried.attempt /\ r.pc = "gemini"
  BY <1>3, <1>5
<1>7. Move(c, next)
  BY <1>4
<1> HIDE DEF r
<1>8. GoodCall(next)
  <2>0. GeminiAttempts \in Nat \ {0} /\ OpenAIAttempts \in Nat \ {0}
    BY LLMAssumption
  <2>1. CASE result = "text"
    <3>1. next = [r EXCEPT !.pc = "replied"]
      BY <2>1
    <3> QED
      BY <1>6, <2>0, <3>1 DEF GoodCall, CallType
  <2>2. CASE result # "text" /\ live /\ Retryable(result) /\ r.attempt < GeminiAttempts
    <3>1. next = r /\ r.dead = 0 /\ r.quotas = 0
      BY <1>3, <1>5, <1>6, <2>2 DEF Retryable
    <3> QED
      BY <1>6, <2>0, <2>2, <3>1 DEF GoodCall, CallType
  <2>3. CASE result # "text" /\ ~(live /\ Retryable(result) /\ r.attempt < GeminiAttempts)
    <3>1. next = Fallback(r)
      BY <2>3
    <3>2. CASE live
      <4>1. next = [r EXCEPT !.pc = "openai", !.attempt = 0] /\ r.dead = 0
        BY <1>3, <1>5, <1>6, <3>1, <3>2 DEF Fallback
      <4> HIDE DEF next
      <4>2. 0 \in 0 .. GeminiAttempts + OpenAIAttempts /\ 0 < OpenAIAttempts
        BY <2>0
      <4>3. next \in CallType
        <5>1. r \in CallType
          BY <1>6, <2>0 DEF CallType
        <5> QED
          BY <4>1, <4>2, <5>1 DEF CallType
      <4>4. /\ next.pc = "openai" /\ next.attempt = 0 /\ next.dead = 0
            /\ next.quotas \in {0, 1}
        BY <1>6, <4>1
      <4> QED
        BY <4>2, <4>3, <4>4 DEF GoodCall
    <3>3. CASE ~live
      <4>1. next = [r EXCEPT !.pc = "expired"]
        BY <1>6, <3>1, <3>3 DEF Fallback
      <4> QED
        BY <1>6, <2>0, <4>1 DEF GoodCall, CallType
    <3> QED
      BY <3>2, <3>3
  <2> QED
    BY <2>1, <2>2, <2>3
<1>9. \/ RecordSuccess \/ RecordNothing
      \/ \E named \in BOOLEAN : RecordQuotaExhausted(named)
  BY DEF TryGemini
<1> HIDE DEF next
<1> QED
  BY <1>1, <1>7, <1>8, <1>9, CallStepKeeps

LEMMA OpenAIKeeps ==
  ASSUME LLMInv, NEW c \in Callers, NEW result \in Results, TryOpenAI(c, result)
  PROVE  LLMInv'
<1> DEFINE dead == call[c].dead + Dead(c)
           tried == [call[c] EXCEPT !.attempt = @ + 1, !.dead = @ + Dead(c)]
<1>0. GeminiAttempts \in Nat \ {0} /\ OpenAIAttempts \in Nat \ {0}
  BY LLMAssumption
<1>1. call[c].pc = "openai" /\ UNCHANGED today /\ RecordNothing
  BY DEF TryOpenAI
<1>2. /\ call[c] \in CallType /\ call[c].attempt < OpenAIAttempts
      /\ call[c].quotas <= 1 /\ call[c].dead = 0
  BY <1>1, CallIsGood DEF GoodCall
<1>3. /\ tried \in [pc : {"openai"}, attempt : 1 .. OpenAIAttempts, live : BOOLEAN,
                    quotas : {0, 1}, dead : {0, 1}]
      /\ call[c].live => tried.dead = 0
  <2>1. dead \in {0, 1} /\ (call[c].live => dead = 0)
    BY <1>2 DEF Dead
  <2>2. tried = [call[c] EXCEPT !.attempt = call[c].attempt + 1, !.dead = dead]
    OBVIOUS
  <2> HIDE DEF dead
  <2>3. call[c].attempt + 1 \in 1 .. OpenAIAttempts /\ call[c].quotas \in {0, 1}
    BY <1>0, <1>2 DEF CallType
  <2> HIDE DEF tried
  <2> QED
    BY <1>1, <1>2, <2>1, <2>2, <2>3 DEF CallType
<1>4. PICK live \in IF call[c].live THEN BOOLEAN ELSE {FALSE} :
        LET r == [tried EXCEPT !.live = live] IN
        Move(c, IF result = "text" THEN [r EXCEPT !.pc = "replied"]
                ELSE IF ~live THEN [r EXCEPT !.pc = "expired"]
                ELSE IF r.attempt < OpenAIAttempts THEN r
                ELSE [r EXCEPT !.pc = "failed"])
  BY DEF TryOpenAI
<1> DEFINE r == [tried EXCEPT !.live = live]
           next == IF result = "text" THEN [r EXCEPT !.pc = "replied"]
                   ELSE IF ~live THEN [r EXCEPT !.pc = "expired"]
                   ELSE IF r.attempt < OpenAIAttempts THEN r
                   ELSE [r EXCEPT !.pc = "failed"]
<1>5. live \in BOOLEAN /\ (live => call[c].live)
  BY <1>4, <1>2 DEF CallType
<1> HIDE DEF tried
<1>6. /\ r \in [pc : {"openai"}, attempt : 1 .. OpenAIAttempts, live : BOOLEAN,
                quotas : {0, 1}, dead : {0, 1}]
      /\ r.live = live /\ (live => r.dead = 0)
  BY <1>3, <1>5
<1>7. Move(c, next)
  BY <1>4
<1> HIDE DEF r
<1>8. GoodCall(next)
  <2>1. CASE next = r /\ live /\ r.attempt < OpenAIAttempts
    BY <1>0, <1>6, <2>1 DEF GoodCall, CallType
  <2>2. CASE \E pc \in {"replied", "expired", "failed"} : next = [r EXCEPT !.pc = pc]
    BY <1>0, <1>6, <2>2 DEF GoodCall, CallType
  <2> QED
    BY <2>1, <2>2
<1> HIDE DEF next
<1> QED
  BY <1>1, <1>7, <1>8, CallStepKeeps

LEMMA BeginCallKeeps ==
  ASSUME LLMInv, NEW c \in Callers, BeginCall(c)
  PROVE  LLMInv'
<1> DEFINE r == [call[c] EXCEPT !.pc = "gemini"]
<1>1. GoodCall(r)
  BY CallIsGood, LLMAssumption DEF BeginCall, GoodCall, CallType
<1>2. Move(c, r) /\ UNCHANGED today /\ RecordNothing
  BY DEF BeginCall
<1> HIDE DEF r
<1> QED
  BY <1>1, <1>2, CallStepKeeps

LEMMA ExpireKeeps ==
  ASSUME LLMInv, NEW c \in Callers, Expire(c)
  PROVE  LLMInv'
<1> DEFINE r == [call[c] EXCEPT !.live = FALSE]
<1>1. GoodCall(r)
  BY CallIsGood DEF GoodCall, CallType
<1>2. Move(c, r) /\ UNCHANGED today /\ RecordNothing
  BY DEF Expire
<1> HIDE DEF r
<1> QED
  BY <1>1, <1>2, CallStepKeeps

-------------------------------------------------------------------------------
LEMMA LLMInitially ==
  LLMInit => LLMInv
<1> SUFFICES ASSUME LLMInit
             PROVE  LLMInv
  OBVIOUS
<1>1. LLMTypeOK
  BY LLMAssumption DEF LLMInit, LLMTypeOK, IdleCall
<1>2. TallyInv
  BY LLMAssumption DEF LLMInit, TallyInv
<1>3. CallInv
  <2>1. \A c \in Callers : call[c] = IdleCall
    BY DEF LLMInit
  <2>2. /\ IdleCall.pc = "idle" /\ IdleCall.attempt = 0
        /\ IdleCall.quotas = 0 /\ IdleCall.dead = 0
    BY DEF IdleCall
  <2>3. ASSUME NEW c \in Callers
        PROVE  /\ call[c].pc = "idle" /\ call[c].attempt = 0
               /\ call[c].quotas = 0 /\ call[c].dead = 0
    BY <2>1, <2>2
  <2>4. ASSUME NEW c \in Callers
        PROVE  /\ call[c].quotas = 0 /\ call[c].quotas <= 1
               /\ call[c].dead = 0 /\ call[c].dead <= 1
               /\ call[c].attempt = 0
               /\ call[c].pc # "gemini" /\ call[c].pc # "openai"
    BY <2>3
  <2> QED
    BY <2>4 DEF CallInv
<1> QED
  BY <1>1, <1>2, <1>3 DEF LLMInv

LEMMA LLMStep ==
  ASSUME LLMInv, [LLMNext]_llmVars
  PROVE  LLMInv'
<1>1. CASE UNCHANGED llmVars
  BY <1>1 DEF llmVars, LLMInv, LLMTypeOK, TallyInv, CallInv
<1>2. CASE \E c \in Callers : BeginCall(c) \/ Expire(c)
  BY <1>2, BeginCallKeeps, ExpireKeeps
<1>3. CASE \E c \in Callers, result \in Results : TryGemini(c, result)
  BY <1>3, GeminiKeeps
<1>4. CASE \E c \in Callers, result \in Results \ {"textless", "quota"} : TryOpenAI(c, result)
  BY <1>4, OpenAIKeeps
<1>5. CASE Snapshot
  <2>1. /\ TallyInv' /\ tally' \in TallyType
        /\ answered' \in [0 .. LastDay -> Nat] /\ refused' \subseteq 0 .. LastDay
    BY <1>5, TallyRecorded DEF Snapshot
  <2> QED
    BY <1>5, <2>1 DEF Snapshot, LLMInv, LLMTypeOK, CallInv, TallyType
<1>6. CASE NextDay
  <2>1. today' \in 0 .. LastDay /\ today' = today + 1
    BY <1>6, LLMAssumption DEF NextDay, LLMInv, LLMTypeOK
  <2>2. tally.day <= today'
    BY <2>1, LLMAssumption DEF LLMInv, LLMTypeOK, TallyInv
  <2> QED
    BY <1>6, <2>1, <2>2 DEF NextDay, LLMInv, LLMTypeOK, TallyInv, CallInv
<1> QED
  BY <1>1, <1>2, <1>3, <1>4, <1>5, <1>6 DEF LLMNext

LEMMA LLMImplies ==
  LLMInv => FallbackAndTally
<1> SUFFICES ASSUME LLMInv
             PROVE  FallbackAndTally
  OBVIOUS
<1>1. tally.exhausted /\ tally.limit > 0 => RequestsLeft(tally) = 0
  BY DEF LLMInv, LLMTypeOK, RequestsLeft
<1> QED
  BY <1>1 DEF LLMInv, TallyInv, CallInv, FallbackAndTally

(* Whatever day it is and however the calls and the midnights interleave,  *)
(* the tally is that of its day, no call asks again for a spent quota, and *)
(* none makes a second try without time left (usage.go:50, client.go:283,  *)
(* fallback.go:38).                                                        *)
THEOREM TallyAndDeadlines == LLMSpec => [](LLMTypeOK /\ FallbackAndTally)
<1>1. LLMInv /\ [LLMNext]_llmVars => LLMInv'
  BY LLMStep
<1>2. LLMInv => LLMTypeOK
  BY DEF LLMInv
<1> QED
  BY LLMInitially, LLMImplies, <1>1, <1>2, PTL DEF LLMSpec

-------------------------------------------------------------------------------
(***************************************************************************)
(* No update of a registry record is lost, whatever overlaps or fails and  *)
(* however many callers there are.                                         *)
(*                                                                         *)
(* UpdatesAreKept is not inductive: it does not say why a transaction that *)
(* is executed may write what it does.  The reason is Watched: an update   *)
(* whose watch is not broken has read the record as it is.                 *)
(***************************************************************************)

(* Nothing begins before the record is created.                            *)
Begun ==
  /\ creation # "ok" => removal = "idle" /\ \A u \in Updaters : update[u] = IdleUpdate
  /\ creation = "idle" => stored = Gone /\ ~listed
  /\ creation = "list" => stored = [Gone EXCEPT !.rev = 1]

(* An update that would be executed has read the record as it is.          *)
Watched ==
  \A u \in Updaters :
    update[u].pc = "exec" /\ update[u].clean => Present /\ update[u].seen = stored

(* The updates in the record are over, and those that succeeded are in it. *)
Contained ==
  /\ IsFiniteSet(stored.edits)
  /\ ~Present => stored.edits = {}
  /\ \A u \in stored.edits : update[u].pc \in {"ok", "failed"}
  /\ Present => \A u \in Updaters : update[u].pc = "ok" => u \in stored.edits
  /\ Present => stored.rev = 1 + Cardinality(stored.edits)

StaysRemoved ==
  /\ removal \in {"unlist", "ok"} => ~Present
  /\ removal = "ok" => ~listed

RecordInv == RecordTypeOK /\ Begun /\ Watched /\ Contained /\ StaysRemoved
(* The progress of an update, as RecordTypeOK has it.                      *)
Progress ==
  [pc : {"idle", "get", "exec", "ok", "conflict", "failed"}, attempt : Nat,
   clean : BOOLEAN, seen : Versions]

-------------------------------------------------------------------------------
(* What is the same of every step                                          *)

LEMMA RecordInitially ==
  RecordInit => RecordInv
<1> SUFFICES ASSUME RecordInit
             PROVE  RecordInv
  OBVIOUS
<1> USE DEF RecordInit, IdleUpdate, Gone
<1>1. RecordTypeOK
  BY RecordUpdateAssumption DEF RecordTypeOK, Versions
<1>2. Begun
  BY DEF Begun
<1>3. Watched
  BY DEF Watched
<1>4. Contained
  BY FS_EmptySet DEF Contained, Present
<1>5. StaysRemoved
  BY DEF StaysRemoved
<1> QED
  BY <1>1, <1>2, <1>3, <1>4, <1>5 DEF RecordInv

LEMMA RepliesTyped ==
  ASSUME lostReplies \in Nat, UNCHANGED lostReplies \/ LoseReply
  PROVE  lostReplies' \in Nat
  BY DEF LoseReply

(* A step of an update that does not write.                                *)
LEMMA UpdateStep ==
  ASSUME RecordInv, creation = "ok", NEW u \in Updaters,
         NEW new \in Progress,
         update' = [update EXCEPT ![u] = new],
         UNCHANGED <<stored, listed, creation, removal>>, lostReplies' \in Nat,
         update[u].pc \notin {"ok", "failed"}, new.pc # "ok",
         new.pc = "exec" => Present /\ new.seen = stored
  PROVE  RecordInv'
<1>1. RecordTypeOK'
  BY DEF RecordInv, RecordTypeOK, Progress
<1>2. \A k \in Updaters : update'[k] = IF k = u THEN new ELSE update[k]
  BY DEF RecordInv, RecordTypeOK, Progress
<1>3. Begun'
  BY DEF RecordInv, Begun
<1>4. Watched'
  BY <1>2 DEF RecordInv, Watched, Present
<1>5. Contained'
  <2>1. u \notin stored.edits
    BY DEF RecordInv, Contained
  <2>2. stored.edits \subseteq Updaters
    BY DEF RecordInv, RecordTypeOK, Progress, Versions
  <2> QED
    BY <1>2, <2>1, <2>2 DEF RecordInv, Contained, Present
<1>6. StaysRemoved'
  BY DEF RecordInv, StaysRemoved, Present
<1> QED
  BY <1>1, <1>3, <1>4, <1>5, <1>6 DEF RecordInv

(* Breaking the watches changes nothing else of the updates.               *)
LEMMA UnwatchedType ==
  ASSUME NEW ups \in [Updaters -> Progress]
  PROVE  /\ Unwatched(ups) \in [Updaters -> Progress]
         /\ \A k \in Updaters :
              Unwatched(ups)[k].pc = ups[k].pc /\ ~Unwatched(ups)[k].clean
<1>1. ASSUME NEW k \in Updaters
      PROVE  /\ [ups[k] EXCEPT !.clean = FALSE] \in Progress
             /\ [ups[k] EXCEPT !.clean = FALSE].pc = ups[k].pc
             /\ ~[ups[k] EXCEPT !.clean = FALSE].clean
  BY DEF Progress
<1> QED
  BY <1>1 DEF Unwatched

-------------------------------------------------------------------------------
(* The steps of an update                                                  *)

LEMMA WatchKeeps ==
  ASSUME RecordInv, NEW u \in Updaters, Watch(u)
  PROVE  RecordInv'
<1> DEFINE new == [update[u] EXCEPT !.pc = "get", !.clean = TRUE]
<1>1. update[u] \in Progress
  BY DEF RecordInv, RecordTypeOK, Progress
<1>2. new \in Progress /\ new.pc = "get"
  BY <1>1 DEF Progress
<1>3. update' = [update EXCEPT ![u] = new]
  BY DEF Watch
<1>4. lostReplies' \in Nat
  BY DEF Watch, RecordInv, RecordTypeOK
<1> HIDE DEF new
<1> QED
  BY <1>2, <1>3, <1>4, UpdateStep DEF Watch

LEMMA GetKeeps ==
  ASSUME RecordInv, NEW u \in Updaters, GetRecord(u)
  PROVE  RecordInv'
<1>1. update[u] \in Progress /\ stored \in Versions /\ lostReplies \in Nat
  BY DEF RecordInv, RecordTypeOK, Progress
<1>2. creation = "ok"
  BY DEF GetRecord, RecordInv, Begun, IdleUpdate
<1>3. CASE Present /\ update' = [update EXCEPT ![u].pc = "exec", ![u].seen = stored]
  <2> DEFINE new == [update[u] EXCEPT !.pc = "exec", !.seen = stored]
  <2>1. new \in Progress /\ new.pc = "exec" /\ new.seen = stored
    BY <1>1 DEF Progress
  <2>2. update' = [update EXCEPT ![u] = new]
    BY <1>3
  <2> HIDE DEF new
  <2> QED
    BY <1>1, <1>2, <1>3, <2>1, <2>2, UpdateStep DEF GetRecord
<1>4. CASE update' = [update EXCEPT ![u].pc = "failed"]
  <2> DEFINE new == [update[u] EXCEPT !.pc = "failed"]
  <2>1. new \in Progress /\ new.pc = "failed"
    BY <1>1 DEF Progress
  <2>2. update' = [update EXCEPT ![u] = new]
    BY <1>4
  <2> HIDE DEF new
  <2> QED
    BY <1>1, <1>2, <2>1, <2>2, UpdateStep DEF GetRecord
<1> QED
  BY <1>3, <1>4 DEF GetRecord

LEMMA RefusedKeeps ==
  ASSUME RecordInv, NEW u \in Updaters, ExecRefused(u)
  PROVE  RecordInv'
<1> DEFINE after == IF update[u].attempt + 1 < MaxAttempts THEN "idle" ELSE "conflict"
           tries == update[u].attempt + 1
           none == Gone
           new == [update[u] EXCEPT !.attempt = tries, !.seen = none, !.pc = after]
<1>1. update[u] \in Progress /\ lostReplies \in Nat
  BY DEF RecordInv, RecordTypeOK, Progress
<1>2. creation = "ok"
  BY DEF ExecRefused, RecordInv, Begun, IdleUpdate
<1>3. update' = [update EXCEPT ![u] = new]
  BY DEF ExecRefused
<1>4. after \in {"idle", "conflict"} /\ tries \in Nat /\ none \in Versions
  BY <1>1 DEF Progress, Gone, Versions
<1> HIDE DEF after, tries, none
<1>5. new \in Progress
  BY <1>1, <1>4 DEF Progress
<1>6. new.pc = after
  BY <1>1 DEF Progress
<1> HIDE DEF new
<1> QED
  BY <1>1, <1>2, <1>3, <1>4, <1>5, <1>6, UpdateStep DEF ExecRefused

LEMMA ExecFailsKeeps ==
  ASSUME RecordInv, NEW u \in Updaters, ExecFails(u)
  PROVE  RecordInv'
<1> DEFINE new == [update[u] EXCEPT !.pc = "failed"]
<1>1. update[u] \in Progress /\ lostReplies' \in Nat
  BY DEF RecordInv, RecordTypeOK, Progress, ExecFails, LoseReply
<1>2. creation = "ok"
  BY DEF ExecFails, RecordInv, Begun, IdleUpdate
<1>3. new \in Progress /\ new.pc = "failed"
  BY <1>1 DEF Progress
<1>4. update' = [update EXCEPT ![u] = new]
  BY DEF ExecFails
<1> HIDE DEF new
<1> QED
  BY <1>1, <1>2, <1>3, <1>4, UpdateStep DEF ExecFails

(* The transaction that is executed writes the record it has read, and one *)
(* update more.                                                            *)
LEMMA ExecKeeps ==
  ASSUME RecordInv, NEW u \in Updaters, Exec(u)
  PROVE  RecordInv'
<1>1. PICK pc \in {"ok", "failed"} :
        /\ update' = Unwatched([update EXCEPT ![u].pc = pc])
        /\ IF pc = "ok" THEN UNCHANGED lostReplies ELSE LoseReply
  BY DEF Exec
<1> DEFINE ups == [update EXCEPT ![u].pc = pc]
<1>2. ups \in [Updaters ->
        Progress]
  BY DEF RecordInv, RecordTypeOK, Progress
<1>3. \A k \in Updaters : /\ update'[k].pc = IF k = u THEN pc ELSE update[k].pc
                          /\ ~update'[k].clean
  <2>1. /\ update' = Unwatched(ups)
        /\ \A k \in Updaters : ups[k].pc = IF k = u THEN pc ELSE update[k].pc
    BY <1>1, <1>2 DEF Progress
  <2> HIDE DEF ups
  <2> QED
    BY <1>2, <2>1, UnwatchedType
<1>4. /\ Present /\ update[u].seen = stored
      /\ stored' = [rev |-> stored.rev + 1, edits |-> stored.edits \cup {u}]
  BY DEF Exec, Executes, Edited, RecordInv, Watched
<1>5. /\ u \notin stored.edits
      /\ stored \in Versions
      /\ creation = "ok"
  BY DEF Exec, RecordInv, RecordTypeOK, Contained, Begun, IdleUpdate
<1>6. RecordTypeOK'
  <2>1. stored' \in Versions
    BY <1>4, <1>5 DEF Versions
  <2>2. lostReplies' \in Nat
    BY <1>1 DEF LoseReply, RecordInv, RecordTypeOK
  <2> QED
    BY <1>1, <1>2, <2>1, <2>2, UnwatchedType DEF Exec, RecordInv, RecordTypeOK, Progress
<1>7. Begun'
  BY <1>5 DEF Exec, Begun
<1>8. Watched'
  BY <1>3 DEF Watched
<1>9. Contained'
  <2>1. /\ IsFiniteSet(stored'.edits)
        /\ Cardinality(stored'.edits) = Cardinality(stored.edits) + 1
    BY <1>4, <1>5, FS_AddElement DEF RecordInv, Contained
  <2>2. stored'.rev = stored.rev + 1 /\ stored.rev = 1 + Cardinality(stored.edits)
    BY <1>4 DEF RecordInv, Contained
  <2>3. Cardinality(stored.edits) \in Nat
    BY FS_CardinalityType DEF RecordInv, Contained
  <2>4. Present' /\ stored'.rev = 1 + Cardinality(stored'.edits)
    BY <2>1, <2>2, <2>3 DEF Present
  <2>5. stored.edits \subseteq Updaters /\ stored'.edits = stored.edits \cup {u}
    BY <1>4, <1>5 DEF Versions
  <2>6. \A k \in stored'.edits : update'[k].pc \in {"ok", "failed"}
    BY <1>3, <2>5 DEF RecordInv, Contained
  <2>7. \A k \in Updaters : update'[k].pc = "ok" => k \in stored'.edits
    BY <1>3, <1>4, <2>5 DEF RecordInv, Contained
  <2> QED
    BY <2>1, <2>4, <2>6, <2>7 DEF Contained
<1>10. StaysRemoved'
  BY <1>4 DEF Exec, RecordInv, StaysRemoved
<1> QED
  BY <1>6, <1>7, <1>8, <1>9, <1>10 DEF RecordInv

-------------------------------------------------------------------------------
(* The steps of Create and Delete                                          *)

LEMMA SetNXKeeps ==
  ASSUME RecordInv, SetNX
  PROVE  RecordInv'
<1>1. /\ stored = Gone /\ ~listed /\ creation = "idle" /\ removal = "idle"
      /\ \A u \in Updaters : update[u] = IdleUpdate
      /\ UNCHANGED <<listed, removal, update>>
      /\ creation' \in {"list", "failed"}
  BY DEF SetNX, RecordInv, Begun
<1>2. /\ stored' \in {Gone, [Gone EXCEPT !.rev = 1]}
      /\ creation' = "list" => stored' = [Gone EXCEPT !.rev = 1]
      /\ lostReplies' \in Nat
  BY <1>1 DEF SetNX, LoseReply, RecordInv, RecordTypeOK
<1>3. RecordTypeOK'
  BY <1>1, <1>2 DEF RecordInv, RecordTypeOK, Progress, Gone, Versions
<1>4. Begun'
  BY <1>1, <1>2 DEF Begun
<1>5. Watched' /\ StaysRemoved'
  BY <1>1 DEF Watched, StaysRemoved, IdleUpdate
<1>6. stored'.edits = {} /\ stored'.rev \in {0, 1}
  BY <1>2 DEF Gone
<1>7. Contained'
  BY <1>1, <1>6, FS_EmptySet DEF Contained, Present, IdleUpdate
<1> QED
  BY <1>3, <1>4, <1>5, <1>7 DEF RecordInv

LEMMA SAddKeeps ==
  ASSUME RecordInv, SAdd
  PROVE  RecordInv'
<1>1. /\ creation = "list" /\ removal = "idle"
      /\ UNCHANGED <<stored, removal, update>>
      /\ creation' \in {"ok", "failed"}
  BY DEF SAdd, RecordInv, Begun
<1>2. listed' \in BOOLEAN
  BY DEF SAdd, RecordInv, RecordTypeOK
<1>3. lostReplies' \in Nat
  <2>1. UNCHANGED lostReplies \/ LoseReply
    BY DEF SAdd
  <2> QED
    BY <2>1, RepliesTyped DEF RecordInv, RecordTypeOK
<1>4. RecordTypeOK'
  BY <1>1, <1>2, <1>3 DEF RecordInv, RecordTypeOK
<1>5. Begun' /\ Watched' /\ StaysRemoved'
  BY <1>1 DEF RecordInv, Begun, Watched, StaysRemoved, Present
<1>6. Contained'
  BY <1>1 DEF RecordInv, Contained, Present
<1> QED
  BY <1>4, <1>5, <1>6 DEF RecordInv

LEMMA DelKeeps ==
  ASSUME RecordInv, Del
  PROVE  RecordInv'
<1>1. /\ creation = "ok" /\ removal = "idle" /\ UNCHANGED <<listed, creation>>
      /\ stored' \in {stored, Gone} /\ removal' \in {"unlist", "failed", "cut"}
      /\ removal' = "unlist" => stored' = Gone
      /\ lostReplies' \in Nat
  BY DEF Del, LoseReply, RecordInv, RecordTypeOK
<1>2. CASE stored' = stored
  <2>1. update' = update
    BY <1>2 DEF Del
  <2>2. RecordTypeOK'
    BY <1>1, <1>2, <2>1 DEF RecordInv, RecordTypeOK, Progress
  <2>3. Begun' /\ Watched' /\ Contained'
    BY <1>1, <1>2, <2>1 DEF RecordInv, Begun, Watched, Contained, Present
  <2>4. StaysRemoved'
    BY <1>1 DEF StaysRemoved, Present, Gone
  <2> QED
    BY <2>2, <2>3, <2>4 DEF RecordInv
<1>3. CASE stored' = Gone /\ stored' # stored
  <2>1. /\ update' \in [Updaters ->
             Progress]
        /\ \A k \in Updaters : update'[k].pc = update[k].pc /\ ~update'[k].clean
    BY <1>3, UnwatchedType DEF Del, RecordInv, RecordTypeOK, Progress
  <2>2. RecordTypeOK'
    BY <1>1, <1>3, <2>1 DEF RecordInv, RecordTypeOK, Progress, Gone, Versions
  <2>3. Begun' /\ Watched' /\ StaysRemoved'
    BY <1>1, <1>3, <2>1 DEF Begun, Watched, StaysRemoved, Present, Gone
  <2>4. Contained'
    BY <1>3, FS_EmptySet DEF Contained, Present, Gone
  <2> QED
    BY <2>2, <2>3, <2>4 DEF RecordInv
<1> QED
  BY <1>1, <1>2, <1>3

LEMMA SRemKeeps ==
  ASSUME RecordInv, SRem
  PROVE  RecordInv'
<1>1. /\ removal = "unlist" /\ UNCHANGED <<stored, creation, update>>
      /\ removal' \in {"ok", "cut"}
  BY DEF SRem
<1>2. removal' = "ok" => ~listed'
  BY DEF SRem
<1>3. listed' \in BOOLEAN
  BY DEF SRem, RecordInv, RecordTypeOK
<1>4. lostReplies' \in Nat
  <2>1. UNCHANGED lostReplies \/ LoseReply
    BY DEF SRem
  <2> QED
    BY <2>1, RepliesTyped DEF RecordInv, RecordTypeOK
<1>5. RecordTypeOK'
  BY <1>1, <1>3, <1>4 DEF RecordInv, RecordTypeOK
<1>6. creation = "ok" /\ ~Present
  BY <1>1 DEF RecordInv, Begun, StaysRemoved
<1>7. Begun' /\ Watched' /\ Contained' /\ StaysRemoved'
  BY <1>1, <1>6, <1>2 DEF RecordInv, Begun, Watched, Contained, StaysRemoved, Present
<1> QED
  BY <1>5, <1>7 DEF RecordInv

-------------------------------------------------------------------------------
LEMMA RecordStep ==
  ASSUME RecordInv, [RecordNext]_recordVars
  PROVE  RecordInv'
<1>1. CASE UNCHANGED recordVars
  BY <1>1 DEF recordVars, RecordInv, RecordTypeOK, Begun, Watched, Contained, StaysRemoved,
     Present
<1>2. CASE SetNX \/ SAdd \/ Del \/ SRem
  BY <1>2, SetNXKeeps, SAddKeeps, DelKeeps, SRemKeeps
<1>3. ASSUME NEW u \in Updaters,
             Watch(u) \/ GetRecord(u) \/ Exec(u) \/ ExecRefused(u) \/ ExecFails(u)
      PROVE  RecordInv'
  BY <1>3, WatchKeeps, GetKeeps, ExecKeeps, RefusedKeeps, ExecFailsKeeps
<1> QED
  BY <1>1, <1>2, <1>3 DEF RecordNext

LEMMA RecordImplies ==
  RecordInv => UpdatesAreKept
  BY DEF RecordInv, Contained, StaysRemoved, UpdatesAreKept, RecordTypeOK, Versions

(* An update that Update acknowledged is in the record for as long as the  *)
(* record exists, none is in it that was given up, and no update brings a  *)
(* deleted record back (redis.go:120, 166).                                *)
THEOREM UpdatesKept == RecordSpec => [](RecordTypeOK /\ UpdatesAreKept)
<1>1. RecordInv /\ [RecordNext]_recordVars => RecordInv'
  BY RecordStep
<1>2. RecordInv => RecordTypeOK
  BY DEF RecordInv
<1> QED
  BY RecordInitially, RecordImplies, <1>1, <1>2, PTL DEF RecordSpec

-------------------------------------------------------------------------------
(* Update as one step: it takes effect when its transaction is executed,   *)
(* and an update that is acknowledged was acknowledged with it.            *)

Acked == {u \in Updaters : update[u].pc = "ok"}

LEMMA Unseen ==
  ASSUME RecordInv, UNCHANGED stored,
         \A u \in Updaters : (update'[u].pc = "ok") <=> (update[u].pc = "ok"),
         stored = Gone => ((creation' = "ok") <=> (creation = "ok"))
  PROVE  UNCHANGED Atomic!atomicVars
<1>1. Acked' = Acked
  BY DEF Acked
<1>2. Life' = Life
  <2>1. ~Present => stored = Gone
    BY DEF RecordInv, RecordTypeOK, Versions, Contained, Present, Gone
  <2> QED
    BY <2>1 DEF Life, Present
<1> QED
  BY <1>1, <1>2 DEF Atomic!atomicVars, Acked

LEMMA CreationAtomic ==
  ASSUME RecordInv, SetNX \/ SAdd
  PROVE  [Atomic!AtomicNext]_Atomic!atomicVars
<1>1. UNCHANGED update
  BY DEF SetNX, SAdd
<1>2. CASE UNCHANGED stored
  <2>1. stored = Gone => creation # "ok" /\ creation' # "ok"
    <3>1. CASE SetNX
      BY <3>1 DEF SetNX
    <3>2. CASE SAdd
      <4>1. creation = "list" /\ stored.rev = 1
        BY <3>2 DEF SAdd, RecordInv, Begun, Gone
      <4> QED
        BY <4>1 DEF Gone
    <3> QED
      BY <3>1, <3>2
  <2> QED
    BY <1>1, <1>2, <2>1, Unseen
<1>3. CASE stored' # stored
  <2>1. /\ stored = Gone /\ stored' = [Gone EXCEPT !.rev = 1]
        /\ creation = "idle"
    BY <1>3 DEF SetNX, SAdd, RecordInv, Begun
  <2>2. Life = "new" /\ Life' = "there" /\ stored.edits = {} /\ stored'.edits = {}
    BY <2>1 DEF Life, Present, Gone
  <2>3. Acked' = Acked
    BY <1>1 DEF Acked
  <2> QED
    BY <2>2, <2>3 DEF Atomic!AtomicNext, Atomic!Create, Acked
<1> QED
  BY <1>2, <1>3

LEMMA DeletionAtomic ==
  ASSUME RecordInv, Del \/ SRem
  PROVE  [Atomic!AtomicNext]_Atomic!atomicVars
<1>1. UNCHANGED creation /\ stored' \in {stored, Gone}
  BY DEF Del, SRem
<1>2. \A u \in Updaters : update'[u].pc = update[u].pc
  <2>1. \A u \in Updaters : Unwatched(update)[u].pc = update[u].pc
    BY UnwatchedType DEF RecordInv, RecordTypeOK, Progress
  <2> QED
    BY <2>1 DEF Del, SRem
<1>3. CASE UNCHANGED stored
  BY <1>1, <1>2, <1>3, Unseen
<1>4. CASE stored' # stored
  <2>1. stored' = Gone /\ creation = "ok" /\ Present
    <3>1. ~Present => stored = Gone
      BY DEF RecordInv, RecordTypeOK, Versions, Contained, Present, Gone
    <3> QED
      BY <1>1, <1>4, <3>1 DEF Del, SRem
  <2>2. Life = "there" /\ Life' = "gone" /\ stored'.edits = {}
    BY <1>1, <2>1 DEF Life, Present, Gone
  <2>3. Acked' = Acked
    BY <1>2 DEF Acked
  <2> QED
    BY <2>2, <2>3 DEF Atomic!AtomicNext, Atomic!Delete, Acked
<1> QED
  BY <1>3, <1>4

LEMMA ExecAtomic ==
  ASSUME RecordInv, NEW u \in Updaters, Exec(u)
  PROVE  Atomic!Update(u)
<1>1. PICK pc \in {"ok", "failed"} : update' = Unwatched([update EXCEPT ![u].pc = pc])
  BY DEF Exec
<1> DEFINE ups == [update EXCEPT ![u].pc = pc]
<1>2. /\ ups \in [Updaters -> Progress]
      /\ \A k \in Updaters : ups[k].pc = IF k = u THEN pc ELSE update[k].pc
  BY DEF RecordInv, RecordTypeOK, Progress
<1>3. update' = Unwatched(ups)
  BY <1>1
<1> HIDE DEF ups
<1>4. \A k \in Updaters : update'[k].pc = IF k = u THEN pc ELSE update[k].pc
  BY <1>2, <1>3, UnwatchedType
<1>5. Acked' \in {Acked, Acked \cup {u}}
  <2>1. update[u].pc # "ok"
    BY DEF Exec
  <2>2. Acked' = IF pc = "ok" THEN Acked \cup {u} ELSE Acked
    BY <1>4, <2>1 DEF Acked
  <2> QED
    BY <2>2
<1>6. /\ Present /\ update[u].seen = stored
      /\ stored' = [rev |-> stored.rev + 1, edits |-> stored.edits \cup {u}]
  BY DEF Exec, Executes, Edited, RecordInv, Watched
<1>7. u \notin stored.edits
  BY DEF Exec, RecordInv, Contained
<1>8. Life = "there" /\ Life' = "there" /\ stored'.edits = stored.edits \cup {u}
  <2>1. stored.rev \in Nat
    BY DEF RecordInv, RecordTypeOK, Versions
  <2>2. Present'
    BY <1>6, <2>1 DEF Present
  <2> QED
    BY <1>6, <2>2 DEF Life
<1> QED
  BY <1>5, <1>7, <1>8 DEF Atomic!Update, Acked

LEMMA AttemptUnseen ==
  ASSUME RecordInv, NEW u \in Updaters,
         Watch(u) \/ GetRecord(u) \/ ExecRefused(u) \/ ExecFails(u)
  PROVE  UNCHANGED Atomic!atomicVars
<1>1. UNCHANGED <<stored, creation>>
  BY DEF Watch, GetRecord, ExecRefused, ExecFails
<1>2. \A k \in Updaters : k # u => update'[k] = update[k]
  BY DEF Watch, GetRecord, ExecRefused, ExecFails, RecordInv, RecordTypeOK
<1>3. update[u].pc # "ok" /\ update'[u].pc # "ok"
  BY DEF Watch, GetRecord, ExecRefused, ExecFails, RecordInv, RecordTypeOK
<1> QED
  BY <1>1, <1>2, <1>3, Unseen

LEMMA AtomicStep ==
  ASSUME RecordInv, [RecordNext]_recordVars
  PROVE  [Atomic!AtomicNext]_Atomic!atomicVars
<1>1. CASE UNCHANGED recordVars
  BY <1>1, Unseen DEF recordVars
<1>2. CASE SetNX \/ SAdd \/ Del \/ SRem
  BY <1>2, CreationAtomic, DeletionAtomic
<1>3. ASSUME NEW u \in Updaters, Exec(u)
      PROVE  Atomic!AtomicNext
  BY <1>3, ExecAtomic DEF Atomic!AtomicNext
<1>4. ASSUME NEW u \in Updaters, Watch(u) \/ GetRecord(u) \/ ExecRefused(u) \/ ExecFails(u)
      PROVE  UNCHANGED Atomic!atomicVars
  BY <1>4, AttemptUnseen
<1> QED
  BY <1>1, <1>2, <1>3, <1>4 DEF RecordNext

(* The WATCH, GET and EXEC of every update, their retries and lost replies *)
(* look like one step each, and so do the two commands of Create and of    *)
(* Delete, which lets the other models take an update for atomic           *)
(* (record.go:185).                                                        *)
THEOREM UpdateIsOneStep == RecordSpec => UpdatesAreAtomic
<1>1. RecordInit => Atomic!AtomicInit
  <2> SUFFICES ASSUME RecordInit
               PROVE  Atomic!AtomicInit
    OBVIOUS
  <2>1. Life = "new" /\ stored.edits = {} /\ Acked = {}
    BY DEF RecordInit, IdleUpdate, Gone, Life, Present, Acked
  <2> QED
    BY <2>1 DEF Atomic!AtomicInit, Acked
<1>2. RecordInv /\ [RecordNext]_recordVars => [Atomic!AtomicNext]_Atomic!atomicVars
  BY AtomicStep
<1>3. RecordInv /\ [RecordNext]_recordVars => RecordInv'
  BY RecordStep
<1> QED
  BY RecordInitially, <1>1, <1>2, <1>3, PTL DEF RecordSpec, UpdatesAreAtomic, Atomic!AtomicSpec


-------------------------------------------------------------------------------
(***************************************************************************)
(* The index of the vector store service, for any ids, points and rebuilds.*)
(* The two maps are inverse to each other, and FAISS has a vector under a  *)
(* number exactly when the caller wants the entry of that number.          *)
(***************************************************************************)

IndexInv ==
  /\ nextNumber \in 0 .. MaxNumber
  /\ DOMAIN numberOf \subseteq PublicIds
  /\ \A i \in DOMAIN numberOf : numberOf[i] \in DOMAIN idOf /\ idOf[numberOf[i]] = i
  /\ \A n \in DOMAIN idOf :
       /\ n \in 0 .. nextNumber - 1
       /\ idOf[n] \in DOMAIN numberOf /\ numberOf[idOf[n]] = n
  /\ \A n \in DOMAIN faiss :
       /\ n \in DOMAIN idOf /\ faiss[n] \in Points
       /\ idOf[n] \in DOMAIN wanted /\ wanted[idOf[n]] = faiss[n]
  /\ \A i \in DOMAIN wanted : i \in DOMAIN numberOf /\ numberOf[i] \in DOMAIN faiss
  /\ ~broken => DOMAIN numberOf = DOMAIN wanted

LEMMA IndexInitially ==
  IndexInit => IndexInv
  BY VectorIndexAssumption DEF IndexInit, IndexInv, Empty

LEMMA UpsertKeeps ==
  ASSUME IndexInv, NEW i \in PublicIds, NEW v \in Points, Upsert(i, v)
  PROVE  IndexInv'
<1> DEFINE n == nextNumber
<1>1. /\ n \in Nat /\ n < MaxNumber /\ nextNumber' = n + 1 /\ MaxNumber \in Nat
      /\ i \notin DOMAIN numberOf /\ broken' = broken
  BY VectorIndexAssumption DEF IndexInv, Upsert
<1>2. /\ DOMAIN numberOf' = DOMAIN numberOf \cup {i}
      /\ \A k \in DOMAIN numberOf' : numberOf'[k] = IF k = i THEN n ELSE numberOf[k]
  BY DEF Upsert, With
<1>3. /\ DOMAIN idOf' = DOMAIN idOf \cup {n}
      /\ \A k \in DOMAIN idOf' : idOf'[k] = IF k = n THEN i ELSE idOf[k]
  BY DEF Upsert, With
<1>4. /\ DOMAIN faiss' = DOMAIN faiss \cup {n}
      /\ \A k \in DOMAIN faiss' : faiss'[k] = IF k = n THEN v ELSE faiss[k]
  BY DEF Upsert, With
<1>5. /\ DOMAIN wanted' = DOMAIN wanted \cup {i}
      /\ \A k \in DOMAIN wanted' : wanted'[k] = IF k = i THEN v ELSE wanted[k]
  BY DEF Upsert, With
<1>6. i \notin DOMAIN numberOf /\ n \notin DOMAIN idOf
  BY <1>1 DEF IndexInv
<1> HIDE DEF n
<1>7. /\ nextNumber' \in 0 .. MaxNumber
      /\ DOMAIN numberOf' \subseteq PublicIds
      /\ ~broken' => DOMAIN numberOf' = DOMAIN wanted'
  BY <1>1, <1>2, <1>5 DEF IndexInv
<1>8. \A k \in DOMAIN numberOf' : numberOf'[k] \in DOMAIN idOf' /\ idOf'[numberOf'[k]] = k
  BY <1>2, <1>3, <1>6 DEF IndexInv
<1>9. \A k \in DOMAIN idOf' :
        /\ k \in 0 .. nextNumber' - 1
        /\ idOf'[k] \in DOMAIN numberOf' /\ numberOf'[idOf'[k]] = k
  <2>1. \A k \in DOMAIN idOf : k \in 0 .. nextNumber' - 1
    BY <1>1 DEF IndexInv, n
  <2>2. n \in 0 .. nextNumber' - 1
    BY <1>1
  <2> QED
    BY <1>2, <1>3, <1>6, <2>1, <2>2 DEF IndexInv
<1>10. \A k \in DOMAIN faiss' :
         /\ k \in DOMAIN idOf' /\ faiss'[k] \in Points
         /\ idOf'[k] \in DOMAIN wanted' /\ wanted'[idOf'[k]] = faiss'[k]
  BY <1>3, <1>4, <1>5, <1>6 DEF IndexInv
<1>11. \A k \in DOMAIN wanted' : k \in DOMAIN numberOf' /\ numberOf'[k] \in DOMAIN faiss'
  BY <1>2, <1>4, <1>5 DEF IndexInv
<1> QED
  BY <1>7, <1>8, <1>9, <1>10, <1>11 DEF IndexInv

LEMMA DeleteKeeps ==
  ASSUME IndexInv, NEW i \in PublicIds, DeleteEntry(i)
  PROVE  IndexInv'
<1> DEFINE n == numberOf[i]
<1>1. i \in DOMAIN numberOf /\ UNCHANGED <<nextNumber, issued, broken>>
  BY DEF DeleteEntry
<1>2. /\ DOMAIN numberOf' = DOMAIN numberOf \ {i}
      /\ \A k \in DOMAIN numberOf' : numberOf'[k] = numberOf[k]
  BY DEF DeleteEntry, Without
<1>3. /\ DOMAIN idOf' = DOMAIN idOf \ {n}
      /\ \A k \in DOMAIN idOf' : idOf'[k] = idOf[k]
  BY DEF DeleteEntry, Without
<1>4. /\ DOMAIN faiss' = DOMAIN faiss \ {n}
      /\ \A k \in DOMAIN faiss' : faiss'[k] = faiss[k]
  BY DEF DeleteEntry, Without, Removed
<1>5. /\ DOMAIN wanted' = DOMAIN wanted \ {i}
      /\ \A k \in DOMAIN wanted' : wanted'[k] = wanted[k]
  BY DEF DeleteEntry
<1>6. /\ \A k \in DOMAIN numberOf : k # i => numberOf[k] # n
      /\ \A k \in DOMAIN idOf : k # n => idOf[k] # i
  BY <1>1 DEF IndexInv
<1> HIDE DEF n
<1> QED
  BY <1>1, <1>2, <1>3, <1>4, <1>5, <1>6 DEF IndexInv

(* A set of places has a first one.                                        *)
LEMMA FirstPlace ==
  ASSUME NEW S \in SUBSET Nat, S # {}
  PROVE  \E j \in S : \A k \in S : j <= k
<1>1. PICK j \in S : \A k \in S : ~ (<<k, j>> \in OpToRel(<, Nat))
  BY WFMin, NatLessThanWellFounded
<1>2. \A k \in S : ~ (k < j)
  BY <1>1 DEF OpToRel
<1> QED
  BY <1>2

(* The entries a rebuild names are the ones before the first bad one.      *)
BadPlaces(es) == {j \in DOMAIN es : Bad(es, j)}
Named(es) ==
  IF BadPlaces(es) = {} THEN Len(es)
  ELSE (CHOOSE j \in BadPlaces(es) : \A k \in BadPlaces(es) : j <= k) - 1

LEMMA NamedAreGood ==
  ASSUME NEW es \in Rebuilds
  PROVE  /\ Named(es) \in Nat /\ Named(es) <= Len(es)
         /\ \A j \in 1 .. Named(es) :
              /\ es[j][1] \in PublicIds /\ es[j][2] \in Points
              /\ \A k \in 1 .. j - 1 : es[k][1] # es[j][1]
<1> DEFINE bad == BadPlaces(es)
           named == Named(es)
<1>0. /\ bad = {j \in DOMAIN es : Bad(es, j)}
      /\ named = IF bad = {} THEN Len(es)
                 ELSE (CHOOSE j \in bad : \A k \in bad : j <= k) - 1
  BY DEF BadPlaces, Named
<1> HIDE DEF bad, named
<1>1. /\ es \in Seq(PublicIds \X (Points \cup {Misfit})) /\ Len(es) \in Nat
      /\ DOMAIN es = 1 .. Len(es)
  BY VectorIndexAssumption
<1>2. /\ named \in Nat /\ named <= Len(es)
      /\ \A j \in 1 .. named : j \notin bad
  <2>1. CASE bad = {}
    BY <1>0, <1>1, <2>1
  <2>2. CASE bad # {}
    <3>1. bad \in SUBSET Nat /\ bad \subseteq 1 .. Len(es)
      BY <1>0, <1>1
    <3>2. \E j \in bad : \A k \in bad : j <= k
      BY <2>2, <3>1, FirstPlace
    <3>3. PICK j \in bad : named = j - 1 /\ \A k \in bad : j <= k
      BY <1>0, <2>2, <3>2
    <3>4. j \in 1 .. Len(es)
      BY <3>1
    <3>5. \A k \in 1 .. j - 1 : k \notin bad
      BY ONLY <3>3, <3>4, <1>1
    <3> QED
      BY ONLY <1>1, <3>3, <3>4, <3>5
  <2> QED
    BY <2>1, <2>2
<1>3. ASSUME NEW j \in 1 .. named
      PROVE  /\ es[j][1] \in PublicIds /\ es[j][2] \in Points
             /\ \A k \in 1 .. j - 1 : es[k][1] # es[j][1]
  <2>1. j \in DOMAIN es /\ j \notin bad
    BY ONLY <1>1, <1>2, j \in 1 .. named
  <2>2. ~Bad(es, j)
    BY <1>0, <2>1
  <2>3. es[j] \in PublicIds \X (Points \cup {Misfit})
    BY ONLY <1>1, <2>1
  <2> QED
    BY ONLY <2>2, <2>3 DEF Bad
<1> QED
  BY <1>2, <1>3 DEF named

LEMMA RebuildKeeps ==
  ASSUME IndexInv, NEW es \in Rebuilds, Rebuild(es)
  PROVE  IndexInv'
<1> DEFINE bad == BadPlaces(es)
           named == Named(es)
           numbers == 0 .. named - 1
           ids == {es[j][1] : j \in 1 .. named}
           place(i) == CHOOSE j \in 1 .. named : es[j][1] = i
<1>1. /\ named <= MaxNumber
      /\ numberOf' = [i \in ids |-> place(i) - 1]
      /\ idOf' = [n \in numbers |-> es[n + 1][1]]
      /\ nextNumber' = named
      /\ faiss' = IF bad = {} THEN [n \in numbers |-> es[n + 1][2]] ELSE Empty
      /\ wanted' = IF bad = {} THEN [i \in ids |-> es[numberOf'[i] + 1][2]] ELSE Empty
      /\ broken' = (bad # {})
  BY DEF Rebuild, BadPlaces, Named
<1>2. /\ named \in Nat
      /\ \A j \in 1 .. named : /\ es[j][1] \in PublicIds /\ es[j][2] \in Points
                               /\ \A k \in 1 .. j - 1 : es[k][1] # es[j][1]
  BY NamedAreGood
<1> HIDE DEF bad, named
<1>3. \A i \in ids : place(i) \in 1 .. named /\ es[place(i)][1] = i
  OBVIOUS
<1>4. \A j \in 1 .. named : place(es[j][1]) = j
  <2>1. \A j, k \in 1 .. named : es[j][1] = es[k][1] => j = k
    <3>1. \A j, k \in 1 .. named : j < k => j \in 1 .. k - 1
      BY <1>2
    <3>2. \A j, k \in 1 .. named : j < k \/ k < j \/ j = k
      BY <1>2
    <3> QED
      BY <1>2, <3>1, <3>2
  <2>2. \A j \in 1 .. named : es[j][1] \in ids
    OBVIOUS
  <2> QED
    BY <1>3, <2>1, <2>2
<1> HIDE DEF place
<1>5. \A n \in numbers : n + 1 \in 1 .. named /\ (n + 1) - 1 = n
  BY <1>2
<1>6. \A j \in 1 .. named : j - 1 \in numbers /\ (j - 1) + 1 = j
  BY <1>2
<1>7. /\ \A n \in numbers : es[n + 1][1] \in ids /\ place(es[n + 1][1]) - 1 = n
      /\ \A i \in ids : place(i) - 1 \in numbers /\ es[place(i) - 1 + 1][1] = i
      /\ ids \subseteq PublicIds
  BY <1>2, <1>3, <1>4, <1>5, <1>6
<1>8. /\ DOMAIN numberOf' = ids /\ \A i \in ids : numberOf'[i] = place(i) - 1
      /\ DOMAIN idOf' = numbers /\ \A n \in numbers : idOf'[n] = es[n + 1][1]
  BY <1>1
<1>9. nextNumber' \in 0 .. MaxNumber /\ DOMAIN numberOf' \subseteq PublicIds
  BY <1>1, <1>2, <1>7, <1>8, VectorIndexAssumption
<1>10. /\ \A i \in DOMAIN numberOf' :
            numberOf'[i] \in DOMAIN idOf' /\ idOf'[numberOf'[i]] = i
       /\ \A n \in DOMAIN idOf' :
            /\ n \in 0 .. nextNumber' - 1
            /\ idOf'[n] \in DOMAIN numberOf' /\ numberOf'[idOf'[n]] = n
  BY <1>1, <1>7, <1>8
<1>11. CASE bad = {}
  <2>1. /\ DOMAIN faiss' = numbers /\ \A n \in numbers : faiss'[n] = es[n + 1][2]
        /\ DOMAIN wanted' = ids
        /\ \A i \in ids : wanted'[i] = es[numberOf'[i] + 1][2]
        /\ broken' = FALSE
    BY <1>1, <1>11
  <2>2. \A n \in DOMAIN faiss' :
          /\ n \in DOMAIN idOf' /\ faiss'[n] \in Points
          /\ idOf'[n] \in DOMAIN wanted' /\ wanted'[idOf'[n]] = faiss'[n]
    <3> SUFFICES ASSUME NEW n \in numbers
                 PROVE  /\ n \in DOMAIN idOf' /\ faiss'[n] \in Points
                        /\ idOf'[n] \in DOMAIN wanted' /\ wanted'[idOf'[n]] = faiss'[n]
      BY <2>1
    <3> DEFINE j == n + 1
               i == es[j][1]
    <3>1. j \in 1 .. named /\ es[j][2] \in Points
      BY <1>2, <1>5
    <3>2. i \in ids /\ place(i) - 1 = n
      BY <1>7
    <3>3. n \in DOMAIN idOf' /\ idOf'[n] = i
      BY <1>8
    <3>4. numberOf'[i] = n /\ wanted'[i] = es[numberOf'[i] + 1][2]
      BY <1>8, <2>1, <3>2
    <3>5. wanted'[i] = es[j][2] /\ faiss'[n] = es[j][2]
      BY <2>1, <3>4
    <3> HIDE DEF j, i
    <3> QED
      BY <2>1, <3>1, <3>2, <3>3, <3>5
  <2> QED
    BY <1>7, <1>8, <1>9, <1>10, <2>1, <2>2 DEF IndexInv
<1>12. CASE bad # {}
  <2>1. DOMAIN faiss' = {} /\ DOMAIN wanted' = {} /\ broken' = TRUE
    BY <1>1, <1>12 DEF Empty
  <2> QED
    BY <1>9, <1>10, <2>1 DEF IndexInv
<1> QED
  BY <1>11, <1>12

LEMMA IndexStep ==
  IndexInv /\ [IndexNext]_indexVars => IndexInv'
<1> SUFFICES ASSUME IndexInv, [IndexNext]_indexVars
             PROVE  IndexInv'
  OBVIOUS
<1>1. CASE FlushIndex
  BY <1>1, VectorIndexAssumption DEF FlushIndex, IndexInv, Empty
<1>2. CASE UNCHANGED indexVars
  BY <1>2 DEF indexVars, IndexInv
<1> QED
  BY <1>1, <1>2, UpsertKeeps, DeleteKeeps, RebuildKeeps DEF IndexNext

(* Taking the k nearest and then those within the threshold finds the same *)
(* entries as the other way round: whatever is nearer is within it too.    *)
LEMMA SearchCommutes ==
  ASSUME \A n \in DOMAIN faiss : faiss[n] \in Nat,
         NEW q \in Nat, NEW k, NEW limit \in Nat
  PROVE  Search(q, k, limit) = Nearest(q, k, Within(q, limit, DOMAIN faiss))
<1> DEFINE d(n) == Distance(faiss[n], q)
           near == Within(q, limit, DOMAIN faiss)
           nearer(n, ns) == {m \in ns : d(m) < d(n)}
<1>1. \A n \in DOMAIN faiss : d(n) \in Int
  BY DEF Distance
<1>2. near = {n \in DOMAIN faiss : d(n) <= limit}
  BY DEF Within
<1>3. /\ Search(q, k, limit) =
           {n \in DOMAIN faiss : Cardinality(nearer(n, DOMAIN faiss)) < k /\ d(n) <= limit}
      /\ Nearest(q, k, near) = {n \in near : Cardinality(nearer(n, near)) < k}
  BY DEF Search, Nearest, Within
<1> HIDE DEF d
<1>4. \A n \in near : nearer(n, near) = nearer(n, DOMAIN faiss)
  <2>1. ASSUME NEW n \in near, NEW m \in nearer(n, DOMAIN faiss)
        PROVE  m \in near
    <3>1. d(n) \in Int /\ d(m) \in Int /\ d(n) <= limit /\ d(m) < d(n)
      BY <1>1, <1>2
    <3> QED
      BY <1>2, <3>1
  <2> QED
    BY <1>2, <2>1
<1> HIDE DEF nearer
<1> QED
  BY <1>2, <1>3, <1>4

(* A search can find what callers have stored and not removed.             *)
LEMMA FindableIsWanted ==
  IndexInv => Findable = DOMAIN wanted
<1> SUFFICES ASSUME IndexInv
             PROVE  Findable = DOMAIN wanted
  OBVIOUS
<1>1. \A n \in DOMAIN faiss : idOf[n] \in DOMAIN wanted
  BY DEF IndexInv
<1>2. ASSUME NEW i \in DOMAIN wanted
      PROVE  \E n \in DOMAIN faiss : idOf[n] = i
  BY DEF IndexInv
<1> QED
  BY <1>1, <1>2 DEF Findable

LEMMA IndexImplies ==
  IndexInv => IndexTypeOK /\ FoundAreStored
<1> SUFFICES ASSUME IndexInv
             PROVE  IndexTypeOK /\ FoundAreStored
  OBVIOUS
<1>1. IndexTypeOK
  BY DEF IndexInv, IndexTypeOK
<1>2. {idOf[n] : n \in DOMAIN faiss} = DOMAIN wanted
  BY FindableIsWanted DEF Findable
<1>3. Cardinality(DOMAIN faiss) = Cardinality(DOMAIN wanted)
  <2>1. IsFiniteSet(DOMAIN faiss)
    <3>1. /\ DOMAIN faiss \subseteq 0 .. nextNumber - 1 /\ 0 \in Int /\ nextNumber - 1 \in Int
      BY DEF IndexInv
    <3> QED
      BY <3>1, FS_Interval, FS_Subset
  <2> DEFINE F == [n \in DOMAIN faiss |-> idOf[n]]
  <2>2. /\ F \in [DOMAIN faiss -> DOMAIN wanted]
        /\ \A m, n \in DOMAIN faiss : F[m] = F[n] => m = n
        /\ \A i \in DOMAIN wanted : \E n \in DOMAIN faiss : F[n] = i
    BY DEF IndexInv
  <2> HIDE DEF F
  <2>3. F \in Bijection(DOMAIN faiss, DOMAIN wanted)
    BY <2>2, Fun_IsBij
  <2> QED
    BY <2>1, <2>3, FS_Bijection DEF ExistsBijection
<1>4. \A q \in Points, k \in 1 .. Cardinality(PublicIds), limit \in 0 .. 1 :
        Search(q, k, limit) = Nearest(q, k, Within(q, limit, DOMAIN faiss))
  <2> SUFFICES ASSUME NEW q \in Points, NEW k, NEW limit \in 0 .. 1
               PROVE  Search(q, k, limit) = Nearest(q, k, Within(q, limit, DOMAIN faiss))
    OBVIOUS
  <2>1. q \in Nat /\ limit \in Nat /\ \A n \in DOMAIN faiss : faiss[n] \in Nat
    <3>1. Points \subseteq Nat /\ \A n \in DOMAIN faiss : faiss[n] \in Points
      BY VectorIndexAssumption DEF IndexInv
    <3>2. q \in Nat
      BY <3>1
    <3>3. limit \in Nat
      OBVIOUS
    <3> QED
      BY <3>1, <3>2, <3>3
  <2> QED
    BY <2>1, SearchCommutes
<1> QED
  BY <1>1, <1>2, <1>3, <1>4 DEF IndexInv, FoundAreStored

(* The index of the vector store finds what its callers have stored and    *)
(* not removed, each entry with its own vector and nothing else, also      *)
(* after a rebuild that was refused, and a search finds the same entries   *)
(* whether the threshold comes before or after the choice of the nearest   *)
(* (index.py:159, 195).                                                    *)
THEOREM IndexFinds == IndexSpec => [](IndexTypeOK /\ FoundAreStored)
<1> QED
  BY IndexInitially, IndexStep, IndexImplies, PTL DEF IndexSpec

LEMMA RequestsPromised ==
  IndexInv /\ IndexInv' => RequestsAsPromised
<1> SUFFICES ASSUME IndexInv, IndexInv'
             PROVE  RequestsAsPromised
  OBVIOUS
<1>1. Findable = DOMAIN wanted /\ Findable' = DOMAIN wanted'
  <2>1. IndexInv' => (Findable = DOMAIN wanted)'
    BY FindableIsWanted, PTL
  <2> QED
    BY <2>1, FindableIsWanted
<1>2. ASSUME NEW i \in PublicIds, NEW v \in Points, Upsert(i, v)
      PROVE  Service!UpsertVector(i)
  <2>1. i \notin issued /\ issued' = issued \cup {i} /\ DOMAIN wanted' = DOMAIN wanted \cup {i}
    BY <1>2 DEF Upsert, With
  <2> QED
    BY <1>1, <2>1 DEF Service!UpsertVector
<1>3. ASSUME NEW i \in PublicIds, DeleteEntry(i)
      PROVE  Service!DeleteVector(i) \/ (broken /\ Service!DeleteNotFound(i))
  <2>1. i \in DOMAIN numberOf /\ issued' = issued /\ DOMAIN wanted' = DOMAIN wanted \ {i}
    BY <1>3 DEF DeleteEntry
  <2>2. CASE i \in DOMAIN wanted
    BY <1>1, <2>1, <2>2 DEF Service!DeleteVector
  <2>3. CASE i \notin DOMAIN wanted
    <3>1. broken
      <4>1. ~broken => DOMAIN numberOf = DOMAIN wanted
        BY DEF IndexInv
      <4> QED
        BY ONLY <2>1, <2>3, <4>1
    <3>2. DOMAIN wanted' = DOMAIN wanted
      BY ONLY <2>1, <2>3
    <3> QED
      BY <1>1, <2>1, <2>3, <3>1, <3>2 DEF Service!DeleteNotFound, Service!indexVars
  <2> QED
    BY <2>2, <2>3
<1>4. ASSUME NEW es \in Rebuilds, Rebuild(es)
      PROVE  Service!RebuildVectors(IF broken' THEN {} ELSE {es[j][1] : j \in DOMAIN es})
  <2> DEFINE bad == BadPlaces(es)
             ids == {es[j][1] : j \in 1 .. Named(es)}
  <2>1. /\ issued' = issued /\ broken' = (bad # {})
        /\ wanted' = IF bad = {} THEN [i \in ids |-> es[numberOf'[i] + 1][2]] ELSE Empty
    BY <1>4 DEF Rebuild, BadPlaces, Named
  <2>2. DOMAIN wanted' = IF broken' THEN {} ELSE {es[j][1] : j \in DOMAIN es}
    <3>1. CASE bad # {}
      BY <2>1, <3>1 DEF Empty
    <3>2. CASE bad = {}
      <4>1. DOMAIN es = 1 .. Len(es)
        BY VectorIndexAssumption
      <4>2. Named(es) = Len(es)
        BY <3>2 DEF Named
      <4> QED
        BY <2>1, <3>2, <4>1, <4>2
    <3> QED
      BY <3>1, <3>2
  <2> QED
    BY <1>1, <2>1, <2>2 DEF Service!RebuildVectors
<1>5. ASSUME FlushIndex
      PROVE  Service!FlushVectors
  <2>1. DOMAIN wanted' = {} /\ issued' = issued
    BY <1>5 DEF FlushIndex, Empty
  <2> QED
    BY <1>1, <2>1 DEF Service!FlushVectors
<1> QED
  BY <1>2, <1>3, <1>4, <1>5 DEF RequestsAsPromised

(* Each request does to what a search can find what VectorStore, which the *)
(* orchestrator's model is composed of, says of it (main.py:122-172).      *)
THEOREM IndexIsService == IndexSpec => IndexMeetsContract
<1> QED
  BY IndexInitially, IndexStep, RequestsPromised, PTL DEF IndexSpec, IndexMeetsContract
===============================================================================
