------------------------------ MODULE LLMBackends ------------------------------
(***************************************************************************)
(* Completing a prompt with a fallback (internal/llm): Gemini with its     *)
(* retries and its tally of the day (client.go, usage.go), and OpenAI      *)
(* with its own when that fails (fallback.go).  Calls run side by side and *)
(* each has a deadline.  Prompts and replies are left out.                 *)
(***************************************************************************)
EXTENDS Integers

CONSTANTS
  Callers,         \* calls of Complete, each made once
  GeminiAttempts,  \* 5 in the code
  OpenAIAttempts,  \* 3 in the code
  LastDay,         \* days of the quota considered
  GivenLimit,      \* GEMINI_DAILY_REQUEST_LIMIT; 0 is unknown
  QuotaLimit       \* the limit named in a quota error

ASSUME LLMAssumption ==
  /\ {GeminiAttempts, OpenAIAttempts} \subseteq Nat \ {0}
  /\ {LastDay, GivenLimit, QuotaLimit} \subseteq Nat

VARIABLES
  today,
  tally,     \* usageTracker: the day it belongs to, requests, exhausted, limit
  call,      \* the progress of each call
  answered,  \* requests Gemini answered, by the day they were counted (history)
  refused    \* the days on which Gemini answered that the quota is spent (history)

llmVars == <<today, tally, call, answered, refused>>

(* What a try ends with.  A quota error is for the day; a permanent error  *)
(* is a rejected request, a reply that is no JSON, or none at all.         *)
Results == {"text", "textless", "transient", "quota", "permanent"}

IdleCall ==
  [pc |-> "idle", attempt |-> 0, live |-> TRUE, quotas |-> 0, dead |-> 0]

LLMTypeOK ==
  /\ today \in 0 .. LastDay
  /\ tally \in [day : -1 .. LastDay, requests : Nat, exhausted : BOOLEAN, limit : Nat]
  /\ call \in [Callers ->
       [pc : {"idle", "gemini", "openai", "replied", "expired", "failed"},
        attempt : 0 .. GeminiAttempts + OpenAIAttempts, live : BOOLEAN, quotas : Nat,
        dead : Nat]]
  /\ answered \in [0 .. LastDay -> Nat]
  /\ refused \subseteq 0 .. LastDay

LLMInit ==
  /\ today = 0
  /\ tally = [day |-> -1, requests |-> 0, exhausted |-> FALSE, limit |-> GivenLimit]
  /\ call = [c \in Callers |-> IdleCall]
  /\ answered = [d \in 0 .. LastDay |-> 0]
  /\ refused = {}

-------------------------------------------------------------------------------
(* The tally                                                               *)

RolloverKeepsExhausted ==
  IF tally.day = today THEN tally ELSE [tally EXCEPT !.day = today, !.requests = 0]

(* A new day, in Pacific time, begins with nothing counted.                *)
Rollover ==
  IF tally.day = today THEN tally
  ELSE [tally EXCEPT !.day = today, !.requests = 0, !.exhausted = FALSE]

RecordSuccess ==
  /\ tally' = [Rollover EXCEPT !.requests = @ + 1]
  /\ answered' = [answered EXCEPT ![today] = @ + 1]
  /\ UNCHANGED refused

(* The limit is learned from the error when none was configured.           *)
RecordQuotaExhausted(named) ==
  /\ tally' = [Rollover EXCEPT !.exhausted = TRUE,
                               !.limit = IF @ = 0 /\ named THEN QuotaLimit ELSE @]
  /\ refused' = refused \cup {today}
  /\ UNCHANGED answered

RecordNothing == UNCHANGED <<tally, answered, refused>>

(* What /stats shows as left of the requests; -1 where that is unknown.    *)
RequestsLeft(t) ==
  IF t.limit = 0 THEN -1
  ELSE IF t.exhausted \/ t.requests >= t.limit THEN 0
  ELSE t.limit - t.requests

-------------------------------------------------------------------------------
(* A call                                                                  *)

Move(c, r) == call' = [call EXCEPT ![c] = r]

BeginCall(c) ==
  /\ call[c].pc = "idle"
  /\ Move(c, [call[c] EXCEPT !.pc = "gemini"])
  /\ UNCHANGED today /\ RecordNothing

(* Gemini's completeOnce: a transient failure may be tried again.          *)
Retryable(result) == result = "transient"

(* A try after the deadline fails at once.                                 *)
Dead(c) == IF call[c].live THEN 0 ELSE 1

(* The failure of the primary: the caller's deadline decides.              *)
Fallback(r) ==
  IF r.live THEN [r EXCEPT !.pc = "openai", !.attempt = 0]
            ELSE [r EXCEPT !.pc = "expired"]

TryGemini(c, result) ==
  LET tried == [call[c] EXCEPT !.attempt = @ + 1, !.dead = @ + Dead(c),
                               !.quotas = @ + (IF result = "quota" THEN 1 ELSE 0)]
  IN
  /\ call[c].pc = "gemini"
  /\ call[c].live \/ result = "transient"
  /\ CASE result \in {"text", "textless"} -> RecordSuccess
       [] result = "quota" -> \E named \in BOOLEAN : RecordQuotaExhausted(named)
       [] OTHER -> RecordNothing
  /\ \E live \in IF call[c].live THEN BOOLEAN ELSE {FALSE} :
       LET r == [tried EXCEPT !.live = live] IN
       Move(c, IF result = "text" THEN [r EXCEPT !.pc = "replied"]
               ELSE IF live /\ Retryable(result) /\ r.attempt < GeminiAttempts THEN r
               ELSE Fallback(r))
  /\ UNCHANGED today

(* OpenAI tries again after any failure.                                   *)
TryOpenAI(c, result) ==
  LET tried == [call[c] EXCEPT !.attempt = @ + 1, !.dead = @ + Dead(c)] IN
  /\ call[c].pc = "openai"
  /\ call[c].live \/ result = "transient"
  /\ \E live \in IF call[c].live THEN BOOLEAN ELSE {FALSE} :
       LET r == [tried EXCEPT !.live = live] IN
       Move(c, IF result = "text" THEN [r EXCEPT !.pc = "replied"]
               ELSE IF ~live THEN [r EXCEPT !.pc = "expired"]
               ELSE IF r.attempt < OpenAIAttempts THEN r
               ELSE [r EXCEPT !.pc = "failed"])
  /\ UNCHANGED today /\ RecordNothing

(* The deadline passes while a call sleeps between two tries.              *)
Expire(c) ==
  /\ call[c].pc \in {"gemini", "openai"} /\ call[c].live
  /\ Move(c, [call[c] EXCEPT !.live = FALSE])
  /\ UNCHANGED today /\ RecordNothing

(* /stats reads the tally, which rolls over first.                         *)
Snapshot ==
  /\ tally' = Rollover
  /\ UNCHANGED <<today, call, answered, refused>>

NextDay ==
  /\ today < LastDay
  /\ today' = today + 1
  /\ UNCHANGED <<tally, call, answered, refused>>

LLMNext ==
  \/ \E c \in Callers :
       \/ BeginCall(c) \/ Expire(c)
       \/ \E result \in Results : TryGemini(c, result)
       \/ \E result \in Results \ {"textless", "quota"} : TryOpenAI(c, result)
  \/ Snapshot \/ NextDay

LLMSpec == LLMInit /\ [][LLMNext]_llmVars

-------------------------------------------------------------------------------
(* The tally of a day counts what Gemini answered on it and says it is     *)
(* exhausted only if Gemini said so that day; a spent daily quota is not   *)
(* asked for again by the same call; and a call makes at most one try      *)
(* after its deadline, neither retrying nor falling back then              *)
(* (usage.go:50, client.go:283, fallback.go:38).                           *)
FallbackAndTally ==
  /\ tally.day >= 0 =>
       /\ tally.requests = answered[tally.day]
       /\ tally.exhausted <=> tally.day \in refused
       /\ tally.exhausted /\ tally.limit > 0 => RequestsLeft(tally) = 0
  /\ \A c \in Callers :
       /\ call[c].quotas <= 1
       /\ call[c].dead <= 1
===============================================================================
