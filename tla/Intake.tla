------------------------------- MODULE Intake --------------------------------
(***************************************************************************)
(* From worker.yaml to an answer for Father: the daemon starts, polls,     *)
(* claims through FatherClient's cache, validates the envelope, passes its *)
(* names to the git layer, and completes or fails through the other two    *)
(* caches.  What the role does in between is WorkerLoop's; here are the    *)
(* contents of envelopes and configurations, attempts, and the keys of the *)
(* caches, which are taken from the envelope before it is validated.       *)
(***************************************************************************)
EXTENDS Naturals, FiniteSets

CONSTANTS
  Executions,  \* execution ids
  Attempts,    \* attempt ids
  NoAttempt,   \* "", what is used for an attempt id that is missing
  Files,       \* the worker.yaml files there may be
  Offers,      \* what Father may offer: [execution, attempt, env]
  NoOffer,     \* "nothing in hand"
  MaxOffers,   \* bound on offers taken up
  MaxCrashes   \* bound on crashes

Config == INSTANCE WorkerConfig
Validator == INSTANCE EnvelopeValidator

ASSUME IntakeAssumption ==
  /\ NoAttempt \notin Attempts
  /\ Files \subseteq
       [shape : {"mapping", "other"},
        section : [Config!Sections -> {"mapping", "other"}],
        value : [Config!Keys -> Config!Values]]
  /\ Offers \subseteq
       [execution : Executions, attempt : Attempts,
        env : [Validator!Fields -> Validator!Values]]
  /\ NoOffer \notin Offers
  /\ MaxOffers \in Nat
  /\ MaxCrashes \in Nat

VARIABLES
  at,         \* where the daemon is, see Places
  file,       \* the worker.yaml on the disk
  config,     \* the one loaded
  offer,      \* the offer in hand
  category,   \* the failure category being reported, or ""
  step,       \* the step that failed
  rescued,    \* whether _execute's catch-all is reporting
  asked,      \* whether this offer made the client send a request
  claimed,    \* claimed[e]: the response cached, "none" if there is none
  completed,  \* keys in the completion cache
  failed,     \* keys in the failure cache
  answers,    \* answers[r]: answers to request r this process got
  offers,     \* number of offers taken up so far
  crashes     \* number of crashes so far

cacheVars == <<claimed, completed, failed, answers>>
handVars == <<offer, category, step, rescued>>
setupVars == <<file, config>>
vars == <<at, setupVars, handVars, asked, cacheVars, offers, crashes>>

Places ==
  {"down", "starting", "idle", "claim", "validate", "mirror", "worktree", "role",
   "complete", "report"}

Keys == Executions \X (Attempts \cup {NoAttempt})

Requests ==
  {<<"claim", e>> : e \in Executions} \cup {<<"complete", k>> : k \in Keys}
    \cup {<<"fail", k>> : k \in Keys}

Categories ==
  {"INTERNAL_WORKER_ERROR", "RESULT_REPORT_FAILED", "INVALID_EXECUTION_ENVELOPE",
   "UNSUPPORTED_SCHEMA_VERSION", "WORKER_MISMATCH", "UNSUPPORTED_MODEL_SOURCE",
   "UNSUPPORTED_CLIENT", "of the step"}

Steps ==
  {"", "claim", "validate", "mirror", "fetch", "worktree", "git", "surprise", "role",
   "complete", "report"}

(* str(payload.get(field, "")): whatever is there has a text. *)
Missing(o, field) == o.env[field] \in {"absent", "empty"}

(* Mutant of Key: the attempt is left out. *)
KeyOfExecution(o) == <<o.execution, NoAttempt>>

(* What complete and fail are called with. *)
Key(o) ==
  <<o.execution, IF Missing(o, "attempt_id") THEN NoAttempt ELSE o.attempt>>

(* What _validate_project_key refuses: all but letters, digits, "_", "."   *)
(* and "-", a "." or "-" in front, and ".." inside.                        *)
KeyRefused == {"odd", "slashed", "here", "absolute", "upward", "nul"}

(* What _validate_id refuses: slashes, NUL, "." and "..". *)
IdRefused == {"slashed", "here", "absolute", "upward", "nul"}

-------------------------------------------------------------------------------
(* Starting and stopping *)

NothingInHand ==
  /\ offer' = NoOffer /\ category' = "" /\ step' = ""
  /\ rescued' = FALSE

(* The operator writes another file while the daemon is down. *)
Edit(f) ==
  /\ at = "down" /\ file' = f
  /\ UNCHANGED <<at, config, handVars, asked, cacheVars, offers, crashes>>

(* load_config; if it raises, the process ends and systemd starts another. *)
Load ==
  /\ at = "down" /\ Config!Loads(file)
  /\ at' = "starting" /\ config' = file
  /\ UNCHANGED <<file, handVars, asked, cacheVars, offers, crashes>>

(* The client starts with empty caches. *)
Start ==
  /\ at = "starting" /\ Config!Starts(config)
  /\ at' = "idle"
  /\ claimed' = [e \in Executions |-> "none"]
  /\ completed' = {} /\ failed' = {}
  /\ answers' = [r \in Requests |-> 0]
  /\ UNCHANGED <<setupVars, handVars, asked, offers, crashes>>

StartFails ==
  /\ at = "starting" /\ ~Config!Starts(config)
  /\ at' = "down"
  /\ UNCHANGED <<setupVars, handVars, asked, cacheVars, offers, crashes>>

Crash ==
  /\ at \notin {"down", "starting"} /\ crashes < MaxCrashes
  /\ crashes' = crashes + 1
  /\ at' = "down"
  /\ NothingInHand
  /\ UNCHANGED <<setupVars, asked, cacheVars, offers>>

-------------------------------------------------------------------------------
(* One offer *)

(* Mutant of PutDown: the offer is still in flight. *)
PutDownHalf == at' = "idle" /\ category' = "" /\ step' = "" /\ UNCHANGED <<offer, rescued>>

PutDown == at' = "idle" /\ NothingInHand

Continue(place) == at' = place /\ UNCHANGED <<offer, category, step>>

Report(c, s) == at' = "report" /\ category' = c /\ step' = s /\ UNCHANGED offer

(* _execute's catch-all reports once; what its report raises ends run_once. *)
Escapes(s) ==
  \/ ~rescued /\ rescued' = TRUE /\ Report("INTERNAL_WORKER_ERROR", s)
  \/ rescued /\ PutDown

(* run_once: an offer without an execution id is none. *)
TakeUp(o) ==
  /\ at = "idle" /\ offers < MaxOffers /\ ~Missing(o, "execution_id")
  /\ at' = "claim" /\ offer' = o /\ asked' = FALSE
  /\ offers' = offers + 1
  /\ UNCHANGED <<setupVars, category, step, rescued, cacheVars, crashes>>

Answered(request) ==
  /\ answers' = [answers EXCEPT ![request] = @ + 1]
  /\ asked' = TRUE

(* claim: a granted one goes on, None ends the sequence without a report. *)
AfterClaim(response) ==
  \/ response = "granted" /\ Continue("validate") /\ UNCHANGED rescued
  \/ response = "empty" /\ PutDown

ClaimCached ==
  /\ at = "claim" /\ claimed[offer.execution] # "none"
  /\ AfterClaim(claimed[offer.execution])
  /\ UNCHANGED <<setupVars, asked, cacheVars, offers, crashes>>

ClaimAnswered(response) ==
  /\ at = "claim" /\ claimed[offer.execution] = "none"
  /\ claimed' = [claimed EXCEPT ![offer.execution] = response]
  /\ AfterClaim(response)
  /\ Answered(<<"claim", offer.execution>>)
  /\ UNCHANGED <<setupVars, completed, failed, offers, crashes>>

(* _safe_call; nothing is cached for a request refused or lost. *)
ClaimFails ==
  /\ at = "claim" /\ claimed[offer.execution] = "none"
  /\ \E c \in {"RESULT_REPORT_FAILED", "INTERNAL_WORKER_ERROR"} : Report(c, "claim")
  /\ asked' = TRUE
  /\ UNCHANGED <<setupVars, rescued, cacheVars, offers, crashes>>

Refuse(verdict) ==
  IF verdict = "raises" THEN Escapes("validate")
  ELSE Report(verdict, "validate") /\ UNCHANGED rescued

(* _build_validator_config is outside the try around the validator, and    *)
(* the try catches only what has a category.                               *)
Validate ==
  /\ at = "validate"
  /\ LET missed == Validator!Missed(offer.env)
     IN IF ~Config!BuildsValidator(config) THEN Escapes("validate")
        ELSE \/ missed = {} /\ Continue("mirror") /\ UNCHANGED rescued
             \/ \E i \in missed :
                  /\ Validator!IsFirst(i, missed)
                  /\ Refuse(Validator!VerdictAt(i, offer.env))
  /\ UNCHANGED <<setupVars, asked, cacheVars, offers, crashes>>

(* ensure_mirror, in _safe_call: a key that is refused raises ValueError   *)
(* before git is asked; whatever git, or its arguments, raise comes after. *)
Mirror ==
  /\ at = "mirror"
  /\ IF offer.env["project_key"] \in KeyRefused
     THEN Report("INTERNAL_WORKER_ERROR", "mirror")
     ELSE Continue("worktree") \/ Report("INTERNAL_WORKER_ERROR", "fetch")
  /\ UNCHANGED <<setupVars, rescued, asked, cacheVars, offers, crashes>>

(* create_worktree: so do an id, a key and a SHA that are refused, and not *)
(* in _safe_call; nor is what else may be raised and has no category.      *)
Worktree ==
  /\ at = "worktree"
  /\ IF \/ offer.env["execution_id"] \in IdRefused
        \/ offer.env["project_key"] \in KeyRefused
        \/ offer.env["base_commit"] # "right"
     THEN Escapes("worktree")
     ELSE \/ Continue("role") /\ UNCHANGED rescued
          \/ Report("of the step", "git") /\ UNCHANGED rescued
          \/ Escapes("surprise")
  /\ UNCHANGED <<setupVars, asked, cacheVars, offers, crashes>>

(* The rest up to the result is WorkerLoop's.  A deliverable that is the   *)
(* worktree is never a file.                                               *)
Role ==
  /\ at = "role"
  /\ \/ /\ offer.env["expected_deliverable"] # "here" /\ Continue("complete")
        /\ UNCHANGED rescued
     \/ Report("of the step", "role") /\ UNCHANGED rescued
     \/ Escapes("role")
  /\ UNCHANGED <<setupVars, asked, cacheVars, offers, crashes>>

CompleteCached ==
  /\ at = "complete" /\ Key(offer) \in completed
  /\ PutDown
  /\ UNCHANGED <<setupVars, asked, cacheVars, offers, crashes>>

CompleteAnswered ==
  /\ at = "complete" /\ Key(offer) \notin completed
  /\ completed' = completed \cup {Key(offer)}
  /\ Answered(<<"complete", Key(offer)>>)
  /\ PutDown
  /\ UNCHANGED <<setupVars, claimed, failed, offers, crashes>>

CompleteFails ==
  /\ at = "complete" /\ Key(offer) \notin completed
  /\ \/ Report("RESULT_REPORT_FAILED", "complete") /\ UNCHANGED rescued
     \/ Escapes("complete")
  /\ asked' = TRUE
  /\ UNCHANGED <<setupVars, cacheVars, offers, crashes>>

(* _report_failure names the session first, which takes a role. *)
ReportNameless ==
  /\ at = "report" /\ Missing(offer, "target_role")
  /\ Escapes("report")
  /\ UNCHANGED <<setupVars, asked, cacheVars, offers, crashes>>

ReportCached ==
  /\ at = "report" /\ ~Missing(offer, "target_role") /\ Key(offer) \in failed
  /\ PutDown
  /\ UNCHANGED <<setupVars, asked, cacheVars, offers, crashes>>

(* Mutant of ReportAnswered: the answer is not cached. *)
ReportAnsweredUncached ==
  /\ at = "report" /\ ~Missing(offer, "target_role") /\ Key(offer) \notin failed
  /\ Answered(<<"fail", Key(offer)>>)
  /\ PutDown
  /\ UNCHANGED <<setupVars, claimed, completed, failed, offers, crashes>>

ReportAnswered ==
  /\ at = "report" /\ ~Missing(offer, "target_role") /\ Key(offer) \notin failed
  /\ failed' = failed \cup {Key(offer)}
  /\ Answered(<<"fail", Key(offer)>>)
  /\ PutDown
  /\ UNCHANGED <<setupVars, claimed, completed, offers, crashes>>

(* FatherClientError is swallowed, a timeout escapes. *)
ReportFails ==
  /\ at = "report" /\ ~Missing(offer, "target_role") /\ Key(offer) \notin failed
  /\ PutDown \/ Escapes("report")
  /\ asked' = TRUE
  /\ UNCHANGED <<setupVars, cacheVars, offers, crashes>>

-------------------------------------------------------------------------------

Init ==
  /\ at = "down"
  /\ file \in Files /\ config = file
  /\ offer = NoOffer /\ category = "" /\ step = ""
  /\ rescued = FALSE /\ asked = FALSE
  /\ claimed = [e \in Executions |-> "none"]
  /\ completed = {} /\ failed = {}
  /\ answers = [r \in Requests |-> 0]
  /\ offers = 0 /\ crashes = 0

Next ==
  \/ \E f \in Files : Edit(f)
  \/ Load \/ Start \/ StartFails
  \/ \E o \in Offers : TakeUp(o)
  \/ ClaimCached \/ ClaimFails
  \/ \E response \in {"granted", "empty"} : ClaimAnswered(response)
  \/ Validate \/ Mirror \/ Worktree \/ Role
  \/ CompleteCached \/ CompleteAnswered \/ CompleteFails
  \/ ReportNameless \/ ReportCached \/ ReportAnswered \/ ReportFails
  \/ Crash

Spec == Init /\ [][Next]_vars

-------------------------------------------------------------------------------
(* Properties *)

TypeOK ==
  /\ at \in Places
  /\ file \in Files /\ config \in Files
  /\ offer \in Offers \cup {NoOffer}
  /\ offer = NoOffer <=> at \in {"down", "starting", "idle"}
  /\ category \in Categories \cup {""} /\ step \in Steps
  /\ rescued \in BOOLEAN /\ asked \in BOOLEAN
  /\ claimed \in [Executions -> {"none", "granted", "empty"}]
  /\ completed \subseteq Keys /\ failed \subseteq Keys
  /\ answers \in [Requests -> Nat]
  /\ offers \in 0..MaxOffers /\ crashes \in 0..MaxCrashes

(* No envelope section 13 rejects gets past the mirror, nor past the       *)
(* validator unless it is for the path its project key makes, which only   *)
(* the git layer looks at.  What the validator refuses is reported with    *)
(* the category of what is wrong: another worker's, say, only if this      *)
(* worker could read it, whatever else is wrong below.                     *)
VerdictIsRight ==
  /\ at = "mirror" => Validator!AcceptableButRepository(offer.env)
  /\ at \in {"worktree", "role", "complete"} => Validator!Acceptable(offer.env)
  /\ at = "report" /\ step = "validate" /\ category # "INTERNAL_WORKER_ERROR" =>
       /\ ~Validator!AcceptableButRepository(offer.env)
       /\ Validator!CategoryFits(offer.env, category)

(* Where the worker's own checks up to the worktree refuse an envelope by  *)
(* an exception without a category, so that it is reported as internal, it *)
(* is a deliverable no path can hold, a project key or an execution id     *)
(* that the git layer refuses and the validator let through, each in its   *)
(* step.  The configuration always builds a validator, and the validator   *)
(* always leaves a full SHA.                                               *)
LateRefusalsKnown ==
  at = "report" /\ category = "INTERNAL_WORKER_ERROR" =>
    /\ step = "validate" => offer.env["expected_deliverable"] = "nul"
    /\ step = "mirror"   => offer.env["project_key"] \in KeyRefused
    /\ step = "worktree" => offer.env["execution_id"] \in IdRefused

(* "must issue exactly one request": between two starts Father answers no  *)
(* claim of an execution and no completion or failure of an attempt twice. *)
OneRequestEach == \A r \in Requests : answers[r] <= 1

(* An offer after which Father has not been asked anything is one of an    *)
(* execution already claimed, and was answered empty then, or names no     *)
(* role, or its own attempt has been completed or failed before.           *)
SilenceOnlyWhen ==
  [][at \notin {"down", "starting", "idle"} /\ at' = "idle" /\ ~asked' =>
       \/ claimed[offer.execution] = "empty"
       \/ /\ claimed[offer.execution] = "granted"
          /\ \/ Missing(offer, "target_role")
             \/ \E a \in Attempts \cup {NoAttempt} :
                  /\ <<offer.execution, a>> \in completed \cup failed
                  /\ a = offer.attempt \/ Missing(offer, "attempt_id")]_vars

(* "Any accepted expected_deliverable must resolve to a path beneath this  *)
(* root."                                                                  *)
DeliverableBelowRoot ==
  at = "role" => offer.env["expected_deliverable"] # "here"

-------------------------------------------------------------------------------
(* The inductive invariant *)

(* Only the report of the catch-all is made with rescued set. *)
RescueIsReport == rescued => at = "report"

(* The daemon polls only with a configuration its collaborators took. *)
ServesStarted == at \notin {"down", "starting"} => Config!Starts(config)

(* An answer was counted for what is cached, and for nothing else. *)
CachesCount ==
  /\ \A e \in Executions :
       answers[<<"claim", e>>] = IF claimed[e] = "none" THEN 0 ELSE 1
  /\ \A k \in Keys :
       /\ answers[<<"complete", k>>] = IF k \in completed THEN 1 ELSE 0
       /\ answers[<<"fail", k>>] = IF k \in failed THEN 1 ELSE 0

(* Past the claim without a request, the claim came from the cache. *)
UnaskedIsClaimed ==
  at \in {"validate", "mirror", "worktree", "role", "complete", "report"} /\ ~asked =>
    claimed[offer.execution] = "granted"

(* Behind ensure_mirror the project key is one the git layer takes. *)
KeyIsPlain == at = "worktree" => offer.env["project_key"] \notin KeyRefused

IntakeInv ==
  /\ TypeOK
  /\ RescueIsReport
  /\ ServesStarted
  /\ CachesCount
  /\ UnaskedIsClaimed
  /\ VerdictIsRight
  /\ LateRefusalsKnown
  /\ KeyIsPlain
===============================================================================
