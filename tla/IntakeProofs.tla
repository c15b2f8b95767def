---------------------------- MODULE IntakeProofs ----------------------------
(***************************************************************************)
(* Theorems about Intake, for every set of offers and of worker.yaml       *)
(* files, and about the validator's table, for every envelope.             *)
(***************************************************************************)
EXTENDS Intake, TLAPS

-------------------------------------------------------------------------------
(* The validator's table *)

LEMMA RowsAre ==
  LET row(i, f, r) == Validator!Rows[i] = [field |-> f, rule |-> r]
  IN /\ DOMAIN Validator!Rows = 1..25
     /\ row(1, "target_role", "name")
     /\ row(2, "schema_version", "schema_version") /\ row(3, "worker_id", "worker_id")
     /\ row(4, "model_source", "model_source") /\ row(5, "model_alias", "name")
     /\ row(6, "client", "client")
     /\ row(7, "execution_id", "name") /\ row(8, "job_id", "name")
     /\ row(9, "handoff_id", "name") /\ row(10, "attempt_id", "name")
     /\ row(11, "flow_key", "name") /\ row(12, "step_key", "name")
     /\ row(13, "source_role", "name")
     /\ row(14, "repository", "block") /\ row(15, "project_key", "name")
     /\ row(16, "clone_url", "name") /\ row(17, "base_commit", "sha")
     /\ row(18, "handoff", "block") /\ row(19, "content", "document")
     /\ row(20, "governance_content", "document") /\ row(21, "expected_deliverable", "path")
     /\ row(22, "result_contract", "block") /\ row(23, "mode", "mode")
     /\ row(24, "tests_required", "flag")
     /\ row(25, "local_result_commit_required", "flag")
BY DEF Validator!Rows, Validator!Row

OwnCategories ==
  {"UNSUPPORTED_SCHEMA_VERSION", "WORKER_MISMATCH", "UNSUPPORTED_MODEL_SOURCE",
   "UNSUPPORTED_CLIENT"}

(* What each rule lets pass, in the words of the definition of acceptance. *)
LEMMA RulesAre ==
  ASSUME NEW v
  PROVE  /\ Validator!Verdict("name", v) = "fine" <=> Validator!Name(v)
         /\ Validator!Verdict("block", v) = "fine" <=> v = "block"
         /\ Validator!Verdict("flag", v) = "fine" <=> v = "flag"
         /\ Validator!Verdict("document", v) = "fine" <=> v \in Validator!Strings
         /\ Validator!Verdict("path", v) = "fine" <=>
              Validator!Name(v) /\ v \notin {"absolute", "upward", "outside", "nul"}
         /\ \A r \in {"schema_version", "worker_id", "model_source", "client", "sha",
                        "mode"} : Validator!Verdict(r, v) = "fine" <=> v = "right"
<1> USE DEF Validator!Verdict, Validator!TextVerdict, Validator!Name, Validator!Clean,
            Validator!Category, Validator!Invalid, Validator!Strings
<1>1. Validator!Verdict("name", v) = "fine" <=> Validator!Name(v)
  OBVIOUS
<1>2. Validator!Verdict("block", v) = "fine" <=> v = "block"
  OBVIOUS
<1>3. Validator!Verdict("flag", v) = "fine" <=> v = "flag"
  OBVIOUS
<1>4. Validator!Verdict("document", v) = "fine" <=> v \in Validator!Strings
  OBVIOUS
<1>5. Validator!Verdict("path", v) = "fine" <=>
        Validator!Name(v) /\ v \notin {"absolute", "upward", "outside", "nul"}
  OBVIOUS
<1>6. \A r \in {"schema_version", "worker_id", "model_source", "client", "sha", "mode"} :
        Validator!Verdict(r, v) = "fine" <=> v = "right"
  OBVIOUS
<1> HIDE DEF Validator!Verdict, Validator!TextVerdict, Validator!Name, Validator!Clean,
             Validator!Category, Validator!Invalid, Validator!Strings
<1>7. QED
  BY <1>1, <1>2, <1>3, <1>4, <1>5, <1>6

(* A rule compares if it has a category of its own, which it raises for a  *)
(* clean text that is not the right one.                                   *)
Compares(rule) == Validator!Category(rule) # Validator!Invalid

LEMMA RulesRaise ==
  ASSUME NEW r, NEW v
  PROVE  \/ Validator!Verdict(r, v) \in {"fine", Validator!Invalid}
         \/ r = "path" /\ v = "nul" /\ Validator!Verdict(r, v) = "raises"
         \/ /\ Compares(r) /\ Validator!Verdict(r, v) = Validator!Category(r)
            /\ Validator!Clean(v) /\ v # "right"
BY DEF Compares, Validator!Verdict, Validator!TextVerdict, Validator!Clean,
       Validator!Category, Validator!Invalid, Validator!Strings

LEMMA CategoriesAre ==
  /\ Validator!Category("schema_version") = "UNSUPPORTED_SCHEMA_VERSION"
  /\ Validator!Category("worker_id") = "WORKER_MISMATCH"
  /\ Validator!Category("model_source") = "UNSUPPORTED_MODEL_SOURCE"
  /\ Validator!Category("client") = "UNSUPPORTED_CLIENT"
  /\ \A r \in {"name", "block", "flag", "document", "path", "sha", "mode"} : ~Compares(r)
BY DEF Compares, Validator!Category, Validator!Invalid

(* No category is the word for an exception without one. *)
LEMMA OwnWords ==
  /\ "raises" # Validator!Invalid
  /\ \A r : Validator!Category(r) # "raises"
BY DEF Validator!Category, Validator!Invalid

(* No row is missed exactly by the envelopes section 13 accepts, if they   *)
(* are not to be rejected for their repository's path.                     *)
LEMMA MissedNothing ==
  ASSUME NEW env
  PROVE  Validator!Missed(env) = {} <=> Validator!AcceptableButRepository(env)
<1> DEFINE fine(i) == Validator!VerdictAt(i, env) = "fine"
<1>1. Validator!Missed(env) = {} <=> \A i \in 1..25 : fine(i)
  BY RowsAre DEF Validator!Missed
<1>2. /\ fine(1) <=> Validator!Name(env["target_role"])
      /\ fine(2) <=> env["schema_version"] = "right"
      /\ fine(3) <=> env["worker_id"] = "right"
      /\ fine(4) <=> env["model_source"] = "right"
      /\ fine(5) <=> Validator!Name(env["model_alias"])
      /\ fine(6) <=> env["client"] = "right"
      /\ fine(7) <=> Validator!Name(env["execution_id"])
      /\ fine(8) <=> Validator!Name(env["job_id"])
      /\ fine(9) <=> Validator!Name(env["handoff_id"])
      /\ fine(10) <=> Validator!Name(env["attempt_id"])
      /\ fine(11) <=> Validator!Name(env["flow_key"])
      /\ fine(12) <=> Validator!Name(env["step_key"])
      /\ fine(13) <=> Validator!Name(env["source_role"])
  BY RowsAre, RulesAre DEF Validator!VerdictAt
<1>3. /\ fine(14) <=> env["repository"] = "block"
      /\ fine(15) <=> Validator!Name(env["project_key"])
      /\ fine(16) <=> Validator!Name(env["clone_url"])
      /\ fine(17) <=> env["base_commit"] = "right"
      /\ fine(18) <=> env["handoff"] = "block"
      /\ fine(19) <=> env["content"] \in Validator!Strings
      /\ fine(20) <=> env["governance_content"] \in Validator!Strings
      /\ fine(21) <=> /\ Validator!Name(env["expected_deliverable"])
                      /\ Validator!SafeDeliverable(env)
      /\ fine(22) <=> env["result_contract"] = "block"
      /\ fine(23) <=> env["mode"] = "right"
      /\ fine(24) <=> env["tests_required"] = "flag"
      /\ fine(25) <=> env["local_result_commit_required"] = "flag"
  BY RowsAre, RulesAre DEF Validator!VerdictAt, Validator!SafeDeliverable
<1>4. (\A i \in 1..25 : fine(i)) <=>
        /\ fine(1) /\ fine(2) /\ fine(3) /\ fine(4) /\ fine(5) /\ fine(6) /\ fine(7)
        /\ fine(8) /\ fine(9) /\ fine(10) /\ fine(11) /\ fine(12) /\ fine(13)
        /\ fine(14) /\ fine(15) /\ fine(16) /\ fine(17) /\ fine(18) /\ fine(19)
        /\ fine(20) /\ fine(21) /\ fine(22) /\ fine(23) /\ fine(24) /\ fine(25)
  <2> HIDE DEF fine
  <2>1. QED
    OBVIOUS
<1> HIDE DEF fine
<1>5. QED
  BY <1>1, <1>2, <1>3, <1>4 DEF Validator!AcceptableButRepository

(* The first row missed names what is wrong, and what came before is right. *)
LEMMA FirstMissedFits ==
  ASSUME NEW env, NEW i, Validator!IsFirst(i, Validator!Missed(env))
  PROVE  \/ /\ ~Validator!AcceptableButRepository(env)
            /\ Validator!CategoryFits(env, Validator!VerdictAt(i, env))
            /\ Validator!VerdictAt(i, env) \in OwnCategories \cup {Validator!Invalid}
         \/ Validator!VerdictAt(i, env) = "raises" /\ env["expected_deliverable"] = "nul"
<1> DEFINE said(k) == Validator!VerdictAt(k, env)
<1>1. ~Validator!AcceptableButRepository(env)
  BY MissedNothing DEF Validator!IsFirst
<1>2. i \in 1..25 /\ said(i) # "fine" /\ \A k \in 1..25 : k < i => said(k) = "fine"
  BY RowsAre DEF Validator!IsFirst, Validator!Missed
<1>3. CASE said(i) = Validator!Invalid
  BY <1>1, <1>3 DEF Validator!CategoryFits, Validator!Invalid
<1>4. CASE said(i) = "raises"
  <2>1. /\ Validator!Rows[i].rule = "path"
        /\ env[Validator!Rows[i].field] = "nul"
    BY <1>4, RulesRaise, OwnWords DEF Validator!VerdictAt
  <2>2. i = 21
    BY <1>2, <2>1, RowsAre
  <2>3. QED
    BY <1>4, <2>1, <2>2, RowsAre
<1>5. CASE said(i) # Validator!Invalid /\ said(i) # "raises"
  <2>1. i \in {2, 3, 4, 6}
    <3>1. \A k \in 1..25 \ {2, 3, 4, 6} :
            Validator!Rows[k].rule \in
              {"name", "block", "flag", "document", "path", "sha", "mode"}
      BY RowsAre
    <3>2. \A k \in 1..25 \ {2, 3, 4, 6} : said(k) \in {"fine", Validator!Invalid, "raises"}
      BY <3>1, RulesRaise, CategoriesAre DEF Validator!VerdictAt
    <3>3. QED
      BY <1>2, <1>5, <3>2
  <2>2. CASE i = 2
    <3>1. said(1) = "fine"
      BY <1>2, <2>2
    <3>2. Validator!Name(env["target_role"])
      BY <3>1, RowsAre, RulesAre DEF Validator!VerdictAt
    <3>3. /\ Validator!Clean(env["schema_version"]) /\ env["schema_version"] # "right"
          /\ said(i) = "UNSUPPORTED_SCHEMA_VERSION"
      BY <1>2, <1>5, <2>2, RowsAre, RulesRaise, CategoriesAre DEF Validator!VerdictAt
    <3>4. QED
      BY <1>1, <3>2, <3>3 DEF Validator!CategoryFits, OwnCategories
  <2>3. CASE i = 3
    <3>1. said(1) = "fine" /\ said(2) = "fine"
      BY <1>2, <2>3
    <3>2. Validator!Name(env["target_role"]) /\ env["schema_version"] = "right"
      BY <3>1, RowsAre, RulesAre DEF Validator!VerdictAt
    <3>3. /\ Validator!Clean(env["worker_id"]) /\ env["worker_id"] # "right"
          /\ said(i) = "WORKER_MISMATCH"
      BY <1>2, <1>5, <2>3, RowsAre, RulesRaise, CategoriesAre DEF Validator!VerdictAt
    <3>4. QED
      BY <1>1, <3>2, <3>3 DEF Validator!CategoryFits, OwnCategories
  <2>4. CASE i = 4
    <3>1. said(2) = "fine" /\ said(3) = "fine"
      BY <1>2, <2>4
    <3>2. env["schema_version"] = "right" /\ env["worker_id"] = "right"
      BY <3>1, RowsAre, RulesAre DEF Validator!VerdictAt
    <3>3. /\ Validator!Clean(env["model_source"]) /\ env["model_source"] # "right"
          /\ said(i) = "UNSUPPORTED_MODEL_SOURCE"
      BY <1>2, <1>5, <2>4, RowsAre, RulesRaise, CategoriesAre DEF Validator!VerdictAt
    <3>4. QED
      BY <1>1, <3>2, <3>3 DEF Validator!CategoryFits, OwnCategories
  <2>5. CASE i = 6
    <3>1. said(2) = "fine" /\ said(3) = "fine" /\ said(4) = "fine" /\ said(5) = "fine"
      BY <1>2, <2>5
    <3>2. /\ env["schema_version"] = "right" /\ env["worker_id"] = "right"
          /\ env["model_source"] = "right" /\ Validator!Name(env["model_alias"])
      BY <3>1, RowsAre, RulesAre DEF Validator!VerdictAt
    <3>3. /\ Validator!Clean(env["client"]) /\ env["client"] # "right"
          /\ said(i) = "UNSUPPORTED_CLIENT"
      BY <1>2, <1>5, <2>5, RowsAre, RulesRaise, CategoriesAre DEF Validator!VerdictAt
    <3>4. QED
      BY <1>1, <3>2, <3>3 DEF Validator!CategoryFits, OwnCategories
  <2>6. QED
    BY <2>1, <2>2, <2>3, <2>4, <2>5
<1>6. QED
  BY <1>3, <1>4, <1>5

-------------------------------------------------------------------------------
(* The inductive invariant *)

(* What is in hand is an offer, and what is asked about it a request. *)
LEMMA InHand ==
  ASSUME offer \in Offers
  PROVE  /\ offer.execution \in Executions
         /\ Key(offer) \in Keys
         /\ <<"claim", offer.execution>> \in Requests
         /\ <<"complete", Key(offer)>> \in Requests
         /\ <<"fail", Key(offer)>> \in Requests
<1>1. offer.execution \in Executions /\ offer.attempt \in Attempts
  BY IntakeAssumption DEF IntakeAssumption
<1>2. Key(offer) \in Keys
  BY <1>1 DEF Key, Keys
<1>3. QED
  BY <1>1, <1>2 DEF Requests

(* An answer is counted for its request and for no other. *)
LEMMA OneAnswered ==
  ASSUME TypeOK, NEW request \in Requests, Answered(request)
  PROVE  /\ answers' \in [Requests -> Nat]
         /\ answers'[request] = answers[request] + 1
         /\ \A r \in Requests \ {request} : answers'[r] = answers[r]
<1>1. answers \in [Requests -> Nat]
  BY DEF TypeOK
<1>2. answers' = [answers EXCEPT ![request] = answers[request] + 1]
  BY DEF Answered
<1>3. QED
  BY <1>1, <1>2

(* A sequence is in hand wherever there is more to do than poll. *)
LEMMA HoldsOffer ==
  ASSUME TypeOK, at \notin {"down", "starting", "idle"}
  PROVE  offer \in Offers
BY DEF TypeOK

LEMMA InitIntakeInv == Init => IntakeInv
<1> SUFFICES ASSUME Init PROVE IntakeInv
  OBVIOUS
<1>1. TypeOK
  <2>1. MaxOffers \in Nat /\ MaxCrashes \in Nat
    BY IntakeAssumption DEF IntakeAssumption
  <2>2. answers \in [Requests -> Nat] /\ claimed \in [Executions -> {"none", "granted", "empty"}]
    BY DEF Init
  <2>3. /\ at \in Places /\ offer \in Offers \cup {NoOffer}
        /\ offer = NoOffer <=> at \in {"down", "starting", "idle"}
        /\ category \in Categories \cup {""} /\ step \in Steps
    BY DEF Init, Places, Steps
  <2>4. /\ file \in Files /\ config \in Files
        /\ rescued \in BOOLEAN /\ asked \in BOOLEAN
        /\ completed \subseteq Keys /\ failed \subseteq Keys
    BY DEF Init
  <2>5. offers \in 0..MaxOffers /\ crashes \in 0..MaxCrashes
    <3>1. offers = 0 /\ crashes = 0
      BY DEF Init
    <3>2. QED
      BY <2>1, <3>1
  <2>6. QED
    BY <2>2, <2>3, <2>4, <2>5 DEF TypeOK
<1>2. CachesCount
  BY DEF Init, CachesCount, Requests
<1>3. QED
  BY <1>1, <1>2 DEF Init, IntakeInv, RescueIsReport, ServesStarted, UnaskedIsClaimed,
     VerdictIsRight, LateRefusalsKnown, KeyIsPlain

(* The step that leaves everything alone. *)
LEMMA IntakeStutter == IntakeInv /\ UNCHANGED vars => IntakeInv'
<1> SUFFICES ASSUME IntakeInv, UNCHANGED vars PROVE IntakeInv'
  OBVIOUS
<1> USE DEF vars, setupVars, handVars, cacheVars
<1>1. TypeOK'
  BY DEF IntakeInv, TypeOK
<1>2. RescueIsReport' /\ ServesStarted' /\ UnaskedIsClaimed'
  BY DEF IntakeInv, RescueIsReport, ServesStarted, UnaskedIsClaimed
<1>3. CachesCount'
  BY DEF IntakeInv, CachesCount
<1>4. VerdictIsRight'
  BY DEF IntakeInv, VerdictIsRight
<1>5. LateRefusalsKnown' /\ KeyIsPlain'
  BY DEF IntakeInv, LateRefusalsKnown, KeyIsPlain
<1>6. QED
  BY <1>1, <1>2, <1>3, <1>4, <1>5 DEF IntakeInv

(* Only the catch-all sets rescued, and what it does next is report. *)
LEMMA RescueStep == IntakeInv /\ Next => RescueIsReport'
BY DEF IntakeInv, RescueIsReport, Next, Edit, Load, Start, StartFails, TakeUp, ClaimCached,
   ClaimFails, ClaimAnswered, AfterClaim, Validate, Mirror, Worktree, Role, CompleteCached,
   CompleteAnswered, CompleteFails, ReportNameless, ReportCached, ReportAnswered, ReportFails,
   Crash, NothingInHand, PutDown, Continue, Report, Refuse, Escapes, setupVars, handVars, cacheVars

(* Only Start makes the daemon poll. *)
LEMMA StartedStep == IntakeInv /\ Next => ServesStarted'
BY DEF IntakeInv, ServesStarted, Next, Edit, Load, Start, StartFails, TakeUp, ClaimCached,
   ClaimFails, ClaimAnswered, AfterClaim, Validate, Mirror, Worktree, Role, CompleteCached,
   CompleteAnswered, CompleteFails, ReportNameless, ReportCached, ReportAnswered, ReportFails,
   Crash, NothingInHand, PutDown, Continue, Report, Refuse, Escapes, setupVars, handVars, cacheVars
(* The bounds on what is counted. *)
LEMMA BoundsStep ==
  IntakeInv /\ Next => offers' \in 0..MaxOffers /\ crashes' \in 0..MaxCrashes
<1> SUFFICES ASSUME IntakeInv, Next
             PROVE  offers' \in 0..MaxOffers /\ crashes' \in 0..MaxCrashes
  OBVIOUS
<1>1. /\ MaxOffers \in Nat /\ MaxCrashes \in Nat
      /\ offers \in 0..MaxOffers /\ crashes \in 0..MaxCrashes
  BY IntakeAssumption DEF IntakeAssumption, IntakeInv, TypeOK
<1>2. /\ offers' = offers \/ (offers < MaxOffers /\ offers' = offers + 1)
      /\ crashes' = crashes \/ (crashes < MaxCrashes /\ crashes' = crashes + 1)
  BY DEF Next, Edit, Load, Start, StartFails, TakeUp, ClaimCached, ClaimFails, ClaimAnswered,
     Validate, Mirror, Worktree, Role, CompleteCached, CompleteAnswered, CompleteFails,
     ReportNameless, ReportCached, ReportAnswered, ReportFails, Crash
<1>3. QED
  BY <1>1, <1>2

(* Where the daemon is, and what it has in hand. *)
LEMMA HandStep ==
  IntakeInv /\ Next =>
    /\ at' \in Places /\ offer' \in Offers \cup {NoOffer}
    /\ offer' = NoOffer <=> at' \in {"down", "starting", "idle"}
    /\ step' \in Steps /\ rescued' \in BOOLEAN /\ asked' \in BOOLEAN
<1> SUFFICES ASSUME IntakeInv, Next
             PROVE  /\ at' \in Places /\ offer' \in Offers \cup {NoOffer}
                    /\ offer' = NoOffer <=> at' \in {"down", "starting", "idle"}
                    /\ step' \in Steps /\ rescued' \in BOOLEAN /\ asked' \in BOOLEAN
  OBVIOUS
<1>1. NoOffer \notin Offers
  BY IntakeAssumption DEF IntakeAssumption
<1>2. /\ at \in Places /\ offer \in Offers \cup {NoOffer}
      /\ offer = NoOffer <=> at \in {"down", "starting", "idle"}
      /\ step \in Steps /\ rescued \in BOOLEAN /\ asked \in BOOLEAN
  BY DEF IntakeInv, TypeOK
<1> USE DEF NothingInHand, PutDown, Continue, Report, Refuse, Escapes, setupVars, handVars, Places, Steps
<1>4. CASE (\E f \in Files : Edit(f)) \/ Load \/ Start \/ StartFails \/ Crash
  BY <1>2, <1>4 DEF Edit, Load, Start, StartFails, Crash
<1>5. CASE \E o \in Offers : TakeUp(o)
  BY <1>1, <1>2, <1>5 DEF TakeUp
<1>6. CASE \/ ClaimCached \/ ClaimFails
           \/ \E response \in {"granted", "empty"} : ClaimAnswered(response)
  BY <1>2, <1>6 DEF ClaimCached, ClaimFails, ClaimAnswered, AfterClaim, Answered
<1>7. CASE Validate \/ Mirror \/ Worktree \/ Role
  BY <1>2, <1>7 DEF Validate, Mirror, Worktree, Role
<1>8. CASE CompleteCached \/ CompleteAnswered \/ CompleteFails
  BY <1>2, <1>8 DEF CompleteCached, CompleteAnswered, CompleteFails, Answered
<1>9. CASE ReportNameless \/ ReportCached \/ ReportAnswered \/ ReportFails
  BY <1>2, <1>9 DEF ReportNameless, ReportCached, ReportAnswered, ReportFails, Answered
<1>10. QED
  BY <1>4, <1>5, <1>6, <1>7, <1>8, <1>9 DEF Next

(* The caches, and what was counted for them. *)
CacheTypes ==
  /\ claimed \in [Executions -> {"none", "granted", "empty"}]
  /\ completed \subseteq Keys /\ failed \subseteq Keys
  /\ answers \in [Requests -> Nat]

LEMMA CountStep == IntakeInv /\ Next => CacheTypes' /\ CachesCount'
<1> SUFFICES ASSUME IntakeInv, Next PROVE CacheTypes' /\ CachesCount'
  OBVIOUS
<1>1. CacheTypes /\ CachesCount /\ TypeOK
  BY DEF IntakeInv, TypeOK, CacheTypes
<1>2. CASE Start
  <2>1. /\ claimed' = [e \in Executions |-> "none"] /\ completed' = {} /\ failed' = {}
        /\ answers' = [r \in Requests |-> 0]
    BY <1>2 DEF Start
  <2>2. CacheTypes'
    BY <2>1 DEF CacheTypes
  <2>3. CachesCount'
    BY <2>1 DEF CachesCount, Requests
  <2>4. QED
    BY <2>2, <2>3
<1>3. CASE \E response \in {"granted", "empty"} : ClaimAnswered(response)
  <2>1. PICK response \in {"granted", "empty"} : ClaimAnswered(response)
    BY <1>3
  <2> DEFINE e == offer.execution
             request == <<"claim", e>>
  <2>2. /\ claimed[e] = "none" /\ claimed' = [claimed EXCEPT ![e] = response]
        /\ completed' = completed /\ failed' = failed
        /\ Answered(request) /\ offer \in Offers
    BY <1>1, <2>1, HoldsOffer DEF ClaimAnswered
  <2>3. e \in Executions /\ request \in Requests
    BY <2>2, InHand
  <2>4. /\ answers' \in [Requests -> Nat] /\ answers'[request] = answers[request] + 1
        /\ \A r \in Requests \ {request} : answers'[r] = answers[r]
    BY <1>1, <2>2, <2>3, OneAnswered
  <2>5. /\ claimed' \in [Executions -> {"none", "granted", "empty"}]
        /\ claimed'[e] = response /\ \A o \in Executions \ {e} : claimed'[o] = claimed[o]
    BY <1>1, <2>1, <2>2, <2>3 DEF CacheTypes
  <2>6. CacheTypes'
    BY <1>1, <2>2, <2>4, <2>5 DEF CacheTypes
  <2>7. \A o \in Executions :
          answers'[<<"claim", o>>] = IF claimed'[o] = "none" THEN 0 ELSE 1
    <3>1. ASSUME NEW o \in Executions, o # e
          PROVE  answers'[<<"claim", o>>] = answers[<<"claim", o>>] /\ claimed'[o] = claimed[o]
      BY <2>4, <2>5, <3>1 DEF Requests
    <3>2. answers[request] = 0
      BY <1>1, <2>2, <2>3 DEF CachesCount
    <3>3. answers'[request] = 1 /\ claimed'[e] # "none"
      BY <2>1, <2>4, <2>5, <3>2
    <3> HIDE DEF e
    <3>4. QED
      BY <1>1, <3>1, <3>3 DEF CachesCount
  <2>8. \A k \in Keys : /\ answers'[<<"complete", k>>] = answers[<<"complete", k>>]
                        /\ answers'[<<"fail", k>>] = answers[<<"fail", k>>]
    BY <2>4 DEF Requests
  <2>9. QED
    BY <1>1, <2>2, <2>6, <2>7, <2>8 DEF CachesCount
<1>4. CASE CompleteAnswered
  <2> DEFINE key == Key(offer)
             request == <<"complete", key>>
  <2>1. /\ key \notin completed /\ completed' = completed \cup {key}
        /\ claimed' = claimed /\ failed' = failed
        /\ Answered(request) /\ offer \in Offers
    BY <1>1, <1>4, HoldsOffer DEF CompleteAnswered
  <2>2. key \in Keys /\ request \in Requests
    BY <2>1, InHand
  <2>3. /\ answers' \in [Requests -> Nat] /\ answers'[request] = answers[request] + 1
        /\ \A r \in Requests \ {request} : answers'[r] = answers[r]
    BY <1>1, <2>1, <2>2, OneAnswered
  <2> HIDE DEF key
  <2>4. CacheTypes'
    BY <1>1, <2>1, <2>2, <2>3 DEF CacheTypes
  <2>5. \A k \in Keys : answers'[<<"complete", k>>] = IF k \in completed' THEN 1 ELSE 0
    <3>1. ASSUME NEW k \in Keys, k # key
          PROVE  answers'[<<"complete", k>>] = answers[<<"complete", k>>]
      BY <2>3, <3>1 DEF Requests
    <3>2. answers[request] = 0
      BY <1>1, <2>1, <2>2 DEF CachesCount
    <3>3. answers'[request] = 1
      BY <2>3, <3>2
    <3>4. QED
      BY <1>1, <2>1, <3>1, <3>3 DEF CachesCount
  <2>6. /\ \A o \in Executions : answers'[<<"claim", o>>] = answers[<<"claim", o>>]
        /\ \A k \in Keys : answers'[<<"fail", k>>] = answers[<<"fail", k>>]
    BY <2>3 DEF Requests
  <2>7. QED
    BY <1>1, <2>1, <2>4, <2>5, <2>6 DEF CachesCount
<1>5. CASE ReportAnswered
  <2> DEFINE key == Key(offer)
             request == <<"fail", key>>
  <2>1. /\ key \notin failed /\ failed' = failed \cup {key}
        /\ claimed' = claimed /\ completed' = completed
        /\ Answered(request) /\ offer \in Offers
    BY <1>1, <1>5, HoldsOffer DEF ReportAnswered
  <2>2. key \in Keys /\ request \in Requests
    BY <2>1, InHand
  <2>3. /\ answers' \in [Requests -> Nat] /\ answers'[request] = answers[request] + 1
        /\ \A r \in Requests \ {request} : answers'[r] = answers[r]
    BY <1>1, <2>1, <2>2, OneAnswered
  <2> HIDE DEF key
  <2>4. CacheTypes'
    BY <1>1, <2>1, <2>2, <2>3 DEF CacheTypes
  <2>5. \A k \in Keys : answers'[<<"fail", k>>] = IF k \in failed' THEN 1 ELSE 0
    <3>1. ASSUME NEW k \in Keys, k # key
          PROVE  answers'[<<"fail", k>>] = answers[<<"fail", k>>]
      BY <2>3, <3>1 DEF Requests
    <3>2. answers[request] = 0
      BY <1>1, <2>1, <2>2 DEF CachesCount
    <3>3. answers'[request] = 1
      BY <2>3, <3>2
    <3>4. QED
      BY <1>1, <2>1, <3>1, <3>3 DEF CachesCount
  <2>6. /\ \A o \in Executions : answers'[<<"claim", o>>] = answers[<<"claim", o>>]
        /\ \A k \in Keys : answers'[<<"complete", k>>] = answers[<<"complete", k>>]
    BY <2>3 DEF Requests
  <2>7. QED
    BY <1>1, <2>1, <2>4, <2>5, <2>6 DEF CachesCount
<1>6. CASE UNCHANGED cacheVars
  BY <1>1, <1>6 DEF CacheTypes, CachesCount, cacheVars
<1>7. QED
  BY <1>2, <1>3, <1>4, <1>5, <1>6 DEF Next, Edit, Load, StartFails, TakeUp, ClaimCached,
     ClaimFails, Validate, Mirror, Worktree, Role, CompleteCached, CompleteFails,
     ReportNameless, ReportCached, ReportFails, Crash

(* The worker.yaml read, and what was read of it. *)
LEMMA FilesStep == IntakeInv /\ Next => file' \in Files /\ config' \in Files
BY DEF IntakeInv, TypeOK, Next, Edit, Load, Start, StartFails, TakeUp, ClaimCached, ClaimFails,
   ClaimAnswered, Validate, Mirror, Worktree, Role, CompleteCached, CompleteAnswered,
   CompleteFails, ReportNameless, ReportCached, ReportAnswered, ReportFails, Crash, setupVars

(* Past a claim, the worker holds one: the answer was cached or has come. *)
LEMMA UnaskedStep == IntakeInv /\ Next => UnaskedIsClaimed'
<1> SUFFICES ASSUME IntakeInv, Next PROVE UnaskedIsClaimed'
  OBVIOUS
<1>1. UnaskedIsClaimed
  BY DEF IntakeInv
<1> USE DEF UnaskedIsClaimed, NothingInHand, PutDown, Continue, Report, Refuse, Escapes, Answered,
            cacheVars, handVars
<1>2. CASE (\E f \in Files : Edit(f)) \/ Load \/ Start \/ StartFails \/ Crash
             \/ (\E o \in Offers : TakeUp(o))
  BY <1>1, <1>2 DEF Edit, Load, Start, StartFails, Crash, TakeUp, IntakeInv, TypeOK
<1>3. CASE \/ ClaimCached \/ ClaimFails
           \/ \E response \in {"granted", "empty"} : ClaimAnswered(response)
  BY <1>3 DEF ClaimCached, ClaimFails, ClaimAnswered, AfterClaim
<1>4. CASE Validate \/ Mirror \/ Worktree \/ Role
  BY <1>1, <1>4 DEF Validate, Mirror, Worktree, Role
<1>5. CASE CompleteCached \/ CompleteAnswered \/ CompleteFails
  BY <1>1, <1>5 DEF CompleteCached, CompleteAnswered, CompleteFails
<1>6. CASE ReportNameless \/ ReportCached \/ ReportAnswered \/ ReportFails
  BY <1>1, <1>6 DEF ReportNameless, ReportCached, ReportAnswered, ReportFails
<1>7. QED
  BY <1>2, <1>3, <1>4, <1>5, <1>6 DEF Next

(* A daemon that polls can build the validator. *)
LEMMA ServedBuilds == IntakeInv /\ at = "validate" => Config!BuildsValidator(config)
<1> SUFFICES ASSUME IntakeInv, at = "validate" PROVE Config!BuildsValidator(config)
  OBVIOUS
<1>1. Config!Starts(config)
  BY DEF IntakeInv, ServesStarted
<1>2. QED
  BY <1>1 DEF Config!Starts, Config!BuildsValidator

(* What validating an envelope leads to. *)
LEMMA Validated ==
  ASSUME IntakeInv, Validate
  PROVE  /\ offer' = offer
         /\ \/ /\ at' = "mirror" /\ category' = category /\ step' = step
               /\ Validator!AcceptableButRepository(offer.env)
            \/ /\ at' = "report" /\ step' = "validate"
               /\ ~Validator!AcceptableButRepository(offer.env)
               /\ Validator!CategoryFits(offer.env, category')
               /\ category' \in OwnCategories \cup {Validator!Invalid}
            \/ /\ at' = "report" /\ step' = "validate"
               /\ category' = "INTERNAL_WORKER_ERROR"
               /\ offer.env["expected_deliverable"] = "nul"
<1> DEFINE missed == Validator!Missed(offer.env)
<1>1. \/ missed = {} /\ Continue("mirror")
      \/ \E i \in missed : /\ Validator!IsFirst(i, missed)
                           /\ Refuse(Validator!VerdictAt(i, offer.env))
  BY ServedBuilds DEF Validate
<1>2. CASE missed = {} /\ Continue("mirror")
  BY <1>2, MissedNothing DEF Continue
<1>3. CASE \E i \in missed : /\ Validator!IsFirst(i, missed)
                             /\ Refuse(Validator!VerdictAt(i, offer.env))
  <2>1. PICK i \in missed : /\ Validator!IsFirst(i, missed)
                            /\ Refuse(Validator!VerdictAt(i, offer.env))
    BY <1>3
  <2>2. \/ /\ ~Validator!AcceptableButRepository(offer.env)
           /\ Validator!CategoryFits(offer.env, Validator!VerdictAt(i, offer.env))
           /\ Validator!VerdictAt(i, offer.env) \in OwnCategories \cup {Validator!Invalid}
        \/ /\ Validator!VerdictAt(i, offer.env) = "raises"
           /\ offer.env["expected_deliverable"] = "nul"
    BY <2>1, FirstMissedFits
  <2>3. CASE Validator!VerdictAt(i, offer.env) = "raises"
    <3>1. offer.env["expected_deliverable"] = "nul"
      BY <2>2, <2>3 DEF OwnCategories, Validator!Invalid
    <3>2. ~rescued
      BY <2>1 DEF IntakeInv, RescueIsReport, Validate
    <3>3. QED
      BY <2>1, <2>3, <3>1, <3>2 DEF Refuse, Escapes, Report
  <2>4. CASE Validator!VerdictAt(i, offer.env) # "raises"
    <3>1. /\ at' = "report" /\ step' = "validate" /\ offer' = offer
          /\ category' = Validator!VerdictAt(i, offer.env)
      BY <2>1, <2>4 DEF Refuse, Report
    <3>2. QED
      BY <2>2, <2>4, <3>1
  <2>5. QED
    BY <2>3, <2>4
<1>4. QED
  BY <1>1, <1>2, <1>3

(* The categories reported, and what they say of the envelope. *)
LEMMA VerdictStep ==
  IntakeInv /\ Next =>
    /\ category' \in Categories \cup {""}
    /\ VerdictIsRight' /\ LateRefusalsKnown' /\ KeyIsPlain'
<1> SUFFICES ASSUME IntakeInv, Next
             PROVE  /\ category' \in Categories \cup {""}
                    /\ VerdictIsRight' /\ LateRefusalsKnown' /\ KeyIsPlain'
  OBVIOUS
<1>1. /\ category \in Categories \cup {""} /\ VerdictIsRight /\ LateRefusalsKnown
      /\ KeyIsPlain /\ RescueIsReport
  BY DEF IntakeInv, TypeOK
<1> USE DEF VerdictIsRight, LateRefusalsKnown, KeyIsPlain, NothingInHand, PutDown, Continue, Report,
            Escapes, Categories, cacheVars, handVars
<1>2. CASE (\E f \in Files : Edit(f)) \/ Load \/ Start \/ StartFails \/ Crash
             \/ (\E o \in Offers : TakeUp(o))
  BY <1>1, <1>2 DEF Edit, Load, Start, StartFails, Crash, TakeUp
<1>3. CASE \/ ClaimCached \/ ClaimFails
           \/ \E response \in {"granted", "empty"} : ClaimAnswered(response)
  BY <1>1, <1>3 DEF ClaimCached, ClaimFails, ClaimAnswered, AfterClaim
<1>4. CASE Validate
  BY <1>1, <1>4, Validated DEF OwnCategories, Validator!Invalid
<1>5. CASE Mirror
  BY <1>1, <1>5 DEF Mirror, KeyRefused, Validator!Acceptable, Validator!SafeRepository
<1>6. CASE Worktree
  <2>1. /\ offer.env["base_commit"] = "right" /\ ~rescued
        /\ offer.env["project_key"] \notin KeyRefused
    BY <1>1, <1>6 DEF Worktree, Validator!Acceptable,
       Validator!AcceptableButRepository, RescueIsReport
  <2>2. QED
    BY <1>1, <1>6, <2>1 DEF Worktree
<1>7. CASE Role
  BY <1>1, <1>7 DEF Role
<1>8. CASE CompleteCached \/ CompleteAnswered \/ CompleteFails
  BY <1>1, <1>8 DEF CompleteCached, CompleteAnswered, CompleteFails
<1>9. CASE ReportNameless \/ ReportCached \/ ReportAnswered \/ ReportFails
  BY <1>1, <1>9 DEF ReportNameless, ReportCached, ReportAnswered, ReportFails
<1>10. QED
  BY <1>2, <1>3, <1>4, <1>5, <1>6, <1>7, <1>8, <1>9 DEF Next

LEMMA IntakeInvStep == IntakeInv /\ [Next]_vars => IntakeInv'
<1> SUFFICES ASSUME IntakeInv, Next PROVE IntakeInv'
  BY IntakeStutter
<1>1. TypeOK'
  BY BoundsStep, HandStep, CountStep, FilesStep, VerdictStep DEF TypeOK, CacheTypes
<1>2. QED
  BY <1>1, RescueStep, StartedStep, CountStep, UnaskedStep, VerdictStep DEF IntakeInv

-------------------------------------------------------------------------------
(* The theorems *)

(* The inductive invariant holds: an answer is counted for what a cache    *)
(* holds, and what is past the validator is acceptable.                    *)
THEOREM IntakeInvariant == Spec => []IntakeInv
BY InitIntakeInv, IntakeInvStep, PTL DEF Spec

(* Every variable keeps to its type, and an offer is in hand just while a  *)
(* sequence runs.                                                          *)
THEOREM TypeCorrect == Spec => []TypeOK
<1>1. IntakeInv => TypeOK
  BY DEF IntakeInv
<1>2. QED
  BY <1>1, IntakeInvariant, PTL

(* Father answers no claim of an execution and no completion or failure of *)
(* an attempt twice between two starts of the daemon.                      *)
THEOREM OneAnswerEach == Spec => []OneRequestEach
<1>1. IntakeInv => OneRequestEach
  <2> SUFFICES ASSUME IntakeInv PROVE OneRequestEach
    OBVIOUS
  <2>1. CachesCount
    BY DEF IntakeInv
  <2>2. \A e \in Executions : answers[<<"claim", e>>] \in {0, 1}
    BY <2>1 DEF CachesCount
  <2>3. \A k \in Keys : answers[<<"complete", k>>] \in {0, 1} /\ answers[<<"fail", k>>] \in {0, 1}
    BY <2>1 DEF CachesCount
  <2>4. \A r \in Requests : answers[r] \in {0, 1}
    BY <2>2, <2>3 DEF Requests
  <2>5. QED
    BY <2>4 DEF OneRequestEach
<1>2. QED
  BY <1>1, IntakeInvariant, PTL

(* What section 13 rejects for its repository's path gets no further than  *)
(* the mirror, all else it rejects no further than the validator, which    *)
(* refuses with the category of what is wrong.                             *)
THEOREM VerdictsAreRight == Spec => []VerdictIsRight
<1>1. IntakeInv => VerdictIsRight
  BY DEF IntakeInv
<1>2. QED
  BY <1>1, IntakeInvariant, PTL

(* Of the checks up to the worktree those that end in an exception without *)
(* a category are three, each with the values that fail it.                *)
THEOREM OnlyNamesFailLate == Spec => []LateRefusalsKnown
<1>1. IntakeInv => LateRefusalsKnown
  BY DEF IntakeInv
<1>2. QED
  BY <1>1, IntakeInvariant, PTL

(* An offer Father hears nothing about is one claimed before, and answered *)
(* empty then, or names no role, or has been completed or failed before.   *)
THEOREM SilenceExplained == Spec => SilenceOnlyWhen
<1> DEFINE Silent ==
      at \notin {"down", "starting", "idle"} /\ at' = "idle" /\ ~asked' =>
        \/ claimed[offer.execution] = "empty"
        \/ /\ claimed[offer.execution] = "granted"
           /\ \/ Missing(offer, "target_role")
              \/ \E a \in Attempts \cup {NoAttempt} :
                   /\ <<offer.execution, a>> \in completed \cup failed
                   /\ a = offer.attempt \/ Missing(offer, "attempt_id")
<1>1. IntakeInv /\ [Next]_vars => [Silent]_vars
  <2> SUFFICES ASSUME IntakeInv, Next, at \notin {"down", "starting", "idle"}, at' = "idle",
                      ~asked'
               PROVE  \/ claimed[offer.execution] = "empty"
                      \/ /\ claimed[offer.execution] = "granted"
                         /\ \/ Missing(offer, "target_role")
                            \/ \E a \in Attempts \cup {NoAttempt} :
                                 /\ <<offer.execution, a>> \in completed \cup failed
                                 /\ a = offer.attempt \/ Missing(offer, "attempt_id")
    OBVIOUS
  <2>1. \/ ClaimCached \/ CompleteCached \/ ReportNameless \/ ReportCached
    BY DEF IntakeInv, RescueIsReport, Next, Edit, Load, Start, StartFails, TakeUp, ClaimFails,
       ClaimAnswered, Validate, Mirror, Worktree, Role, CompleteAnswered, CompleteFails,
       ReportAnswered, ReportFails, Crash, PutDown, Continue, Report, Refuse, Escapes, Answered
  <2>2. ~asked /\ UnaskedIsClaimed /\ offer \in Offers
    BY <2>1, HoldsOffer DEF ClaimCached, CompleteCached, ReportNameless, ReportCached, IntakeInv
  <2>3. CASE ClaimCached
    BY <2>3 DEF ClaimCached, AfterClaim, Continue
  <2>4. CASE ReportNameless
    BY <2>2, <2>4 DEF ReportNameless, UnaskedIsClaimed
  <2>5. CASE CompleteCached \/ ReportCached
    <3>1. Key(offer) \in completed \cup failed /\ claimed[offer.execution] = "granted"
      BY <2>2, <2>5 DEF CompleteCached, ReportCached, UnaskedIsClaimed
    <3>2. offer.attempt \in Attempts
      BY <2>2, IntakeAssumption DEF IntakeAssumption
    <3>3. QED
      BY <3>1, <3>2 DEF Key
  <2>6. QED
    BY <2>1, <2>3, <2>4, <2>5
<1>2. QED
  BY <1>1, IntakeInvariant, PTL DEF Spec, SilenceOnlyWhen

===============================================================================
