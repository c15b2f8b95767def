-------------------------- MODULE EnvelopeValidator --------------------------
(***************************************************************************)
(* validate_envelope: one table of the fields it looks at, in its order,   *)
(* and what it asks of each.  An envelope is a function from these fields  *)
(* to kinds of values: "right" is what a field should hold (the supported  *)
(* constant, this worker's id, a full SHA, a path below the root, a mode,  *)
(* a boolean, a mapping, a plain name), the rest are ways to miss that.    *)
(***************************************************************************)
EXTENDS Naturals, Sequences

Strings ==
  {"right", "other", "empty", "piped",   \* a plain text, nothing, a shell pipeline
   "odd",                                \* a file name with a blank, "..", a leading "-" or "."
   "slashed",                            \* a text with a slash
   "here",                               \* "."
   "nul",                                \* a text with a NUL, which no path can hold
   "absolute", "upward", "outside"}      \* paths that leave the root
Values == Strings \cup {"absent", "list", "flag", "block"}

Row(field, rule) == [field |-> field, rule |-> rule]

Rows ==
  <<Row("target_role", "name"),
    \* compared with what this worker supports
    Row("schema_version", "schema_version"), Row("worker_id", "worker_id"),
    Row("model_source", "model_source"), Row("model_alias", "name"),
    Row("client", "client"),
    \* identification
    Row("execution_id", "name"), Row("job_id", "name"), Row("handoff_id", "name"),
    Row("attempt_id", "name"), Row("flow_key", "name"), Row("step_key", "name"),
    Row("source_role", "name"),
    \* repository
    Row("repository", "block"), Row("project_key", "name"), Row("clone_url", "name"),
    Row("base_commit", "sha"),
    \* handoff
    Row("handoff", "block"), Row("content", "document"),
    Row("governance_content", "document"), Row("expected_deliverable", "path"),
    \* result contract
    Row("result_contract", "block"), Row("mode", "mode"), Row("tests_required", "flag"),
    Row("local_result_commit_required", "flag")>>

Fields == {Rows[i].field : i \in DOMAIN Rows}

(* The error classes a rule of its own raises; the rest are general. *)
Category(rule) ==
  CASE rule = "schema_version" -> "UNSUPPORTED_SCHEMA_VERSION"
    [] rule = "worker_id"      -> "WORKER_MISMATCH"
    [] rule = "model_source"   -> "UNSUPPORTED_MODEL_SOURCE"
    [] rule = "client"         -> "UNSUPPORTED_CLIENT"
    [] OTHER                   -> "INVALID_EXECUTION_ENVELOPE"

Invalid == "INVALID_EXECUTION_ENVELOPE"

(* Of a text that is no shell pipeline, and then of any value: fine, or    *)
(* the category that is raised, or an exception that has none: resolving a *)
(* path may raise what _validate_deliverable_path does not catch.          *)
TextVerdict(rule, v) ==
  CASE rule = "name" -> IF v # "empty" THEN "fine" ELSE Invalid
    [] rule = "path" ->
         IF v = "nul" THEN "raises"
         ELSE IF v \in {"empty", "absolute", "upward", "outside"} THEN Invalid
         ELSE "fine"
    [] OTHER         -> IF v = "right" THEN "fine" ELSE Category(rule)

Verdict(rule, v) ==
  CASE rule = "block"    -> IF v = "block" THEN "fine" ELSE Invalid
    [] rule = "flag"     -> IF v = "flag" THEN "fine" ELSE Invalid
    [] rule = "document" -> IF v \in Strings THEN "fine" ELSE Invalid
    [] OTHER             ->
         IF v \notin Strings \ {"piped"} THEN Invalid ELSE TextVerdict(rule, v)

(* validate_envelope: the first row whose rule is not met raises. *)
VerdictAt(i, env) == Verdict(Rows[i].rule, env[Rows[i].field])

Missed(env) == {i \in DOMAIN Rows : VerdictAt(i, env) # "fine"}

(* Mutant of IsFirst: what is found last is reported. *)
IsLast(i, missed) == i \in missed /\ \A j \in missed : j <= i

IsFirst(i, missed) == i \in missed /\ \A j \in missed : i <= j

-------------------------------------------------------------------------------
(* The list of section 13, read as a definition of its own. *)

Clean(v) == v \in Strings \ {"piped"}

Name(v) == Clean(v) /\ v # "empty"

(* The bare mirror is at a path made from the project key. *)
SafeRepository(env) ==
  env["project_key"] \notin {"slashed", "here", "absolute", "upward", "nul"}

SafeDeliverable(env) ==
  env["expected_deliverable"] \notin {"absolute", "upward", "outside", "nul"}

(* All but the repository's path, which validate_envelope leaves to the    *)
(* git layer.                                                              *)
AcceptableButRepository(env) ==
  /\ \A f \in {"target_role", "model_alias", "execution_id", "job_id", "handoff_id",
               "attempt_id", "flow_key", "step_key", "source_role", "project_key",
               "clone_url", "expected_deliverable"} : Name(env[f])
  /\ \A f \in {"schema_version", "worker_id", "model_source", "client",
               "base_commit", "mode"} : env[f] = "right"
  /\ \A f \in {"repository", "handoff", "result_contract"} : env[f] = "block"
  /\ {env["content"], env["governance_content"]} \subseteq Strings
  /\ SafeDeliverable(env)
  /\ env["tests_required"] = "flag" /\ env["local_result_commit_required"] = "flag"

Acceptable(env) == AcceptableButRepository(env) /\ SafeRepository(env)

(* What must have been in order before a field's own category is raised: a *)
(* foreign worker is only called so in an envelope this one can read.      *)
CategoryFits(env, category) ==
  LET wrong(f) == Clean(env[f]) /\ env[f] # "right"
      right(fs) == \A f \in fs : env[f] = "right"
  IN CASE category = "UNSUPPORTED_SCHEMA_VERSION" ->
            Name(env["target_role"]) /\ wrong("schema_version")
       [] category = "WORKER_MISMATCH" ->
            Name(env["target_role"]) /\ right({"schema_version"}) /\ wrong("worker_id")
       [] category = "UNSUPPORTED_MODEL_SOURCE" ->
            right({"schema_version", "worker_id"}) /\ wrong("model_source")
       [] category = "UNSUPPORTED_CLIENT" ->
            /\ right({"schema_version", "worker_id", "model_source"})
            /\ Name(env["model_alias"]) /\ wrong("client")
       [] OTHER -> ~AcceptableButRepository(env)
===============================================================================
