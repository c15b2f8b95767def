---------------------------- MODULE WorkerConfig -----------------------------
(***************************************************************************)
(* config.py and the constructors _main calls with what it loaded.  A      *)
(* worker.yaml is a record: shape, what the file is; section[s], what      *)
(* stands under a top-level name; value[k], what stands at a field.  Of a  *)
(* value only its kind matters; "unset" is a text that refers to an        *)
(* environment variable that is not there.                                 *)
(***************************************************************************)
EXTENDS Sequences

Strings == {"text", "empty"}
Numerals == {"positive", "zero", "negative"}
Values == Strings \cup Numerals \cup {"unset", "bool", "null", "absent"}

Texts(keys) == [k \in keys |-> "str"]
Numbers(keys) == [k \in keys |-> "int"]

(* _parse_worker, ..., _parse_retention: the fields and how each is read. *)
Fields ==
  [worker |->
     [id |-> "str", display_name |-> "str", max_parallel_executions |-> "int",
      poll_interval_seconds |-> "int", heartbeat_interval_seconds |-> "int",
      execution_timeout_seconds |-> "optionalInt"],
   father |-> [base_url |-> "str", request_timeout_seconds |-> "int"],
   network |-> Texts({"type", "expected_father_host"}),
   allocator |->
     [command |-> "str", client |-> "str", config_root |-> "str",
      base_config |-> "optionalStr"],
   paths |->
     Texts({"repository_root", "worktree_root", "artifact_root", "log_root",
            "opencode_config_root"}),
   retention |->
     Numbers({"successful_worktree_hours", "failed_worktree_days",
              "artifact_days", "log_days"})]

Sections == DOMAIN Fields

Keys == UNION {{<<s, k>> : k \in DOMAIN Fields[s]} : s \in Sections}

(* _required_str, _required_int, _optional_str, _optional_int *)
Fits(kind, v) ==
  CASE kind = "str"         -> v \in Strings
    [] kind = "int"         -> v \in Numerals
    [] kind = "optionalStr" -> v \in Strings \cup {"null", "absent"}
    [] kind = "optionalInt" -> v \in Numerals \cup {"null", "absent"}

(* _expand_env goes over the whole mapping before anything is parsed. *)
Expands(file) ==
  \A k \in Keys : file.section[k[1]] = "mapping" => file.value[k] # "unset"

(* load_config returns *)
Loads(file) ==
  /\ file.shape = "mapping"
  /\ Expands(file)
  /\ \A s \in Sections : file.section[s] = "mapping"
  /\ \A k \in Keys : Fits(Fields[k[1]][k[2]], file.value[k])

(* Mutant of Starts: the client takes any worker id. *)
StartsNameless(file) ==
  /\ \A k \in {<<"father", "base_url">>, <<"allocator", "command">>,
               <<"paths", "repository_root">>, <<"paths", "worktree_root">>} :
       file.value[k] # "empty"
  /\ file.value[<<"father", "request_timeout_seconds">>] = "positive"

(* FatherClient, AllocatorAdapter and GitWorkspace can be built from it. *)
Starts(file) ==
  /\ \A k \in {<<"father", "base_url">>, <<"worker", "id">>,
               <<"allocator", "command">>,
               <<"paths", "repository_root">>, <<"paths", "worktree_root">>} :
       file.value[k] # "empty"
  /\ file.value[<<"father", "request_timeout_seconds">>] = "positive"

(* ValidatorConfig can be built from it: the root is made absolute first,  *)
(* the allow-lists are constants.                                          *)
BuildsValidator(file) == file.value[<<"worker", "id">>] # "empty"
===============================================================================
