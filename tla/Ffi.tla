-------------------------------- MODULE Ffi --------------------------------
(***************************************************************************)
(* The C ABI of snapdir-ffi: host threads call its entry points, each of   *)
(* which marshals its C strings, calls snapdir-api and hands back a string *)
(* or a status, and an error through an out-parameter.  What is modelled   *)
(* is who owns which allocation, what the error slot holds and when the    *)
(* shared runtime is built; what the API does below is any outcome.        *)
(*                                                                         *)
(* A C string is "null", "undecodable" (not UTF-8), "malformed" (no id or  *)
(* store URI, where one is wanted) or "fine".  Its value is chosen when it *)
(* is read.                                                                *)
(***************************************************************************)
EXTENDS Naturals, Sequences, FiniteSets

CONSTANTS
    Thread,     \* threads of the host program
    Hosts,      \* the programs: which entry points each thread calls, and
                \* how many times it calls one
    MaxUris     \* store URIs on each side of a diff

ASSUME FfiAssumptions ==
    /\ Hosts \subseteq [Thread -> [entries : SUBSET STRING, calls : Nat]]
    /\ MaxUris \in Nat

VARIABLES
    host,     \* the program
    rt,       \* the OnceLock of the runtime: "none", "built" or its builder
    halted,   \* the process has aborted
    call,     \* thread -> the call it is in, or Idle
    slot,     \* thread -> the variable its calls' err_out points to
    errors,   \* thread -> SnapdirErrors allocated for it and not freed
    strings,  \* thread -> strings allocated for it and not freed
    calls,    \* thread -> calls made
    ignored   \* thread -> optional parameters dropped as undecodable

runtime == <<host, rt, halted>>
hostVars == <<slot, errors, strings, calls, ignored>>
ffiVars == <<runtime, call, hostVars>>

NoError == [code |-> "", from |-> 0]
Idle == [fn |-> "none", pc |-> "idle", todo |-> << >>, errp |-> FALSE,
         bad |-> {}, given |-> {}, dropped |-> 0, ret |-> "none", check |-> "err"]

-----------------------------------------------------------------------------
(* The entry points: what each does with its parameters, in its order.     *)

Step(do, param) == [do |-> do, param |-> param]
Need(p) == Step("need", p)        \* required: NULL and non-UTF-8 are errors
Opt(p) == Step("opt", p)          \* NULL is "unset"
FromHex(p) == Step("id", p)       \* SnapshotId::from_hex, of what was given
Parse(p) == Step("uri", p)        \* StoreUri::parse
Uris(p) == Step("uris", p)        \* an array of store URIs up to a NULL
Source == Step("source", "source_id")
Block == Step("runtime", "")      \* shared_rt().block_on

snapdir_id == <<Need("path"), Opt("exclude"), Opt("cache_dir")>>
snapdir_manifest ==
    <<Need("path"), Opt("exclude"), Opt("checksum_bin"), Opt("cache_dir"), Opt("catalog")>>
snapdir_id_from_manifest_text == <<Need("manifest_text")>>
snapdir_stage == <<Need("path"), Opt("cache_dir")>>
snapdir_push_blocking ==
    <<Need("store_uri"), Parse("store_uri"), Opt("limit_rate"), Opt("cache_dir"),
      Opt("source_id"), Opt("source_path"), Source, Block>>
snapdir_fetch_blocking ==
    <<Need("id"), Need("store_uri"), FromHex("id"), Parse("store_uri"), Block>>
snapdir_pull_blocking ==
    <<Need("id"), Need("store_uri"), Need("dest_path"), FromHex("id"),
      Parse("store_uri"), Block>>
snapdir_checkout_blocking == <<Need("id"), Need("dest_path"), FromHex("id"), Block>>
snapdir_sync_blocking ==
    <<Need("id"), Need("src_uri"), Need("dst_uri"), FromHex("id"),
      Parse("src_uri"), Parse("dst_uri"), Block>>
snapdir_verify_blocking ==
    <<Need("id"), Need("store_uri"), FromHex("id"), Parse("store_uri"), Block>>
snapdir_size == <<Need("store_uri"), Parse("store_uri"), Opt("id"), FromHex("id"), Block>>
snapdir_diff_json ==
    <<Uris("from_uris"), Uris("to_uris"), Opt("id"), FromHex("id"), Opt("on_conflict"), Block>>
snapdir_locations_json == << >>
snapdir_ancestors_json == <<Need("id"), FromHex("id")>>
snapdir_revisions_json == <<Need("location")>>
snapdir_verify_cache == <<Need("cache_dir")>>
snapdir_flush_cache == <<Need("cache_dir")>>
snapdir_init == <<Block>>

Script(fn) ==
    CASE fn = "id" -> snapdir_id
      [] fn = "manifest" -> snapdir_manifest
      [] fn = "id_from_manifest_text" -> snapdir_id_from_manifest_text
      [] fn = "stage" -> snapdir_stage
      [] fn = "push" -> snapdir_push_blocking
      [] fn = "fetch" -> snapdir_fetch_blocking
      [] fn = "pull" -> snapdir_pull_blocking
      [] fn = "checkout" -> snapdir_checkout_blocking
      [] fn = "sync" -> snapdir_sync_blocking
      [] fn = "verify" -> snapdir_verify_blocking
      [] fn = "size" -> snapdir_size
      [] fn = "diff" -> snapdir_diff_json
      [] fn = "locations" -> snapdir_locations_json
      [] fn = "ancestors" -> snapdir_ancestors_json
      [] fn = "revisions" -> snapdir_revisions_json
      [] fn = "verify_cache" -> snapdir_verify_cache
      [] fn = "flush_cache" -> snapdir_flush_cache
      [] fn = "init" -> snapdir_init

\* Those that return an owned string; size returns a struct, the rest a status.
ReturnsString ==
    {"id", "manifest", "id_from_manifest_text", "stage", "push", "diff",
     "locations", "ancestors", "revisions"}

\* The stable codes an API call may answer with (SnapdirError::code, and the
\* conversion of store errors), and "" when it succeeds.
ApiCodes(fn) ==
    CASE fn \in {"id_from_manifest_text", "init"} -> {""}
      [] fn \in {"id", "manifest", "stage"} -> {"", "IO_ERROR", "IN_FLUX"}
      [] fn \in {"locations", "ancestors", "revisions"} -> {"", "CATALOG_ERROR"}
      [] fn = "diff" -> {"", "STORE_ERROR", "CONFLICT"}
      [] OTHER -> {"", "IO_ERROR", "STORE_ERROR", "HASH_MISMATCH"}

-----------------------------------------------------------------------------
FfiInit ==
    /\ host \in Hosts /\ rt = "none" /\ halted = FALSE
    /\ call = [t \in Thread |-> Idle]
    /\ slot = [t \in Thread |-> NoError]
    /\ errors = [t \in Thread |-> 0] /\ strings = [t \in Thread |-> 0]
    /\ calls = [t \in Thread |-> 0] /\ ignored = [t \in Thread |-> 0]

In(t, pc) == ~halted /\ call[t].pc = pc
Doing(t, do) == In(t, "body") /\ call[t].todo # << >> /\ Head(call[t].todo).do = do
Param(t) == Head(call[t].todo).param

\* A host thread calls an entry point with err_out NULL or pointing to its
\* variable; it will look at that variable or at the returned value.
Call(t) ==
    /\ ~halted /\ call[t] = Idle /\ calls[t] < host[t].calls
    /\ \E fn \in host[t].entries, errp \in BOOLEAN, check \in {"err", "ret"} :
         /\ check = "err" => errp
         /\ fn = "size" => check = "err"
         /\ fn = "init" => ~errp
         /\ call' = [call EXCEPT ![t] = [Idle EXCEPT !.fn = fn, !.pc = "body",
                       !.todo = Script(fn), !.errp = errp, !.check = check]]
    /\ calls' = [calls EXCEPT ![t] = @ + 1]
    /\ UNCHANGED <<runtime, slot, errors, strings, ignored>>

\* write_error_out and write_panic_out: a NULL err_out drops the error, and
\* what the variable held is overwritten.
write_error_out(t, code) ==
    IF call[t].errp
    THEN /\ slot' = [slot EXCEPT ![t] = [code |-> code, from |-> calls[t]]]
         /\ errors' = [errors EXCEPT ![t] = @ + 1]
    ELSE UNCHANGED <<slot, errors>>

Return(t, ret) == call' = [call EXCEPT ![t].pc = "ret", ![t].ret = ret, ![t].todo = << >>,
                                       ![t].bad = {}, ![t].given = {}]
FailWith(t, code) == write_error_out(t, code) /\ Return(t, "fail")
Advance(t, bad, given) ==
    call' = [call EXCEPT ![t].todo = Tail(@), ![t].bad = @ \cup bad, ![t].given = @ \cup given]

\* Only what a later step parses can be malformed.
Parsed(t, p) ==
    \E i \in 2..Len(call[t].todo) :
      call[t].todo[i].do \in {"id", "uri", "source"} /\ call[t].todo[i].param = p
Values(t, p) == {"fine"} \cup IF Parsed(t, p) THEN {"malformed"} ELSE {}

Decoded(t, v) == Advance(t, IF v = "malformed" THEN {Param(t)} ELSE {}, {Param(t)})

\* Mutant: the second error is written whatever the first one did.
RequiredTwice(t) ==
    /\ Doing(t, "need")
    /\ \/ \E v \in Values(t, Param(t)) : Decoded(t, v) /\ UNCHANGED <<slot, errors>>
       \/ /\ Return(t, "fail")
          /\ IF call[t].errp
             THEN /\ slot' = [slot EXCEPT ![t] = [code |-> "IO_ERROR", from |-> calls[t]]]
                  /\ errors' = [errors EXCEPT ![t] = @ + 2]
             ELSE UNCHANGED <<slot, errors>>
    /\ UNCHANGED <<runtime, strings, calls, ignored>>

\* A required parameter: cstr_to_str reports what is not UTF-8; for NULL the
\* entry point adds an error of its own, unless the variable holds one.
Required(t) ==
    /\ Doing(t, "need")
    /\ \/ \E v \in Values(t, Param(t)) : Decoded(t, v) /\ UNCHANGED <<slot, errors>>
       \/ FailWith(t, "IO_ERROR")
       \/ IF slot[t] = NoError
          THEN FailWith(t, "IO_ERROR")
          ELSE Return(t, "fail") /\ UNCHANGED <<slot, errors>>
    /\ UNCHANGED <<runtime, strings, calls, ignored>>

Drop(t) ==
    /\ call' = [call EXCEPT ![t].todo = Tail(@), ![t].dropped = @ + 1]
    /\ ignored' = [ignored EXCEPT ![t] = @ + 1]

\* Mutant: what is not UTF-8 is taken for NULL without a word.
OptionalSilent(t) ==
    /\ Doing(t, "opt")
    /\ \/ \E v \in Values(t, Param(t)) : Decoded(t, v) /\ UNCHANGED <<slot, errors, ignored>>
       \/ Advance(t, {}, {}) /\ UNCHANGED <<slot, errors, ignored>>
       \/ Drop(t) /\ UNCHANGED <<slot, errors>>
    /\ UNCHANGED <<runtime, strings, calls>>

\* An optional parameter: what is not UTF-8 is reported and taken for unset.
Optional(t) ==
    /\ Doing(t, "opt")
    /\ \/ \E v \in Values(t, Param(t)) : Decoded(t, v) /\ UNCHANGED <<slot, errors, ignored>>
       \/ Advance(t, {}, {}) /\ UNCHANGED <<slot, errors, ignored>>
       \/ Drop(t) /\ write_error_out(t, "IO_ERROR")
    /\ UNCHANGED <<runtime, strings, calls>>

from_hex(t) ==
    /\ Doing(t, "id")
    /\ IF Param(t) \in call[t].bad
       THEN FailWith(t, "INVALID_ID")
       ELSE Advance(t, {}, {}) /\ UNCHANGED <<slot, errors>>
    /\ UNCHANGED <<runtime, strings, calls, ignored>>

parse_uri(t) ==
    /\ Doing(t, "uri")
    /\ IF Param(t) \in call[t].bad
       THEN FailWith(t, "INVALID_STORE")
       ELSE Advance(t, {}, {}) /\ UNCHANGED <<slot, errors>>
    /\ UNCHANGED <<runtime, strings, calls, ignored>>

\* The arrays of a diff: the first element that is not UTF-8 or no store URI
\* ends the call.
ParseUris(t) ==
    /\ Doing(t, "uris")
    /\ \E n \in 0..MaxUris :
         \/ Advance(t, {}, {}) /\ UNCHANGED <<slot, errors>>
         \/ n > 0 /\ FailWith(t, "IO_ERROR")
         \/ n > 0 /\ FailWith(t, "INVALID_STORE")
    /\ UNCHANGED <<runtime, strings, calls, ignored>>

\* push: the id if there is one, else the path, else an error.
ChooseSource(t) ==
    /\ Doing(t, "source")
    /\ IF "source_id" \in call[t].bad THEN FailWith(t, "INVALID_ID")
       ELSE IF call[t].given \cap {"source_id", "source_path"} = {}
            THEN FailWith(t, "IO_ERROR")
       ELSE Advance(t, {}, {}) /\ UNCHANGED <<slot, errors>>
    /\ UNCHANGED <<runtime, strings, calls, ignored>>

-----------------------------------------------------------------------------
(* The shared runtime. *)

\* OnceLock::get_or_init: one thread builds it and the others wait.
shared_rt(t) ==
    /\ Doing(t, "runtime")
    /\ \/ rt = "built" /\ Advance(t, {}, {}) /\ UNCHANGED rt
       \/ rt = "none" /\ rt' = t /\ UNCHANGED call
    /\ UNCHANGED <<host, halted, hostVars>>

Built(t) ==
    /\ Doing(t, "runtime") /\ rt = t
    /\ rt' = "built" /\ Advance(t, {}, {})
    /\ UNCHANGED <<host, halted, hostVars>>

\* Mutant: the lock stays taken when the build panics.
BuildPanicsLocked(t) ==
    /\ Doing(t, "runtime") /\ rt = t /\ call[t].fn # "init"
    /\ FailWith(t, "INTERNAL")
    /\ UNCHANGED <<runtime, strings, calls, ignored>>

\* The build panics: the lock stays empty; snapdir_init aborts the process,
\* every other entry point catches the panic.
BuildPanics(t) ==
    /\ Doing(t, "runtime") /\ rt = t
    /\ rt' = "none"
    /\ IF call[t].fn = "init"
       THEN halted' = TRUE /\ UNCHANGED <<call, slot, errors>>
       ELSE FailWith(t, "INTERNAL") /\ UNCHANGED halted
    /\ UNCHANGED <<host, strings, calls, ignored>>

-----------------------------------------------------------------------------
(* The API call, its result, and what the host does with it. *)

\* Whatever panics below becomes INTERNAL.
catch_entry(t) ==
    /\ In(t, "body") /\ call[t].todo = << >> /\ call[t].fn # "init"
    /\ FailWith(t, "INTERNAL")
    /\ UNCHANGED <<runtime, strings, calls, ignored>>

\* A string of a successful call (hex, JSON, manifest text) never holds a NUL.
ApiResult(t) ==
    /\ In(t, "body") /\ call[t].todo = << >>
    /\ \E code \in ApiCodes(call[t].fn) :
         IF code = ""
         THEN /\ Return(t, "ok")
              /\ strings' = [strings EXCEPT ![t] = @ + IF call[t].fn \in ReturnsString THEN 1 ELSE 0]
              /\ UNCHANGED <<slot, errors>>
         ELSE FailWith(t, code) /\ UNCHANGED strings
    /\ UNCHANGED <<runtime, calls, ignored>>

HasString(t) == call[t].ret = "ok" /\ call[t].fn \in ReturnsString

snapdir_string_free(t) == strings' = [strings EXCEPT ![t] = @ - 1]
snapdir_error_free(t) ==
    /\ errors' = [errors EXCEPT ![t] = @ - 1]
    /\ slot' = [slot EXCEPT ![t] = NoError]

\* The host: "*err_out == NULL => success; non-NULL => failure", or a NULL or
\* negative return; a failure has no string, a success no error.
HostReads(t) ==
    LET c == call[t]
        failed == IF c.check = "err" THEN slot[t] # NoError ELSE c.ret = "fail"
    IN /\ In(t, "ret")
       /\ call' = [call EXCEPT ![t] = Idle]
       /\ IF failed
          THEN /\ IF c.errp /\ slot[t] # NoError THEN snapdir_error_free(t)
                                                 ELSE UNCHANGED <<slot, errors>>
               /\ UNCHANGED strings
          ELSE /\ IF HasString(t) THEN snapdir_string_free(t) ELSE UNCHANGED strings
               /\ UNCHANGED <<slot, errors>>
       /\ UNCHANGED <<runtime, calls, ignored>>

-----------------------------------------------------------------------------
Body(t) ==
    \/ Required(t) \/ Optional(t) \/ from_hex(t) \/ parse_uri(t) \/ ParseUris(t)
    \/ ChooseSource(t) \/ shared_rt(t) \/ Built(t) \/ BuildPanics(t)
    \/ ApiResult(t) \/ catch_entry(t)

FfiNext == \E t \in Thread : Call(t) \/ Body(t) \/ HostReads(t)
FfiSpec == /\ FfiInit /\ [][FfiNext]_ffiVars
           /\ \A t \in Thread : WF_ffiVars(Body(t)) /\ WF_ffiVars(HostReads(t))

-----------------------------------------------------------------------------
(* Types of the state; a free never finds nothing to free. *)
FfiTypeOK ==
    /\ rt \in {"none", "built"} \cup Thread /\ halted \in BOOLEAN
    /\ errors \in [Thread -> Nat] /\ strings \in [Thread -> Nat]
    /\ calls \in [Thread -> Nat] /\ ignored \in [Thread -> Nat]
    /\ \A t \in Thread : slot[t] # NoError => errors[t] > 0

Returned(t, ret) == call[t].pc = "ret" /\ call[t].ret = ret

(* A failure always comes with an error, and with the error of this very   *)
(* call, unless the thread has once passed an optional string that is not  *)
(* UTF-8: only an error left in the variable by a call that succeeded can  *)
(* stand in the way (write_error_out, and the entry points' NULL checks).  *)
(* A success that dropped a parameter can be told from one that did not:   *)
(* the error variable says so (cstr_to_str).  With the types of the state. *)
ErrorsExplained ==
    /\ FfiTypeOK
    /\ \A t \in Thread : call[t].errp =>
         /\ Returned(t, "fail") =>
              slot[t] # NoError /\ (slot[t].from = calls[t] \/ ignored[t] > 0)
         /\ Returned(t, "ok") => (slot[t].from = calls[t]) = (call[t].dropped > 0)

(* Nothing leaks through a host that follows the contract, except what the *)
(* dropped parameters cost: each loses at most one error and, through the  *)
(* contract's reading of a success with an error, one string.              *)
LeaksBounded ==
    \A t \in Thread :
      call[t] = Idle =>
        /\ errors[t] <= ignored[t]
        /\ strings[t] <= ignored[t]

(* Every call returns, also when the build of the runtime panics under     *)
(* threads that wait for it, unless snapdir_init aborts the process.       *)
CallsReturn == \A t \in Thread : call[t].pc = "body" ~> (call[t].pc # "body" \/ halted)

=============================================================================
