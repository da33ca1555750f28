------------------------------ MODULE Messages ------------------------------
(***************************************************************************)
(* The messages of proto/messages.hpp and their conversions.               *)
(*                                                                         *)
(* A struct is a record with its type.  A JSON value is a pair of a kind   *)
(* and a value, a JSON object a function from some of the fields to JSON   *)
(* values.  Confidences, thresholds, times and texts for the user are left *)
(* out: nothing here depends on them.                                      *)
(***************************************************************************)
EXTENDS Integers, Sequences

CONSTANT Width      \* uid_t and uint32_t hold 0 .. Width - 1; 2^32 in the program

ASSUME WidthAssumption == Width \in Nat \ {0}

Uids == 0 .. Width - 1

Str(s) == <<"str", s>>
Num(n) == <<"num", n>>
Bool(b) == <<"bool", b>>

\* j.at(field), which throws when the field is missing.
Required == <<"at", 0>>

\* For every type its fields; a field read behind j.contains has the initializer of the
\* struct's member.
Schema ==
    [auth            |-> [uid |-> Required, timeout_ms |-> Num(2000), request_id |-> Str("")],
     test            |-> [timeout_ms |-> Num(3000), request_id |-> Str("")],
     enroll_start    |-> [label |-> Required, uid |-> Num(0), min_frames |-> Num(5),
                          max_frames |-> Num(15), request_id |-> Str("")],
     enroll_frame    |-> [session |-> Required, request_id |-> Str("")],
     enroll_finish   |-> [session |-> Required, request_id |-> Str("")],
     list            |-> [uid |-> Num(0), request_id |-> Str("")],
     remove          |-> [label |-> Required, uid |-> Num(0), request_id |-> Str("")],
     auth_result     |-> [request_id |-> Required, success |-> Required, reason |-> Required,
                          matched_label |-> Str("")],
     test_result     |-> [request_id |-> Required, best_match |-> Str(""),
                          would_auth |-> Bool(FALSE), reason |-> Str("ok")],
     enroll_progress |-> [session |-> Required, request_id |-> Required, done |-> Bool(FALSE)],
     enroll_done     |-> [label |-> Required, request_id |-> Required],
     list_result     |-> [request_id |-> Required, enrollments |-> <<"array", {}>>],
     remove_result   |-> [request_id |-> Required, ok |-> Bool(FALSE)],
     error           |-> [request_id |-> Required, reason |-> Str("internal_error")]]

RequestTypes == {"auth", "test", "enroll_start", "enroll_frame", "enroll_finish", "list", "remove"}

Kind ==
    [type |-> "str", request_id |-> "str", label |-> "str", session |-> "str", reason |-> "str",
     matched_label |-> "str", best_match |-> "str",
     uid |-> "num", timeout_ms |-> "num", min_frames |-> "num", max_frames |-> "num",
     success |-> "bool", would_auth |-> "bool", done |-> "bool", ok |-> "bool",
     enrollments |-> "array"]

\* A struct as a JSON object: every to_json writes every member.
to_json(r) == [f \in DOMAIN r |-> <<Kind[f], r[f]>>]

\* get<T>() converts booleans to numbers, too; every other mismatch throws.
Fits(f, v) == v[1] = Kind[f] \/ (Kind[f] = "num" /\ v[1] = "bool")

\* The number an integer member is given.  A uid keeps its low bits.
Integer(f, v) ==
    LET n == IF v[1] = "bool" THEN IF v[2] THEN 1 ELSE 0 ELSE v[2]
    IN IF f = "uid" THEN n % Width ELSE n

\* from_json of type t does not throw.
Converts(j, t) ==
    \A f \in DOMAIN Schema[t] :
        IF f \in DOMAIN j THEN Fits(f, j[f]) ELSE Schema[t][f] # Required

from_json(j, t) ==
    [f \in DOMAIN Schema[t] \cup {"type"} |->
        CASE f = "type" -> t
          [] f # "type" /\ f \notin DOMAIN j -> Schema[t][f][2]
          [] OTHER -> IF Kind[f] = "num" THEN Integer(f, j[f]) ELSE j[f][2]]

\* What parse_request asks of the type, and whether it throws.
Parses(j) ==
    /\ "type" \in DOMAIN j /\ j["type"][1] = "str"
    /\ j["type"][2] \in RequestTypes
    /\ Converts(j, j["type"][2])

parse_request(j) == from_json(j, j["type"][2])

-----------------------------------------------------------------------------
(* The PAM module does not parse: it looks for the first place where the quoted name of
   a key occurs in the text. *)

\* dump() writes the keys of an object in alphabetical order.
KeyOrder ==
    <<"best_match", "done", "enrollments", "label", "matched_label", "ok", "reason",
      "request_id", "session", "success", "type", "would_auth">>

Precedes(a, b) ==
    \E i, k \in DOMAIN KeyOrder : i < k /\ KeyOrder[i] = a /\ KeyOrder[k] = b

\* The name is found as a key or as a string that is a value.  After a value there is no
\* colon: no boolean follows.
json_bool(j, key) ==
    IF /\ key \in DOMAIN j /\ j[key][1] = "bool"
       /\ \A k \in DOMAIN j : j[k] = Str(key) => ~Precedes(k, key)
    THEN IF j[key][2] THEN 1 ELSE 0
    ELSE -1
=============================================================================
