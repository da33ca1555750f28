--------------------------- MODULE RequestsProofs ---------------------------
(***************************************************************************)
(* Proofs about Requests, for any clients, users, labels, sessions, frames *)
(* of other authors and enrollments, and any width of the integers.        *)
(*                                                                         *)
(* The invariant follows a request along its way: what a client writes     *)
(* says what it means (Sending), what is dispatched was written whole      *)
(* (Reading), an answer was true when it was built and stays the answer to *)
(* the request of its connection (Telling), the history holds the          *)
(* enrollments of every moment of a connection (Seeing), and an open       *)
(* session is for whom the root client that opened it meant (Opening).     *)
(***************************************************************************)
EXTENDS Requests, TLAPS

\* The client has connected at least once.
Started(c) == cli[c] # "idle" /\ ~Usage(task[c])

\* The values of a JSON object are pairs, their kinds tell what they hold.
WellFormed(j) ==
    \A k \in DOMAIN j : LET v == j[k] IN
        /\ v = <<v[1], v[2]>>
        /\ v[1] = "num" => v[2] \in Int
        /\ v[1] = "bool" => v[2] \in BOOLEAN
        /\ k = "label" /\ v[1] = "str" => v[2] \in Names

\* If it is a request for an account at all, it is for the one the client means.
Faithful(c, j) ==
    Parses(j) /\ "uid" \in DOMAIN parse_request(j) => parse_request(j).uid = Meant(c)

Sending(c) ==
    /\ Started(c) =>
          /\ frame[c].payload # Garbage =>
                WellFormed(frame[c].payload) /\ Faithful(c, frame[c].payload)
          /\ cli[c] = "write" => sent[c] < Length(frame[c])
    /\ ~Started(c) =>
          /\ cli[c] \in {"idle", "done"} /\ srv[c] = "none"
          /\ handled[c] = None /\ back[c] = 0 /\ answer[c] = None

Dispatched(c) ==
    /\ Started(c) /\ sent[c] = Prefix + Payload
    /\ frame[c].payload # Garbage /\ Parses(frame[c].payload)
    /\ handled[c] = parse_request(frame[c].payload)

Reading(c) ==
    /\ srv[c] \in {"queued", "head", "body", "parse"} => handled[c] = None /\ back[c] = 0
    /\ srv[c] = "parse" => sent[c] = Prefix + Payload
    /\ srv[c] = "handle" => Dispatched(c) /\ back[c] = 0
    /\ handled[c] # None => Dispatched(c)

\* S holds a moment before and one after a file went that the request h for uid u names.
Removed(u, h, S) ==
    \E before, after \in S : \E f \in Named(u, h.label) :
        f[2] \in before[f[1]].disk \ after[f[1]].disk

\* The answer is for the request, and true of the account that the client means.
Truthful(c) ==
    /\ handled[c] # None => resp[c]["request_id"] = Str(handled[c].request_id)
    /\ "success" \in DOMAIN resp[c] =>
          /\ resp[c]["success"] \in {Bool(TRUE), Bool(FALSE)}
          /\ resp[c]["success"] = Bool(TRUE) =>
                /\ Entitled(c, Meant(c))
                /\ \E cs \in seen[c] : resp[c]["matched_label"][2] \in Known(cs[Meant(c)])
    /\ resp[c]["type"][2] = "list_result" =>
          \E cs \in seen[c], u \in Uids :
              /\ Entitled(c, u) /\ resp[c]["enrollments"][2] \subseteq Known(cs[u])
              /\ task[c].prog = "cli" => u = Meant(c)
    /\ resp[c]["type"][2] = "remove_result" /\ resp[c]["ok"][2] =>
          Removed(Meant(c), handled[c], seen[c])

Telling(c) ==
    /\ back[c] > 0 => srv[c] \in {"answer", "none"}
    /\ srv[c] = "answer" => back[c] < 2
    /\ srv[c] = "answer" \/ back[c] > 0 => Truthful(c)
    /\ answer[c] # None =>
          /\ cli[c] = "done" /\ back[c] = 2
          /\ answer[c] = IF task[c].prog = "pam" THEN json_bool(resp[c], "success") ELSE resp[c]

Seeing(c) == srv[c] # "none" => creds \in seen[c]

Opening(i) ==
    sessions[i] \notin {None, Gone} =>
        user[sessions[i].by].uid = 0 /\ sessions[i].uid = Meant(sessions[i].by)

\* Every client has its own of each of these.
PerClient ==
    /\ frame = [c \in Clients |-> frame[c]] /\ handled = [c \in Clients |-> handled[c]]
    /\ resp = [c \in Clients |-> resp[c]] /\ answer = [c \in Clients |-> answer[c]]
    /\ seen = [c \in Clients |-> seen[c]]

Local(c) == Sending(c) /\ Reading(c) /\ Telling(c) /\ Seeing(c)

RequestInv ==
    /\ TypeOK /\ PerClient
    /\ \A c \in Clients : Local(c)
    /\ \A i \in Sessions : Opening(i)

-----------------------------------------------------------------------------
(* Integers and messages. *)

LEMMA WidthIs ==
    /\ Width \in Nat /\ Width > 0 /\ 0 \in Uids
    /\ \A n \in Int : n % Width \in Uids
    /\ \A n \in Uids : n \in Int /\ n % Width = n
BY WidthAssumption DEF WidthAssumption, Uids

LEMMA StrtoulIs == \A n \in Int : strtoul(n) \in Uids
<1>1. Width - 1 \in Uids
  BY WidthAssumption DEF WidthAssumption, Uids
<1> QED BY <1>1, WidthIs DEF strtoul

LEMMA KindIs ==
    /\ Kind["uid"] = "num" /\ Kind["type"] = "str" /\ Kind["request_id"] = "str"
    /\ Kind["label"] = "str" /\ Kind["session"] = "str" /\ Kind["timeout_ms"] = "num"
    /\ Kind["min_frames"] = "num" /\ Kind["max_frames"] = "num"
    /\ Kind["success"] = "bool" /\ Kind["matched_label"] = "str"
    /\ Kind["enrollments"] = "array" /\ Kind["ok"] = "bool"
BY DEF Kind

\* The fields of the requests.
LEMMA RequestFields ==
    /\ DOMAIN Schema["auth"] = {"uid", "timeout_ms", "request_id"}
    /\ DOMAIN Schema["test"] = {"timeout_ms", "request_id"}
    /\ DOMAIN Schema["enroll_start"] = {"label", "uid", "min_frames", "max_frames", "request_id"}
    /\ DOMAIN Schema["enroll_frame"] = {"session", "request_id"}
    /\ DOMAIN Schema["enroll_finish"] = {"session", "request_id"}
    /\ DOMAIN Schema["list"] = {"uid", "request_id"}
    /\ DOMAIN Schema["remove"] = {"label", "uid", "request_id"}
BY DEF Schema

LEMMA RequestDefaults ==
    /\ Schema["auth"]["uid"] = Required /\ Schema["enroll_start"]["uid"] = Num(0)
    /\ Schema["list"]["uid"] = Num(0) /\ Schema["remove"]["uid"] = Num(0)
    /\ Schema["enroll_start"]["label"] = Required /\ Schema["remove"]["label"] = Required
<1>1. Schema["auth"]["uid"] = Required /\ Schema["enroll_start"]["uid"] = Num(0)
  BY DEF Schema
<1>2. Schema["list"]["uid"] = Num(0) /\ Schema["remove"]["uid"] = Num(0)
  BY DEF Schema
<1>3. Schema["enroll_start"]["label"] = Required /\ Schema["remove"]["label"] = Required
  BY DEF Schema
<1> QED BY <1>1, <1>2, <1>3

LEMMA DotIs == ASSUME NEW r PROVE r.uid = r["uid"] /\ r.type = r["type"] /\ r.label = r["label"]
OBVIOUS

\* Every field of a request says what the JSON object says.
LEMMA ParsedSays ==
    ASSUME NEW j, WellFormed(j), Parses(j)
    PROVE  /\ parse_request(j).type = j["type"][2] /\ parse_request(j).type \in RequestTypes
           /\ \A f \in DOMAIN parse_request(j) \ {"uid"} :
                 f \in DOMAIN j => Says(j[f], f, parse_request(j)[f])
<1> DEFINE t == j["type"][2]
           r == from_json(j, t)
<1>0. r = parse_request(j)
  BY DEF parse_request
<1>1. /\ "type" \in DOMAIN j /\ j["type"][1] = "str" /\ t \in RequestTypes /\ Converts(j, t)
  BY DEF Parses
<1>2. r["type"] = t /\ DOMAIN r = DOMAIN Schema[t] \cup {"type"}
  BY DEF from_json
<1>3. ASSUME NEW f \in DOMAIN r \ {"uid"}, f \in DOMAIN j PROVE Says(j[f], f, r[f])
  <2> DEFINE v == j[f]
  <2>1. v = <<v[1], v[2]>> /\ (v[1] = "num" => v[2] \in Int) /\ (v[1] = "bool" => v[2] \in BOOLEAN)
    BY <1>3 DEF WellFormed
  <2>2. CASE f = "type"
    BY <1>1, <1>2, <2>1, <2>2, KindIs DEF Says
  <2>3. CASE f # "type"
    <3>1. Fits(f, v) /\ r[f] = IF Kind[f] = "num" THEN Integer(f, v) ELSE v[2]
      <4>1. f \in DOMAIN Schema[t] \cup {"type"}
        BY <1>2, <1>3
      <4>2. r[f] = IF Kind[f] = "num" THEN Integer(f, v) ELSE v[2]
        BY <1>3, <2>3, <4>1 DEF from_json
      <4>3. Fits(f, v)
        BY <1>1, <1>3, <2>3, <4>1 DEF Converts
      <4> QED BY <4>2, <4>3
    <3>2. CASE Kind[f] # "num"
      BY <2>1, <3>1, <3>2 DEF Fits, Says
    <3>3. CASE Kind[f] = "num" /\ v[1] = "num"
      BY <1>3, <2>1, <3>1, <3>3 DEF Says, Integer
    <3>4. CASE Kind[f] = "num" /\ v[1] = "bool"
      <4>1. r[f] = IF v[2] THEN 1 ELSE 0
        BY <1>3, <3>1, <3>4 DEF Integer
      <4>2. v[2] = (r[f] = 1) /\ r[f] \in {0, 1}
        BY <2>1, <3>4, <4>1
      <4> QED BY <2>1, <3>4, <4>2 DEF Says, Bool
    <3> QED BY <3>1, <3>2, <3>3, <3>4 DEF Fits
  <2> QED BY <2>2, <2>3
<1> HIDE DEF r
<1> QED BY <1>0, <1>1, <1>2, <1>3, DotIs

\* Which requests have a uid and a label, and what they are.
LEMMA ParsedUid ==
    ASSUME NEW j, WellFormed(j), Parses(j)
    PROVE  /\ "uid" \in DOMAIN parse_request(j)
                 <=> parse_request(j).type \in {"auth", "enroll_start", "list", "remove"}
           /\ "uid" \in DOMAIN parse_request(j) =>
                 /\ parse_request(j).uid \in Uids
                 /\ parse_request(j).uid = IF "uid" \in DOMAIN j THEN Integer("uid", j["uid"]) ELSE 0
           /\ parse_request(j).type \in {"enroll_start", "remove"} =>
                 parse_request(j).label \in Names
<1> DEFINE t == j["type"][2]
           r == parse_request(j)
<1>1. r.type = t /\ t \in RequestTypes /\ Converts(j, t)
  BY ParsedSays DEF Parses
<1>2. r = from_json(j, t) /\ DOMAIN r = DOMAIN Schema[t] \cup {"type"}
  BY DEF parse_request, from_json
<1>3. "uid" \in DOMAIN r <=> t \in {"auth", "enroll_start", "list", "remove"}
  BY <1>1, <1>2, RequestFields DEF RequestTypes
<1>4. ASSUME "uid" \in DOMAIN r
      PROVE  r["uid"] \in Uids /\ r["uid"] = IF "uid" \in DOMAIN j THEN Integer("uid", j["uid"]) ELSE 0
  <2>1. "uid" \in DOMAIN Schema[t]
    BY <1>2, <1>4
  <2>2. CASE "uid" \in DOMAIN j
    <3>1. r["uid"] = Integer("uid", j["uid"])
      BY <1>2, <2>1, <2>2, KindIs DEF from_json
    <3>2. Fits("uid", j["uid"])
      BY <1>1, <2>1, <2>2 DEF Converts
    <3>3. IF j["uid"][1] = "bool" THEN j["uid"][2] \in BOOLEAN ELSE j["uid"][2] \in Int
      BY <2>2, <3>2, KindIs DEF WellFormed, Fits
    <3> HIDE DEF r
    <3>4. Integer("uid", j["uid"]) \in Uids
      BY <3>3, WidthIs DEF Integer
    <3> QED BY <2>2, <3>1, <3>4
  <2>3. CASE "uid" \notin DOMAIN j
    <3>1. r["uid"] = Schema[t]["uid"][2]
      BY <1>2, <2>1, <2>3 DEF from_json
    <3>2. Schema[t]["uid"] # Required
      BY <1>1, <2>1, <2>3 DEF Converts
    <3>3. Schema[t]["uid"] = Num(0)
      BY <1>3, <1>4, <3>2, RequestDefaults
    <3> HIDE DEF r
    <3> QED BY <2>3, <3>1, <3>3, WidthIs DEF Num
  <2> QED BY <2>2, <2>3
<1>5. ASSUME t \in {"enroll_start", "remove"} PROVE r["label"] \in Names
  <2>1. "label" \in DOMAIN Schema[t] /\ Schema[t]["label"] = Required
    BY <1>5, RequestFields, RequestDefaults
  <2>2. "label" \in DOMAIN j /\ j["label"][1] = "str"
    BY <1>1, <2>1, KindIs DEF Converts, Fits
  <2>3. r["label"] = j["label"][2]
    BY <1>2, <2>1, <2>2, KindIs DEF from_json
  <2> QED BY <2>2, <2>3 DEF WellFormed
<1>6. r.uid = r["uid"] /\ r.label = r["label"]
  BY DotIs
<1> QED BY <1>1, <1>3, <1>4, <1>5, <1>6

-----------------------------------------------------------------------------
(* What the clients write. *)

LEMMA UserIs ==
    ASSUME TypeOK, NEW c \in Clients
    PROVE  /\ user[c].uid \in Uids /\ (user[c].sudo # None => user[c].sudo \in Int)
           /\ task[c] \in Tasks /\ target_uid(user[c]) \in Uids
<1>1. user[c] \in Users /\ task[c] \in Tasks
  BY DEF TypeOK
<1>2. user[c].uid \in Uids /\ (user[c].sudo # None => user[c].sudo \in Int)
  BY <1>1, RequestsAssumption DEF RequestsAssumption
<1> QED BY <1>1, <1>2, StrtoulIs DEF target_uid

\* What is asked of a request that the CLI or the PAM module builds.
Built(c, r) ==
    /\ DOMAIN r \subseteq {"type", "uid", "timeout_ms", "label", "min_frames", "max_frames",
                           "request_id", "session"}
    /\ "type" \in DOMAIN r
    /\ \A f \in {"timeout_ms", "min_frames", "max_frames"} : f \in DOMAIN r => r[f] \in Int
    /\ "label" \in DOMAIN r => r["label"] \in Names
    /\ IF "uid" \in DOMAIN r THEN r["uid"] \in Uids /\ r["uid"] = Meant(c)
       ELSE r["type"] \in {"test", "enroll_frame", "enroll_finish"}

LEMMA BuiltIs ==
    ASSUME NEW c, NEW r, Built(c, r)
    PROVE  WellFormed(to_json(r)) /\ Faithful(c, to_json(r))
<1> DEFINE j == to_json(r)
<1>1. DOMAIN j = DOMAIN r /\ \A f \in DOMAIN r : j[f] = <<Kind[f], r[f]>>
  BY DEF to_json
<1>2. \A f \in DOMAIN r : j[f][1] = Kind[f] /\ j[f][2] = r[f]
  BY <1>1
<1> HIDE DEF j
<1>3. WellFormed(j)
  <2>1. ASSUME NEW k \in DOMAIN j
        PROVE  /\ j[k] = <<j[k][1], j[k][2]>>
               /\ j[k][1] = "num" => j[k][2] \in Int
               /\ j[k][1] # "bool"
               /\ k = "label" => j[k][2] \in Names
    <3>1. k \in {"type", "uid", "timeout_ms", "label", "min_frames", "max_frames", "request_id", "session"}
      BY <1>1, <2>1 DEF Built
    <3>2. Kind[k] # "bool" /\ (Kind[k] = "num" => r[k] \in Int)
      BY <1>1, <2>1, <3>1, KindIs, WidthIs DEF Built
    <3>3. j[k] = <<j[k][1], j[k][2]>> /\ j[k][1] = Kind[k] /\ j[k][2] = r[k]
      BY <1>1, <1>2, <2>1
    <3>4. k = "label" => r[k] \in Names
      BY <1>1, <2>1 DEF Built
    <3> QED BY <3>2, <3>3, <3>4
  <2> QED BY <2>1 DEF WellFormed
<1>4. ASSUME Parses(j), "uid" \in DOMAIN parse_request(j) PROVE parse_request(j).uid = Meant(c)
  <2>1. parse_request(j).type = r["type"]
    BY <1>2, <1>3, <1>4, ParsedSays DEF Built
  <2>2. parse_request(j).type \in {"auth", "enroll_start", "list", "remove"}
    BY <1>3, <1>4, ParsedUid
  <2>3. "uid" \in DOMAIN r /\ r["uid"] \in Uids /\ r["uid"] = Meant(c)
    BY <2>1, <2>2 DEF Built
  <2>4. parse_request(j).uid = Integer("uid", j["uid"])
    BY <1>1, <1>3, <1>4, <2>3, ParsedUid
  <2>5. Integer("uid", j["uid"]) = r["uid"] % Width
    BY <1>2, <2>3, KindIs DEF Integer
  <2> QED BY <2>3, <2>4, <2>5, WidthIs
<1> QED BY <1>3, <1>4 DEF Faithful, j

\* The requests of cmd_*, of auth-test and of pam_sm_authenticate.
LEMMA RequestIs ==
    ASSUME TypeOK, NEW c \in Clients, task[c].prog # "other"
    PROVE  Built(c, Request(c, task[c]))
<1> DEFINE t == task[c]
<1>0. t \in Tasks /\ user[c].uid \in Uids /\ target_uid(user[c]) \in Uids /\ N \in Int
  BY UserIs DEF N
<1>1. CASE t.prog = "pam"
  <2>1. t.uid \in Uids /\ Meant(c) = t.uid
    BY <1>0, <1>1 DEF Tasks, Meant
  <2>2. Request(c, t) = [type |-> "auth", uid |-> t.uid, timeout_ms |-> 2000, request_id |-> c]
    BY <1>1 DEF Request
  <2> QED BY <2>1, <2>2 DEF Built
<1>2. ASSUME t.prog = "cli", t.cmd = "test" PROVE Built(c, Request(c, task[c]))
  <2>1. Request(c, t) = [type |-> "test", timeout_ms |-> 3000, request_id |-> c]
    BY <1>2 DEF Request
  <2> QED BY <2>1 DEF Built
<1>3. ASSUME t.prog = "cli", t.cmd = "auth-test" PROVE Built(c, Request(c, task[c]))
  <2>1. Request(c, t) = [type |-> "auth", uid |-> user[c].uid, timeout_ms |-> 2000, request_id |-> c]
    BY <1>3 DEF Request
  <2>2. Meant(c) = user[c].uid
    BY <1>3 DEF Meant
  <2> QED BY <1>0, <2>1, <2>2 DEF Built
<1>4. ASSUME t.prog = "cli", t.cmd # "auth-test" PROVE Meant(c) = target_uid(user[c])
  BY <1>4 DEF Meant, target_uid
<1>5. ASSUME t.prog = "cli", t.cmd = "list" PROVE Built(c, Request(c, task[c]))
  <2>1. Request(c, t) = [type |-> "list", uid |-> target_uid(user[c]), request_id |-> c]
    BY <1>5 DEF Request
  <2> QED BY <1>0, <1>4, <1>5, <2>1 DEF Built
<1>6. ASSUME t.prog = "cli", t.cmd = "remove-all" PROVE Built(c, Request(c, task[c]))
  <2>1. Request(c, t) = [type |-> "remove", uid |-> target_uid(user[c]), label |-> Empty, request_id |-> c]
    BY <1>6 DEF Request
  <2> DEFINE r == Request(c, t)
  <2>2. /\ DOMAIN r = {"type", "uid", "label", "request_id"}
        /\ r["uid"] = target_uid(user[c]) /\ r["label"] = Empty
    BY <2>1
  <2>3. r["uid"] = Meant(c)
    BY <1>4, <1>6, <2>2
  <2> HIDE DEF r
  <2>4. Built(c, r)
    BY <1>0, <2>2, <2>3 DEF Built, Names
  <2> QED BY <2>4 DEF r
<1>7. ASSUME t.prog = "cli", t.cmd = "remove" PROVE Built(c, Request(c, task[c]))
  <2>1. Request(c, t) = [type |-> "remove", uid |-> target_uid(user[c]), label |-> t.label, request_id |-> c]
    BY <1>7 DEF Request
  <2>2. t.label \in Names
    BY <1>0, <1>7 DEF Tasks
  <2> DEFINE r == Request(c, t)
  <2>3. /\ DOMAIN r = {"type", "uid", "label", "request_id"}
        /\ r["uid"] = target_uid(user[c]) /\ r["label"] = t.label
    BY <2>1
  <2>4. r["uid"] = Meant(c)
    BY <1>4, <1>7, <2>3
  <2> HIDE DEF r
  <2>5. Built(c, r)
    BY <1>0, <2>2, <2>3, <2>4 DEF Built
  <2> QED BY <2>5 DEF r
<1>8. ASSUME t.prog = "cli", t.cmd = "enroll" PROVE Built(c, Request(c, task[c]))
  <2>1. Request(c, t) = [type |-> "enroll_start", uid |-> target_uid(user[c]), label |-> t.label,
                         min_frames |-> GreaterOf(3, N \div 2), max_frames |-> N, request_id |-> c]
    BY <1>8 DEF Request
  <2>2. t.label \in Names
    BY <1>0, <1>8 DEF Tasks
  <2>3. GreaterOf(3, N \div 2) \in Int
    BY DEF GreaterOf, N
  <2> DEFINE r == Request(c, t)
  <2>4. /\ DOMAIN r = {"type", "uid", "label", "min_frames", "max_frames", "request_id"}
        /\ r["uid"] = target_uid(user[c]) /\ r["label"] = t.label
        /\ r["min_frames"] = GreaterOf(3, N \div 2) /\ r["max_frames"] = N
    BY <2>1
  <2>5. r["uid"] = Meant(c)
    BY <1>4, <1>8, <2>4
  <2> HIDE DEF r
  <2>6. Built(c, r)
    BY <1>0, <2>2, <2>3, <2>4, <2>5 DEF Built
  <2> QED BY <2>6 DEF r
<1>9. t.prog = "pam" \/ (t.prog = "cli" /\ t.cmd \in {"test", "auth-test", "list", "remove-all", "remove", "enroll"})
  BY <1>0 DEF Tasks
<1> QED BY <1>1, <1>2, <1>3, <1>5, <1>6, <1>7, <1>8, <1>9

\* Whatever program it is, its first frame says what it means.
LEMMA FirstFrameIs ==
    ASSUME TypeOK, NEW c \in Clients, FirstFrame(c, task[c]).payload # Garbage
    PROVE  /\ WellFormed(FirstFrame(c, task[c]).payload)
           /\ Faithful(c, FirstFrame(c, task[c]).payload)
<1> DEFINE t == task[c]
           j == FirstFrame(c, t).payload
<1>1. CASE t.prog = "other"
  <2>1. t.frame \in Foreign /\ j = t.frame.payload
    BY <1>1, UserIs DEF Tasks, FirstFrame
  <2>2. WellFormed(j)
    BY <2>1, RequestsAssumption DEF RequestsAssumption, WellFormed
  <2>3. Meant(c) = IF "uid" \in DOMAIN j THEN Integer("uid", j["uid"]) ELSE 0
    BY <1>1, <2>1 DEF Meant
  <2>4. Faithful(c, j)
    BY <2>2, <2>3, ParsedUid DEF Faithful
  <2> QED BY <2>2, <2>4
<1>2. CASE t.prog # "other"
  <2>1. j = to_json(Request(c, t))
    BY <1>2 DEF FirstFrame, Framed
  <2> QED BY <1>2, <2>1, RequestIs, BuiltIs
<1> QED BY <1>1, <1>2

LEMMA NextRequestIs ==
    ASSUME NEW c
    PROVE  /\ WellFormed(Framed(NextRequest(c)).payload)
           /\ Faithful(c, Framed(NextRequest(c)).payload)
<1> DEFINE r == NextRequest(c)
<1>1. /\ DOMAIN r = {"type", "session", "request_id"}
      /\ r["type"] \in {"enroll_frame", "enroll_finish"}
  BY DEF NextRequest
<1> HIDE DEF r
<1>2. Built(c, r)
  BY <1>1 DEF Built
<1> QED BY <1>2, BuiltIs DEF Framed, r

LEMMA LengthIs ==
    ASSUME NEW f
    PROVE  /\ Length(f) \in Nat \ {0} /\ Length(f) <= Prefix + Payload
           /\ Prefix \in Nat \ {0} /\ Payload \in Nat \ {0}
BY RequestsAssumption DEF RequestsAssumption, Length

-----------------------------------------------------------------------------
(* A step of one client, or of its connection, leaves the others alone. *)

Same(d) ==
    /\ cli'[d] = cli[d] /\ frame'[d] = frame[d] /\ sent'[d] = sent[d] /\ srv'[d] = srv[d]
    /\ got'[d] = got[d] /\ handled'[d] = handled[d] /\ resp'[d] = resp[d]
    /\ back'[d] = back[d] /\ answer'[d] = answer[d]

\* The history of a connection grows by what is on disk.
Grows(d) == seen[d] \subseteq seen'[d] /\ (srv[d] # "none" => creds' \in seen'[d])

LEMMA MeantSame ==
    ASSUME user' = user, task' = task, NEW c
    PROVE  /\ Meant(c)' = Meant(c) /\ \A u : Entitled(c, u)' = Entitled(c, u)
           /\ Usage(task[c])' = Usage(task[c])
           /\ \A j : Faithful(c, j)' = Faithful(c, j)
<1>1. Meant(c)' = Meant(c)
  BY DEF Meant
<1>2. Usage(task[c])' = Usage(task[c]) /\ \A u : Entitled(c, u)' = Entitled(c, u)
  BY DEF Usage, Entitled
<1> QED BY <1>1, <1>2 DEF Faithful

\* An answer stays true while the history grows.
LEMMA TruthfulStays ==
    ASSUME NEW c, Truthful(c), user' = user, task' = task, handled'[c] = handled[c],
           resp'[c] = resp[c], seen[c] \subseteq seen'[c]
    PROVE  Truthful(c)'
<1>1. Meant(c)' = Meant(c) /\ \A u : Entitled(c, u)' = Entitled(c, u)
  BY MeantSame
<1>2. \A u, h : Removed(u, h, seen[c]) => Removed(u, h, seen'[c])
  BY DEF Removed
<1> QED BY <1>1, <1>2 DEF Truthful

LEMMA LocalStays ==
    ASSUME NEW d, Local(d), user' = user, task' = task, Same(d), Grows(d)
    PROVE  Local(d)'
<1>1. /\ Started(d)' = Started(d) /\ \A j : Faithful(d, j)' = Faithful(d, j)
  BY MeantSame DEF Started, Same
<1>2. Sending(d)'
  BY <1>1 DEF Local, Sending, Same
<1>3. Reading(d)'
  BY <1>1 DEF Local, Reading, Same, Dispatched
<1>4. Truthful(d) => Truthful(d)'
  BY TruthfulStays DEF Same, Grows
<1>5. Telling(d)'
  BY <1>4 DEF Local, Telling, Same
<1>6. Seeing(d)'
  BY DEF Local, Seeing, Same, Grows
<1> QED BY <1>2, <1>3, <1>5, <1>6 DEF Local

LEMMA ConnectIs ==
    ASSUME RequestInv, NEW c \in Clients, NEW f, Connect(c, f)
    PROVE  /\ cli'[c] = "write" /\ frame'[c] = f /\ sent'[c] = 0 /\ srv'[c] = "queued" /\ got'[c] = 0
           /\ handled'[c] = None /\ resp'[c] = None /\ back'[c] = 0 /\ seen'[c] = {creds}
           /\ \A d \in Clients \ {c} : answer'[d] = answer[d] => Same(d) /\ seen'[d] = seen[d]
           /\ answer' = [d \in Clients |-> answer'[d]] => PerClient'
           /\ cli' \in [Clients -> {"idle", "write", "read", "done"}]
           /\ sent' \in [Clients -> 0 .. Prefix + Payload]
           /\ srv' \in [Clients -> {"none", "queued", "head", "body", "parse", "handle", "answer"}]
           /\ got' \in [Clients -> 0 .. Prefix + Payload]
           /\ \A d \in Clients : got'[d] <= sent'[d]
           /\ back' \in [Clients -> 0 .. 2]
<1>0. TypeOK /\ PerClient
  BY DEF RequestInv
<1>1. /\ cli'[c] = "write" /\ sent'[c] = 0 /\ srv'[c] = "queued" /\ got'[c] = 0 /\ back'[c] = 0
      /\ \A d \in Clients \ {c} : /\ cli'[d] = cli[d] /\ sent'[d] = sent[d] /\ srv'[d] = srv[d]
                                  /\ got'[d] = got[d] /\ back'[d] = back[d]
  BY <1>0 DEF TypeOK, Connect
<1>2. /\ frame'[c] = f /\ handled'[c] = None /\ resp'[c] = None /\ seen'[c] = {creds}
      /\ \A d \in Clients \ {c} : /\ frame'[d] = frame[d] /\ handled'[d] = handled[d]
                                  /\ resp'[d] = resp[d] /\ seen'[d] = seen[d]
      /\ frame' = [d \in Clients |-> frame'[d]] /\ handled' = [d \in Clients |-> handled'[d]]
      /\ resp' = [d \in Clients |-> resp'[d]] /\ seen' = [d \in Clients |-> seen'[d]]
  BY <1>0 DEF PerClient, Connect
<1>3. Prefix + Payload \in Nat
  BY LengthIs
<1>4. /\ cli' \in [Clients -> {"idle", "write", "read", "done"}]
      /\ sent' \in [Clients -> 0 .. Prefix + Payload]
      /\ srv' \in [Clients -> {"none", "queued", "head", "body", "parse", "handle", "answer"}]
      /\ got' \in [Clients -> 0 .. Prefix + Payload]
      /\ back' \in [Clients -> 0 .. 2]
  BY <1>0, <1>3 DEF TypeOK, Connect
<1>5. \A d \in Clients : got'[d] <= sent'[d]
  BY <1>0, <1>1 DEF TypeOK
<1> QED BY <1>1, <1>2, <1>4, <1>5 DEF Same, PerClient

\* The step of a client.
LEMMA ClientOthers ==
    ASSUME RequestInv, NEW c \in Clients, Client(c)
    PROVE  /\ TypeOK' /\ PerClient' /\ UNCHANGED <<user, task, creds, sessions>>
           /\ \A d \in Clients \ {c} : Same(d) /\ seen'[d] = seen[d]
<1>0. TypeOK /\ PerClient /\ UNCHANGED <<user, task, creds, sessions>>
  BY DEF RequestInv, Client, Begin, Write, GiveUp, Receive
<1>1. ASSUME NEW f, Connect(c, f), answer' = answer
      PROVE  TypeOK' /\ PerClient' /\ \A d \in Clients \ {c} : Same(d) /\ seen'[d] = seen[d]
  <2>1. answer' = [d \in Clients |-> answer'[d]]
    BY <1>0, <1>1 DEF PerClient
  <2>2. TypeOK'
    BY <1>0, <1>1, ConnectIs DEF TypeOK
  <2> QED BY <1>1, <2>1, <2>2, ConnectIs
<1>2. ASSUME NEW what, End(c, what), UNCHANGED <<frame, sent, serverVars, seen>>
      PROVE  TypeOK' /\ PerClient' /\ \A d \in Clients \ {c} : Same(d) /\ seen'[d] = seen[d]
  <2>1. TypeOK'
    BY <1>0, <1>2 DEF TypeOK, End, serverVars
  <2>2. PerClient'
    BY <1>0, <1>2 DEF PerClient, End, serverVars
  <2>3. \A d \in Clients \ {c} : Same(d) /\ seen'[d] = seen[d]
    BY <1>0, <1>2 DEF TypeOK, PerClient, End, serverVars, Same
  <2> QED BY <2>1, <2>2, <2>3
<1>3. CASE Write(c)
  <2>1. sent[c] < Prefix + Payload /\ sent[c] \in Nat
    BY <1>0, <1>3, LengthIs DEF RequestInv, Local, Sending, Started, Write, TypeOK
  <2>2. /\ sent' = [sent EXCEPT ![c] = sent[c] + 1]
        /\ sent' \in [Clients -> 0 .. Prefix + Payload]
        /\ \A d \in Clients : got[d] <= sent'[d]
    BY <1>0, <1>3, <2>1, LengthIs DEF Write, TypeOK
  <2>3. TypeOK'
    BY <1>0, <1>3, <2>2 DEF Write, TypeOK, serverVars
  <2>4. PerClient'
    BY <1>0, <1>3 DEF Write, PerClient, serverVars
  <2>5. \A d \in Clients \ {c} : Same(d) /\ seen'[d] = seen[d]
    BY <1>0, <1>3 DEF Write, TypeOK, serverVars, Same
  <2> QED BY <1>0, <2>3, <2>4, <2>5
<1> QED BY <1>0, <1>1, <1>2, <1>3 DEF Client, Begin, GiveUp, Receive

\* A new connection begins with nothing but a frame that says what the client means.
LEMMA ConnectStep ==
    ASSUME RequestInv, NEW c \in Clients, NEW f, Connect(c, f), ~Usage(task[c]),
           UNCHANGED <<user, task, creds, answer>>, answer[c] = None,
           f.payload # Garbage => WellFormed(f.payload) /\ Faithful(c, f.payload)
    PROVE  Local(c)'
<1>1. /\ cli'[c] = "write" /\ frame'[c] = f /\ sent'[c] = 0 /\ srv'[c] = "queued"
      /\ handled'[c] = None /\ back'[c] = 0 /\ seen'[c] = {creds} /\ answer'[c] = None
  BY ConnectIs
<1>2. Started(c)' /\ \A j : Faithful(c, j)' = Faithful(c, j)
  BY <1>1, MeantSame DEF Started
<1>3. Sending(c)'
  BY <1>1, <1>2, LengthIs DEF Sending
<1>4. Reading(c)' /\ Telling(c)' /\ Seeing(c)'
  BY <1>1 DEF Reading, Telling, Seeing
<1> QED BY <1>3, <1>4 DEF Local

LEMMA ClientStep ==
    ASSUME RequestInv, NEW c \in Clients, Client(c)
    PROVE  Local(c)'
<1>0. /\ TypeOK /\ PerClient /\ Sending(c) /\ Reading(c) /\ Telling(c) /\ Seeing(c)
      /\ UNCHANGED <<user, task, creds, sessions>>
  BY ClientOthers DEF RequestInv, Local
<1>1. \A j : Faithful(c, j)' = Faithful(c, j)
  BY <1>0, MeantSame
<1>2. ASSUME UNCHANGED <<frame, serverVars, seen>>
      PROVE  (Truthful(c) => Truthful(c)') /\ Seeing(c)'
  BY <1>0, <1>2, TruthfulStays DEF Seeing, serverVars
<1>3. ASSUME NEW what, End(c, what), cli[c] # "idle" \/ Usage(task[c]),
             UNCHANGED <<frame, sent, serverVars, seen>>,
             what # None =>
                 /\ ~Usage(task[c]) /\ back[c] = 2
                 /\ what = IF task[c].prog = "pam" THEN json_bool(resp[c], "success") ELSE resp[c]
      PROVE  Local(c)'
  <2>1. cli'[c] = "done" /\ answer'[c] = what
    BY <1>0, <1>3 DEF End, TypeOK, PerClient
  <2>2. Started(c)' <=> ~Usage(task[c])
    BY <1>0, <2>1 DEF Started
  <2>3. Sending(c)'
    BY <1>0, <1>1, <1>3, <2>1, <2>2 DEF Sending, Started, serverVars
  <2>4. Dispatched(c) => Dispatched(c)'
    BY <1>0, <1>3, <2>2 DEF Dispatched, Started, serverVars
  <2>5. Reading(c)'
    BY <1>0, <1>3, <2>4 DEF Reading, serverVars
  <2>6. Telling(c)'
    BY <1>0, <1>2, <1>3, <2>1 DEF Telling, serverVars
  <2> QED BY <1>2, <1>3, <2>3, <2>5, <2>6 DEF Local
<1>4. CASE Begin(c)
  <2>1. cli[c] = "idle" /\ answer[c] = None
    BY <1>0, <1>4 DEF Begin, Sending, Started
  <2>2. CASE ~Usage(task[c]) /\ Connect(c, FirstFrame(c, task[c])) /\ UNCHANGED answer
    BY <1>0, <2>1, <2>2, FirstFrameIs, ConnectStep
  <2>3. CASE Usage(task[c]) /\ End(c, None) /\ UNCHANGED <<frame, sent, serverVars, seen>>
    BY <1>3, <2>3
  <2> QED BY <1>4, <2>2, <2>3 DEF Begin
<1>5. CASE Write(c)
  <2>1. /\ cli[c] = "write" /\ sent'[c] = sent[c] + 1 /\ cli'[c] \in {"write", "read"}
        /\ cli'[c] = "write" => sent'[c] # Length(frame[c])
        /\ UNCHANGED <<frame, answer, serverVars, seen>>
    BY <1>0, <1>5 DEF Write, TypeOK
  <2>2. Started(c) /\ Started(c)' /\ sent[c] < Length(frame[c]) /\ sent[c] \in Nat /\ sent'[c] \in Nat
    BY <1>0, <2>1, LengthIs DEF Sending, Started, Usage, TypeOK
  <2>3. Sending(c)'
    BY <1>0, <1>1, <2>1, <2>2, LengthIs DEF Sending, serverVars
  <2>4. sent[c] # Prefix + Payload
    BY <2>2, LengthIs
  <2>5. Reading(c)'
    BY <1>0, <2>1, <2>4 DEF Reading, Dispatched, serverVars
  <2>6. Telling(c)'
    BY <1>0, <1>2, <2>1 DEF Telling, serverVars
  <2> QED BY <1>2, <2>1, <2>3, <2>5, <2>6 DEF Local
<1>6. CASE GiveUp(c)
  BY <1>3, <1>6 DEF GiveUp
<1>7. CASE Receive(c)
  <2>1. cli[c] = "read" /\ back[c] = 2 /\ ~Usage(task[c]) /\ answer[c] = None
    BY <1>0, <1>7 DEF Receive, Sending, Started, Telling
  <2>2. CASE Enrolling(c) /\ Connect(c, Framed(NextRequest(c))) /\ UNCHANGED answer
    BY <1>0, <2>1, <2>2, NextRequestIs, ConnectStep
  <2>3. CASE /\ ~Enrolling(c)
             /\ End(c, IF task[c].prog = "pam" THEN json_bool(resp[c], "success") ELSE resp[c])
             /\ UNCHANGED <<frame, sent, serverVars, seen>>
    BY <1>3, <2>1, <2>3
  <2> QED BY <1>7, <2>2, <2>3 DEF Receive
<1> QED BY <1>4, <1>5, <1>6, <1>7 DEF Client

-----------------------------------------------------------------------------
(* The connection. *)

\* What makes the answer r to the request h true for a client whose connection has seen S.
TrueOf(c, h, r, S) ==
    /\ "type" \in DOMAIN r /\ "request_id" \in DOMAIN r
    /\ "success" \in DOMAIN r =>
          /\ r["success"] \in BOOLEAN /\ "matched_label" \in DOMAIN r
          /\ r["success"] =>
                Entitled(c, Meant(c)) /\ \E cs \in S : r["matched_label"] \in Known(cs[Meant(c)])
    /\ r["type"] = "list_result" =>
          /\ "enrollments" \in DOMAIN r
          /\ \E cs \in S, u \in Uids :
                /\ Entitled(c, u) /\ r["enrollments"] \subseteq Known(cs[u])
                /\ task[c].prog = "cli" => u = Meant(c)
    /\ r["type"] = "remove_result" =>
          "ok" \in DOMAIN r /\ (r["ok"] => Removed(Meant(c), h, S))

LEMMA AnswerTruthful ==
    ASSUME user' = user, task' = task, NEW c, NEW r, resp'[c] = to_json(r),
           TrueOf(c, handled'[c], r, seen'[c]), handled'[c] = None \/ r["request_id"] = handled'[c].request_id
    PROVE  Truthful(c)'
<1>1. Meant(c)' = Meant(c) /\ \A u : Entitled(c, u)' = Entitled(c, u)
  BY MeantSame
<1>2. DOMAIN resp'[c] = DOMAIN r /\ \A f \in DOMAIN r : resp'[c][f] = <<Kind[f], r[f]>>
  BY DEF to_json
<1>3. \A f \in DOMAIN r : resp'[c][f][2] = r[f]
  BY <1>2
<1>4. handled'[c] # None => resp'[c]["request_id"] = Str(handled'[c].request_id)
  BY <1>2, KindIs DEF TrueOf, Str
<1>5. ASSUME "success" \in DOMAIN r
      PROVE  /\ resp'[c]["success"] \in {Bool(TRUE), Bool(FALSE)}
             /\ resp'[c]["success"] = Bool(TRUE) =>
                   /\ Entitled(c, Meant(c))
                   /\ \E cs \in seen'[c] : resp'[c]["matched_label"][2] \in Known(cs[Meant(c)])
  <2>1. resp'[c]["success"] = Bool(r["success"]) /\ r["success"] \in BOOLEAN
    BY <1>2, <1>5, KindIs DEF TrueOf, Bool
  <2>2. Bool(TRUE)[2] = TRUE /\ Bool(FALSE)[2] = FALSE /\ Bool(TRUE) # Bool(FALSE)
    BY DEF Bool
  <2> QED BY <1>3, <1>5, <2>1, <2>2 DEF TrueOf
<1>6. ASSUME resp'[c]["type"][2] = "list_result"
      PROVE  \E cs \in seen'[c], u \in Uids :
                 /\ Entitled(c, u) /\ resp'[c]["enrollments"][2] \subseteq Known(cs[u])
                 /\ task[c].prog = "cli" => u = Meant(c)
  BY <1>3, <1>6 DEF TrueOf
<1>7. ASSUME resp'[c]["type"][2] = "remove_result", resp'[c]["ok"][2]
      PROVE  Removed(Meant(c), handled'[c], seen'[c])
  BY <1>3, <1>7 DEF TrueOf
<1> QED BY <1>1, <1>2, <1>4, <1>5, <1>6, <1>7 DEF Truthful

LEMMA ErrorTrue ==
    ASSUME NEW c, NEW h, NEW id, NEW reason, NEW S
    PROVE  TrueOf(c, h, Error(id, reason), S) /\ Error(id, reason)["request_id"] = id
BY DEF TrueOf, Error

LEMMA AnswerIs ==
    ASSUME RequestInv, NEW c \in Clients, NEW r, Answer(c, r)
    PROVE  /\ resp'[c] = to_json(r) /\ srv'[c] = "answer"
           /\ \A d \in Clients \ {c} : resp'[d] = resp[d] /\ srv'[d] = srv[d]
           /\ resp' = [d \in Clients |-> resp'[d]]
           /\ srv' \in [Clients -> {"none", "queued", "head", "body", "parse", "handle", "answer"}]
BY DEF RequestInv, TypeOK, PerClient, Answer, Goto

\* The step of a connection that handles nothing.
Reads(c) ==
    Accept(c) \/ ReadHead(c) \/ ReadBody(c) \/ ReadFails(c) \/ Parse(c) \/ WriteBack(c)

LEMMA ReadExactIs ==
    ASSUME RequestInv, NEW c \in Clients, NEW upto \in 0 .. Prefix + Payload, NEW whole,
           read_exact(c, upto, whole)
    PROVE  /\ got'[c] <= sent[c] /\ got' \in [Clients -> 0 .. Prefix + Payload]
           /\ srv'[c] = srv[c] \/ (srv'[c] = whole /\ got'[c] = upto)
           /\ \A d \in Clients \ {c} : got'[d] = got[d] /\ srv'[d] = srv[d]
<1>0. TypeOK /\ Prefix + Payload \in Nat
  BY LengthIs DEF RequestInv
<1>1. /\ sent[c] \in 0 .. Prefix + Payload /\ got[c] \in 0 .. Prefix + Payload
      /\ got' = [got EXCEPT ![c] = IF sent[c] < upto THEN sent[c] ELSE upto]
      /\ srv' = [srv EXCEPT ![c] = IF got'[c] = upto THEN whole ELSE srv[c]]
  BY <1>0 DEF TypeOK, read_exact, Goto
<1>2. got'[c] = IF sent[c] < upto THEN sent[c] ELSE upto
  BY <1>0, <1>1 DEF TypeOK
<1>3. got'[c] <= sent[c] /\ got'[c] \in 0 .. Prefix + Payload
  BY <1>0, <1>1, <1>2
<1> QED BY <1>0, <1>1, <1>3 DEF TypeOK

LEMMA ReadsOthers ==
    ASSUME RequestInv, NEW c \in Clients, Reads(c)
    PROVE  /\ TypeOK' /\ PerClient' /\ UNCHANGED <<user, task, creds, sessions>>
           /\ \A d \in Clients \ {c} : Same(d) /\ seen'[d] = seen[d]
<1>0. TypeOK /\ PerClient /\ Prefix + Payload \in Nat /\ Prefix \in 0 .. Prefix + Payload
  BY LengthIs DEF RequestInv
<1>1. UNCHANGED <<clientVars, creds, sessions, seen>>
  BY DEF Reads, Accept, ReadHead, ReadBody, ReadFails, Parse, WriteBack
<1>2. CASE Accept(c)
  <2>1. /\ \A d \in Clients \ {c} : resp'[d] = resp[d] /\ srv'[d] = srv[d]
        /\ resp' = [d \in Clients |-> resp'[d]]
        /\ srv' \in [Clients -> {"none", "queued", "head", "body", "parse", "handle", "answer"}]
        /\ UNCHANGED <<got, handled, back>>
    BY <1>0, <1>2, AnswerIs DEF Accept, Goto, TypeOK, PerClient
  <2> QED BY <1>0, <1>1, <2>1 DEF TypeOK, PerClient, Same, clientVars
<1>3. CASE ReadHead(c) \/ ReadBody(c)
  <2>1. /\ \A d \in Clients \ {c} : got'[d] = got[d] /\ srv'[d] = srv[d]
        /\ got' \in [Clients -> 0 .. Prefix + Payload] /\ got'[c] <= sent[c]
        /\ UNCHANGED <<handled, resp, back>>
    BY <1>0, <1>3, ReadExactIs DEF ReadHead, ReadBody
  <2>2. srv' \in [Clients -> {"none", "queued", "head", "body", "parse", "handle", "answer"}]
    BY <1>0, <1>3 DEF ReadHead, ReadBody, read_exact, Goto, TypeOK
  <2> QED BY <1>0, <1>1, <2>1, <2>2 DEF TypeOK, PerClient, Same, clientVars
<1>4. CASE ReadFails(c)
  BY <1>0, <1>1, <1>4 DEF ReadFails, Goto, TypeOK, PerClient, Same, clientVars
<1>5. CASE Parse(c)
  <2>1. UNCHANGED <<got, back>>
    BY <1>5 DEF Parse
  <2>2. /\ \A d \in Clients \ {c} : resp'[d] = resp[d] /\ srv'[d] = srv[d] /\ handled'[d] = handled[d]
        /\ resp' = [d \in Clients |-> resp'[d]] /\ handled' = [d \in Clients |-> handled'[d]]
        /\ srv' \in [Clients -> {"none", "queued", "head", "body", "parse", "handle", "answer"}]
    <3>1. ASSUME NEW r, Answer(c, r), UNCHANGED handled PROVE <2>2!:
      BY <1>0, <3>1, AnswerIs DEF PerClient
    <3>2. ASSUME NEW r, handled' = [handled EXCEPT ![c] = r], Goto(c, "handle"), UNCHANGED resp
          PROVE  <2>2!:
      BY <1>0, <3>2 DEF Goto, TypeOK, PerClient
    <3>3. ASSUME Goto(c, "none"), UNCHANGED <<handled, resp>> PROVE <2>2!:
      BY <1>0, <3>3 DEF Goto, TypeOK, PerClient
    <3> QED BY <1>5, <3>1, <3>2, <3>3 DEF Parse
  <2> QED BY <1>0, <1>1, <2>1, <2>2 DEF TypeOK, PerClient, Same, clientVars
<1>6. CASE WriteBack(c)
  <2>1. /\ UNCHANGED <<got, handled, resp>>
        /\ \A d \in Clients \ {c} : back'[d] = back[d] /\ srv'[d] = srv[d]
        /\ srv' \in [Clients -> {"none", "queued", "head", "body", "parse", "handle", "answer"}]
    BY <1>0, <1>6 DEF WriteBack, Goto, TypeOK
  <2>2. back' \in [Clients -> 0 .. 2]
    BY <1>0, <1>6 DEF WriteBack, TypeOK, RequestInv, Local, Telling
  <2> QED BY <1>0, <1>1, <2>1, <2>2 DEF TypeOK, PerClient, Same, clientVars
<1> QED BY <1>1, <1>2, <1>3, <1>4, <1>5, <1>6 DEF Reads, clientVars

LEMMA ReadsStep ==
    ASSUME RequestInv, NEW c \in Clients, Reads(c)
    PROVE  Local(c)'
<1>0. /\ TypeOK /\ PerClient /\ Sending(c) /\ Reading(c) /\ Telling(c) /\ Seeing(c)
      /\ Prefix + Payload \in Nat /\ Prefix \in 0 .. Prefix + Payload
  BY LengthIs DEF RequestInv, Local
<1>1. UNCHANGED <<clientVars, creds, sessions, seen>> /\ user' = user /\ task' = task
  BY DEF Reads, Accept, ReadHead, ReadBody, ReadFails, Parse, WriteBack, clientVars
<1>2. srv[c] # "none"
  BY DEF Reads, Accept, ReadHead, ReadBody, ReadFails, Parse, WriteBack
<1>3. /\ Started(c) /\ Started(c)' /\ \A j : Faithful(c, j)' = Faithful(c, j)
      /\ answer[c] = None
  <2>1. Started(c)
    BY <1>0, <1>2 DEF Sending
  <2>2. Started(c)' /\ \A j : Faithful(c, j)' = Faithful(c, j)
    BY <1>1, <2>1, MeantSame DEF Started, clientVars
  <2>3. back[c] # 2
    BY <1>0, <1>2 DEF Telling
  <2> QED BY <1>0, <2>1, <2>2, <2>3 DEF Telling
<1>4. Sending(c)' /\ Seeing(c)'
  BY <1>0, <1>1, <1>2, <1>3 DEF Sending, Seeing, clientVars
<1> SUFFICES Reading(c)' /\ Telling(c)'
  BY <1>4 DEF Local
<1>5. ASSUME handled'[c] = handled[c] PROVE Dispatched(c)' = Dispatched(c)
  BY <1>1, <1>3, <1>5 DEF Dispatched, clientVars
<1>6. ASSUME handled'[c] = handled[c], resp'[c] = resp[c], Truthful(c) PROVE Truthful(c)'
  BY <1>1, <1>6, TruthfulStays
<1>7. ASSUME NEW id, NEW reason, Answer(c, Error(id, reason)), UNCHANGED <<handled, back>>, handled[c] = None,
             back[c] = 0
      PROVE  Reading(c)' /\ Telling(c)'
  <2>1. resp'[c] = to_json(Error(id, reason)) /\ srv'[c] = "answer"
    BY <1>7, AnswerIs
  <2>2. Truthful(c)'
    BY <1>1, <1>7, <2>1, ErrorTrue, AnswerTruthful
  <2> QED BY <1>1, <1>3, <1>7, <2>1, <2>2 DEF Reading, Telling, clientVars
<1>8. ASSUME UNCHANGED <<handled, resp, back>>, handled[c] = None, back[c] = 0,
             srv'[c] \in {"none", "head", "body"} \/ (srv'[c] = "parse" /\ sent[c] = Prefix + Payload)
      PROVE  Reading(c)' /\ Telling(c)'
  BY <1>1, <1>3, <1>8 DEF Reading, Telling, clientVars
<1>9. CASE Accept(c)
  <2>1. handled[c] = None /\ back[c] = 0
    BY <1>0, <1>9 DEF Accept, Reading
  <2>2. CASE Goto(c, "head") /\ UNCHANGED resp
    BY <1>0, <1>8, <1>9, <2>1, <2>2 DEF Accept, Goto, TypeOK
  <2>3. CASE Answer(c, Error(Empty, "internal_error"))
    BY <1>7, <1>9, <2>1, <2>3 DEF Accept
  <2> QED BY <1>9, <2>2, <2>3 DEF Accept
<1>10. CASE ReadHead(c)
  <2>1. handled[c] = None /\ back[c] = 0 /\ UNCHANGED <<handled, resp, back>> /\ srv[c] = "head"
    BY <1>0, <1>10 DEF ReadHead, Reading
  <2>2. srv'[c] \in {"none", "head", "body"}
    BY <1>0, <1>10, <2>1, ReadExactIs DEF ReadHead
  <2> QED BY <1>8, <2>1, <2>2
<1>11. CASE ReadBody(c)
  <2>1. handled[c] = None /\ back[c] = 0 /\ UNCHANGED <<handled, resp, back>> /\ srv[c] = "body"
    BY <1>0, <1>11 DEF ReadBody, Reading
  <2>2. srv'[c] = "body" \/ (srv'[c] = "parse" /\ got'[c] = Prefix + Payload)
    BY <1>0, <1>11, <2>1, ReadExactIs DEF ReadBody
  <2>3. got'[c] <= sent[c] /\ sent[c] \in 0 .. Prefix + Payload
    BY <1>0, <1>11, ReadExactIs DEF ReadBody, TypeOK
  <2>4. srv'[c] = "parse" => sent[c] = Prefix + Payload
    BY <1>0, <2>2, <2>3
  <2> QED BY <1>8, <2>1, <2>2, <2>4
<1>12. CASE ReadFails(c)
  BY <1>0, <1>8, <1>12 DEF ReadFails, Goto, TypeOK, Reading
<1>13. CASE Parse(c)
  <2>1. handled[c] = None /\ back[c] = 0 /\ back' = back /\ sent[c] = Prefix + Payload
    BY <1>0, <1>13 DEF Parse, Reading
  <2> DEFINE j == frame[c].payload
             id == IF "request_id" \in DOMAIN j THEN j["request_id"] ELSE Str(Empty)
  <2>2. CASE /\ j # Garbage /\ Parses(j)
             /\ handled' = [handled EXCEPT ![c] = parse_request(j)]
             /\ Goto(c, "handle") /\ UNCHANGED resp
    <3>1. handled'[c] = parse_request(j) /\ srv'[c] = "handle"
      BY <1>0, <2>2 DEF Goto, TypeOK, PerClient
    <3>2. Dispatched(c)'
      BY <1>1, <1>3, <2>1, <2>2, <3>1 DEF Dispatched, clientVars
    <3> QED BY <1>1, <1>3, <2>1, <3>1, <3>2 DEF Reading, Telling, clientVars
  <2>3. CASE Answer(c, Error(id[2], "internal_error")) /\ UNCHANGED handled
    BY <1>7, <2>1, <2>3
  <2>4. CASE Goto(c, "none") /\ UNCHANGED <<handled, resp>>
    BY <1>0, <1>8, <2>1, <2>4 DEF Goto, TypeOK
  <2> QED BY <1>13, <2>2, <2>3, <2>4 DEF Parse
<1>14. CASE WriteBack(c)
  <2>1. /\ srv[c] = "answer" /\ UNCHANGED <<handled, resp>> /\ Truthful(c)'
        /\ back[c] \in {0, 1} /\ srv'[c] \in {"answer", "none"}
    BY <1>0, <1>6, <1>14 DEF WriteBack, Goto, TypeOK, Telling
  <2>2. srv'[c] = "answer" => back'[c] < 2
    BY <1>0, <1>14, <2>1 DEF WriteBack, Goto, TypeOK
  <2>3. Reading(c)'
    BY <1>0, <1>5, <2>1 DEF Reading
  <2>4. Telling(c)'
    BY <1>1, <1>3, <2>1, <2>2 DEF Telling, clientVars
  <2> QED BY <2>3, <2>4
<1> QED BY <1>9, <1>10, <1>11, <1>12, <1>13, <1>14 DEF Reads

-----------------------------------------------------------------------------
(* The handlers. *)

\* What a request that is dispatched has, and that its connection has seen what is on disk.
LEMMA HandlingIs ==
    ASSUME RequestInv, NEW c \in Clients, srv[c] = "handle"
    PROVE  /\ Dispatched(c) /\ Started(c) /\ back[c] = 0 /\ answer[c] = None /\ creds \in seen[c]
           /\ handled[c].type \in RequestTypes
           /\ handled[c].type \in {"auth", "enroll_start", "list", "remove"} =>
                 handled[c].uid \in Uids /\ handled[c].uid = Meant(c)
           /\ handled[c].type \in {"enroll_start", "remove"} => handled[c].label \in Names
           /\ Peer(c) \in Uids
<1>0. /\ TypeOK /\ Sending(c) /\ Reading(c) /\ Telling(c) /\ Seeing(c)
  BY DEF RequestInv, Local
<1>1. Dispatched(c) /\ Started(c) /\ back[c] = 0 /\ answer[c] = None /\ creds \in seen[c]
  BY <1>0 DEF Reading, Dispatched, Telling, Seeing
<1> DEFINE j == frame[c].payload
<1>2. WellFormed(j) /\ Parses(j) /\ handled[c] = parse_request(j) /\ Faithful(c, j)
  BY <1>0, <1>1 DEF Dispatched, Sending
<1>3. /\ handled[c].type \in RequestTypes
      /\ handled[c].type \in {"auth", "enroll_start", "list", "remove"} =>
            "uid" \in DOMAIN handled[c] /\ handled[c].uid \in Uids
      /\ handled[c].type \in {"enroll_start", "remove"} => handled[c].label \in Names
  BY <1>2, ParsedSays, ParsedUid
<1> QED BY <1>0, <1>1, <1>2, <1>3, UserIs DEF Faithful, Peer

\* What a step of the client's connection has to show: the rest follows from it.
Good(c) ==
    /\ TypeOK' /\ PerClient' /\ user' = user /\ task' = task
    /\ Local(c)'
    /\ \A d \in Clients \ {c} : Same(d) /\ Grows(d)

LEMMA LeaveIs ==
    ASSUME RequestInv, NEW cs, NEW ss, Leave(cs, ss)
    PROVE  /\ creds' = cs /\ sessions' = ss /\ seen' = [d \in Clients |-> seen'[d]]
           /\ \A d \in Clients : Grows(d) /\ (srv[d] # "none" => seen'[d] = seen[d] \cup {cs})
BY DEF RequestInv, PerClient, Leave, Grows

LEMMA HandleGood ==
    ASSUME RequestInv, NEW c \in Clients, srv[c] = "handle",
           NEW r, NEW cs \in [Uids -> Account], NEW ss \in [Sessions -> Opened \cup {None, Gone}],
           Handle(c, r, cs, ss), r["request_id"] = Id(c), TrueOf(c, handled[c], r, seen[c] \cup {cs})
    PROVE  Good(c)
<1>0. TypeOK /\ PerClient /\ Sending(c) /\ Reading(c)
  BY DEF RequestInv, Local
<1>1. /\ Answer(c, r) /\ Leave(cs, ss) /\ UNCHANGED <<got, handled, back, clientVars>>
  BY DEF Handle
<1>2. /\ creds' = cs /\ sessions' = ss /\ seen' = [d \in Clients |-> seen'[d]]
      /\ seen'[c] = seen[c] \cup {cs} /\ \A d \in Clients : Grows(d)
  BY <1>1, LeaveIs
<1>3. /\ resp'[c] = to_json(r) /\ srv'[c] = "answer"
      /\ \A d \in Clients \ {c} : resp'[d] = resp[d] /\ srv'[d] = srv[d]
      /\ resp' = [d \in Clients |-> resp'[d]]
      /\ srv' \in [Clients -> {"none", "queued", "head", "body", "parse", "handle", "answer"}]
  BY <1>1, AnswerIs
<1>4. user' = user /\ task' = task /\ UNCHANGED <<cli, frame, sent, answer>>
  BY <1>1 DEF clientVars
<1>5. TypeOK' /\ PerClient'
  BY <1>0, <1>1, <1>2, <1>3, <1>4 DEF TypeOK, PerClient
<1>6. \A d \in Clients \ {c} : Same(d)
  BY <1>1, <1>3, <1>4 DEF Same
<1>7. Local(c)'
  <2>1. /\ Dispatched(c) /\ Started(c) /\ back[c] = 0 /\ answer[c] = None
    BY HandlingIs
  <2>2. Started(c)' /\ Dispatched(c)' /\ \A j : Faithful(c, j)' = Faithful(c, j)
    BY <1>1, <1>4, <2>1, MeantSame DEF Started, Dispatched
  <2>3. Truthful(c)'
    BY <1>1, <1>2, <1>3, <1>4, AnswerTruthful DEF Id
  <2>4. Sending(c)'
    BY <1>0, <1>4, <2>1, <2>2 DEF Sending
  <2>5. Reading(c)' /\ Seeing(c)'
    BY <1>2, <1>3, <2>2 DEF Reading, Seeing
  <2>6. Telling(c)'
    BY <1>1, <1>3, <1>4, <2>1, <2>3 DEF Telling
  <2> QED BY <2>4, <2>5, <2>6 DEF Local
<1> QED BY <1>2, <1>4, <1>5, <1>6, <1>7 DEF Good

\* An exception that nobody answers.
LEMMA ThrowGood ==
    ASSUME RequestInv, NEW c \in Clients, srv[c] = "handle", Goto(c, "none"),
           NEW cs \in [Uids -> Account], Leave(cs, sessions),
           UNCHANGED <<got, handled, resp, back, clientVars>>
    PROVE  Good(c)
<1>0. TypeOK /\ PerClient /\ Sending(c) /\ Reading(c)
  BY DEF RequestInv, Local
<1>1. /\ creds' = cs /\ sessions' = sessions /\ seen' = [d \in Clients |-> seen'[d]]
      /\ \A d \in Clients : Grows(d)
  BY LeaveIs
<1>2. /\ srv'[c] = "none" /\ \A d \in Clients \ {c} : srv'[d] = srv[d]
      /\ srv' \in [Clients -> {"none", "queued", "head", "body", "parse", "handle", "answer"}]
  BY <1>0 DEF Goto, TypeOK
<1>3. user' = user /\ task' = task /\ UNCHANGED <<cli, frame, sent, answer>>
  BY DEF clientVars
<1>4. TypeOK' /\ PerClient'
  BY <1>0, <1>1, <1>2, <1>3 DEF TypeOK, PerClient
<1>5. \A d \in Clients \ {c} : Same(d)
  BY <1>2, <1>3 DEF Same
<1>6. Local(c)'
  <2>1. /\ Dispatched(c) /\ Started(c) /\ back[c] = 0 /\ answer[c] = None
    BY HandlingIs
  <2>2. Started(c)' /\ Dispatched(c)' /\ \A j : Faithful(c, j)' = Faithful(c, j)
    BY <1>3, <2>1, MeantSame DEF Started, Dispatched
  <2>3. Sending(c)'
    BY <1>0, <1>3, <2>1, <2>2 DEF Sending
  <2>4. Reading(c)' /\ Seeing(c)' /\ Telling(c)'
    BY <1>2, <1>3, <2>1, <2>2 DEF Reading, Seeing, Telling
  <2> QED BY <2>3, <2>4 DEF Local
<1> QED BY <1>1, <1>3, <1>4, <1>5, <1>6 DEF Good

\* What each of the handlers answers is true.
LEMMA PlainTrue ==
    ASSUME NEW c, NEW i, NEW done, NEW S, NEW best, NEW would
    PROVE  /\ TrueOf(c, handled[c], Progress(c, i, done), S) /\ Progress(c, i, done)["request_id"] = Id(c)
           /\ LET r == [type |-> "enroll_done", request_id |-> Id(c), label |-> best]
              IN TrueOf(c, handled[c], r, S) /\ r["request_id"] = Id(c)
           /\ LET r == [type |-> "test_result", request_id |-> Id(c), best_match |-> best,
                        would_auth |-> would, reason |-> "ok"]
              IN TrueOf(c, handled[c], r, S) /\ r["request_id"] = Id(c)
<1>1. TrueOf(c, handled[c], Progress(c, i, done), S) /\ Progress(c, i, done)["request_id"] = Id(c)
  BY DEF TrueOf, Progress
<1>2. LET r == [type |-> "enroll_done", request_id |-> Id(c), label |-> best]
      IN TrueOf(c, handled[c], r, S) /\ r["request_id"] = Id(c)
  BY DEF TrueOf
<1>3. LET r == [type |-> "test_result", request_id |-> Id(c), best_match |-> best,
                would_auth |-> would, reason |-> "ok"]
      IN TrueOf(c, handled[c], r, S) /\ r["request_id"] = Id(c)
  BY DEF TrueOf
<1> QED BY <1>1, <1>2, <1>3

LEMMA AuthTrue ==
    ASSUME NEW c, NEW ok \in BOOLEAN, NEW reason, NEW label, NEW S,
           ok => Entitled(c, Meant(c)) /\ \E cs \in S : label \in Known(cs[Meant(c)])
    PROVE  TrueOf(c, handled[c], AuthResult(c, ok, reason, label), S)
           /\ AuthResult(c, ok, reason, label)["request_id"] = Id(c)
<1> DEFINE r == AuthResult(c, ok, reason, label)
<1>1. /\ DOMAIN r = {"type", "request_id", "success", "reason", "matched_label"}
      /\ r["type"] = "auth_result" /\ r["request_id"] = Id(c) /\ r["success"] = ok
      /\ r["matched_label"] = label
  BY DEF AuthResult
<1> HIDE DEF r
<1>2. TrueOf(c, handled[c], r, S)
  BY <1>1 DEF TrueOf
<1> QED BY <1>1, <1>2 DEF r

\* A handler that changes nothing on disk and no session.
LEMMA QuietGood ==
    ASSUME RequestInv, NEW c \in Clients, srv[c] = "handle", NEW r, Handle(c, r, creds, sessions),
           r["request_id"] = Id(c), TrueOf(c, handled[c], r, seen[c])
    PROVE  Good(c) /\ creds' = creds /\ sessions' = sessions
<1>1. creds \in seen[c] /\ seen[c] \cup {creds} = seen[c]
  BY HandlingIs
<1>2. creds \in [Uids -> Account] /\ sessions \in [Sessions -> Opened \cup {None, Gone}]
  BY DEF RequestInv, TypeOK
<1> QED BY <1>1, <1>2, HandleGood DEF Handle, Leave

LEMMA AuthGood ==
    ASSUME RequestInv, NEW c \in Clients, handle_auth(c)
    PROVE  Good(c) /\ creds' = creds /\ sessions' = sessions
<1>1. srv[c] = "handle" /\ handled[c].type = "auth"
  BY DEF handle_auth, Handling
<1>2. handled[c].uid = Meant(c) /\ creds \in seen[c]
  BY <1>1, HandlingIs
<1>3. ASSUME NEW l \in Known(creds[handled[c].uid]), authorise(c),
             Handle(c, AuthResult(c, TRUE, "matched", l), creds, sessions)
      PROVE  Good(c) /\ creds' = creds /\ sessions' = sessions
  <2>1. Entitled(c, Meant(c)) /\ \E cs \in seen[c] : l \in Known(cs[Meant(c)])
    BY <1>2, <1>3 DEF authorise, Peer, Entitled
  <2> QED BY <1>1, <1>3, <2>1, AuthTrue, QuietGood
<1>4. ASSUME NEW reason, Handle(c, AuthResult(c, FALSE, reason, Empty), creds, sessions)
      PROVE  Good(c) /\ creds' = creds /\ sessions' = sessions
  BY <1>1, <1>4, AuthTrue, QuietGood
<1> QED BY <1>3, <1>4 DEF handle_auth

LEMMA TestGood ==
    ASSUME RequestInv, NEW c \in Clients, handle_test(c)
    PROVE  Good(c) /\ creds' = creds /\ sessions' = sessions
BY PlainTrue, QuietGood DEF handle_test, Handling

LEMMA DeniedGood ==
    ASSUME RequestInv, NEW c \in Clients, srv[c] = "handle", NEW reason,
           Handle(c, Error(Id(c), reason), creds, sessions)
    PROVE  Good(c) /\ creds' = creds /\ sessions' = sessions
BY ErrorTrue, QuietGood

\* A session is opened by root, for the account it means.
LEMMA StartGood ==
    ASSUME RequestInv, NEW c \in Clients, handle_start(c)
    PROVE  /\ Good(c) /\ creds' = creds
           /\ \/ sessions' = sessions
              \/ \E i \in Sessions, s \in Opened :
                    /\ sessions' = [sessions EXCEPT ![i] = s]
                    /\ s.by = c /\ user[c].uid = 0 /\ s.uid = Meant(c)
<1>1. srv[c] = "handle" /\ handled[c].type = "enroll_start"
  BY DEF handle_start, Handling
<1>2. /\ handled[c].uid \in Uids /\ handled[c].uid = Meant(c) /\ handled[c].label \in Names
  BY <1>1, HandlingIs
<1>3. ASSUME NEW reason, Handle(c, Error(Id(c), reason), creds, sessions)
      PROVE  Good(c) /\ creds' = creds /\ sessions' = sessions
  BY <1>1, <1>3, DeniedGood
<1> DEFINE s == [uid |-> handled[c].uid, label |-> handled[c].label, by |-> c]
<1>4. ASSUME enroll_authorised(c), ~InvalidLabel(handled[c].label),
             \E i \in Sessions : sessions[i] = None,
             Handle(c, Progress(c, Fresh, FALSE), creds, [sessions EXCEPT ![Fresh] = s])
      PROVE  /\ Good(c) /\ creds' = creds /\ Fresh \in Sessions /\ s \in Opened
             /\ sessions' = [sessions EXCEPT ![Fresh] = s] /\ user[c].uid = 0
  <2>1. Fresh \in Sessions
    BY <1>4 DEF Fresh
  <2>2. s \in Opened
    BY <1>2, <1>4 DEF InvalidLabel, Names, Opened
  <2>3. [sessions EXCEPT ![Fresh] = s] \in [Sessions -> Opened \cup {None, Gone}]
    BY <2>2 DEF RequestInv, TypeOK
  <2>4. creds \in [Uids -> Account]
    BY DEF RequestInv, TypeOK
  <2>5. Good(c)
    <3> DEFINE r == Progress(c, Fresh, FALSE)
               ss == [sessions EXCEPT ![Fresh] = s]
    <3>1. TrueOf(c, handled[c], r, seen[c] \cup {creds}) /\ r["request_id"] = Id(c)
      BY PlainTrue
    <3>2. Handle(c, r, creds, ss) /\ ss \in [Sessions -> Opened \cup {None, Gone}]
      BY <1>4, <2>3
    <3> HIDE DEF r, ss
    <3> QED BY <1>1, <2>4, <3>1, <3>2, HandleGood
  <2>6. creds' = creds /\ sessions' = [sessions EXCEPT ![Fresh] = s] /\ user[c].uid = 0
    BY <1>4 DEF Handle, Leave, enroll_authorised, Peer
  <2> QED BY <2>1, <2>2, <2>5, <2>6
<1>5. s.by = c /\ s.uid = handled[c].uid
  OBVIOUS
<1> QED BY <1>2, <1>3, <1>4, <1>5 DEF handle_start, Denied

LEMMA FrameGood ==
    ASSUME RequestInv, NEW c \in Clients, handle_frame(c)
    PROVE  Good(c) /\ creds' = creds /\ sessions' = sessions
<1>1. srv[c] = "handle"
  BY DEF handle_frame, Handling
<1>2. ASSUME Denied(c) PROVE Good(c) /\ creds' = creds /\ sessions' = sessions
  BY <1>1, <1>2, DeniedGood DEF Denied
<1>3. ASSUME NEW done \in BOOLEAN, Handle(c, Progress(c, handled[c].session, done), creds, sessions)
      PROVE  Good(c) /\ creds' = creds /\ sessions' = sessions
  BY <1>1, <1>3, PlainTrue, QuietGood
<1> QED BY <1>2, <1>3 DEF handle_frame

\* A session is finished for the account and under the label it was opened with.
LEMMA FinishGood ==
    ASSUME RequestInv, NEW c \in Clients, handle_finish(c)
    PROVE  /\ Good(c)
           /\ \/ creds' = creds /\ sessions' = sessions
              \/ \E i \in Sessions :
                    LET s == sessions[i]
                    IN /\ i = handled[c].session /\ s \notin {None, Gone} /\ s \in Opened
                       /\ user[c].uid = 0
                       /\ creds' = [creds EXCEPT ![s.uid] =
                                        [disk |-> @.disk \cup {s.label}, ghosts |-> {}]]
                       /\ sessions' = [sessions EXCEPT ![i] = Gone]
<1>1. srv[c] = "handle"
  BY DEF handle_finish, Handling
<1>2. ASSUME NEW reason, Handle(c, Error(Id(c), reason), creds, sessions)
      PROVE  Good(c) /\ creds' = creds /\ sessions' = sessions
  BY <1>1, <1>2, DeniedGood
<1> DEFINE i == handled[c].session
           s == sessions[i]
           cs == [creds EXCEPT ![s.uid] = [disk |-> @.disk \cup {s.label}, ghosts |-> {}]]
           ss == [sessions EXCEPT ![i] = Gone]
<1>3. ASSUME enroll_authorised(c), Found(c),
             Handle(c, [type |-> "enroll_done", request_id |-> Id(c), label |-> s.label], cs, ss)
      PROVE  /\ Good(c) /\ i \in Sessions /\ s \notin {None, Gone} /\ s \in Opened
             /\ user[c].uid = 0 /\ creds' = cs /\ sessions' = ss
  <2>1. i \in Sessions /\ s \notin {None, Gone} /\ s \in Opened
    BY <1>3 DEF Found, RequestInv, TypeOK
  <2>2. s.uid \in Uids /\ s.label \in Labels
    BY <2>1 DEF Opened
  <2>3. cs \in [Uids -> Account] /\ ss \in [Sessions -> Opened \cup {None, Gone}]
    BY <2>2 DEF RequestInv, TypeOK, Account
  <2>4. creds' = cs /\ sessions' = ss /\ user[c].uid = 0
    BY <1>3 DEF Handle, Leave, enroll_authorised, Peer
  <2> HIDE DEF cs, ss
  <2>5. Good(c)
    BY <1>1, <1>3, <2>3, PlainTrue, HandleGood
  <2> QED BY <2>1, <2>4, <2>5
<1> QED BY <1>2, <1>3 DEF handle_finish, Denied

LEMMA ListGood ==
    ASSUME RequestInv, NEW c \in Clients, handle_list(c)
    PROVE  Good(c) /\ creds' = creds /\ sessions' = sessions
<1> DEFINE target == IF Peer(c) = 0 /\ handled[c].uid # 0 THEN handled[c].uid ELSE Peer(c)
<1>1. PICK some \in SUBSET Known(creds[target]) :
         Handle(c, [type |-> "list_result", request_id |-> Id(c), enrollments |-> some],
                creds, sessions)
  BY DEF handle_list
<1>2. srv[c] = "handle" /\ handled[c].type = "list"
  BY DEF handle_list, Handling
<1>3. handled[c].uid \in Uids /\ handled[c].uid = Meant(c) /\ Peer(c) \in Uids /\ creds \in seen[c]
  BY <1>2, HandlingIs
<1>4. target \in Uids /\ Entitled(c, target)
  BY <1>3 DEF Entitled, Peer
<1>5. task[c].prog = "cli" => target = Meant(c)
  BY <1>3 DEF Meant, Peer
<1> DEFINE r == [type |-> "list_result", request_id |-> Id(c), enrollments |-> some]
<1>6. /\ DOMAIN r = {"type", "request_id", "enrollments"} /\ r["type"] = "list_result"
      /\ r["request_id"] = Id(c) /\ r["enrollments"] \subseteq Known(creds[target])
  OBVIOUS
<1>7. Handle(c, r, creds, sessions)
  BY <1>1
<1> HIDE DEF r, target
<1>8. TrueOf(c, handled[c], r, seen[c])
  BY <1>3, <1>4, <1>5, <1>6 DEF TrueOf
<1> QED BY <1>2, <1>6, <1>7, <1>8, QuietGood

\* Unlinking takes enrollments away and adds none.
LEMMA WithoutIs ==
    ASSUME creds \in [Uids -> Account], NEW gone, NEW erased
    PROVE  /\ Without(gone, erased) \in [Uids -> Account]
           /\ \A u \in Uids :
                 Without(gone, erased)[u].disk = { l \in creds[u].disk : <<u, l>> \notin gone }
<1> DEFINE ws == Without(gone, erased)
<1>1. ASSUME NEW u \in Uids
      PROVE  ws[u] \in Account /\ ws[u].disk = { l \in creds[u].disk : <<u, l>> \notin gone }
  <2> DEFINE went == { l \in Labels : <<u, l>> \in gone }
  <2>1. ws[u] = [disk |-> creds[u].disk \ went,
                 ghosts |-> IF u \in erased THEN {} ELSE creds[u].ghosts \cup went]
    BY DEF Without
  <2>2. creds[u].disk \subseteq Labels /\ creds[u].ghosts \subseteq Labels
    BY DEF Account
  <2>3. creds[u].disk \ went = { l \in creds[u].disk : <<u, l>> \notin gone }
    BY <2>2
  <2> QED BY <2>1, <2>2, <2>3 DEF Account
<1>2. ws = [u \in Uids |-> ws[u]]
  BY DEF Without
<1> HIDE DEF ws
<1>3. ws \in [Uids -> Account]
  BY <1>1, <1>2
<1> QED BY <1>1, <1>3 DEF ws

\* The files that a request names are pairs.
LEMMA NamedIs ==
    ASSUME NEW u \in Uids, NEW label \in Names, NEW f \in Named(u, label)
    PROVE  f \in Uids \X Labels
<1>1. CASE label = Empty
  BY <1>1 DEF Named
<1>2. CASE label # Empty /\ label \in BadLabels
  <2>1. f \in Reach[<<u, label>>]
    BY <1>2 DEF Named
  <2>2. Reach[<<u, label>>] \in SUBSET (Uids \X Labels)
    BY <1>2, RequestsAssumption DEF RequestsAssumption
  <2> QED BY <2>1, <2>2
<1>3. CASE label # Empty /\ label \notin BadLabels
  BY <1>3 DEF Named, Names
<1> QED BY <1>1, <1>2, <1>3

\* Only root removes, and only what the request names.
Removal(c) ==
    \E gone, erased : /\ user[c].uid = 0 /\ gone \subseteq Named(Meant(c), handled[c].label)
                      /\ creds' = Without(gone, erased)

LEMMA RemoveGood ==
    ASSUME RequestInv, NEW c \in Clients, handle_remove(c)
    PROVE  Good(c) /\ sessions' = sessions /\ (creds' = creds \/ Removal(c))
<1> DEFINE uid == handled[c].uid
           label == handled[c].label
<1>1. srv[c] = "handle" /\ handled[c].type = "remove"
  BY DEF handle_remove, Handling
<1>2. uid \in Uids /\ uid = Meant(c) /\ creds \in seen[c] /\ label \in Names
  BY <1>1, HandlingIs
<1>3. ASSUME Denied(c) PROVE Good(c) /\ creds' = creds /\ sessions' = sessions
  BY <1>1, <1>3, DeniedGood DEF Denied
<1>4. ASSUME Peer(c) = 0, NEW gone \in Unlinked(uid, label), NEW erased,
             Handle(c, RemoveResult(c, gone # {}), Without(gone, erased), sessions)
      PROVE  Good(c) /\ sessions' = sessions /\ Removal(c)
  <2> DEFINE r == RemoveResult(c, gone # {})
             cs == Without(gone, erased)
  <2>1. creds \in [Uids -> Account] /\ sessions \in [Sessions -> Opened \cup {None, Gone}]
    BY DEF RequestInv, TypeOK
  <2>2. gone \subseteq Named(uid, label) /\ \A f \in gone : f[2] \in creds[f[1]].disk
    BY <1>4 DEF Unlinked
  <2>3. /\ cs \in [Uids -> Account]
        /\ \A u \in Uids : cs[u].disk = { l \in creds[u].disk : <<u, l>> \notin gone }
    BY <2>1, WithoutIs
  <2>4. /\ DOMAIN r = {"type", "request_id", "ok"} /\ r["type"] = "remove_result"
        /\ r["request_id"] = Id(c) /\ r["ok"] = (gone # {})
    BY DEF RemoveResult
  <2>5. creds' = cs /\ sessions' = sessions /\ user[c].uid = 0 /\ Handle(c, r, cs, sessions)
    BY <1>4 DEF Handle, Leave, Peer
  <2> HIDE DEF r, cs
  <2>6. ASSUME gone # {} PROVE Removed(Meant(c), handled[c], seen[c] \cup {cs})
    <3>1. PICK f : f \in gone
      BY <2>6
    <3>2. f \in Uids \X Labels /\ f \in Named(uid, label) /\ f[2] \in creds[f[1]].disk
      BY <1>2, <2>2, <3>1, NamedIs
    <3>3. f[1] \in Uids /\ <<f[1], f[2]>> = f
      BY <3>2
    <3>4. f[2] \notin cs[f[1]].disk
      BY <2>3, <3>1, <3>3
    <3>5. f[2] \in creds[f[1]].disk \ cs[f[1]].disk
      BY <3>2, <3>4
    <3>6. creds \in seen[c] \cup {cs} /\ cs \in seen[c] \cup {cs}
      BY <1>2
    <3> QED BY <1>2, <3>2, <3>5, <3>6 DEF Removed
  <2>7. TrueOf(c, handled[c], r, seen[c] \cup {cs})
    BY <2>4, <2>6 DEF TrueOf
  <2>8. Good(c)
    BY <1>1, <2>1, <2>3, <2>4, <2>5, <2>7, HandleGood
  <2> QED BY <1>2, <2>2, <2>5, <2>8 DEF cs, Removal
<1> QED BY <1>2, <1>3, <1>4 DEF handle_remove

LEMMA ThrowsGood ==
    ASSUME RequestInv, NEW c \in Clients, HandlerThrows(c)
    PROVE  /\ Good(c) /\ sessions' = sessions
           /\ creds' = creds \/ (handled[c].type = "remove" /\ Removal(c))
<1>1. /\ srv[c] = "handle" /\ Goto(c, "none") /\ UNCHANGED <<got, handled, resp, back, clientVars>>
      /\ creds \in [Uids -> Account]
  BY DEF HandlerThrows, RequestInv, TypeOK
<1>2. ASSUME Leave(creds, sessions) PROVE Good(c) /\ sessions' = sessions /\ creds' = creds
  BY <1>1, <1>2, ThrowGood DEF Leave
<1>3. ASSUME handled[c].type = "remove", handled[c].label = Empty, Peer(c) = 0,
             NEW gone \in Unlinked(handled[c].uid, Empty), Leave(Without(gone, {}), sessions)
      PROVE  Good(c) /\ sessions' = sessions /\ Removal(c)
  <2>1. handled[c].uid = Meant(c)
    BY <1>1, <1>3, HandlingIs
  <2>2. gone \subseteq Named(Meant(c), handled[c].label)
    BY <1>3, <2>1 DEF Unlinked
  <2> DEFINE cs == Without(gone, {})
  <2>3. cs \in [Uids -> Account]
    BY <1>1, WithoutIs
  <2>4. Leave(cs, sessions) /\ creds' = cs /\ sessions' = sessions /\ user[c].uid = 0
    BY <1>3 DEF Leave, Peer
  <2>5. Removal(c)
    BY <2>2, <2>4 DEF Removal
  <2> HIDE DEF cs
  <2>6. Good(c)
    BY <1>1, <2>3, <2>4, ThrowGood
  <2> QED BY <2>4, <2>5, <2>6
<1> QED BY <1>2, <1>3 DEF HandlerThrows

-----------------------------------------------------------------------------
(* The invariant and the theorems. *)

LEMMA OpeningStays ==
    ASSUME RequestInv, user' = user, task' = task, NEW i \in Sessions,
           sessions'[i] = sessions[i] \/ sessions'[i] = Gone
    PROVE  Opening(i)'
<1>1. sessions[i] \in Opened \cup {None, Gone} /\ Opening(i)
  BY DEF RequestInv, TypeOK
<1>2. \A c : Meant(c)' = Meant(c)
  BY MeantSame
<1> QED BY <1>1, <1>2 DEF Opening

LEMMA DispatchStep ==
    ASSUME RequestInv, NEW c \in Clients, Dispatch(c)
    PROVE  Good(c) /\ \A i \in Sessions : Opening(i)'
<1>0. sessions \in [Sessions -> Opened \cup {None, Gone}]
  BY DEF RequestInv, TypeOK
<1>1. ASSUME Good(c), sessions' = sessions PROVE \A i \in Sessions : Opening(i)'
  BY <1>1, OpeningStays DEF Good
<1>2. CASE handle_start(c)
  <2>1. Good(c) /\ user' = user /\ task' = task
    BY <1>2, StartGood DEF Good
  <2>2. ASSUME NEW i \in Sessions, NEW s \in Opened, sessions' = [sessions EXCEPT ![i] = s],
               s.by = c, user[c].uid = 0, s.uid = Meant(c), NEW k \in Sessions
        PROVE  Opening(k)'
    <3>1. CASE k = i
      <4>1. sessions'[k] = s
        BY <1>0, <2>2, <3>1
      <4>2. Meant(c)' = Meant(c)
        BY <2>1, MeantSame
      <4> QED BY <2>1, <2>2, <4>1, <4>2 DEF Opening
    <3>2. CASE k # i
      BY <1>0, <2>1, <2>2, <3>2, OpeningStays
    <3> QED BY <3>1, <3>2
  <2> QED BY <1>1, <1>2, <2>1, <2>2, StartGood
<1>3. CASE handle_finish(c)
  <2>1. Good(c) /\ user' = user /\ task' = task
    BY <1>3, FinishGood DEF Good
  <2>2. \A i \in Sessions : sessions'[i] = sessions[i] \/ sessions'[i] = Gone
    BY <1>0, <1>3, FinishGood
  <2> QED BY <2>1, <2>2, OpeningStays
<1> QED BY <1>1, <1>2, <1>3, AuthGood, TestGood, FrameGood, ListGood, RemoveGood, ThrowsGood DEF Dispatch

LEMMA RequestStep == RequestInv /\ [Next]_vars => RequestInv'
<1> SUFFICES ASSUME RequestInv, [Next]_vars PROVE RequestInv'
  OBVIOUS
<1>1. ASSUME NEW c \in Clients, Good(c), \A i \in Sessions : Opening(i)' PROVE RequestInv'
  <2>1. ASSUME NEW d \in Clients \ {c} PROVE Local(d)'
    BY <1>1, LocalStays DEF Good, RequestInv
  <2> QED BY <1>1, <2>1 DEF Good, RequestInv
<1>2. ASSUME NEW c \in Clients, Client(c) \/ Reads(c) PROVE RequestInv'
  <2>1. /\ TypeOK' /\ PerClient' /\ UNCHANGED <<user, task, creds, sessions>> /\ Local(c)'
        /\ \A d \in Clients \ {c} : Same(d) /\ seen'[d] = seen[d]
    BY <1>2, ClientOthers, ClientStep, ReadsOthers, ReadsStep
  <2>2. \A i \in Sessions : Opening(i)'
    BY <2>1, OpeningStays
  <2>3. \A d \in Clients \ {c} : Grows(d)
    BY <2>1 DEF Grows, RequestInv, Local, Seeing
  <2> QED BY <1>1, <2>1, <2>2, <2>3 DEF Good
<1>3. ASSUME NEW c \in Clients, Dispatch(c) PROVE RequestInv'
  BY <1>1, <1>3, DispatchStep
<1>4. ASSUME NEW i \in Sessions, Reap(i) PROVE RequestInv'
  <2>1. /\ UNCHANGED <<clientVars, serverVars, creds, seen>> /\ user' = user /\ task' = task
        /\ sessions' = [sessions EXCEPT ![i] = Gone]
    BY <1>4 DEF Reap, clientVars
  <2>2. TypeOK' /\ PerClient'
    BY <2>1 DEF RequestInv, TypeOK, PerClient, clientVars, serverVars
  <2>3. \A d \in Clients : Same(d) /\ Grows(d)
    BY <2>1 DEF Same, Grows, clientVars, serverVars, RequestInv, Local, Seeing
  <2>4. \A d \in Clients : Local(d)'
    BY <2>1, <2>3, LocalStays DEF RequestInv
  <2>5. \A k \in Sessions : Opening(k)'
    BY <2>1, OpeningStays DEF RequestInv, TypeOK
  <2> QED BY <2>2, <2>4, <2>5 DEF RequestInv
<1>5. CASE UNCHANGED vars
  <2>1. \A d \in Clients : Same(d) /\ Grows(d)
    BY <1>5 DEF vars, Same, Grows, RequestInv, Local, Seeing
  <2>2. \A d \in Clients : Local(d)'
    BY <1>5, <2>1, LocalStays DEF RequestInv, vars
  <2>3. \A k \in Sessions : Opening(k)'
    BY <1>5, OpeningStays DEF vars
  <2> QED BY <1>5, <2>2, <2>3 DEF vars, RequestInv, TypeOK, PerClient
<1> QED BY <1>2, <1>3, <1>4, <1>5 DEF Next, Server, Reads

LEMMA RequestInit == Init => RequestInv
<1> SUFFICES ASSUME Init PROVE RequestInv
  OBVIOUS
<1>1. user \in [Clients -> Users] /\ task \in [Clients -> Tasks]
  <2>1. PICK job \in Jobs : /\ user = [c \in Clients |-> job[c].user]
                            /\ task = [c \in Clients |-> job[c].task]
    BY DEF Init
  <2>2. job \in [Clients -> [user : Users, task : Tasks]]
    BY RequestsAssumption DEF RequestsAssumption
  <2> QED BY <2>1, <2>2
<1>2. Prefix + Payload \in Nat /\ creds \in [Uids -> Account]
  BY LengthIs, RequestsAssumption DEF RequestsAssumption, Init, Account
<1>3. TypeOK
  BY <1>1, <1>2 DEF Init, TypeOK
<1>4. PerClient
  BY DEF Init, PerClient
<1>5. ASSUME NEW c \in Clients PROVE Local(c)
  BY DEF Init, Local, Sending, Started, Reading, Telling, Seeing
<1>6. \A i \in Sessions : Opening(i)
  BY DEF Init, Opening
<1> QED BY <1>3, <1>4, <1>5, <1>6 DEF RequestInv

LEMMA RequestInvAlways == Spec => []RequestInv
BY RequestInit, RequestStep, PTL DEF Spec

\* The type invariant: counters of bytes within a frame, labels that are file names, open
\* sessions of accounts the integers hold.
THEOREM RequestsTypeCorrect == Spec => []TypeOK
<1>1. RequestInv => TypeOK
  BY DEF RequestInv
<1> QED BY <1>1, RequestInvAlways, PTL

\* Nothing is dispatched but what a client has written whole, with the fields it wrote
\* and for the account it means.
THEOREM HandledAlwaysSent == Spec => []HandledIsSent
<1>1. ASSUME RequestInv, NEW c \in Clients, handled[c] # None
      PROVE  /\ sent[c] = Prefix + Payload
             /\ frame[c].payload # Garbage
             /\ \A f \in DOMAIN handled[c] \ {"uid"} :
                    f \in DOMAIN frame[c].payload => Says(frame[c].payload[f], f, handled[c][f])
             /\ "uid" \in DOMAIN handled[c] => handled[c].uid = Meant(c)
  <2>1. Dispatched(c) /\ Sending(c)
    BY <1>1 DEF RequestInv, Local, Reading
  <2>2. WellFormed(frame[c].payload) /\ Faithful(c, frame[c].payload)
    BY <2>1 DEF Sending, Dispatched
  <2> QED BY <2>1, <2>2, ParsedSays DEF Dispatched, Faithful
<1>2. RequestInv => HandledIsSent
  BY <1>1 DEF HandledIsSent
<1> QED BY <1>2, RequestInvAlways, PTL

\* What is on disk changes only by a dispatched request of root: a removal takes nothing but
\* what it names, which a good label keeps within the account meant, and a session is
\* finished for the account that the client that opened it meant.
THEOREM ChangesAlwaysAuthorised == Spec => ChangesAreAuthorised
<1>1. ASSUME RequestInv, [Next]_vars, NEW u \in Uids, creds'[u].disk # creds[u].disk
      PROVE  \E c \in Clients :
             /\ srv[c] = "handle" /\ srv'[c] # "handle" /\ user[c].uid = 0
             /\ \/ /\ handled[c].type = "remove" /\ creds'[u].disk \subseteq creds[u].disk
                   /\ \A l \in creds[u].disk \ creds'[u].disk :
                         <<u, l>> \in Named(Meant(c), handled[c].label)
                \/ /\ handled[c].type = "enroll_finish"
                   /\ LET s == sessions[handled[c].session]
                      IN /\ user[s.by].uid = 0 /\ Meant(s.by) = u
                         /\ creds'[u].disk = creds[u].disk \cup {s.label}
  <2>0. TypeOK /\ creds \in [Uids -> Account]
    BY <1>1 DEF RequestInv, TypeOK
  <2>1. creds' # creds
    BY <1>1
  <2>2. PICK c \in Clients : handle_finish(c) \/ handle_remove(c) \/ HandlerThrows(c)
    <3>1. ASSUME NEW c \in Clients, Client(c) \/ Reads(c) PROVE FALSE
      BY <1>1, <2>1, <3>1, ClientOthers, ReadsOthers
    <3>2. ASSUME NEW c \in Clients,
                 handle_auth(c) \/ handle_test(c) \/ handle_start(c) \/ handle_frame(c) \/ handle_list(c)
          PROVE  FALSE
      BY <1>1, <2>1, <3>2, AuthGood, TestGood, StartGood, FrameGood, ListGood
    <3>3. ~UNCHANGED vars /\ \A i \in Sessions : ~Reap(i)
      BY <2>1 DEF vars, Reap
    <3> QED BY <1>1, <3>1, <3>2, <3>3 DEF Next, Server, Reads, Dispatch
  <2>3. srv[c] = "handle" /\ srv'[c] # "handle"
    BY <2>0, <2>2 DEF handle_finish, handle_remove, HandlerThrows, Handling, Handle, Denied, Answer, Goto, TypeOK
  <2>4. CASE handle_finish(c)
    <3>1. PICK i \in Sessions :
                 /\ i = handled[c].session /\ sessions[i] \notin {None, Gone} /\ sessions[i] \in Opened
                 /\ user[c].uid = 0
                 /\ creds' = [creds EXCEPT ![sessions[i].uid] =
                                 [disk |-> @.disk \cup {sessions[i].label}, ghosts |-> {}]]
      BY <1>1, <2>1, <2>4, FinishGood
    <3>2. Opening(i) /\ sessions[i].uid \in Uids
      BY <1>1, <3>1 DEF RequestInv, Opened
    <3>3. u = sessions[i].uid /\ creds'[u].disk = creds[u].disk \cup {sessions[i].label}
      BY <1>1, <2>0, <3>1, <3>2
    <3>4. handled[c].type = "enroll_finish"
      BY <2>4 DEF handle_finish, Handling
    <3> QED BY <2>3, <3>1, <3>2, <3>3, <3>4 DEF Opening
  <2>5. CASE handle_remove(c) \/ HandlerThrows(c)
    <3>1. handled[c].type = "remove" /\ Removal(c)
      BY <1>1, <2>1, <2>5, RemoveGood, ThrowsGood DEF handle_remove, Handling
    <3>2. PICK gone, erased : /\ user[c].uid = 0
                              /\ gone \subseteq Named(Meant(c), handled[c].label)
                              /\ creds' = Without(gone, erased)
      BY <3>1 DEF Removal
    <3>3. creds'[u].disk = { l \in creds[u].disk : <<u, l>> \notin gone }
      BY <2>0, <3>2, WithoutIs
    <3>4. /\ creds'[u].disk \subseteq creds[u].disk
          /\ \A l \in creds[u].disk \ creds'[u].disk : <<u, l>> \in gone
      BY <3>3
    <3> QED BY <2>3, <3>1, <3>2, <3>4
  <2> QED BY <2>2, <2>4, <2>5
<1>2. RequestInv /\ [Next]_vars =>
        [\A u \in Uids : creds'[u].disk # creds[u].disk =>
          \E c \in Clients :
             /\ srv[c] = "handle" /\ srv'[c] # "handle" /\ user[c].uid = 0
             /\ \/ /\ handled[c].type = "remove" /\ creds'[u].disk \subseteq creds[u].disk
                   /\ \A l \in creds[u].disk \ creds'[u].disk :
                         <<u, l>> \in Named(Meant(c), handled[c].label)
                \/ /\ handled[c].type = "enroll_finish"
                   /\ LET s == sessions[handled[c].session]
                      IN /\ user[s.by].uid = 0 /\ Meant(s.by) = u
                         /\ creds'[u].disk = creds[u].disk \cup {s.label}
        ]_vars
  BY <1>1
<1> QED BY <1>2, RequestInvAlways, PTL DEF Spec, ChangesAreAuthorised

\* What a client is told is true of an account it may ask about, at some time of its
\* connection, up to removed enrollments that are still cached and unreadable ones that are
\* left out; the PAM module takes nothing but the daemon's word for a match.
THEOREM AnswersAlwaysTrue == Spec => []AnswersAreTrue
<1>1. ASSUME RequestInv, NEW c \in Clients, answer[c] # None
      PROVE  /\ Truthful(c)
             /\ answer[c] = IF task[c].prog = "pam" THEN json_bool(resp[c], "success") ELSE resp[c]
  BY <1>1 DEF RequestInv, Local, Telling
<1>2. ASSUME RequestInv, NEW c \in Clients, answer[c] # None, task[c].prog = "pam"
      PROVE  /\ answer[c] >= 0 => resp[c]["success"] = Bool(answer[c] = 1)
             /\ answer[c] = 1 => /\ Entitled(c, task[c].uid)
                                 /\ \E cs \in seen[c] :
                                       resp[c]["matched_label"][2] \in Known(cs[task[c].uid])
  <2>1. Truthful(c) /\ answer[c] = json_bool(resp[c], "success") /\ Meant(c) = task[c].uid
    BY <1>1, <1>2 DEF Meant
  <2>2. answer[c] = -1 \/ ("success" \in DOMAIN resp[c] /\ answer[c] = IF resp[c]["success"][2] THEN 1 ELSE 0)
    BY <2>1 DEF json_bool
  <2>3. Bool(TRUE)[2] = TRUE /\ Bool(FALSE)[2] = FALSE
    BY DEF Bool
  <2>4. answer[c] = -1 \/ (/\ "success" \in DOMAIN resp[c]
                           /\ \/ answer[c] = 1 /\ resp[c]["success"] = Bool(TRUE)
                              \/ answer[c] = 0 /\ resp[c]["success"] = Bool(FALSE))
    BY <2>1, <2>2, <2>3 DEF Truthful
  <2>5. CASE answer[c] = -1
    BY <2>5
  <2>6. CASE /\ "success" \in DOMAIN resp[c]
             /\ answer[c] = 1 /\ resp[c]["success"] = Bool(TRUE)
    <3>1. (answer[c] = 1) = TRUE
      BY <2>6
    <3>2. resp[c]["success"] = Bool(answer[c] = 1)
      BY <2>6, <3>1 DEF Bool
    <3>3. /\ Entitled(c, Meant(c))
          /\ \E cs \in seen[c] : resp[c]["matched_label"][2] \in Known(cs[Meant(c)])
      BY <2>1, <2>6 DEF Truthful
    <3> QED BY <2>1, <3>2, <3>3
  <2>7. CASE answer[c] = 0 /\ resp[c]["success"] = Bool(FALSE)
    <3>1. (answer[c] = 1) = FALSE
      BY <2>7
    <3>2. resp[c]["success"] = Bool(answer[c] = 1)
      BY <2>7, <3>1 DEF Bool
    <3>3. answer[c] # 1
      BY <2>7
    <3> QED BY <3>2, <3>3
  <2> QED BY <2>4, <2>5, <2>6, <2>7
<1>3. ASSUME RequestInv, NEW c \in Clients, answer[c] # None, task[c].prog # "pam"
      PROVE  /\ handled[c] # None => answer[c]["request_id"] = Str(handled[c].request_id)
             /\ answer[c]["type"][2] = "list_result" =>
                    \E cs \in seen[c], u \in Uids :
                        Entitled(c, u) /\ answer[c]["enrollments"][2] \subseteq Known(cs[u])
                        /\ (task[c].prog = "cli" => u = Meant(c))
             /\ answer[c]["type"][2] = "remove_result" /\ answer[c]["ok"][2] =>
                    \E before, after \in seen[c] :
                        \E f \in Named(Meant(c), handled[c].label) :
                            f[2] \in before[f[1]].disk \ after[f[1]].disk
  <2>1. Truthful(c) /\ answer[c] = resp[c]
    BY <1>1, <1>3
  <2> QED BY <2>1 DEF Truthful, Removed
<1>4. RequestInv => AnswersAreTrue
  BY <1>2, <1>3 DEF AnswersAreTrue
<1> QED BY <1>4, RequestInvAlways, PTL
=============================================================================
