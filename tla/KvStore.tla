------------------------------ MODULE KvStore ------------------------------
(***************************************************************************)
(* The key-value store: kv:<key> and its sidecar kv:<key>:enc, written by  *)
(* devices (routes_device.py, write_kv / delete_kv) and administrators     *)
(* (routes_admin.py, set_kv / delete_kv), read by devices (read_kv), with  *)
(* the per-client nonce of encrypted responses (next_kvenc_nonce).         *)
(*                                                                         *)
(* A write is two Redis commands, a read two or three; every one is a step *)
(* and a request may be aborted between them.  A value is the text it      *)
(* prints as and the type it is stored with: the string "129" and the      *)
(* number 129 print alike.                                                 *)
(***************************************************************************)
EXTENDS Integers, Sequences

CONSTANTS
  Keys,
  Clients,    \* reading clients
  Slots,      \* read requests of one client served at once
  Writers,    \* write requests served at once
  Texts,      \* what values print as
  JsonTexts,  \* the texts json.loads accepts: numbers, true, false, null
  MaxReads,   \* bound: encrypted responses to one client
  MaxClock    \* bound: last value of the clock

ASSUME KvAssumption ==
  /\ Keys # {}
  /\ JsonTexts \subseteq Texts /\ "" \notin JsonTexts
  /\ MaxReads \in Nat
  /\ MaxClock \in Nat

VARIABLES
  clock,   \* time.time() in whole seconds
  val,     \* kv:<key>
  enc,     \* is kv:<key>:enc there
  nonce,   \* kvenc:nonce:<client>; 0 if missing
  wr,      \* the write requests
  rd,      \* the read requests
  answer,  \* what each read request was last answered
  want,    \* history: the flag the last write of the value asked for
  torn,    \* history: the last write overlapped another one, or was aborted
  issued   \* history: the nonces given to each client, in order

storeVars == <<val, enc>>
histVars  == <<want, torn>>
readVars  == <<nonce, rd, answer, issued>>
vars == <<clock, storeVars, wr, histVars, readVars>>

Requests == Clients \X Slots
Client(r) == r[1]

Nil == [type |-> "nil", text |-> ""]

(* An empty body is stored as it is, and is not msgpack.                   *)
Empty == [type |-> "empty", text |-> ""]

Str(t) == [type |-> "str", text |-> t]
Json(t) == [type |-> "json", text |-> t]
Values == {Str(t) : t \in Texts \cup {""}} \cup {Json(t) : t \in JsonTexts} \cup {Empty}

Flags == {"set", "clear", "keep"}
WriteReq == [step : {"idle", "flag", "keep"}, key : Keys, flag : Flags]
ReadReq == [step : {"idle", "flag", "nonce"}, key : Keys, got : Values, now : Nat]
IdleWrite == [step |-> "idle", key |-> CHOOSE k \in Keys : TRUE, flag |-> "clear"]
IdleRead == [step |-> "idle", key |-> CHOOSE k \in Keys : TRUE, got |-> Empty, now |-> 0]
Kinds == {"none", "miss", "plain", "cipher", "error"}

Init ==
  /\ clock = 1
  /\ val = [k \in Keys |-> Nil]
  /\ enc = [k \in Keys |-> FALSE]
  /\ nonce = [c \in Clients |-> 0]
  /\ wr = [w \in Writers |-> IdleWrite]
  /\ rd = [r \in Requests |-> IdleRead]
  /\ answer = [r \in Requests |-> "none"]
  /\ want = [k \in Keys |-> FALSE]
  /\ torn = [k \in Keys |-> FALSE]
  /\ issued = [c \in Clients |-> <<>>]

---------------------------------------------------------------------------
(* Writes                                                                  *)

Writing(k) == {w \in Writers : wr[w].step # "idle" /\ wr[w].key = k}

(* SET kv:<key>.                                                           *)
BeginWrite(w, k, v, flag) ==
  /\ wr[w].step = "idle"
  /\ val' = [val EXCEPT ![k] = v]
  /\ wr' = [wr EXCEPT ![w] = [step |-> "flag", key |-> k, flag |-> flag]]
  /\ want' = [want EXCEPT ![k] = flag = "set" \/ (flag = "keep" /\ enc[k])]
  /\ torn' = [torn EXCEPT ![k] = Writing(k) # {}]
  /\ UNCHANGED <<clock, enc, readVars>>

(* POST /kv/<key> by a device: any value; text/plain bodies become strings *)
(* and the X-Encrypted header decides the flag.                            *)
DeviceWrite(w, k) ==
  \E v \in Values, flag \in {"set", "clear"} : BeginWrite(w, k, v, flag)

(* json.loads if the text allows it, the text itself if not.               *)
Decode(t) == IF t \in JsonTexts THEN Json(t) ELSE Str(t)

(* POST /api/admin/kv/<key>.                                               *)
AdminSet(w, k) ==
  \E t \in Texts, flag \in {"set", "clear"} : BeginWrite(w, k, Decode(t), flag)

(* Mutant: a bare write does not clear a flag left by an earlier one.      *)
WriteFlagSticky(w) ==
  /\ wr[w].step = "flag"
  /\ wr[w].flag # "keep"
  /\ enc' = [enc EXCEPT ![wr[w].key] = @ \/ wr[w].flag = "set"]
  /\ wr' = [wr EXCEPT ![w] = IdleWrite]
  /\ UNCHANGED <<clock, val, histVars, readVars>>

(* SET or DEL kv:<key>:enc.                                                *)
WriteFlag(w) ==
  /\ wr[w].step = "flag"
  /\ wr[w].flag # "keep"
  /\ enc' = [enc EXCEPT ![wr[w].key] = wr[w].flag = "set"]
  /\ wr' = [wr EXCEPT ![w] = IdleWrite]
  /\ UNCHANGED <<clock, val, histVars, readVars>>

(* Mutant: a field the catalog no longer names loses its flag.             *)
GetFlagDrops(w) ==
  /\ wr[w].step = "flag"
  /\ wr[w].flag = "keep"
  /\ enc' = [enc EXCEPT ![wr[w].key] = FALSE]
  /\ wr' = [wr EXCEPT ![w] = IdleWrite]
  /\ UNCHANGED <<clock, val, histVars, readVars>>

(* A form field the catalog does not name keeps the flag it finds: GET ... *)
GetFlag(w) ==
  /\ wr[w].step = "flag"
  /\ wr[w].flag = "keep"
  /\ wr' = [wr EXCEPT ![w] = IF enc[@.key] THEN [@ EXCEPT !.step = "keep"] ELSE IdleWrite]
  /\ UNCHANGED <<clock, storeVars, histVars, readVars>>

(* ... and SET it again if it was there.                                   *)
KeepFlag(w) ==
  /\ wr[w].step = "keep"
  /\ enc' = [enc EXCEPT ![wr[w].key] = TRUE]
  /\ wr' = [wr EXCEPT ![w] = IdleWrite]
  /\ UNCHANGED <<clock, val, histVars, readVars>>

AbortWrite(w) ==
  /\ wr[w].step # "idle"
  /\ wr' = [wr EXCEPT ![w] = IdleWrite]
  /\ torn' = [torn EXCEPT ![wr[w].key] = TRUE]
  /\ UNCHANGED <<clock, storeVars, want, readVars>>

(* DELETE, by a device or an administrator: one DEL of both keys.          *)
Delete(k) ==
  /\ val' = [val EXCEPT ![k] = Nil]
  /\ enc' = [enc EXCEPT ![k] = FALSE]
  /\ want' = [want EXCEPT ![k] = FALSE]
  /\ torn' = [torn EXCEPT ![k] = Writing(k) # {}]
  /\ UNCHANGED <<clock, wr, readVars>>

---------------------------------------------------------------------------
(* GET /kv/<key>                                                           *)

Answer(r, kind) ==
  /\ rd' = [rd EXCEPT ![r] = IdleRead]
  /\ answer' = [answer EXCEPT ![r] = kind]

(* GET kv:<key>: a missing key is answered 200 {"status": "not_found"}.    *)
ReadMiss(r, k) ==
  /\ rd[r].step = "idle"
  /\ val[k] = Nil
  /\ Answer(r, "miss")
  /\ UNCHANGED <<clock, storeVars, wr, histVars, nonce, issued>>

ReadValue(r, k) ==
  /\ rd[r].step = "idle"
  /\ val[k] # Nil
  /\ rd' = [rd EXCEPT ![r] = [step |-> "flag", key |-> k, got |-> val[k], now |-> 0]]
  /\ UNCHANGED <<clock, storeVars, wr, histVars, nonce, answer, issued>>

(* GET kv:<key>:enc, which is not there: the stored bytes, as they are.    *)
ReadPlain(r) ==
  /\ rd[r].step = "flag"
  /\ ~enc[rd[r].key]
  /\ Answer(r, "plain")
  /\ UNCHANGED <<clock, storeVars, wr, histVars, nonce, issued>>

(* The flag is there but the value is no string: 500.                      *)
ReadError(r) ==
  /\ rd[r].step = "flag"
  /\ enc[rd[r].key]
  /\ rd[r].got.type # "str"
  /\ Answer(r, "error")
  /\ UNCHANGED <<clock, storeVars, wr, histVars, nonce, issued>>

(* The flag is there: time.time() is read for the nonce ...                *)
ReadCipher(r) ==
  /\ rd[r].step = "flag"
  /\ enc[rd[r].key]
  /\ rd[r].got.type = "str"
  /\ rd' = [rd EXCEPT ![r].step = "nonce", ![r].now = clock]
  /\ UNCHANGED <<clock, storeVars, wr, histVars, nonce, answer, issued>>

(* Mutant: the wall-clock second is the nonce.                             *)
ClockNonce(last, now) == now

(* _KVENC_NONCE_LUA.                                                       *)
NextNonce(last, now) == IF last >= now THEN last + 1 ELSE now

(* ... the script runs as one Redis command, and the nonce is both the     *)
(* keystream's and the response's timestamp.                               *)
IssueNonce(r) ==
  LET n == NextNonce(nonce[Client(r)], rd[r].now) IN
  /\ rd[r].step = "nonce"
  /\ Len(issued[Client(r)]) < MaxReads
  /\ nonce' = [nonce EXCEPT ![Client(r)] = n]
  /\ issued' = [issued EXCEPT ![Client(r)] = Append(@, n)]
  /\ Answer(r, "cipher")
  /\ UNCHANGED <<clock, storeVars, wr, histVars>>

AbortRead(r) ==
  /\ rd[r].step # "idle"
  /\ rd' = [rd EXCEPT ![r] = IdleRead]
  /\ answer' = [answer EXCEPT ![r] = "none"]
  /\ UNCHANGED <<clock, storeVars, wr, histVars, nonce, issued>>

Tick ==
  /\ clock < MaxClock
  /\ clock' = clock + 1
  /\ UNCHANGED <<storeVars, wr, histVars, readVars>>

---------------------------------------------------------------------------

Write(w) ==
  \/ \E k \in Keys : DeviceWrite(w, k) \/ AdminSet(w, k)
  \/ WriteFlag(w) \/ AbortWrite(w)

Read(r) ==
  \/ \E k \in Keys : ReadMiss(r, k) \/ ReadValue(r, k)
  \/ ReadPlain(r) \/ ReadError(r) \/ ReadCipher(r) \/ IssueNonce(r) \/ AbortRead(r)

Next ==
  \/ \E w \in Writers : Write(w)
  \/ \E k \in Keys : Delete(k)
  \/ \E r \in Requests : Read(r)
  \/ Tick

Spec == Init /\ [][Next]_vars

---------------------------------------------------------------------------
(* Properties                                                              *)

TypeOK ==
  /\ clock \in Nat
  /\ val \in [Keys -> Values \cup {Nil}]
  /\ enc \in [Keys -> BOOLEAN]
  /\ nonce \in [Clients -> Nat]
  /\ wr \in [Writers -> WriteReq]
  /\ rd \in [Requests -> ReadReq]
  /\ answer \in [Requests -> Kinds]
  /\ want \in [Keys -> BOOLEAN]
  /\ torn \in [Keys -> BOOLEAN]
  /\ issued \in [Clients -> Seq(Nat)]

(* fr_encrypted_values.md: a flag left out of step with its value is put   *)
(* right by writing the key again.  Whenever no write of a key is under    *)
(* way and the last one neither overlapped another nor was aborted, the    *)
(* sidecar says what that write asked for, whatever went wrong before it.  *)
FlagMatches == \A k \in Keys : Writing(k) = {} /\ ~torn[k] => enc[k] = want[k]

(* No two encrypted responses to a client use the same nonce, however its  *)
(* reads overlap and however many fall into one second: the nonces         *)
(* next_kvenc_nonce hands out only grow.                                   *)
NoncesGrow ==
  \A c \in Clients : \A i, j \in DOMAIN issued[c] :
    i < j => issued[c][i] < issued[c][j]
=============================================================================
