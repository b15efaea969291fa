--------------------------- MODULE AppForm_proofs ---------------------------
(***************************************************************************)
(* Proofs about KvStore and about AppForm, which composes it, for every    *)
(* set of keys, clients and writers, any number of requests served and     *)
(* pages open at once and any bounds: type correctness, the growth of the  *)
(* nonces and the agreement of the sidecar with the last clean write, with *)
(* other writers, under any republishing of the catalog.                   *)
(***************************************************************************)
EXTENDS AppForm, TLAPS

---------------------------------------------------------------------------
(* The store                                                               *)

(* An idle request is well typed.                                          *)
LEMMA IdleTypes == IdleWrite \in WriteReq /\ IdleRead \in ReadReq
  <1>1. (CHOOSE k \in Keys : TRUE) \in Keys
    BY KvAssumption
  <1> QED
    BY <1>1 DEF IdleWrite, IdleRead, WriteReq, ReadReq, Flags, Values

(* The values a form or an administrator stores are values of the store.   *)
LEMMA DecodeType == \A t \in Texts : Decode(t) \in Values
  BY DEF Decode, Values, Str, Json

(* A write's first command is well typed, whoever sends it.                *)
LEMMA BeginWriteTypeOK ==
  ASSUME TypeOK, NEW w \in Writers, NEW k \in Keys, NEW v \in Values, NEW f \in Flags,
         BeginWrite(w, k, v, f)
  PROVE  TypeOK'
  <1> USE DEF TypeOK, BeginWrite, readVars
  <1>1. [step |-> "flag", key |-> k, flag |-> f] \in WriteReq
    BY DEF WriteReq
  <1>2. wr' \in [Writers -> WriteReq]
    BY <1>1
  <1>3. want' \in [Keys -> BOOLEAN] /\ torn' \in [Keys -> BOOLEAN]
    OBVIOUS
  <1> QED
    BY <1>2, <1>3

(* The store starts well typed.                                            *)
LEMMA InitTypeOK == Init => TypeOK
  BY IdleTypes DEF Init, TypeOK, Kinds

(* Every step of a read keeps the store well typed.                        *)
LEMMA ReadTypeOK ==
  ASSUME TypeOK, NEW r \in Requests, Read(r)
  PROVE  TypeOK'
  <1> USE DEF TypeOK, storeVars, histVars
  <1>0. Client(r) \in Clients
    BY DEF Requests, Client
  <1>1. ASSUME NEW k \in Keys, ReadMiss(r, k) PROVE TypeOK'
    BY <1>0, <1>1, IdleTypes DEF ReadMiss, Answer, Kinds
  <1>2. ASSUME NEW k \in Keys, ReadValue(r, k) PROVE TypeOK'
    <2>1. [step |-> "flag", key |-> k, got |-> val[k], now |-> 0] \in ReadReq
      BY <1>2 DEF ReadValue, ReadReq
    <2> QED
      BY <1>2, <2>1 DEF ReadValue
  <1>3. CASE ReadPlain(r)
    <2>1. rd[r].key \in Keys
      BY DEF ReadReq
    <2> QED
      BY <1>0, <1>3, <2>1, IdleTypes DEF ReadPlain, Answer, Kinds
  <1>4. CASE ReadError(r)
    BY <1>4, IdleTypes DEF ReadError, Answer, Kinds
  <1>5. CASE ReadCipher(r)
    <2>1. [rd[r] EXCEPT !.step = "nonce", !.now = clock] \in ReadReq
      BY DEF ReadReq
    <2>2. rd' \in [Requests -> ReadReq]
      BY <1>5, <2>1 DEF ReadCipher, ReadReq
    <2> QED
      BY <1>5, <2>2 DEF ReadCipher
  <1>6. CASE IssueNonce(r)
    <2>1. rd[r].key \in Keys /\ rd[r].now \in Nat
      BY DEF ReadReq
    <2>2. NextNonce(nonce[Client(r)], rd[r].now) \in Nat
      BY <1>0, <2>1 DEF NextNonce
    <2>3. issued' \in [Clients -> Seq(Nat)]
      BY <1>0, <1>6, <2>2 DEF IssueNonce
    <2> QED
      BY <1>0, <1>6, <2>1, <2>2, <2>3, IdleTypes DEF IssueNonce, Answer, Kinds
  <1>7. CASE AbortRead(r)
    BY <1>7, IdleTypes DEF AbortRead, Kinds
  <1> QED
    BY <1>1, <1>2, <1>3, <1>4, <1>5, <1>6, <1>7 DEF Read

(* So does every step of a write.                                          *)
LEMMA WriteTypeOK ==
  ASSUME TypeOK, NEW w \in Writers,
         \/ \E k \in Keys : DeviceWrite(w, k) \/ AdminSet(w, k)
         \/ WriteFlag(w) \/ GetFlag(w) \/ KeepFlag(w) \/ AbortWrite(w)
  PROVE  TypeOK'
  <1> USE DEF TypeOK, storeVars, histVars, readVars
  <1>0. wr[w].key \in Keys
    BY DEF WriteReq
  <1>1. ASSUME NEW k \in Keys, DeviceWrite(w, k) PROVE TypeOK'
    BY <1>1, BeginWriteTypeOK DEF DeviceWrite, Flags
  <1>2. ASSUME NEW k \in Keys, AdminSet(w, k) PROVE TypeOK'
    BY <1>2, BeginWriteTypeOK, DecodeType DEF AdminSet, Flags
  <1>3. CASE WriteFlag(w)
    BY <1>3, IdleTypes DEF WriteFlag
  <1>4. CASE GetFlag(w)
    <2>1. [wr[w] EXCEPT !.step = "keep"] \in WriteReq
      BY DEF WriteReq
    <2> QED
      BY <1>4, <2>1, IdleTypes DEF GetFlag
  <1>5. CASE KeepFlag(w)
    BY <1>5, IdleTypes DEF KeepFlag
  <1>6. CASE AbortWrite(w)
    BY <1>6, IdleTypes DEF AbortWrite
  <1> QED
    BY <1>1, <1>2, <1>3, <1>4, <1>5, <1>6

(* The deletion of a key keeps the store well typed.                       *)
LEMMA DeleteTypeOK == ASSUME TypeOK, NEW k \in Keys, Delete(k) PROVE TypeOK'
  BY DEF TypeOK, Delete, readVars

(* TypeOK is inductive.                                                    *)
LEMMA NextTypeOK == TypeOK /\ [Next]_vars => TypeOK'
  <1> SUFFICES ASSUME TypeOK, [Next]_vars PROVE TypeOK'
    OBVIOUS
  <1>1. ASSUME NEW w \in Writers, Write(w) PROVE TypeOK'
    BY <1>1, WriteTypeOK DEF Write
  <1>2. ASSUME NEW k \in Keys, Delete(k) PROVE TypeOK'
    BY <1>2, DeleteTypeOK
  <1>3. ASSUME NEW r \in Requests, Read(r) PROVE TypeOK'
    BY <1>3, ReadTypeOK
  <1>4. CASE Tick
    BY <1>4 DEF Tick, TypeOK, storeVars, histVars, readVars
  <1>5. CASE UNCHANGED vars
    BY <1>5 DEF vars, TypeOK, storeVars, histVars, readVars
  <1> QED
    BY <1>1, <1>2, <1>3, <1>4, <1>5 DEF Next

(* Type correctness of the store, its requests and its histories.          *)
THEOREM TypeCorrect == Spec => []TypeOK
  BY InitTypeOK, NextTypeOK, PTL DEF Spec

---------------------------------------------------------------------------
(* Nonces                                                                  *)

(* kvenc:nonce:<client> is the last nonce given out, and the largest.      *)
NonceTop == \A c \in Clients : \A i \in DOMAIN issued[c] : issued[c][i] <= nonce[c]

NInv == NonceTop /\ NoncesGrow

(* The script's result is above the nonce it found.                        *)
LEMMA NonceAbove == \A last, now \in Nat : NextNonce(last, now) > last
  BY DEF NextNonce

(* Every step keeps NInv; only IssueNonce touches what it is about.        *)
LEMMA NextNInv == TypeOK /\ NInv /\ [Next]_vars => NInv'
  <1> SUFFICES ASSUME TypeOK, NInv, [Next]_vars PROVE NInv'
    OBVIOUS
  <1>1. ASSUME NEW r \in Requests, IssueNonce(r) PROVE NInv'
    <2> DEFINE c == Client(r)
    <2> DEFINE n == NextNonce(nonce[c], rd[r].now)
    <2>1. c \in Clients
      BY DEF Requests, Client
    <2>2. nonce[c] \in Nat /\ rd[r].now \in Nat /\ issued[c] \in Seq(Nat)
      BY <2>1 DEF TypeOK, ReadReq
    <2>3. n > nonce[c]
      BY <2>2, NonceAbove
    <2>4. n \in Nat
      BY <2>2 DEF NextNonce
    <2>5. nonce' = [nonce EXCEPT ![c] = n] /\ issued' = [issued EXCEPT ![c] = Append(issued[c], n)]
      BY <1>1 DEF IssueNonce
    <2> HIDE DEF n, c
    <2>6. ASSUME NEW d \in Clients
          PROVE  /\ \A i \in DOMAIN issued'[d] : issued'[d][i] <= nonce'[d]
                 /\ \A i, j \in DOMAIN issued'[d] : i < j => issued'[d][i] < issued'[d][j]
      <3>1. CASE d # c
        BY <2>5, <2>6, <3>1 DEF TypeOK, NInv, NonceTop, NoncesGrow
      <3>2. CASE d = c
        <4>1. issued'[d] = Append(issued[c], n) /\ nonce'[d] = n
          BY <2>1, <2>5, <3>2 DEF TypeOK
        <4>2. DOMAIN issued[c] = 1..Len(issued[c]) /\ Len(issued[c]) \in Nat
          BY <2>2
        <4>3. \A i \in DOMAIN issued[c] : issued[c][i] \in Nat /\ issued[c][i] <= nonce[c]
          BY <2>1, <2>2 DEF NInv, NonceTop
        <4>4. \A i, j \in DOMAIN issued[c] : i < j => issued[c][i] < issued[c][j]
          BY <2>1 DEF NInv, NoncesGrow
        <4>5. DOMAIN issued'[d] = 1..(Len(issued[c]) + 1)
          BY <2>2, <2>4, <4>1
        <4>6. \A i \in 1..Len(issued[c]) : issued'[d][i] = issued[c][i]
          BY <2>2, <2>4, <4>1
        <4>7. issued'[d][Len(issued[c]) + 1] = n
          BY <2>2, <2>4, <4>1
        <4> QED
          BY <2>2, <2>3, <2>4, <4>1, <4>2, <4>3, <4>4, <4>5, <4>6, <4>7
      <3> QED
        BY <3>1, <3>2
    <2> QED
      BY <2>6 DEF NInv, NonceTop, NoncesGrow
  <1>2. CASE UNCHANGED <<nonce, issued>>
    BY <1>2 DEF NInv, NonceTop, NoncesGrow
  <1>3. ASSUME NEW r \in Requests, Read(r), ~IssueNonce(r) PROVE UNCHANGED <<nonce, issued>>
    BY <1>3 DEF Read, ReadMiss, ReadValue, ReadPlain, ReadError, ReadCipher, AbortRead
  <1>4. ASSUME NEW w \in Writers, Write(w) PROVE UNCHANGED <<nonce, issued>>
    BY <1>4 DEF Write, DeviceWrite, AdminSet, BeginWrite, WriteFlag, AbortWrite, readVars
  <1>5. ASSUME NEW k \in Keys, Delete(k) PROVE UNCHANGED <<nonce, issued>>
    BY <1>5 DEF Delete, readVars
  <1>6. CASE Tick
    BY <1>2, <1>6 DEF Tick, readVars
  <1>7. CASE UNCHANGED vars
    BY <1>2, <1>7 DEF vars, readVars
  <1> QED
    BY <1>1, <1>2, <1>3, <1>4, <1>5, <1>6, <1>7 DEF Next

(* No two encrypted responses to one client ever share a nonce.            *)
THEOREM NoncesAlwaysGrow == Spec => []NoncesGrow
  <1>1. Init => NInv
    BY DEF Init, NInv, NonceTop, NoncesGrow
  <1>2. NInv => NoncesGrow
    BY DEF NInv
  <1> QED
    BY <1>1, <1>2, TypeCorrect, NextNInv, PTL DEF Spec

---------------------------------------------------------------------------
(* The sidecar                                                             *)

Busy(w, k) == wr[w].step # "idle" /\ wr[w].key = k

(* What a write still has to do agrees with what it was asked for, and it  *)
(* is the only one of its key, as long as the key is not torn.             *)
Sound(w, k) ==
  /\ \A u \in Writers : Busy(u, k) => u = w
  /\ wr[w].flag = "set" => want[k] = TRUE
  /\ wr[w].flag = "clear" => want[k] = FALSE
  /\ wr[w].flag = "keep" => enc[k] = want[k]
  /\ wr[w].step = "keep" => wr[w].flag = "keep" /\ enc[k] = TRUE

SoundWrites == \A k \in Keys : ~torn[k] => \A w \in Writers : Busy(w, k) => Sound(w, k)

QuietKeys ==
  \A k \in Keys : ~torn[k] /\ (\A w \in Writers : ~Busy(w, k)) => enc[k] = want[k]

FInv == SoundWrites /\ QuietKeys

(* An empty store satisfies FInv.                                          *)
LEMMA InitFInv == Init => FInv
  <1>1. Init => \A w \in Writers : wr[w].step = "idle"
    BY DEF Init, IdleWrite
  <1>2. Init => \A k \in Keys : enc[k] = want[k]
    BY DEF Init
  <1> QED
    BY <1>1, <1>2 DEF FInv, SoundWrites, QuietKeys, Busy

(* FInv implies the property.                                              *)
LEMMA FInvFlagMatches == FInv => FlagMatches
  BY DEF FInv, QuietKeys, FlagMatches, Writing, Busy

(* The first command of a write: it is alone, or its key is torn.          *)
LEMMA BeginWriteFInv ==
  ASSUME TypeOK, FInv, NEW w \in Writers, NEW k \in Keys, NEW v, NEW f \in Flags,
         BeginWrite(w, k, v, f)
  PROVE  FInv'
  <1>1. /\ wr[w].step = "idle" /\ enc' = enc
        /\ wr' = [wr EXCEPT ![w] = [step |-> "flag", key |-> k, flag |-> f]]
        /\ want' = [want EXCEPT ![k] = f = "set" \/ (f = "keep" /\ enc[k])]
        /\ torn' = [torn EXCEPT ![k] = Writing(k) # {}]
    BY DEF BeginWrite
  <1>2. \A u \in Writers \ {w} : wr'[u] = wr[u]
    BY <1>1 DEF TypeOK
  <1>3. wr'[w].step = "flag" /\ wr'[w].key = k /\ wr'[w].flag = f
    BY <1>1 DEF TypeOK
  <1>4. \A j \in Keys \ {k} : torn'[j] = torn[j] /\ want'[j] = want[j] /\ enc'[j] = enc[j]
    BY <1>1 DEF TypeOK
  <1>5. ASSUME NEW j \in Keys, ~torn'[j], j = k
        PROVE  (\A u \in Writers : Busy(u, j)' => u = w) /\ Sound(w, j)'
    <2>1. Writing(k) = {}
      BY <1>1, <1>5 DEF TypeOK
    <2>2. \A u \in Writers : ~Busy(u, k)
      BY <2>1 DEF Writing, Busy
    <2>3. \A u \in Writers : Busy(u, j)' => u = w
      BY <1>2, <1>5, <2>2 DEF Busy
    <2>4. enc[k] \in BOOLEAN /\ want'[k] = (f = "set" \/ (f = "keep" /\ enc[k]))
      BY <1>1 DEF TypeOK
    <2>5. /\ f = "set" => want'[k] = TRUE
          /\ f = "clear" => want'[k] = FALSE
          /\ f = "keep" => enc[k] = want'[k]
      BY <2>4
    <2> QED
      BY <1>1, <1>3, <1>5, <2>3, <2>5 DEF Sound
  <1>6. ASSUME NEW j \in Keys, j # k
        PROVE  \A u \in Writers : Busy(u, j)' <=> Busy(u, j)
    BY <1>1, <1>2, <1>3, <1>6 DEF Busy
  <1>7. SoundWrites'
    <2> SUFFICES ASSUME NEW j \in Keys, ~torn'[j], NEW u \in Writers, Busy(u, j)'
                 PROVE  Sound(u, j)'
      BY DEF SoundWrites
    <2>1. CASE j = k
      BY <1>5, <2>1
    <2>2. CASE j # k
      <3>1. u # w /\ Sound(u, j)
        BY <1>1, <1>4, <1>6, <2>2 DEF FInv, SoundWrites, Busy
      <3> QED
        BY <1>2, <1>4, <1>6, <2>2, <3>1 DEF Sound
    <2> QED
      BY <2>1, <2>2
  <1>8. QuietKeys'
    <2> SUFFICES ASSUME NEW j \in Keys, ~torn'[j], \A u \in Writers : ~Busy(u, j)'
                 PROVE  enc'[j] = want'[j]
      BY DEF QuietKeys
    <2>1. j # k
      BY <1>3 DEF Busy
    <2> QED
      BY <1>4, <1>6, <2>1 DEF FInv, QuietKeys
  <1> QED
    BY <1>7, <1>8 DEF FInv

(* A step that ends a write and touches no other key keeps FInv if it      *)
(* leaves the sidecar as wanted, or its key torn.                          *)
LEMMA EndWriteFInv ==
  ASSUME TypeOK, FInv, NEW w \in Writers, NEW k \in Keys, Busy(w, k),
         wr' = [wr EXCEPT ![w] = IdleWrite], want' = want,
         \A j \in Keys \ {k} : enc'[j] = enc[j] /\ torn'[j] = torn[j],
         torn'[k] \/ (~torn[k] /\ enc'[k] = want[k])
  PROVE  FInv'
  <1>2. \A u \in Writers \ {w} : wr'[u] = wr[u]
    BY DEF TypeOK
  <1>3. wr'[w].step = "idle"
    BY DEF TypeOK, IdleWrite
  <1>4. \A j \in Keys, u \in Writers : Busy(u, j)' => u # w /\ Busy(u, j)
    BY <1>2, <1>3 DEF Busy
  <1>5. ~torn'[k] => \A u \in Writers : ~Busy(u, k)'
    BY <1>4 DEF FInv, SoundWrites, Sound
  <1>6. SoundWrites'
    <2> SUFFICES ASSUME NEW j \in Keys, ~torn'[j], NEW u \in Writers, Busy(u, j)'
                 PROVE  Sound(u, j)'
      BY DEF SoundWrites
    <2>1. j # k /\ u # w /\ Busy(u, j)
      BY <1>4, <1>5
    <2>2. Sound(u, j)
      BY <2>1 DEF FInv, SoundWrites
    <2> QED
      BY <1>2, <1>4, <2>1, <2>2 DEF Sound
  <1>7. QuietKeys'
    <2> SUFFICES ASSUME NEW j \in Keys, ~torn'[j], \A u \in Writers : ~Busy(u, j)'
                 PROVE  enc'[j] = want'[j]
      BY DEF QuietKeys
    <2>1. CASE j = k
      BY <2>1
    <2>2. CASE j # k
      <3>1. \A u \in Writers : ~Busy(u, j)
        BY <1>2, <2>2 DEF Busy
      <3> QED
        BY <2>2, <3>1 DEF FInv, QuietKeys
    <2> QED
      BY <2>1, <2>2
  <1> QED
    BY <1>6, <1>7 DEF FInv

(* A deletion leaves its key quiet and unwanted, or torn.                  *)
LEMMA DeleteFInv ==
  ASSUME TypeOK, FInv, NEW k \in Keys, Delete(k)
  PROVE  FInv'
  <1>1. /\ wr' = wr
        /\ enc' = [enc EXCEPT ![k] = FALSE] /\ want' = [want EXCEPT ![k] = FALSE]
        /\ torn' = [torn EXCEPT ![k] = Writing(k) # {}]
    BY DEF Delete
  <1>2. \A j \in Keys, u \in Writers : Busy(u, j)' <=> Busy(u, j)
    BY <1>1 DEF Busy
  <1>3. \A j \in Keys \ {k} : torn'[j] = torn[j] /\ want'[j] = want[j] /\ enc'[j] = enc[j]
    BY <1>1 DEF TypeOK
  <1>4. enc'[k] = FALSE /\ want'[k] = FALSE
    BY <1>1 DEF TypeOK
  <1>5. ~torn'[k] => \A u \in Writers : ~Busy(u, k)
    BY <1>1 DEF TypeOK, Writing, Busy
  <1>6. SoundWrites'
    <2> SUFFICES ASSUME NEW j \in Keys, ~torn'[j], NEW u \in Writers, Busy(u, j)'
                 PROVE  Sound(u, j)'
      BY DEF SoundWrites
    <2>1. j # k /\ Busy(u, j)
      BY <1>2, <1>5
    <2>2. Sound(u, j)
      BY <1>3, <2>1 DEF FInv, SoundWrites
    <2> QED
      BY <1>1, <1>2, <1>3, <2>1, <2>2 DEF Sound
  <1>7. QuietKeys'
    BY <1>2, <1>3, <1>4 DEF FInv, QuietKeys
  <1> QED
    BY <1>6, <1>7 DEF FInv

(* A step that changes neither the sidecars nor the writes keeps FInv.     *)
LEMMA FInvFrame == FInv /\ UNCHANGED <<enc, wr, histVars>> => FInv'
  BY DEF FInv, SoundWrites, QuietKeys, Sound, Busy, histVars

(* Every later step of a write keeps FInv.                                 *)
LEMMA WriteStepFInv ==
  ASSUME TypeOK, FInv, NEW w \in Writers,
         WriteFlag(w) \/ GetFlag(w) \/ KeepFlag(w) \/ AbortWrite(w)
  PROVE  FInv'
  <1>0. PICK k \in Keys : wr[w].key = k
    BY DEF TypeOK, WriteReq
  <1>1. Busy(w, k)
    BY <1>0 DEF Busy, WriteFlag, GetFlag, KeepFlag, AbortWrite
  <1>2. ~torn[k] => Sound(w, k)
    BY <1>1 DEF FInv, SoundWrites
  <1>3. wr[w].flag \in {"set", "clear", "keep"} /\ enc[k] \in BOOLEAN /\ want[k] \in BOOLEAN
    BY DEF TypeOK, WriteReq, Flags
  <1>4. CASE WriteFlag(w)
    <2>1. /\ wr[w].flag # "keep" /\ enc' = [enc EXCEPT ![k] = wr[w].flag = "set"]
          /\ wr' = [wr EXCEPT ![w] = IdleWrite] /\ want' = want /\ torn' = torn
      BY <1>0, <1>4 DEF WriteFlag, histVars
    <2>2. enc'[k] = (wr[w].flag = "set") /\ \A j \in Keys \ {k} : enc'[j] = enc[j]
      BY <2>1 DEF TypeOK
    <2>3. ~torn[k] => enc'[k] = want[k]
      BY <1>2, <1>3, <2>1, <2>2 DEF Sound
    <2> QED
      BY <1>1, <2>1, <2>2, <2>3, EndWriteFInv
  <1>5. CASE GetFlag(w) /\ ~enc[k]
    <2>1. wr[w].flag = "keep" /\ wr' = [wr EXCEPT ![w] = IdleWrite] /\ UNCHANGED <<enc, want, torn>>
      BY <1>0, <1>5 DEF GetFlag, storeVars, histVars
    <2>2. ~torn[k] => enc'[k] = want[k]
      BY <1>2, <2>1 DEF Sound
    <2> QED
      BY <1>1, <2>1, <2>2, EndWriteFInv
  <1>6. CASE GetFlag(w) /\ enc[k]
    <2>1. /\ wr[w].flag = "keep" /\ wr' = [wr EXCEPT ![w] = [wr[w] EXCEPT !.step = "keep"]]
          /\ UNCHANGED <<enc, want, torn>>
      BY <1>0, <1>6 DEF GetFlag, storeVars, histVars
    <2>2. \A u \in Writers \ {w} : wr'[u] = wr[u]
      BY <2>1 DEF TypeOK
    <2>3. wr'[w].step = "keep" /\ wr'[w].key = k /\ wr'[w].flag = "keep"
      BY <1>0, <2>1 DEF TypeOK, WriteReq
    <2>4. \A j \in Keys, u \in Writers : Busy(u, j)' <=> Busy(u, j)
      BY <1>0, <1>1, <2>2, <2>3 DEF Busy
    <2>5. SoundWrites'
      <3> SUFFICES ASSUME NEW j \in Keys, ~torn'[j], NEW u \in Writers, Busy(u, j)'
                   PROVE  Sound(u, j)'
        BY DEF SoundWrites
      <3>1. Sound(u, j)
        BY <2>1, <2>4 DEF FInv, SoundWrites
      <3>2. CASE u = w
        <4>1. j = k
          BY <2>3, <3>2 DEF Busy
        <4> QED
          BY <1>3, <1>6, <2>1, <2>3, <2>4, <3>1, <3>2, <4>1 DEF Sound
      <3>3. CASE u # w
        BY <2>1, <2>2, <2>4, <3>1, <3>3 DEF Sound
      <3> QED
        BY <3>2, <3>3
    <2>6. QuietKeys'
      BY <2>1, <2>4 DEF FInv, QuietKeys
    <2> QED
      BY <2>5, <2>6 DEF FInv
  <1>7. CASE KeepFlag(w)
    <2>1. /\ wr[w].step = "keep" /\ enc' = [enc EXCEPT ![k] = TRUE]
          /\ wr' = [wr EXCEPT ![w] = IdleWrite] /\ want' = want /\ torn' = torn
      BY <1>0, <1>7 DEF KeepFlag, histVars
    <2>2. enc'[k] = TRUE /\ \A j \in Keys \ {k} : enc'[j] = enc[j]
      BY <2>1 DEF TypeOK
    <2>3. ~torn[k] => enc'[k] = want[k]
      BY <1>2, <2>1, <2>2 DEF Sound
    <2> QED
      BY <1>1, <2>1, <2>2, <2>3, EndWriteFInv
  <1>8. CASE AbortWrite(w)
    <2>1. /\ wr' = [wr EXCEPT ![w] = IdleWrite] /\ want' = want /\ enc' = enc
          /\ torn' = [torn EXCEPT ![k] = TRUE]
      BY <1>0, <1>8 DEF AbortWrite, storeVars
    <2>2. torn'[k] = TRUE /\ \A j \in Keys \ {k} : torn'[j] = torn[j]
      BY <2>1 DEF TypeOK
    <2> QED
      BY <1>1, <2>1, <2>2, EndWriteFInv
  <1> QED
    BY <1>3, <1>4, <1>5, <1>6, <1>7, <1>8

(* FInv is inductive.                                                      *)
LEMMA NextFInv == TypeOK /\ FInv /\ [Next]_vars => FInv'
  <1> SUFFICES ASSUME TypeOK, FInv, [Next]_vars PROVE FInv'
    OBVIOUS
  <1>1. ASSUME NEW w \in Writers, Write(w) PROVE FInv'
    <2>1. ASSUME NEW k \in Keys, DeviceWrite(w, k) \/ AdminSet(w, k) PROVE FInv'
      BY <2>1, BeginWriteFInv DEF DeviceWrite, AdminSet, Flags
    <2> QED
      BY <1>1, <2>1, WriteStepFInv DEF Write
  <1>2. ASSUME NEW k \in Keys, Delete(k) PROVE FInv'
    BY <1>2, DeleteFInv
  <1>3. ASSUME NEW r \in Requests, Read(r) PROVE FInv'
    BY <1>3, FInvFrame DEF Read, ReadMiss, ReadValue, ReadPlain, ReadError, ReadCipher,
                           IssueNonce, AbortRead, storeVars
  <1>4. CASE Tick
    BY <1>4, FInvFrame DEF Tick, storeVars
  <1>5. CASE UNCHANGED vars
    BY <1>5, FInvFrame DEF vars, storeVars
  <1> QED
    BY <1>1, <1>2, <1>3, <1>4, <1>5 DEF Next

(* Once a write of a key runs through undisturbed, its sidecar is what     *)
(* that write asked for, whatever was torn before.                         *)
THEOREM CleanWriteFixesFlag == Spec => []FlagMatches
  BY InitFInv, TypeCorrect, NextFInv, FInvFlagMatches, PTL DEF Spec

---------------------------------------------------------------------------
(* The settings page                                                       *)

PageType ==
  /\ cat \in [flag : Flags, default : Defaults]
  /\ page \in [Pages -> Page]

(* A value the page can show prints as a text of the model.                *)
LEMMA ShownText == \A v \in Values \cup {Nil} : ToFormString(v) \in Texts \cup {""}
  <1>1. \A t : Str(t).text = t /\ Json(t).text = t
    BY DEF Str, Json
  <1>2. Empty.text = "" /\ Nil.text = ""
    BY DEF Empty, Nil
  <1> SUFFICES ASSUME NEW v \in Values \cup {Nil} PROVE v.text \in Texts \cup {""}
    BY DEF ToFormString
  <1>3. \/ \E t \in Texts \cup {""} : v = Str(t)
        \/ \E t \in JsonTexts : v = Json(t)
        \/ v = Empty \/ v = Nil
    BY DEF Values
  <1> QED
    BY <1>1, <1>2, <1>3, KvAssumption

(* A closed page is well typed.                                            *)
LEMMA ClosedType == Closed \in Page
  BY DEF Closed, Page, Flags

(* What the form handler stores for a posted text is a value.              *)
LEMMA DecodeFormType == \A t \in Texts \cup Defaults \cup {""} : DecodeForm(t) \in Values
  <1>1. \A t \in Texts \cup Defaults \cup {""} : t # "" => t \in Texts
    BY FormAssumption
  <1>2. Str("") \in Values
    BY DEF Values
  <1> QED
    BY <1>1, <1>2, DecodeType DEF DecodeForm

(* Rendering a page keeps the pages well typed.                            *)
LEMMA ShowType ==
  ASSUME PageType, NEW p \in Pages, NEW t \in Texts \cup Defaults \cup {""},
         NEW f \in {"none", "device", "public", "default"}, Show(p, t, f), UNCHANGED cat
  PROVE  PageType'
  BY ClosedType DEF PageType, Page, Show, Closed

(* The steps of the form's own: the store is left alone, or written by one *)
(* BeginWrite of a value and a flag.                                       *)
LEMMA PageStep ==
  ASSUME TypeOK, PageType, NEW p \in Pages,
         \/ OpenPage(p) \/ ResolveDevice(p) \/ ResolvePublic(p)
         \/ Submit(p) \/ WriteField(p) \/ Leave(p)
         \/ \E t \in Texts : Edit(p, t)
  PROVE  /\ PageType'
         /\ UNCHANGED vars \/ \E v \in Values, f \in Flags : BeginWrite(p, DeviceKey, v, f)
  <1> USE DEF PageType
  <1>0. DeviceKey \in Keys /\ PublicKey \in Keys
    BY FormAssumption
  <1>7. CASE OpenPage(p)
    <2>1. page' = [page EXCEPT ![p] = [page[p] EXCEPT !.step = "loading", !.text = cat.default]]
      BY <1>7 DEF OpenPage
    <2>2. [page[p] EXCEPT !.step = "loading", !.text = cat.default] \in Page
      BY DEF Page
    <2>3. page' \in [Pages -> Page]
      BY <2>1, <2>2
    <2> QED
      BY <1>7, <2>3 DEF OpenPage
  <1>1. CASE ResolveDevice(p)
    <2>1. ToFormString(val[DeviceKey]) \in Texts \cup {""}
      BY <1>0, ShownText DEF TypeOK
    <2>2. UNCHANGED vars /\ UNCHANGED cat
      BY <1>1 DEF ResolveDevice
    <2>3. CASE Show(p, ToFormString(val[DeviceKey]), "device")
      BY <2>1, <2>2, <2>3, ShowType
    <2>4. CASE page' = [page EXCEPT ![p].step = "resolving"]
      BY <2>2, <2>4 DEF Page
    <2> QED
      BY <1>1, <2>3, <2>4 DEF ResolveDevice
  <1>2. CASE ResolvePublic(p)
    <2>1. ToFormString(val[PublicKey]) \in Texts \cup {""}
      BY <1>0, ShownText DEF TypeOK
    <2>2. page[p].text \in Texts \cup Defaults \cup {""}
      BY DEF Page
    <2>3. UNCHANGED vars /\ UNCHANGED cat
      BY <1>2 DEF ResolvePublic
    <2>4. CASE Show(p, ToFormString(val[PublicKey]), "public")
      BY <2>1, <2>3, <2>4, ShowType
    <2>5. ASSUME NEW f \in {"none", "default"}, Show(p, page[p].text, f) PROVE PageType'
      BY <2>2, <2>3, <2>5, ShowType
    <2> QED
      BY <1>2, <2>3, <2>4, <2>5 DEF ResolvePublic
  <1>3. CASE Submit(p)
    BY <1>3, ClosedType DEF Submit, Page
  <1>4. CASE WriteField(p)
    <2>1. page[p].text \in Texts \cup Defaults \cup {""} /\ page[p].flag \in Flags
      BY DEF Page
    <2>2. DecodeForm(page[p].text) \in Values
      BY <2>1, DecodeFormType
    <2> QED
      BY <1>4, <2>1, <2>2, ClosedType DEF WriteField
  <1>5. CASE Leave(p)
    BY <1>5, ClosedType DEF Leave
  <1>6. ASSUME NEW t \in Texts, Edit(p, t)
        PROVE  PageType' /\ UNCHANGED vars
    <2>1. page' = [page EXCEPT ![p] = [page[p] EXCEPT !.text = t, !.dirty = TRUE]]
      BY <1>6 DEF Edit
    <2>2. [page[p] EXCEPT !.text = t, !.dirty = TRUE] \in Page
      BY DEF Page
    <2>3. page' \in [Pages -> Page]
      BY <2>1, <2>2
    <2> QED
      BY <1>6, <2>3 DEF Edit
  <1> QED
    BY <1>1, <1>2, <1>3, <1>4, <1>5, <1>6, <1>7

(* Nothing the form does disturbs the invariants of the store.             *)
LEMMA FormStep ==
  ASSUME TypeOK, PageType, FInv, [FormNext]_<<vars, formVars>>
  PROVE  TypeOK' /\ PageType' /\ FInv'
  <1>0. DeviceKey \in Keys /\ Pages \subseteq Writers
    BY FormAssumption
  <1>1. ASSUME UNCHANGED vars PROVE TypeOK' /\ FInv'
    BY <1>1, FInvFrame DEF vars, TypeOK, storeVars, histVars, readVars
  <1>2. ASSUME NEW p \in Pages,
               \/ OpenPage(p) \/ ResolveDevice(p) \/ ResolvePublic(p)
         \/ Submit(p) \/ WriteField(p) \/ Leave(p)
               \/ \E t \in Texts : Edit(p, t)
        PROVE  TypeOK' /\ PageType' /\ FInv'
    <2>1. PageType' /\ (UNCHANGED vars
                         \/ \E v \in Values, f \in Flags : BeginWrite(p, DeviceKey, v, f))
      BY <1>2, PageStep
    <2>2. ASSUME NEW v \in Values, NEW f \in Flags, BeginWrite(p, DeviceKey, v, f)
          PROVE  TypeOK' /\ FInv'
      BY <1>0, <2>2, BeginWriteTypeOK, BeginWriteFInv
    <2> QED
      BY <1>1, <2>1, <2>2
  <1>3. ASSUME NEW f \in Flags, NEW d \in Defaults, Republish(f, d)
        PROVE  TypeOK' /\ PageType' /\ FInv'
    BY <1>1, <1>3 DEF Republish, PageType
  <1>4. ASSUME UNCHANGED formVars PROVE PageType'
    BY <1>4 DEF formVars, PageType
  <1>5. ASSUME NEW w \in Writers, Write(w) PROVE TypeOK' /\ FInv'
    <2>1. ASSUME NEW k \in Keys, DeviceWrite(w, k) \/ AdminSet(w, k) PROVE FInv'
      BY <2>1, BeginWriteFInv DEF DeviceWrite, AdminSet, Flags
    <2> QED
      BY <1>5, <2>1, WriteTypeOK, WriteStepFInv DEF Write
  <1>6. ASSUME NEW p \in Pages, WriteFlag(p) \/ GetFlag(p) \/ KeepFlag(p) \/ AbortWrite(p)
        PROVE  TypeOK' /\ FInv'
    BY <1>0, <1>6, WriteTypeOK, WriteStepFInv
  <1>7. ASSUME NEW k \in Keys, Delete(k) PROVE TypeOK' /\ FInv'
    BY <1>7, DeleteTypeOK, DeleteFInv
  <1>8. CASE UNCHANGED <<vars, formVars>>
    BY <1>1, <1>4, <1>8
  <1> QED
    BY <1>2, <1>3, <1>4, <1>5, <1>6, <1>7, <1>8 DEF FormNext

(* The pages add no way to leave the sidecar out of step with a write that *)
(* ran through: FlagMatches holds of the store with settings pages, stale  *)
(* catalogs and "keep" fields included.                                    *)
THEOREM FormFlagMatches == FormSpec => [](FormTypeOK /\ FlagMatches)
  <1>1. FormInit => TypeOK /\ PageType /\ FInv
    <2>1. FormInit => PageType
      BY ClosedType DEF FormInit, PageType, Flags
    <2> QED
      BY <2>1, InitTypeOK, InitFInv DEF FormInit
  <1>2. TypeOK /\ PageType /\ FInv /\ [FormNext]_<<vars, formVars>>
          => (TypeOK /\ PageType /\ FInv)'
    BY FormStep
  <1>3. TypeOK /\ PageType /\ FInv => FormTypeOK /\ FlagMatches
    BY FInvFlagMatches DEF FormTypeOK, PageType
  <1> QED
    BY <1>1, <1>2, <1>3, PTL DEF FormSpec
=============================================================================
