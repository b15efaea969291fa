---------------------------- MODULE Pages_proofs ----------------------------
(***************************************************************************)
(* Proofs about check_acl, the logs and the pages that list a stream, for  *)
(* every set of clients, prefixes, paths and page lengths and for ACLs and *)
(* streams of any length.                                                  *)
(***************************************************************************)
EXTENDS ActivityLog, StreamMonitor, TLAPS, WellFoundedInduction, FiniteSetTheorems

---------------------------------------------------------------------------
(* Picking elements of a sequence                                          *)

(* The place of position i among the positions K.                          *)
Rank(K, i) == Cardinality({j \in K : j <= i})

(* Ranks number the positions K from 1 on, in their order.                 *)
LEMMA Ranks ==
  ASSUME NEW n \in Nat, NEW K \in SUBSET (1..n)
  PROVE  /\ IsFiniteSet(K) /\ Cardinality(K) \in Nat
         /\ \A i \in K : Rank(K, i) \in 1..Cardinality(K)
         /\ \A i, j \in K : i < j => Rank(K, i) < Rank(K, j)
         /\ \A m \in 1..Cardinality(K) : \E i \in K : Rank(K, i) = m
<1> DEFINE Below(i) == {j \in K : j <= i}
<1>0. \A i \in K : i \in Nat
  OBVIOUS
<1>1. IsFiniteSet(K) /\ Cardinality(K) \in Nat
  <2>1. IsFiniteSet(1..n)
    BY FS_Interval
  <2>. QED  BY <2>1, FS_Subset, FS_CardinalityType
<1>2. ASSUME NEW i \in K
      PROVE  /\ Below(i) \in SUBSET K /\ IsFiniteSet(Below(i))
             /\ Rank(K, i) \in 1..Cardinality(K)
  <2>1. Below(i) \in SUBSET K /\ Below(i) # {}
    BY <1>2
  <2>2. IsFiniteSet(Below(i)) /\ Cardinality(Below(i)) <= Cardinality(K)
    BY <2>1, <1>1, FS_Subset
  <2>3. Cardinality(Below(i)) \in Nat
    BY <2>2, FS_CardinalityType
  <2>4. Cardinality(Below(i)) # 0
    BY <2>1, <2>2, FS_EmptySet
  <2>. HIDE DEF Below
  <2>5. Cardinality(Below(i)) \in 1..Cardinality(K)
    BY <2>2, <2>3, <2>4, <1>1
  <2>. QED  BY <2>1, <2>2, <2>5 DEF Rank, Below
<1>3. ASSUME NEW i \in K, NEW j \in K, i < j
      PROVE  Rank(K, i) < Rank(K, j)
  <2>1. Below(i) \in SUBSET Below(j) /\ j \in Below(j) /\ j \notin Below(i)
    <3>1. \A k \in K : k <= i => k <= j
      BY <1>0, <1>3
    <3>2. j <= j /\ ~(j <= i)
      BY <1>0, <1>3
    <3>. QED  BY <3>1, <3>2
  <2>2. /\ Cardinality(Below(i)) <= Cardinality(Below(j))
        /\ Cardinality(Below(i)) = Cardinality(Below(j)) => Below(i) = Below(j)
    <3>1. IsFiniteSet(Below(j))
      BY <1>2
    <3>. HIDE DEF Below
    <3>. QED  BY <2>1, <3>1, FS_Subset
  <2>3. Cardinality(Below(i)) \in Nat /\ Cardinality(Below(j)) \in Nat
    BY <1>2, FS_CardinalityType
  <2>. HIDE DEF Below
  <2>4. Cardinality(Below(i)) < Cardinality(Below(j))
    BY <2>1, <2>2, <2>3
  <2>. QED  BY <2>4 DEF Rank, Below
<1>4. ASSUME NEW m \in 1..Cardinality(K)
      PROVE  \E i \in K : Rank(K, i) = m
  <2> DEFINE f == [i \in K |-> Rank(K, i)]
  <2>1. f \in [K -> 1..Cardinality(K)]
    BY <1>2
  <2>2. \A i, j \in K : f[i] = f[j] => i = j
    <3> SUFFICES ASSUME NEW i \in K, NEW j \in K, f[i] = f[j], i # j PROVE FALSE
      OBVIOUS
    <3>1. i < j \/ j < i
      OBVIOUS
    <3>2. Rank(K, i) \in Nat /\ Rank(K, j) \in Nat /\ Rank(K, i) = Rank(K, j)
      <4>1. Rank(K, i) \in 1..Cardinality(K) /\ Rank(K, j) \in 1..Cardinality(K)
        BY <1>2
      <4>2. f[i] = Rank(K, i) /\ f[j] = Rank(K, j)
        OBVIOUS
      <4>3. Rank(K, i) = Rank(K, j)
        BY <4>2
      <4>. QED  BY <4>1, <4>3, <1>1
    <3>. QED  BY <3>1, <3>2, <1>3
  <2>. HIDE DEF f
  <2>3. f \in Injection(K, 1..Cardinality(K))
    BY <2>1, <2>2 DEF Injection, IsInjective
  <2>4. IsFiniteSet(1..Cardinality(K)) /\ Cardinality(1..Cardinality(K)) = Cardinality(K)
    BY <1>1, FS_Interval
  <2>5. f \in Surjection(K, 1..Cardinality(K))
    BY <2>3, <2>4, FS_Injection
  <2>. QED  BY <2>5 DEF Surjection, f
<1>. QED  BY <1>1, <1>2, <1>3, <1>4

(* Only(s, K) walks through the positions K in their order.                *)
LEMMA OnlyEnumerates ==
  ASSUME NEW T, NEW s \in Seq(T), NEW K \in SUBSET (1..Len(s))
  PROVE  /\ Only(s, K) \in Seq(T)
         /\ Len(Only(s, K)) = Cardinality(K)
         /\ Cardinality(K) \in Nat
         /\ \E h \in [1..Cardinality(K) -> K] :
              /\ \A n \in 1..Cardinality(K) : Only(s, K)[n] = s[h[n]]
              /\ \A m, n \in 1..Cardinality(K) : m < n => h[m] < h[n]
              /\ \A i \in K : \E n \in 1..Cardinality(K) : h[n] = i
<1> DEFINE Nth(n) == CHOOSE i \in K : Rank(K, i) = n
           N == Cardinality(K)
           h == [n \in 1..N |-> Nth(n)]
<1>1. Len(s) \in Nat /\ \A i \in K : i \in Nat /\ s[i] \in T
  OBVIOUS
<1>2. /\ N \in Nat
      /\ \A i \in K : Rank(K, i) \in 1..N
      /\ \A i, j \in K : i < j => Rank(K, i) < Rank(K, j)
      /\ \A m \in 1..N : \E i \in K : Rank(K, i) = m
  BY <1>1, Ranks
<1>3. ASSUME NEW n \in 1..N PROVE Nth(n) \in K /\ Rank(K, Nth(n)) = n
  BY <1>2
<1>4. Only(s, K) = [n \in 1..N |-> s[Nth(n)]]
  BY DEF Only, Rank
<1>. HIDE DEF Nth
<1>5. Only(s, K) \in [1..N -> T]
  BY <1>1, <1>3, <1>4
<1>6. Only(s, K) \in Seq(T) /\ Len(Only(s, K)) = N
  BY <1>2, <1>5
<1>7. h \in [1..N -> K] /\ \A n \in 1..N : Only(s, K)[n] = s[h[n]]
  BY <1>3, <1>4
<1>8. ASSUME NEW m \in 1..N, NEW n \in 1..N, m < n PROVE h[m] < h[n]
  <2>1. h[m] \in K /\ h[n] \in K /\ Rank(K, h[m]) = m /\ Rank(K, h[n]) = n
    BY <1>3
  <2> DEFINE a == h[m]
             b == h[n]
  <2>2. a \in Nat /\ b \in Nat
    BY <2>1, <1>1
  <2>3. a \in K /\ b \in K /\ Rank(K, a) = m /\ Rank(K, b) = n
    BY <2>1
  <2>. HIDE DEF a, b
  <2>4. m \in Nat /\ n \in Nat /\ ~(n < m) /\ n # m
    BY <1>2, <1>8
  <2>5. ~(b < a) /\ b # a
    BY <2>3, <2>4, <1>2
  <2>6. a < b
    BY <2>2, <2>5
  <2>. QED  BY <2>6 DEF a, b
<1>9. ASSUME NEW i \in K PROVE \E n \in 1..N : h[n] = i
  <2>1. Rank(K, i) \in 1..N
    BY <1>2
  <2>2. h[Rank(K, i)] \in K /\ Rank(K, h[Rank(K, i)]) = Rank(K, i)
    BY <2>1, <1>3
  <2> DEFINE a == h[Rank(K, i)]
  <2>3. a \in K /\ Rank(K, a) = Rank(K, i)
    BY <2>2
  <2>4. a \in Nat /\ i \in Nat
    BY <2>2, <1>1
  <2>5. Rank(K, i) \in Nat
    BY <2>1, <1>2
  <2>. HIDE DEF a
  <2>6. ~(a < i) /\ ~(i < a)
    BY <2>3, <2>5, <1>2
  <2>7. a = i
    BY <2>4, <2>6
  <2>. QED  BY <2>1, <2>7 DEF a
<1>. HIDE DEF h
<1>. QED  BY <1>2, <1>6, <1>7, <1>8, <1>9

(* What Only returns: an element of s for each position of K, none left    *)
(* out.                                                                    *)
LEMMA OnlyPicks ==
  ASSUME NEW T, NEW s \in Seq(T), NEW K \in SUBSET (1..Len(s))
  PROVE  /\ Only(s, K) \in Seq(T)
         /\ Len(Only(s, K)) = Cardinality(K)
         /\ \A n \in DOMAIN Only(s, K) : \E i \in K : Only(s, K)[n] = s[i]
         /\ \A i \in K : \E n \in DOMAIN Only(s, K) : Only(s, K)[n] = s[i]
<1>1. PICK h \in [1..Cardinality(K) -> K] :
        /\ \A n \in 1..Cardinality(K) : Only(s, K)[n] = s[h[n]]
        /\ \A i \in K : \E n \in 1..Cardinality(K) : h[n] = i
  BY OnlyEnumerates
<1>2. DOMAIN Only(s, K) = 1..Cardinality(K)
  BY OnlyEnumerates
<1>3. ASSUME NEW n \in DOMAIN Only(s, K)
      PROVE  \E i \in K : Only(s, K)[n] = s[i]
  BY <1>1, <1>2
<1>4. ASSUME NEW i \in K
      PROVE  \E n \in DOMAIN Only(s, K) : Only(s, K)[n] = s[i]
  <2>1. PICK n \in 1..Cardinality(K) : h[n] = i
    BY <1>1
  <2>. QED  BY <1>1, <1>2, <2>1
<1>. QED  BY <1>3, <1>4, OnlyEnumerates

(* And it keeps their order.                                               *)
LEMMA OnlyOrdered ==
  ASSUME NEW T, NEW s \in Seq(T), NEW K \in SUBSET (1..Len(s))
  PROVE  \A m, n \in DOMAIN Only(s, K) : m < n =>
           \E i, j \in K : i < j /\ Only(s, K)[m] = s[i] /\ Only(s, K)[n] = s[j]
<1>1. PICK h \in [1..Cardinality(K) -> K] :
        /\ \A n \in 1..Cardinality(K) : Only(s, K)[n] = s[h[n]]
        /\ \A m, n \in 1..Cardinality(K) : m < n => h[m] < h[n]
  BY OnlyEnumerates
<1>2. DOMAIN Only(s, K) = 1..Cardinality(K)
  BY OnlyEnumerates
<1> SUFFICES ASSUME NEW m \in 1..Cardinality(K), NEW n \in 1..Cardinality(K), m < n
             PROVE  \E i, j \in K : i < j /\ Only(s, K)[m] = s[i] /\ Only(s, K)[n] = s[j]
  BY <1>2
<1>3. h[m] \in K /\ h[n] \in K
  OBVIOUS
<1>. QED  BY <1>1, <1>3

LEMMA Reversed ==
  ASSUME NEW T, NEW s \in Seq(T)
  PROVE  /\ Ext!Reverse(s) \in Seq(T)
         /\ Len(Ext!Reverse(s)) = Len(s)
         /\ \A i \in 1..Len(s) : Ext!Reverse(s)[i] = s[Len(s) - i + 1]
  BY DEF Ext!Reverse

LEMMA Cut ==
  ASSUME NEW T, NEW s \in Seq(T), NEW n \in Nat
  PROVE  /\ FirstN(s, n) \in Seq(T)
         /\ Len(FirstN(s, n)) = Lesser(n, Len(s))
         /\ \A i \in 1..Lesser(n, Len(s)) : FirstN(s, n)[i] = s[i]
         /\ Len(FirstN(s, n)) < n => FirstN(s, n) = s
  BY DEF FirstN, Lesser

LEMMA NewestOf ==
  ASSUME NEW T, NEW s \in Seq(T), NEW n \in Nat
  PROVE  Newest(s, n) \in Seq(T) /\ Len(Newest(s, n)) = Lesser(n, Len(s))
<1> DEFINE t == SubSeq(s, Len(s) - Lesser(n, Len(s)) + 1, Len(s))
<1>1. t \in Seq(T) /\ Len(t) = Lesser(n, Len(s))
  BY DEF Lesser
<1>. QED  BY <1>1, Reversed DEF Newest

---------------------------------------------------------------------------
(* The access check                                                        *)

AnyPerm == [prefix : Prefixes \cup {Wildcard}, access : {"r", "rw"}]

(* The row is an ACL, if it is there.                                      *)
RowOK == row.acl \in Seq(AnyPerm)

(* What the routes store, and what a rescue user falls back on, are ACLs.  *)
LEMMA LoadedAcl ==
  ASSUME NEW r, r.acl \in Seq(AnyPerm)
  PROVE  LoadAdminAcl(r) \in Seq(AnyPerm)
  <1>1. [prefix |-> Wildcard, access |-> "rw"] \in AnyPerm
    BY DEF AnyPerm
  <1>2. RescueAcl \in Seq(AnyPerm)
    BY <1>1 DEF RescueAcl
  <1> QED
    BY <1>2 DEF LoadAdminAcl

(* RowOK is inductive.                                                     *)
LEMMA RowAlwaysOK == Spec => []RowOK
  <1>1. Init => RowOK
    BY DEF Init, Missing, RowOK
  <1>2. RowOK /\ [Next]_row => RowOK'
    <2> SUFFICES ASSUME RowOK, [Next]_row PROVE RowOK'
      OBVIOUS
    <2>1. ASSUME NEW acl \in Acls, UpdateAdminUserAcl(acl) PROVE RowOK'
      <3>1. PICK n \in 0..MaxPerms : acl \in [1..n -> Perm]
        BY DEF Acls
      <3>2. n \in Nat /\ Perm \subseteq AnyPerm
        BY AclAssumption DEF Perm, AnyPerm
      <3>3. acl \in Seq(AnyPerm)
        BY <3>1, <3>2
      <3> QED
        BY <2>1, <3>3 DEF RowOK, UpdateAdminUserAcl
    <2>2. CASE DeleteAdminUserAcl
      BY <2>2 DEF DeleteAdminUserAcl, Missing, RowOK
    <2>3. CASE UNCHANGED row
      BY <2>3 DEF RowOK
    <2> QED
      BY <2>1, <2>2, <2>3 DEF Next
  <1> QED
    BY <1>1, <1>2, PTL DEF Spec

(* A longer list that starts with a shorter one decides like it wherever   *)
(* the shorter one allows.                                                 *)
LEMMA FirstMatchStable ==
  ASSUME NEW T, NEW old \in Seq(T), NEW new \in Seq(T), NEW path, NEW mode,
         Extends(new, old), CheckAcl(old, path, mode)
  PROVE  CheckAcl(new, path, mode)
  <1>1. PICK i \in DOMAIN old :
          /\ Covers(old[i], path)
          /\ \A j \in 1..(i - 1) : ~Covers(old[j], path)
          /\ mode = "write" => old[i].access = "rw"
    BY DEF CheckAcl
  <1>2. \A j \in 1..Len(old) : j \in DOMAIN new /\ new[j] = old[j]
    BY DEF Extends
  <1>3. i \in 1..Len(old) /\ \A j \in 1..(i - 1) : j \in 1..Len(old)
    OBVIOUS
  <1> QED
    BY <1>1, <1>2, <1>3 DEF CheckAcl

(* Appending to a user's list never takes access away.                     *)
THEOREM AppendingIsSafe == Spec => AppendKeepsAccess
  <1>1. RowOK /\ RowOK' /\ [Next]_row =>
          [\A path \in Paths, mode \in Modes :
             Extends(LoadAdminAcl(row'), LoadAdminAcl(row)) /\ CheckAcl(LoadAdminAcl(row), path, mode)
               => CheckAcl(LoadAdminAcl(row'), path, mode)]_row
    <2> SUFFICES ASSUME RowOK, RowOK', NEW path \in Paths, NEW mode \in Modes,
                        Extends(LoadAdminAcl(row'), LoadAdminAcl(row)),
                        CheckAcl(LoadAdminAcl(row), path, mode)
                 PROVE  CheckAcl(LoadAdminAcl(row'), path, mode)
      OBVIOUS
    <2>1. LoadAdminAcl(row) \in Seq(AnyPerm)
      BY LoadedAcl DEF RowOK
    <2>2. LoadAdminAcl(row') \in Seq(AnyPerm)
      BY LoadedAcl DEF RowOK
    <2> QED
      BY <2>1, <2>2, FirstMatchStable
  <1> QED
    BY <1>1, RowAlwaysOK, PTL DEF Spec, AppendKeepsAccess

(* An entry that names no stash covers a stash exactly if it covers the    *)
(* app's own path.                                                         *)
LEMMA AliasCovers ==
  ASSUME NEW perm, NEW path \in Seq(STRING), Len(path) > 1, path[1] = CatalogRoot,
         perm.prefix \in Seq(STRING), perm.prefix # <<>>, perm.prefix[1] # CatalogRoot,
         path[2] # CatalogRoot
  PROVE  Covers(perm, path) <=> Covers(perm, Tail(path))
  <1>1. CandidatePaths(path) = {path, Tail(path)}
    BY DEF CandidatePaths
  <1>2. CandidatePaths(Tail(path)) = {Tail(path)}
    <2>1. Tail(path)[1] = path[2]
      OBVIOUS
    <2> QED
      BY <2>1 DEF CandidatePaths
  <1>3. PrefixMatches(perm.prefix, path) => perm.prefix = Wildcard
    <2> SUFFICES ASSUME Len(perm.prefix) <= Len(path),
                        SubSeq(path, 1, Len(perm.prefix)) = perm.prefix
                 PROVE  FALSE
      BY DEF PrefixMatches
    <2>1. Len(perm.prefix) >= 1
      OBVIOUS
    <2>2. SubSeq(path, 1, Len(perm.prefix))[1] = path[1]
      BY <2>1
    <2> QED
      BY <2>2
  <1> QED
    BY <1>1, <1>2, <1>3 DEF Covers, PrefixMatches

(* A non-empty set of positions has a least one.                           *)
LEMMA LeastPosition ==
  ASSUME NEW S, S \subseteq Nat, S # {}
  PROVE  \E i \in S : \A j \in S : ~(j < i)
  <1>1. \E x \in S : \A y \in S : ~(<<y, x>> \in OpToRel(<, Nat))
    BY WFMin, NatLessThanWellFounded
  <1> QED
    BY <1>1 DEF OpToRel

(* Some entry covers a path exactly if it may be read.                     *)
LEMMA ReadableIfCovered ==
  ASSUME NEW T, NEW acl \in Seq(T), NEW path
  PROVE  CheckAcl(acl, path, "read") <=> \E i \in DOMAIN acl : Covers(acl[i], path)
  <1>1. ASSUME NEW i \in DOMAIN acl, Covers(acl[i], path)
        PROVE  CheckAcl(acl, path, "read")
    <2> DEFINE S == {k \in DOMAIN acl : Covers(acl[k], path)}
    <2>1. S \subseteq Nat /\ S # {}
      BY <1>1
    <2>2. PICK k \in S : \A j \in S : ~(j < k)
      <3> HIDE DEF S
      <3> QED
        BY <2>1, LeastPosition
    <2>3. \A j \in 1..(k - 1) : j \in DOMAIN acl /\ j < k
      OBVIOUS
    <2> QED
      BY <2>2, <2>3 DEF CheckAcl
  <1>2. CheckAcl(acl, path, "read") => \E i \in DOMAIN acl : Covers(acl[i], path)
    BY DEF CheckAcl
  <1> QED
    BY <1>1, <1>2

(* How the listings and the check of a device's path agree: every covering *)
(* entry makes a path readable; the deciding entry of a write is one of    *)
(* the "rw" entries list_admins_for_device looks for; and where it is not, *)
(* it is an "r" entry that stands before those.                            *)
THEOREM ListingsAgree == Spec => []ListingsMatchCheck
  <1>1. RowOK => ListingsMatchCheck
    <2> DEFINE acl == row.acl
    <2> SUFFICES ASSUME RowOK, NEW path \in Paths, path[1] # CatalogRoot
                 PROVE  /\ Visible(LoadAdminAcl(row), path) <=> CheckAcl(LoadAdminAcl(row), path, "read")
                        /\ row.there =>
                             /\ ListedAccess(acl, path) # "none" <=> CheckAcl(acl, path, "read")
                             /\ CheckAcl(acl, path, "write") => ListedAccess(acl, path) = "rw"
                             /\ ListedAccess(acl, path) = "rw" =>
                                  CheckAcl(acl, path, "write") \/ ReadOnlyBefore(acl, path)
      BY DEF ListingsMatchCheck
    <2>1. CandidatePaths(path) = {path}
      BY DEF CandidatePaths
    <2>2. \A perm : Covers(perm, path) <=> PrefixMatches(perm.prefix, path)
      BY <2>1 DEF Covers
    <2>3. LoadAdminAcl(row) \in Seq(AnyPerm)
      BY LoadedAcl DEF RowOK
    <2>4. Visible(LoadAdminAcl(row), path) <=> CheckAcl(LoadAdminAcl(row), path, "read")
      BY <2>2, <2>3, ReadableIfCovered DEF Visible
    <2>5. ASSUME row.there
          PROVE  /\ ListedAccess(acl, path) # "none" <=> CheckAcl(acl, path, "read")
                 /\ CheckAcl(acl, path, "write") => ListedAccess(acl, path) = "rw"
                 /\ ListedAccess(acl, path) = "rw" =>
                      CheckAcl(acl, path, "write") \/ ReadOnlyBefore(acl, path)
      <3> DEFINE A == {acl[i].access : i \in {j \in DOMAIN acl : PrefixMatches(acl[j].prefix, path)}}
      <3>1. acl \in Seq(AnyPerm)
        BY <2>3, <2>5 DEF LoadAdminAcl
      <3>2. CheckAcl(acl, path, "read") <=> A # {}
        <4>1. CheckAcl(acl, path, "read") <=> \E i \in DOMAIN acl : Covers(acl[i], path)
          BY <3>1, ReadableIfCovered
        <4> QED
          BY <4>1, <2>2
      <3>3. CheckAcl(acl, path, "write") => "rw" \in A
        BY <2>2 DEF CheckAcl
      <3>4. ListedAccess(acl, path) = IF "rw" \in A THEN "rw" ELSE IF A # {} THEN "r" ELSE "none"
        BY DEF ListedAccess
      <3>5. ASSUME "rw" \in A
            PROVE  CheckAcl(acl, path, "write") \/ ReadOnlyBefore(acl, path)
        <4>1. PICK k \in DOMAIN acl : Covers(acl[k], path) /\ acl[k].access = "rw"
          BY <2>2, <3>5
        <4>2. PICK i \in DOMAIN acl :
                /\ Covers(acl[i], path)
                /\ \A j \in 1..(i - 1) : ~Covers(acl[j], path)
          BY <3>2, <3>5 DEF CheckAcl
        <4>3. acl[i].access \in {"r", "rw"}
          <5>1. acl[i] \in AnyPerm
            BY <3>1
          <5> QED
            BY <5>1 DEF AnyPerm
        <4>4. CASE acl[i].access = "rw"
          BY <4>2, <4>4 DEF CheckAcl
        <4>5. CASE acl[i].access = "r"
          <5>1. i < k
            <6>1. k \notin 1..(i - 1) /\ k # i
              BY <4>1, <4>2, <4>5
            <6> QED
              BY <3>1, <6>1
          <5> QED
            BY <2>2, <4>1, <4>2, <4>5, <5>1 DEF ReadOnlyBefore
        <4> QED
          BY <4>3, <4>4, <4>5
      <3> HIDE DEF A
      <3>6. "rw" \in A => A # {}
        OBVIOUS
      <3> QED
        BY <3>2, <3>3, <3>4, <3>5, <3>6
    <2> QED
      BY <2>4, <2>5
  <1> QED
    BY <1>1, RowAlwaysOK, PTL

(* The stash of an app is governed by the app's rules.                     *)
THEOREM StashFollowsApp == Spec => []CatalogFollowsApp
  <1>1. RowOK => CatalogFollowsApp
    <2> DEFINE acl == LoadAdminAcl(row)
    <2> SUFFICES ASSUME RowOK, ~StashRule(acl), NEW path \in Paths, NEW mode \in Modes,
                        Len(path) > 1, path[1] = CatalogRoot, path[2] # CatalogRoot
                 PROVE  CheckAcl(acl, path, mode) <=> CheckAcl(acl, Tail(path), mode)
      BY DEF CatalogFollowsApp
    <2>1. acl \in Seq(AnyPerm)
      BY LoadedAcl DEF RowOK
    <2>2. path \in Seq(STRING) /\ \A p \in Prefixes \cup {Wildcard} : p \in Seq(STRING) /\ p # <<>>
      BY AclAssumption
    <2>3. ASSUME NEW i \in DOMAIN acl
          PROVE  Covers(acl[i], path) <=> Covers(acl[i], Tail(path))
      <3>1. acl[i].prefix \in Prefixes \cup {Wildcard}
        <4>1. acl[i] \in AnyPerm
          <5> HIDE DEF acl
          <5> QED
            BY <2>1, <2>3
        <4> QED
          BY <4>1 DEF AnyPerm
      <3>2. acl[i].prefix[1] # CatalogRoot
        BY <2>3 DEF StashRule
      <3> QED
        BY <2>2, <3>1, <3>2, AliasCovers
    <2> HIDE DEF acl
    <2>4. \A i \in DOMAIN acl : \A j \in 1..(i - 1) : j \in DOMAIN acl
      BY <2>1
    <2> QED
      BY <2>3, <2>4 DEF CheckAcl
  <1> QED
    BY <1>1, RowAlwaysOK, PTL

(* The app or device the pages are laid out for is the only one the user   *)
(* may write to, in an ACL of any length.                                  *)
THEOREM ScopeIsHonest == Spec => []ScopeHonest
  <1>1. ScopeHonest
    <2> DEFINE acl == LoadAdminAcl(row)
    <2> SUFFICES ASSUME Scope(acl) # <<>>, NEW path \in Paths, CheckAcl(acl, path, "write")
                 PROVE  \E p \in CandidatePaths(path) : PrefixMatches(Scope(acl), p)
      BY DEF ScopeHonest, DeviceListed
    <2>1. PICK i \in Writable(acl) : Writable(acl) = {i}
      BY DEF Scope
    <2>2. Scope(acl) = acl[i].prefix
      BY <2>1 DEF Scope
    <2>3. PICK j \in DOMAIN acl : Covers(acl[j], path) /\ acl[j].access = "rw"
      BY DEF CheckAcl
    <2>4. j = i
      BY <2>1, <2>3 DEF Writable
    <2> QED
      BY <2>2, <2>3, <2>4 DEF Covers
  <1> QED
    BY <1>1, PTL

---------------------------------------------------------------------------
(* The activity log and the answers                                        *)

LogEntry == [serial : Nat, client : Clients, topic : Topics \cup {None}, status : Statuses]
PerfEntry == [serial : Nat, topic : Topics \cup {None}]
Request == [step : {"idle", "log", "perf"}, serial : Nat, topic : Topics \cup {None},
            status : Statuses]
LogQuery == [limit : Limits, want : SUBSET Clients, acl : Seq(AnyPerm)]

LogTypes ==
  /\ log \in Seq(LogEntry) /\ perf \in Seq(PerfEntry)
  /\ reqs \in [Clients -> Request]
  /\ reader # None => reader \in LogQuery
  /\ sent \in Nat /\ told \in SUBSET (Nat \ {0})

(* A serial number belongs to one request, and no client was told of one   *)
(* that is not over.                                                       *)
RequestsOK ==
  /\ \A c \in Clients :
       /\ reqs[c].step = "idle" <=> reqs[c].serial = 0
       /\ reqs[c].serial <= sent /\ reqs[c].serial \notin told
  /\ \A c, d \in Clients : c # d /\ reqs[c].serial = reqs[d].serial => reqs[c].serial = 0
  /\ \A n \in told : n <= sent

Logged(s, n) == (\E i \in DOMAIN s : s[i].serial = n) \/ Len(s) >= LogLen

(* An entry has the status its client will be told, or it was written by a *)
(* call that raised.                                                       *)
Agrees(e, req, br) ==
  \/ e.status = req.status
  \/ req.status = "failed" /\ e.serial \in br

(* The middleware writes a request's entry once, and its answer agrees.    *)
EntriesOK ==
  /\ \A i \in DOMAIN log : log[i].serial <= sent
  /\ \A c \in Clients :
       /\ reqs[c].step = "log" => \A i \in DOMAIN log : log[i].serial # reqs[c].serial
       /\ reqs[c].step = "perf" => \A i \in DOMAIN log :
            log[i].serial = reqs[c].serial => Agrees(log[i], reqs[c], broken)
       /\ reqs[c].step = "perf" /\ reqs[c].status = "ok" => Logged(log, reqs[c].serial)

LogInvariant == RowOK /\ LogTypes /\ RequestsOK /\ EntriesOK /\ LogMatchesAnswers

(* XADD keeps the newest entries in their order, and drops old ones only   *)
(* while LogLen are left.                                                  *)
LEMMA AppendedEntries ==
  ASSUME NEW T, NEW s \in Seq(T), NEW e \in T, NEW t \in Appended(s, e)
  PROVE  /\ t \in Seq(T)
         /\ \E k \in 0..Len(s) :
              /\ Len(t) = Len(s) + 1 - k
              /\ k = 0 \/ Len(t) >= LogLen
              /\ t[Len(t)] = e
              /\ \A i \in 1..(Len(t) - 1) : t[i] = s[i + k] /\ i + k \in 1..Len(s)
<1> DEFINE all == Append(s, e)
<1>1. all \in Seq(T) /\ Len(all) = Len(s) + 1 /\ all[Len(s) + 1] = e
  OBVIOUS
<1>2. \A i \in 1..Len(s) : all[i] = s[i]
  OBVIOUS
<1>3. PICK j \in 1..Len(all) : /\ t = SubSeq(all, j, Len(all))
                               /\ j = 1 \/ Len(all) - j + 1 >= LogLen
  BY <1>1 DEF Appended
<1> HIDE DEF all
<1>4. t \in Seq(T) /\ Len(t) = Len(s) + 1 - (j - 1)
  BY <1>1, <1>3
<1>5. \A i \in 1..Len(t) : t[i] = all[i + (j - 1)]
  BY <1>1, <1>3
<1>6. j - 1 \in 0..Len(s) /\ (j - 1 = 0 \/ Len(t) >= LogLen)
  BY <1>1, <1>3, <1>4
<1>7. t[Len(t)] = e
  BY <1>1, <1>4, <1>5, <1>6
<1>8. ASSUME NEW i \in 1..(Len(t) - 1)
      PROVE  t[i] = s[i + (j - 1)] /\ i + (j - 1) \in 1..Len(s)
  <2>1. i \in 1..Len(t) /\ i + (j - 1) \in 1..Len(s)
    BY <1>1, <1>4, <1>6
  <2> QED
    BY <1>2, <1>5, <2>1
<1> QED
  BY <1>4, <1>6, <1>7, <1>8

(* The entry of a request goes only while LogLen newer ones are there.     *)
LEMMA LoggedStays ==
  ASSUME NEW s \in Seq(LogEntry), NEW e \in LogEntry, NEW t \in Appended(s, e),
         NEW n, Logged(s, n) \/ n = e.serial
  PROVE  Logged(t, n)
<1>1. PICK k \in 0..Len(s) :
        /\ Len(t) = Len(s) + 1 - k
        /\ k = 0 \/ Len(t) >= LogLen
        /\ t[Len(t)] = e
        /\ \A i \in 1..(Len(t) - 1) : t[i] = s[i + k] /\ i + k \in 1..Len(s)
  BY AppendedEntries
<1>2. t \in Seq(LogEntry) /\ LogLen \in Nat
  BY AppendedEntries, LogAssumption
<1>3. CASE n = e.serial
  BY <1>1, <1>2, <1>3 DEF Logged
<1>4. CASE Len(t) >= LogLen
  BY <1>4 DEF Logged
<1>5. CASE k = 0 /\ \E i \in DOMAIN s : s[i].serial = n
  <2>1. PICK i \in DOMAIN s : s[i].serial = n
    BY <1>5
  <2>2. i \in 1..(Len(t) - 1) /\ i + k = i /\ i \in DOMAIN t
    BY <1>1, <1>2, <1>5
  <2> QED
    BY <1>1, <2>1, <2>2 DEF Logged
<1>6. CASE k = 0 /\ Len(s) >= LogLen
  BY <1>1, <1>2, <1>6 DEF Logged
<1> QED
  BY <1>1, <1>3, <1>4, <1>5, <1>6 DEF Logged

(* What any step of a client's request does to the log: no entry is        *)
(* written but its own, no request has two, and none goes but for LogLen   *)
(* newer ones.                                                             *)
LogGrows(c) ==
  /\ log' \in Seq(LogEntry)
  /\ \A i \in DOMAIN log' :
       \/ \E a \in DOMAIN log : log'[i] = log[a]
       \/ /\ reqs[c].step = "log"
          /\ log'[i].serial = reqs[c].serial /\ log'[i].status = reqs[c].status
  /\ \A i \in DOMAIN log' : log'[i].serial # 0 =>
       \A j \in 1..(i - 1) : log'[j].serial # log'[i].serial
  /\ \A n : Logged(log, n) => Logged(log', n)

LEMMA EntryWritten ==
  ASSUME LogTypes, RequestsOK, EntriesOK, LogMatchesAnswers, NEW c \in Clients,
         reqs[c].step = "log", log' \in Logs(c)
  PROVE  LogGrows(c) /\ Logged(log', reqs[c].serial)
<1> DEFINE e == [serial |-> reqs[c].serial, client |-> c,
                 topic |-> reqs[c].topic, status |-> reqs[c].status]
<1>1. log' \in Appended(log, e)
  BY DEF Logs
<1>2. e \in LogEntry
  BY DEF LogTypes, Request, LogEntry
<1>3. e.serial = reqs[c].serial /\ e.status = reqs[c].status
  OBVIOUS
<1> HIDE DEF e
<1>4. log' \in Seq(LogEntry)
  BY <1>1, <1>2, AppendedEntries DEF LogTypes
<1>5. PICK k \in 0..Len(log) :
        /\ Len(log') = Len(log) + 1 - k
        /\ k = 0 \/ Len(log') >= LogLen
        /\ log'[Len(log')] = e
        /\ \A i \in 1..(Len(log') - 1) : log'[i] = log[i + k] /\ i + k \in 1..Len(log)
  BY <1>1, <1>2, AppendedEntries DEF LogTypes
<1>6. \A i \in DOMAIN log' : \/ i = Len(log') /\ log'[i] = e
                             \/ /\ i \in 1..(Len(log') - 1) /\ i + k \in DOMAIN log
                                /\ log'[i] = log[i + k]
  BY <1>4, <1>5
<1>7. ASSUME NEW i \in DOMAIN log', log'[i].serial # 0, NEW j \in 1..(i - 1)
      PROVE  log'[j].serial # log'[i].serial
  <2>1. j \in 1..(Len(log') - 1) /\ j + k \in DOMAIN log /\ log'[j] = log[j + k]
    BY <1>4, <1>5, <1>7
  <2>2. CASE log'[i] = e
    BY <1>3, <2>1, <2>2 DEF EntriesOK
  <2>3. CASE i + k \in DOMAIN log /\ log'[i] = log[i + k]
    <3>1. PICK a \in DOMAIN log : a = i + k
      BY <2>3
    <3>2. j + k \in 1..(a - 1)
      BY <1>4, <2>1, <2>3, <3>1
    <3>3. log'[i] = log[a] /\ log[a].serial # 0
      BY <1>7, <2>3, <3>1
    <3>4. \A m \in 1..(a - 1) : log[m].serial # log[a].serial
      BY <3>3, Zenon DEF LogMatchesAnswers
    <3> QED
      BY <2>1, <3>2, <3>3, <3>4
  <2> QED
    BY <1>6, <2>2, <2>3
<1>8. ASSUME NEW n, Logged(log, n) \/ n = reqs[c].serial
      PROVE  Logged(log', n)
  BY <1>1, <1>2, <1>3, <1>8, LoggedStays DEF LogTypes
<1>9. \A i \in DOMAIN log' :
        \/ \E a \in DOMAIN log : log'[i] = log[a]
        \/ /\ reqs[c].step = "log"
           /\ log'[i].serial = reqs[c].serial /\ log'[i].status = reqs[c].status
  BY <1>3, <1>6
<1> QED
  BY <1>4, <1>7, <1>8, <1>9 DEF LogGrows

LEMMA LogKept ==
  ASSUME LogTypes, LogMatchesAnswers, NEW c \in Clients, log' = log
  PROVE  LogGrows(c)
  BY DEF LogGrows, LogTypes, LogMatchesAnswers

(* The performance log is a log of its own, whichever entry it gets.       *)
LEMMA PerfWritten ==
  ASSUME LogTypes, NEW c \in Clients, perf' \in {perf} \cup Perfs(c)
  PROVE  perf' \in Seq(PerfEntry)
<1> DEFINE p == [serial |-> reqs[c].serial, topic |-> reqs[c].topic]
<1>1. p \in PerfEntry
  BY DEF LogTypes, Request, PerfEntry
<1>2. perf' \in {perf} \cup Appended(perf, p)
  BY DEF Perfs
<1> HIDE DEF p
<1> QED
  BY <1>1, <1>2, AppendedEntries DEF LogTypes

(* The entries of a request that goes on agree with what it will be told.  *)
GoesOn(c, req) ==
  /\ req.step = "perf" /\ req.serial = reqs[c].serial
  /\ told' = told
  /\ \A i \in DOMAIN log' : log'[i].serial = req.serial => Agrees(log'[i], req, broken')
  /\ req.status = "ok" => Logged(log', req.serial)

(* The entries of a request that ends agree with what it was told, if it   *)
(* was told anything.                                                      *)
Ends(c, req) ==
  /\ req = IdleReq
  /\ \/ /\ told' = told
        /\ \A i \in DOMAIN log' : log'[i].serial = reqs[c].serial =>
             (log'[i].status = "ok" => log'[i].serial \in broken')
     \/ /\ told' = told \cup {reqs[c].serial}
        /\ Logged(log', reqs[c].serial)
        /\ \A i \in DOMAIN log' : log'[i].serial = reqs[c].serial => log'[i].status = "ok"

(* Such steps of a request keep the invariant.                             *)
LEMMA RequestStepKeeps ==
  ASSUME LogTypes, RequestsOK, EntriesOK, LogMatchesAnswers,
         NEW c \in Clients, reqs[c].step # "idle", LogGrows(c),
         NEW req \in Request, reqs' = [reqs EXCEPT ![c] = req],
         perf' \in Seq(PerfEntry), reader' = reader, sent' = sent,
         broken \subseteq broken', GoesOn(c, req) \/ Ends(c, req)
  PROVE  (LogTypes /\ RequestsOK /\ EntriesOK /\ LogMatchesAnswers)'
<1> DEFINE n == reqs[c].serial
<1>1. /\ n \in Nat /\ n # 0 /\ n <= sent /\ n \notin told
      /\ sent \in Nat /\ told \in SUBSET (Nat \ {0})
  BY DEF LogTypes, RequestsOK, Request
<1>2. /\ \A d \in Clients : d # c => reqs'[d] = reqs[d]
      /\ reqs'[c] = req
      /\ \/ req.serial = n /\ req.step = "perf"
         \/ req.serial = 0 /\ req.step = "idle"
  BY DEF LogTypes, GoesOn, Ends, IdleReq
<1>3. \A d \in Clients : d # c => reqs[d].serial # n
  BY <1>1 DEF RequestsOK
<1>4. told' = told \/ (req.serial = 0 /\ told' = told \cup {n})
  BY DEF GoesOn, Ends, IdleReq
<1>5. /\ log' \in Seq(LogEntry)
      /\ \A i \in DOMAIN log' :
           \/ \E a \in DOMAIN log : log'[i] = log[a]
           \/ log'[i].serial = n
      /\ \A i \in DOMAIN log' : log'[i].serial # 0 =>
           \A j \in 1..(i - 1) : log'[j].serial # log'[i].serial
      /\ \A m : Logged(log, m) => Logged(log', m)
  BY DEF LogGrows
<1>6. LogTypes'
  <2>1. reqs' \in [Clients -> Request]
    BY DEF LogTypes
  <2>2. told' \in SUBSET (Nat \ {0})
    BY <1>1, <1>4
  <2> QED
    BY <1>5, <2>1, <2>2 DEF LogTypes
<1>7. RequestsOK'
  <2>1. ASSUME NEW d \in Clients
        PROVE  /\ reqs'[d].step = "idle" <=> reqs'[d].serial = 0
               /\ reqs'[d].serial <= sent' /\ reqs'[d].serial \notin told'
    <3>1. CASE d = c
      BY <1>1, <1>2, <1>4, <3>1
    <3>2. CASE d # c
      BY <1>1, <1>2, <1>3, <1>4, <3>2 DEF RequestsOK
    <3> QED
      BY <3>1, <3>2
  <2>2. ASSUME NEW d \in Clients, NEW b \in Clients, d # b, reqs'[d].serial = reqs'[b].serial
        PROVE  reqs'[d].serial = 0
    BY <1>2, <1>3, <2>2 DEF RequestsOK
  <2>3. \A m \in told' : m <= sent'
    BY <1>1, <1>4 DEF RequestsOK
  <2> QED
    BY <2>1, <2>2, <2>3 DEF RequestsOK
<1>8. EntriesOK'
  <2>1. ASSUME NEW i \in DOMAIN log' PROVE log'[i].serial <= sent'
    BY <1>1, <1>5 DEF EntriesOK
  <2>2. ASSUME NEW d \in Clients
        PROVE  /\ reqs'[d].step = "log" => \A i \in DOMAIN log' : log'[i].serial # reqs'[d].serial
               /\ reqs'[d].step = "perf" => \A i \in DOMAIN log' :
                    log'[i].serial = reqs'[d].serial => Agrees(log'[i], reqs'[d], broken')
               /\ reqs'[d].step = "perf" /\ reqs'[d].status = "ok" => Logged(log', reqs'[d].serial)
    <3>1. CASE d = c
      BY <1>2, <3>1 DEF GoesOn, Ends, IdleReq
    <3>2. CASE d # c
      <4>1. reqs'[d] = reqs[d] /\ reqs[d].serial # n
        BY <1>2, <1>3, <3>2
      <4>2. reqs[d].step = "log" => \A i \in DOMAIN log' : log'[i].serial # reqs[d].serial
        BY <1>5, <4>1 DEF EntriesOK
      <4>3. ASSUME reqs[d].step = "perf", NEW i \in DOMAIN log', log'[i].serial = reqs[d].serial
            PROVE  Agrees(log'[i], reqs[d], broken')
        <5>1. PICK a \in DOMAIN log : log'[i] = log[a]
          BY <1>5, <4>1, <4>3
        <5>2. Agrees(log[a], reqs[d], broken)
          BY <4>3, <5>1 DEF EntriesOK
        <5> QED
          BY <5>1, <5>2 DEF Agrees
      <4>4. reqs[d].step = "perf" /\ reqs[d].status = "ok" => Logged(log', reqs[d].serial)
        BY <1>5 DEF EntriesOK
      <4> QED
        BY <4>1, <4>2, <4>3, <4>4
    <3> QED
      BY <3>1, <3>2
  <2> QED
    BY <2>1, <2>2 DEF EntriesOK
<1>9. LogMatchesAnswers'
  <2>1. ASSUME NEW i \in DOMAIN log', log'[i].serial # 0,
               \A d \in Clients : reqs'[d].serial # log'[i].serial
        PROVE  /\ log'[i].serial \in told' => log'[i].status = "ok"
               /\ log'[i].status = "ok" => log'[i].serial \in told' \cup broken'
    <3>1. CASE log'[i].serial = n
      <4>1. Ends(c, req)
        BY <1>2, <2>1, <3>1 DEF GoesOn
      <4> QED
        BY <1>1, <3>1, <4>1 DEF Ends
    <3>2. CASE log'[i].serial # n
      <4>1. PICK a \in DOMAIN log : log'[i] = log[a]
        BY <1>5, <3>2
      <4>2. Over(log[a].serial)
        BY <1>2, <2>1, <3>2, <4>1 DEF Over
      <4>3. /\ log[a].serial \in told => log[a].status = "ok"
            /\ log[a].status = "ok" => log[a].serial \in told \cup broken
        BY <2>1, <4>1, <4>2 DEF LogMatchesAnswers
      <4> QED
        BY <1>4, <3>2, <4>1, <4>3
    <3> QED
      BY <3>1, <3>2
  <2>2. ASSUME NEW m \in told' PROVE Logged(log', m)
    <3>1. CASE m \in told
      <4>1. Logged(log, m)
        BY <3>1 DEF LogMatchesAnswers, Logged
      <4> QED
        BY <1>5, <4>1
    <3>2. CASE m \notin told
      BY <2>2, <3>2 DEF GoesOn, Ends
    <3> QED
      BY <3>1, <3>2
  <2> QED
    BY <1>5, <2>1, <2>2 DEF LogMatchesAnswers, Logged, Over
<1> QED
  BY <1>6, <1>7, <1>8, <1>9

(* The middleware writes a request down.                                   *)
LEMMA LogRequestKeeps ==
  ASSUME LogTypes, RequestsOK, EntriesOK, LogMatchesAnswers, NEW c \in Clients, LogRequest(c)
  PROVE  (LogTypes /\ RequestsOK /\ EntriesOK /\ LogMatchesAnswers)'
<1> DEFINE req == [reqs[c] EXCEPT !.step = "perf"]
<1>1. /\ reqs[c].step = "log" /\ log' \in Logs(c)
      /\ reqs' = [reqs EXCEPT ![c].step = "perf"]
      /\ UNCHANGED <<perf, reader, sent, told, broken>>
  BY DEF LogRequest
<1>2. LogGrows(c) /\ Logged(log', reqs[c].serial)
  BY <1>1, EntryWritten
<1>3. /\ reqs' = [reqs EXCEPT ![c] = req] /\ req \in Request
      /\ req.step = "perf" /\ req.serial = reqs[c].serial /\ req.status = reqs[c].status
  BY <1>1 DEF LogTypes, Request
<1> HIDE DEF req
<1>4. \A i \in DOMAIN log' : log'[i].serial = req.serial => log'[i].status = req.status
  BY <1>1, <1>2, <1>3 DEF LogGrows, EntriesOK
<1>5. GoesOn(c, req)
  BY <1>1, <1>2, <1>3, <1>4 DEF GoesOn, Agrees
<1> QED
  BY <1>1, <1>2, <1>3, <1>5, RequestStepKeeps DEF LogTypes

(* A request gets a number no entry has yet.                               *)
LEMMA HandleRequestKeeps ==
  ASSUME LogTypes, RequestsOK, EntriesOK, LogMatchesAnswers,
         NEW c \in Clients, NEW topic \in Topics, NEW status \in Statuses,
         HandleRequest(c, topic, status)
  PROVE  (LogTypes /\ RequestsOK /\ EntriesOK /\ LogMatchesAnswers)'
<1>1. /\ reqs[c].step = "idle"
      /\ reqs' = [reqs EXCEPT ![c] = [step |-> "log", serial |-> sent + 1,
                                      topic |-> topic, status |-> status]]
      /\ sent' = sent + 1
      /\ UNCHANGED <<log, perf, reader, told, broken>>
  BY DEF HandleRequest, logVars
<1>2. sent \in Nat /\ sent + 1 # 0 /\ told \in SUBSET Nat /\ log \in Seq(LogEntry)
  BY DEF LogTypes
<1>3. /\ \A d \in Clients : d # c => reqs'[d] = reqs[d]
      /\ reqs'[c].step = "log" /\ reqs'[c].serial = sent + 1
  BY <1>1 DEF LogTypes
<1>4. \A d \in Clients : reqs[d].serial \in Nat
  BY DEF LogTypes, Request
<1>5. ASSUME NEW i \in DOMAIN log PROVE log[i].serial \in Nat
  <2>1. log[i] \in LogEntry
    BY <1>2
  <2> QED
    BY <2>1 DEF LogEntry
<1>6. LogTypes'
  BY <1>1, <1>2 DEF LogTypes, Request
<1>7. RequestsOK'
  <2>1. ASSUME NEW d \in Clients
        PROVE  /\ reqs'[d].step = "idle" <=> reqs'[d].serial = 0
               /\ reqs'[d].serial <= sent' /\ reqs'[d].serial \notin told'
    <3>1. CASE d = c
      BY <1>1, <1>2, <1>3, <3>1 DEF RequestsOK
    <3>2. CASE d # c
      BY <1>1, <1>2, <1>3, <1>4, <3>2 DEF RequestsOK
    <3> QED
      BY <3>1, <3>2
  <2>2. ASSUME NEW d \in Clients, NEW b \in Clients, d # b, reqs'[d].serial = reqs'[b].serial
        PROVE  reqs'[d].serial = 0
    BY <1>2, <1>3, <1>4, <2>2 DEF RequestsOK
  <2>3. \A n \in told' : n <= sent'
    BY <1>1, <1>2 DEF RequestsOK
  <2> QED
    BY <2>1, <2>2, <2>3 DEF RequestsOK
<1>8. EntriesOK'
  <2>1. \A i \in DOMAIN log' : log'[i].serial <= sent' /\ log'[i].serial # sent'
    BY <1>1, <1>2, <1>5 DEF EntriesOK
  <2>2. ASSUME NEW d \in Clients
        PROVE  /\ reqs'[d].step = "log" => \A i \in DOMAIN log' : log'[i].serial # reqs'[d].serial
               /\ reqs'[d].step = "perf" => \A i \in DOMAIN log' :
                    log'[i].serial = reqs'[d].serial => Agrees(log'[i], reqs'[d], broken')
               /\ reqs'[d].step = "perf" /\ reqs'[d].status = "ok" => Logged(log', reqs'[d].serial)
    <3>1. CASE d = c
      BY <1>1, <1>3, <2>1, <3>1
    <3>2. CASE d # c
      BY <1>1, <1>3, <3>2 DEF EntriesOK
    <3> QED
      BY <3>1, <3>2
  <2> QED
    BY <2>1, <2>2 DEF EntriesOK
<1>9. LogMatchesAnswers'
  <2>1. ASSUME NEW i \in DOMAIN log, log[i].serial # 0,
               \A d \in Clients : reqs'[d].serial # log[i].serial
        PROVE  Over(log[i].serial)
    <3>1. reqs[c].serial = 0
      BY <1>1 DEF RequestsOK
    <3> QED
      BY <1>3, <2>1, <3>1 DEF Over
  <2> QED
    BY <1>1, <2>1 DEF LogMatchesAnswers, Over
<1> QED
  BY <1>6, <1>7, <1>8, <1>9

(* A failing write turns the answer into a failure, entry or no entry.     *)
LEMMA LogFailsKeeps ==
  ASSUME LogTypes, RequestsOK, EntriesOK, LogMatchesAnswers,
         NEW c \in Clients, NEW applied \in BOOLEAN, LogFails(c, applied)
  PROVE  (LogTypes /\ RequestsOK /\ EntriesOK /\ LogMatchesAnswers)'
<1> DEFINE req == [reqs[c] EXCEPT !.step = "perf", !.status = "failed"]
<1>1. /\ reqs[c].step = "log"
      /\ IF applied THEN log' \in Logs(c) ELSE log' = log
      /\ broken' = IF applied THEN broken \cup {reqs[c].serial} ELSE broken
      /\ reqs' = [reqs EXCEPT ![c].step = "perf", ![c].status = "failed"]
      /\ UNCHANGED <<perf, reader, sent, told>>
  BY DEF LogFails
<1>2. LogGrows(c)
  BY <1>1, EntryWritten, LogKept
<1>3. /\ reqs' = [reqs EXCEPT ![c] = req] /\ req \in Request
      /\ req.step = "perf" /\ req.serial = reqs[c].serial /\ req.status = "failed"
  BY <1>1 DEF LogTypes, Request, Statuses
<1> HIDE DEF req
<1>4. ASSUME NEW i \in DOMAIN log', log'[i].serial = req.serial
      PROVE  Agrees(log'[i], req, broken')
  <2>1. CASE applied
    BY <1>1, <1>3, <1>4, <2>1 DEF Agrees
  <2>2. CASE ~applied
    BY <1>1, <1>3, <1>4, <2>2 DEF EntriesOK
  <2> QED
    BY <2>1, <2>2
<1>5. GoesOn(c, req)
  BY <1>1, <1>3, <1>4 DEF GoesOn
<1> QED
  BY <1>1, <1>2, <1>3, <1>5, RequestStepKeeps DEF LogTypes

(* The answer says what the log says.                                      *)
LEMMA AnswerKeeps ==
  ASSUME LogTypes, RequestsOK, EntriesOK, LogMatchesAnswers,
         NEW c \in Clients, NEW slow \in BOOLEAN, Answer(c, slow)
  PROVE  (LogTypes /\ RequestsOK /\ EntriesOK /\ LogMatchesAnswers)'
<1>1. /\ reqs[c].step = "perf"
      /\ perf' \in {perf} \cup Perfs(c)
      /\ told' = IF reqs[c].status = "ok" THEN told \cup {reqs[c].serial} ELSE told
      /\ reqs' = [reqs EXCEPT ![c] = IdleReq]
      /\ UNCHANGED <<log, reader, sent, broken>>
  BY DEF Answer
<1>2. LogGrows(c) /\ perf' \in Seq(PerfEntry)
  BY <1>1, LogKept, PerfWritten
<1>3. IdleReq \in Request
  BY DEF IdleReq, Request, Statuses
<1>4. reqs[c].status \in {"ok", "failed"}
  BY DEF LogTypes, Request, Statuses
<1>5. CASE reqs[c].status = "ok"
  <2>1. Logged(log', reqs[c].serial)
    BY <1>1, <1>5 DEF EntriesOK
  <2>2. \A i \in DOMAIN log' : log'[i].serial = reqs[c].serial => log'[i].status = "ok"
    BY <1>1, <1>5 DEF EntriesOK, Agrees
  <2> QED
    BY <1>1, <1>2, <1>3, <1>5, <2>1, <2>2, RequestStepKeeps DEF Ends
<1>6. CASE reqs[c].status = "failed"
  <2>1. \A i \in DOMAIN log' : log'[i].serial = reqs[c].serial =>
          (log'[i].status = "ok" => log'[i].serial \in broken')
    BY <1>1, <1>6 DEF EntriesOK, Agrees
  <2> QED
    BY <1>1, <1>2, <1>3, <1>6, <2>1, RequestStepKeeps DEF Ends
<1> QED
  BY <1>4, <1>5, <1>6

(* A request that breaks off is told nothing.                              *)
LEMMA BreakOffKeeps ==
  ASSUME LogTypes, RequestsOK, EntriesOK, LogMatchesAnswers, NEW c \in Clients, BreakOff(c)
  PROVE  (LogTypes /\ RequestsOK /\ EntriesOK /\ LogMatchesAnswers)'
<1>1. /\ reqs[c].step # "idle"
      /\ log' = log \/ (reqs[c].step = "log" /\ log' \in Logs(c))
      /\ perf' \in {perf} \cup Perfs(c)
      /\ broken' = broken \cup {reqs[c].serial}
      /\ reqs' = [reqs EXCEPT ![c] = IdleReq]
      /\ UNCHANGED <<reader, sent, told>>
  BY DEF BreakOff
<1>2. LogGrows(c) /\ perf' \in Seq(PerfEntry)
  BY <1>1, EntryWritten, LogKept, PerfWritten
<1>3. IdleReq \in Request
  BY DEF IdleReq, Request, Statuses
<1>4. Ends(c, IdleReq)
  BY <1>1 DEF Ends
<1> QED
  BY <1>1, <1>2, <1>3, <1>4, RequestStepKeeps

(* Nothing an administrator does touches the log or a request.             *)
LEMMA ReadingKeeps ==
  ASSUME LogTypes, RequestsOK, EntriesOK, LogMatchesAnswers,
         UNCHANGED <<log, perf, reqs, sent, told, broken>>, (reader # None => reader \in LogQuery)'
  PROVE  (LogTypes /\ RequestsOK /\ EntriesOK /\ LogMatchesAnswers)'
  BY DEF LogTypes, RequestsOK, EntriesOK, LogMatchesAnswers, Over, Logged

(* Traffic and pages included, the row changes as in Acl.                  *)
LEMMA RowSteps == LogNext => [Next]_row
<1> SUFFICES ASSUME LogNext PROVE [Next]_row
  OBVIOUS
<1>1. CASE Device
  BY <1>1 DEF Device, HandleRequest, LogRequest, LogFails, Answer, BreakOff
<1>2. CASE Administrator
  BY <1>2 DEF Administrator, GetLogs, ShowLogs, GetPerfLog
<1>3. CASE EditAcl
  <2>1. CASE sent = 0 /\ reader = None
    BY <1>3, <2>1 DEF EditAcl
  <2>2. CASE ~(sent = 0 /\ reader = None)
    <3>1. PICK r \in LogRows :
            IF r.there THEN UpdateAdminUserAcl(r.acl) ELSE r = Missing /\ DeleteAdminUserAcl
      BY <1>3, <2>2 DEF EditAcl
    <3>2. r.there => r.acl \in Acls
      BY <3>1, LogAssumption DEF Missing
    <3> QED
      BY <3>1, <3>2 DEF Next
  <2> QED
    BY <2>1, <2>2
<1> QED
  BY <1>1, <1>2, <1>3 DEF LogNext

(* The administrator's row under traffic is the row of Acl: what is proved *)
(* of Spec holds in the system with its logs.                              *)
THEOREM RowAsInAcl == LogSpec => Spec
<1>1. LogInit => Init
  BY DEF LogInit
<1>2. [LogNext]_vars => [Next]_row
  BY RowSteps DEF vars
<1> QED
  BY <1>1, <1>2, PTL DEF LogSpec, Spec

(* Appending, the listings, the scope of the pages and the stash rule are  *)
(* as safe under traffic, whenever the row is edited.                      *)
THEOREM UnderTraffic ==
  LogSpec => /\ AppendKeepsAccess
             /\ [](ListingsMatchCheck /\ ScopeHonest /\ CatalogFollowsApp)
BY RowAsInAcl, AppendingIsSafe, ListingsAgree, ScopeIsHonest, StashFollowsApp, PTL

---------------------------------------------------------------------------
(* The pages of the logs                                                   *)

(* A page cut from the entries that were picked: a short one holds them    *)
(* all.                                                                    *)
LEMMA PageOfPicked ==
  ASSUME NEW T, NEW s \in Seq(T), NEW K \in SUBSET (1..Len(s)), NEW n \in Nat
  PROVE  LET rows == FirstN(Only(s, K), n) IN
         /\ rows \in Seq(T)
         /\ \A i \in 1..Len(rows) : \E j \in K : rows[i] = s[j]
         /\ Len(rows) < n => /\ Len(rows) = Cardinality(K)
                             /\ \A j \in K : \E i \in 1..Len(rows) : rows[i] = s[j]
<1> DEFINE rows == FirstN(Only(s, K), n)
           all == Only(s, K)
<1>1. /\ all \in Seq(T) /\ Len(all) = Cardinality(K)
      /\ \A i \in DOMAIN all : \E j \in K : all[i] = s[j]
      /\ \A j \in K : \E i \in DOMAIN all : all[i] = s[j]
  BY OnlyPicks
<1>2. /\ rows \in Seq(T) /\ Len(rows) = Lesser(n, Len(all))
      /\ \A i \in 1..Lesser(n, Len(all)) : rows[i] = all[i]
      /\ Len(rows) < n => rows = all
  BY <1>1, Cut
<1> HIDE DEF all, rows
<1>3. ASSUME NEW i \in 1..Len(rows) PROVE \E j \in K : rows[i] = s[j]
  <2>1. i \in DOMAIN all /\ rows[i] = all[i]
    BY <1>1, <1>2 DEF Lesser
  <2> QED
    BY <1>1, <2>1
<1>4. ASSUME Len(rows) < n
      PROVE  /\ Len(rows) = Cardinality(K)
             /\ \A j \in K : \E i \in 1..Len(rows) : rows[i] = s[j]
  <2>1. rows = all
    BY <1>2, <1>4
  <2> QED
    BY <1>1, <2>1
<1> QED
  BY <1>2, <1>3, <1>4 DEF rows

(* Who has a wildcard entry may read everything.                           *)
LEMMA WildcardReads ==
  ASSUME NEW acl \in Seq(AnyPerm), IsWildcard(acl), NEW path
  PROVE  CheckAcl(acl, path, "read")
<1>1. PICK i \in DOMAIN acl : acl[i].prefix = Wildcard
  BY DEF IsWildcard
<1>2. Covers(acl[i], path)
  BY <1>1 DEF Covers, CandidatePaths, PrefixMatches
<1> QED
  BY <1>2, ReadableIfCovered

(* GET /logs.                                                              *)
LEMMA ShowLogsHonest ==
  ASSUME LogTypes, ShowLogs
  PROVE  ActivityPage'
<1> DEFINE limit == reader.limit
           acl == reader.acl
           want == reader.want
           n == FetchCount(limit, acl)
           records == Newest(log, n)
           kept == {i \in DOMAIN records : MayShow(records[i], want, acl)}
           rows == FirstN(Only(records, kept), limit)
<1>1. reader \in LogQuery
  BY DEF LogTypes, ShowLogs
<1>2. limit \in Nat /\ limit * Factor \in Nat /\ Ceiling \in Nat
  <2>1. limit \in Nat /\ Factor \in Nat /\ Ceiling \in Nat
    BY <1>1, PagesAssumption, LogAssumption DEF LogQuery
  <2> QED
    BY <2>1
<1>3. n \in Nat
  BY <1>2 DEF FetchCount, Lesser
<1>4. shown'.rows = rows /\ shown'.limit = limit /\ shown'.want = want
      /\ shown'.acl = acl /\ shown'.log = log
  BY DEF ShowLogs
<1>5. records \in Seq(LogEntry) /\ Len(records) = Lesser(n, Len(log))
  <2> HIDE DEF n
  <2> QED
    BY <1>3, NewestOf DEF LogTypes
<1>6. DOMAIN records = 1..Len(records) /\ kept \in SUBSET (1..Len(records))
  <2> HIDE DEF records
  <2> QED
    BY <1>5
<1>7. /\ \A i \in DOMAIN rows : \E j \in kept : rows[i] = records[j]
      /\ Len(rows) < limit => /\ Len(rows) = Cardinality(kept)
                              /\ \A j \in kept : \E i \in DOMAIN rows : rows[i] = records[j]
  <2>1. limit \in Nat /\ records \in Seq(LogEntry) /\ kept \in SUBSET (1..Len(records))
    BY <1>2, <1>5, <1>6
  <2> HIDE DEF records, kept, limit
  <2>3. rows \in Seq(LogEntry)
    BY <2>1, PageOfPicked
  <2>4. \A i \in 1..Len(rows) : \E j \in kept : rows[i] = records[j]
    BY <2>1, PageOfPicked
  <2>5. Len(rows) < limit => Len(rows) = Cardinality(kept)
    BY <2>1, PageOfPicked
  <2>6. Len(rows) < limit => \A j \in kept : \E i \in 1..Len(rows) : rows[i] = records[j]
    BY <2>1, PageOfPicked
  <2> HIDE DEF rows
  <2> QED
    BY <2>3, <2>4, <2>5, <2>6
<1>8. \A i \in DOMAIN rows : MayShow(rows[i], want, acl)
  <2> HIDE DEF records, rows
  <2> QED
    BY <1>7
<1>9. ASSUME Len(rows) < limit, IsWildcard(acl), want = {}
      PROVE  Len(rows) = Len(log)
  <2>1. \A i \in DOMAIN records : MayShow(records[i], want, acl)
    <3> HIDE DEF records
    <3> QED
      BY <1>1, <1>9, WildcardReads DEF MayShow, LogQuery
  <2>2. kept = 1..Len(records)
    <3> HIDE DEF records
    <3> QED
      BY <1>6, <2>1
  <2>3. Len(records) \in Nat
    BY <1>5
  <2>4. Cardinality(kept) = Len(records)
    <3> HIDE DEF records, kept
    <3>1. Cardinality(1..Len(records)) = IF 1 > Len(records) THEN 0 ELSE Len(records) - 1 + 1
      BY <2>3, FS_Interval
    <3> QED
      BY <2>2, <2>3, <3>1
  <2>5. Len(rows) = Lesser(limit, Len(log)) /\ Len(log) \in Nat
    BY <1>5, <1>7, <1>9, <2>4 DEF FetchCount, LogTypes
  <2> HIDE DEF rows, limit
  <2> QED
    BY <1>2, <1>9, <2>5 DEF Lesser
<1>10. ASSUME Len(rows) < limit, ~IsWildcard(acl),
              NEW i \in DOMAIN Newest(log, Lesser(limit * Factor, Ceiling)),
              MayShow(Newest(log, Lesser(limit * Factor, Ceiling))[i], want, acl)
       PROVE  \E k \in DOMAIN rows : rows[k] = Newest(log, Lesser(limit * Factor, Ceiling))[i]
  <2>1. Newest(log, Lesser(limit * Factor, Ceiling)) = records
    BY <1>10 DEF FetchCount
  <2> HIDE DEF records, rows, limit
  <2>2. i \in kept
    BY <1>10, <2>1
  <2> HIDE DEF kept
  <2> QED
    BY <1>7, <1>10, <2>1, <2>2
<1> HIDE DEF rows, limit, acl, want
<1> QED
  BY <1>4, <1>8, <1>9, <1>10 DEF ActivityPage, Shows, IsWildcard

(* GET /perf_log.                                                          *)
LEMMA GetPerfLogHonest ==
  ASSUME LogTypes, NEW limit \in Limits, NEW want \in SUBSET Topics, GetPerfLog(limit, want)
  PROVE  PerfPage'
<1> DEFINE records == Newest(perf, PerfWindow(limit))
           kept == {i \in DOMAIN records : want # {} => records[i].topic \in want}
           rows == FirstN(Only(records, kept), limit)
<1>1. perfs'.rows = rows /\ perfs'.limit = limit /\ perfs'.want = want /\ perfs'.log = perf
  BY DEF GetPerfLog
<1>2. limit \in Nat /\ PerfFactor \in Nat /\ Ceiling \in Nat
  BY PagesAssumption, LogAssumption
<1>3. PerfWindow(limit) = Lesser(limit * PerfFactor, Ceiling) /\ PerfWindow(limit) \in Nat
  <2>1. limit * PerfFactor \in Nat
    BY <1>2
  <2> QED
    BY <1>2, <2>1 DEF PerfWindow, Lesser
<1>4. records \in Seq(PerfEntry)
  BY <1>3, NewestOf DEF LogTypes
<1>5. kept \in SUBSET (1..Len(records))
  <2> HIDE DEF records
  <2> QED
    BY <1>4
<1>6. Len(rows) < limit => \A j \in kept : \E i \in DOMAIN rows : rows[i] = records[j]
  <2> HIDE DEF records, kept
  <2>2. rows \in Seq(PerfEntry)
    BY <1>2, <1>4, <1>5, PageOfPicked
  <2>3. Len(rows) < limit => \A j \in kept : \E i \in 1..Len(rows) : rows[i] = records[j]
    BY <1>2, <1>4, <1>5, PageOfPicked
  <2> QED
    BY <2>2, <2>3
<1>7. records = Newest(perfs'.log, Lesser(perfs'.limit * PerfFactor, Ceiling))
  BY <1>1, <1>3
<1> HIDE DEF rows, records
<1> QED
  BY <1>1, <1>6, <1>7 DEF PerfPage, Shows

LEMMA NoPageHonest == /\ shown' = NoPage => ActivityPage'
                      /\ perfs' = NoPage => PerfPage'
  BY DEF NoPage, ActivityPage, PerfPage

(* A step of LogNext keeps what is true of rows, requests, logs and pages. *)
LEMMA LogStep ==
  ASSUME LogInvariant, LogPage, RowOK', [LogNext]_vars
  PROVE  (LogInvariant /\ LogPage)'
<1> USE DEF LogInvariant
<1>1. CASE UNCHANGED vars
  BY <1>1 DEF vars, logVars, LogTypes, RequestsOK, EntriesOK, LogMatchesAnswers, Over, Logged,
     LogPage, ActivityPage, PerfPage, Shows
<1>2. CASE Device
  <2>1. LogPage'
    BY <1>2, NoPageHonest DEF Device, HandleRequest, LogRequest, LogFails, Answer, BreakOff,
       NothingShown, LogPage
  <2> QED
    BY <1>2, <2>1, HandleRequestKeeps, LogRequestKeeps, LogFailsKeeps, AnswerKeeps,
       BreakOffKeeps DEF Device
<1>3. ASSUME NEW limit \in Limits, NEW want \in SUBSET Clients, GetLogs(limit, want)
      PROVE  (LogInvariant /\ LogPage)'
  <2>1. LoadAdminAcl(row) \in Seq(AnyPerm)
    BY LoadedAcl DEF RowOK
  <2>2. reader' \in LogQuery /\ UNCHANGED <<log, perf, reqs, sent, told, broken>>
    BY <1>3, <2>1 DEF GetLogs, LogQuery, logVars
  <2>3. LogPage'
    BY <1>3, NoPageHonest DEF GetLogs, NothingShown, LogPage
  <2> QED
    BY <2>2, <2>3, ReadingKeeps
<1>4. CASE ShowLogs
  <2>1. UNCHANGED <<log, perf, reqs, sent, told, broken>> /\ reader' = None /\ perfs' = NoPage
    BY <1>4 DEF ShowLogs, logVars
  <2>2. LogPage'
    BY <1>4, <2>1, ShowLogsHonest, NoPageHonest DEF LogPage
  <2> QED
    BY <2>1, <2>2, ReadingKeeps
<1>5. ASSUME NEW limit \in Limits, NEW want \in SUBSET Topics, GetPerfLog(limit, want)
      PROVE  (LogInvariant /\ LogPage)'
  <2>1. UNCHANGED <<log, perf, reqs, sent, told, broken, reader>> /\ shown' = NoPage
    BY <1>5 DEF GetPerfLog, logVars
  <2>2. LogPage'
    BY <1>5, <2>1, GetPerfLogHonest, NoPageHonest DEF LogPage
  <2>3. (reader # None => reader \in LogQuery)'
    BY <2>1 DEF LogTypes
  <2> QED
    BY <2>1, <2>2, <2>3, ReadingKeeps
<1>6. CASE EditAcl
  <2>1. UNCHANGED <<log, perf, reqs, sent, told, broken, reader>> /\ NothingShown
    BY <1>6 DEF EditAcl, logVars
  <2>2. LogPage'
    BY <2>1, NoPageHonest DEF LogPage, NothingShown
  <2>3. (reader # None => reader \in LogQuery)'
    BY <2>1 DEF LogTypes
  <2> QED
    BY <2>1, <2>2, <2>3, ReadingKeeps
<1> QED
  BY <1>1, <1>2, <1>3, <1>4, <1>5, <1>6 DEF LogNext, Administrator

LEMMA LogStart == LogInit => LogInvariant /\ LogPage
<1> SUFFICES ASSUME LogInit PROVE LogInvariant /\ LogPage
  OBVIOUS
<1>1. RowOK
  BY DEF LogInit, Init, Missing, RowOK
<1>2. log \in Seq(LogEntry) /\ \A i \in DOMAIN log : log[i].serial = 0
  <2>1. CASE log = <<>>
    BY <2>1
  <2>2. ASSUME NEW c \in Clients, log = <<FirmwareEntry(c)>>
        PROVE  log \in Seq(LogEntry) /\ \A i \in DOMAIN log : log[i].serial = 0
    <3>1. FirmwareEntry(c) \in LogEntry /\ FirmwareEntry(c).serial = 0
      BY DEF FirmwareEntry, LogEntry, Statuses
    <3> QED
      BY <2>2, <3>1
  <2> QED
    BY <2>1, <2>2 DEF LogInit
<1>3. LogTypes
  BY <1>2 DEF LogInit, LogTypes, IdleReq, Request, Statuses
<1>4. RequestsOK
  BY DEF LogInit, RequestsOK, IdleReq
<1>5. EntriesOK
  BY <1>2 DEF LogInit, EntriesOK, IdleReq
<1>6. LogMatchesAnswers
  BY <1>2 DEF LogInit, LogMatchesAnswers
<1>7. LogPage
  BY DEF LogInit, NoPage, LogPage, ActivityPage, PerfPage
<1> QED
  BY <1>1, <1>3, <1>4, <1>5, <1>6, <1>7 DEF LogInvariant

(* LogInvariant is an invariant, whatever the traffic.                     *)
LEMMA LogAlwaysOK == LogSpec => [](LogInvariant /\ LogPage)
<1>1. RowOK' /\ (LogInvariant /\ LogPage) /\ [LogNext]_vars => (LogInvariant /\ LogPage)'
  BY LogStep
<1> QED
  BY <1>1, LogStart, RowAsInAcl, RowAlwaysOK, PTL DEF LogSpec

(* The activity log never says less than the devices were told, and more   *)
(* only of requests that broke off or whose write raised after it was      *)
(* applied: for any number of devices and requests, however many entries a *)
(* trimming drops, whichever writes fail and wherever the server stops.    *)
THEOREM LogIsHonest == LogSpec => []LogMatchesAnswers
  BY LogAlwaysOK, PTL DEF LogInvariant

(* Neither listing shows what its reader may not see, or hides behind a    *)
(* short page what it may, for ACLs, logs and pages of any length.         *)
THEOREM LogPagesHonest == LogSpec => []LogPage
  BY LogAlwaysOK, PTL

---------------------------------------------------------------------------
(* The pages of a stream                                                   *)

Message == [id : Nat, client : Clients, exp : Nat]
Reading == [kind : {"monitor", "dump"}, want : SUBSET Clients, limit : Nat,
            cursor : Nat \cup {None}, batches : Nat, found : Seq(Message), before : Seq(Message)]

Increasing(s) == \A i, j \in DOMAIN s : i < j => s[i].id < s[j].id
Decreasing(s) == \A i, j \in DOMAIN s : i < j => s[i].id > s[j].id

StreamOK ==
  /\ stream \in Seq(Message) /\ Increasing(stream)
  /\ newest \in Nat /\ now \in Nat
  /\ \A n \in Ids(stream) : n <= newest

ReadingOK ==
  reading # None =>
    /\ reading \in Reading
    /\ \A n \in Ids(reading.before) : n <= newest
    /\ reading.cursor = None => reading.found = <<>>
    /\ reading.cursor # None => reading.cursor <= newest

(* The monitor has found all it is after from its cursor on, ...           *)
MonitorOK ==
  reading # None /\ reading.kind = "monitor" =>
    /\ Decreasing(reading.found)
    /\ reading.cursor # None =>
         /\ \A n \in Ids(reading.found) : n >= reading.cursor
         /\ \A i \in DOMAIN stream :
              /\ stream[i].id \in Ids(reading.before) /\ stream[i].client \in reading.want
              /\ stream[i].id >= reading.cursor
              => stream[i].id \in Ids(reading.found)

(* ... and the dump up to its own.                                         *)
DumpOK ==
  reading # None /\ reading.kind = "dump" =>
    /\ Increasing(reading.found)
    /\ reading.cursor # None =>
         /\ \A n \in Ids(reading.found) : n <= reading.cursor
         /\ \A i \in DOMAIN stream :
              stream[i].client \in reading.want /\ stream[i].id <= reading.cursor
              => stream[i].id \in Ids(reading.found)

PageOK == NewestFirst /\ NothingMissed /\ DumpComplete

PagerOK == StreamOK /\ ReadingOK /\ MonitorOK /\ DumpOK /\ PageOK

LEMMA MessageIds ==
  ASSUME NEW s \in Seq(Message)
  PROVE  \A i \in DOMAIN s : s[i].id \in Nat /\ s[i] \in Message
<1> SUFFICES ASSUME NEW i \in DOMAIN s PROVE s[i].id \in Nat /\ s[i] \in Message
  OBVIOUS
<1>1. s[i] \in Message
  OBVIOUS
<1> QED
  BY <1>1 DEF Message

(* Picking keeps the order.                                                *)
LEMMA OnlySorted ==
  ASSUME NEW s \in Seq(Message), NEW K \in SUBSET (1..Len(s))
  PROVE  /\ Increasing(s) => Increasing(Only(s, K))
         /\ Decreasing(s) => Decreasing(Only(s, K))
<1> DEFINE t == Only(s, K)
<1>1. \A m, n \in DOMAIN t : m < n =>
        \E i, j \in K : i < j /\ t[m] = s[i] /\ t[n] = s[j]
  BY OnlyOrdered
<1>2. \A i \in K : i \in DOMAIN s
  OBVIOUS
<1> HIDE DEF t
<1>3. Increasing(s) => Increasing(t)
  BY <1>1, <1>2 DEF Increasing
<1>4. Decreasing(s) => Decreasing(t)
  BY <1>1, <1>2 DEF Decreasing
<1> QED
  BY <1>3, <1>4 DEF t

(* So does a cut, and reversing turns it round.                            *)
LEMMA CutSorted ==
  ASSUME NEW s \in Seq(Message), NEW n \in Nat
  PROVE  /\ Increasing(s) => Increasing(FirstN(s, n))
         /\ Decreasing(s) => Decreasing(FirstN(s, n))
<1> DEFINE t == FirstN(s, n)
<1>1. /\ t \in Seq(Message) /\ Len(t) = Lesser(n, Len(s))
      /\ \A i \in 1..Lesser(n, Len(s)) : t[i] = s[i]
  BY Cut
<1> HIDE DEF t
<1>2. \A i \in DOMAIN t : i \in DOMAIN s /\ t[i] = s[i]
  BY <1>1 DEF Lesser
<1>3. (Increasing(s) => Increasing(t)) /\ (Decreasing(s) => Decreasing(t))
  BY <1>2 DEF Increasing, Decreasing
<1> QED
  BY <1>3 DEF t

LEMMA ReverseSorted ==
  ASSUME NEW s \in Seq(Message)
  PROVE  Increasing(s) => Decreasing(Ext!Reverse(s))
<1> DEFINE t == Ext!Reverse(s)
<1>1. t \in Seq(Message) /\ Len(t) = Len(s) /\ \A i \in 1..Len(s) : t[i] = s[Len(s) - i + 1]
  BY Reversed
<1> HIDE DEF t
<1>2. ASSUME Increasing(s), NEW i \in DOMAIN t, NEW j \in DOMAIN t, i < j
      PROVE  t[i].id > t[j].id
  <2> DEFINE a == Len(s) - i + 1
             b == Len(s) - j + 1
  <2>1. a \in DOMAIN s /\ b \in DOMAIN s /\ b < a /\ t[i] = s[a] /\ t[j] = s[b]
    <3>1. i \in 1..Len(s) /\ j \in 1..Len(s) /\ Len(s) \in Nat
      BY <1>1, <1>2
    <3>2. t[i] = s[a] /\ t[j] = s[b]
      BY <1>1, <3>1
    <3>3. a \in 1..Len(s) /\ b \in 1..Len(s) /\ b < a
      BY <1>2, <3>1
    <3> QED
      BY <3>2, <3>3
  <2> HIDE DEF a, b
  <2>2. s[a].id \in Nat /\ s[b].id \in Nat /\ s[b].id < s[a].id
    BY <1>2, <2>1, MessageIds DEF Increasing
  <2> QED
    BY <2>1, <2>2
<1> QED
  BY <1>2 DEF t, Decreasing

LEMMA ReverseIds ==
  ASSUME NEW s \in Seq(Message)
  PROVE  Ids(Ext!Reverse(s)) = Ids(s)
<1> DEFINE t == Ext!Reverse(s)
<1>1. t \in Seq(Message) /\ Len(t) = Len(s) /\ \A i \in 1..Len(s) : t[i] = s[Len(s) - i + 1]
  BY Reversed
<1> HIDE DEF t
<1>2. \A i \in DOMAIN t : Len(s) - i + 1 \in DOMAIN s /\ t[i] = s[Len(s) - i + 1]
  BY <1>1
<1>3. ASSUME NEW i \in DOMAIN s PROVE \E j \in DOMAIN t : t[j] = s[i]
  <2> DEFINE j == Len(s) - i + 1
  <2>1. j \in DOMAIN t /\ Len(s) - j + 1 = i
    BY <1>1
  <2> HIDE DEF j
  <2> QED
    BY <1>1, <1>2, <2>1
<1>4. Ids(t) = Ids(s)
  BY <1>2, <1>3 DEF Ids
<1> QED
  BY <1>4 DEF t

(* Putting what was read next behind what was found.                       *)
LEMMA Joined ==
  ASSUME NEW s \in Seq(Message), NEW t \in Seq(Message)
  PROVE  /\ s \o t \in Seq(Message) /\ Ids(s \o t) = Ids(s) \cup Ids(t)
         /\ Increasing(s) /\ Increasing(t) /\ (\A m \in Ids(s), n \in Ids(t) : m < n)
            => Increasing(s \o t)
         /\ Decreasing(s) /\ Decreasing(t) /\ (\A m \in Ids(s), n \in Ids(t) : m > n)
            => Decreasing(s \o t)
<1> DEFINE u == s \o t
<1>1. u \in Seq(Message) /\ Len(u) = Len(s) + Len(t)
  OBVIOUS
<1>2. /\ \A i \in DOMAIN s : i \in DOMAIN u /\ u[i] = s[i]
      /\ \A i \in DOMAIN t : i + Len(s) \in DOMAIN u /\ u[i + Len(s)] = t[i]
  OBVIOUS
<1>3. \A i \in DOMAIN u : \/ i \in DOMAIN s /\ u[i] = s[i]
                          \/ i > Len(s) /\ i - Len(s) \in DOMAIN t /\ u[i] = t[i - Len(s)]
  OBVIOUS
<1> HIDE DEF u
<1>4. Ids(u) = Ids(s) \cup Ids(t)
  BY <1>2, <1>3 DEF Ids
<1>5. ASSUME NEW i \in DOMAIN u, NEW j \in DOMAIN u, i < j
      PROVE  \/ i \in DOMAIN s /\ j \in DOMAIN s /\ u[i] = s[i] /\ u[j] = s[j]
             \/ /\ i - Len(s) \in DOMAIN t /\ j - Len(s) \in DOMAIN t
                /\ i - Len(s) < j - Len(s)
                /\ u[i] = t[i - Len(s)] /\ u[j] = t[j - Len(s)]
             \/ u[i].id \in Ids(s) /\ u[j].id \in Ids(t)
  <2>1. CASE i \in DOMAIN s /\ j \in DOMAIN s
    BY <1>3, <2>1
  <2>2. CASE i > Len(s) /\ j > Len(s)
    BY <1>1, <1>3, <1>5, <2>2
  <2>3. CASE i \in DOMAIN s /\ j > Len(s)
    BY <1>3, <2>3 DEF Ids
  <2> QED
    BY <1>1, <1>3, <1>5, <2>1, <2>2, <2>3
<1>6. ASSUME Increasing(s), Increasing(t), \A m \in Ids(s), n \in Ids(t) : m < n
      PROVE  Increasing(u)
  BY <1>5, <1>6 DEF Increasing
<1>7. ASSUME Decreasing(s), Decreasing(t), \A m \in Ids(s), n \in Ids(t) : m > n
      PROVE  Decreasing(u)
  BY <1>5, <1>7 DEF Decreasing
<1> QED
  BY <1>1, <1>4, <1>6, <1>7 DEF u

(* The messages of a sequence from the clients asked for.                  *)
LEMMA FromPicks ==
  ASSUME NEW s \in Seq(Message), NEW want
  PROVE  /\ From(s, want) \in Seq(Message)
         /\ Increasing(s) => Increasing(From(s, want))
         /\ Decreasing(s) => Decreasing(From(s, want))
         /\ Ids(From(s, want)) \subseteq Ids(s)
         /\ \A i \in DOMAIN s : s[i].client \in want => s[i].id \in Ids(From(s, want))
<1> DEFINE K == {i \in DOMAIN s : s[i].client \in want}
           t == Only(s, K)
<1>1. K \in SUBSET (1..Len(s))
  OBVIOUS
<1> HIDE DEF K
<1>2. /\ t \in Seq(Message)
      /\ \A n \in DOMAIN t : \E i \in K : t[n] = s[i]
      /\ \A i \in K : \E n \in DOMAIN t : t[n] = s[i]
  BY <1>1, OnlyPicks
<1>3. (Increasing(s) => Increasing(t)) /\ (Decreasing(s) => Decreasing(t))
  BY <1>1, OnlySorted
<1> HIDE DEF t
<1>4. Ids(t) \subseteq Ids(s)
  BY <1>1, <1>2 DEF Ids
<1>5. \A i \in DOMAIN s : s[i].client \in want => s[i].id \in Ids(t)
  BY <1>2 DEF Ids, K
<1> QED
  BY <1>2, <1>3, <1>4, <1>5 DEF From, t, K

(* What a cut leaves out is beyond all it keeps, and the cut is full.      *)
LEMMA CutCovers ==
  ASSUME NEW s \in Seq(Message), NEW n \in Nat, NEW q \in DOMAIN s
  PROVE  LET t == FirstN(s, n) IN
         \/ \E i \in DOMAIN t : t[i] = s[q]
         \/ /\ Len(t) = n
            /\ Increasing(s) => \A i \in DOMAIN t : t[i].id < s[q].id
            /\ Decreasing(s) => \A i \in DOMAIN t : t[i].id > s[q].id
<1> DEFINE t == FirstN(s, n)
<1>1. /\ t \in Seq(Message) /\ Len(t) = Lesser(n, Len(s))
      /\ \A i \in 1..Lesser(n, Len(s)) : t[i] = s[i]
  BY Cut
<1> HIDE DEF t
<1>2. CASE q <= Len(t)
  BY <1>1, <1>2 DEF t
<1>3. CASE Len(t) < q
  <2>1. Len(t) = n
    BY <1>1, <1>3 DEF Lesser
  <2>2. \A i \in DOMAIN t : i \in DOMAIN s /\ i < q /\ t[i] = s[i]
    BY <1>1, <1>3 DEF Lesser
  <2>3. Increasing(s) => \A i \in DOMAIN t : t[i].id < s[q].id
    BY <2>2 DEF Increasing
  <2>4. Decreasing(s) => \A i \in DOMAIN t : t[i].id > s[q].id
    BY <2>2 DEF Decreasing
  <2> QED
    BY <2>1, <2>3, <2>4 DEF t
<1>4. q \in Nat /\ Len(t) \in Nat
  BY <1>1
<1> QED
  BY <1>2, <1>3, <1>4

(* XREVRANGE reads the newest messages below its bound.                    *)
LEMMA BackwardReads ==
  ASSUME StreamOK, NEW cursor \in Nat \cup {None}, NEW n \in Nat,
         NEW b, b = Backward(cursor, n)
  PROVE  /\ b \in Seq(Message) /\ Len(b) <= n /\ Decreasing(b)
         /\ Ids(b) \subseteq Ids(stream)
         /\ cursor # None => \A m \in Ids(b) : m < cursor
         /\ \A k \in DOMAIN stream :
              (cursor # None => stream[k].id < cursor) =>
                \/ \E i \in DOMAIN b : b[i] = stream[k]
                \/ Len(b) = n /\ \A m \in Ids(b) : m > stream[k].id
<1> DEFINE K == {i \in DOMAIN stream : cursor # None => stream[i].id < cursor}
           o == Only(stream, K)
           r == Ext!Reverse(o)
<1>1. stream \in Seq(Message) /\ Increasing(stream)
  BY DEF StreamOK
<1>2. K \in SUBSET (1..Len(stream))
  BY <1>1
<1>3. b = FirstN(r, n)
  BY DEF Backward
<1> HIDE DEF K
<1>4. /\ o \in Seq(Message)
      /\ \A p \in DOMAIN o : \E i \in K : o[p] = stream[i]
      /\ \A i \in K : \E p \in DOMAIN o : o[p] = stream[i]
  BY <1>1, <1>2, OnlyPicks
<1>5. Increasing(o)
  BY <1>1, <1>2, OnlySorted
<1> HIDE DEF o
<1>6. /\ r \in Seq(Message) /\ Len(r) = Len(o)
      /\ \A i \in 1..Len(o) : r[i] = o[Len(o) - i + 1]
  BY <1>4, Reversed
<1>7. Decreasing(r)
  BY <1>4, <1>5, ReverseSorted
<1> HIDE DEF r
<1>8. \A p \in DOMAIN o : \E q \in DOMAIN r : r[q] = o[p]
  <2> SUFFICES ASSUME NEW p \in DOMAIN o PROVE \E q \in DOMAIN r : r[q] = o[p]
    OBVIOUS
  <2> DEFINE q == Len(o) - p + 1
  <2>1. q \in DOMAIN r /\ q \in 1..Len(o) /\ Len(o) - q + 1 = p
    <3>1. p \in 1..Len(o) /\ Len(o) \in Nat /\ DOMAIN r = 1..Len(o)
      BY <1>4, <1>6
    <3> HIDE DEF o, r
    <3> QED
      BY <3>1
  <2> HIDE DEF q
  <2> QED
    BY <1>6, <2>1
<1>9. \A q \in DOMAIN r : \E i \in K : r[q] = stream[i]
  <2> SUFFICES ASSUME NEW q \in DOMAIN r PROVE \E i \in K : r[q] = stream[i]
    OBVIOUS
  <2>1. q \in 1..Len(o) /\ Len(o) - q + 1 \in DOMAIN o
    BY <1>4, <1>6
  <2> QED
    BY <1>4, <1>6, <2>1
<1>10. /\ b \in Seq(Message) /\ Len(b) <= n /\ Decreasing(b)
       /\ \A i \in DOMAIN b : i \in DOMAIN r /\ b[i] = r[i]
  <2>1. /\ b \in Seq(Message) /\ Len(b) = Lesser(n, Len(r))
        /\ \A i \in 1..Lesser(n, Len(r)) : b[i] = r[i]
    BY <1>3, <1>6, Cut
  <2>2. Decreasing(b)
    BY <1>3, <1>6, <1>7, CutSorted
  <2>3. Len(b) <= n /\ \A i \in DOMAIN b : i \in DOMAIN r /\ b[i] = r[i]
    BY <1>6, <2>1 DEF Lesser
  <2> QED
    BY <2>1, <2>2, <2>3
<1>11. \A i \in DOMAIN b : \E k \in K : b[i] = stream[k]
  BY <1>9, <1>10
<1>12. Ids(b) \subseteq Ids(stream)
  BY <1>2, <1>11 DEF Ids, K
<1>13. cursor # None => \A m \in Ids(b) : m < cursor
  BY <1>11 DEF Ids, K
<1>14. ASSUME NEW k \in DOMAIN stream, cursor # None => stream[k].id < cursor
       PROVE  \/ \E i \in DOMAIN b : b[i] = stream[k]
              \/ Len(b) = n /\ \A m \in Ids(b) : m > stream[k].id
  <2>1. k \in K
    BY <1>14 DEF K
  <2>2. PICK q \in DOMAIN r : r[q] = stream[k]
    BY <1>4, <1>8, <2>1
  <2>3. \/ \E i \in DOMAIN b : b[i] = r[q]
        \/ Len(b) = n /\ \A i \in DOMAIN b : b[i].id > r[q].id
    BY <1>3, <1>6, <1>7, CutCovers
  <2> QED
    BY <2>2, <2>3 DEF Ids
<1> QED
  BY <1>10, <1>12, <1>13, <1>14

(* XRANGE reads the oldest messages above its bound.                       *)
LEMMA ForwardReads ==
  ASSUME StreamOK, NEW cursor \in Nat \cup {None}, NEW n \in Nat,
         NEW b, b = Forward(cursor, n)
  PROVE  /\ b \in Seq(Message) /\ Len(b) <= n /\ Increasing(b)
         /\ Ids(b) \subseteq Ids(stream)
         /\ cursor # None => \A m \in Ids(b) : m > cursor
         /\ \A k \in DOMAIN stream :
              (cursor # None => stream[k].id > cursor) =>
                \/ \E i \in DOMAIN b : b[i] = stream[k]
                \/ Len(b) = n /\ \A m \in Ids(b) : m < stream[k].id
<1> DEFINE K == {i \in DOMAIN stream : cursor # None => stream[i].id > cursor}
           o == Only(stream, K)
<1>1. stream \in Seq(Message) /\ Increasing(stream)
  BY DEF StreamOK
<1>2. K \in SUBSET (1..Len(stream))
  BY <1>1
<1>3. b = FirstN(o, n)
  BY DEF Forward
<1> HIDE DEF K
<1>4. /\ o \in Seq(Message)
      /\ \A p \in DOMAIN o : \E i \in K : o[p] = stream[i]
      /\ \A i \in K : \E p \in DOMAIN o : o[p] = stream[i]
  BY <1>1, <1>2, OnlyPicks
<1>5. Increasing(o)
  BY <1>1, <1>2, OnlySorted
<1> HIDE DEF o
<1>6. /\ b \in Seq(Message) /\ Len(b) <= n /\ Increasing(b)
      /\ \A i \in DOMAIN b : i \in DOMAIN o /\ b[i] = o[i]
  <2>1. /\ b \in Seq(Message) /\ Len(b) = Lesser(n, Len(o))
        /\ \A i \in 1..Lesser(n, Len(o)) : b[i] = o[i]
    BY <1>3, <1>4, Cut
  <2>2. Increasing(b)
    BY <1>3, <1>4, <1>5, CutSorted
  <2>3. Len(b) <= n /\ \A i \in DOMAIN b : i \in DOMAIN o /\ b[i] = o[i]
    BY <1>4, <2>1 DEF Lesser
  <2> QED
    BY <2>1, <2>2, <2>3
<1>7. \A i \in DOMAIN b : \E k \in K : b[i] = stream[k]
  BY <1>4, <1>6
<1>8. Ids(b) \subseteq Ids(stream)
  BY <1>2, <1>7 DEF Ids, K
<1>9. cursor # None => \A m \in Ids(b) : m > cursor
  BY <1>7 DEF Ids, K
<1>10. ASSUME NEW k \in DOMAIN stream, cursor # None => stream[k].id > cursor
       PROVE  \/ \E i \in DOMAIN b : b[i] = stream[k]
              \/ Len(b) = n /\ \A m \in Ids(b) : m < stream[k].id
  <2>1. k \in K
    BY <1>10 DEF K
  <2>2. PICK q \in DOMAIN o : o[q] = stream[k]
    BY <1>4, <2>1
  <2>3. \/ \E i \in DOMAIN b : b[i] = o[q]
        \/ Len(b) = n /\ \A i \in DOMAIN b : b[i].id < o[q].id
    BY <1>3, <1>4, <1>5, CutCovers
  <2> QED
    BY <2>2, <2>3 DEF Ids
<1> QED
  BY <1>6, <1>8, <1>9, <1>10

(* A batch of the monitor: the next messages below the cursor are searched *)
(* for the caller's, and the page is answered or goes on.                  *)
LEMMA MonitorBatchKeeps ==
  ASSUME StreamOK, ReadingOK, MonitorOK, PageOK, MonitorBatch
  PROVE  (ReadingOK /\ MonitorOK /\ DumpOK /\ PageOK)'
<1> DEFINE limit == reading.limit
           cursor == reading.cursor
           old == reading.found
           want == reading.want
<1>1. /\ reading # None /\ reading \in Reading /\ reading.kind = "monitor" /\ want # {}
      /\ stream' = stream /\ newest' = newest /\ now' = now
  BY DEF MonitorBatch, ReadingOK
<1>2. /\ limit \in Nat /\ cursor \in Nat \cup {None} /\ old \in Seq(Message)
      /\ Batch \in Nat \ {0} /\ None \notin Nat
  BY <1>1, MonitorAssumption DEF Reading
<1>3. /\ Decreasing(old)
      /\ cursor = None => old = <<>>
      /\ cursor # None => \A n \in Ids(old) : n >= cursor
  BY <1>1 DEF MonitorOK, ReadingOK
<1>4. PICK batch \in {Backward(cursor, Batch)} : \E hits \in {From(batch, want)} :
        IF LastBatch(batch, hits, old \o hits) \/ CapReached
        THEN /\ page' = Done(reading, FirstN(old \o hits, limit),
                             Unexpired(FirstN(old \o hits, limit)),
                             ~LastBatch(batch, hits, old \o hits))
             /\ reading' = None
        ELSE /\ reading' = [reading EXCEPT !.found = FirstN(old \o hits, limit), !.batches = @ + 1,
                                           !.cursor = batch[Len(batch)].id]
             /\ page' = page
  BY DEF MonitorBatch
<1> DEFINE hits == From(batch, want)
           all == old \o hits
           found == FirstN(all, limit)
<1>5. /\ batch \in Seq(Message) /\ Len(batch) <= Batch /\ Decreasing(batch)
      /\ Ids(batch) \subseteq Ids(stream)
      /\ cursor # None => \A m \in Ids(batch) : m < cursor
      /\ \A k \in DOMAIN stream :
           (cursor # None => stream[k].id < cursor) =>
             \/ \E i \in DOMAIN batch : batch[i] = stream[k]
             \/ Len(batch) = Batch /\ \A m \in Ids(batch) : m > stream[k].id
  BY <1>2, <1>4, BackwardReads
<1>6. /\ hits \in Seq(Message) /\ Decreasing(hits) /\ Ids(hits) \subseteq Ids(batch)
      /\ \A i \in DOMAIN batch : batch[i].client \in want => batch[i].id \in Ids(hits)
  BY <1>5, FromPicks
<1> HIDE DEF hits
<1>7. \A m \in Ids(old) : m \in Nat
  BY <1>2, MessageIds DEF Ids
<1>8. \A m \in Ids(batch) : m \in Nat
  BY <1>5, MessageIds DEF Ids
<1>9. cursor = None => Ids(old) = {}
  BY <1>3 DEF Ids
<1>10. \A m \in Ids(old), n \in Ids(batch) : m > n
  BY <1>2, <1>3, <1>5, <1>7, <1>8, <1>9
<1>11. all \in Seq(Message) /\ Ids(all) = Ids(old) \cup Ids(hits) /\ Decreasing(all)
  BY <1>2, <1>3, <1>6, <1>10, Joined
<1> HIDE DEF all
<1>12. found \in Seq(Message) /\ Decreasing(found) /\ (Len(found) < limit => found = all)
  BY <1>2, <1>11, Cut, CutSorted
<1>13. ASSUME NEW i \in DOMAIN stream, stream[i].id \in Ids(reading.before),
              stream[i].client \in want
       PROVE  \/ stream[i].id \in Ids(all)
              \/ /\ Len(batch) = Batch
                 /\ \A m \in Ids(all) \cup Ids(batch) : m > stream[i].id
  <2> DEFINE x == stream[i].id
  <2>0. x \in Nat
    BY MessageIds DEF StreamOK
  <2>1. CASE cursor # None /\ x >= cursor
    <3>1. x \in Ids(old)
      BY <1>1, <1>13, <2>1 DEF MonitorOK
    <3> QED
      BY <1>11, <3>1
  <2>2. CASE cursor # None => x < cursor
    <3>1. \/ \E j \in DOMAIN batch : batch[j] = stream[i]
          \/ Len(batch) = Batch /\ \A m \in Ids(batch) : m > x
      BY <1>5, <2>2
    <3>2. CASE \E j \in DOMAIN batch : batch[j] = stream[i]
      BY <1>6, <1>11, <1>13, <3>2
    <3>3. CASE Len(batch) = Batch /\ \A m \in Ids(batch) : m > x
      <4>1. \A m \in Ids(old) : m > x
        BY <1>2, <1>3, <1>7, <1>9, <2>0, <2>2
      <4> QED
        BY <1>6, <1>11, <3>3, <4>1
    <3> QED
      BY <3>1, <3>2, <3>3
  <2> QED
    BY <1>2, <2>0, <2>1, <2>2
<1> DEFINE last == LastBatch(batch, hits, all)
<1>14. CASE last \/ CapReached
  <2>1. /\ page' = Done(reading, found, Unexpired(found), ~last)
        /\ reading' = None
    BY <1>4, <1>14 DEF hits, all
  <2>2. /\ page'.kind = "monitor" /\ page'.want = want /\ page'.limit = limit
        /\ page'.found = found /\ page'.rows = Unexpired(found) /\ page'.capped = ~last
        /\ page'.before = reading.before /\ page'.after = stream
    BY <1>1, <2>1 DEF Done
  <2>3. NewestFirst'
    <3>1. Decreasing(Unexpired(found))
      <4> DEFINE K == {i \in DOMAIN found : now <= found[i].exp}
      <4>1. K \in SUBSET (1..Len(found))
        BY <1>12
      <4> HIDE DEF K, found
      <4>2. Decreasing(Only(found, K))
        BY <1>12, <4>1, OnlySorted
      <4> QED
        BY <4>2 DEF K, Unexpired
    <3> QED
      BY <2>2, <3>1 DEF NewestFirst, Decreasing
  <2>4. NothingMissed'
    <3>1. ASSUME NEW i \in DOMAIN stream, stream[i].id \in Ids(reading.before),
                 stream[i].client \in want, stream[i].id \notin Ids(found)
          PROVE  /\ \A j \in DOMAIN found : found[j].id > stream[i].id
                 /\ Len(found) = limit \/ ~last
      <4>1. CASE stream[i].id \in Ids(all)
        <5>1. PICK q \in DOMAIN all : all[q].id = stream[i].id
          BY <4>1 DEF Ids
        <5>2. \/ \E j \in DOMAIN found : found[j] = all[q]
              \/ Len(found) = limit /\ \A j \in DOMAIN found : found[j].id > all[q].id
          BY <1>2, <1>11, CutCovers
        <5>3. ~ \E j \in DOMAIN found : found[j] = all[q]
          <6> HIDE DEF found
          <6> QED
            BY <3>1, <5>1 DEF Ids
        <5> HIDE DEF found
        <5> QED
          BY <5>1, <5>2, <5>3
      <4>2. CASE Len(batch) = Batch /\ \A m \in Ids(all) \cup Ids(batch) : m > stream[i].id
        <5>1. Len(found) = Lesser(limit, Len(all)) /\ \A j \in 1..Len(found) : found[j] = all[j]
          BY <1>2, <1>11, Cut
        <5>2. \A j \in DOMAIN found : j \in DOMAIN all /\ found[j] = all[j]
          <6> HIDE DEF found
          <6> QED
            BY <1>2, <1>11, <1>12, <5>1 DEF Lesser
        <5>3. \A j \in DOMAIN found : found[j].id > stream[i].id
          <6> HIDE DEF found
          <6> QED
            BY <4>2, <5>2 DEF Ids
        <5>4. last => Len(all) >= limit
          BY <1>2, <4>2 DEF LastBatch
        <5> HIDE DEF found, last
        <5>5. Len(found) = limit \/ ~last
          BY <1>2, <1>11, <5>1, <5>4 DEF Lesser
        <5> QED
          BY <5>3, <5>5
      <4> QED
        BY <1>13, <3>1, <4>1, <4>2
    <3> HIDE DEF found, last
    <3>2. ASSUME NEW i \in DOMAIN stream, stream[i].id \in Ids(reading.before),
                 stream[i].client \in want,
                 ~((\A j \in DOMAIN found : found[j].id > stream[i].id)
                   /\ (Len(found) = limit \/ ~last))
          PROVE  stream[i].id \in Ids(found)
      BY <3>1, <3>2
    <3> QED
      BY <1>1, <2>2, <3>2 DEF NothingMissed, Wants, Beyond
  <2>5. DumpComplete'
    BY <2>2 DEF DumpComplete
  <2> QED
    BY <2>1, <2>3, <2>4, <2>5 DEF ReadingOK, MonitorOK, DumpOK, PageOK
<1>15. CASE ~(last \/ CapReached)
  <2> DEFINE c == batch[Len(batch)].id
  <2>1. /\ reading' = [reading EXCEPT !.found = found, !.batches = @ + 1, !.cursor = c]
        /\ page' = page
    BY <1>4, <1>15 DEF hits, all
  <2>2. Len(batch) = Batch /\ Len(batch) \in DOMAIN batch /\ ~(Len(all) >= limit)
    BY <1>2, <1>5, <1>15 DEF LastBatch
  <2>3. c \in Ids(batch) /\ c \in Nat
    BY <1>5, <2>2, MessageIds DEF Ids
  <2>4. found = all
    BY <1>2, <1>11, <2>2, Cut DEF Lesser
  <2> HIDE DEF found
  <2>5. \A m \in Ids(batch) : m >= c
    <3> SUFFICES ASSUME NEW j \in DOMAIN batch PROVE batch[j].id >= c
      BY DEF Ids
    <3>1. j = Len(batch) \/ j < Len(batch)
      BY <1>5
    <3>2. batch[j].id \in Nat
      BY <1>5, MessageIds
    <3> QED
      BY <2>2, <2>3, <3>1, <3>2, <1>5 DEF Decreasing
  <2>6. \A m \in Ids(found) : m >= c
    BY <1>6, <1>7, <1>10, <1>11, <2>3, <2>4, <2>5
  <2>7. c <= newest
    BY <1>5, <2>3 DEF StreamOK
  <2> HIDE DEF c
  <2>8. /\ reading' \in Reading /\ reading'.kind = "monitor" /\ reading'.cursor = c
        /\ reading'.found = found /\ reading'.before = reading.before /\ reading'.want = want
    <3>1. reading' \in Reading
      <4> DEFINE b == reading.batches + 1
      <4>1. /\ reading' = [reading EXCEPT !.found = found, !.batches = b, !.cursor = c]
            /\ reading \in Reading
        BY <1>1, <2>1
      <4>2. b \in Nat /\ c \in Nat
        BY <1>1, <2>3 DEF Reading
      <4>3. found \in Seq(Message)
        BY <1>12
      <4> HIDE DEF b
      <4> QED
        BY <4>1, <4>2, <4>3 DEF Reading
    <3>2. /\ reading'.kind = reading.kind /\ reading'.cursor = c
          /\ reading'.found = found /\ reading'.before = reading.before
          /\ reading'.want = reading.want
      BY <1>1, <2>1 DEF Reading
    <3> QED
      BY <1>1, <3>1, <3>2
  <2>9. ReadingOK'
    BY <1>1, <1>2, <2>3, <2>7, <2>8 DEF ReadingOK
  <2>10. ASSUME NEW i \in DOMAIN stream, stream[i].id \in Ids(reading.before),
                stream[i].client \in want, stream[i].id >= c
         PROVE  stream[i].id \in Ids(found)
    <3>1. stream[i].id \in Nat
      BY MessageIds DEF StreamOK
    <3> QED
      BY <1>13, <2>3, <2>4, <2>10, <3>1
  <2>11. MonitorOK'
    BY <1>1, <1>12, <2>6, <2>8, <2>10 DEF MonitorOK
  <2> QED
    BY <2>1, <2>8, <2>9, <2>11 DEF DumpOK, PageOK, NewestFirst, NothingMissed, DumpComplete,
       Beyond, Wants
<1> QED
  BY <1>14, <1>15

(* A page of the dump: the next messages above the cursor are searched for *)
(* the client's heartbeats, and the dump ends with a short page.           *)
LEMMA DumpPageKeeps ==
  ASSUME StreamOK, ReadingOK, DumpOK, PageOK, DumpPage
  PROVE  (ReadingOK /\ MonitorOK /\ DumpOK /\ PageOK)'
<1> DEFINE cursor == reading.cursor
           old == reading.found
           want == reading.want
<1>1. /\ reading # None /\ reading \in Reading /\ reading.kind = "dump"
      /\ stream' = stream /\ newest' = newest /\ now' = now
  BY DEF DumpPage, ReadingOK
<1>2. /\ cursor \in Nat \cup {None} /\ old \in Seq(Message)
      /\ PageSize \in Nat \ {0} /\ None \notin Nat
  BY <1>1, MonitorAssumption DEF Reading
<1>3. /\ Increasing(old)
      /\ cursor = None => old = <<>>
      /\ cursor # None => \A n \in Ids(old) : n <= cursor
  BY <1>1 DEF DumpOK, ReadingOK
<1>4. PICK messages \in {Forward(cursor, PageSize)} : \E f \in {old \o From(messages, want)} :
        IF Len(messages) < PageSize THEN Dumped(f) ELSE NextPage(messages, f)
  BY DEF DumpPage
<1> DEFINE hits == From(messages, want)
           found == old \o hits
<1>5. /\ messages \in Seq(Message) /\ Len(messages) <= PageSize /\ Increasing(messages)
      /\ Ids(messages) \subseteq Ids(stream)
      /\ cursor # None => \A m \in Ids(messages) : m > cursor
      /\ \A k \in DOMAIN stream :
           (cursor # None => stream[k].id > cursor) =>
             \/ \E i \in DOMAIN messages : messages[i] = stream[k]
             \/ Len(messages) = PageSize /\ \A m \in Ids(messages) : m < stream[k].id
  BY <1>2, <1>4, ForwardReads
<1>6. /\ hits \in Seq(Message) /\ Increasing(hits) /\ Ids(hits) \subseteq Ids(messages)
      /\ \A i \in DOMAIN messages : messages[i].client \in want => messages[i].id \in Ids(hits)
  BY <1>5, FromPicks
<1> HIDE DEF hits
<1>7. \A m \in Ids(old) : m \in Nat
  BY <1>2, MessageIds DEF Ids
<1>8. \A m \in Ids(messages) : m \in Nat
  BY <1>5, MessageIds DEF Ids
<1>9. cursor = None => Ids(old) = {}
  BY <1>3 DEF Ids
<1>10. \A m \in Ids(old), n \in Ids(messages) : m < n
  BY <1>2, <1>3, <1>5, <1>7, <1>8, <1>9
<1>11. found \in Seq(Message) /\ Ids(found) = Ids(old) \cup Ids(hits) /\ Increasing(found)
  BY <1>2, <1>3, <1>6, <1>10, Joined
<1> HIDE DEF found
<1>12. ASSUME NEW i \in DOMAIN stream, stream[i].client \in want
       PROVE  \/ stream[i].id \in Ids(found)
              \/ /\ Len(messages) = PageSize
                 /\ \A m \in Ids(messages) : m < stream[i].id
  <2> DEFINE x == stream[i].id
  <2>0. x \in Nat
    BY MessageIds DEF StreamOK
  <2>1. CASE cursor # None /\ x <= cursor
    <3>1. x \in Ids(old)
      BY <1>1, <1>12, <2>1 DEF DumpOK
    <3> QED
      BY <1>11, <3>1
  <2>2. CASE cursor # None => x > cursor
    <3>1. \/ \E j \in DOMAIN messages : messages[j] = stream[i]
          \/ Len(messages) = PageSize /\ \A m \in Ids(messages) : m < x
      BY <1>5, <2>2
    <3>2. CASE \E j \in DOMAIN messages : messages[j] = stream[i]
      BY <1>6, <1>11, <1>12, <3>2
    <3> QED
      BY <3>1, <3>2
  <2> QED
    BY <1>2, <2>0, <2>1, <2>2
<1>13. CASE Len(messages) < PageSize
  <2>1. page' = Done(reading, found, Ext!Reverse(found), FALSE) /\ reading' = None
    BY <1>4, <1>13 DEF hits, found, Dumped
  <2>2. /\ page'.kind = "dump" /\ page'.want = want /\ page'.rows = Ext!Reverse(found)
        /\ page'.after = stream
    BY <1>1, <2>1 DEF Done
  <2>3. NewestFirst'
    <3>1. Decreasing(Ext!Reverse(found))
      BY <1>11, ReverseSorted
    <3> QED
      BY <2>2, <3>1 DEF NewestFirst, Decreasing
  <2>4. DumpComplete'
    <3>1. \A i \in DOMAIN stream : stream[i].client \in want => stream[i].id \in Ids(found)
      BY <1>2, <1>5, <1>12, <1>13
    <3>2. Ids(Ext!Reverse(found)) = Ids(found)
      BY <1>11, ReverseIds
    <3> QED
      BY <1>1, <2>2, <3>1, <3>2 DEF DumpComplete
  <2>5. NothingMissed'
    BY <2>2 DEF NothingMissed
  <2> QED
    BY <2>1, <2>3, <2>4, <2>5 DEF ReadingOK, MonitorOK, DumpOK, PageOK
<1>14. CASE ~(Len(messages) < PageSize)
  <2> DEFINE c == messages[Len(messages)].id
  <2>1. reading' = [reading EXCEPT !.found = found, !.cursor = c] /\ page' = page
    BY <1>4, <1>14 DEF hits, found, NextPage
  <2>2. Len(messages) = PageSize /\ Len(messages) \in DOMAIN messages
    BY <1>2, <1>5, <1>14
  <2>3. c \in Ids(messages) /\ c \in Nat
    BY <1>5, <2>2, MessageIds DEF Ids
  <2>5. \A m \in Ids(messages) : m <= c
    <3> SUFFICES ASSUME NEW j \in DOMAIN messages PROVE messages[j].id <= c
      BY DEF Ids
    <3>1. j = Len(messages) \/ j < Len(messages)
      BY <1>5
    <3>2. messages[j].id \in Nat
      BY <1>5, MessageIds
    <3> QED
      BY <2>2, <2>3, <3>1, <3>2, <1>5 DEF Increasing
  <2>6. \A m \in Ids(found) : m <= c
    BY <1>6, <1>7, <1>10, <1>11, <2>3, <2>5
  <2>7. c <= newest
    BY <1>5, <2>3 DEF StreamOK
  <2> HIDE DEF c
  <2>8. /\ reading' \in Reading /\ reading'.kind = "dump" /\ reading'.cursor = c
        /\ reading'.found = found /\ reading'.before = reading.before /\ reading'.want = want
    <3>1. reading' \in Reading
      BY <1>1, <1>11, <2>1, <2>3 DEF Reading
    <3>2. /\ reading'.kind = reading.kind /\ reading'.cursor = c
          /\ reading'.found = found /\ reading'.before = reading.before
          /\ reading'.want = reading.want
      BY <1>1, <2>1 DEF Reading
    <3> QED
      BY <1>1, <3>1, <3>2
  <2>9. ReadingOK'
    BY <1>1, <1>2, <2>3, <2>7, <2>8 DEF ReadingOK
  <2>10. ASSUME NEW i \in DOMAIN stream, stream[i].client \in want, stream[i].id <= c
         PROVE  stream[i].id \in Ids(found)
    <3>1. stream[i].id \in Nat
      BY MessageIds DEF StreamOK
    <3> QED
      BY <1>12, <2>3, <2>10, <3>1
  <2>11. DumpOK'
    BY <1>1, <1>11, <2>6, <2>8, <2>10 DEF DumpOK
  <2> QED
    BY <2>1, <2>8, <2>9, <2>11 DEF MonitorOK, PageOK, NewestFirst, NothingMissed, DumpComplete,
       Beyond, Wants
<1> QED
  BY <1>13, <1>14

(* Without a filter the monitor reads once.                                *)
LEMMA MonitorOnceKeeps ==
  ASSUME StreamOK, ReadingOK, MonitorOnce
  PROVE  (ReadingOK /\ MonitorOK /\ DumpOK /\ PageOK)'
<1> DEFINE limit == reading.limit
<1>1. /\ reading # None /\ reading \in Reading /\ reading.kind = "monitor" /\ reading.want = {}
      /\ stream' = stream /\ reading' = None
  BY DEF MonitorOnce, ReadingOK
<1>2. limit \in Nat
  BY <1>1 DEF Reading
<1>3. PICK found \in {Backward(None, limit)} :
        page' = Done(reading, found, Unexpired(found), FALSE)
  BY DEF MonitorOnce
<1>4. /\ found \in Seq(Message) /\ Len(found) <= limit /\ Decreasing(found)
      /\ \A k \in DOMAIN stream :
           \/ \E i \in DOMAIN found : found[i] = stream[k]
           \/ Len(found) = limit /\ \A m \in Ids(found) : m > stream[k].id
  BY <1>2, <1>3, BackwardReads
<1>5. /\ page'.kind = "monitor" /\ page'.want = {} /\ page'.limit = limit
      /\ page'.found = found /\ page'.rows = Unexpired(found) /\ page'.after = stream
  BY <1>1, <1>3 DEF Done
<1>6. NewestFirst'
  <2> DEFINE K == {i \in DOMAIN found : now <= found[i].exp}
  <2>1. K \in SUBSET (1..Len(found))
    BY <1>4
  <2> HIDE DEF K
  <2>2. Decreasing(Only(found, K))
    BY <1>4, <2>1, OnlySorted
  <2>3. Decreasing(Unexpired(found))
    BY <2>2 DEF K, Unexpired
  <2> QED
    BY <1>5, <2>3 DEF NewestFirst, Decreasing
<1>7. NothingMissed'
  <2>1. ASSUME NEW i \in DOMAIN stream,
               ~((\A j \in DOMAIN found : found[j].id > stream[i].id) /\ Len(found) = limit)
        PROVE  stream[i].id \in Ids(found)
    BY <1>4, <2>1 DEF Ids
  <2> QED
    BY <1>5, <2>1 DEF NothingMissed, Beyond
<1>8. DumpComplete'
  BY <1>5 DEF DumpComplete
<1> QED
  BY <1>1, <1>6, <1>7, <1>8 DEF ReadingOK, MonitorOK, DumpOK, PageOK

(* The topic grows at its newer end, above every cursor, or is deleted.    *)
LEMMA TopicKeeps ==
  ASSUME StreamOK, ReadingOK, MonitorOK, DumpOK, Topic
  PROVE  (StreamOK /\ ReadingOK /\ MonitorOK /\ DumpOK)'
<1>1. ASSUME NEW c \in Clients, NEW ttl \in 0..MaxTtl, Publish(c, ttl)
      PROVE  (StreamOK /\ ReadingOK /\ MonitorOK /\ DumpOK)'
  <2> DEFINE m == [id |-> newest + 1, client |-> c, exp |-> now + ttl]
  <2>1. /\ stream' = Append(stream, m) /\ newest' = newest + 1
        /\ now' = now /\ reading' = reading
    BY <1>1 DEF Publish
  <2>2. m \in Message /\ m.id = newest + 1 /\ newest \in Nat /\ newest + 1 \in Nat
    BY MonitorAssumption DEF StreamOK, Message
  <2> HIDE DEF m
  <2>3. /\ stream' \in Seq(Message) /\ Len(stream') = Len(stream) + 1
        /\ \A i \in DOMAIN stream : stream'[i] = stream[i]
        /\ stream'[Len(stream) + 1] = m
    BY <2>1, <2>2 DEF StreamOK
  <2>4. \A i \in DOMAIN stream' : \/ i \in DOMAIN stream /\ stream'[i] = stream[i]
                                  \/ i = Len(stream) + 1 /\ stream'[i] = m
    BY <2>3 DEF StreamOK
  <2>5. \A i \in DOMAIN stream : stream[i].id \in Nat /\ stream[i].id <= newest
    BY MessageIds DEF StreamOK, Ids
  <2>6. StreamOK'
    <3>1. ASSUME NEW i \in DOMAIN stream', NEW j \in DOMAIN stream', i < j
          PROVE  stream'[i].id < stream'[j].id
      <4>1. i \in DOMAIN stream /\ stream'[i] = stream[i]
        BY <2>3, <2>4, <3>1 DEF StreamOK
      <4> QED
        BY <2>2, <2>4, <2>5, <3>1, <4>1 DEF StreamOK, Increasing
    <3>2. \A i \in DOMAIN stream' : stream'[i].id <= newest'
      BY <2>1, <2>2, <2>4, <2>5
    <3> QED
      BY <2>1, <2>2, <2>3, <3>1, <3>2 DEF StreamOK, Increasing, Ids
  <2>7. ReadingOK'
    <3> SUFFICES ASSUME reading # None PROVE ReadingOK'
      BY <2>1 DEF ReadingOK
    <3>1. reading \in Reading /\ reading.before \in Seq(Message)
      BY DEF ReadingOK, Reading
    <3>2. \A n \in Ids(reading.before) : n \in Nat /\ n <= newest
      BY <3>1, MessageIds DEF Ids, ReadingOK
    <3>3. reading.cursor # None => reading.cursor \in Nat /\ reading.cursor <= newest
      BY <3>1 DEF ReadingOK, Reading
    <3> QED
      BY <2>1, <2>2, <3>1, <3>2, <3>3 DEF ReadingOK
  <2>8. MonitorOK'
    <3> SUFFICES ASSUME reading # None, reading.kind = "monitor" PROVE MonitorOK'
      BY <2>1 DEF MonitorOK
    <3>1. m.id \notin Ids(reading.before)
      <4>1. \A n \in Ids(reading.before) : n <= newest
        BY DEF ReadingOK
      <4> QED
        BY <2>2, <4>1
    <3> QED
      BY <2>1, <2>4, <3>1 DEF MonitorOK
  <2>9. DumpOK'
    <3> SUFFICES ASSUME reading # None, reading.kind = "dump" PROVE DumpOK'
      BY <2>1 DEF DumpOK
    <3>1. reading.cursor # None => ~(m.id <= reading.cursor)
      <4>1. reading.cursor # None => reading.cursor \in Nat /\ reading.cursor <= newest
        BY DEF ReadingOK, Reading
      <4> QED
        BY <2>2, <4>1
    <3> QED
      BY <2>1, <2>4, <3>1 DEF DumpOK
  <2> QED
    BY <2>6, <2>7, <2>8, <2>9
<1>2. CASE DeleteQueue
  <2>1. stream' = <<>> /\ newest' = newest /\ now' = now /\ reading' = reading
    BY <1>2 DEF DeleteQueue
  <2> QED
    BY <2>1 DEF StreamOK, ReadingOK, MonitorOK, DumpOK, Increasing, Ids
<1>3. CASE Tick
  <2>1. stream' = stream /\ newest' = newest /\ now' = now + 1 /\ reading' = reading
    BY <1>3 DEF Tick
  <2> QED
    BY <2>1 DEF StreamOK, ReadingOK, MonitorOK, DumpOK
<1> QED
  BY <1>1, <1>2, <1>3 DEF Topic

(* A page is asked for: nothing is found yet.                              *)
LEMMA AskKeeps ==
  ASSUME StreamOK, Ask
  PROVE  (StreamOK /\ ReadingOK /\ MonitorOK /\ DumpOK /\ PageOK)'
<1>1. PICK kind \in {"monitor", "dump"}, want \in SUBSET Clients, limit \in Nat :
        /\ reading' = Reader(kind, want, limit) /\ page' = None
        /\ UNCHANGED <<stream, newest, now>>
  <2>1. ASSUME NEW limit \in Limits, NEW want \in SUBSET Clients, StreamMonitor(limit, want)
        PROVE  \E kind \in {"monitor", "dump"}, w \in SUBSET Clients, l \in Nat :
                 /\ reading' = Reader(kind, w, l) /\ page' = None
                 /\ UNCHANGED <<stream, newest, now>>
    BY <2>1, PagesAssumption DEF StreamMonitor
  <2>2. ASSUME NEW c \in Clients, DumpHeartbeats(c)
        PROVE  \E kind \in {"monitor", "dump"}, w \in SUBSET Clients, l \in Nat :
                 /\ reading' = Reader(kind, w, l) /\ page' = None
                 /\ UNCHANGED <<stream, newest, now>>
    BY <2>2 DEF DumpHeartbeats
  <2> QED
    BY <2>1, <2>2 DEF Ask
<1>2. /\ reading' \in Reading /\ reading'.cursor = None /\ reading'.found = <<>>
      /\ reading'.before = stream
  BY <1>1 DEF Reader, Reading, StreamOK
<1>3. Increasing(<<>>) /\ Decreasing(<<>>)
  BY DEF Increasing, Decreasing
<1> QED
  BY <1>1, <1>2, <1>3 DEF StreamOK, ReadingOK, MonitorOK, DumpOK, PageOK, NewestFirst,
     NothingMissed, DumpComplete

(* PagerOK is an invariant.                                                *)
LEMMA PagerAlwaysOK == MonitorSpec => []PagerOK
<1>1. MonitorInit => PagerOK
  BY DEF MonitorInit, PagerOK, StreamOK, ReadingOK, MonitorOK, DumpOK, PageOK, NewestFirst,
     NothingMissed, DumpComplete, Increasing, Ids
<1>2. PagerOK /\ [MonitorNext]_monitorVars => PagerOK'
  <2> SUFFICES ASSUME PagerOK, [MonitorNext]_monitorVars PROVE PagerOK'
    OBVIOUS
  <2>1. CASE Topic
    <3>1. page' = page
      BY <2>1 DEF Topic, Publish, DeleteQueue, Tick
    <3>2. PageOK'
      BY <3>1 DEF PagerOK, PageOK, NewestFirst, NothingMissed, DumpComplete, Beyond, Wants
    <3> QED
      BY <2>1, <3>2, TopicKeeps DEF PagerOK
  <2>2. CASE Read
    <3>1. StreamOK'
      BY <2>2 DEF PagerOK, StreamOK, Read, MonitorOnce, MonitorBatch, DumpPage
    <3> QED
      BY <2>2, <3>1, MonitorOnceKeeps, MonitorBatchKeeps, DumpPageKeeps DEF PagerOK, Read
  <2>3. CASE Ask
    BY <2>3, AskKeeps DEF PagerOK
  <2>4. CASE UNCHANGED monitorVars
    BY <2>4 DEF monitorVars, PagerOK, StreamOK, ReadingOK, MonitorOK, DumpOK, PageOK, NewestFirst,
       NothingMissed, DumpComplete, Beyond, Wants
  <2> QED
    BY <2>1, <2>2, <2>3, <2>4 DEF MonitorNext
<1> QED
  BY <1>1, <1>2, PTL DEF MonitorSpec

(* A page is newest first, however many reads it is put together from and  *)
(* whatever is published or deleted between them.                          *)
THEOREM PagesNewestFirst == MonitorSpec => []NewestFirst
  BY PagerAlwaysOK, PTL DEF PagerOK, PageOK

(* The monitor passes over nothing that was there all the time, with any   *)
(* batch size and any number of batches.                                   *)
THEOREM MonitorMissesNothing == MonitorSpec => []NothingMissed
  BY PagerAlwaysOK, PTL DEF PagerOK, PageOK

(* A dump holds every heartbeat that is there when it ends, whatever its   *)
(* page size.                                                              *)
THEOREM DumpsComplete == MonitorSpec => []DumpComplete
  BY PagerAlwaysOK, PTL DEF PagerOK, PageOK

---------------------------------------------------------------------------
(* What ReadsEnd rests on                                                  *)

(* A read that does not end the page leaves its cursor strictly further    *)
(* on: the monitor's down, and its batches are counted up to the cap, the  *)
(* dump's up, and no further than what was ever published.                 *)
MovesOn ==
  /\ reading'.kind = reading.kind
  /\ reading'.cursor \in Nat /\ reading'.cursor <= newest
  /\ reading.kind = "monitor" =>
       /\ reading.cursor # None => reading'.cursor < reading.cursor
       /\ reading'.batches = reading.batches + 1 /\ reading'.batches < MaxBatches
  /\ reading.kind = "dump" /\ reading.cursor # None =>
       reading'.cursor > reading.cursor

(* A search that is under way has batches left.                            *)
BatchesOK == reading # None => reading.batches \in 0..(MaxBatches - 1)

(* A batch is full, so its last message lies below the bound it was read   *)
(* from.                                                                   *)
LEMMA BatchMovesOn ==
  ASSUME StreamOK, ReadingOK, BatchesOK, MonitorBatch, reading' # None
  PROVE  MovesOn
<1>1. reading # None /\ reading \in Reading /\ reading.kind = "monitor"
  BY DEF MonitorBatch, ReadingOK
<1>2. /\ reading.cursor \in Nat \cup {None} /\ Batch \in Nat \ {0} /\ MaxBatches \in Nat
      /\ reading.batches \in Nat /\ reading.batches < MaxBatches
  BY <1>1, MonitorAssumption DEF Reading, BatchesOK
<1> DEFINE limit == reading.limit
           old == reading.found
           want == reading.want
<1>3. PICK batch \in {Backward(reading.cursor, Batch)} : \E hits \in {From(batch, want)} :
        IF LastBatch(batch, hits, old \o hits) \/ CapReached
        THEN /\ page' = Done(reading, FirstN(old \o hits, limit),
                             Unexpired(FirstN(old \o hits, limit)),
                             ~LastBatch(batch, hits, old \o hits))
             /\ reading' = None
        ELSE /\ reading' = [reading EXCEPT !.found = FirstN(old \o hits, limit), !.batches = @ + 1,
                                           !.cursor = batch[Len(batch)].id]
             /\ page' = page
  BY DEF MonitorBatch
<1> DEFINE hits == From(batch, want)
           found == FirstN(old \o hits, limit)
           c == batch[Len(batch)].id
<1>4. /\ ~LastBatch(batch, hits, old \o hits) /\ ~CapReached
      /\ reading' = [reading EXCEPT !.found = found, !.batches = @ + 1, !.cursor = c]
  BY <1>3
<1>5. ~(Len(batch) < Batch)
  BY <1>4 DEF LastBatch
<1> HIDE DEF found, hits
<1>6. /\ batch \in Seq(Message) /\ Len(batch) <= Batch /\ Ids(batch) \subseteq Ids(stream)
      /\ reading.cursor # None => \A m \in Ids(batch) : m < reading.cursor
  BY <1>2, <1>3, BackwardReads
<1>7. Len(batch) \in DOMAIN batch
  BY <1>2, <1>6, <1>5
<1>8. c \in Ids(batch) /\ c \in Nat
  BY <1>6, <1>7, MessageIds DEF Ids
<1>9. c <= newest
  BY <1>6, <1>8 DEF StreamOK
<1> HIDE DEF c
<1>10. /\ reading'.kind = reading.kind /\ reading'.cursor = c
       /\ reading'.batches = reading.batches + 1
  BY <1>1, <1>4 DEF Reading
<1>11. reading.batches + 1 # MaxBatches
  BY <1>4 DEF CapReached
<1> QED
  BY <1>1, <1>2, <1>6, <1>8, <1>9, <1>10, <1>11 DEF MovesOn

(* And so is a page of a dump, above its own.                              *)
LEMMA DumpMovesOn ==
  ASSUME StreamOK, ReadingOK, DumpPage, reading' # None
  PROVE  MovesOn /\ reading'.batches = reading.batches
<1>1. reading # None /\ reading \in Reading /\ reading.kind = "dump"
  BY DEF DumpPage, ReadingOK
<1>2. reading.cursor \in Nat \cup {None} /\ PageSize \in Nat \ {0}
  BY <1>1, MonitorAssumption DEF Reading
<1>3. PICK messages \in {Forward(reading.cursor, PageSize)} :
        \E f \in {reading.found \o From(messages, reading.want)} :
          IF Len(messages) < PageSize THEN Dumped(f) ELSE NextPage(messages, f)
  BY DEF DumpPage
<1> DEFINE found == reading.found \o From(messages, reading.want)
           c == messages[Len(messages)].id
<1>4. ~(Len(messages) < PageSize)
  BY <1>3 DEF Dumped
<1>5. reading' = [reading EXCEPT !.found = found, !.cursor = c]
  BY <1>3, <1>4 DEF NextPage
<1> HIDE DEF found
<1>6. /\ messages \in Seq(Message) /\ Len(messages) <= PageSize /\ Ids(messages) \subseteq Ids(stream)
      /\ reading.cursor # None => \A m \in Ids(messages) : m > reading.cursor
  BY <1>2, <1>3, ForwardReads
<1>7. Len(messages) \in DOMAIN messages
  BY <1>2, <1>6, <1>4
<1>8. c \in Ids(messages) /\ c \in Nat
  BY <1>6, <1>7, MessageIds DEF Ids
<1>9. c <= newest
  BY <1>6, <1>8 DEF StreamOK
<1> HIDE DEF c
<1>10. /\ reading'.kind = reading.kind /\ reading'.cursor = c
       /\ reading'.batches = reading.batches
  BY <1>1, <1>5 DEF Reading
<1> QED
  BY <1>1, <1>6, <1>8, <1>9, <1>10 DEF MovesOn

(* Each read of a page ends it or moves on, so that the cap ends the       *)
(* monitor's search and the dump can only be kept going by devices that    *)
(* publish as fast as it reads.                                            *)
THEOREM EveryReadMovesOn ==
  MonitorSpec => [][Read => reading' = None \/ MovesOn]_monitorVars
<1>1. MonitorInit => BatchesOK
  BY DEF MonitorInit, BatchesOK
<1>2. PagerOK /\ BatchesOK /\ [MonitorNext]_monitorVars =>
        BatchesOK' /\ [Read => reading' = None \/ MovesOn]_monitorVars
  <2> SUFFICES ASSUME PagerOK, BatchesOK, [MonitorNext]_monitorVars
               PROVE  BatchesOK' /\ (Read => reading' = None \/ MovesOn)
    OBVIOUS
  <2>1. StreamOK /\ ReadingOK
    BY DEF PagerOK
  <2>2. reading # None => reading.batches \in Nat /\ reading.batches < MaxBatches
    BY MonitorAssumption DEF BatchesOK
  <2>3. CASE Read
    <3>1. ASSUME MonitorBatch, reading' # None
          PROVE  MovesOn /\ reading'.batches \in 0..(MaxBatches - 1)
      <4>1. MovesOn /\ reading # None /\ reading.kind = "monitor"
        BY <2>1, <3>1, BatchMovesOn DEF MonitorBatch
      <4> QED
        BY <2>2, <4>1, MonitorAssumption DEF MovesOn
    <3>2. ASSUME DumpPage, reading' # None
          PROVE  MovesOn /\ reading'.batches \in 0..(MaxBatches - 1)
      <4>1. MovesOn /\ reading'.batches = reading.batches /\ reading # None
        BY <2>1, <3>2, DumpMovesOn DEF DumpPage
      <4> QED
        BY <4>1 DEF BatchesOK
    <3>3. MonitorOnce => reading' = None
      BY DEF MonitorOnce
    <3> QED
      BY <2>3, <3>1, <3>2, <3>3 DEF Read, BatchesOK
  <2>4. CASE ~Read /\ (Topic \/ UNCHANGED monitorVars)
    <3>1. reading' = reading
      BY <2>4 DEF Topic, Publish, DeleteQueue, Tick, monitorVars
    <3> QED
      BY <2>4, <3>1 DEF BatchesOK
  <2>5. CASE ~Read /\ Ask
    <3>1. reading' # None => reading'.batches = 0
      BY <2>5 DEF Ask, StreamMonitor, DumpHeartbeats, Reader
    <3> QED
      BY <2>5, <3>1, MonitorAssumption DEF BatchesOK
  <2> QED
    BY <2>3, <2>4, <2>5 DEF MonitorNext
<1> QED
  BY <1>1, <1>2, PagerAlwaysOK, PTL DEF MonitorSpec
=============================================================================
