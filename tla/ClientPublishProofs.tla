-------------------------- MODULE ClientPublishProofs --------------------------
(***************************************************************************)
(* Client publishing for any numbers of threads, channels and types: all   *)
(* threads keep the lock order, so none of them deadlock; the bridge's     *)
(* advertisements follow the SDK's channels; a message goes out with the   *)
(* type it was accepted for.                                               *)
(***************************************************************************)
EXTENDS ClientPublish, SequenceTheorems, TLAPS

Rank == Order!Rank

LockSteps == [do : {"lock", "unlock", "touch"}, at : Locks]
OtherSteps == [do : {"check", "advertise", "erase", "find", "publish"}, at : {"-"}]
Steps == LockSteps \cup OtherSteps

(* The locks held before the i-th step of s: those that the rest of s       *)
(* releases without taking them first.                                      *)
HeldAt(s, i) ==
  {l \in Locks : \E j \in i..Len(s) :
                   s[j] = Unlock(l) /\ \A k \in i..(j - 1) : s[k] # Lock(l)}

(* The discipline of scopes: locks are waited for in the order of their     *)
(* ranks, a lock taken is released later, a lock is released once.          *)
Disciplined(s) ==
  /\ s \in Seq(Steps)
  /\ \A i \in 1..Len(s) :
       /\ s[i].do \in {"lock", "touch"} =>
            \A l \in HeldAt(s, i) : Rank[l] < Rank[s[i].at]
       /\ s[i].do = "lock" => s[i].at \in HeldAt(s, i + 1)
       /\ s[i].do = "unlock" => s[i].at \notin HeldAt(s, i + 1)

(* A whole operation, or a part that leaves no lock behind, of locks above r. *)
Nested(s, r) ==
  /\ Disciplined(s)
  /\ HeldAt(s, 1) = {}
  /\ \A i \in 1..Len(s) : s[i].do \in {"lock", "touch"} => r < Rank[s[i].at]

-----------------------------------------------------------------------------
(* Scopes *)

LEMMA Ranks ==
  /\ Locks = Order!Locks /\ \A l \in Locks : Rank[l] \in Nat
  /\ Rank["gateway"] = 1 /\ Rank["callbacks"] = 2 /\ Rank["ads"] = 3
  /\ Rank["subscriptions"] = 4 /\ Rank["descriptions"] = 5
  /\ Rank["registry"] = 6 /\ Rank["session"] = 7 /\ Rank["latched"] = 8
  /\ Rank["poll"] = 9 /\ Rank["pendingCalls"] = 10 /\ Rank["pendingCall"] = 11
  /\ "-" \notin Locks /\ Order!NoLock \notin Locks
  BY DEF Rank, Order!Rank, Locks, Order!Locks, Order!NoLock

LEMMA StepIsLockStep ==
  ASSUME NEW st \in Steps
  PROVE  /\ st.do \in {"lock", "unlock", "touch"} <=> st.at \in Locks
         /\ st.at \in Locks => st = [do |-> st.do, at |-> st.at]
  BY Ranks DEF Steps, LockSteps, OtherSteps

LEMMA LockIsStep ==
  ASSUME NEW l \in Locks
  PROVE  /\ Lock(l) \in LockSteps /\ Lock(l).do = "lock" /\ Lock(l).at = l
         /\ Unlock(l) \in LockSteps /\ Unlock(l).do = "unlock" /\ Unlock(l).at = l
         /\ Lock(l) # Unlock(l)
  BY DEF Lock, Unlock, LockSteps

(* What a step does to the locks that the rest of the operation releases.   *)
LEMMA HeldAtStep ==
  ASSUME NEW s \in Seq(Steps), NEW i \in 1..Len(s)
  PROVE  /\ s[i].do = "lock" => HeldAt(s, i) = HeldAt(s, i + 1) \ {s[i].at}
         /\ s[i].do = "unlock" => HeldAt(s, i) = HeldAt(s, i + 1) \cup {s[i].at}
         /\ s[i].do \notin {"lock", "unlock"} => HeldAt(s, i) = HeldAt(s, i + 1)
<1>1. s[i] \in Steps /\ Len(s) \in Nat
  BY ElementOfSeq, LenProperties
<1>2. ASSUME NEW l \in Locks
      PROVE  l \in HeldAt(s, i) <=>
               \/ s[i] = Unlock(l)
               \/ s[i] # Lock(l) /\ l \in HeldAt(s, i + 1)
  <2>1. ASSUME l \in HeldAt(s, i), s[i] # Unlock(l)
        PROVE  s[i] # Lock(l) /\ l \in HeldAt(s, i + 1)
    <3>1. PICK j \in i..Len(s) : s[j] = Unlock(l) /\ \A k \in i..(j - 1) : s[k] # Lock(l)
      BY <2>1 DEF HeldAt
    <3>2. j \in (i + 1)..Len(s)
      BY <2>1, <3>1, <1>1
    <3> QED BY <3>1, <3>2, <1>1 DEF HeldAt
  <2>2. ASSUME s[i] = Unlock(l)
        PROVE  l \in HeldAt(s, i)
    <3>1. i \in i..Len(s) /\ \A k \in i..(i - 1) : s[k] # Lock(l)
      BY <1>1
    <3> QED BY <2>2, <3>1 DEF HeldAt
  <2>3. ASSUME s[i] # Lock(l), l \in HeldAt(s, i + 1)
        PROVE  l \in HeldAt(s, i)
    <3>1. PICK j \in (i + 1)..Len(s) :
                 s[j] = Unlock(l) /\ \A k \in (i + 1)..(j - 1) : s[k] # Lock(l)
      BY <2>3 DEF HeldAt
    <3>2. j \in i..Len(s) /\ \A k \in i..(j - 1) : k = i \/ k \in (i + 1)..(j - 1)
      BY <1>1
    <3> QED BY <2>3, <3>1, <3>2 DEF HeldAt
  <2> QED BY <2>1, <2>2, <2>3
<1>3. /\ s[i].do = "lock" => s[i].at \in Locks /\ s[i] = Lock(s[i].at)
      /\ s[i].do = "unlock" => s[i].at \in Locks /\ s[i] = Unlock(s[i].at)
  BY <1>1, StepIsLockStep DEF Lock, Unlock
<1>4. HeldAt(s, i) \subseteq Locks /\ HeldAt(s, i + 1) \subseteq Locks
  BY DEF HeldAt
<1>5. \A l \in Locks : /\ s[i] = Lock(l) <=> s[i].do = "lock" /\ s[i].at = l
                       /\ s[i] = Unlock(l) <=> s[i].do = "unlock" /\ s[i].at = l
  BY <1>3, LockIsStep
<1> HIDE DEF HeldAt
<1>6. CASE s[i].do = "lock"
  BY <1>2, <1>3, <1>4, <1>5, <1>6
<1>7. CASE s[i].do = "unlock"
  BY <1>2, <1>3, <1>4, <1>5, <1>7
<1>8. CASE s[i].do \notin {"lock", "unlock"}
  BY <1>2, <1>4, <1>5, <1>8
<1> QED BY <1>6, <1>7, <1>8

LEMMA HeldAtEnd ==
  ASSUME NEW s \in Seq(Steps)  PROVE HeldAt(s, Len(s) + 1) = {}
  BY LenProperties DEF HeldAt

LEMMA NestedIsSeq ==
  ASSUME NEW s, NEW r, Nested(s, r)
  PROVE  s \in Seq(Steps) /\ Len(s) \in Nat
  BY LenProperties DEF Nested, Disciplined

LEMMA NestedWeaken ==
  ASSUME NEW s, NEW r \in Nat, NEW q \in Nat, q <= r, Nested(s, r)
  PROVE  Nested(s, q)
<1>1. ASSUME NEW i \in 1..Len(s), s[i].do \in {"lock", "touch"}
      PROVE  q < Rank[s[i].at]
  <2>1. s[i] \in Steps
    BY NestedIsSeq, ElementOfSeq
  <2>2. s[i].at \in Locks
    BY <1>1, <2>1, StepIsLockStep
  <2>3. Rank[s[i].at] \in Nat
    BY <2>2, Ranks
  <2>4. r < Rank[s[i].at]
    BY <1>1 DEF Nested
  <2> QED BY <2>3, <2>4
<1> QED BY <1>1 DEF Nested

LEMMA StepNested ==
  ASSUME NEW st \in Steps, NEW r \in Nat, st.do \notin {"lock", "unlock"},
         st.do = "touch" => r < Rank[st.at]
  PROVE  Nested(<<st>>, r)
<1> DEFINE s == <<st>>
<1>1. s \in Seq(Steps) /\ Len(s) = 1 /\ s[1] = st
  OBVIOUS
<1> HIDE DEF s
<1>2. HeldAt(s, 1 + 1) = {}
  BY <1>1, HeldAtEnd
<1>3. HeldAt(s, 1) = {}
  BY <1>1, <1>2, HeldAtStep
<1>4. Nested(s, r)
  BY <1>1, <1>3 DEF Nested, Disciplined
<1> QED BY <1>4 DEF s

LEMMA TouchNested ==
  ASSUME NEW l \in Locks, NEW r \in Nat, r < Rank[l]
  PROVE  Nested(Touch(l), r)
<1>1. [do |-> "touch", at |-> l] \in Steps
  BY DEF Steps, LockSteps
<1> QED BY <1>1, StepNested DEF Touch

LEMMA DoNested ==
  ASSUME NEW what \in {"check", "advertise", "erase", "find", "publish"},
         NEW r \in Nat
  PROVE  Nested(Do(what), r)
<1>1. [do |-> what, at |-> "-"] \in Steps
  BY DEF Steps, OtherSteps
<1> QED BY <1>1, StepNested DEF Do

(* One part after the other. *)
LEMMA ConcatNested ==
  ASSUME NEW a, NEW b, NEW r \in Nat, Nested(a, r), Nested(b, r)
  PROVE  Nested(a \o b, r)
<1> DEFINE c == a \o b
<1>1. /\ a \in Seq(Steps) /\ b \in Seq(Steps) /\ c \in Seq(Steps)
      /\ Len(a) \in Nat /\ Len(b) \in Nat /\ Len(c) = Len(a) + Len(b)
      /\ \A i \in 1..Len(a) + Len(b) :
           c[i] = IF i <= Len(a) THEN a[i] ELSE b[i - Len(a)]
  BY NestedIsSeq, ConcatProperties
<1> HIDE DEF c
<1>2. \A i \in 1..Len(a) : c[i] = a[i]
  BY <1>1
<1>3. \A i \in 1..Len(b) : c[Len(a) + i] = b[i]
  BY <1>1
<1>4. ASSUME NEW i \in 1..(Len(b) + 1)
      PROVE  HeldAt(c, Len(a) + i) = HeldAt(b, i)
  <2>1. ASSUME NEW l \in HeldAt(c, Len(a) + i)
        PROVE  l \in HeldAt(b, i)
    <3>1. PICK j \in Len(a) + i..Len(c) :
                 c[j] = Unlock(l) /\ \A k \in Len(a) + i..(j - 1) : c[k] # Lock(l)
      BY DEF HeldAt
    <3>2. j - Len(a) \in i..Len(b) /\ b[j - Len(a)] = Unlock(l)
      BY <3>1, <1>1
    <3>3. ASSUME NEW k \in i..((j - Len(a)) - 1)  PROVE b[k] # Lock(l)
      <4>1. Len(a) + k \in Len(a) + i..(j - 1) /\ k \in 1..Len(b)
        BY <3>1, <1>1
      <4> QED BY <4>1, <3>1, <1>3
    <3> QED BY <3>2, <3>3 DEF HeldAt
  <2>2. ASSUME NEW l \in HeldAt(b, i)
        PROVE  l \in HeldAt(c, Len(a) + i)
    <3>1. PICK j \in i..Len(b) : b[j] = Unlock(l) /\ \A k \in i..(j - 1) : b[k] # Lock(l)
      BY DEF HeldAt
    <3>2. Len(a) + j \in Len(a) + i..Len(c) /\ c[Len(a) + j] = Unlock(l)
      BY <3>1, <1>1, <1>3
    <3>3. ASSUME NEW k \in Len(a) + i..((Len(a) + j) - 1)  PROVE c[k] # Lock(l)
      <4>1. k - Len(a) \in i..(j - 1) /\ c[k] = b[k - Len(a)]
        BY <3>1, <1>1
      <4> QED BY <4>1, <3>1
    <3> QED BY <3>2, <3>3 DEF HeldAt
  <2> QED BY <2>1, <2>2
<1>5. ASSUME NEW i \in 1..(Len(a) + 1)
      PROVE  HeldAt(c, i) = HeldAt(a, i)
  <2>1. ASSUME NEW l \in HeldAt(c, i)
        PROVE  l \in HeldAt(a, i)
    <3>1. PICK j \in i..Len(c) : c[j] = Unlock(l) /\ \A k \in i..(j - 1) : c[k] # Lock(l)
      BY DEF HeldAt
    <3>2. CASE j <= Len(a)
      <4>1. j \in i..Len(a) /\ \A k \in i..(j - 1) : k \in 1..Len(a)
        BY <3>1, <3>2, <1>1
      <4> QED BY <4>1, <3>1, <1>2, SMTT(30) DEF HeldAt
    <3>3. CASE j > Len(a)
      <4>1. j \in Len(a) + 1..Len(c) /\ \A k \in Len(a) + 1..(j - 1) : k \in i..(j - 1)
        BY <3>1, <3>3, <1>1
      <4>2. l \in HeldAt(c, Len(a) + 1)
        BY <4>1, <3>1 DEF HeldAt
      <4>3. l \in HeldAt(b, 1)
        BY <4>2, <1>4, <1>1
      <4> QED BY <4>3 DEF Nested
    <3> QED BY <3>1, <3>2, <3>3, <1>1
  <2>2. ASSUME NEW l \in HeldAt(a, i)
        PROVE  l \in HeldAt(c, i)
    <3>1. PICK j \in i..Len(a) : a[j] = Unlock(l) /\ \A k \in i..(j - 1) : a[k] # Lock(l)
      BY DEF HeldAt
    <3>2. j \in i..Len(c) /\ c[j] = Unlock(l) /\ \A k \in i..(j - 1) : k \in 1..Len(a)
      BY <3>1, <1>1, <1>2
    <3> QED BY <3>1, <3>2, <1>2 DEF HeldAt
  <2> QED BY <2>1, <2>2
<1>6. HeldAt(c, 1) = {}
  <2>1. 1 \in 1..(Len(a) + 1)
    BY <1>1
  <2>2. HeldAt(c, 1) = HeldAt(a, 1)
    BY <2>1, <1>5
  <2> QED BY <2>2 DEF Nested
<1>7. ASSUME NEW i \in 1..Len(c)
      PROVE  /\ c[i].do \in {"lock", "touch"} =>
                  /\ r < Rank[c[i].at]
                  /\ \A l \in HeldAt(c, i) : Rank[l] < Rank[c[i].at]
             /\ c[i].do = "lock" => c[i].at \in HeldAt(c, i + 1)
             /\ c[i].do = "unlock" => c[i].at \notin HeldAt(c, i + 1)
  <2>1. CASE i <= Len(a)
    <3>1. /\ i \in 1..Len(a) /\ i + 1 \in 1..(Len(a) + 1) /\ i \in 1..(Len(a) + 1)
      BY <2>1, <1>1
    <3>2. /\ c[i] = a[i] /\ HeldAt(c, i) = HeldAt(a, i)
          /\ HeldAt(c, i + 1) = HeldAt(a, i + 1)
      BY <3>1, <1>2, <1>5
    <3> QED BY <3>1, <3>2 DEF Nested, Disciplined
  <2>2. CASE i > Len(a)
    <3> DEFINE j == i - Len(a)
    <3>1. /\ j \in 1..Len(b) /\ j + 1 \in 1..(Len(b) + 1) /\ j \in 1..(Len(b) + 1)
          /\ Len(a) + j = i /\ Len(a) + (j + 1) = i + 1
      BY <2>2, <1>1
    <3> HIDE DEF j
    <3>2. /\ c[i] = b[j] /\ HeldAt(c, i) = HeldAt(b, j)
          /\ HeldAt(c, i + 1) = HeldAt(b, j + 1)
      BY <3>1, <1>3, <1>4
    <3> QED BY <3>1, <3>2 DEF Nested, Disciplined
  <2> QED BY <2>1, <2>2, <1>1
<1>8. Nested(c, r)
  BY <1>1, <1>6, <1>7 DEF Nested, Disciplined
<1> QED BY <1>8 DEF c

(* The scope of a lock around a part that takes only locks above it. *)
LEMMA UnderNested ==
  ASSUME NEW l \in Locks, NEW r \in Nat, r < Rank[l],
         NEW body, Nested(body, Rank[l])
  PROVE  Nested(Under(l, body), r)
<1> DEFINE s == Under(l, body)
           n == Len(body)
<1>1. body \in Seq(Steps) /\ n \in Nat
  BY NestedIsSeq
<1>2. <<Lock(l)>> \in Seq(Steps) /\ Len(<<Lock(l)>>) = 1 /\ <<Lock(l)>>[1] = Lock(l)
  BY LockIsStep DEF Steps
<1>3. <<Unlock(l)>> \in Seq(Steps) /\ Len(<<Unlock(l)>>) = 1 /\ <<Unlock(l)>>[1] = Unlock(l)
  BY LockIsStep DEF Steps
<1>4. /\ <<Lock(l)>> \o body \in Seq(Steps) /\ Len(<<Lock(l)>> \o body) = 1 + n
      /\ \A i \in 1..1 + n : (<<Lock(l)>> \o body)[i] =
                              IF i <= 1 THEN <<Lock(l)>>[i] ELSE body[i - 1]
  BY <1>1, <1>2, ConcatProperties
<1>5. /\ s \in Seq(Steps) /\ Len(s) = n + 2
      /\ \A i \in 1..n + 2 :
           s[i] = IF i <= n + 1 THEN (<<Lock(l)>> \o body)[i] ELSE <<Unlock(l)>>[i - (n + 1)]
  <2>1. /\ s \in Seq(Steps) /\ Len(s) = (1 + n) + 1
        /\ \A i \in 1..(1 + n) + 1 :
             s[i] = IF i <= 1 + n THEN (<<Lock(l)>> \o body)[i] ELSE <<Unlock(l)>>[i - (1 + n)]
    BY <1>3, <1>4, ConcatProperties DEF Under
  <2> QED BY <2>1, <1>1
<1>6. s[1] = Lock(l) /\ s[n + 2] = Unlock(l)
  BY <1>1, <1>2, <1>3, <1>4, <1>5, SMTT(20)
<1>7. \A i \in 1..n : s[i + 1] = body[i]
  BY <1>1, <1>4, <1>5
<1> HIDE DEF s, n
<1>8. \A i \in 1..n : body[i] # Lock(l)
  <2> SUFFICES ASSUME NEW i \in 1..n, body[i] = Lock(l) PROVE FALSE
    OBVIOUS
  <2>1. Rank[l] < Rank[l]
    BY LockIsStep DEF Nested, n
  <2> QED BY <2>1, Ranks
<1>9. ASSUME NEW i \in 1..(n + 1)
      PROVE  HeldAt(s, i + 1) = HeldAt(body, i) \cup {l}
  <2>1. ASSUME NEW m \in HeldAt(s, i + 1), m # l
        PROVE  m \in HeldAt(body, i)
    <3>1. PICK j \in i + 1..Len(s) : s[j] = Unlock(m) /\ \A k \in i + 1..(j - 1) : s[k] # Lock(m)
      BY DEF HeldAt
    <3>2. j # n + 2
      BY <2>1, <3>1, <1>6 DEF Unlock
    <3>3. j - 1 \in i..n /\ body[j - 1] = Unlock(m)
      BY <3>1, <3>2, <1>1, <1>5, <1>7 DEF n
    <3>4. ASSUME NEW k \in i..((j - 1) - 1)  PROVE body[k] # Lock(m)
      <4>1. k + 1 \in i + 1..(j - 1) /\ k \in 1..n
        BY <3>3, <1>1 DEF n
      <4> QED BY <4>1, <3>1, <1>7
    <3>5. m \in Locks
      BY DEF HeldAt
    <3> QED BY <3>3, <3>4, <3>5 DEF HeldAt, n
  <2>2. ASSUME NEW m \in HeldAt(body, i)
        PROVE  m \in HeldAt(s, i + 1)
    <3>1. PICK j \in i..n : body[j] = Unlock(m) /\ \A k \in i..(j - 1) : body[k] # Lock(m)
      BY DEF HeldAt, n
    <3>2. j + 1 \in i + 1..Len(s) /\ s[j + 1] = Unlock(m)
      BY <3>1, <1>1, <1>5, <1>7 DEF n
    <3>3. ASSUME NEW k \in i + 1..((j + 1) - 1)  PROVE s[k] # Lock(m)
      <4>1. k - 1 \in i..(j - 1) /\ k - 1 \in 1..n /\ (k - 1) + 1 = k
        BY <3>1, <1>1 DEF n
      <4> QED BY <4>1, <3>1, <1>7
    <3>4. m \in Locks
      BY DEF HeldAt
    <3> QED BY <3>2, <3>3, <3>4 DEF HeldAt
  <2>3. l \in HeldAt(s, i + 1)
    <3>1. n + 2 \in i + 1..Len(s)
      BY <1>1, <1>5 DEF n
    <3>2. ASSUME NEW k \in i + 1..((n + 2) - 1)  PROVE s[k] # Lock(l)
      <4>1. k - 1 \in 1..n /\ (k - 1) + 1 = k
        BY <1>1 DEF n
      <4> QED BY <4>1, <1>7, <1>8
    <3> QED BY <3>1, <3>2, <1>6 DEF HeldAt
  <2> QED BY <2>1, <2>2, <2>3
<1>10. HeldAt(s, 1 + 1) = {l}
  <2>1. 1 \in 1..(n + 1)
    BY <1>1 DEF n
  <2> QED BY <2>1, <1>9 DEF Nested
<1>11. HeldAt(s, n + 3) = {}
  BY <1>5, <1>1, HeldAtEnd DEF n
<1>12. HeldAt(s, 1) = {}
  <2>1. 1 \in 1..Len(s)
    BY <1>1, <1>5 DEF n
  <2>2. HeldAt(s, 1) = HeldAt(s, 1 + 1) \ {l}
    BY <2>1, <1>5, <1>6, HeldAtStep, LockIsStep
  <2> QED BY <2>2, <1>10
<1>13. ASSUME NEW i \in 1..Len(s)
       PROVE  /\ s[i].do \in {"lock", "touch"} =>
                   /\ r < Rank[s[i].at]
                   /\ \A m \in HeldAt(s, i) : Rank[m] < Rank[s[i].at]
              /\ s[i].do = "lock" => s[i].at \in HeldAt(s, i + 1)
              /\ s[i].do = "unlock" => s[i].at \notin HeldAt(s, i + 1)
  <2>1. CASE i = 1
    BY <2>1, <1>6, <1>10, <1>12, LockIsStep
  <2>2. CASE i = n + 2
    <3>1. i + 1 = n + 3
      BY <2>2, <1>1 DEF n
    <3> QED BY <2>2, <3>1, <1>6, <1>11, LockIsStep
  <2>3. CASE i # 1 /\ i # n + 2
    <3> DEFINE j == i - 1
    <3>1. /\ j \in 1..n /\ j \in 1..(n + 1) /\ j + 1 \in 1..(n + 1)
          /\ j + 1 = i /\ (j + 1) + 1 = i + 1
      BY <2>3, <1>1, <1>5 DEF n
    <3> HIDE DEF j
    <3>2. /\ s[i] = body[j] /\ HeldAt(s, i) = HeldAt(body, j) \cup {l}
          /\ HeldAt(s, i + 1) = HeldAt(body, j + 1) \cup {l}
      BY <3>1, <1>7, <1>9
    <3>3. body[j] \in Steps
      BY <3>1, <1>1, ElementOfSeq DEF n
    <3>4. /\ body[j].do \in {"lock", "touch"} =>
               /\ Rank[l] < Rank[body[j].at]
               /\ \A m \in HeldAt(body, j) : Rank[m] < Rank[body[j].at]
          /\ body[j].do = "lock" => body[j].at \in HeldAt(body, j + 1)
          /\ body[j].do = "unlock" => body[j].at \notin HeldAt(body, j + 1)
      BY <3>1 DEF Nested, Disciplined, n
    <3>5. ASSUME body[j].do = "unlock"  PROVE body[j].at # l
      <4> SUFFICES ASSUME body[j].at = l PROVE FALSE
        OBVIOUS
      <4>1. body[j] = Unlock(l)
        BY <3>3, <3>5, StepIsLockStep DEF Unlock
      <4>2. j \in 1..n /\ \A k \in 1..(j - 1) : k \in 1..n
        BY <3>1, <1>1 DEF n
      <4>3. l \in HeldAt(body, 1)
        BY <4>1, <4>2, <1>8 DEF HeldAt, n
      <4> QED BY <4>3 DEF Nested
    <3>6. ASSUME body[j].do \in {"lock", "touch"}
          PROVE  /\ r < Rank[body[j].at]
                 /\ \A m \in HeldAt(body, j) \cup {l} : Rank[m] < Rank[body[j].at]
      <4>1. Rank[body[j].at] \in Nat /\ Rank[l] \in Nat
        BY <3>3, <3>6, StepIsLockStep, Ranks
      <4>2. Rank[l] < Rank[body[j].at]
        BY <3>4, <3>6
      <4>3. r < Rank[body[j].at]
        BY <4>1, <4>2
      <4> QED BY <3>4, <3>6, <4>2, <4>3
    <3> QED BY <3>2, <3>4, <3>5, <3>6
  <2> QED BY <2>1, <2>2, <2>3
<1>14. Nested(s, r)
  BY <1>5, <1>12, <1>13 DEF Nested, Disciplined
<1> QED BY <1>14 DEF s

-----------------------------------------------------------------------------
(* The operations *)

(* Every operation takes its locks in order and leaves none behind. *)
LEMMA OperationsNested ==
  /\ Nested(SessionAdvertises, 0) /\ Nested(RosMessageHandler, 0)
  /\ Nested(OnSubscribe, 0) /\ Nested(Under("gateway", OnSubscribe), 0)
  /\ Nested(OnUnsubscribe, 0) /\ Nested(Under("gateway", OnUnsubscribe), 0)
  /\ Nested(UpdateAdvertisedTopics, 0) /\ Nested(SweepExpiredServiceCalls, 0)
  /\ Nested(OnClientAdvertise, 0) /\ Nested(OnClientUnadvertise, 0)
  /\ Nested(OnClientMessage, 0)
<1>l. {"gateway", "callbacks", "ads", "subscriptions", "descriptions", "registry",
       "session", "latched", "poll", "pendingCalls", "pendingCall"} \subseteq Locks
  BY DEF Locks
<1>1. Nested(ClassifyQos, 7)
  BY <1>l, Ranks, TouchNested DEF ClassifyQos
<1>2. Nested(SessionAdvertises, 6) /\ Nested(SessionAdvertises, 0)
  BY <1>1, <1>l, Ranks, UnderNested DEF SessionAdvertises
<1>3. Nested(CreateChannel, 5) /\ Nested(CreateChannel, 4)
  BY <1>2, <1>l, Ranks, UnderNested DEF CreateChannel
<1>4. Nested(Log, 4)
  <2>1. Nested(Touch("session"), 6)
    BY <1>l, Ranks, TouchNested
  <2> QED BY <2>1, <1>l, Ranks, UnderNested DEF Log
<1>5. Nested(OnSubscribe, 1) /\ Nested(OnSubscribe, 0)
  BY <1>4, <1>l, Ranks, UnderNested DEF OnSubscribe
<1>6. Nested(Touch("latched"), 4)
  BY <1>l, Ranks, TouchNested
<1>7. /\ Nested(Under("subscriptions", Touch("latched")), 1)
      /\ Nested(Under("subscriptions", Touch("latched")), 0)
  BY <1>6, <1>l, Ranks, UnderNested
<1>8. Nested(Touch("callbacks"), 1) /\ Nested(Touch("callbacks"), 0)
  BY <1>l, Ranks, TouchNested
<1>9. Nested(OnUnsubscribe, 1) /\ Nested(OnUnsubscribe, 0)
  BY <1>7, <1>8, ConcatNested DEF OnUnsubscribe
<1>10. Nested(Under("gateway", OnSubscribe), 0)
  BY <1>5, <1>l, Ranks, UnderNested
<1>11. Nested(Under("gateway", OnUnsubscribe), 0)
  BY <1>9, <1>l, Ranks, UnderNested
<1>12. Nested(RosMessageHandler, 0)
  <2>1. Nested(Touch("latched") \o Log, 4)
    BY <1>4, <1>6, ConcatNested
  <2>2. Nested(Under("subscriptions", Touch("latched") \o Log), 2)
    BY <2>1, <1>l, Ranks, UnderNested
  <2> QED BY <2>2, <1>l, Ranks, UnderNested DEF RosMessageHandler
<1>13. Nested(UpdateAdvertisedTopics, 0)
  <2>1. Nested(RemoveChannels, 0)
    BY <1>7, <1>11, ConcatNested DEF RemoveChannels, CloseChannel
  <2>2. Nested(Touch("descriptions"), 4)
    BY <1>l, Ranks, TouchNested
  <2>3. Nested(Touch("descriptions") \o CreateChannel, 4)
    BY <2>2, <1>3, ConcatNested
  <2>4. Nested(Under("subscriptions", Touch("descriptions") \o CreateChannel), 0)
    BY <2>3, <1>l, Ranks, UnderNested
  <2>5. Nested(RemoveChannels \o Touch("callbacks"), 0)
    BY <2>1, <1>8, ConcatNested
  <2> QED BY <2>4, <2>5, ConcatNested DEF UpdateAdvertisedTopics
<1>14. Nested(OnClientAdvertise, 0)
  <2>1. Nested(Do("check"), 3) /\ Nested(Do("advertise"), 3)
    BY DoNested
  <2>2. Nested(Touch("descriptions"), 3) /\ Nested(Touch("poll"), 3)
    BY <1>l, Ranks, TouchNested
  <2>3. Nested(Do("check") \o Touch("descriptions"), 3)
    BY <2>1, <2>2, ConcatNested
  <2>4. Nested(Do("check") \o Touch("descriptions") \o Do("advertise"), 3)
    BY <2>1, <2>3, ConcatNested
  <2>5. Nested(Do("check") \o Touch("descriptions") \o Do("advertise") \o Touch("poll"), 3)
    BY <2>2, <2>4, ConcatNested
  <2> QED BY <2>5, <1>l, Ranks, UnderNested DEF OnClientAdvertise
<1>15. Nested(OnClientUnadvertise, 0)
  <2>1. Nested(Do("erase"), 3)
    BY DoNested
  <2> QED BY <2>1, <1>l, Ranks, UnderNested DEF OnClientUnadvertise
<1>16. Nested(OnClientMessage, 0)
  <2>1. Nested(Do("find"), 3) /\ Nested(Do("publish"), 0)
    BY DoNested
  <2>2. Nested(Under("ads", Do("find")), 0)
    BY <2>1, <1>l, Ranks, UnderNested
  <2> QED BY <2>1, <2>2, ConcatNested DEF OnClientMessage
<1>17. Nested(SweepExpiredServiceCalls, 0)
  <2>1. Nested(Touch("pendingCall"), 10)
    BY <1>l, Ranks, TouchNested
  <2> QED BY <2>1, <1>l, Ranks, UnderNested DEF SweepExpiredServiceCalls
<1> QED BY <1>2, <1>5, <1>9, <1>10, <1>11, <1>12, <1>13, <1>14, <1>15, <1>16, <1>17

-----------------------------------------------------------------------------
(* Threads and locks *)

(* A thread holds the locks that what it still has to do releases. *)
LockInv ==
  /\ todo \in [Threads -> Seq(Steps)]
  /\ owner \in [Locks -> Threads \cup {None}]
  /\ \A th \in Threads : Disciplined(todo[th]) /\ HeldLocks(th) = HeldAt(todo[th], 1)

LEMMA TailDisciplined ==
  ASSUME NEW s, Disciplined(s), s # <<>>
  PROVE  Disciplined(Tail(s)) /\ HeldAt(Tail(s), 1) = HeldAt(s, 2)
<1> DEFINE t == Tail(s)
<1>1. /\ s \in Seq(Steps) /\ t \in Seq(Steps) /\ Len(s) \in Nat /\ Len(t) = Len(s) - 1
      /\ Len(t) \in Nat /\ \A i \in 1..Len(t) : t[i] = s[i + 1]
  BY HeadTailProperties, LenProperties DEF Disciplined
<1> HIDE DEF t
<1>2. ASSUME NEW i \in Nat \ {0}  PROVE HeldAt(t, i) = HeldAt(s, i + 1)
  <2>1. ASSUME NEW l \in HeldAt(t, i)  PROVE l \in HeldAt(s, i + 1)
    <3>1. PICK j \in i..Len(t) : t[j] = Unlock(l) /\ \A k \in i..(j - 1) : t[k] # Lock(l)
      BY DEF HeldAt
    <3>2. j + 1 \in i + 1..Len(s) /\ s[j + 1] = Unlock(l)
      BY <3>1, <1>1
    <3>3. ASSUME NEW k \in i + 1..((j + 1) - 1)  PROVE s[k] # Lock(l)
      <4>1. k - 1 \in i..(j - 1) /\ k - 1 \in 1..Len(t) /\ (k - 1) + 1 = k
        BY <3>1, <1>1
      <4> QED BY <4>1, <3>1, <1>1
    <3>4. l \in Locks
      BY DEF HeldAt
    <3> QED BY <3>2, <3>3, <3>4 DEF HeldAt
  <2>2. ASSUME NEW l \in HeldAt(s, i + 1)  PROVE l \in HeldAt(t, i)
    <3>1. PICK j \in i + 1..Len(s) : s[j] = Unlock(l) /\ \A k \in i + 1..(j - 1) : s[k] # Lock(l)
      BY DEF HeldAt
    <3>2. j - 1 \in i..Len(t) /\ t[j - 1] = Unlock(l)
      BY <3>1, <1>1
    <3>3. ASSUME NEW k \in i..((j - 1) - 1)  PROVE t[k] # Lock(l)
      <4>1. k + 1 \in i + 1..(j - 1) /\ k \in 1..Len(t)
        BY <3>1, <3>2, <1>1
      <4> QED BY <4>1, <3>1, <1>1
    <3>4. l \in Locks
      BY DEF HeldAt
    <3> QED BY <3>2, <3>3, <3>4 DEF HeldAt
  <2> QED BY <2>1, <2>2
<1>3. HeldAt(t, 1) = HeldAt(s, 2)
  BY <1>2
<1>4. ASSUME NEW i \in 1..Len(t)
      PROVE  /\ t[i].do \in {"lock", "touch"} =>
                  \A l \in HeldAt(t, i) : Rank[l] < Rank[t[i].at]
             /\ t[i].do = "lock" => t[i].at \in HeldAt(t, i + 1)
             /\ t[i].do = "unlock" => t[i].at \notin HeldAt(t, i + 1)
  <2>1. i + 1 \in 1..Len(s) /\ i \in Nat \ {0} /\ i + 1 \in Nat \ {0}
    BY <1>1
  <2>2. /\ t[i] = s[i + 1] /\ HeldAt(t, i) = HeldAt(s, i + 1)
        /\ HeldAt(t, i + 1) = HeldAt(s, (i + 1) + 1)
    BY <2>1, <1>1, <1>2
  <2> QED BY <2>1, <2>2 DEF Disciplined
<1>5. Disciplined(t)
  BY <1>1, <1>4 DEF Disciplined
<1> QED BY <1>3, <1>5 DEF t

(* The first step of what there is to do, and the locks held around it. *)
LEMMA HeadStep ==
  ASSUME NEW s, Disciplined(s), s # <<>>
  PROVE  /\ Head(s) \in Steps /\ Disciplined(Tail(s))
         /\ Head(s).do \in {"lock", "touch"} =>
              /\ Head(s).at \in Locks
              /\ \A l \in HeldAt(s, 1) : Rank[l] < Rank[Head(s).at]
         /\ Head(s).do = "lock" => HeldAt(Tail(s), 1) = HeldAt(s, 1) \cup {Head(s).at}
         /\ Head(s).do = "unlock" => /\ Head(s).at \in HeldAt(s, 1)
                                   /\ HeldAt(Tail(s), 1) = HeldAt(s, 1) \ {Head(s).at}
         /\ Head(s).do \notin {"lock", "unlock"} => HeldAt(Tail(s), 1) = HeldAt(s, 1)
<1> DEFINE st == Head(s)
<1>1. s \in Seq(Steps) /\ 1 \in 1..Len(s) /\ s[1] = st /\ st \in Steps
  <2>1. s \in Seq(Steps)
    BY DEF Disciplined
  <2>2. Len(s) \in Nat \ {0}
    BY <2>1, EmptySeq
  <2>3. Head(s) = s[1]
    BY <2>1
  <2>4. Head(s) \in Steps
    BY <2>1, HeadTailProperties
  <2> QED BY <2>1, <2>2, <2>3, <2>4
<1> HIDE DEF st
<1>2. Disciplined(Tail(s)) /\ HeldAt(Tail(s), 1) = HeldAt(s, 1 + 1)
  BY <1>1, TailDisciplined
<1>3. /\ st.do = "lock" => HeldAt(s, 1) = HeldAt(s, 1 + 1) \ {st.at}
      /\ st.do = "unlock" => HeldAt(s, 1) = HeldAt(s, 1 + 1) \cup {st.at}
      /\ st.do \notin {"lock", "unlock"} => HeldAt(s, 1) = HeldAt(s, 1 + 1)
  BY <1>1, HeldAtStep
<1>4. /\ st.do \in {"lock", "touch"} => \A l \in HeldAt(s, 1) : Rank[l] < Rank[st.at]
      /\ st.do = "lock" => st.at \in HeldAt(s, 1 + 1)
      /\ st.do = "unlock" => st.at \notin HeldAt(s, 1 + 1)
  BY <1>1 DEF Disciplined
<1>5. st.do \in {"lock", "touch"} => st.at \in Locks
  BY <1>1, StepIsLockStep
<1> HIDE DEF HeldAt
<1>6. /\ st.do = "lock" => HeldAt(Tail(s), 1) = HeldAt(s, 1) \cup {st.at}
      /\ st.do = "unlock" => /\ st.at \in HeldAt(s, 1)
                            /\ HeldAt(Tail(s), 1) = HeldAt(s, 1) \ {st.at}
      /\ st.do \notin {"lock", "unlock"} => HeldAt(Tail(s), 1) = HeldAt(s, 1)
  BY <1>1, <1>2, <1>3, <1>4
<1> QED BY <1>1, <1>2, <1>4, <1>5, <1>6 DEF st

(* The same of a thread: it holds what the rest of its operation releases. *)
LEMMA FirstStep ==
  ASSUME LockInv, NEW th \in Threads, todo[th] # <<>>
  PROVE  LET st == Head(todo[th]) IN
         /\ st \in Steps /\ Disciplined(Tail(todo[th]))
         /\ st.do \in {"lock", "touch"} =>
              /\ st.at \in Locks
              /\ \A l \in HeldLocks(th) : Rank[l] < Rank[st.at]
         /\ st.do = "lock" => HeldAt(Tail(todo[th]), 1) = HeldLocks(th) \cup {st.at}
         /\ st.do = "unlock" => /\ st.at \in HeldLocks(th)
                               /\ HeldAt(Tail(todo[th]), 1) = HeldLocks(th) \ {st.at}
         /\ st.do \notin {"lock", "unlock"} => HeldAt(Tail(todo[th]), 1) = HeldLocks(th)
<1>1. Disciplined(todo[th]) /\ HeldLocks(th) = HeldAt(todo[th], 1)
  BY DEF LockInv
<1> QED BY <1>1, HeadStep

(* What a thread waits for comes after all it holds. *)
InOrder(th) ==
  /\ Awaited(th) \in Locks \cup {Order!NoLock}
  /\ Awaited(th) # Order!NoLock =>
       \A l \in HeldLocks(th) : Rank[l] < Rank[Awaited(th)]

LEMMA AwaitedAboveHeld ==
  ASSUME NEW th \in Threads
  PROVE  LockInv => InOrder(th)
<1> SUFFICES ASSUME LockInv PROVE InOrder(th)
  OBVIOUS
<1> USE DEF InOrder
<1>1. CASE At(th, "lock") \/ At(th, "touch")
  <2>1. todo[th] # <<>> /\ Head(todo[th]).do \in {"lock", "touch"}
    BY <1>1 DEF At
  <2>2. Awaited(th) = Head(todo[th]).at
    BY <1>1 DEF Awaited
  <2> QED BY <2>1, <2>2, FirstStep
<1>2. CASE ~(At(th, "lock") \/ At(th, "touch"))
  BY <1>2 DEF Awaited, Order!NoLock
<1> QED BY <1>1, <1>2

LEMMA AwaitedAboveHeldNext ==
  ASSUME NEW th \in Threads
  PROVE  LockInv' => InOrder(th)'
<1>1. LockInv => InOrder(th)
  BY AwaitedAboveHeld
<1> QED BY <1>1, PTL

(* A thread whose remaining operation becomes s. *)
LEMMA OneThreadMoves ==
  ASSUME LockInv, NEW th \in Threads, NEW s, Disciplined(s),
         todo' = [todo EXCEPT ![th] = s],
         owner' \in [Locks -> Threads \cup {None}],
         \A u \in Threads \ {th} : HeldLocks(u)' = HeldLocks(u),
         HeldLocks(th)' = HeldAt(s, 1)
  PROVE  LockInv'
<1>1. s \in Seq(Steps)
  BY DEF Disciplined
<1>2. todo' \in [Threads -> Seq(Steps)]
  BY <1>1 DEF LockInv
<1>3. ASSUME NEW u \in Threads
      PROVE  Disciplined(todo'[u]) /\ HeldLocks(u)' = HeldAt(todo'[u], 1)
  <2>1. CASE u = th
    <3>1. todo'[u] = s
      BY <2>1 DEF LockInv
    <3> QED BY <2>1, <3>1
  <2>2. CASE u # th
    <3>1. todo'[u] = todo[u]
      BY <2>2 DEF LockInv
    <3>2. Disciplined(todo[u]) /\ HeldLocks(u) = HeldAt(todo[u], 1)
      BY DEF LockInv
    <3> QED BY <2>2, <3>1, <3>2
  <2> QED BY <2>1, <2>2
<1> QED BY <1>2, <1>3 DEF LockInv

(* Such a step is one of the abstract order's: the lock waited for was free, *)
(* or none was waited for and at most one is released.                       *)
LEMMA MoveKeepsOrder ==
  ASSUME LockInv, LockInv', NEW th \in Threads, NEW s,
         todo' = [todo EXCEPT ![th] = s],
         \A u \in Threads \ {th} : HeldLocks(u)' = HeldLocks(u),
         \/ /\ Awaited(th) # Order!NoLock
            /\ \A u \in Threads : Awaited(th) \notin HeldLocks(u)
            /\ HeldLocks(th)' \in {HeldLocks(th), HeldLocks(th) \cup {Awaited(th)}}
         \/ /\ Awaited(th) = Order!NoLock
            /\ \/ HeldLocks(th)' = HeldLocks(th)
               \/ \E l \in HeldLocks(th) : HeldLocks(th)' = HeldLocks(th) \ {l}
  PROVE  Order!Step(th)
<1> DEFINE held == [u \in Threads |-> HeldLocks(u)]
           want == [u \in Threads |-> Awaited(u)]
<1>1. ASSUME NEW u \in Threads \ {th}  PROVE Awaited(u)' = Awaited(u)
  <2>1. todo'[u] = todo[u]
    BY DEF LockInv
  <2> QED BY <2>1 DEF Awaited, At
<1>2. /\ Awaited(th)' \in Locks \cup {Order!NoLock}
      /\ Awaited(th)' # Order!NoLock =>
           \A l \in HeldLocks(th)' : Rank[l] < Rank[Awaited(th)']
  BY AwaitedAboveHeldNext DEF InOrder
<1>3. want' = [want EXCEPT ![th] = Awaited(th)']
  BY <1>1
<1>4. held' = [held EXCEPT ![th] = HeldLocks(th)']
  OBVIOUS
<1>5. /\ want[th] = Awaited(th) /\ held[th] = HeldLocks(th)
      /\ want'[th] = Awaited(th)' /\ held'[th] = HeldLocks(th)'
      /\ \A u \in Threads : held[u] = HeldLocks(u)
      /\ held = [held EXCEPT ![th] = held[th]]
  OBVIOUS
<1>6. \E l \in Order!Locks \cup {Order!NoLock} : want' = [want EXCEPT ![th] = l]
  BY <1>2, <1>3, Ranks
<1>7. want'[th] # Order!NoLock => \A l \in held'[th] : Order!Rank[l] < Order!Rank[want'[th]]
  BY <1>2, <1>5 DEF Rank
<1> HIDE DEF held, want
<1>8. CASE /\ want[th] # Order!NoLock
           /\ \A u \in Threads : want[th] \notin held[u]
           /\ held'[th] \in {held[th], held[th] \cup {want[th]}}
  <2>1. held' = [held EXCEPT ![th] = @ \cup {want[th]}] \/ UNCHANGED held
    BY <1>4, <1>5, <1>8
  <2> QED BY <1>6, <1>7, <1>8, <2>1 DEF Order!Step, Order!Free, held, want
<1>9. CASE /\ want[th] = Order!NoLock
           /\ \/ held'[th] = held[th]
              \/ \E l \in held[th] : held'[th] = held[th] \ {l}
  <2>1. \/ \E l \in held[th] : held' = [held EXCEPT ![th] = @ \ {l}]
        \/ UNCHANGED held
    BY <1>4, <1>5, <1>9
  <2> QED BY <1>6, <1>7, <1>9, <2>1 DEF Order!Step, Order!Free, held, want
<1> QED BY <1>5, <1>8, <1>9

-----------------------------------------------------------------------------
(* The stages of a client's request, by what the handler still has to do.   *)

Leave == <<Unlock("ads")>>
AdvPoke == Touch("poll") \o Leave
AdvPublish == Do("advertise") \o AdvPoke
AdvLookup == Touch("descriptions") \o AdvPublish
AdvCheck == Do("check") \o AdvLookup
UnadvErase == Do("erase") \o Leave
MsgPublish == Do("publish")
MsgLeave == Leave \o MsgPublish
MsgFind == Do("find") \o MsgLeave

LEMMA Cons ==
  ASSUME NEW st \in Steps, NEW s \in Seq(Steps)
  PROVE  /\ <<st>> \o s \in Seq(Steps) /\ <<st>> \o s # <<>>
         /\ Head(<<st>> \o s) = st /\ Tail(<<st>> \o s) = s
<1> DEFINE t == <<st>> \o s
<1>1. <<st>> \in Seq(Steps) /\ Len(<<st>>) = 1 /\ <<st>>[1] = st
  OBVIOUS
<1>2. /\ t \in Seq(Steps) /\ Len(t) = 1 + Len(s) /\ Len(s) \in Nat
      /\ \A i \in 1..1 + Len(s) : t[i] = IF i <= 1 THEN <<st>>[i] ELSE s[i - 1]
  BY <1>1, ConcatProperties, LenProperties
<1> HIDE DEF t
<1>3. t # <<>> /\ t[1] = st
  BY <1>1, <1>2
<1>4. Head(t) = t[1]
  BY <1>2, <1>3
<1>5. /\ Tail(t) \in Seq(Steps) /\ Len(Tail(t)) = Len(s)
      /\ \A i \in 1..Len(Tail(t)) : Tail(t)[i] = t[i + 1]
  BY <1>2, <1>3, HeadTailProperties
<1>6. \A i \in 1..Len(Tail(t)) : Tail(t)[i] = s[i]
  BY <1>2, <1>5
<1>7. Tail(t) = s
  BY <1>5, <1>6, SeqEqual
<1> QED BY <1>2, <1>3, <1>4, <1>7 DEF t

(* The handlers are made of these stages. *)
LEMMA Stages ==
  /\ {OnClientAdvertise, AdvCheck, AdvLookup, AdvPublish, AdvPoke, Leave,
      OnClientUnadvertise, UnadvErase, OnClientMessage, MsgFind, MsgLeave,
      MsgPublish} \subseteq Seq(Steps) \ {<<>>}
  /\ Head(OnClientAdvertise) = Lock("ads") /\ Tail(OnClientAdvertise) = AdvCheck
  /\ Head(AdvCheck).do = "check" /\ Tail(AdvCheck) = AdvLookup
  /\ Head(AdvLookup).do = "touch" /\ Tail(AdvLookup) = AdvPublish
  /\ Head(AdvPublish).do = "advertise" /\ Tail(AdvPublish) = AdvPoke
  /\ Head(AdvPoke).do = "touch" /\ Tail(AdvPoke) = Leave
  /\ Head(Leave) = Unlock("ads") /\ Tail(Leave) = <<>>
  /\ Head(OnClientUnadvertise) = Lock("ads") /\ Tail(OnClientUnadvertise) = UnadvErase
  /\ Head(UnadvErase).do = "erase" /\ Tail(UnadvErase) = Leave
  /\ Head(OnClientMessage) = Lock("ads") /\ Tail(OnClientMessage) = MsgFind
  /\ Head(MsgFind).do = "find" /\ Tail(MsgFind) = MsgLeave
  /\ Head(MsgLeave) = Unlock("ads") /\ Tail(MsgLeave) = MsgPublish
  /\ Head(MsgPublish).do = "publish" /\ Tail(MsgPublish) = <<>>
<1> DEFINE T(l) == [do |-> "touch", at |-> l]
           D(what) == [do |-> what, at |-> "-"]
<1>1. /\ Lock("ads") \in Steps /\ Unlock("ads") \in Steps
      /\ T("poll") \in Steps /\ T("descriptions") \in Steps
      /\ \A what \in {"check", "advertise", "erase", "find", "publish"} : D(what) \in Steps
  BY DEF Steps, LockSteps, OtherSteps, Lock, Unlock, Locks
<1>2. /\ Leave \in Seq(Steps) /\ MsgPublish \in Seq(Steps)
      /\ Leave # <<>> /\ MsgPublish # <<>>
      /\ Head(Leave) = Unlock("ads") /\ Tail(Leave) = <<>>
      /\ Head(MsgPublish) = D("publish") /\ Tail(MsgPublish) = <<>>
  BY <1>1 DEF Leave, MsgPublish, Do
<1>3. /\ AdvPoke \in Seq(Steps) /\ AdvPoke # <<>>
      /\ Head(AdvPoke) = T("poll") /\ Tail(AdvPoke) = Leave
  BY <1>1, <1>2, Cons DEF AdvPoke, Touch
<1>4. /\ AdvPublish \in Seq(Steps) /\ AdvPublish # <<>>
      /\ Head(AdvPublish) = D("advertise") /\ Tail(AdvPublish) = AdvPoke
  BY <1>1, <1>3, Cons DEF AdvPublish, Do
<1>5. /\ AdvLookup \in Seq(Steps) /\ AdvLookup # <<>>
      /\ Head(AdvLookup) = T("descriptions") /\ Tail(AdvLookup) = AdvPublish
  BY <1>1, <1>4, Cons DEF AdvLookup, Touch
<1>6. /\ AdvCheck \in Seq(Steps) /\ AdvCheck # <<>>
      /\ Head(AdvCheck) = D("check") /\ Tail(AdvCheck) = AdvLookup
  BY <1>1, <1>5, Cons DEF AdvCheck, Do
<1>7. /\ UnadvErase \in Seq(Steps) /\ UnadvErase # <<>>
      /\ Head(UnadvErase) = D("erase") /\ Tail(UnadvErase) = Leave
  BY <1>1, <1>2, Cons DEF UnadvErase, Do
<1>8. /\ MsgLeave \in Seq(Steps) /\ MsgLeave # <<>>
      /\ Head(MsgLeave) = Unlock("ads") /\ Tail(MsgLeave) = MsgPublish
  <2>1. MsgLeave = <<Unlock("ads")>> \o MsgPublish
    BY DEF MsgLeave, Leave
  <2> QED BY <1>1, <1>2, <2>1, Cons
<1>9. /\ MsgFind \in Seq(Steps) /\ MsgFind # <<>>
      /\ Head(MsgFind) = D("find") /\ Tail(MsgFind) = MsgLeave
  BY <1>1, <1>8, Cons DEF MsgFind, Do
<1>10. /\ <<Lock("ads")>> \in Seq(Steps) /\ Do("check") \in Seq(Steps)
       /\ Do("advertise") \in Seq(Steps) /\ Do("erase") \in Seq(Steps)
       /\ Do("find") \in Seq(Steps) /\ Do("publish") \in Seq(Steps)
       /\ Touch("poll") \in Seq(Steps) /\ Touch("descriptions") \in Seq(Steps)
       /\ <<Unlock("ads")>> \in Seq(Steps)
  BY <1>1 DEF Do, Touch
<1>11. OnClientAdvertise = <<Lock("ads")>> \o AdvCheck
  <2> DEFINE a == <<Lock("ads")>>
             b == Do("check")
             c == Touch("descriptions")
             d == Do("advertise")
             e == Touch("poll")
             f == <<Unlock("ads")>>
  <2>1. AdvCheck = b \o (c \o (d \o (e \o f)))
    BY Zenon DEF AdvCheck, AdvLookup, AdvPublish, AdvPoke, Leave
  <2>2. OnClientAdvertise = (a \o (((b \o c) \o d) \o e)) \o f
    BY Zenon DEF OnClientAdvertise, Under
  <2>3. a \in Seq(Steps) /\ b \in Seq(Steps) /\ c \in Seq(Steps)
        /\ d \in Seq(Steps) /\ e \in Seq(Steps) /\ f \in Seq(Steps)
    BY <1>10
  <2> HIDE DEF a, b, c, d, e, f
  <2>4. (a \o (((b \o c) \o d) \o e)) \o f = a \o ((((b \o c) \o d) \o e) \o f)
    <3>1. ASSUME NEW g \in Seq(Steps)  PROVE (a \o g) \o f = a \o (g \o f)
      BY <2>3, SMTT(30)
    <3>2. ((b \o c) \o d) \o e \in Seq(Steps)
      BY <2>3, SMTT(30)
    <3> QED BY <3>1, <3>2, Zenon
  <2>5. (((b \o c) \o d) \o e) \o f = ((b \o c) \o d) \o (e \o f)
    <3>1. ASSUME NEW g \in Seq(Steps)  PROVE (g \o e) \o f = g \o (e \o f)
      BY <2>3, SMTT(30)
    <3>2. (b \o c) \o d \in Seq(Steps)
      BY <2>3, SMTT(30)
    <3> QED BY <3>1, <3>2, Zenon
  <2>6. ((b \o c) \o d) \o (e \o f) = (b \o c) \o (d \o (e \o f))
    <3>1. ASSUME NEW g \in Seq(Steps), NEW h \in Seq(Steps)
          PROVE  (g \o d) \o h = g \o (d \o h)
      BY <2>3, SMTT(30)
    <3>2. b \o c \in Seq(Steps) /\ e \o f \in Seq(Steps)
      BY <2>3, SMTT(30)
    <3> QED BY <3>1, <3>2, Zenon
  <2>7. (b \o c) \o (d \o (e \o f)) = b \o (c \o (d \o (e \o f)))
    <3>1. ASSUME NEW g \in Seq(Steps)  PROVE (b \o c) \o g = b \o (c \o g)
      BY <2>3, SMTT(30)
    <3>2. d \o (e \o f) \in Seq(Steps)
      BY <2>3, SMTT(30)
    <3> QED BY <3>1, <3>2, Zenon
  <2> QED BY <2>1, <2>2, <2>4, <2>5, <2>6, <2>7, Zenon DEF a
<1>12. OnClientUnadvertise = <<Lock("ads")>> \o UnadvErase
  <2> DEFINE a == <<Lock("ads")>>
             b == Do("erase")
             c == <<Unlock("ads")>>
  <2>1. OnClientUnadvertise = (a \o b) \o c /\ UnadvErase = b \o c
    BY Zenon DEF OnClientUnadvertise, Under, UnadvErase, Leave
  <2>2. a \in Seq(Steps) /\ b \in Seq(Steps) /\ c \in Seq(Steps)
    BY <1>10
  <2> HIDE DEF a, b, c
  <2>3. (a \o b) \o c = a \o (b \o c)
    BY <2>2, SMTT(30)
  <2> QED BY <2>1, <2>3, Zenon DEF a
<1>13. OnClientMessage = <<Lock("ads")>> \o MsgFind
  <2> DEFINE a == <<Lock("ads")>>
             b == Do("find")
             c == <<Unlock("ads")>>
             d == Do("publish")
  <2>1. OnClientMessage = ((a \o b) \o c) \o d /\ MsgFind = b \o (c \o d)
    BY Zenon DEF OnClientMessage, Under, MsgFind, MsgLeave, MsgPublish, Leave
  <2>2. a \in Seq(Steps) /\ b \in Seq(Steps) /\ c \in Seq(Steps) /\ d \in Seq(Steps)
    BY <1>10
  <2> HIDE DEF a, b, c, d
  <2>3. ((a \o b) \o c) \o d = (a \o b) \o (c \o d)
    BY <2>2, SMTT(30)
  <2>4. (a \o b) \o (c \o d) = a \o (b \o (c \o d))
    BY <2>2, SMTT(30)
  <2> QED BY <2>1, <2>3, <2>4, Zenon DEF a
<1>14. /\ OnClientAdvertise \in Seq(Steps) /\ OnClientAdvertise # <<>>
       /\ Head(OnClientAdvertise) = Lock("ads") /\ Tail(OnClientAdvertise) = AdvCheck
  BY <1>1, <1>6, <1>11, Cons
<1>15. /\ OnClientUnadvertise \in Seq(Steps) /\ OnClientUnadvertise # <<>>
       /\ Head(OnClientUnadvertise) = Lock("ads") /\ Tail(OnClientUnadvertise) = UnadvErase
  BY <1>1, <1>7, <1>12, Cons
<1>16. /\ OnClientMessage \in Seq(Steps) /\ OnClientMessage # <<>>
       /\ Head(OnClientMessage) = Lock("ads") /\ Tail(OnClientMessage) = MsgFind
  BY <1>1, <1>9, <1>13, Cons
<1>17. /\ Lock("ads").do = "lock" /\ Unlock("ads").do = "unlock"
       /\ \A l : T(l).do = "touch"
       /\ \A what : D(what).do = what
  BY DEF Lock, Unlock
<1>18. {OnClientAdvertise, AdvCheck, AdvLookup, AdvPublish, AdvPoke, Leave,
        OnClientUnadvertise, UnadvErase, OnClientMessage, MsgFind, MsgLeave,
        MsgPublish} \subseteq Seq(Steps) \ {<<>>}
  BY <1>2, <1>3, <1>4, <1>5, <1>6, <1>7, <1>8, <1>9, <1>14, <1>15, <1>16
<1> HIDE DEF T, D
<1> QED
  BY <1>2, <1>3, <1>4, <1>5, <1>6, <1>7, <1>8, <1>9, <1>14, <1>15, <1>16, <1>17, <1>18

-----------------------------------------------------------------------------
(* Clients *)

AdvStages == {OnClientAdvertise, AdvCheck, AdvLookup, AdvPublish, AdvPoke, Leave, <<>>}
UnadvStages == {OnClientUnadvertise, UnadvErase, Leave, <<>>}
MsgStages == {OnClientMessage, MsgFind, MsgLeave, MsgPublish, Leave, <<>>}

Jobs ==
  {Idle} \cup [kind : {"advertise"}, key : Keys, type : Types]
         \cup [kind : {"unadvertise"}, key : Keys, type : {None}]
         \cup [kind : {"message"}, key : Keys, type : Types \cup {None}]

PublishTypeOK ==
  /\ job \in [Sdk -> Jobs]
  /\ ads \in [Keys -> Types \cup {None}]
  /\ copy \in [Sdk -> Types \cup {None}]
  /\ live \in Types \cup {None}
  /\ channel \in [Keys -> {"none", "refused", "open"}]

(* An SDK thread is at a stage of the request that it handles.              *)
StageInv ==
  \A th \in Sdk :
    /\ job[th].kind = "idle" => todo[th] \in Seq(LockSteps)
    /\ job[th].kind = "advertise" => todo[th] \in AdvStages
    /\ job[th].kind = "unadvertise" => todo[th] \in UnadvStages
    /\ job[th].kind = "message" => todo[th] \in MsgStages

Registers(th) == job[th].kind \in {"advertise", "unadvertise"}

(* The client has unadvertised the channel and its entry is not erased yet. *)
Erasing(th, k) ==
  job[th].kind = "unadvertise" /\ job[th].key = k /\ todo[th] \notin {Leave, <<>>}

(* One request at a time registers or unregisters a channel; between the    *)
(* check for an entry and the new one nobody adds it; the bridge has the    *)
(* channels that the SDK has open, and those whose entry is being erased.   *)
FollowInv ==
  /\ \A th, u \in Sdk :
       Registers(th) /\ Registers(u) /\ job[th].key = job[u].key => th = u
  /\ \A th \in Sdk :
       /\ job[th].kind = "advertise" /\ todo[th] \in {AdvLookup, AdvPublish}
            => ads[job[th].key] = None
       /\ job[th].kind = "unadvertise" => channel[job[th].key] = "none"
       /\ job[th].kind = "unadvertise" /\ todo[th] \in {Leave, <<>>}
            => ads[job[th].key] = None
  /\ \A k \in Keys :
       (\A th \in Sdk : ~Erasing(th, k)) => (ads[k] # None <=> channel[k] = "open")

(* Whoever has a publisher has the one publication of the topic; a handler  *)
(* that has found its entry has one, of the type it was accepted for.       *)
MessageInv ==
  /\ \A k \in Keys : ads[k] \in {None, live}
  /\ \A th \in Sdk : copy[th] \in {None, live}
  /\ \A th \in Sdk :
       job[th].kind = "message" /\ todo[th] \in {MsgLeave, MsgPublish}
         => copy[th] = job[th].type /\ copy[th] # None

ClientInv == PublishTypeOK /\ StageInv /\ FollowInv /\ MessageInv

-----------------------------------------------------------------------------
(* The steps of a thread, and the locks *)

(* A client's handler holds _clientAdvertisementsMutex from its check for   *)
(* an entry to the end of the scope.                                        *)
LEMMA StagesHoldAds ==
  /\ \A s \in {AdvCheck, AdvLookup, AdvPublish, AdvPoke, Leave, UnadvErase,
              MsgFind, MsgLeave} : Disciplined(s) /\ HeldAt(s, 1) = {"ads"}
  /\ Disciplined(MsgPublish) /\ HeldAt(MsgPublish, 1) = {}
<1>1. \A s \in {OnClientAdvertise, OnClientUnadvertise, OnClientMessage} :
        Disciplined(s) /\ HeldAt(s, 1) = {} /\ s # <<>>
        /\ Head(s).do = "lock" /\ Head(s).at = "ads"
  <2>1. Lock("ads").do = "lock" /\ Lock("ads").at = "ads"
    BY LockIsStep DEF Locks
  <2>2. \A s \in {OnClientAdvertise, OnClientUnadvertise, OnClientMessage} :
          s # <<>> /\ Head(s) = Lock("ads")
    BY Stages
  <2>3. \A s \in {OnClientAdvertise, OnClientUnadvertise, OnClientMessage} :
          Disciplined(s) /\ HeldAt(s, 1) = {}
    BY OperationsNested DEF Nested
  <2> QED BY <2>1, <2>2, <2>3
<1>2. /\ Disciplined(AdvCheck) /\ HeldAt(AdvCheck, 1) = {"ads"} /\ AdvCheck # <<>>
      /\ Disciplined(UnadvErase) /\ HeldAt(UnadvErase, 1) = {"ads"} /\ UnadvErase # <<>>
      /\ Disciplined(MsgFind) /\ HeldAt(MsgFind, 1) = {"ads"} /\ MsgFind # <<>>
  BY <1>1, HeadStep, Stages
<1>3. Disciplined(AdvLookup) /\ HeldAt(AdvLookup, 1) = {"ads"} /\ AdvLookup # <<>>
  BY <1>2, HeadStep, Stages
<1>4. Disciplined(AdvPublish) /\ HeldAt(AdvPublish, 1) = {"ads"} /\ AdvPublish # <<>>
  BY <1>3, HeadStep, Stages
<1>5. Disciplined(AdvPoke) /\ HeldAt(AdvPoke, 1) = {"ads"} /\ AdvPoke # <<>>
  BY <1>4, HeadStep, Stages
<1>6. Disciplined(Leave) /\ HeldAt(Leave, 1) = {"ads"}
  <2>1. Head(AdvPoke).do \notin {"lock", "unlock"} /\ Tail(AdvPoke) = Leave
    BY Stages
  <2> QED BY <1>5, <2>1, HeadStep
<1>7. Disciplined(MsgLeave) /\ HeldAt(MsgLeave, 1) = {"ads"} /\ MsgLeave # <<>>
  BY <1>2, HeadStep, Stages
<1>8. Disciplined(MsgPublish) /\ HeldAt(MsgPublish, 1) = {}
  <2>1. Head(MsgLeave).do = "unlock" /\ Head(MsgLeave).at = "ads"
    <3>1. Unlock("ads").do = "unlock" /\ Unlock("ads").at = "ads"
      BY DEF Unlock
    <3>2. Head(MsgLeave) = Unlock("ads")
      BY Stages, Zenon
    <3> QED BY <3>1, <3>2, Zenon
  <2>2. Tail(MsgLeave) = MsgPublish
    BY Stages
  <2> QED BY <1>7, <2>1, <2>2, HeadStep
<1> QED BY <1>2, <1>3, <1>4, <1>5, <1>6, <1>7, <1>8

LEMMA LockStepInOrder ==
  ASSUME LockInv, NEW th \in Threads, LockStep(th)
  PROVE  LockInv' /\ Order!Step(th)
<1> DEFINE l == Head(todo[th]).at
           s == Tail(todo[th])
<1>1. todo[th] # <<>> /\ Head(todo[th]).do \in {"lock", "touch", "unlock"}
  BY DEF LockStep, At
<1>2. Disciplined(s) /\ todo' = [todo EXCEPT ![th] = s]
  BY <1>1, FirstStep DEF LockStep, Next1
<1>3. owner \in [Locks -> Threads \cup {None}] /\ None \notin Threads
  BY PublishAssumption DEF LockInv
<1>4. CASE At(th, "lock") /\ owner[l] = None /\ owner' = [owner EXCEPT ![l] = th]
  <2>1. /\ Head(todo[th]).do = "lock" /\ l \in Locks /\ Awaited(th) = l
        /\ HeldAt(s, 1) = HeldLocks(th) \cup {l}
    BY <1>1, <1>4, FirstStep DEF At, Awaited
  <2>2. \A u \in Threads : l \notin HeldLocks(u)
    BY <1>3, <1>4 DEF HeldLocks
  <2>3. HeldLocks(th)' = HeldLocks(th) \cup {l}
    BY <1>3, <1>4, <2>1 DEF HeldLocks
  <2>4. \A u \in Threads \ {th} : HeldLocks(u)' = HeldLocks(u)
    BY <1>3, <1>4, <2>1 DEF HeldLocks
  <2>5. owner' \in [Locks -> Threads \cup {None}]
    BY <1>3, <1>4
  <2> HIDE DEF l, s
  <2>6. LockInv'
    BY <1>2, <2>1, <2>3, <2>4, <2>5, OneThreadMoves
  <2>7. Awaited(th) # Order!NoLock
    BY <2>1, Ranks
  <2> QED BY <1>2, <2>1, <2>2, <2>3, <2>4, <2>6, <2>7, MoveKeepsOrder
<1>5. CASE At(th, "touch") /\ owner[l] = None /\ UNCHANGED owner
  <2>1. /\ Head(todo[th]).do = "touch" /\ l \in Locks /\ Awaited(th) = l
        /\ HeldAt(s, 1) = HeldLocks(th)
    BY <1>1, <1>5, FirstStep DEF At, Awaited
  <2>2. \A u \in Threads : l \notin HeldLocks(u)
    BY <1>3, <1>5 DEF HeldLocks
  <2>3. \A u \in Threads : HeldLocks(u)' = HeldLocks(u)
    BY <1>5 DEF HeldLocks
  <2>4. owner' \in [Locks -> Threads \cup {None}]
    BY <1>3, <1>5
  <2> HIDE DEF l, s
  <2>5. LockInv'
    BY <1>2, <2>1, <2>3, <2>4, OneThreadMoves
  <2>6. Awaited(th) # Order!NoLock
    BY <2>1, Ranks
  <2> QED BY <1>2, <2>1, <2>2, <2>3, <2>5, <2>6, MoveKeepsOrder
<1>6. CASE At(th, "unlock") /\ owner' = [owner EXCEPT ![l] = None]
  <2>1. /\ Head(todo[th]).do = "unlock" /\ l \in HeldLocks(th)
        /\ Awaited(th) = Order!NoLock /\ HeldAt(s, 1) = HeldLocks(th) \ {l}
    BY <1>1, <1>6, FirstStep DEF At, Awaited, Order!NoLock
  <2>2. l \in Locks /\ owner[l] = th
    BY <2>1 DEF HeldLocks
  <2>3. HeldLocks(th)' = HeldLocks(th) \ {l}
    BY <1>3, <1>6, <2>2 DEF HeldLocks
  <2>4. \A u \in Threads \ {th} : HeldLocks(u)' = HeldLocks(u)
    BY <1>3, <1>6, <2>2 DEF HeldLocks
  <2>5. owner' \in [Locks -> Threads \cup {None}]
    BY <1>3, <1>6
  <2> HIDE DEF l, s
  <2>6. LockInv'
    BY <1>2, <2>1, <2>3, <2>4, <2>5, OneThreadMoves
  <2> QED BY <1>2, <2>1, <2>3, <2>4, <2>6, MoveKeepsOrder
<1> QED BY <1>4, <1>5, <1>6 DEF LockStep

(* A step that leaves the locks alone. *)
LEMMA QuietStep ==
  ASSUME LockInv, NEW th \in Threads, NEW s, Disciplined(s),
         HeldAt(s, 1) = HeldLocks(th), Awaited(th) = Order!NoLock,
         todo' = [todo EXCEPT ![th] = s], UNCHANGED owner
  PROVE  LockInv' /\ Order!Step(th)
<1>1. \A u \in Threads : HeldLocks(u)' = HeldLocks(u)
  BY DEF HeldLocks
<1>2. owner' \in [Locks -> Threads \cup {None}]
  BY DEF LockInv
<1>3. LockInv'
  BY <1>1, <1>2, OneThreadMoves
<1> QED BY <1>1, <1>3, MoveKeepsOrder

LEMMA BeginInOrder ==
  ASSUME LockInv, NEW th \in Threads, NEW operation, Nested(operation, 0),
         Begin(th, operation)
  PROVE  LockInv' /\ Order!Step(th)
<1>1. HeldAt(<<>>, 1) = {}
  <2>1. <<>> \in Seq(Steps) /\ Len(<<>>) + 1 = 1
    OBVIOUS
  <2> QED BY <2>1, HeldAtEnd
<1>2. HeldLocks(th) = {} /\ Awaited(th) = Order!NoLock
  BY <1>1 DEF LockInv, Begin, Awaited, At, Order!NoLock
<1> QED BY <1>2, QuietStep DEF Begin, Nested

(* A handler's own step, or the exception it throws instead. *)
LEMMA HandlerInOrder ==
  ASSUME LockInv, NEW th \in Threads, todo[th] # <<>>,
         Head(todo[th]).do \notin {"lock", "touch", "unlock"},
         \/ Next1(th) /\ UNCHANGED owner
         \/ Throw(th) /\ HeldAt(todo[th], 1) = {"ads"}
  PROVE  LockInv' /\ Order!Step(th)
<1>1. Awaited(th) = Order!NoLock
  BY DEF Awaited, At, Order!NoLock
<1>2. CASE Next1(th) /\ UNCHANGED owner
  <2>1. Disciplined(Tail(todo[th])) /\ HeldAt(Tail(todo[th]), 1) = HeldLocks(th)
    BY FirstStep
  <2>2. todo' = [todo EXCEPT ![th] = Tail(todo[th])]
    BY <1>2 DEF Next1
  <2> QED BY <1>1, <1>2, <2>1, <2>2, QuietStep
<1>3. CASE Throw(th) /\ HeldAt(todo[th], 1) = {"ads"}
  <2>1. todo' = [todo EXCEPT ![th] = Leave] /\ UNCHANGED owner
    BY <1>3 DEF Throw, Leave
  <2>2. HeldAt(Leave, 1) = HeldLocks(th) /\ Disciplined(Leave)
    BY <1>3, StagesHoldAds DEF LockInv
  <2> QED BY <1>1, <2>1, <2>2, QuietStep
<1> QED BY <1>2, <1>3

-----------------------------------------------------------------------------
(* The stages of a request *)

LEMMA StagesClosed ==
  /\ \A s \in AdvStages \ {<<>>} : Tail(s) \in AdvStages
  /\ \A s \in UnadvStages \ {<<>>} : Tail(s) \in UnadvStages
  /\ \A s \in MsgStages \ {<<>>} : Tail(s) \in MsgStages
  BY Stages DEF AdvStages, UnadvStages, MsgStages

(* The stages are told apart by their first steps. *)
LEMMA StageHeads ==
  /\ Head(OnClientAdvertise).do = "lock" /\ Head(AdvCheck).do = "check"
  /\ Head(AdvLookup).do = "touch" /\ Head(AdvPublish).do = "advertise"
  /\ Head(AdvPoke).do = "touch" /\ Head(Leave).do = "unlock"
  /\ Head(OnClientUnadvertise).do = "lock" /\ Head(UnadvErase).do = "erase"
  /\ Head(OnClientMessage).do = "lock" /\ Head(MsgFind).do = "find"
  /\ Head(MsgLeave).do = "unlock" /\ Head(MsgPublish).do = "publish"
<1>1. Lock("ads").do = "lock" /\ Unlock("ads").do = "unlock"
  BY LockIsStep DEF Locks
<1> QED BY <1>1, Stages

(* Waiting for a lock or releasing one leaves a request where it is. *)
LEMMA StageMoves ==
  ASSUME NEW s, s # <<>>, Head(s).do \in {"lock", "touch", "unlock"}
  PROVE  /\ s \in AdvStages /\ Tail(s) \in {AdvLookup, AdvPublish}
              => s \in {AdvLookup, AdvPublish}
         /\ s \in UnadvStages => (Tail(s) \in {Leave, <<>>} <=> s \in {Leave, <<>>})
         /\ s \in MsgStages /\ Tail(s) \in {MsgLeave, MsgPublish}
              => s \in {MsgLeave, MsgPublish}
<1>1. \A t \in {OnClientAdvertise, AdvCheck, AdvLookup, AdvPublish, AdvPoke, Leave,
                OnClientUnadvertise, UnadvErase, OnClientMessage, MsgFind, MsgLeave,
                MsgPublish} : t # <<>>
  BY Stages
<1>2. ASSUME s \in AdvStages, Tail(s) \in {AdvLookup, AdvPublish}
      PROVE  s \in {AdvLookup, AdvPublish}
  <2>1. s = OnClientAdvertise \/ s = AdvLookup \/ s = AdvPoke \/ s = Leave
    BY <1>2, StageHeads DEF AdvStages
  <2>2. Tail(OnClientAdvertise) = AdvCheck /\ Tail(AdvPoke) = Leave /\ Tail(Leave) = <<>>
    BY Stages
  <2> QED BY <1>1, <1>2, <2>1, <2>2, StageHeads
<1>3. ASSUME s \in UnadvStages
      PROVE  Tail(s) \in {Leave, <<>>} <=> s \in {Leave, <<>>}
  <2>1. s = OnClientUnadvertise \/ s = Leave
    BY <1>3, StageHeads DEF UnadvStages
  <2>2. Tail(OnClientUnadvertise) = UnadvErase /\ Tail(Leave) = <<>>
    BY Stages
  <2>3. UnadvErase # Leave /\ OnClientUnadvertise # Leave
    BY StageHeads
  <2> QED BY <1>1, <2>1, <2>2, <2>3
<1>4. ASSUME s \in MsgStages, Tail(s) \in {MsgLeave, MsgPublish}
      PROVE  s \in {MsgLeave, MsgPublish}
  <2>1. s = OnClientMessage \/ s = MsgLeave \/ s = Leave
    BY <1>4, StageHeads DEF MsgStages
  <2>2. Tail(OnClientMessage) = MsgFind /\ Tail(Leave) = <<>>
    BY Stages
  <2> QED BY <1>1, <1>4, <2>1, <2>2, StageHeads
<1> QED BY <1>2, <1>3, <1>4

(* Which stage a handler's own step belongs to. *)
LEMMA HandlerStage ==
  ASSUME PublishTypeOK, StageInv, NEW th \in Sdk
  PROVE  /\ At(th, "check") => job[th].kind = "advertise" /\ todo[th] = AdvCheck
         /\ At(th, "advertise") => job[th].kind = "advertise" /\ todo[th] = AdvPublish
         /\ At(th, "erase") => job[th].kind = "unadvertise" /\ todo[th] = UnadvErase
         /\ At(th, "find") => job[th].kind = "message" /\ todo[th] = MsgFind
         /\ At(th, "publish") => job[th].kind = "message" /\ todo[th] = MsgPublish
<1>1. job[th].kind \in {"idle", "advertise", "unadvertise", "message"}
  BY DEF PublishTypeOK, Jobs, Idle
<1> DEFINE step == Head(todo[th]).do
<1>2. CASE job[th].kind = "idle"
  <2>1. todo[th] # <<>> => Head(todo[th]) \in LockSteps
    BY <1>2, HeadTailProperties DEF StageInv
  <2>2. todo[th] # <<>> => step \in {"lock", "unlock", "touch"}
    BY <2>1 DEF LockSteps
  <2> QED BY <2>2 DEF At
<1>3. CASE job[th].kind = "advertise"
  <2>1. todo[th] \in AdvStages
    BY <1>3 DEF StageInv
  <2> QED BY <1>3, <2>1, StageHeads DEF At, AdvStages
<1>4. CASE job[th].kind = "unadvertise"
  <2>1. todo[th] \in UnadvStages
    BY <1>4 DEF StageInv
  <2> QED BY <1>4, <2>1, StageHeads DEF At, UnadvStages
<1>5. CASE job[th].kind = "message"
  <2>1. todo[th] \in MsgStages
    BY <1>5 DEF StageInv
  <2> QED BY <1>5, <2>1, StageHeads DEF At, MsgStages
<1> QED BY <1>1, <1>2, <1>3, <1>4, <1>5

(* The operations for a subscription touch locks only. *)
LEMMA SubscribeIsLockSteps ==
  {OnSubscribe, OnUnsubscribe, Under("gateway", OnSubscribe),
   Under("gateway", OnUnsubscribe)} \subseteq Seq(LockSteps)
<1>1. \A l \in Locks : Touch(l) \in Seq(LockSteps)
  BY DEF Touch, LockSteps
<1>2. ASSUME NEW l \in Locks, NEW body \in Seq(LockSteps)
      PROVE  Under(l, body) \in Seq(LockSteps)
  <2>1. <<Lock(l)>> \in Seq(LockSteps) /\ <<Unlock(l)>> \in Seq(LockSteps)
    BY LockIsStep
  <2>2. <<Lock(l)>> \o body \in Seq(LockSteps)
    BY <2>1, ConcatProperties
  <2> QED BY <2>1, <2>2, ConcatProperties DEF Under
<1>3. {"gateway", "subscriptions", "registry", "session", "latched", "callbacks"}
        \subseteq Locks
  BY DEF Locks
<1>4. Log \in Seq(LockSteps)
  BY <1>1, <1>2, <1>3 DEF Log
<1>5. OnSubscribe \in Seq(LockSteps)
  BY <1>2, <1>3, <1>4 DEF OnSubscribe
<1>6. OnUnsubscribe \in Seq(LockSteps)
  <2>1. /\ Under("subscriptions", Touch("latched")) \in Seq(LockSteps)
        /\ Touch("callbacks") \in Seq(LockSteps)
    BY <1>1, <1>2, <1>3
  <2> QED BY <2>1, ConcatProperties DEF OnUnsubscribe
<1> QED BY <1>2, <1>3, <1>5, <1>6

-----------------------------------------------------------------------------
(* What the actions do to the thread that takes them *)

Moves(th, s) == todo' = [todo EXCEPT ![th] = s]

LEMMA OtherThreads ==
  ASSUME LockInv, NEW th \in Threads, NEW s, Moves(th, s)
  PROVE  /\ todo'[th] = s
         /\ \A u \in Threads \ {th} : todo'[u] = todo[u]
         /\ Sdk \subseteq Threads
  BY DEF LockInv, Moves, Threads

LEMMA HandlerMoves ==
  ASSUME PublishTypeOK, StageInv, NEW th \in Sdk
  PROVE  /\ Check(th) =>
              /\ job[th].kind = "advertise" /\ todo[th] = AdvCheck
              /\ \/ ads[job[th].key] # None /\ Moves(th, Leave)
                 \/ ads[job[th].key] = None /\ Moves(th, AdvLookup)
         /\ AdvertiseFails(th) =>
              job[th].kind = "advertise" /\ todo[th] = AdvPublish /\ Moves(th, Leave)
         /\ Advertise(th) =>
              job[th].kind = "advertise" /\ todo[th] = AdvPublish /\ Moves(th, AdvPoke)
         /\ Erase(th) =>
              job[th].kind = "unadvertise" /\ todo[th] = UnadvErase /\ Moves(th, Leave)
         /\ Find(th) =>
              /\ job[th].kind = "message" /\ todo[th] = MsgFind
              /\ \/ ads[job[th].key] = None /\ Moves(th, Leave) /\ UNCHANGED <<job, copy>>
                 \/ /\ ads[job[th].key] # None /\ Moves(th, MsgLeave)
                    /\ copy' = [copy EXCEPT ![th] = ads[job[th].key]]
                    /\ job' = [job EXCEPT ![th].type = ads[job[th].key]]
         /\ Publish(th) =>
              job[th].kind = "message" /\ todo[th] = MsgPublish /\ Moves(th, <<>>)
<1>1. Throw(th) => Moves(th, Leave)
  BY DEF Throw, Moves, Leave
<1>2. \A s : Next1(th) /\ Tail(todo[th]) = s => Moves(th, s)
  BY DEF Next1, Moves
<1>3. Check(th) => /\ job[th].kind = "advertise" /\ todo[th] = AdvCheck
                   /\ \/ ads[job[th].key] # None /\ Moves(th, Leave)
                      \/ ads[job[th].key] = None /\ Moves(th, AdvLookup)
  BY <1>1, <1>2, HandlerStage, Stages DEF Check, Entry
<1>4. AdvertiseFails(th) =>
        job[th].kind = "advertise" /\ todo[th] = AdvPublish /\ Moves(th, Leave)
  BY <1>1, HandlerStage DEF AdvertiseFails
<1>5. Advertise(th) =>
        job[th].kind = "advertise" /\ todo[th] = AdvPublish /\ Moves(th, AdvPoke)
  BY <1>2, HandlerStage, Stages DEF Advertise
<1>6. Erase(th) =>
        job[th].kind = "unadvertise" /\ todo[th] = UnadvErase /\ Moves(th, Leave)
  BY <1>1, <1>2, HandlerStage, Stages DEF Erase
<1>7. Find(th) =>
        /\ job[th].kind = "message" /\ todo[th] = MsgFind
        /\ \/ ads[job[th].key] = None /\ Moves(th, Leave) /\ UNCHANGED <<job, copy>>
           \/ /\ ads[job[th].key] # None /\ Moves(th, MsgLeave)
              /\ copy' = [copy EXCEPT ![th] = ads[job[th].key]]
              /\ job' = [job EXCEPT ![th].type = ads[job[th].key]]
  BY <1>1, <1>2, HandlerStage, Stages, ZenonT(30) DEF Find, Entry, Copied
<1>8. Publish(th) => job[th].kind = "message" /\ todo[th] = MsgPublish /\ Moves(th, <<>>)
  BY <1>2, HandlerStage, Stages DEF Publish
<1> QED BY <1>3, <1>4, <1>5, <1>6, <1>7, <1>8

(* Waiting for a lock or releasing one, and what background threads do.     *)
LEMMA LockMoves ==
  ASSUME NEW th, LockStep(th)
  PROVE  /\ todo[th] # <<>> /\ Head(todo[th]).do \in {"lock", "touch", "unlock"}
         /\ Moves(th, Tail(todo[th])) /\ UNCHANGED clientVars
  BY DEF LockStep, At, Moves, Next1

LEMMA BackgroundMoves ==
  ASSUME LockInv, NEW th \in Threads, Background(th)
  PROVE  UNCHANGED clientVars /\ \A u \in Sdk : todo'[u] = todo[u]
<1>1. th \notin Sdk /\ Sdk \subseteq Threads
  BY PublishAssumption DEF Background, Threads
<1>2. \E s : Moves(th, s)
  BY DEF Background, Begin, Moves
<1> QED BY <1>1, <1>2, OtherThreads DEF Background

-----------------------------------------------------------------------------
(* All actions keep the lock order *)

(* Every step of the system is one of the abstract lock order, or none.     *)
LEMMA NextInOrder ==
  ASSUME LockInv, PublishTypeOK, StageInv, [Next]_vars
  PROVE  LockInv' /\ [\E th \in Threads : Order!Step(th)]_(Order!lockVars)
<1> DEFINE Ordered(th) == LockInv' /\ Order!Step(th)
<1>1. ASSUME UNCHANGED lockState
      PROVE  LockInv' /\ UNCHANGED Order!lockVars
  BY <1>1 DEF lockState, LockInv, HeldLocks, Order!lockVars, Awaited, At
<1>2. ASSUME NEW th \in Sdk, Clients(th)  PROVE th \in Threads /\ Ordered(th)
  <2>1. \E operation \in {OnClientAdvertise, OnClientUnadvertise, OnClientMessage,
            OnSubscribe, OnUnsubscribe, Under("gateway", OnSubscribe),
            Under("gateway", OnUnsubscribe)} : Begin(th, operation)
    BY <1>2 DEF Clients, ClientAdvertises, ClientUnadvertises, ClientSends,
                ClientSubscribes, Request
  <2> QED BY <2>1, BeginInOrder, OperationsNested DEF Threads
<1>3. ASSUME NEW th \in Threads, Background(th)  PROVE Ordered(th)
  <2>1. \E operation \in {UpdateAdvertisedTopics, SweepExpiredServiceCalls,
                           RosMessageHandler, SessionAdvertises} :
          Begin(th, operation)
    BY <1>3 DEF Background
  <2> QED BY <2>1, BeginInOrder, OperationsNested
<1>4. ASSUME NEW th \in Sdk, Handler(th)
      PROVE  th \in Threads /\ (Ordered(th) \/ UNCHANGED lockState)
  <2>1. CASE Return(th)
    BY <2>1 DEF Return, lockState, Threads
  <2>2. CASE Check(th) \/ AdvertiseFails(th) \/ Advertise(th) \/ Erase(th)
               \/ Find(th) \/ Publish(th)
    <3>1. todo[th] # <<>> /\ Head(todo[th]).do \notin {"lock", "touch", "unlock"}
      BY <2>2 DEF Check, AdvertiseFails, Advertise, Erase, Find, Publish, At
    <3>2. \/ Next1(th) /\ UNCHANGED owner
          \/ Throw(th) /\ (Check(th) \/ AdvertiseFails(th) \/ Erase(th) \/ Find(th))
      BY <2>2 DEF Check, AdvertiseFails, Advertise, Erase, Find, Publish
    <3>3. Check(th) \/ AdvertiseFails(th) \/ Erase(th) \/ Find(th)
            => todo[th] \in {AdvCheck, AdvPublish, UnadvErase, MsgFind}
      BY HandlerMoves
    <3>4. Check(th) \/ AdvertiseFails(th) \/ Erase(th) \/ Find(th)
            => HeldAt(todo[th], 1) = {"ads"}
      BY <3>3, StagesHoldAds
    <3> QED BY <3>1, <3>2, <3>4, HandlerInOrder DEF Threads
  <2> QED BY <1>4, <2>1, <2>2 DEF Handler
<1>5. ASSUME NEW th \in Threads, LockStep(th)  PROVE Ordered(th)
  BY <1>5, LockStepInOrder
<1>6. CASE UNCHANGED vars
  BY <1>1, <1>6 DEF vars
<1>7. CASE Next
  <2>1. PICK th \in Threads : ThreadStep(th)
    BY <1>7 DEF Next
  <2>2. Ordered(th) \/ UNCHANGED lockState
    BY <1>2, <1>3, <1>4, <1>5, <2>1 DEF ThreadStep
  <2> QED BY <1>1, <2>2
<1> QED BY <1>6, <1>7

-----------------------------------------------------------------------------
(* Types and stages are kept *)

LEMMA TypeStep ==
  ASSUME PublishTypeOK, StageInv, [Next]_vars
  PROVE  PublishTypeOK'
<1> USE DEF PublishTypeOK
<1>1. CASE UNCHANGED clientVars
  BY <1>1 DEF clientVars
<1>2. ASSUME NEW th \in Sdk, NEW k \in Keys, NEW ty \in Types, ClientAdvertises(th, k, ty)
      PROVE  PublishTypeOK'
  BY <1>2 DEF ClientAdvertises, Request, Jobs
<1>3. ASSUME NEW th \in Sdk, NEW k \in Keys, ClientUnadvertises(th, k)
      PROVE  PublishTypeOK'
  BY <1>3 DEF ClientUnadvertises, Request, Jobs
<1>4. ASSUME NEW th \in Sdk, NEW k \in Keys, ClientSends(th, k)
      PROVE  PublishTypeOK'
  BY <1>4 DEF ClientSends, Request, Jobs
<1>5. ASSUME NEW th \in Sdk, AdvertiseFails(th) \/ Advertise(th)
      PROVE  PublishTypeOK'
  <2>1. job[th].key \in Keys /\ job[th].type \in Types
    BY <1>5, HandlerMoves DEF Jobs, Idle
  <2> QED BY <1>5, <2>1 DEF AdvertiseFails, Advertise, Entry
<1>6. ASSUME NEW th \in Sdk, Erase(th)
      PROVE  PublishTypeOK'
  BY <1>6 DEF Erase, Entry, ReleaseLive
<1>7. ASSUME NEW th \in Sdk, Find(th)
      PROVE  PublishTypeOK'
  <2>1. /\ job[th] \in [kind : {"message"}, key : Keys, type : Types \cup {None}]
        /\ ads[job[th].key] \in Types \cup {None}
        /\ UNCHANGED <<ads, live, channel>>
    BY <1>7, HandlerMoves DEF Jobs, Idle, Find
  <2>2. CASE UNCHANGED <<job, copy>>
    BY <2>1, <2>2
  <2>3. CASE /\ copy' = [copy EXCEPT ![th] = ads[job[th].key]]
             /\ job' = [job EXCEPT ![th].type = ads[job[th].key]]
    BY <2>1, <2>3 DEF Jobs
  <2> QED BY <1>7, <2>2, <2>3, HandlerMoves
<1>8. ASSUME NEW th \in Sdk, Publish(th)
      PROVE  PublishTypeOK'
  BY <1>8 DEF Publish, ReleaseLive
<1>9. ASSUME NEW th \in Sdk, Return(th)
      PROVE  PublishTypeOK'
  BY <1>9 DEF Return, Jobs
<1>10. ASSUME NEW th \in Sdk, Clients(th)  PROVE PublishTypeOK'
  BY <1>1, <1>2, <1>3, <1>4, <1>10 DEF Clients, ClientSubscribes
<1>11. ASSUME NEW th \in Sdk, Handler(th)  PROVE PublishTypeOK'
  <2>1. Check(th) => UNCHANGED clientVars
    BY DEF Check
  <2> QED BY <1>1, <1>5, <1>6, <1>7, <1>8, <1>9, <1>11, <2>1 DEF Handler
<1>12. ASSUME NEW th \in Threads, LockStep(th) \/ Background(th)  PROVE PublishTypeOK'
  BY <1>1, <1>12 DEF LockStep, Background
<1>13. CASE UNCHANGED vars
  BY <1>1, <1>13 DEF vars
<1> QED BY <1>10, <1>11, <1>12, <1>13 DEF Next, ThreadStep

(* A thread's new stage belongs to its request. *)
StageOf(th) ==
  /\ job[th].kind = "idle" => todo[th] \in Seq(LockSteps)
  /\ job[th].kind = "advertise" => todo[th] \in AdvStages
  /\ job[th].kind = "unadvertise" => todo[th] \in UnadvStages
  /\ job[th].kind = "message" => todo[th] \in MsgStages

LEMMA OneStage ==
  ASSUME LockInv, PublishTypeOK, StageInv, NEW th \in Sdk, NEW s, Moves(th, s),
         \A u \in Sdk \ {th} : job'[u] = job[u],
         StageOf(th)'
  PROVE  StageInv'
<1>1. ASSUME NEW u \in Sdk \ {th}  PROVE StageOf(u)'
  <2>1. todo'[u] = todo[u] /\ job'[u] = job[u] /\ StageOf(u)
    BY OtherThreads DEF Threads, StageInv, StageOf
  <2> QED BY <2>1 DEF StageOf
<1> QED BY <1>1 DEF StageInv, StageOf

LEMMA StageStep ==
  ASSUME LockInv, PublishTypeOK, StageInv, [Next]_vars
  PROVE  StageInv'
<1>1. \A th \in Sdk : th \in Threads
  BY DEF Threads
<1>2. ASSUME NEW th \in Sdk, NEW s, NEW jb, Moves(th, s), job' = [job EXCEPT ![th] = jb],
             \/ jb.kind = "advertise" /\ s \in AdvStages
             \/ jb.kind = "unadvertise" /\ s \in UnadvStages
             \/ jb.kind = "message" /\ s \in MsgStages
             \/ jb.kind = "idle" /\ s \in Seq(LockSteps)
      PROVE  StageInv'
  <2>1. todo'[th] = s /\ job'[th] = jb /\ \A u \in Sdk \ {th} : job'[u] = job[u]
    BY <1>1, <1>2, OtherThreads DEF PublishTypeOK
  <2>2. StageOf(th)'
    BY <1>2, <2>1 DEF StageOf
  <2> QED BY <1>2, <2>1, <2>2, OneStage
<1>3. ASSUME NEW th \in Sdk, Clients(th)  PROVE StageInv'
  <2>1. CASE \E k \in Keys, ty \in Types : ClientAdvertises(th, k, ty)
    <3>1. \E jb : /\ Moves(th, OnClientAdvertise) /\ job' = [job EXCEPT ![th] = jb]
                  /\ jb.kind = "advertise" /\ OnClientAdvertise \in AdvStages
      BY <2>1 DEF ClientAdvertises, Request, Begin, Moves, AdvStages
    <3> QED BY <1>2, <3>1
  <2>2. CASE \E k \in Keys : ClientUnadvertises(th, k)
    <3>1. \E jb : /\ Moves(th, OnClientUnadvertise) /\ job' = [job EXCEPT ![th] = jb]
                  /\ jb.kind = "unadvertise" /\ OnClientUnadvertise \in UnadvStages
      BY <2>2 DEF ClientUnadvertises, Request, Begin, Moves, UnadvStages
    <3> QED BY <1>2, <3>1
  <2>3. CASE \E k \in Keys : ClientSends(th, k)
    <3>1. \E jb : /\ Moves(th, OnClientMessage) /\ job' = [job EXCEPT ![th] = jb]
                  /\ jb.kind = "message" /\ OnClientMessage \in MsgStages
      BY <2>3 DEF ClientSends, Request, Begin, Moves, MsgStages
    <3> QED BY <1>2, <3>1
  <2>4. CASE job[th] = Idle /\ ClientSubscribes(th)
    <3>1. \E s \in Seq(LockSteps) : Moves(th, s)
      BY <2>4, SubscribeIsLockSteps DEF ClientSubscribes, Begin, Moves
    <3>2. job' = [job EXCEPT ![th] = Idle] /\ Idle.kind = "idle"
      BY <2>4 DEF ClientSubscribes, clientVars, PublishTypeOK, Idle
    <3> QED BY <1>2, <3>1, <3>2
  <2> QED BY <1>3, <2>1, <2>2, <2>3, <2>4 DEF Clients
<1>4. ASSUME NEW th \in Sdk, Check(th) \/ AdvertiseFails(th) \/ Advertise(th)
      PROVE  StageInv'
  <2>1. \E s \in AdvStages : Moves(th, s) /\ job[th].kind = "advertise"
    BY <1>4, HandlerMoves DEF AdvStages
  <2>2. job' = [job EXCEPT ![th] = job[th]]
    BY <1>4 DEF Check, AdvertiseFails, Advertise, clientVars, PublishTypeOK
  <2> QED BY <1>2, <2>1, <2>2
<1>5. ASSUME NEW th \in Sdk, Erase(th)  PROVE StageInv'
  <2>1. \E s \in UnadvStages : Moves(th, s) /\ job[th].kind = "unadvertise"
    BY <1>5, HandlerMoves DEF UnadvStages
  <2>2. job' = [job EXCEPT ![th] = job[th]]
    BY <1>5 DEF Erase, PublishTypeOK
  <2> QED BY <1>2, <2>1, <2>2
<1>6. ASSUME NEW th \in Sdk, Find(th) \/ Publish(th)  PROVE StageInv'
  <2>1. \E s \in MsgStages : Moves(th, s) /\ job[th].kind = "message"
    BY <1>6, HandlerMoves DEF MsgStages
  <2>2. \/ job' = [job EXCEPT ![th] = job[th]]
        \/ job' = [job EXCEPT ![th].type = ads[job[th].key]]
    BY <1>6, HandlerMoves DEF Publish, PublishTypeOK
  <2>3. \E jb : job' = [job EXCEPT ![th] = jb] /\ jb.kind = "message"
    <3>1. job[th].kind = "message" /\ job[th] \in Jobs
      BY <2>1 DEF PublishTypeOK
    <3>2. [job[th] EXCEPT !.type = ads[job[th].key]].kind = "message"
      BY <3>1 DEF Jobs, Idle
    <3> QED BY <2>2, <3>1, <3>2
  <2> QED BY <1>2, <2>1, <2>3
<1>7. ASSUME NEW th \in Sdk, Return(th)  PROVE StageInv'
  <2>1. todo[th] = <<>> /\ todo' = todo /\ job' = [job EXCEPT ![th] = Idle]
    BY <1>7 DEF Return, lockState
  <2>2. Moves(th, <<>>)
    BY <2>1 DEF Moves, LockInv
  <2>3. Idle.kind = "idle" /\ <<>> \in Seq(LockSteps)
    BY DEF Idle
  <2> QED BY <1>2, <2>1, <2>2, <2>3
<1>8. ASSUME NEW th \in Sdk, LockStep(th)  PROVE StageInv'
  <2>1. /\ todo[th] # <<>> /\ Moves(th, Tail(todo[th]))
        /\ job' = [job EXCEPT ![th] = job[th]]
    BY <1>8, LockMoves DEF clientVars, PublishTypeOK
  <2>2. job[th].kind \in {"idle", "advertise", "unadvertise", "message"}
    BY DEF PublishTypeOK, Jobs, Idle
  <2>3. /\ job[th].kind = "advertise" => Tail(todo[th]) \in AdvStages
        /\ job[th].kind = "unadvertise" => Tail(todo[th]) \in UnadvStages
        /\ job[th].kind = "message" => Tail(todo[th]) \in MsgStages
    BY <2>1, StagesClosed DEF StageInv
  <2>4. job[th].kind = "idle" => Tail(todo[th]) \in Seq(LockSteps)
    BY <2>1, HeadTailProperties DEF StageInv
  <2> QED BY <1>2, <2>1, <2>2, <2>3, <2>4
<1>9. ASSUME UNCHANGED job, \A u \in Sdk : todo'[u] = todo[u]  PROVE StageInv'
  BY <1>9 DEF StageInv
<1>10. ASSUME NEW th \in Threads \ Sdk, LockStep(th)  PROVE StageInv'
  <2>1. Moves(th, Tail(todo[th])) /\ UNCHANGED job
    BY <1>10, LockMoves DEF clientVars
  <2> QED BY <1>1, <1>9, <2>1, OtherThreads
<1>11. ASSUME NEW th \in Threads, Background(th)  PROVE StageInv'
  BY <1>9, <1>11, BackgroundMoves DEF clientVars
<1>12. CASE UNCHANGED vars
  BY <1>9, <1>12 DEF vars, lockState, clientVars
<1>13. CASE Next
  BY <1>3, <1>4, <1>5, <1>6, <1>7, <1>8, <1>10, <1>11, <1>13
     DEF Next, ThreadStep, Handler
<1> QED BY <1>12, <1>13

-----------------------------------------------------------------------------
(* The entries follow the SDK's channels *)

(* The three parts of FollowInv. *)
OneRegistrar ==
  \A th, u \in Sdk :
    Registers(th) /\ Registers(u) /\ job[th].key = job[u].key => th = u

PendingOf(th) ==
  /\ job[th].kind = "advertise" /\ todo[th] \in {AdvLookup, AdvPublish}
       => ads[job[th].key] = None
  /\ job[th].kind = "unadvertise" => channel[job[th].key] = "none"
  /\ job[th].kind = "unadvertise" /\ todo[th] \in {Leave, <<>>}
       => ads[job[th].key] = None

Follows(k) ==
  (\A th \in Sdk : ~Erasing(th, k)) => (ads[k] # None <=> channel[k] = "open")

LEMMA FollowParts ==
  FollowInv <=> /\ OneRegistrar
                /\ \A th \in Sdk : PendingOf(th)
                /\ \A k \in Keys : Follows(k)
  BY DEF FollowInv, OneRegistrar, PendingOf, Follows

(* A step that changes no entry, no channel and no request. *)
LEMMA FollowStage ==
  ASSUME LockInv, FollowInv, NEW th \in Sdk, NEW s, Moves(th, s),
         UNCHANGED <<job, ads, channel>>,
         /\ job[th].kind = "advertise" /\ s \in {AdvLookup, AdvPublish}
              => todo[th] \in {AdvLookup, AdvPublish} \/ ads[job[th].key] = None
         /\ job[th].kind = "unadvertise" =>
              (s \in {Leave, <<>>} <=> todo[th] \in {Leave, <<>>})
  PROVE  FollowInv'
<1>1. todo'[th] = s /\ \A u \in Sdk \ {th} : todo'[u] = todo[u]
  BY OtherThreads DEF Threads
<1>2. OneRegistrar'
  BY FollowParts DEF OneRegistrar, Registers
<1>3. \A u \in Sdk : PendingOf(u)'
  BY <1>1, FollowParts DEF PendingOf
<1>4. \A u \in Sdk, k \in Keys : Erasing(u, k)' <=> Erasing(u, k)
  BY <1>1 DEF Erasing
<1>5. \A k \in Keys : Follows(k)'
  BY <1>4, FollowParts DEF Follows
<1> QED BY <1>2, <1>3, <1>5 DEF FollowInv, OneRegistrar, PendingOf, Follows

LEMMA FollowFrame ==
  ASSUME FollowInv, UNCHANGED <<job, ads, channel>>, \A u \in Sdk : todo'[u] = todo[u]
  PROVE  FollowInv'
  BY DEF FollowInv, Registers, Erasing

(* A client's request begins: no other request registers its channel.       *)
LEMMA FollowRequest ==
  ASSUME LockInv, PublishTypeOK, FollowInv, NEW th \in Sdk, NEW s, NEW jb,
         todo[th] = <<>>, Moves(th, s), job' = [job EXCEPT ![th] = jb],
         UNCHANGED ads,
         jb.kind \in {"idle", "message"} \/ s \notin {AdvLookup, AdvPublish, Leave, <<>>},
         \/ /\ jb.kind \in {"idle", "message"} /\ UNCHANGED channel
         \/ /\ jb.kind = "advertise" /\ UNCHANGED channel
            /\ ~Busy(jb.key, {"advertise", "unadvertise"})
         \/ /\ jb.kind = "unadvertise" /\ jb.key \in Keys
            /\ channel' = [channel EXCEPT ![jb.key] = "none"]
            /\ ~Busy(jb.key, {"advertise", "unadvertise"})
  PROVE  FollowInv'
<1>1. /\ todo'[th] = s /\ job'[th] = jb
      /\ \A u \in Sdk \ {th} : todo'[u] = todo[u] /\ job'[u] = job[u]
  BY OtherThreads DEF Threads, PublishTypeOK
<1>2. OneRegistrar'
  BY <1>1, FollowParts DEF OneRegistrar, Registers, Busy
<1>3. PendingOf(th)'
  BY <1>1 DEF PendingOf, PublishTypeOK
<1>4. ASSUME NEW u \in Sdk \ {th}  PROVE PendingOf(u)'
  <2>1. PendingOf(u)
    BY FollowParts
  <2>2. job[u].kind = "unadvertise" => channel'[job[u].key] = "none"
    <3>1. job[u].kind = "unadvertise" => channel[job[u].key] = "none"
      BY <2>1 DEF PendingOf
    <3>2. job[u].kind = "unadvertise" => job[u].key \in Keys
      BY DEF PublishTypeOK, Jobs, Idle
    <3> QED BY <3>1, <3>2 DEF PublishTypeOK
  <2> QED BY <1>1, <2>1, <2>2 DEF PendingOf
<1>5. ASSUME NEW k \in Keys  PROVE Follows(k)'
  <2>1. \A u \in Sdk \ {th} : Erasing(u, k)' <=> Erasing(u, k)
    BY <1>1 DEF Erasing
  <2>2. ~Erasing(th, k)
    BY DEF Erasing
  <2>3. Follows(k)
    BY FollowParts
  <2>4. CASE jb.kind = "unadvertise" /\ jb.key = k
    <3>1. Erasing(th, k)'
      BY <1>1, <2>4 DEF Erasing
    <3> QED BY <3>1 DEF Follows
  <2>5. CASE ~(jb.kind = "unadvertise" /\ jb.key = k)
    <3>1. channel'[k] = channel[k]
      BY <2>5 DEF PublishTypeOK
    <3>2. ~Erasing(th, k)'
      BY <1>1, <2>5 DEF Erasing
    <3> QED BY <2>1, <2>2, <2>3, <3>1, <3>2 DEF Follows
  <2> QED BY <2>4, <2>5
<1> QED BY <1>2, <1>3, <1>4, <1>5 DEF FollowInv, OneRegistrar, PendingOf, Follows

(* An entry is made, refused or erased by the one request that may.         *)
LEMMA FollowEntry ==
  ASSUME LockInv, PublishTypeOK, FollowInv, NEW th \in Sdk, NEW s, Moves(th, s),
         Registers(th), UNCHANGED job,
         NEW k \in Keys, k = job[th].key,
         NEW e \in Types \cup {None}, ads' = [ads EXCEPT ![k] = e],
         \/ /\ job[th].kind = "advertise" /\ s \notin {AdvLookup, AdvPublish}
            /\ channel' = [channel EXCEPT ![k] = IF e # None THEN "open" ELSE "refused"]
         \/ /\ job[th].kind = "unadvertise" /\ e = None
            /\ s \in {Leave, <<>>} /\ UNCHANGED channel
  PROVE  FollowInv'
<1>1. /\ todo'[th] = s /\ job'[th] = job[th] /\ ads'[k] = e
      /\ \A u \in Sdk \ {th} : todo'[u] = todo[u] /\ job'[u] = job[u]
      /\ \A x \in Keys \ {k} : ads'[x] = ads[x] /\ channel'[x] = channel[x]
  BY OtherThreads DEF Threads, PublishTypeOK
<1>2. OneRegistrar'
  BY FollowParts DEF OneRegistrar, Registers
<1>3. PendingOf(th)
  BY FollowParts
<1>4. PendingOf(th)'
  BY <1>1, <1>3 DEF PendingOf
<1>5. ASSUME NEW u \in Sdk \ {th}  PROVE PendingOf(u)'
  <2>1. PendingOf(u)
    BY FollowParts
  <2>2. Registers(u) => job[u].key \in Keys \ {k}
    <3>1. Registers(u) => job[u].key # k
      BY FollowParts DEF OneRegistrar
    <3>2. Registers(u) => job[u].key \in Keys
      BY DEF PublishTypeOK, Jobs, Idle, Registers
    <3> QED BY <3>1, <3>2
  <2> QED BY <1>1, <2>1, <2>2 DEF PendingOf, Registers
<1>6. ASSUME NEW x \in Keys  PROVE Follows(x)'
  <2>1. CASE x # k
    <3>1. \A u \in Sdk : Erasing(u, x)' <=> Erasing(u, x)
      BY <1>1, <2>1 DEF Erasing
    <3>2. Follows(x)
      BY FollowParts
    <3> QED BY <1>1, <2>1, <3>1, <3>2 DEF Follows
  <2>2. CASE x = k
    <3>1. ads'[k] # None <=> channel'[k] = "open"
      <4>1. CASE job[th].kind = "advertise"
        BY <1>1, <4>1 DEF PublishTypeOK
      <4>2. CASE job[th].kind = "unadvertise"
        BY <1>1, <1>3, <4>2 DEF PendingOf
      <4> QED BY <4>1, <4>2 DEF Registers
    <3> QED BY <2>2, <3>1 DEF Follows
  <2> QED BY <2>1, <2>2
<1> QED BY <1>2, <1>4, <1>5, <1>6 DEF FollowInv, OneRegistrar, PendingOf, Follows

LEMMA FollowStep ==
  ASSUME LockInv, PublishTypeOK, StageInv, FollowInv, [Next]_vars
  PROVE  FollowInv'
<1>1. \A th \in Sdk : th \in Threads
  BY DEF Threads
<1>2. ASSUME NEW th \in Sdk, Clients(th)  PROVE FollowInv'
  <2>1. CASE \E k \in Keys, ty \in Types : ClientAdvertises(th, k, ty)
    <3>1. PICK jb : /\ todo[th] = <<>> /\ Moves(th, OnClientAdvertise)
                    /\ job' = [job EXCEPT ![th] = jb] /\ jb.kind = "advertise"
                    /\ ~Busy(jb.key, {"advertise", "unadvertise"})
                    /\ UNCHANGED <<ads, channel>>
      <4>1. PICK k \in Keys, ty \in Types : ClientAdvertises(th, k, ty)
        BY <2>1
      <4> DEFINE jb == [kind |-> "advertise", key |-> k, type |-> ty]
      <4>2. jb.kind = "advertise" /\ jb.key = k
        OBVIOUS
      <4>3. /\ todo[th] = <<>> /\ Moves(th, OnClientAdvertise)
            /\ job' = [job EXCEPT ![th] = jb] /\ UNCHANGED <<ads, channel>>
            /\ ~Busy(k, {"advertise", "unadvertise"})
        BY <4>1 DEF ClientAdvertises, Request, Begin, Moves, Busy
      <4> HIDE DEF jb
      <4> QED BY <4>2, <4>3
    <3>2. OnClientAdvertise \notin {AdvLookup, AdvPublish, Leave, <<>>}
      BY StageHeads, Stages
    <3> QED BY <3>1, <3>2, FollowRequest
  <2>2. CASE \E k \in Keys : ClientUnadvertises(th, k)
    <3>1. PICK jb : /\ todo[th] = <<>> /\ Moves(th, OnClientUnadvertise)
                    /\ job' = [job EXCEPT ![th] = jb]
                    /\ jb.kind = "unadvertise" /\ jb.key \in Keys
                    /\ ~Busy(jb.key, {"advertise", "unadvertise"})
                    /\ channel' = [channel EXCEPT ![jb.key] = "none"]
                    /\ UNCHANGED ads
      <4>1. PICK k \in Keys : ClientUnadvertises(th, k)
        BY <2>2
      <4> DEFINE jb == [kind |-> "unadvertise", key |-> k, type |-> None]
      <4>2. jb.kind = "unadvertise" /\ jb.key = k
        OBVIOUS
      <4>3. /\ todo[th] = <<>> /\ Moves(th, OnClientUnadvertise)
            /\ job' = [job EXCEPT ![th] = jb] /\ UNCHANGED ads
            /\ channel' = [channel EXCEPT ![k] = "none"]
            /\ ~Busy(k, {"advertise", "unadvertise"})
        BY <4>1 DEF ClientUnadvertises, Request, Begin, Moves
      <4> HIDE DEF jb
      <4> QED BY <4>2, <4>3
    <3>2. OnClientUnadvertise \notin {AdvLookup, AdvPublish, Leave, <<>>}
      BY StageHeads, Stages
    <3> QED BY <3>1, <3>2, FollowRequest
  <2>3. CASE \E k \in Keys : ClientSends(th, k)
    <3>1. \E jb : /\ todo[th] = <<>> /\ Moves(th, OnClientMessage)
                  /\ job' = [job EXCEPT ![th] = jb] /\ jb.kind = "message"
                  /\ UNCHANGED <<ads, channel>>
      BY <2>3 DEF ClientSends, Request, Begin, Moves
    <3> QED BY <3>1, FollowRequest
  <2>4. CASE job[th] = Idle /\ ClientSubscribes(th)
    <3>1. \E s : todo[th] = <<>> /\ Moves(th, s)
      BY <2>4 DEF ClientSubscribes, Begin, Moves
    <3>2. /\ job' = [job EXCEPT ![th] = Idle] /\ Idle.kind = "idle"
          /\ UNCHANGED <<ads, channel>>
      BY <2>4 DEF ClientSubscribes, clientVars, PublishTypeOK, Idle
    <3> QED BY <3>1, <3>2, FollowRequest
  <2> QED BY <1>2, <2>1, <2>2, <2>3, <2>4 DEF Clients
<1>3. ASSUME NEW th \in Sdk, Return(th)  PROVE FollowInv'
  <2>1. /\ todo[th] = <<>> /\ todo' = todo /\ job' = [job EXCEPT ![th] = Idle]
        /\ UNCHANGED <<ads, channel>>
    BY <1>3 DEF Return, lockState
  <2>2. Moves(th, <<>>)
    BY <2>1 DEF Moves, LockInv
  <2>3. Idle.kind = "idle"
    BY DEF Idle
  <2> QED BY <2>1, <2>2, <2>3, FollowRequest
<1>4. ASSUME NEW th \in Sdk, Check(th)  PROVE FollowInv'
  <2>1. UNCHANGED <<job, ads, channel>>
    BY <1>4 DEF Check, clientVars
  <2>2. job[th].kind = "advertise"
    BY <1>4, HandlerMoves
  <2>3. CASE ads[job[th].key] # None /\ Moves(th, Leave)
    <3>1. Leave \notin {AdvLookup, AdvPublish}
      BY StageHeads
    <3> QED BY <2>1, <2>2, <2>3, <3>1, FollowStage
  <2>4. CASE ads[job[th].key] = None /\ Moves(th, AdvLookup)
    BY <2>1, <2>2, <2>4, FollowStage
  <2> QED BY <1>4, <2>3, <2>4, HandlerMoves
<1>5. ASSUME NEW th \in Sdk, AdvertiseFails(th) \/ Advertise(th)  PROVE FollowInv'
  <2>1. job[th].kind = "advertise" /\ todo[th] = AdvPublish
    BY <1>5, HandlerMoves
  <2>2. /\ Registers(th) /\ job[th].key \in Keys /\ job[th].type \in Types
        /\ job[th].type # None /\ None \in Types \cup {None} /\ ads[job[th].key] = None
    BY <2>1, FollowParts, PublishAssumption
       DEF Registers, PublishTypeOK, Jobs, Idle, PendingOf
  <2>3. Leave \notin {AdvLookup, AdvPublish} /\ AdvPoke \notin {AdvLookup, AdvPublish}
    BY StageHeads, Stages
  <2>4. CASE AdvertiseFails(th)
    <3>1. /\ Moves(th, Leave) /\ UNCHANGED job
          /\ ads' = [ads EXCEPT ![job[th].key] = None]
          /\ channel' = [channel EXCEPT ![job[th].key] = "refused"]
      BY <2>2, <2>4, HandlerMoves DEF AdvertiseFails, PublishTypeOK
    <3> QED BY <2>1, <2>2, <2>3, <3>1, FollowEntry, ZenonT(30)
  <2>5. CASE Advertise(th)
    <3>1. /\ Moves(th, AdvPoke) /\ UNCHANGED job
          /\ ads' = [ads EXCEPT ![job[th].key] = job[th].type]
          /\ channel' = [channel EXCEPT ![job[th].key] = "open"]
      BY <2>5, HandlerMoves DEF Advertise, Entry
    <3> QED BY <2>1, <2>2, <2>3, <3>1, FollowEntry
  <2> QED BY <1>5, <2>4, <2>5
<1>6. ASSUME NEW th \in Sdk, Erase(th)  PROVE FollowInv'
  <2>1. job[th].kind = "unadvertise" /\ Moves(th, Leave)
    BY <1>6, HandlerMoves
  <2>2. Registers(th) /\ job[th].key \in Keys /\ None \in Types \cup {None}
    BY <2>1 DEF Registers, PublishTypeOK, Jobs, Idle
  <2>3. ads' = [ads EXCEPT ![job[th].key] = None] /\ UNCHANGED <<job, channel>>
    BY <1>6 DEF Erase, Entry
  <2> QED BY <2>1, <2>2, <2>3, FollowEntry
<1>7. ASSUME NEW th \in Sdk, Find(th)  PROVE FollowInv'
  <2>1. /\ job[th].kind = "message" /\ UNCHANGED <<ads, channel>>
        /\ todo[th] = MsgFind /\ \E s : Moves(th, s)
    BY <1>7, HandlerMoves DEF Find
  <2>2. job' = job \/ job' = [job EXCEPT ![th].type = ads[job[th].key]]
    BY <1>7, HandlerMoves
  <2>3. /\ \A u \in Sdk : job'[u].kind = job[u].kind /\ job'[u].key = job[u].key
        /\ \A u \in Sdk \ {th} : todo'[u] = todo[u]
    <3>1. job[th] \in [kind : {"message"}, key : Keys, type : Types \cup {None}]
      BY <2>1 DEF PublishTypeOK, Jobs, Idle
    <3> QED BY <1>1, <2>1, <2>2, <3>1, OtherThreads DEF PublishTypeOK
  <2> QED BY <2>1, <2>3 DEF FollowInv, Registers, Erasing
<1>8. ASSUME NEW th \in Sdk, Publish(th)  PROVE FollowInv'
  <2>1. job[th].kind = "message" /\ Moves(th, <<>>)
    BY <1>8, HandlerMoves
  <2>2. UNCHANGED <<job, ads, channel>>
    BY <1>8 DEF Publish
  <2> QED BY <2>1, <2>2, FollowStage
<1>9. ASSUME NEW th \in Sdk, LockStep(th)  PROVE FollowInv'
  <2>1. /\ todo[th] # <<>> /\ Head(todo[th]).do \in {"lock", "touch", "unlock"}
        /\ Moves(th, Tail(todo[th])) /\ UNCHANGED <<job, ads, channel>>
    BY <1>9, LockMoves DEF clientVars
  <2>2. /\ job[th].kind = "advertise" => todo[th] \in AdvStages
        /\ job[th].kind = "unadvertise" => todo[th] \in UnadvStages
    BY DEF StageInv
  <2> QED BY <2>1, <2>2, StageMoves, FollowStage
<1>10. ASSUME NEW th \in Threads \ Sdk, LockStep(th)  PROVE FollowInv'
  <2>1. Moves(th, Tail(todo[th])) /\ UNCHANGED <<job, ads, channel>>
    BY <1>10, LockMoves DEF clientVars
  <2>2. \A u \in Sdk : todo'[u] = todo[u]
    BY <1>1, <2>1, OtherThreads
  <2> QED BY <2>1, <2>2, FollowFrame
<1>11. ASSUME NEW th \in Threads, Background(th)  PROVE FollowInv'
  BY <1>11, BackgroundMoves, FollowFrame DEF clientVars
<1>12. CASE UNCHANGED vars
  BY <1>12, FollowFrame DEF vars, lockState, clientVars
<1>13. CASE Next
  BY <1>2, <1>3, <1>4, <1>5, <1>6, <1>7, <1>8, <1>9, <1>10, <1>11, <1>13
     DEF Next, ThreadStep, Handler
<1> QED BY <1>12, <1>13

-----------------------------------------------------------------------------
(* A message has its publication *)

HandlesLive ==
  /\ \A k \in Keys : ads[k] \in {None, live}
  /\ \A th \in Sdk : copy[th] \in {None, live}

FoundOf(th) ==
  job[th].kind = "message" /\ todo[th] \in {MsgLeave, MsgPublish}
    => copy[th] = job[th].type /\ copy[th] # None

LEMMA MessageMove ==
  ASSUME LockInv, MessageInv, NEW th \in Sdk, NEW s, Moves(th, s),
         \A u \in Sdk \ {th} : job'[u] = job[u] /\ copy'[u] = copy[u],
         job'[th].kind = "message" /\ s \in {MsgLeave, MsgPublish}
           => copy'[th] = job'[th].type /\ copy'[th] # None,
         HandlesLive'
  PROVE  MessageInv'
<1>1. todo'[th] = s /\ \A u \in Sdk \ {th} : todo'[u] = todo[u]
  BY OtherThreads DEF Threads
<1>2. FoundOf(th)'
  BY <1>1 DEF FoundOf
<1>3. ASSUME NEW u \in Sdk \ {th}  PROVE FoundOf(u)'
  <2>1. FoundOf(u)
    BY DEF MessageInv, FoundOf
  <2> QED BY <1>1, <2>1 DEF FoundOf
<1> QED BY <1>2, <1>3 DEF MessageInv, FoundOf, HandlesLive

LEMMA MessageStep ==
  ASSUME LockInv, PublishTypeOK, StageInv, MessageInv, [Next]_vars
  PROVE  MessageInv'
<1>1. (\A th \in Sdk : th \in Threads) /\ HandlesLive
  BY DEF Threads, MessageInv, HandlesLive
<1>2. UNCHANGED <<ads, copy, live>> => HandlesLive'
  BY <1>1 DEF HandlesLive
<1>3. ASSUME NEW th \in Sdk, Clients(th) \/ Return(th)  PROVE MessageInv'
  <2>1. \E s, jb : /\ Moves(th, s) /\ job' = [job EXCEPT ![th] = jb]
                   /\ UNCHANGED <<ads, copy, live>>
                   /\ jb.kind = "message" => s = OnClientMessage
    <3>1. CASE Return(th)
      <4>1. Moves(th, <<>>) /\ Idle.kind # "message"
        BY <3>1 DEF Return, lockState, Moves, LockInv, Idle
      <4> QED BY <3>1, <4>1 DEF Return
    <3>2. CASE \E k \in Keys, ty \in Types : ClientAdvertises(th, k, ty)
      <4>1. PICK k \in Keys, ty \in Types : ClientAdvertises(th, k, ty)
        BY <3>2
      <4> DEFINE jb == [kind |-> "advertise", key |-> k, type |-> ty]
      <4>2. jb.kind # "message"
        OBVIOUS
      <4>3. /\ Moves(th, OnClientAdvertise) /\ job' = [job EXCEPT ![th] = jb]
            /\ UNCHANGED <<ads, copy, live>>
        BY <4>1 DEF ClientAdvertises, Request, Begin, Moves
      <4> HIDE DEF jb
      <4> QED BY <4>2, <4>3
    <3>3. CASE \E k \in Keys : ClientUnadvertises(th, k)
      <4>1. PICK k \in Keys : ClientUnadvertises(th, k)
        BY <3>3
      <4> DEFINE jb == [kind |-> "unadvertise", key |-> k, type |-> None]
      <4>2. jb.kind # "message"
        OBVIOUS
      <4>3. /\ Moves(th, OnClientUnadvertise) /\ job' = [job EXCEPT ![th] = jb]
            /\ UNCHANGED <<ads, copy, live>>
        BY <4>1 DEF ClientUnadvertises, Request, Begin, Moves
      <4> HIDE DEF jb
      <4> QED BY <4>2, <4>3
    <3>4. CASE \E k \in Keys : ClientSends(th, k)
      BY <3>4 DEF ClientSends, Request, Begin, Moves
    <3>5. CASE job[th] = Idle /\ ClientSubscribes(th)
      <4>1. job' = [job EXCEPT ![th] = Idle] /\ Idle.kind # "message"
        BY <3>5 DEF ClientSubscribes, clientVars, PublishTypeOK, Idle
      <4> QED BY <3>5, <4>1 DEF ClientSubscribes, clientVars, Begin, Moves
    <3> QED BY <1>3, <3>1, <3>2, <3>3, <3>4, <3>5 DEF Clients
  <2>2. OnClientMessage \notin {MsgLeave, MsgPublish}
    BY StageHeads
  <2>3. PICK s, jb : /\ Moves(th, s) /\ job' = [job EXCEPT ![th] = jb]
                     /\ UNCHANGED <<ads, copy, live>>
                     /\ jb.kind = "message" => s = OnClientMessage
    BY <2>1
  <2>4. job'[th] = jb /\ \A u \in Sdk \ {th} : job'[u] = job[u] /\ copy'[u] = copy[u]
    BY <2>3 DEF PublishTypeOK
  <2> QED BY <1>2, <2>2, <2>3, <2>4, MessageMove
<1>4. ASSUME NEW th \in Sdk, Check(th) \/ AdvertiseFails(th)  PROVE MessageInv'
  <2>1. job[th].kind = "advertise" /\ \E s : Moves(th, s)
    BY <1>4, HandlerMoves
  <2>2. UNCHANGED <<job, ads, copy, live>>
    BY <1>4 DEF Check, AdvertiseFails, clientVars
  <2> QED BY <1>2, <2>1, <2>2, MessageMove
<1>5. ASSUME NEW th \in Sdk, Advertise(th)  PROVE MessageInv'
  <2>1. job[th].kind = "advertise" /\ Moves(th, AdvPoke)
    BY <1>5, HandlerMoves
  <2>2. /\ UNCHANGED <<job, copy>> /\ live \in {None, job[th].type}
        /\ ads' = [ads EXCEPT ![job[th].key] = job[th].type] /\ live' = job[th].type
    BY <1>5 DEF Advertise, Entry
  <2>3. HandlesLive'
    BY <1>1, <2>2 DEF HandlesLive, PublishTypeOK
  <2> QED BY <2>1, <2>2, <2>3, MessageMove
<1>6. ASSUME NEW th \in Sdk, Erase(th)  PROVE MessageInv'
  <2>1. job[th].kind = "unadvertise" /\ Moves(th, Leave)
    BY <1>6, HandlerMoves
  <2>2. /\ UNCHANGED <<job, copy>> /\ ReleaseLive
        /\ ads' = [ads EXCEPT ![job[th].key] = None]
    BY <1>6 DEF Erase, Entry
  <2>3. HandlesLive'
    BY <1>1, <2>2 DEF HandlesLive, PublishTypeOK, ReleaseLive, Handles
  <2> QED BY <2>1, <2>2, <2>3, MessageMove
<1>7. ASSUME NEW th \in Sdk, Find(th)  PROVE MessageInv'
  <2>1. /\ job[th] \in [kind : {"message"}, key : Keys, type : Types \cup {None}]
        /\ UNCHANGED <<ads, live>>
    BY <1>7, HandlerMoves DEF Find, PublishTypeOK, Jobs, Idle
  <2>2. CASE Moves(th, Leave) /\ UNCHANGED <<job, copy>>
    <3>1. Leave \notin {MsgLeave, MsgPublish}
      <4>1. Tail(Leave) = <<>> /\ Tail(MsgLeave) = MsgPublish /\ MsgPublish # <<>>
        BY Stages
      <4>2. ASSUME Leave = MsgLeave  PROVE FALSE
        <5>1. Tail(Leave) = Tail(MsgLeave)
          BY <4>2
        <5> QED BY <4>1, <5>1
      <4>3. Leave # MsgPublish
        BY StageHeads
      <4> QED BY <4>2, <4>3
    <3> QED BY <1>2, <2>1, <2>2, <3>1, MessageMove
  <2>3. CASE /\ ads[job[th].key] # None /\ Moves(th, MsgLeave)
             /\ copy' = [copy EXCEPT ![th] = ads[job[th].key]]
             /\ job' = [job EXCEPT ![th].type = ads[job[th].key]]
    <3>1. /\ copy'[th] = ads[job[th].key] /\ job'[th].type = ads[job[th].key]
          /\ \A u \in Sdk \ {th} : job'[u] = job[u] /\ copy'[u] = copy[u]
      BY <2>1, <2>3 DEF PublishTypeOK
    <3>2. HandlesLive'
      BY <1>1, <2>1, <3>1 DEF HandlesLive
    <3> QED BY <2>3, <3>1, <3>2, MessageMove
  <2> QED BY <1>7, <2>2, <2>3, HandlerMoves
<1>8. ASSUME NEW th \in Sdk, Publish(th)  PROVE MessageInv'
  <2>1. Moves(th, <<>>) /\ <<>> \notin {MsgLeave, MsgPublish}
    BY <1>8, HandlerMoves, Stages
  <2>2. /\ UNCHANGED <<job, ads>> /\ ReleaseLive
        /\ copy' = [copy EXCEPT ![th] = None]
    BY <1>8 DEF Publish
  <2>3. HandlesLive' /\ \A u \in Sdk \ {th} : copy'[u] = copy[u]
    BY <1>1, <2>2 DEF HandlesLive, PublishTypeOK, ReleaseLive, Handles
  <2> QED BY <2>1, <2>2, <2>3, MessageMove
<1>9. ASSUME NEW th \in Sdk, LockStep(th)  PROVE MessageInv'
  <2>1. /\ todo[th] # <<>> /\ Head(todo[th]).do \in {"lock", "touch", "unlock"}
        /\ Moves(th, Tail(todo[th])) /\ UNCHANGED <<job, ads, copy, live>>
    BY <1>9, LockMoves DEF clientVars
  <2>2. job[th].kind = "message" /\ Tail(todo[th]) \in {MsgLeave, MsgPublish}
          => todo[th] \in {MsgLeave, MsgPublish}
    BY <2>1, StageMoves DEF StageInv
  <2>3. job'[th].kind = "message" /\ Tail(todo[th]) \in {MsgLeave, MsgPublish}
          => copy'[th] = job'[th].type /\ copy'[th] # None
    BY <2>1, <2>2 DEF MessageInv
  <2> QED BY <1>2, <2>1, <2>3, MessageMove
<1>10. ASSUME UNCHANGED <<job, ads, copy, live>>, \A u \in Sdk : todo'[u] = todo[u]
       PROVE  MessageInv'
  BY <1>10 DEF MessageInv
<1>11. ASSUME NEW th \in Threads \ Sdk, LockStep(th)  PROVE MessageInv'
  <2>1. Moves(th, Tail(todo[th])) /\ UNCHANGED <<job, ads, copy, live>>
    BY <1>11, LockMoves DEF clientVars
  <2>2. \A u \in Sdk : todo'[u] = todo[u]
    BY <1>1, <2>1, OtherThreads
  <2> QED BY <1>10, <2>1, <2>2
<1>12. ASSUME NEW th \in Threads, Background(th)  PROVE MessageInv'
  BY <1>10, <1>12, BackgroundMoves DEF clientVars
<1>13. CASE UNCHANGED vars
  BY <1>10, <1>13 DEF vars, lockState, clientVars
<1>14. CASE Next
  BY <1>3, <1>4, <1>5, <1>6, <1>7, <1>8, <1>9, <1>11, <1>12, <1>14
     DEF Next, ThreadStep, Handler
<1> QED BY <1>13, <1>14

-----------------------------------------------------------------------------
(* Theorems *)

LEMMA InitInv ==
  Init => LockInv /\ ClientInv /\ Order!LocksInit
<1> SUFFICES ASSUME Init PROVE LockInv /\ ClientInv /\ Order!LocksInit
  OBVIOUS
<1>1. Sdk \subseteq Threads /\ None \notin Threads
  BY PublishAssumption DEF Threads
<1>2. \A th \in Threads : todo[th] = <<>> /\ HeldLocks(th) = {} /\ Awaited(th) = Order!NoLock
  BY <1>1 DEF Init, HeldLocks, Awaited, At, Order!NoLock
<1>3. Disciplined(<<>>) /\ HeldAt(<<>>, 1) = {}
  <2>1. <<>> \in Seq(Steps) /\ Len(<<>>) + 1 = 1 /\ 1..Len(<<>>) = {}
    OBVIOUS
  <2> QED BY <2>1, HeldAtEnd DEF Disciplined
<1>4. LockInv
  <2>1. todo \in [Threads -> Seq(Steps)]
    <3>1. <<>> \in Seq(Steps)
      OBVIOUS
    <3> QED BY <3>1 DEF Init
  <2>2. owner \in [Locks -> Threads \cup {None}]
    BY DEF Init
  <2> QED BY <1>2, <1>3, <2>1, <2>2 DEF LockInv
<1>5. PublishTypeOK
  BY DEF Init, PublishTypeOK, Jobs
<1>6. \A th \in Sdk : job[th].kind = "idle" /\ todo[th] \in Seq(LockSteps)
  <2>1. <<>> \in Seq(LockSteps)
    OBVIOUS
  <2> QED BY <1>1, <1>2, <2>1 DEF Init, Idle
<1>7. StageInv
  BY <1>6 DEF StageInv
<1>8. FollowInv
  BY <1>6 DEF FollowInv, Registers, Init
<1>9. MessageInv
  BY <1>6 DEF MessageInv, Init
<1>10. Order!LocksInit
  BY <1>2 DEF Order!LocksInit
<1> QED BY <1>4, <1>5, <1>7, <1>8, <1>9, <1>10 DEF ClientInv

LEMMA NextInv ==
  LockInv /\ ClientInv /\ [Next]_vars => LockInv' /\ ClientInv'
<1> SUFFICES ASSUME LockInv, ClientInv, [Next]_vars PROVE LockInv' /\ ClientInv'
  OBVIOUS
<1>1. LockInv'
  BY NextInOrder DEF ClientInv
<1>2. PublishTypeOK'
  BY TypeStep DEF ClientInv
<1>3. StageInv'
  BY StageStep DEF ClientInv
<1>4. FollowInv'
  BY FollowStep DEF ClientInv
<1>5. MessageInv'
  BY MessageStep DEF ClientInv
<1> QED BY <1>1, <1>2, <1>3, <1>4, <1>5 DEF ClientInv

LEMMA ClientInvHolds == Spec => [](LockInv /\ ClientInv)
  BY InitInv, NextInv, PTL DEF Spec

(* What a channel's client gets from onClientAdvertise and                  *)
(* onClientUnadvertise, for any clients on any number of SDK threads: when  *)
(* no such callback of the channel runs, the bridge has an entry for it     *)
(* exactly if the SDK has it open.                                          *)
THEOREM EntriesFollowChannels == Spec => []AdvertisedFollowsSdk
<1>1. ClientInv => AdvertisedFollowsSdk
  BY DEF ClientInv, FollowInv, AdvertisedFollowsSdk, Busy, Erasing
<1> QED BY <1>1, ClientInvHolds, PTL

(* onClientMessage publishes with the type the message was accepted for,    *)
(* whatever onClientUnadvertise and onClientAdvertise do between its        *)
(* release of _clientAdvertisementsMutex and publish().                     *)
THEOREM AcceptedMessageGoesOut == Spec => []MessageGoesOut
<1>1. ClientInv => MessageGoesOut
  <2> SUFFICES ASSUME ClientInv, NEW th \in Sdk, At(th, "publish")
               PROVE  live = job[th].type
    BY DEF MessageGoesOut
  <2>1. job[th].kind = "message" /\ todo[th] = MsgPublish
    BY HandlerStage DEF ClientInv
  <2> QED BY <2>1 DEF ClientInv, MessageInv
<1> QED BY <1>1, ClientInvHolds, PTL

(* The bridge implements the lock order: every step of a callback, of the   *)
(* poll thread, of a ROS spinner or of a gateway session takes or releases  *)
(* a lock as LockOrder's Step does, or leaves the locks alone.              *)
THEOREM ImplementsLockOrder == Spec => KeepsLockOrder
<1>1. Init => Order!LocksInit
  BY InitInv
<1>2. LockInv /\ ClientInv /\ [Next]_vars
        => [\E th \in Threads : Order!Step(th)]_(Order!lockVars)
  BY NextInOrder DEF ClientInv
<1> QED BY <1>1, <1>2, ClientInvHolds, PTL DEF Spec, KeepsLockOrder, Order!LocksSpec

OrderProofs ==
  INSTANCE LockOrderProofs
    WITH held <- [th \in Threads |-> HeldLocks(th)],
         want <- [th \in Threads |-> Awaited(th)]

(* Deadlock freedom of the code itself: in no set of the process's threads  *)
(* does everyone wait for a lock that another of them holds.                *)
THEOREM ThreadsNeverDeadlock == Spec => []Order!NoCircularWait
<1>1. LockInv => Order!NoCircularWait
  <2> SUFFICES ASSUME LockInv PROVE Order!NoCircularWait
    OBVIOUS
  <2>1. \A th \in Threads : InOrder(th)
    BY AwaitedAboveHeld
  <2>2. OrderProofs!LockInv
    BY <2>1, Ranks
       DEF OrderProofs!LockInv, OrderProofs!NoLock, OrderProofs!Locks, OrderProofs!Rank,
           Order!NoLock, Order!Locks, Rank, Order!Rank, InOrder, HeldLocks
  <2>3. OrderProofs!NoCircularWait
    BY <2>2, OrderProofs!OrderBreaksCycles
  <2> QED BY <2>3 DEF OrderProofs!NoCircularWait, Order!NoCircularWait
<1> QED BY <1>1, ClientInvHolds, PTL
=============================================================================
