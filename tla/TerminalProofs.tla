---------------------------- MODULE TerminalProofs ----------------------------
(***************************************************************************)
(* Theorems about what is typed: console input, for any number of readers  *)
(* and any size of the ring and the line buffer, and the keyboard, for any *)
(* set of keys and any order they are pressed in; and about the ports:     *)
(* transfers, texts, FIFOs and numbers of pins of any size.                *)
(***************************************************************************)
EXTENDS Console, Keyboard, Ports, FiniteSetTheorems, TLAPS

\* A remainder next to the range it falls into.
LEMMA Remainder ==
    ASSUME NEW n \in Nat \ {0}, NEW a \in Int, -n <= a, a < 2 * n
    PROVE  a % n = IF a < 0 THEN a + n ELSE IF a < n THEN a ELSE a - n
<1>1. CASE a < 0
  BY <1>1
<1>2. CASE 0 <= a /\ a < n
  BY <1>2
<1>3. CASE n <= a
  BY <1>3
<1> QED
  BY <1>1, <1>2, <1>3

-----------------------------------------------------------------------------
(* Sequences of character numbers                                           *)

Rising(s) == \A i, j \in DOMAIN s : i < j => s[i] < s[j]
Below(s, t) == \A i \in DOMAIN s, j \in DOMAIN t : s[i] < t[j]
UpTo(s, m) == \A i \in DOMAIN s : s[i] <= m

LEMMA Joined ==
    ASSUME NEW s \in Seq(Int), NEW t \in Seq(Int)
    PROVE  /\ s \o t \in Seq(Int)
           /\ Len(s \o t) = Len(s) + Len(t)
           /\ \A i \in 1..Len(s) : (s \o t)[i] = s[i]
           /\ \A i \in 1..Len(t) : (s \o t)[Len(s) + i] = t[i]
           /\ \A i \in 1..(Len(s) + Len(t)) :
                (s \o t)[i] = IF i <= Len(s) THEN s[i] ELSE t[i - Len(s)]
  OBVIOUS

LEMMA RisingJoined ==
    ASSUME NEW s \in Seq(Int), NEW t \in Seq(Int)
    PROVE  Rising(s \o t) <=> Rising(s) /\ Rising(t) /\ Below(s, t)
<1> DEFINE u == s \o t
<1>1. /\ u \in Seq(Int) /\ Len(u) = Len(s) + Len(t)
      /\ \A i \in 1..Len(s) : u[i] = s[i]
      /\ \A i \in 1..Len(t) : u[Len(s) + i] = t[i]
      /\ \A i \in 1..(Len(s) + Len(t)) : u[i] = IF i <= Len(s) THEN s[i] ELSE t[i - Len(s)]
  BY Joined
<1> HIDE DEF u
<1>2. /\ DOMAIN s = 1..Len(s) /\ DOMAIN t = 1..Len(t) /\ DOMAIN u = 1..(Len(s) + Len(t))
      /\ Len(s) \in Nat /\ Len(t) \in Nat
  BY <1>1
<1>3. ASSUME Rising(s), Rising(t), Below(s, t) PROVE Rising(u)
  <2> SUFFICES ASSUME NEW i \in 1..(Len(s) + Len(t)), NEW j \in 1..(Len(s) + Len(t)), i < j
               PROVE  u[i] < u[j]
    BY <1>2 DEF Rising
  <2>1. CASE j <= Len(s)
    <3>1. i \in DOMAIN s /\ j \in DOMAIN s /\ u[i] = s[i] /\ u[j] = s[j]
      BY <1>1, <1>2, <2>1
    <3> QED
      BY <1>3, <3>1 DEF Rising
  <2>2. CASE i <= Len(s) /\ Len(s) < j
    <3>1. i \in DOMAIN s /\ j - Len(s) \in DOMAIN t
      BY <1>2, <2>2
    <3>2. u[i] = s[i] /\ u[j] = t[j - Len(s)]
      BY <1>1, <1>2, <2>2
    <3> QED
      BY <1>3, <3>1, <3>2 DEF Below
  <2>3. CASE Len(s) < i
    <3>1. i - Len(s) \in 1..Len(t) /\ j - Len(s) \in 1..Len(t) /\ i - Len(s) < j - Len(s)
      BY <1>2, <2>3
    <3>2. u[i] = t[i - Len(s)] /\ u[j] = t[j - Len(s)]
      BY <1>1, <1>2, <2>3
    <3>3. t[i - Len(s)] < t[j - Len(s)]
      BY <1>2, <1>3, <3>1 DEF Rising
    <3> QED
      BY <3>2, <3>3
  <2> QED
    BY <1>2, <2>1, <2>2, <2>3
<1>4. ASSUME Rising(u) PROVE Rising(s) /\ Rising(t) /\ Below(s, t)
  <2>1. Rising(s)
    BY <1>1, <1>2, <1>4 DEF Rising
  <2>2. ASSUME NEW i \in 1..Len(t), NEW j \in 1..Len(t), i < j PROVE t[i] < t[j]
    <3>0. Len(s) + i \in DOMAIN u /\ Len(s) + j \in DOMAIN u /\ Len(s) + i < Len(s) + j
      BY <1>2, <2>2
    <3>1. u[Len(s) + i] < u[Len(s) + j]
      BY <1>4, <3>0 DEF Rising
    <3> QED
      BY <1>1, <3>1
  <2>3. ASSUME NEW i \in 1..Len(s), NEW j \in 1..Len(t) PROVE s[i] < t[j]
    <3>0. i \in DOMAIN u /\ Len(s) + j \in DOMAIN u /\ i < Len(s) + j
      BY <1>2, <2>3
    <3>1. u[i] < u[Len(s) + j]
      BY <1>4, <3>0 DEF Rising
    <3> QED
      BY <1>1, <3>1
  <2> QED
    BY <1>2, <2>1, <2>2, <2>3 DEF Rising, Below
<1> QED
  BY <1>3, <1>4 DEF u

LEMMA BelowJoined ==
    ASSUME NEW s \in Seq(Int), NEW t \in Seq(Int), NEW r \in Seq(Int)
    PROVE  /\ Below(s \o t, r) <=> Below(s, r) /\ Below(t, r)
           /\ Below(r, s \o t) <=> Below(r, s) /\ Below(r, t)
<1> DEFINE u == s \o t
<1>1. /\ u \in Seq(Int) /\ Len(u) = Len(s) + Len(t)
      /\ \A i \in 1..Len(s) : u[i] = s[i]
      /\ \A i \in 1..Len(t) : u[Len(s) + i] = t[i]
      /\ \A i \in 1..(Len(s) + Len(t)) : u[i] = IF i <= Len(s) THEN s[i] ELSE t[i - Len(s)]
  BY Joined
<1> HIDE DEF u
<1>2. /\ DOMAIN s = 1..Len(s) /\ DOMAIN t = 1..Len(t) /\ DOMAIN u = 1..(Len(s) + Len(t))
      /\ Len(s) \in Nat /\ Len(t) \in Nat
  BY <1>1
<1>3. \A i \in DOMAIN u : (\E j \in DOMAIN s : u[i] = s[j]) \/ (\E j \in DOMAIN t : u[i] = t[j])
  <2> SUFFICES ASSUME NEW i \in 1..(Len(s) + Len(t))
               PROVE  (\E j \in DOMAIN s : u[i] = s[j]) \/ (\E j \in DOMAIN t : u[i] = t[j])
    BY <1>2
  <2>1. CASE i <= Len(s)
    <3>1. i \in DOMAIN s /\ u[i] = s[i]
      BY <1>1, <1>2, <2>1
    <3> QED
      BY <3>1
  <2>2. CASE Len(s) < i
    <3>1. i - Len(s) \in DOMAIN t
      BY <1>2, <2>2
    <3>2. u[i] = t[i - Len(s)]
      BY <1>1, <1>2, <2>2
    <3> QED
      BY <3>1, <3>2
  <2> QED
    BY <1>2, <2>1, <2>2
<1>4. /\ \A j \in DOMAIN s : \E i \in DOMAIN u : u[i] = s[j]
      /\ \A j \in DOMAIN t : \E i \in DOMAIN u : u[i] = t[j]
  <2>1. ASSUME NEW j \in 1..Len(s) PROVE \E i \in DOMAIN u : u[i] = s[j]
    <3>1. j \in DOMAIN u /\ u[j] = s[j]
      BY <1>1, <1>2
    <3> QED
      BY <3>1
  <2>2. ASSUME NEW j \in 1..Len(t) PROVE \E i \in DOMAIN u : u[i] = t[j]
    <3>1. Len(s) + j \in DOMAIN u
      BY <1>2
    <3>2. u[Len(s) + j] = t[j]
      BY <1>1
    <3> QED
      BY <3>1, <3>2
  <2> QED
    BY <1>2, <2>1, <2>2
<1>5. (Below(u, r) <=> Below(s, r) /\ Below(t, r)) /\ (Below(r, u) <=> Below(r, s) /\ Below(r, t))
  BY <1>3, <1>4 DEF Below
<1> QED
  BY <1>5 DEF u

\* The beginning of a sequence, and the whole of it with one more.
LEMMA Beginning ==
    ASSUME NEW s \in Seq(Int), NEW k \in 0..Len(s)
    PROVE  /\ SubSeq(s, 1, k) \in Seq(Int)
           /\ Len(SubSeq(s, 1, k)) = k
           /\ \A i \in 1..k : SubSeq(s, 1, k)[i] = s[i]
  OBVIOUS

LEMMA Appended ==
    ASSUME NEW s \in Seq(Int), NEW x \in Int
    PROVE  /\ Append(s, x) \in Seq(Int)
           /\ Len(Append(s, x)) = Len(s) + 1
           /\ \A i \in 1..Len(s) : Append(s, x)[i] = s[i]
           /\ Append(s, x)[Len(s) + 1] = x
  OBVIOUS

LEMMA SameSequence ==
    ASSUME NEW s \in Seq(Int), NEW t \in Seq(Int), Len(s) = Len(t),
           \A i \in 1..Len(s) : s[i] = t[i]
    PROVE  s = t
  OBVIOUS

-----------------------------------------------------------------------------
(* The ring                                                                 *)

\* Contents for any buffer and indexes.
Used(head, tail) == (head - tail) % INPUT_BUFFER_SIZE
Ring(bytes, head, tail) ==
    [i \in 1..Used(head, tail) |-> bytes[(tail + i - 1) % INPUT_BUFFER_SIZE]]

LEMMA ContentsRing ==
    /\ Contents = Ring(input_buffer, input_buffer_head, input_buffer_tail)
    /\ Available = Used(input_buffer_head, input_buffer_tail)
    /\ Contents' = Ring(input_buffer', input_buffer_head', input_buffer_tail')
    /\ Available' = Used(input_buffer_head', input_buffer_tail')
  BY DEF Contents, Available, Ring, Used

LEMMA UsedIs ==
    ASSUME NEW h \in Places, NEW t \in Places
    PROVE  /\ Used(h, t) \in 0..(INPUT_BUFFER_SIZE - 1)
           /\ Used(h, t) = IF h < t THEN h - t + INPUT_BUFFER_SIZE ELSE h - t
<1> DEFINE n == INPUT_BUFFER_SIZE
           a == h - t
<1>1. n \in Nat \ {0} /\ a \in Int /\ -n <= a /\ a < 2 * n /\ (a < 0 <=> h < t) /\ a < n
      /\ (a < 0 => a + n \in 0..(n - 1)) /\ (~(a < 0) => a \in 0..(n - 1))
  BY ConsoleAssumption DEF Places
<1> HIDE DEF a, n
<1>2. a % n = IF a < 0 THEN a + n ELSE IF a < n THEN a ELSE a - n
  BY <1>1, Remainder
<1>3. a % n \in 0..(n - 1) /\ a % n = IF h < t THEN a + n ELSE a
  BY <1>1, <1>2
<1> QED
  BY <1>3 DEF Used, a, n

LEMMA PlaceIs ==
    ASSUME NEW t \in Places, NEW k \in 0..(INPUT_BUFFER_SIZE - 1)
    PROVE  /\ (t + k) % INPUT_BUFFER_SIZE \in Places
           /\ (t + k) % INPUT_BUFFER_SIZE =
                IF t + k < INPUT_BUFFER_SIZE THEN t + k ELSE t + k - INPUT_BUFFER_SIZE
<1> DEFINE n == INPUT_BUFFER_SIZE
           a == t + k
<1>1. n \in Nat \ {0} /\ a \in Int /\ -n <= a /\ a < 2 * n /\ ~(a < 0)
      /\ t \in Int /\ k \in Int
      /\ (a < n => a \in 0..(n - 1)) /\ (~(a < n) => a - n \in 0..(n - 1))
  BY ConsoleAssumption DEF Places
<1> HIDE DEF a, n
<1>2. a % n = IF a < 0 THEN a + n ELSE IF a < n THEN a ELSE a - n
  BY <1>1, Remainder
<1>3. a % n \in 0..(n - 1) /\ a % n = IF a < n THEN a ELSE a - n
  BY <1>1, <1>2
<1>4. (t + k) % n \in 0..(n - 1) /\ (t + k) % n = IF t + k < n THEN t + k ELSE t + k - n
  BY <1>1, <1>3 DEF a
<1> QED
  BY <1>4 DEF Places, n

Bytes == [Places -> 0..MaxTyped]

LEMMA RingIs ==
    ASSUME NEW b \in Bytes, NEW h \in Places, NEW t \in Places
    PROVE  /\ Ring(b, h, t) \in Seq(Int)
           /\ Len(Ring(b, h, t)) = Used(h, t)
           /\ \A i \in 1..Used(h, t) : Ring(b, h, t)[i] = b[(t + (i - 1)) % INPUT_BUFFER_SIZE]
<1>1. Used(h, t) \in 0..(INPUT_BUFFER_SIZE - 1)
  BY UsedIs
<1>2. ASSUME NEW i \in 1..Used(h, t)
      PROVE  /\ t + i - 1 = t + (i - 1)
             /\ b[(t + (i - 1)) % INPUT_BUFFER_SIZE] \in Int
  <2>1. i - 1 \in 0..(INPUT_BUFFER_SIZE - 1) /\ t + i - 1 = t + (i - 1)
    BY <1>1, ConsoleAssumption DEF Places
  <2> QED
    BY <2>1, PlaceIs, ConsoleAssumption DEF Bytes
<1> QED
  BY <1>1, <1>2, ConsoleAssumption DEF Ring

\* The buffer when the first k of chs are stored from place h on.
Filled(b, h, chs, k) ==
    [i \in Places |-> LET j == ((i - h) % INPUT_BUFFER_SIZE) + 1
                      IN IF j <= k THEN chs[j] ELSE b[i]]

\* Characters stored behind the head come behind what is there.
LEMMA RingStores ==
    ASSUME NEW b \in Bytes, NEW h \in Places, NEW t \in Places,
           NEW chs \in Seq(1..MaxTyped), NEW k \in 0..Len(chs),
           k <= INPUT_BUFFER_SIZE - 1 - Used(h, t)
    PROVE  /\ Filled(b, h, chs, k) \in Bytes
           /\ (h + k) % INPUT_BUFFER_SIZE \in Places
           /\ Used((h + k) % INPUT_BUFFER_SIZE, t) = Used(h, t) + k
           /\ Ring(Filled(b, h, chs, k), (h + k) % INPUT_BUFFER_SIZE, t)
                = Ring(b, h, t) \o SubSeq(chs, 1, k)
<1> DEFINE n == INPUT_BUFFER_SIZE
           u == Used(h, t)
           b2 == Filled(b, h, chs, k)
           h2 == (h + k) % n
<1>0. /\ k <= n - 1 - u
      /\ b2 = [i \in Places |-> LET j == ((i - h) % n) + 1
                                IN IF j <= k THEN chs[j] ELSE b[i]]
      /\ h2 = (h + k) % n
  BY DEF Filled
<1> HIDE DEF b2, h2
<1>1. /\ n \in Nat /\ n >= 2 /\ k \in 0..(n - 1) /\ u \in 0..(n - 1)
      /\ u = IF h < t THEN h - t + n ELSE h - t
      /\ h \in 0..(n - 1) /\ t \in 0..(n - 1) /\ k + u < n
  <2>1. u \in 0..(n - 1) /\ u = IF h < t THEN h - t + n ELSE h - t
    BY UsedIs
  <2>2. n \in Nat /\ n >= 2 /\ h \in 0..(n - 1) /\ t \in 0..(n - 1)
    BY ConsoleAssumption DEF Places
  <2>3. k \in Nat /\ k <= n - 1 - u
    BY <1>0
  <2> HIDE DEF n, u
  <2> QED
    BY <2>1, <2>2, <2>3
<1>2. h2 \in Places /\ h2 = IF h + k < n THEN h + k ELSE h + k - n
  <2>1. k \in 0..(INPUT_BUFFER_SIZE - 1)
    BY <1>1
  <2> QED
    BY <1>0, <2>1, PlaceIs
<1>3. Used(h2, t) = u + k
  <2>1. Used(h2, t) = IF h2 < t THEN h2 - t + n ELSE h2 - t
    BY <1>2, UsedIs
  <2> HIDE DEF n, u
  <2> QED
    BY <1>1, <1>2, <2>1
<1> HIDE DEF u
<1>4. ASSUME NEW i \in Places PROVE (i - h) % n = IF i < h THEN i - h + n ELSE i - h
  <2>1. Used(i, h) = IF i < h THEN i - h + n ELSE i - h
    BY UsedIs
  <2> QED
    BY <2>1 DEF Used
<1>5. ASSUME NEW j \in 1..k PROVE chs[j] \in 1..MaxTyped
  <2>1. j \in 1..Len(chs)
    OBVIOUS
  <2> QED
    BY <2>1, ConsoleAssumption
<1>6. \A i \in Places :
         b2[i] = IF (IF i < h THEN i - h + n ELSE i - h) + 1 <= k
                 THEN chs[(IF i < h THEN i - h + n ELSE i - h) + 1] ELSE b[i]
  <2> SUFFICES ASSUME NEW i \in Places
               PROVE  b2[i] = IF (IF i < h THEN i - h + n ELSE i - h) + 1 <= k
                              THEN chs[(IF i < h THEN i - h + n ELSE i - h) + 1] ELSE b[i]
    OBVIOUS
  <2>1. b2[i] = IF ((i - h) % n) + 1 <= k THEN chs[((i - h) % n) + 1] ELSE b[i]
    BY <1>0
  <2> QED
    BY <1>4, <2>1
<1>7. b2 \in Bytes
  <2> SUFFICES ASSUME NEW i \in Places PROVE b2[i] \in 0..MaxTyped
    BY <1>0 DEF Bytes
  <2> DEFINE j == (IF i < h THEN i - h + n ELSE i - h) + 1
  <2>1. j \in Nat /\ j >= 1
    <3>1. n \in Nat /\ i \in 0..(n - 1) /\ h \in 0..(n - 1)
      BY ConsoleAssumption DEF Places
    <3> HIDE DEF n
    <3> QED
      BY <3>1
  <2>2. b2[i] = IF j <= k THEN chs[j] ELSE b[i]
    BY <1>6
  <2> HIDE DEF j
  <2> QED
    BY <1>1, <1>5, <2>1, <2>2, ConsoleAssumption DEF Bytes
<1> DEFINE old == Ring(b, h, t)
           new == Ring(b2, h2, t)
           sub == SubSeq(chs, 1, k)
<1>8. /\ old \in Seq(Int) /\ Len(old) = u
      /\ \A i \in 1..u : old[i] = b[(t + (i - 1)) % n]
  BY RingIs DEF u
<1>9. /\ new \in Seq(Int) /\ Len(new) = u + k
      /\ \A i \in 1..(u + k) : new[i] = b2[(t + (i - 1)) % n]
  <2>1. /\ new \in Seq(Int) /\ Len(new) = Used(h2, t)
        /\ \A i \in 1..Used(h2, t) : new[i] = b2[(t + (i - 1)) % n]
    BY <1>2, <1>7, RingIs
  <2> QED
    BY <1>3, <2>1
<1>10. sub \in Seq(Int) /\ Len(sub) = k /\ \A i \in 1..k : sub[i] = chs[i]
  <2>1. chs \in Seq(Int)
    BY ConsoleAssumption
  <2> QED
    BY <2>1, Beginning
<1> HIDE DEF old, new, sub
<1>11. /\ old \o sub \in Seq(Int) /\ Len(old \o sub) = u + k
       /\ \A i \in 1..(u + k) : (old \o sub)[i] = IF i <= u THEN old[i] ELSE sub[i - u]
  BY <1>8, <1>10, Joined
<1>12. ASSUME NEW i \in 1..(u + k) PROVE new[i] = (old \o sub)[i]
  <2> DEFINE p == (t + (i - 1)) % n
  <2>1. i - 1 \in 0..(n - 1)
    BY <1>1
  <2>2. p \in Places /\ p = IF t + (i - 1) < n THEN t + (i - 1) ELSE t + (i - 1) - n
    BY <2>1, PlaceIs
  <2>3. new[i] = b2[p]
    BY <1>9
  <2>4. (i <= u => old[i] = b[p])
    <3>1. i <= u => i \in 1..u
      BY <1>1
    <3> QED
      BY <1>8, <3>1
  <2> HIDE DEF p
  <2>5. (IF p < h THEN p - h + n ELSE p - h) + 1 = IF i <= u THEN i - u + n ELSE i - u
    BY <1>1, <2>2
  <2>6. b2[p] = IF (IF i <= u THEN i - u + n ELSE i - u) <= k
                THEN chs[IF i <= u THEN i - u + n ELSE i - u] ELSE b[p]
    BY <1>6, <2>2, <2>5
  <2>7. CASE i <= u
    BY <1>1, <1>11, <2>3, <2>4, <2>6, <2>7
  <2>8. CASE u < i
    <3>1. i - u \in 1..k /\ b2[p] = chs[i - u]
      BY <1>1, <2>6, <2>8
    <3>2. ~(i <= u)
      BY <1>1, <2>8
    <3>3. (old \o sub)[i] = sub[i - u]
      BY <1>11, <3>2
    <3> QED
      BY <1>10, <2>3, <3>1, <3>3
  <2>9. i <= u \/ u < i
    BY <1>1
  <2> QED
    BY <2>7, <2>8, <2>9
<1>13. new = old \o sub
  BY <1>9, <1>11, <1>12, SameSequence
<1> QED
  BY <1>2, <1>3, <1>7, <1>13 DEF u, old, new, sub, b2, h2

\* Characters taken at the tail are the first ones.
LEMMA RingTakes ==
    ASSUME NEW b \in Bytes, NEW h \in Places, NEW t \in Places,
           NEW k \in 0..Used(h, t)
    PROVE  /\ (t + k) % INPUT_BUFFER_SIZE \in Places
           /\ Used(h, (t + k) % INPUT_BUFFER_SIZE) = Used(h, t) - k
           /\ Ring(b, h, t) = SubSeq(Ring(b, h, t), 1, k)
                                \o Ring(b, h, (t + k) % INPUT_BUFFER_SIZE)
<1> DEFINE n == INPUT_BUFFER_SIZE
           u == Used(h, t)
           t2 == (t + k) % n
<1>0. t2 = (t + k) % n
  OBVIOUS
<1> HIDE DEF t2
<1>1. /\ n \in Nat /\ n >= 2 /\ u \in 0..(n - 1) /\ k \in 0..(n - 1) /\ k <= u
      /\ u = IF h < t THEN h - t + n ELSE h - t
      /\ h \in 0..(n - 1) /\ t \in 0..(n - 1)
  BY UsedIs, ConsoleAssumption DEF Places
<1>2. t2 \in Places /\ t2 = IF t + k < n THEN t + k ELSE t + k - n
  <2>1. k \in 0..(INPUT_BUFFER_SIZE - 1)
    BY <1>1
  <2> QED
    BY <1>0, <2>1, PlaceIs
<1>3. Used(h, t2) = u - k
  <2>1. Used(h, t2) = IF h < t2 THEN h - t2 + n ELSE h - t2
    BY <1>2, UsedIs
  <2> QED
    BY <1>1, <1>2, <2>1
<1> HIDE DEF u
<1> DEFINE old == Ring(b, h, t)
           new == Ring(b, h, t2)
           sub == SubSeq(old, 1, k)
<1>4. /\ old \in Seq(Int) /\ Len(old) = u
      /\ \A i \in 1..u : old[i] = b[(t + (i - 1)) % n]
  BY RingIs DEF u
<1>5. /\ new \in Seq(Int) /\ Len(new) = u - k
      /\ \A i \in 1..(u - k) : new[i] = b[(t2 + (i - 1)) % n]
  <2>1. /\ new \in Seq(Int) /\ Len(new) = Used(h, t2)
        /\ \A i \in 1..Used(h, t2) : new[i] = b[(t2 + (i - 1)) % n]
    BY <1>2, RingIs
  <2> QED
    BY <1>3, <2>1
<1> HIDE DEF old, new
<1>6. sub \in Seq(Int) /\ Len(sub) = k /\ \A i \in 1..k : sub[i] = old[i]
  BY <1>1, <1>4, Beginning
<1> HIDE DEF sub
<1>7. /\ sub \o new \in Seq(Int) /\ Len(sub \o new) = u
      /\ \A i \in 1..u : (sub \o new)[i] = IF i <= k THEN sub[i] ELSE new[i - k]
  <2>1. /\ sub \o new \in Seq(Int) /\ Len(sub \o new) = k + (u - k)
        /\ \A i \in 1..(k + (u - k)) :
              (sub \o new)[i] = IF i <= k THEN sub[i] ELSE new[i - k]
    <3>1. /\ sub \o new \in Seq(Int) /\ Len(sub \o new) = Len(sub) + Len(new)
          /\ \A i \in 1..(Len(sub) + Len(new)) :
                (sub \o new)[i] = IF i <= Len(sub) THEN sub[i] ELSE new[i - Len(sub)]
      BY <1>5, <1>6, Joined
    <3> QED
      BY <1>5, <1>6, <3>1
  <2>2. k + (u - k) = u
    BY <1>1
  <2> QED
    BY <2>1, <2>2
<1>8. ASSUME NEW i \in 1..u PROVE old[i] = (sub \o new)[i]
  <2>1. CASE i <= k
    BY <1>1, <1>6, <1>7, <2>1
  <2>2. CASE k < i
    <3>1. i - k \in 1..(u - k) /\ i - 1 \in 0..(n - 1) /\ i - k - 1 \in 0..(n - 1)
      BY <1>1, <2>2
    <3>2. (t + (i - 1)) % n = IF t + (i - 1) < n THEN t + (i - 1) ELSE t + (i - 1) - n
      BY <3>1, PlaceIs
    <3>3. (t2 + (i - k - 1)) % n =
             IF t2 + (i - k - 1) < n THEN t2 + (i - k - 1) ELSE t2 + (i - k - 1) - n
      BY <1>2, <3>1, PlaceIs
    <3>4. (t + (i - 1)) % n = (t2 + (i - k - 1)) % n
      BY <1>1, <1>2, <3>2, <3>3
    <3>5. new[i - k] = b[(t2 + (i - k - 1)) % n]
      BY <1>5, <3>1
    <3>6. (sub \o new)[i] = new[i - k]
      <4>1. ~(i <= k)
        BY <1>1, <2>2
      <4> QED
        BY <1>7, <4>1
    <3> QED
      BY <1>4, <3>4, <3>5, <3>6
  <2>3. i <= k \/ k < i
    BY <1>1
  <2> QED
    BY <2>1, <2>2, <2>3
<1>9. old = sub \o new
  BY <1>4, <1>7, <1>8, SameSequence
<1> QED
  BY <1>2, <1>3, <1>9 DEF u, old, new, sub, t2

-----------------------------------------------------------------------------
(* The steps on the ring                                                    *)

LEMMA Stored ==
    ASSUME TypeOK, NEW chs \in Seq(1..MaxTyped), InsertChars(chs)
    PROVE  \E k \in 0..Len(chs) :
             /\ input_buffer' \in Bytes /\ input_buffer_head' \in Places
             /\ UNCHANGED input_buffer_tail
             /\ Available' = Available + k
             /\ Contents' = Contents \o SubSeq(chs, 1, k)
             /\ k = IF Len(chs) <= Room THEN Len(chs) ELSE Room
             /\ where' = IF k > 0 THEN Wake(Readers) ELSE where
<1> DEFINE n == INPUT_BUFFER_SIZE
           h == input_buffer_head
           t == input_buffer_tail
           k == IF Len(chs) <= Room THEN Len(chs) ELSE Room
<1>1. input_buffer \in Bytes /\ h \in Places /\ t \in Places
  BY DEF TypeOK, Bytes
<1>2. Available = Used(h, t) /\ Available \in 0..(n - 1)
  BY <1>1, UsedIs, ContentsRing
<1>3. k \in 0..Len(chs) /\ k <= n - 1 - Used(h, t)
  BY <1>2, ConsoleAssumption DEF Room
<1>b. k = IF Len(chs) <= Room THEN Len(chs) ELSE Room
  OBVIOUS
<1>4. /\ input_buffer' = [i \in Places |-> LET j == ((i - h) % n) + 1
                                          IN IF j <= k THEN chs[j] ELSE input_buffer[i]]
      /\ input_buffer_head' = (h + k) % n
      /\ where' = IF k > 0 THEN Wake(Readers) ELSE where
      /\ UNCHANGED input_buffer_tail
  BY DEF InsertChars, Wrapped
<1> HIDE DEF k
<1>a. input_buffer' = Filled(input_buffer, h, chs, k)
  BY <1>4 DEF Filled
<1>5. /\ input_buffer' \in Bytes /\ input_buffer_head' \in Places
      /\ Used(input_buffer_head', t) = Used(h, t) + k
      /\ Ring(input_buffer', input_buffer_head', t)
           = Ring(input_buffer, h, t) \o SubSeq(chs, 1, k)
  <2>1. /\ Filled(input_buffer, h, chs, k) \in Bytes /\ (h + k) % n \in Places
        /\ Used((h + k) % n, t) = Used(h, t) + k
        /\ Ring(Filled(input_buffer, h, chs, k), (h + k) % n, t)
             = Ring(input_buffer, h, t) \o SubSeq(chs, 1, k)
    BY <1>1, <1>3, RingStores
  <2> QED
    BY <1>4, <1>a, <2>1
<1>6. Available' = Available + k /\ Contents' = Contents \o SubSeq(chs, 1, k)
  BY <1>4, <1>5, ContentsRing
<1> QED
  BY <1>3, <1>4, <1>b, <1>5, <1>6

LEMMA Taken ==
    ASSUME TypeOK, NEW count \in Nat, TakeChars(count)
    PROVE  \E k \in 0..Available :
             /\ input_buffer_tail' \in Places
             /\ UNCHANGED <<input_buffer, input_buffer_head>>
             /\ Available' = Available - k
             /\ Contents = SubSeq(Contents, 1, k) \o Contents'
             /\ received' = received \o SubSeq(Contents, 1, k)
<1> DEFINE n == INPUT_BUFFER_SIZE
           h == input_buffer_head
           t == input_buffer_tail
           k == IF count <= Available THEN count ELSE Available
<1>1. input_buffer \in Bytes /\ h \in Places /\ t \in Places
  BY DEF TypeOK, Bytes
<1>2. Available = Used(h, t) /\ Available \in 0..(n - 1)
  BY <1>1, UsedIs, ContentsRing
<1>3. k \in 0..Available
  BY <1>2, ConsoleAssumption
<1>4. /\ received' = received \o SubSeq(Contents, 1, k)
      /\ input_buffer_tail' = (t + k) % n
      /\ UNCHANGED <<input_buffer, input_buffer_head>>
  BY DEF TakeChars, Wrapped
<1> HIDE DEF k
<1>5. k \in 0..Used(h, t)
  BY <1>2, <1>3
<1>6. /\ input_buffer_tail' \in Places
      /\ Used(h, input_buffer_tail') = Used(h, t) - k
      /\ Ring(input_buffer, h, t)
           = SubSeq(Ring(input_buffer, h, t), 1, k) \o Ring(input_buffer, h, input_buffer_tail')
  BY <1>1, <1>4, <1>5, RingTakes
<1>7. Available' = Available - k /\ Contents = SubSeq(Contents, 1, k) \o Contents'
  BY <1>2, <1>4, <1>6, ContentsRing
<1> QED
  BY <1>3, <1>4, <1>6, <1>7

LEMMA ContentsSeq ==
    ASSUME TypeOK
    PROVE  /\ Contents \in Seq(Int) /\ Len(Contents) = Available
           /\ Available \in 0..(INPUT_BUFFER_SIZE - 1)
<1>1. /\ input_buffer \in Bytes /\ input_buffer_head \in Places
      /\ input_buffer_tail \in Places
  BY DEF TypeOK, Bytes
<1> DEFINE h == input_buffer_head
           t == input_buffer_tail
<1>2. Used(h, t) \in 0..(INPUT_BUFFER_SIZE - 1)
  BY <1>1, UsedIs
<1>3. Ring(input_buffer, h, t) \in Seq(Int) /\ Len(Ring(input_buffer, h, t)) = Used(h, t)
  BY <1>1, RingIs
<1> QED
  BY <1>2, <1>3, ContentsRing

-----------------------------------------------------------------------------
(* Types                                                                    *)

\* What is anywhere in the console was typed; places of the ring that were
\* never written to hold no character.
ConsoleInv ==
    /\ TypeOK
    /\ received \in Seq(1..typed)
    /\ Contents \in Seq(1..typed)
    /\ canon \in Seq(1..typed)
    /\ NoSleepOnData

LEMMA SeqParts ==
    ASSUME NEW S, NEW s \in Seq(S), NEW t \in Seq(S)
    PROVE  /\ s \o t \in Seq(S)
           /\ \A k \in 0..Len(s) : SubSeq(s, 1, k) \in Seq(S)
  OBVIOUS

LEMMA SeqSecond ==
    ASSUME NEW S, NEW s \in Seq(Int), NEW t \in Seq(Int), s \o t \in Seq(S)
    PROVE  t \in Seq(S)
<1>1. /\ Len(s \o t) = Len(s) + Len(t)
      /\ \A i \in 1..Len(t) : (s \o t)[Len(s) + i] = t[i]
  BY Joined
<1>2. ASSUME NEW i \in 1..Len(t) PROVE t[i] \in S
  <2>1. Len(s) + i \in 1..Len(s \o t)
    BY <1>1
  <2>2. (s \o t)[Len(s) + i] \in S
    BY <2>1
  <2> QED
    BY <1>1, <2>2
<1>3. t = [i \in 1..Len(t) |-> t[i]] /\ Len(t) \in Nat
  OBVIOUS
<1> QED
  BY <1>2, <1>3

\* Longer ranges hold more sequences.
LEMMA SeqWider ==
    ASSUME NEW m \in Nat, NEW n \in Nat, m <= n, NEW s \in Seq(1..m)
    PROVE  s \in Seq(1..n)
<1>1. \A x \in 1..m : x \in 1..n
  OBVIOUS
<1> QED
  BY <1>1

LEMMA WakeIs ==
    ASSUME TypeOK
    PROVE  /\ Wake(Readers) \in [Readers -> {"user", "asleep", "woken"}]
           /\ \A r \in Readers : Wake(Readers)[r] # "asleep"
  BY DEF Wake, TypeOK

\* A character that reaches the ring is one that was typed, and wakes the
\* readers.
LEMMA StoredInv ==
    ASSUME ConsoleInv, typed + 1 <= MaxTyped, typed' = typed + 1,
           NEW chs \in Seq(1..(typed + 1)), InsertChars(chs),
           canon' \in Seq(1..(typed + 1)), Len(canon') < CANON_BUFFER_SIZE,
           UNCHANGED <<flags, received>>
    PROVE  ConsoleInv'
<1>1. /\ TypeOK /\ typed \in Nat /\ typed + 1 \in Nat /\ MaxTyped \in Nat
      /\ received \in Seq(1..typed) /\ Contents \in Seq(1..typed)
  BY ConsoleAssumption DEF ConsoleInv, TypeOK
<1>2. /\ chs \in Seq(1..MaxTyped) /\ canon' \in Seq(1..MaxTyped)
      /\ received \in Seq(1..(typed + 1)) /\ Contents \in Seq(1..(typed + 1))
  BY <1>1, SeqWider
<1>3. PICK k \in 0..Len(chs) :
        /\ input_buffer' \in Bytes /\ input_buffer_head' \in Places
        /\ UNCHANGED input_buffer_tail
        /\ Available' = Available + k
        /\ Contents' = Contents \o SubSeq(chs, 1, k)
        /\ where' = IF k > 0 THEN Wake(Readers) ELSE where
  BY <1>1, <1>2, Stored
<1>4. received' \in Seq(1..typed') /\ Contents' \in Seq(1..typed') /\ canon' \in Seq(1..typed')
  BY <1>2, <1>3, SeqParts
<1>5. received' \in Seq(1..MaxTyped)
  BY <1>1, <1>4, SeqWider
<1>6. where' \in [Readers -> {"user", "asleep", "woken"}]
  BY <1>1, <1>3, WakeIs DEF TypeOK
<1>7. TypeOK'
  BY <1>1, <1>2, <1>3, <1>5, <1>6 DEF TypeOK, Bytes
<1>8. NoSleepOnData'
  <2>1. CASE k > 0
    BY <1>1, <1>3, <2>1, WakeIs DEF NoSleepOnData
  <2>2. CASE ~(k > 0)
    <3>1. where' = where /\ Available' = Available + 0
      BY <1>3, <2>2
    <3>2. Available \in Int
      BY <1>1, ContentsSeq
    <3> QED
      BY <3>1, <3>2 DEF ConsoleInv, NoSleepOnData
  <2> QED
    BY <2>1, <2>2
<1> QED
  BY <1>4, <1>7, <1>8 DEF ConsoleInv

\* What a step that leaves the ring and the histories alone keeps.
LEMMA RingUntouched ==
    ASSUME ConsoleInv, UNCHANGED <<ringVars, received>>,
           typed' \in typed..MaxTyped,
           canon' \in Seq(1..typed'), Len(canon') < CANON_BUFFER_SIZE,
           flags' \subseteq Flags, where' \in [Readers -> {"user", "asleep", "woken"}],
           \A r \in Readers : where'[r] = "asleep" => where[r] = "asleep" \/ Available = 0
    PROVE  ConsoleInv'
<1>1. /\ TypeOK /\ typed \in Nat /\ typed' \in Nat /\ typed <= typed' /\ typed' <= MaxTyped
      /\ MaxTyped \in Nat
      /\ received \in Seq(1..typed) /\ Contents \in Seq(1..typed)
  BY ConsoleAssumption DEF ConsoleInv, TypeOK
<1>2. UNCHANGED <<Contents, Available>>
  BY DEF Contents, Available, ringVars
<1>3. /\ received' \in Seq(1..typed') /\ Contents' \in Seq(1..typed')
      /\ canon' \in Seq(1..MaxTyped)
  BY <1>1, <1>2, SeqWider
<1>4. TypeOK'
  BY <1>1, <1>3 DEF TypeOK, ringVars
<1>5. NoSleepOnData'
  BY <1>2 DEF ConsoleInv, NoSleepOnData
<1> QED
  BY <1>3, <1>4, <1>5 DEF ConsoleInv

\* Reading moves characters from the ring to the reader.
LEMMA TakenInv ==
    ASSUME ConsoleInv, NEW count \in Nat, TakeChars(count),
           UNCHANGED <<canon, flags, typed>>,
           where' \in [Readers -> {"user", "asleep", "woken"}],
           \A r \in Readers : where'[r] = "asleep" => where[r] = "asleep"
    PROVE  ConsoleInv'
<1>1. /\ TypeOK /\ typed \in Nat /\ MaxTyped \in Nat /\ typed <= MaxTyped
      /\ received \in Seq(1..typed) /\ Contents \in Seq(1..typed)
  BY ConsoleAssumption DEF ConsoleInv, TypeOK
<1>2. PICK k \in 0..Available :
        /\ input_buffer_tail' \in Places
        /\ UNCHANGED <<input_buffer, input_buffer_head>>
        /\ Available' = Available - k
        /\ Contents = SubSeq(Contents, 1, k) \o Contents'
        /\ received' = received \o SubSeq(Contents, 1, k)
  BY <1>1, Taken
<1>3. Contents \in Seq(Int) /\ Len(Contents) = Available /\ Available \in Nat
  BY <1>1, ContentsSeq, ConsoleAssumption
<1>4. SubSeq(Contents, 1, k) \in Seq(1..typed)
  BY <1>1, <1>3, SeqParts
<1>5. received' \in Seq(1..typed) /\ received' \in Seq(1..MaxTyped)
  <2>1. received' \in Seq(1..typed)
    BY <1>1, <1>2, <1>4, SeqParts
  <2> QED
    BY <1>1, <2>1, SeqWider
<1>6. TypeOK'
  BY <1>1, <1>2, <1>5 DEF TypeOK
<1>7. Contents' \in Seq(1..typed)
  <2>1. Contents' \in Seq(Int)
    <3>1. input_buffer' \in Bytes /\ input_buffer_head' \in Places /\ input_buffer_tail' \in Places
      BY <1>6 DEF TypeOK, Bytes
    <3> QED
      BY <3>1, RingIs, ContentsRing
  <2>2. SubSeq(Contents, 1, k) \in Seq(Int)
    BY <1>4
  <2> QED
    BY <1>1, <1>2, <2>1, <2>2, SeqSecond
<1>8. NoSleepOnData'
  <2>1. ASSUME Available = 0 PROVE Available' = 0
    <3>1. k = 0
      BY <2>1
    <3>2. Available' = 0 - 0
      BY <1>2, <2>1, <3>1
    <3> QED
      BY <3>2
  <2> QED
    BY <2>1 DEF ConsoleInv, NoSleepOnData
<1> QED
  BY <1>5, <1>6, <1>7, <1>8 DEF ConsoleInv

-----------------------------------------------------------------------------
(* Every step keeps the types                                               *)

LEMMA InitConsole == Init => ConsoleInv
<1> SUFFICES ASSUME Init PROVE ConsoleInv
  OBVIOUS
<1>1. TypeOK
  BY ConsoleAssumption DEF Init, TypeOK, Places, Flags
<1>2. Available = 0
  <2>1. input_buffer_head \in Places /\ input_buffer_tail \in Places
        /\ input_buffer_head = 0 /\ input_buffer_tail = 0
    BY <1>1 DEF TypeOK, Init
  <2>2. Used(input_buffer_head, input_buffer_tail) = 0
    BY <2>1, UsedIs
  <2> QED
    BY <2>2, ContentsRing
<1>3. Contents = <<>>
  BY <1>1, <1>2, ContentsSeq
<1> QED
  BY <1>1, <1>3 DEF ConsoleInv, NoSleepOnData, Init

\* A line with one more character.
LEMMA LongerLine ==
    ASSUME ConsoleInv, typed < MaxTyped
    PROVE  /\ typed \in Nat /\ typed + 1 \in 1..MaxTyped
           /\ canon \in Seq(1..(typed + 1))
           /\ Append(canon, typed + 1) \in Seq(1..(typed + 1))
           /\ Len(Append(canon, typed + 1)) = Len(canon) + 1
           /\ <<typed + 1>> \in Seq(1..(typed + 1))
<1>1. typed \in Nat /\ typed + 1 \in 1..MaxTyped /\ typed + 1 \in Nat
  BY ConsoleAssumption DEF ConsoleInv, TypeOK
<1>2. canon \in Seq(1..typed)
  BY DEF ConsoleInv
<1>3. canon \in Seq(1..(typed + 1)) /\ typed + 1 \in 1..(typed + 1)
  BY <1>1, <1>2, SeqWider
<1> QED
  BY <1>1, <1>3

LEMMA InsertConsole ==
    ASSUME ConsoleInv, NEW kind \in Kinds, console_insert_char(kind)
    PROVE  ConsoleInv'
<1>1. /\ typed < MaxTyped /\ typed' = typed + 1 /\ UNCHANGED <<flags, received>>
  BY DEF console_insert_char
<1>2. /\ typed \in Nat /\ typed + 1 \in 1..MaxTyped
      /\ canon \in Seq(1..(typed + 1))
      /\ Append(canon, typed + 1) \in Seq(1..(typed + 1))
      /\ Len(Append(canon, typed + 1)) = Len(canon) + 1
      /\ <<typed + 1>> \in Seq(1..(typed + 1))
  BY <1>1, LongerLine
<1>3. /\ TypeOK /\ Len(canon) < CANON_BUFFER_SIZE /\ CANON_BUFFER_SIZE \in Nat
      /\ CANON_BUFFER_SIZE >= 1
      /\ where \in [Readers -> {"user", "asleep", "woken"}] /\ flags \subseteq Flags
      /\ typed + 1 <= MaxTyped /\ MaxTyped \in Nat
  BY <1>2, ConsoleAssumption DEF ConsoleInv, TypeOK
<1>4. typed' \in typed..MaxTyped
  BY <1>1, <1>2, <1>3
<1>5. CASE ignore_cr(kind)
  BY <1>1, <1>2, <1>3, <1>4, <1>5, RingUntouched DEF ignore_cr
<1>6. CASE raw_char(kind)
  BY <1>1, <1>2, <1>3, <1>6, StoredInv DEF raw_char
<1>7. CASE canonical_erase(kind)
  <2>1. canon' \in Seq(1..(typed + 1)) /\ Len(canon') < CANON_BUFFER_SIZE
    <3>1. CASE canon = <<>>
      BY <1>2, <1>3, <1>7, <3>1 DEF canonical_erase
    <3>2. CASE canon # <<>>
      <4>1. Len(canon) - 1 \in 0..Len(canon) /\ canon' = SubSeq(canon, 1, Len(canon) - 1)
        BY <1>2, <1>7, <3>2 DEF canonical_erase
      <4>2. canon' \in Seq(1..(typed + 1))
        BY <1>2, <4>1, SeqParts
      <4>3. canon \in Seq(Int)
        BY <1>2
      <4>4. Len(canon') = Len(canon) - 1
        BY <4>1, <4>3, Beginning
      <4> QED
        BY <1>2, <1>3, <4>2, <4>4
    <3> QED
      BY <3>1, <3>2
  <2> QED
    BY <1>1, <1>3, <1>4, <1>7, <2>1, RingUntouched DEF canonical_erase
<1>8. CASE canonical_char(kind)
  <2>1. CASE /\ ~Complete(kind)
             /\ canon' = Append(canon, typed + 1)
             /\ UNCHANGED <<ringVars, where>>
    <3>1. Len(canon') < CANON_BUFFER_SIZE
      BY <1>2, <1>3, <2>1 DEF Complete
    <3> QED
      BY <1>1, <1>2, <1>3, <1>4, <2>1, <3>1, RingUntouched
  <2>2. CASE InsertChars(Append(canon, typed + 1)) /\ canon' = <<>>
    <3>1. canon' \in Seq(1..(typed + 1)) /\ Len(canon') < CANON_BUFFER_SIZE
      BY <1>3, <2>2
    <3>2. InsertChars(Append(canon, typed + 1))
      BY <2>2
    <3> QED
      BY <1>1, <1>2, <1>3, <3>1, <3>2, StoredInv
  <2> QED
    BY <1>8, <2>1, <2>2 DEF canonical_char
<1>9. CASE canonical_eof(kind)
  <2>1. CASE InsertChars(canon) /\ canon' = <<>>
    BY <1>1, <1>2, <1>3, <2>1, StoredInv
  <2>2. CASE where' = Wake(Readers) /\ UNCHANGED ringVars /\ canon' = <<>>
    BY <1>1, <1>2, <1>3, <1>4, <2>2, WakeIs, RingUntouched
  <2> QED
    BY <1>9, <2>1, <2>2 DEF canonical_eof
<1> QED
  BY <1>5, <1>6, <1>7, <1>8, <1>9 DEF console_insert_char

LEMMA NextConsole == ConsoleInv /\ [Next]_vars => ConsoleInv'
<1> SUFFICES ASSUME ConsoleInv, [Next]_vars PROVE ConsoleInv'
  OBVIOUS
<1>0. /\ TypeOK /\ canon \in Seq(1..typed) /\ Len(canon) < CANON_BUFFER_SIZE
      /\ where \in [Readers -> {"user", "asleep", "woken"}] /\ flags \subseteq Flags
      /\ typed \in typed..MaxTyped
  BY ConsoleAssumption DEF ConsoleInv, TypeOK
<1>1. ASSUME NEW kind \in Kinds, console_insert_char(kind) PROVE ConsoleInv'
  BY <1>1, InsertConsole
<1>2. ASSUME NEW r \in Readers, console_read_block(r) PROVE ConsoleInv'
  <2>1. /\ where' \in [Readers -> {"user", "asleep", "woken"}]
        /\ \A s \in Readers : where'[s] = "asleep" => where[s] = "asleep" \/ Available = 0
    BY <1>0, <1>2 DEF console_read_block, MustSleep
  <2> QED
    BY <1>0, <1>2, <2>1, RingUntouched DEF console_read_block
<1>3. ASSUME NEW r \in Readers, NEW count \in 1..MaxCount, NEW nonblock \in BOOLEAN,
             console_read_now(r, count, nonblock)
      PROVE  ConsoleInv'
  <2>1. count \in Nat
    BY ConsoleAssumption
  <2> QED
    BY <1>0, <1>3, <2>1, TakenInv DEF console_read_now
<1>4. ASSUME NEW r \in Readers, NEW count \in 1..MaxCount, console_read_woken(r, count)
      PROVE  ConsoleInv'
  <2>1. count \in Nat
    BY ConsoleAssumption
  <2>2. /\ where' \in [Readers -> {"user", "asleep", "woken"}]
        /\ \A s \in Readers : where'[s] = "asleep" => where[s] = "asleep"
    BY <1>0, <1>4 DEF console_read_woken
  <2> QED
    BY <1>4, <2>1, <2>2, TakenInv DEF console_read_woken
<1>5. ASSUME NEW new \in SUBSET Flags, console_ioctl(new) PROVE ConsoleInv'
  BY <1>0, <1>5, RingUntouched DEF console_ioctl
<1>6. CASE UNCHANGED vars
  BY <1>0, <1>6, RingUntouched DEF vars, ringVars
<1> QED
  BY <1>1, <1>2, <1>3, <1>4, <1>5, <1>6 DEF Next

LEMMA SpecConsole == Spec => []ConsoleInv
  BY InitConsole, NextConsole, PTL DEF Spec

-----------------------------------------------------------------------------
(* The order of the characters                                              *)

LEMMA JoinedThrice ==
    ASSUME NEW r \in Seq(Int), NEW s \in Seq(Int), NEW t \in Seq(Int)
    PROVE  (r \o s) \o t = r \o (s \o t)
<1> DEFINE rs == r \o s
           st == s \o t
<1>1. /\ rs \in Seq(Int) /\ Len(rs) = Len(r) + Len(s)
      /\ \A i \in 1..(Len(r) + Len(s)) : rs[i] = IF i <= Len(r) THEN r[i] ELSE s[i - Len(r)]
  BY Joined
<1>2. /\ st \in Seq(Int) /\ Len(st) = Len(s) + Len(t)
      /\ \A i \in 1..(Len(s) + Len(t)) : st[i] = IF i <= Len(s) THEN s[i] ELSE t[i - Len(s)]
  BY Joined
<1> HIDE DEF rs, st
<1> DEFINE p == rs \o t
           q == r \o st
<1>3. /\ p \in Seq(Int) /\ Len(p) = Len(rs) + Len(t)
      /\ \A i \in 1..(Len(rs) + Len(t)) : p[i] = IF i <= Len(rs) THEN rs[i] ELSE t[i - Len(rs)]
  BY <1>1, Joined
<1>4. /\ q \in Seq(Int) /\ Len(q) = Len(r) + Len(st)
      /\ \A i \in 1..(Len(r) + Len(st)) : q[i] = IF i <= Len(r) THEN r[i] ELSE st[i - Len(r)]
  BY <1>2, Joined
<1> HIDE DEF p, q
<1>5. Len(r) \in Nat /\ Len(s) \in Nat /\ Len(t) \in Nat
  OBVIOUS
<1>6. Len(p) = Len(q)
  BY <1>1, <1>2, <1>3, <1>4, <1>5
<1>7. ASSUME NEW i \in 1..Len(p) PROVE p[i] = q[i]
  <2>0. i \in 1..(Len(rs) + Len(t)) /\ i \in 1..(Len(r) + Len(st)) /\ i \in Int
    BY <1>3, <1>4, <1>6
  <2>1. CASE i <= Len(r)
    <3>1. i <= Len(rs) /\ i \in 1..(Len(r) + Len(s))
      BY <1>1, <1>5, <2>0, <2>1
    <3> QED
      BY <1>1, <1>3, <1>4, <2>0, <2>1, <3>1
  <2>2. CASE Len(r) < i /\ i <= Len(r) + Len(s)
    <3>1. /\ i <= Len(rs) /\ i \in 1..(Len(r) + Len(s)) /\ ~(i <= Len(r))
          /\ i - Len(r) \in 1..(Len(s) + Len(t)) /\ i - Len(r) <= Len(s)
      BY <1>1, <1>5, <2>0, <2>2
    <3>2. p[i] = s[i - Len(r)]
      BY <1>1, <1>3, <2>0, <3>1
    <3>3. q[i] = s[i - Len(r)]
      BY <1>2, <1>4, <2>0, <3>1
    <3> QED
      BY <3>2, <3>3
  <2>3. CASE Len(r) + Len(s) < i
    <3>1. /\ ~(i <= Len(rs)) /\ ~(i <= Len(r)) /\ ~(i - Len(r) <= Len(s))
          /\ i - Len(r) \in 1..(Len(s) + Len(t))
          /\ i - Len(r) - Len(s) = i - Len(rs)
      BY <1>1, <1>2, <1>5, <2>0, <2>3
    <3>2. p[i] = t[i - Len(rs)]
      BY <1>3, <2>0, <3>1
    <3>3. q[i] = t[i - Len(r) - Len(s)]
      BY <1>2, <1>4, <2>0, <3>1
    <3> QED
      BY <3>1, <3>2, <3>3
  <2>4. i <= Len(r) \/ (Len(r) < i /\ i <= Len(r) + Len(s)) \/ Len(r) + Len(s) < i
    BY <1>5, <2>0
  <2> QED
    BY <2>1, <2>2, <2>3, <2>4
<1>8. p = q
  BY <1>3, <1>4, <1>6, <1>7, SameSequence
<1> QED
  BY <1>8 DEF p, q, rs, st

LEMMA JoinedEmpty == ASSUME NEW s \in Seq(Int) PROVE s \o <<>> = s
  OBVIOUS

\* A larger number behind, and a beginning, keep a sequence rising.
LEMMA RisingAppended ==
    ASSUME NEW m \in Nat, NEW s \in Seq(1..m), NEW r \in Seq(1..m)
    PROVE  /\ Rising(s) => Rising(Append(s, m + 1))
           /\ Below(r, s) => Below(r, Append(s, m + 1))
<1> DEFINE u == Append(s, m + 1)
<1>1. s \in Seq(Int) /\ r \in Seq(Int) /\ Len(s) \in Nat
  OBVIOUS
<1>2. /\ u \in Seq(Int) /\ Len(u) = Len(s) + 1
      /\ \A i \in 1..Len(s) : u[i] = s[i]
      /\ u[Len(s) + 1] = m + 1
  BY <1>1, Appended
<1>3. /\ \A i \in 1..Len(s) : s[i] \in 1..m
      /\ \A i \in DOMAIN r : r[i] \in 1..m
  OBVIOUS
<1> HIDE DEF u
<1>4. DOMAIN s = 1..Len(s) /\ DOMAIN u = 1..(Len(s) + 1)
  BY <1>1, <1>2
<1>5. \A i \in DOMAIN u : i \in DOMAIN s \/ i = Len(s) + 1
  BY <1>1, <1>4
<1>6. ASSUME Rising(s) PROVE Rising(u)
  <2> SUFFICES ASSUME NEW i \in DOMAIN u, NEW j \in DOMAIN u, i < j PROVE u[i] < u[j]
    BY DEF Rising
  <2>1. CASE j \in DOMAIN s
    <3>1. i \in DOMAIN s
      BY <1>1, <1>4, <2>1
    <3> QED
      BY <1>2, <1>4, <1>6, <2>1, <3>1 DEF Rising
  <2>2. CASE j = Len(s) + 1
    <3>1. i \in 1..Len(s)
      BY <1>1, <1>4, <2>2
    <3>2. u[i] \in 1..m /\ u[j] = m + 1
      BY <1>2, <1>3, <2>2, <3>1
    <3> QED
      BY <3>2
  <2> QED
    BY <1>5, <2>1, <2>2
<1>7. ASSUME Below(r, s) PROVE Below(r, u)
  <2> SUFFICES ASSUME NEW i \in DOMAIN r, NEW j \in DOMAIN u PROVE r[i] < u[j]
    BY DEF Below
  <2>1. CASE j \in DOMAIN s
    BY <1>2, <1>4, <1>7, <2>1 DEF Below
  <2>2. CASE j = Len(s) + 1
    BY <1>2, <1>3, <2>2
  <2> QED
    BY <1>5, <2>1, <2>2
<1> QED
  BY <1>6, <1>7 DEF u

LEMMA RisingBeginning ==
    ASSUME NEW s \in Seq(Int), NEW r \in Seq(Int), NEW k \in 0..Len(s)
    PROVE  /\ Rising(s) => Rising(SubSeq(s, 1, k))
           /\ Below(r, s) => Below(r, SubSeq(s, 1, k))
<1> DEFINE u == SubSeq(s, 1, k)
<1>1. u \in Seq(Int) /\ Len(u) = k /\ \A i \in 1..k : u[i] = s[i]
  BY Beginning
<1> HIDE DEF u
<1>2. DOMAIN u = 1..k /\ \A i \in 1..k : i \in DOMAIN s
  BY <1>1
<1>3. \A i \in DOMAIN u : i \in DOMAIN s /\ u[i] = s[i]
  BY <1>1, <1>2
<1>4. (Rising(s) => Rising(u)) /\ (Below(r, s) => Below(r, u))
  BY <1>3 DEF Rising, Below
<1> QED
  BY <1>4 DEF u

\* What has gone past the line buffer.
Gone == received \o Contents

\* A line is only kept in canonical mode.
LineMode == canon # <<>> => "ICANON" \in flags

OrderInv == Rising(Gone \o canon) /\ LineMode

LEMMA GoneIs ==
    ASSUME ConsoleInv
    PROVE  /\ typed \in Nat /\ typed <= MaxTyped
           /\ Gone \in Seq(1..typed) /\ canon \in Seq(1..typed)
           /\ Gone \in Seq(Int) /\ canon \in Seq(Int)
           /\ received \in Seq(Int) /\ Contents \in Seq(Int)
  BY ConsoleAssumption DEF ConsoleInv, TypeOK, Gone

LEMMA GoneStored ==
    ASSUME ConsoleInv, NEW chs \in Seq(1..MaxTyped), InsertChars(chs), UNCHANGED received
    PROVE  \E k \in 0..Len(chs) :
             /\ Gone' = Gone \o SubSeq(chs, 1, k)
             /\ Contents' = Contents \o SubSeq(chs, 1, k)
             /\ k = IF Len(chs) <= Room THEN Len(chs) ELSE Room
<1>1. TypeOK
  BY DEF ConsoleInv
<1>2. PICK k \in 0..Len(chs) :
         /\ Contents' = Contents \o SubSeq(chs, 1, k)
         /\ k = IF Len(chs) <= Room THEN Len(chs) ELSE Room
  BY <1>1, Stored
<1>a. Contents' = Contents \o SubSeq(chs, 1, k)
  BY <1>2
<1>3. SubSeq(chs, 1, k) \in Seq(1..MaxTyped)
  BY SeqParts
<1>4. SubSeq(chs, 1, k) \in Seq(Int)
  BY <1>3, ConsoleAssumption
<1>5. Gone' = Gone \o SubSeq(chs, 1, k)
  BY <1>a, <1>4, GoneIs, JoinedThrice DEF Gone
<1> QED
  BY <1>2, <1>5

LEMMA GoneTaken ==
    ASSUME ConsoleInv, ConsoleInv', NEW count \in Nat, TakeChars(count)
    PROVE  Gone' = Gone
<1>1. TypeOK
  BY DEF ConsoleInv
<1>2. PICK k \in 0..Available :
         /\ Contents = SubSeq(Contents, 1, k) \o Contents'
         /\ received' = received \o SubSeq(Contents, 1, k)
  BY <1>1, Taken
<1>3. Contents' \in Seq(Int) /\ received \in Seq(Int)
  <2>1. Contents' \in Seq(1..typed') /\ typed' \in 0..MaxTyped
    BY DEF ConsoleInv, TypeOK
  <2> QED
    BY <2>1, GoneIs, ConsoleAssumption
<1>4. SubSeq(Contents, 1, k) \in Seq(Int)
  BY <1>1, ContentsSeq, Beginning
<1>5. Gone' = received \o (SubSeq(Contents, 1, k) \o Contents')
  BY <1>2, <1>3, <1>4, JoinedThrice DEF Gone
<1> QED
  BY <1>2, <1>5 DEF Gone

\* Characters that go into the ring go in behind all that went before.
LEMMA StoredOrder ==
    ASSUME ConsoleInv, OrderInv, typed < MaxTyped,
           NEW chs, chs = canon \/ chs = Append(canon, typed + 1),
           InsertChars(chs), canon' = <<>>, UNCHANGED received
    PROVE  Rising(Gone' \o canon')
<1>1. /\ typed \in Nat /\ Gone \in Seq(1..typed) /\ canon \in Seq(1..typed)
      /\ Gone \in Seq(Int) /\ canon \in Seq(Int)
  BY GoneIs
<1>2. Rising(Gone) /\ Rising(canon) /\ Below(Gone, canon)
  BY <1>1, RisingJoined DEF OrderInv
<1>3. /\ Rising(chs) /\ Below(Gone, chs)
      /\ chs \in Seq(1..(typed + 1))
  <2>1. CASE chs = canon
    BY <1>2, <2>1, LongerLine
  <2>2. CASE chs = Append(canon, typed + 1)
    BY <1>1, <1>2, <2>2, RisingAppended, LongerLine
  <2> QED
    BY <2>1, <2>2
<1>4. chs \in Seq(1..MaxTyped) /\ chs \in Seq(Int)
  <2>1. typed + 1 \in Nat /\ MaxTyped \in Nat /\ typed + 1 <= MaxTyped
    BY <1>1, ConsoleAssumption
  <2> QED
    BY <1>3, <2>1, SeqWider
<1>5. PICK k \in 0..Len(chs) : Gone' = Gone \o SubSeq(chs, 1, k)
  BY <1>4, GoneStored
<1>6. SubSeq(chs, 1, k) \in Seq(Int) /\ Rising(SubSeq(chs, 1, k)) /\ Below(Gone, SubSeq(chs, 1, k))
  BY <1>1, <1>3, <1>4, Beginning, RisingBeginning
<1>7. Gone' \in Seq(Int) /\ Rising(Gone')
  BY <1>1, <1>2, <1>5, <1>6, Joined, RisingJoined
<1> QED
  BY <1>7, JoinedEmpty

\* A line grows at its end and shrinks at its end.
LEMMA LineOrder ==
    ASSUME ConsoleInv, OrderInv, UNCHANGED <<ringVars, received>>,
           \/ canon' = canon
           \/ canon' = Append(canon, typed + 1)
           \/ \E k \in 0..Len(canon) : canon' = SubSeq(canon, 1, k)
    PROVE  Rising(Gone' \o canon')
<1>1. /\ typed \in Nat /\ Gone \in Seq(1..typed) /\ canon \in Seq(1..typed)
      /\ Gone \in Seq(Int) /\ canon \in Seq(Int)
  BY GoneIs
<1>2. Rising(Gone) /\ Rising(canon) /\ Below(Gone, canon)
  BY <1>1, RisingJoined DEF OrderInv
<1>3. Gone' = Gone
  BY DEF Gone, Contents, Available, ringVars
<1>4. canon' \in Seq(Int) /\ Rising(canon') /\ Below(Gone, canon')
  <2>1. CASE canon' = canon
    BY <1>1, <1>2, <2>1
  <2>2. CASE canon' = Append(canon, typed + 1)
    <3>1. canon' \in Seq(Int)
      BY <1>1, <2>2, Appended
    <3> QED
      BY <1>1, <1>2, <2>2, <3>1, RisingAppended
  <2>3. ASSUME NEW k \in 0..Len(canon), canon' = SubSeq(canon, 1, k)
        PROVE  canon' \in Seq(Int) /\ Rising(canon') /\ Below(Gone, canon')
    BY <1>1, <1>2, <2>3, Beginning, RisingBeginning
  <2> QED
    BY <2>1, <2>2, <2>3
<1> QED
  BY <1>1, <1>2, <1>3, <1>4, RisingJoined

LEMMA InitOrder == Init => OrderInv
<1> SUFFICES ASSUME Init PROVE OrderInv
  OBVIOUS
<1>1. ConsoleInv /\ canon = <<>> /\ received = <<>> /\ typed = 0
  BY InitConsole DEF Init
<1>2. Contents = <<>>
  BY <1>1 DEF ConsoleInv
<1>3. Gone \o canon = <<>>
  BY <1>1, <1>2 DEF Gone
<1> QED
  BY <1>1, <1>3 DEF OrderInv, LineMode, Rising

LEMMA InsertOrder ==
    ASSUME ~SwitchMidLine, ConsoleInv, OrderInv,
           NEW kind \in Kinds, console_insert_char(kind)
    PROVE  OrderInv'
<1>1. /\ typed < MaxTyped /\ UNCHANGED <<flags, received>>
  BY DEF console_insert_char
<1>2. canon \in Seq(Int) /\ LineMode
  BY GoneIs DEF OrderInv
<1>3. CASE ignore_cr(kind)
  BY <1>1, <1>2, <1>3, LineOrder DEF ignore_cr, OrderInv, LineMode
<1>4. CASE raw_char(kind)
  <2>1. canon = <<>> /\ canon' = <<>>
    BY <1>2, <1>4 DEF LineMode, raw_char
  <2>2. <<typed + 1>> = Append(canon, typed + 1) /\ InsertChars(<<typed + 1>>)
    BY <1>4, <2>1 DEF raw_char
  <2> QED
    BY <1>1, <2>1, <2>2, StoredOrder DEF OrderInv, LineMode
<1>5. CASE canonical_erase(kind)
  <2>1. /\ UNCHANGED ringVars /\ "ICANON" \in flags
        /\ canon' = IF canon = <<>> THEN <<>> ELSE SubSeq(canon, 1, Len(canon) - 1)
    BY <1>5 DEF canonical_erase
  <2>2. canon' = canon \/ \E k \in 0..Len(canon) : canon' = SubSeq(canon, 1, k)
    <3>1. CASE canon = <<>>
      BY <2>1, <3>1
    <3>2. CASE canon # <<>>
      <4>1. Len(canon) - 1 \in 0..Len(canon)
        BY <1>2, <3>2
      <4> QED
        BY <2>1, <3>2, <4>1
    <3> QED
      BY <3>1, <3>2
  <2> QED
    BY <1>1, <2>1, <2>2, LineOrder DEF OrderInv, LineMode
<1>6. CASE canonical_char(kind)
  <2>1. CASE canon' = Append(canon, typed + 1) /\ UNCHANGED ringVars
    BY <1>1, <1>6, <2>1, LineOrder DEF canonical_char, OrderInv, LineMode
  <2>2. CASE InsertChars(Append(canon, typed + 1)) /\ canon' = <<>>
    BY <1>1, <2>2, StoredOrder DEF OrderInv, LineMode
  <2> QED
    BY <1>6, <2>1, <2>2 DEF canonical_char
<1>7. CASE canonical_eof(kind)
  <2>1. CASE InsertChars(canon) /\ canon' = <<>>
    BY <1>1, <2>1, StoredOrder DEF OrderInv, LineMode
  <2>2. CASE canon = <<>> /\ UNCHANGED ringVars /\ canon' = <<>>
    BY <1>1, <2>2, LineOrder DEF OrderInv, LineMode
  <2> QED
    BY <1>7, <2>1, <2>2 DEF canonical_eof
<1> QED
  BY <1>3, <1>4, <1>5, <1>6, <1>7 DEF console_insert_char

LEMMA NextOrder ==
    ~SwitchMidLine /\ ConsoleInv /\ ConsoleInv' /\ OrderInv /\ [Next]_vars => OrderInv'
<1> SUFFICES ASSUME ~SwitchMidLine, ConsoleInv, ConsoleInv', OrderInv, [Next]_vars
             PROVE  OrderInv'
  OBVIOUS
<1>u. ASSUME UNCHANGED <<ringVars, canon, received>>, canon # <<>> => UNCHANGED flags
      PROVE  OrderInv'
  BY <1>u, LineOrder DEF OrderInv, LineMode
<1>t. ASSUME NEW count \in Nat, TakeChars(count), UNCHANGED <<canon, flags>>
      PROVE  OrderInv'
  BY <1>t, GoneTaken DEF OrderInv, LineMode
<1>1. ASSUME NEW kind \in Kinds, console_insert_char(kind) PROVE OrderInv'
  BY <1>1, InsertOrder
<1>2. ASSUME NEW r \in Readers, console_read_block(r) PROVE OrderInv'
  BY <1>2, <1>u DEF console_read_block
<1>3. ASSUME NEW r \in Readers, NEW count \in 1..MaxCount, NEW nonblock \in BOOLEAN,
             console_read_now(r, count, nonblock)
      PROVE  OrderInv'
  BY <1>3, <1>t, ConsoleAssumption DEF console_read_now
<1>4. ASSUME NEW r \in Readers, NEW count \in 1..MaxCount, console_read_woken(r, count)
      PROVE  OrderInv'
  BY <1>4, <1>t, ConsoleAssumption DEF console_read_woken
<1>5. ASSUME NEW new \in SUBSET Flags, console_ioctl(new) PROVE OrderInv'
  BY <1>5, <1>u DEF console_ioctl
<1>6. CASE UNCHANGED vars
  BY <1>6, <1>u DEF vars, ringVars
<1> QED
  BY <1>1, <1>2, <1>3, <1>4, <1>5, <1>6 DEF Next

-----------------------------------------------------------------------------
(* Whole lines, and a ring that keeps what it has                           *)

LEMMA KeepsStep == ConsoleInv /\ ConsoleInv' /\ [Next]_vars =>
    \/ Gone' = Gone
    \/ \E more \in Seq(Int) : Gone' = Gone \o more
<1> SUFFICES ASSUME ConsoleInv, ConsoleInv', [Next]_vars
             PROVE  Gone' = Gone \/ \E more \in Seq(Int) : Gone' = Gone \o more
  OBVIOUS
<1>u. UNCHANGED <<ringVars, received>> => Gone' = Gone
  BY DEF Gone, Contents, Available, ringVars
<1>s. ASSUME NEW chs \in Seq(1..(typed + 1)), InsertChars(chs), typed < MaxTyped, UNCHANGED received
      PROVE  \E more \in Seq(Int) : Gone' = Gone \o more
  <2>1. typed + 1 \in Nat /\ MaxTyped \in Nat /\ typed + 1 <= MaxTyped
    BY <1>s, GoneIs, ConsoleAssumption
  <2>2. chs \in Seq(1..MaxTyped) /\ chs \in Seq(Int)
    BY <2>1, SeqWider
  <2>3. PICK k \in 0..Len(chs) : Gone' = Gone \o SubSeq(chs, 1, k)
    BY <1>s, <2>2, GoneStored
  <2>4. SubSeq(chs, 1, k) \in Seq(Int)
    BY <2>2, Beginning
  <2> QED
    BY <2>3, <2>4
<1>1. ASSUME NEW kind \in Kinds, console_insert_char(kind)
      PROVE  Gone' = Gone \/ \E more \in Seq(Int) : Gone' = Gone \o more
  <2>1. typed < MaxTyped /\ UNCHANGED received
    BY <1>1 DEF console_insert_char
  <2>2. /\ canon \in Seq(1..(typed + 1)) /\ Append(canon, typed + 1) \in Seq(1..(typed + 1))
        /\ <<typed + 1>> \in Seq(1..(typed + 1))
    BY <2>1, LongerLine
  <2>3. \/ UNCHANGED ringVars
        \/ InsertChars(<<typed + 1>>)
        \/ InsertChars(Append(canon, typed + 1))
        \/ InsertChars(canon)
    BY <1>1 DEF console_insert_char, ignore_cr, raw_char, canonical_erase,
                canonical_char, canonical_eof
  <2> QED
    BY <1>u, <1>s, <2>1, <2>2, <2>3
<1>2. ASSUME NEW r \in Readers, console_read_block(r) PROVE Gone' = Gone
  BY <1>2, <1>u DEF console_read_block
<1>3. ASSUME NEW r \in Readers, NEW count \in 1..MaxCount, NEW nonblock \in BOOLEAN,
             console_read_now(r, count, nonblock)
      PROVE  Gone' = Gone
  BY <1>3, GoneTaken, ConsoleAssumption DEF console_read_now
<1>4. ASSUME NEW r \in Readers, NEW count \in 1..MaxCount, console_read_woken(r, count)
      PROVE  Gone' = Gone
  BY <1>4, GoneTaken, ConsoleAssumption DEF console_read_woken
<1>5. ASSUME NEW new \in SUBSET Flags, console_ioctl(new) PROVE Gone' = Gone
  BY <1>5, <1>u DEF console_ioctl
<1>6. CASE UNCHANGED vars
  BY <1>6, <1>u DEF vars, ringVars
<1> QED
  BY <1>1, <1>2, <1>3, <1>4, <1>5, <1>6 DEF Next

\* As much of a complete line as there is room for.
AsMuchAsFits(line) == SubSeq(line, 1, IF Len(line) <= Room THEN Len(line) ELSE Room)

LEMMA LineStep ==
    ASSUME ConsoleInv, NEW kind \in Kinds \ {"VERASE"}, console_insert_char(kind),
           "ICANON" \in flags, ~Ignored(kind), canon' = <<>>
    PROVE  Contents' = Contents \o AsMuchAsFits(IF kind = "VEOF" THEN canon ELSE Append(canon, typed'))
<1>1. typed < MaxTyped /\ typed' = typed + 1 /\ UNCHANGED received
  BY DEF console_insert_char
<1>2. /\ typed + 1 \in Nat /\ MaxTyped \in Nat /\ typed + 1 <= MaxTyped
      /\ canon \in Seq(1..(typed + 1)) /\ Append(canon, typed + 1) \in Seq(1..(typed + 1))
      /\ Len(Append(canon, typed + 1)) = Len(canon) + 1
  BY <1>1, LongerLine, ConsoleAssumption
<1>3. /\ canon \in Seq(1..MaxTyped) /\ Append(canon, typed + 1) \in Seq(1..MaxTyped)
  BY <1>2, SeqWider
<1>4. ASSUME NEW chs \in Seq(1..MaxTyped), InsertChars(chs)
      PROVE  Contents' = Contents \o AsMuchAsFits(chs)
  <2>1. PICK k \in 0..Len(chs) :
           /\ Contents' = Contents \o SubSeq(chs, 1, k)
           /\ k = IF Len(chs) <= Room THEN Len(chs) ELSE Room
    BY <1>1, <1>4, GoneStored
  <2> QED
    BY <2>1 DEF AsMuchAsFits
\* ^D on an empty line: nothing is there to go into the ring.
<1>5. ASSUME canon = <<>>, UNCHANGED ringVars
      PROVE  Contents' = Contents \o AsMuchAsFits(canon)
  <2>1. Room \in Nat /\ Contents \in Seq(Int)
    <3>1. Available \in 0..(INPUT_BUFFER_SIZE - 1) /\ Contents \in Seq(Int)
      BY ContentsSeq DEF ConsoleInv
    <3> QED
      BY <3>1, ConsoleAssumption DEF Room
  <2>2. AsMuchAsFits(<<>>) = <<>>
    BY <2>1 DEF AsMuchAsFits
  <2>3. Contents' = Contents
    BY <1>5 DEF ringVars, Contents, Available
  <2> QED
    BY <1>5, <2>1, <2>2, <2>3
<1>6. \/ kind = "VEOF" /\ InsertChars(canon)
      \/ kind = "VEOF" /\ canon = <<>> /\ UNCHANGED ringVars
      \/ kind # "VEOF" /\ InsertChars(Append(canon, typed + 1))
  <2>1. ~ignore_cr(kind) /\ ~raw_char(kind) /\ ~canonical_erase(kind)
    BY DEF ignore_cr, raw_char, canonical_erase
  <2>2. CASE canonical_char(kind)
    <3>1. canon' # Append(canon, typed + 1)
      BY <1>2
    <3> QED
      BY <2>2, <3>1 DEF canonical_char
  <2>3. CASE canonical_eof(kind)
    BY <2>3 DEF canonical_eof
  <2> QED
    BY <2>1, <2>2, <2>3 DEF console_insert_char
<1>7. CASE kind = "VEOF" /\ InsertChars(canon)
  BY <1>3, <1>4, <1>7
<1>8. CASE kind = "VEOF" /\ canon = <<>> /\ UNCHANGED ringVars
  BY <1>5, <1>8
<1>9. CASE kind # "VEOF" /\ InsertChars(Append(canon, typed + 1))
  BY <1>1, <1>3, <1>4, <1>9
<1> QED
  BY <1>6, <1>7, <1>8, <1>9

-----------------------------------------------------------------------------
(* The theorems                                                             *)

\* The ring's indexes and the line's length stay in bounds, whatever is typed
\* and whatever programs read or set (console_io.c).
THEOREM ConsoleTypes == Spec => []TypeOK
<1>1. ConsoleInv => TypeOK
  BY DEF ConsoleInv
<1> QED
  BY <1>1, SpecConsole, PTL

\* No reader sleeps while there is something to read: the test, the sleep and
\* the wake-up of console_actual_insert_char() leave no gap.
THEOREM NobodyOversleeps == Spec => []NoSleepOnData
<1>1. ConsoleInv => NoSleepOnData
  BY DEF ConsoleInv
<1> QED
  BY <1>1, SpecConsole, PTL

\* Typed characters reach the readers in order, none twice, through the line
\* buffer and around the end of a ring of any size, if no program leaves
\* canonical mode inside a line (then the rest of the line comes too late).
THEOREM InputInOrder == ~SwitchMidLine => (Spec => []InputRight)
<1> SUFFICES ASSUME ~SwitchMidLine PROVE Spec => []InputRight
  OBVIOUS
<1>1. ConsoleInv /\ ConsoleInv' /\ OrderInv /\ [Next]_vars => OrderInv'
  BY NextOrder
<1>2. ConsoleInv /\ OrderInv => InputRight
  <2>1. ASSUME OrderInv PROVE InOrder
    BY <2>1 DEF OrderInv, Rising, Gone, InOrder
  <2> QED
    BY <2>1 DEF ConsoleInv, InputRight
<1> QED
  BY <1>1, <1>2, InitOrder, SpecConsole, PTL DEF Spec

\* The ring loses nothing and invents nothing: what is in it leaves it only
\* through a reader, in order.
THEOREM RingKeepsAll == Spec => RingKeeps
<1> DEFINE Longer == /\ Len(Gone) <= Len(Gone')
                     /\ SubSeq(Gone', 1, Len(Gone)) = Gone
           Keeps == LET before == received \o Contents
                        after  == received' \o Contents'
                    IN /\ Len(before) <= Len(after)
                       /\ SubSeq(after, 1, Len(before)) = before
<1>1. ConsoleInv /\ ConsoleInv' /\ [Next]_vars => [Keeps]_vars
  <2> SUFFICES ASSUME ConsoleInv, ConsoleInv', [Next]_vars PROVE Longer
    BY DEF Gone
  <2>1. Gone \in Seq(Int)
    BY GoneIs
  <2>2. CASE Gone' = Gone
    BY <2>1, <2>2
  <2>3. ASSUME NEW more \in Seq(Int), Gone' = Gone \o more PROVE Longer
    <3>1. /\ Gone' \in Seq(Int) /\ Len(Gone') = Len(Gone) + Len(more)
          /\ \A i \in 1..Len(Gone) : Gone'[i] = Gone[i]
      BY <2>1, <2>3, Joined
    <3>2. Len(Gone) \in 0..Len(Gone')
      BY <2>1, <3>1
    <3>3. /\ SubSeq(Gone', 1, Len(Gone)) \in Seq(Int)
          /\ Len(SubSeq(Gone', 1, Len(Gone))) = Len(Gone)
          /\ \A i \in 1..Len(Gone) : SubSeq(Gone', 1, Len(Gone))[i] = Gone'[i]
      BY <3>1, <3>2, Beginning
    <3>4. SubSeq(Gone', 1, Len(Gone)) = Gone
      BY <2>1, <3>1, <3>3, SameSequence
    <3> QED
      BY <3>2, <3>4
  <2> QED
    BY <2>2, <2>3, KeepsStep
<1>2. Spec => [][Keeps]_vars
  BY <1>1, SpecConsole, PTL DEF Spec
<1> QED
  BY <1>2 DEF RingKeeps

\* A complete line goes into the ring behind what is there, as far as there is
\* room, and loses its end where there is none: a ring of any size, full or
\* not.
THEOREM LinesStored == Spec => LineStored
<1> DEFINE InStore ==
        \A kind \in Kinds \ {"VERASE"} :
            LET line == IF kind = "VEOF" THEN canon ELSE Append(canon, typed')
                room == INPUT_BUFFER_SIZE - 1 - Available
            IN /\ console_insert_char(kind)
               /\ "ICANON" \in flags /\ ~Ignored(kind) /\ canon' = <<>>
               => Contents' = Contents \o SubSeq(line, 1, IF Len(line) <= room THEN Len(line) ELSE room)
<1>1. ConsoleInv /\ [Next]_vars => [InStore]_vars
  BY LineStep DEF AsMuchAsFits, Room
<1>2. Spec => [][InStore]_vars
  BY <1>1, SpecConsole, PTL DEF Spec
<1> QED
  BY <1>2 DEF LineStored

-----------------------------------------------------------------------------
(* The keyboard                                                             *)

\* Shift, control.
Modifying(k) == k \in {"shift", "ctrl", "right_ctrl"}

\* A key that is not the pause key is going down: some of its codes are sent.
GoingDown(k) ==
    /\ k \in pressed /\ k # "pause" /\ ~keyup /\ pause = 0
    /\ \/ sending = <<KeyCode[k].code>> /\ escape = KeyCode[k].extended
       \/ sending = <<"e0", KeyCode[k].code>> /\ KeyCode[k].extended /\ ~escape
    /\ modifiers \in {Mods(pressed), Mods(pressed \ {k})}
    /\ reported = meant

\* It is coming up, and is reported with the last of them.
ComingUp(k) ==
    /\ k \notin pressed /\ k # "pause" /\ pause = 0
    /\ \/ sending = <<KeyCode[k].code>> /\ keyup /\ escape = KeyCode[k].extended
       \/ sending = <<"f0", KeyCode[k].code>> /\ ~keyup /\ escape = KeyCode[k].extended
       \/ sending = <<"e0", "f0", KeyCode[k].code>> /\ KeyCode[k].extended /\ ~keyup /\ ~escape
    /\ modifiers = Mods(pressed \union {k})
    /\ meant = IF Modifying(k) THEN reported
               ELSE Append(reported, <<Meaning(KeyCode[k]), IF k = "a" THEN modifiers ELSE {}>>)

\* The eight codes of the pause key, of which the handler takes no notice but
\* for counting.
Pausing ==
    /\ ~escape
    /\ \/ sending = <<"e1", "14", "77", "e1", "f0", "14", "f0", "77">> /\ ~keyup /\ pause = 0
       \/ sending = <<"14", "77", "e1", "f0", "14", "f0", "77">> /\ ~keyup /\ pause = 2
       \/ sending = <<"77", "e1", "f0", "14", "f0", "77">> /\ ~keyup /\ pause = 1
       \/ sending = <<"e1", "f0", "14", "f0", "77">> /\ ~keyup /\ pause = 0
       \/ sending = <<"f0", "14", "f0", "77">> /\ ~keyup /\ pause = 2
       \/ sending = <<"14", "f0", "77">> /\ keyup /\ pause = 2
       \/ sending = <<"f0", "77">> /\ keyup /\ pause = 1
       \/ sending = <<"77">> /\ keyup /\ pause = 1
    /\ modifiers = Mods(pressed)
    /\ meant = Append(reported, <<"K_PAUSE", {}>>)

Quiet ==
    /\ sending = <<>> /\ ~keyup /\ ~escape /\ pause = 0
    /\ modifiers = Mods(pressed)
    /\ reported = meant

\* While no interrupt was lost, handler and keyboard are in the same place of
\* the same key.
Together ==
    lost = 0 => \/ Quiet \/ Pausing
                \/ \E k \in Keys : GoingDown(k) \/ ComingUp(k)

\* Between frames the count is 0 or the pause was long enough for it to be.
Counting ==
    /\ lost = 0 => ~slipped
    /\ ~slipped => /\ pos > 0 => clock_bits = pos /\ in_step /\ idle # 3
                   /\ pos = 0 => clock_bits = 0 \/ (idle = 3 /\ old_ticks # 0)

Reports == {"letter", "1", "K_UP", "K_PAUSE", "K_SHFT", "K_CTRL", "K_RSV"}
               \X SUBSET {"K_SHFT", "K_CTRL"}

KbdTypes ==
    /\ pressed \subseteq Keys /\ lost \in Nat /\ pos \in Nat /\ pos < BITS
    /\ clock_bits \in Nat /\ idle \in {0, 2, 3}
    /\ in_step \in BOOLEAN /\ slipped \in BOOLEAN /\ keyup \in BOOLEAN /\ escape \in BOOLEAN
    /\ reported \in Seq(Reports) /\ modifiers \subseteq {"K_SHFT", "K_CTRL"}

KbdInv == KbdTypes /\ Counting /\ Together

\* Of the keys, with what three words stand for one key.
ScanCodes == {"1c", "16", "12", "14", "75", "88"}

LEMMA KeysAre == DOMAIN KeyCode = {"a", "one", "shift", "ctrl", "right_ctrl", "up", "pause"}
  BY DEF KeyCode

LEMMA KeyFacts ==
    \A k \in DOMAIN KeyCode :
        /\ KeyCode[k].code \in ScanCodes /\ KeyCode[k].extended \in BOOLEAN
        /\ KeyCode[k] = [code |-> KeyCode[k].code, extended |-> KeyCode[k].extended]
        /\ KeyCode[k].code \notin {"f0", "e0", "e1"}
        /\ k # "pause" => KeyCode[k].code # "88"
        /\ k = "a" => Meaning(KeyCode[k]) = "letter"
        /\ k = "shift" => Meaning(KeyCode[k]) = "K_SHFT"
        /\ k \in {"ctrl", "right_ctrl"} => Meaning(KeyCode[k]) = "K_CTRL"
        /\ k = "pause" => Meaning(KeyCode[k]) = "K_PAUSE"
        /\ k \in {"one", "up"} => Meaning(KeyCode[k]) \in {"1", "K_UP"}
<1>1. DOMAIN KeyCode = {"a", "one", "shift", "ctrl", "right_ctrl", "up", "pause"}
  BY KeysAre
<1>2. /\ KeyCode["a"] = Plain("1c") /\ KeyCode["one"] = Plain("16") /\ KeyCode["shift"] = Plain("12")
      /\ KeyCode["ctrl"] = Plain("14") /\ KeyCode["right_ctrl"] = Extended("14")
      /\ KeyCode["up"] = Extended("75") /\ KeyCode["pause"] = Plain("88")
  BY DEF KeyCode
<1>3. \A k \in DOMAIN KeyCode : KeyCode[k] \in DOMAIN translate
  BY DEF translate
<1>4. \A k \in DOMAIN KeyCode : Meaning(KeyCode[k]) = 
        CASE KeyCode[k] = KeyCode.a -> "letter"
          [] KeyCode[k] = KeyCode.shift -> "K_SHFT"
          [] KeyCode[k] \in {KeyCode.ctrl, KeyCode.right_ctrl} -> "K_CTRL"
          [] KeyCode[k] = KeyCode.one -> "1"
          [] KeyCode[k] = KeyCode.up -> "K_UP"
          [] KeyCode[k] = KeyCode.pause -> "K_PAUSE"
  BY <1>3 DEF Meaning, translate
<1>5. \A c, d \in ScanCodes :
         /\ Plain(c) # Extended(d)
         /\ c # d => Plain(c) # Plain(d) /\ Extended(c) # Extended(d)
  BY DEF Plain, Extended
<1> SUFFICES ASSUME NEW k \in DOMAIN KeyCode
             PROVE  /\ KeyCode[k].code \in ScanCodes /\ KeyCode[k].extended \in BOOLEAN
                    /\ KeyCode[k] = [code |-> KeyCode[k].code, extended |-> KeyCode[k].extended]
                    /\ KeyCode[k].code \notin {"f0", "e0", "e1"}
                    /\ k # "pause" => KeyCode[k].code # "88"
                    /\ k = "a" => Meaning(KeyCode[k]) = "letter"
                    /\ k = "shift" => Meaning(KeyCode[k]) = "K_SHFT"
                    /\ k \in {"ctrl", "right_ctrl"} => Meaning(KeyCode[k]) = "K_CTRL"
                    /\ k = "pause" => Meaning(KeyCode[k]) = "K_PAUSE"
                    /\ k \in {"one", "up"} => Meaning(KeyCode[k]) \in {"1", "K_UP"}
  OBVIOUS
<1>6. KeyCode[k] \in {Plain("1c"), Plain("16"), Plain("12"), Plain("14"), Extended("14"),
                      Extended("75"), Plain("88")}
  BY <1>1, <1>2
<1>7. k # "pause" => KeyCode[k] \in {Plain("1c"), Plain("16"), Plain("12"), Plain("14"), Extended("14"),
                      Extended("75")}
  BY <1>1, <1>2
<1>8. /\ k = "a" => Meaning(KeyCode[k]) = "letter"
      /\ k = "shift" => Meaning(KeyCode[k]) = "K_SHFT"
      /\ k \in {"ctrl", "right_ctrl"} => Meaning(KeyCode[k]) = "K_CTRL"
      /\ k = "pause" => Meaning(KeyCode[k]) = "K_PAUSE"
      /\ k \in {"one", "up"} => Meaning(KeyCode[k]) \in {"1", "K_UP"}
  <2>1. CASE k = "a"
    BY <1>2, <1>4, <1>5, <2>1 DEF ScanCodes
  <2>2. CASE k = "one"
    BY <1>2, <1>4, <1>5, <2>2 DEF ScanCodes
  <2>3. CASE k = "shift"
    BY <1>2, <1>4, <1>5, <2>3 DEF ScanCodes
  <2>4. CASE k = "ctrl"
    BY <1>2, <1>4, <1>5, <2>4 DEF ScanCodes
  <2>5. CASE k = "right_ctrl"
    BY <1>2, <1>4, <1>5, <2>5 DEF ScanCodes
  <2>6. CASE k = "up"
    BY <1>2, <1>4, <1>5, <2>6 DEF ScanCodes
  <2>7. CASE k = "pause"
    BY <1>2, <1>4, <1>5, <2>7 DEF ScanCodes
  <2> QED
    BY <1>1, <2>1, <2>2, <2>3, <2>4, <2>5, <2>6, <2>7
<1>9. ASSUME NEW r, NEW c \in ScanCodes, NEW x \in BOOLEAN, r = [code |-> c, extended |-> x]
      PROVE  r.code \in ScanCodes /\ r.extended \in BOOLEAN /\ r = [code |-> r.code, extended |-> r.extended]
  <2>1. r.code = c /\ r.extended = x
    BY <1>9
  <2> QED
    BY <1>9, <2>1
<1>10. /\ KeyCode[k].code \in ScanCodes /\ KeyCode[k].extended \in BOOLEAN
       /\ KeyCode[k] = [code |-> KeyCode[k].code, extended |-> KeyCode[k].extended]
  <2>1. PICK c \in ScanCodes : KeyCode[k] \in {Plain(c), Extended(c)}
    BY <1>6 DEF ScanCodes
  <2>2. CASE KeyCode[k] = Plain(c)
    BY <1>9, <2>2 DEF Plain
  <2>3. CASE KeyCode[k] = Extended(c)
    BY <1>9, <2>3 DEF Extended
  <2> QED
    BY <2>1, <2>2, <2>3
<1>11. \A c \in ScanCodes : c \notin {"f0", "e0", "e1"}
  BY DEF ScanCodes
<1>12. k # "pause" => KeyCode[k].code \in {"1c", "16", "12", "14", "75"}
  BY <1>7 DEF Plain, Extended
<1> QED
  BY <1>8, <1>10, <1>11, <1>12

LEMMA ModsAre ==
    \A S : \A k \in Keys :
        /\ Mods(S) \subseteq {"K_SHFT", "K_CTRL"}
        /\ ~Modifying(k) => Mods(S \union {k}) = Mods(S) /\ Mods(S \ {k}) = Mods(S)
        /\ Modifying(k) => Mods(S \union {k}) = Mods(S) \union {Meaning(KeyCode[k])}
        /\ Modifying(k) /\ S \subseteq Keys => Mods(S \ {k}) = Mods(S) \ {Meaning(KeyCode[k])}
<1> SUFFICES ASSUME NEW S, NEW k \in Keys
             PROVE  /\ Mods(S) \subseteq {"K_SHFT", "K_CTRL"}
                    /\ ~Modifying(k) => Mods(S \union {k}) = Mods(S) /\ Mods(S \ {k}) = Mods(S)
                    /\ Modifying(k) => Mods(S \union {k}) = Mods(S) \union {Meaning(KeyCode[k])}
                    /\ Modifying(k) /\ S \subseteq Keys => Mods(S \ {k}) = Mods(S) \ {Meaning(KeyCode[k])}
  OBVIOUS
<1>1. ASSUME NEW T
      PROVE  /\ "K_SHFT" \in Mods(T) <=> "shift" \in T
             /\ "K_CTRL" \in Mods(T) <=> "ctrl" \in T \/ "right_ctrl" \in T
             /\ Mods(T) \subseteq {"K_SHFT", "K_CTRL"}
  <2>1. T \cap {"ctrl", "right_ctrl"} # {} <=> "ctrl" \in T \/ "right_ctrl" \in T
    OBVIOUS
  <2> QED
    BY <2>1 DEF Mods
<1>2. /\ k = "shift" => Meaning(KeyCode[k]) = "K_SHFT"
      /\ k \in {"ctrl", "right_ctrl"} => Meaning(KeyCode[k]) = "K_CTRL"
  BY KeyFacts, KeyboardAssumption
<1>3. CASE ~Modifying(k)
  BY <1>1, <1>3 DEF Modifying
<1>4. CASE k = "shift"
  BY <1>1, <1>2, <1>4 DEF Modifying
<1>5. CASE k \in {"ctrl", "right_ctrl"}
  <2>1. S \subseteq Keys => "ctrl" \notin S \ {k} /\ "right_ctrl" \notin S \ {k}
    BY <1>5, KeyboardAssumption
  <2> QED
    BY <1>1, <1>2, <1>5, <2>1 DEF Modifying
<1> QED
  BY <1>3, <1>4, <1>5 DEF Modifying

LEMMA KbdInvInit == KbdInit => KbdInv
<1> SUFFICES ASSUME KbdInit PROVE KbdInv
  OBVIOUS
<1>1. Mods({}) = {}
  BY DEF Mods
<1>2. KbdTypes
  <2>1. 0 < BITS
    BY KeyboardAssumption
  <2>2. <<>> \in Seq(Reports)
    OBVIOUS
  <2> QED
    BY <2>1, <2>2 DEF KbdInit, KbdTypes
<1>3. Counting
  BY DEF KbdInit, Counting
<1>4. Quiet
  BY <1>1 DEF KbdInit, Quiet
<1> QED
  BY <1>2, <1>3, <1>4 DEF KbdInv, Together

\* The codes of a key begin where the handler is when it is quiet.
LEMMA KeyEventInv ==
    ASSUME KbdInv, NEW k \in Keys, key_event(k)
    PROVE  KbdInv'
<1>1. /\ sending = <<>>
      /\ UNCHANGED <<pos, idle, tick_counter, old_ticks, clock_bits, in_step, keyup,
                     escape, pause, modifiers, reported, lost, slipped>>
  BY DEF key_event
<1>2. KbdTypes' /\ Counting'
  <2>1. KbdTypes /\ Counting
    BY DEF KbdInv
  <2>2. pressed' \subseteq Keys
    BY <2>1 DEF KbdTypes, key_event
  <2>3. Counting'
    BY <1>1, <2>1 DEF Counting
  <2>4. KbdTypes'
    BY <1>1, <2>1, <2>2 DEF KbdTypes
  <2> QED
    BY <2>3, <2>4
<1>3. ASSUME lost = 0
      PROVE  Quiet' \/ Pausing' \/ GoingDown(k)' \/ ComingUp(k)'
  <2>1. Quiet
    BY <1>1, <1>3 DEF KbdInv, Together, Pausing, GoingDown, ComingUp
  <2>2. k \in DOMAIN KeyCode
    BY KeyboardAssumption
  <2>3. \A r : Means(r) = Append(meant, r)
    BY <1>3 DEF Means
  <2>4. CASE /\ pressed' = pressed \union {k}
             /\ sending' = DownCodes(k)
             /\ meant' = IF k = "pause" THEN Means(<<"K_PAUSE", {}>>) ELSE meant
    <3>1. CASE k = "pause"
      <4>1. Mods(pressed') = Mods(pressed)
        BY <2>4, <3>1, ModsAre DEF Modifying
      <4>2. sending' = <<"e1", "14", "77", "e1", "f0", "14", "f0", "77">>
        BY <2>4, <3>1 DEF DownCodes
      <4>3. meant' = Append(reported', <<"K_PAUSE", {}>>)
        BY <1>1, <2>1, <2>3, <2>4, <3>1 DEF Quiet
      <4> QED
        BY <1>1, <2>1, <4>1, <4>2, <4>3 DEF Quiet, Pausing
    <3>2. CASE k # "pause"
      <4>1. modifiers' \in {Mods(pressed'), Mods(pressed' \ {k})}
        <5>1. CASE k \in pressed
          BY <1>1, <2>1, <2>4, <5>1 DEF Quiet
        <5>2. CASE k \notin pressed
          <6>1. (pressed \union {k}) \ {k} = pressed
            BY <5>2
          <6> QED
            BY <1>1, <2>1, <2>4, <6>1 DEF Quiet
        <5> QED
          BY <5>1, <5>2
      <4>2. \/ sending' = <<KeyCode[k].code>> /\ ~KeyCode[k].extended
            \/ sending' = <<"e0", KeyCode[k].code>> /\ KeyCode[k].extended
        BY <2>2, <2>4, <3>2, KeyFacts DEF DownCodes
      <4>3. meant' = reported'
        BY <1>1, <2>1, <2>4, <3>2 DEF Quiet
      <4>4. keyup' = FALSE /\ escape' = FALSE /\ pause' = 0 /\ k \in pressed'
        BY <1>1, <2>1, <2>4 DEF Quiet, KbdInv, KbdTypes
      <4> QED
        BY <2>2, <3>2, <4>1, <4>2, <4>3, <4>4, KeyFacts DEF GoingDown
    <3> QED
      BY <3>1, <3>2
  <2>5. CASE /\ k \in pressed
             /\ pressed' = pressed \ {k}
             /\ sending' = UpCodes(k)
             /\ meant' = IF k \in {"shift", "ctrl", "right_ctrl", "pause"} THEN meant
                         ELSE Means(<<Meaning(KeyCode[k]),
                                      IF k = "a" THEN Mods(pressed) ELSE {}>>)
    <3>1. CASE k = "pause"
      <4>1. Mods(pressed') = Mods(pressed)
        BY <2>5, <3>1, ModsAre DEF Modifying
      <4> QED
        BY <1>1, <2>1, <2>5, <3>1, <4>1 DEF UpCodes, Quiet
    <3>2. CASE k # "pause"
      <4>1. modifiers' = Mods(pressed' \union {k}) /\ modifiers' = Mods(pressed)
        <5>1. (pressed \ {k}) \union {k} = pressed
          BY <2>5
        <5> QED
          BY <1>1, <2>1, <2>5, <5>1 DEF Quiet
      <4>2. \/ sending' = <<"f0", KeyCode[k].code>> /\ ~KeyCode[k].extended
            \/ sending' = <<"e0", "f0", KeyCode[k].code>> /\ KeyCode[k].extended
        BY <2>2, <2>5, <3>2, KeyFacts DEF UpCodes
      <4>3. meant' = IF Modifying(k) THEN reported'
                     ELSE Append(reported', <<Meaning(KeyCode[k]), IF k = "a" THEN modifiers' ELSE {}>>)
        BY <1>1, <2>1, <2>3, <2>5, <3>2, <4>1 DEF Quiet, Modifying
      <4>4. keyup' = FALSE /\ escape' = FALSE /\ pause' = 0 /\ k \notin pressed'
        BY <1>1, <2>1, <2>5 DEF Quiet, KbdInv, KbdTypes
      <4> QED
        BY <2>2, <3>2, <4>1, <4>2, <4>3, <4>4, KeyFacts DEF ComingUp
    <3> QED
      BY <3>1, <3>2
  <2> QED
    BY <2>4, <2>5 DEF key_event
<1>4. Together'
  BY <1>1, <1>3 DEF Together
<1> QED
  BY <1>2, <1>4 DEF KbdInv

\* One code is taken, which is the one that was sent: what is reported.
LEMMA CodeTaken ==
    ASSUME KbdInv, lost = 0, sending # <<>>, ps2_code(Head(sending)),
           sending' = Tail(sending), UNCHANGED <<pressed, meant, lost>>
    PROVE  Together'
<1> DEFINE code == Head(sending)
<1>1. code = "f0" => keyup' = TRUE /\ UNCHANGED <<escape, pause, modifiers, reported>>
  BY DEF ps2_code
<1>2. code = "e0" => escape' = TRUE /\ UNCHANGED <<keyup, pause, modifiers, reported>>
  BY DEF ps2_code
<1>3. code = "e1" => pause' = 2 /\ UNCHANGED <<keyup, escape, modifiers, reported>>
  BY DEF ps2_code
<1>4. code \notin {"f0", "e0", "e1"} /\ pause = 2 =>
        pause' = 1 /\ UNCHANGED <<keyup, escape, modifiers, reported>>
  BY DEF ps2_code
<1>5. code \notin {"f0", "e0", "e1"} /\ pause # 2 =>
        keyup' = FALSE /\ escape' = FALSE /\ pause' = 0
  BY DEF ps2_code
<1>6. ASSUME code \notin {"f0", "e0", "e1"}, pause = 1
      PROVE  translate_key([code |-> "88", extended |-> FALSE], ~keyup)
  <2> DEFINE key == IF pause = 1 THEN "88" ELSE code
  <2>1. key = "88" /\ (escape /\ key # "88") = FALSE
    BY <1>6
  <2>2. translate_key([code |-> key, extended |-> escape /\ key # "88"], ~keyup)
    BY <1>6 DEF ps2_code
  <2> QED
    BY <2>1, <2>2
<1>7. ASSUME code \notin {"f0", "e0", "e1", "88"}, pause = 0
      PROVE  translate_key([code |-> code, extended |-> escape], ~keyup)
  <2> DEFINE key == IF pause = 1 THEN "88" ELSE code
  <2>1. key = code /\ (escape /\ key # "88") = escape
    BY <1>7 DEF KbdInv, KbdTypes
  <2>2. translate_key([code |-> key, extended |-> escape /\ key # "88"], ~keyup)
    BY <1>7 DEF ps2_code
  <2> QED
    BY <2>1, <2>2
<1>8. Mods(pressed') = Mods(pressed)
  OBVIOUS
<1> HIDE DEF code
<1>9. CASE Pausing
  <2>1. Meaning([code |-> "88", extended |-> FALSE]) = "K_PAUSE"
    <3>1. KeyCode["pause"] = [code |-> "88", extended |-> FALSE] /\ "pause" \in DOMAIN KeyCode
      BY DEF KeyCode, Plain
    <3> QED
      BY <3>1, KeyFacts
  <2>2. ~escape /\ escape \in BOOLEAN /\ modifiers = Mods(pressed)
        /\ meant = Append(reported, <<"K_PAUSE", {}>>)
    BY <1>9 DEF Pausing, KbdInv, KbdTypes
  <2>3. CASE sending = <<"e1", "14", "77", "e1", "f0", "14", "f0", "77">> /\ keyup = FALSE /\ pause = 0
    <3>1. code = "e1" /\ sending' = <<"14", "77", "e1", "f0", "14", "f0", "77">>
      BY <2>3 DEF code
    <3> QED
      BY <1>1, <1>3, <1>4, <1>8, <2>2, <2>3, <3>1 DEF Pausing, Together
  <2>4. CASE sending = <<"14", "77", "e1", "f0", "14", "f0", "77">> /\ keyup = FALSE /\ pause = 2
    <3>1. code = "14" /\ sending' = <<"77", "e1", "f0", "14", "f0", "77">>
      BY <2>4 DEF code
    <3> QED
      BY <1>1, <1>3, <1>4, <1>8, <2>2, <2>4, <3>1 DEF Pausing, Together
  <2>5. CASE sending = <<"77", "e1", "f0", "14", "f0", "77">> /\ keyup = FALSE /\ pause = 1
    <3>1. code = "77" /\ sending' = <<"e1", "f0", "14", "f0", "77">>
      BY <2>5 DEF code
    <3>2. reported' = reported /\ modifiers' = modifiers
      BY <1>6, <2>1, <2>5, <3>1 DEF translate_key
    <3>3. keyup' = FALSE /\ escape' = FALSE /\ pause' = 0
      BY <1>5, <2>5, <3>1
    <3> QED
      BY <1>8, <2>2, <3>1, <3>2, <3>3 DEF Pausing, Together
  <2>6. CASE sending = <<"e1", "f0", "14", "f0", "77">> /\ keyup = FALSE /\ pause = 0
    <3>1. code = "e1" /\ sending' = <<"f0", "14", "f0", "77">>
      BY <2>6 DEF code
    <3> QED
      BY <1>1, <1>3, <1>4, <1>8, <2>2, <2>6, <3>1 DEF Pausing, Together
  <2>7. CASE sending = <<"f0", "14", "f0", "77">> /\ keyup = FALSE /\ pause = 2
    <3>1. code = "f0" /\ sending' = <<"14", "f0", "77">>
      BY <2>7 DEF code
    <3> QED
      BY <1>1, <1>3, <1>4, <1>8, <2>2, <2>7, <3>1 DEF Pausing, Together
  <2>8. CASE sending = <<"14", "f0", "77">> /\ keyup = TRUE /\ pause = 2
    <3>1. code = "14" /\ sending' = <<"f0", "77">>
      BY <2>8 DEF code
    <3> QED
      BY <1>1, <1>3, <1>4, <1>8, <2>2, <2>8, <3>1 DEF Pausing, Together
  <2>9. CASE sending = <<"f0", "77">> /\ keyup = TRUE /\ pause = 1
    <3>1. code = "f0" /\ sending' = <<"77">>
      BY <2>9 DEF code
    <3> QED
      BY <1>1, <1>3, <1>4, <1>8, <2>2, <2>9, <3>1 DEF Pausing, Together
  <2>10. CASE sending = <<"77">> /\ keyup = TRUE /\ pause = 1
    <3>1. code = "77" /\ sending' = <<>>
      BY <2>10 DEF code
    <3>2. reported' = Append(reported, <<"K_PAUSE", {}>>) /\ modifiers' = modifiers
      BY <1>6, <2>1, <2>10, <3>1 DEF translate_key, Report
    <3> QED
      BY <1>5, <1>8, <2>2, <2>10, <3>1, <3>2 DEF Quiet, Together
  <2> QED
    BY <1>9, <2>3, <2>4, <2>5, <2>6, <2>7, <2>8, <2>9, <2>10 DEF Pausing, KbdInv, KbdTypes
<1>10. ASSUME NEW k \in Keys, GoingDown(k)
      PROVE  Together'
  <2>1. k \in DOMAIN KeyCode
    BY KeyboardAssumption
  <2>2. CASE sending = <<"e0", KeyCode[k].code>> /\ KeyCode[k].extended /\ ~escape
    <3>1. code = "e0" /\ sending' = <<KeyCode[k].code>>
      BY <2>2 DEF code
    <3>2. escape' = TRUE /\ KeyCode[k].extended = TRUE
      BY <1>2, <2>1, <2>2, <3>1, KeyFacts
    <3>3. GoingDown(k)'
      <4>1. pressed' = pressed /\ keyup' = keyup /\ pause' = pause /\ modifiers' = modifiers
            /\ reported' = meant'
        BY <1>2, <1>10, <3>1 DEF GoingDown
      <4> QED
        BY <1>10, <3>1, <3>2, <4>1 DEF GoingDown
    <3> QED
      BY <3>3 DEF Together
  <2>3. CASE sending = <<KeyCode[k].code>> /\ escape = KeyCode[k].extended
    <3>1. code = KeyCode[k].code /\ sending' = <<>>
      BY <2>3 DEF code
    <3>2. translate_key(KeyCode[k], TRUE)
      <4>1. KeyCode[k] = [code |-> code, extended |-> escape]
        BY <2>1, <2>3, <3>1, KeyFacts
      <4>2. keyup = FALSE
        BY <1>10 DEF GoingDown, KbdInv, KbdTypes
      <4>3. (~keyup) = TRUE
        BY <4>2
      <4>4. code \notin {"f0", "e0", "e1", "88"} /\ pause = 0
        BY <1>10, <2>1, <3>1, KeyFacts DEF GoingDown
      <4> QED
        BY <1>7, <4>1, <4>3, <4>4
    <3>3. reported' = meant'
      BY <1>10, <3>2 DEF translate_key, GoingDown
    <3>4. modifiers' = Mods(pressed')
      <4>1. k \in pressed /\ modifiers \in {Mods(pressed), Mods(pressed \ {k})}
        BY <1>10 DEF GoingDown
      <4>2. CASE Modifying(k)
        <5>1. modifiers' = modifiers \union {Meaning(KeyCode[k])}
          BY <2>1, <3>2, <4>2, KeyFacts DEF translate_key, Modifying
        <5>2. \A S : Mods(S \union {k}) = Mods(S) \union {Meaning(KeyCode[k])}
          BY <4>2, ModsAre
        <5>3. Mods(pressed) = Mods(pressed) \union {Meaning(KeyCode[k])}
          <6>1. pressed \union {k} = pressed
            BY <4>1
          <6> QED
            BY <5>2, <6>1
        <5>4. Mods(pressed) = Mods(pressed \ {k}) \union {Meaning(KeyCode[k])}
          <6>1. (pressed \ {k}) \union {k} = pressed
            BY <4>1
          <6> QED
            BY <5>2, <6>1
        <5> QED
          BY <1>8, <4>1, <5>1, <5>3, <5>4
      <4>3. CASE ~Modifying(k)
        <5>1. modifiers' = modifiers
          BY <2>1, <3>2, <4>3, KeyFacts, KeysAre DEF translate_key, Modifying
        <5> QED
          BY <1>8, <4>1, <4>3, <5>1, ModsAre
      <4> QED
        BY <4>2, <4>3
    <3>5. keyup' = FALSE /\ escape' = FALSE /\ pause' = 0
      BY <1>5, <1>10, <2>1, <3>1, KeyFacts DEF GoingDown
    <3> QED
      BY <3>1, <3>3, <3>4, <3>5 DEF Together, Quiet
  <2> QED
    BY <1>10, <2>2, <2>3 DEF GoingDown
<1>11. ASSUME NEW k \in Keys, ComingUp(k)
      PROVE  Together'
  <2>1. k \in DOMAIN KeyCode
    BY KeyboardAssumption
  <2>2. CASE sending = <<"e0", "f0", KeyCode[k].code>> /\ KeyCode[k].extended /\ ~keyup /\ ~escape
    <3>1. code = "e0" /\ sending' = <<"f0", KeyCode[k].code>>
      BY <2>2 DEF code
    <3>2. escape' = TRUE /\ KeyCode[k].extended = TRUE
      BY <1>2, <2>1, <2>2, <3>1, KeyFacts
    <3>3. ComingUp(k)'
      BY <1>2, <1>11, <2>2, <3>1, <3>2 DEF ComingUp
    <3> QED
      BY <3>3 DEF Together
  <2>3. CASE sending = <<"f0", KeyCode[k].code>> /\ ~keyup /\ escape = KeyCode[k].extended
    <3>1. code = "f0" /\ sending' = <<KeyCode[k].code>>
      BY <2>3 DEF code
    <3>2. ComingUp(k)'
      BY <1>1, <1>11, <2>3, <3>1 DEF ComingUp
    <3> QED
      BY <3>2 DEF Together
  <2>4. CASE sending = <<KeyCode[k].code>> /\ keyup /\ escape = KeyCode[k].extended
    <3>1. code = KeyCode[k].code /\ sending' = <<>>
      BY <2>4 DEF code
    <3>2. translate_key(KeyCode[k], FALSE)
      <4>1. KeyCode[k] = [code |-> code, extended |-> escape]
        BY <2>1, <2>4, <3>1, KeyFacts
      <4>2. keyup = TRUE
        BY <2>4 DEF KbdInv, KbdTypes
      <4>3. (~keyup) = FALSE
        BY <4>2
      <4>4. code \notin {"f0", "e0", "e1", "88"} /\ pause = 0
        BY <1>11, <2>1, <3>1, KeyFacts DEF ComingUp
      <4> QED
        BY <1>7, <4>1, <4>3, <4>4
    <3>3. modifiers = Mods(pressed \union {k}) /\ k \notin pressed
          /\ pressed \subseteq Keys
      BY <1>11 DEF ComingUp, KbdInv, KbdTypes
    <3>4. reported' = meant' /\ modifiers' = Mods(pressed')
      <4>1. CASE Modifying(k)
        <5>1. modifiers' = modifiers \ {Meaning(KeyCode[k])} /\ reported' = reported
          BY <2>1, <3>2, <4>1, KeyFacts DEF translate_key, Modifying
        <5>2. (pressed \union {k}) \ {k} = pressed /\ pressed \union {k} \subseteq Keys
          BY <3>3
        <5>3. Mods(pressed) = Mods(pressed \union {k}) \ {Meaning(KeyCode[k])}
          <6>1. Mods((pressed \union {k}) \ {k}) = Mods(pressed \union {k}) \ {Meaning(KeyCode[k])}
            BY <4>1, <5>2, ModsAre
          <6> QED
            BY <5>2, <6>1
        <5> QED
          BY <1>8, <1>11, <3>3, <4>1, <5>1, <5>3 DEF ComingUp
      <4>2. CASE ~Modifying(k)
        <5>1. modifiers' = modifiers /\ reported' = Append(reported, Report(Meaning(KeyCode[k])))
          BY <2>1, <3>2, <4>2, KeyFacts, KeysAre DEF translate_key, Modifying
        <5>2. Report(Meaning(KeyCode[k])) = <<Meaning(KeyCode[k]), IF k = "a" THEN modifiers ELSE {}>>
          BY <2>1, <4>2, KeyFacts, KeysAre DEF Report, Modifying
        <5> QED
          BY <1>8, <1>11, <3>3, <4>2, <5>1, <5>2, ModsAre DEF ComingUp
      <4> QED
        BY <4>1, <4>2
    <3>5. keyup' = FALSE /\ escape' = FALSE /\ pause' = 0
      BY <1>5, <1>11, <2>1, <3>1, KeyFacts DEF ComingUp
    <3> QED
      BY <3>1, <3>4, <3>5 DEF Together, Quiet
  <2> QED
    BY <1>11, <2>2, <2>3, <2>4 DEF ComingUp
<1> QED
  BY <1>9, <1>10, <1>11 DEF KbdInv, Together, Quiet

LEMMA MeaningIs == \A key : Meaning(key) \in {"letter", "1", "K_UP", "K_PAUSE", "K_SHFT", "K_CTRL", "K_RSV"}
<1> SUFFICES ASSUME NEW key
             PROVE  Meaning(key) \in {"letter", "1", "K_UP", "K_PAUSE", "K_SHFT", "K_CTRL", "K_RSV"}
  OBVIOUS
<1>1. CASE key \in DOMAIN translate
  <2>1. PICK k \in DOMAIN KeyCode : key = KeyCode[k]
    BY <1>1 DEF translate
  <2> QED
    BY <2>1, KeyFacts, KeysAre
<1>2. CASE key \notin DOMAIN translate
  BY <1>2 DEF Meaning
<1> QED
  BY <1>1, <1>2

LEMMA CodeTypes ==
    ASSUME KbdTypes, NEW code, ps2_code(code)
    PROVE  /\ keyup' \in BOOLEAN /\ escape' \in BOOLEAN
           /\ reported' \in Seq(Reports) /\ modifiers' \subseteq {"K_SHFT", "K_CTRL"}
<1>1. keyup' \in BOOLEAN /\ escape' \in BOOLEAN
  BY DEF KbdTypes, ps2_code
<1>2. \/ UNCHANGED <<reported, modifiers>>
      \/ \E key, down : translate_key(key, down)
  BY DEF ps2_code
<1>3. ASSUME NEW key, NEW down, translate_key(key, down)
      PROVE  reported' \in Seq(Reports) /\ modifiers' \subseteq {"K_SHFT", "K_CTRL"}
  <2>1. Report(Meaning(key)) \in Reports
    BY MeaningIs DEF Report, Reports, KbdTypes
  <2>2. reported' \in {reported, Append(reported, Report(Meaning(key)))}
    BY <1>3 DEF translate_key
  <2>3. modifiers' \subseteq {"K_SHFT", "K_CTRL"}
    BY <1>3 DEF translate_key, KbdTypes
  <2> QED
    BY <2>1, <2>2, <2>3 DEF KbdTypes
<1> QED
  BY <1>1, <1>2, <1>3 DEF KbdTypes

LEMMA HandlerInv == KbdInv /\ ps2_interrupt_handler => KbdInv'
<1> SUFFICES ASSUME KbdInv, ps2_interrupt_handler PROVE KbdInv'
  OBVIOUS
<1> DEFINE bits == (IF TooLong THEN 0 ELSE clock_bits) + 1
           good == (IF TooLong \/ clock_bits = 0 THEN TRUE ELSE in_step) /\ bits = pos + 1
<1>1. KbdTypes /\ Counting /\ Together
  BY DEF KbdInv
<1>2. /\ sending # <<>> /\ pos' = (pos + 1) % BITS
      /\ sending' = IF pos + 1 = BITS THEN Tail(sending) ELSE sending
      /\ idle' = 0 /\ UNCHANGED <<meant, pressed, lost, slipped>>
  BY DEF ps2_interrupt_handler, SendBit
<1>3. \/ /\ bits < BITS
         /\ clock_bits' = bits
         /\ in_step' = good
         /\ UNCHANGED <<keyup, escape, pause, modifiers, reported>>
      \/ /\ bits = BITS
         /\ clock_bits' = 0
         /\ in_step' = TRUE
         /\ \E code \in Codes :
                /\ good => code = Head(sending)
                /\ ps2_code(code)
  BY DEF ps2_interrupt_handler
<1>4. pos' = (IF pos + 1 = BITS THEN 0 ELSE pos + 1) /\ pos' \in Nat /\ pos' < BITS
  <2>1. pos \in Nat /\ BITS \in Nat \ {0} /\ pos + 1 <= BITS
    BY <1>1, KeyboardAssumption DEF KbdTypes
  <2>2. CASE pos + 1 = BITS
    <3>1. BITS % BITS = 0
      BY <2>1
    <3> QED
      BY <1>2, <2>1, <2>2, <3>1
  <2>3. CASE pos + 1 < BITS
    <3>1. (pos + 1) % BITS = pos + 1
      BY <2>1, <2>3
    <3> QED
      BY <1>2, <2>1, <2>3, <3>1
  <2> QED
    BY <2>1, <2>2, <2>3
<1>5. bits \in Nat \ {0} /\ good \in BOOLEAN
  BY <1>1 DEF KbdTypes
<1>6. ~slipped => good
  BY <1>1 DEF Counting, KbdTypes, TooLong
<1>7. KbdTypes'
  <2>1. in_step' \in BOOLEAN /\ clock_bits' \in Nat
    <3> HIDE DEF bits, good
    <3>1. CASE clock_bits' = bits /\ in_step' = good
      BY <1>5, <3>1
    <3>2. CASE clock_bits' = 0 /\ in_step' = TRUE
      BY <3>2
    <3> QED
      BY <1>3, <3>1, <3>2
  <2>2. /\ keyup' \in BOOLEAN /\ escape' \in BOOLEAN
        /\ reported' \in Seq(Reports) /\ modifiers' \subseteq {"K_SHFT", "K_CTRL"}
    BY <1>1, <1>3, CodeTypes DEF KbdTypes
  <2> QED
    BY <1>1, <1>2, <1>4, <2>1, <2>2 DEF KbdTypes
<1>8. Counting'
  <2>1. lost' = 0 => ~slipped'
    BY <1>1, <1>2 DEF Counting
  <2>2. ASSUME ~slipped PROVE clock_bits' = pos' /\ in_step' = TRUE
    <3>1. bits = pos + 1 /\ good = TRUE /\ pos + 1 \in Nat /\ BITS \in Nat
      BY <1>1, <1>5, <1>6, <2>2, KeyboardAssumption DEF KbdTypes
    <3> HIDE DEF bits, good
    <3>2. CASE bits < BITS /\ clock_bits' = bits /\ in_step' = good
      BY <1>4, <3>1, <3>2
    <3>3. CASE bits = BITS /\ clock_bits' = 0 /\ in_step' = TRUE
      BY <1>4, <3>1, <3>3
    <3> QED
      BY <1>3, <3>2, <3>3
  <2> QED
    <3>1. idle' # 3 /\ (~slipped' => ~slipped)
      BY <1>2
    <3>2. ~slipped' => clock_bits' = pos' /\ in_step'
      BY <2>2, <3>1
    <3> HIDE DEF bits, good
    <3> QED
      BY <2>1, <3>1, <3>2 DEF Counting
<1>9. ASSUME lost = 0 PROVE Together'
  <2>1. good /\ bits = pos + 1
    BY <1>1, <1>6, <1>9 DEF Counting
  <2>2. CASE pos + 1 = BITS
    <3>1. ps2_code(Head(sending)) /\ sending' = Tail(sending)
      <4>1. good /\ bits = BITS /\ ~(bits < BITS)
        BY <1>5, <2>1, <2>2
      <4> HIDE DEF bits, good
      <4> QED
        BY <1>2, <1>3, <2>2, <4>1
    <3> QED
      BY <1>2, <1>9, <3>1, CodeTaken
  <2>3. CASE pos + 1 # BITS
    <3>1. UNCHANGED <<keyup, escape, pause, modifiers, reported, sending, meant, pressed, lost>>
      <4>1. bits # BITS
        BY <2>1, <2>3
      <4> HIDE DEF bits, good
      <4> QED
        BY <1>2, <1>3, <2>3, <4>1
    <3> QED
      BY <1>1, <3>1 DEF Together, Quiet, Pausing, GoingDown, ComingUp
  <2> QED
    BY <2>2, <2>3
<1> QED
  BY <1>2, <1>7, <1>8, <1>9 DEF KbdInv, Together

LEMMA LostInv == KbdInv /\ lost_interrupt => KbdInv'
<1> SUFFICES ASSUME KbdInv, lost_interrupt PROVE KbdInv'
  OBVIOUS
<1>1. pos' \in Nat /\ pos' < BITS
  <2>1. pos \in Nat /\ BITS \in Nat \ {0} /\ pos' = (pos + 1) % BITS
    BY KeyboardAssumption DEF lost_interrupt, SendBit, KbdInv, KbdTypes
  <2> QED
    BY <2>1
<1>2. lost' \in Nat /\ lost' # 0 /\ slipped' = TRUE
  BY DEF lost_interrupt, KbdInv, KbdTypes
<1>3. <<>> \in Seq(Reports)
  OBVIOUS
<1> QED
  BY <1>1, <1>2, <1>3 DEF lost_interrupt, SendBit, KbdInv, KbdTypes, Counting, Together

LEMMA TickInv == KbdInv /\ tick => KbdInv'
<1> SUFFICES ASSUME KbdInv, tick PROVE KbdInv'
  OBVIOUS
<1>1. KbdTypes'
  BY DEF tick, KbdInv, KbdTypes
<1>2. Counting'
  BY DEF tick, KbdInv, KbdTypes, Counting
<1>3. Together'
  BY DEF tick, KbdInv, Together, Quiet, Pausing, GoingDown, ComingUp
<1> QED
  BY <1>1, <1>2, <1>3 DEF KbdInv

LEMMA KbdInvStep == KbdInv /\ [KbdNext]_kbd_vars => KbdInv'
<1> SUFFICES ASSUME KbdInv, [KbdNext]_kbd_vars PROVE KbdInv'
  OBVIOUS
<1>1. CASE UNCHANGED kbd_vars
  BY <1>1 DEF kbd_vars, KbdInv, KbdTypes, Counting, Together, Quiet, Pausing, GoingDown, ComingUp
<1> QED
  BY <1>1, KeyEventInv, TickInv, HandlerInv, LostInv DEF KbdNext

\* While no interrupt is lost, what comes out of the keyboard driver is what
\* was typed, for any set of keys and however they overlap; and a frame
\* behind a pause is counted right whatever was lost before, unless the pause
\* began before the first tick of the clock.
THEOREM KeysAreRight == KbdSpec => []KeysRight
<1>1. KbdInv => KeysRight
  <2> SUFFICES ASSUME KbdInv PROVE KeysRight
    OBVIOUS
  <2>1. InStep
    BY DEF KbdInv, Counting, InStep
  <2>2. ASSUME lost = 0
        PROVE  /\ reported = meant \/ \E r : meant = Append(reported, r)
               /\ sending = <<>> => reported = meant
    <3>1. CASE Quiet
      BY <3>1 DEF Quiet
    <3>2. CASE Pausing
      <4>1. sending # <<>>
        BY SMTT(30), <3>2 DEF Pausing
      <4>2. meant = Append(reported, <<"K_PAUSE", {}>>)
        BY <3>2 DEF Pausing
      <4> QED
        BY <4>1, <4>2
    <3>3. ASSUME NEW k \in Keys, GoingDown(k) PROVE reported = meant
      BY <3>3 DEF GoingDown
    <3>4. ASSUME NEW k \in Keys, ComingUp(k)
          PROVE  /\ reported = meant \/ \E r : meant = Append(reported, r)
                 /\ sending # <<>>
      <4>1. sending # <<>>
        <5>1. \E c : sending \in {<<c>>, <<"f0", c>>, <<"e0", "f0", c>>}
          BY <3>4 DEF ComingUp
        <5> QED
          BY <5>1
      <4>2. meant = IF Modifying(k) THEN reported
                    ELSE Append(reported, <<Meaning(KeyCode[k]), IF k = "a" THEN modifiers ELSE {}>>)
        BY <3>4 DEF ComingUp
      <4> QED
        BY <4>1, <4>2
    <3> QED
      BY <2>2, <3>1, <3>2, <3>3, <3>4 DEF KbdInv, Together
  <2>3. ASSUME lost = 0 PROVE IsPrefix(reported, meant)
    <3>1. reported \in Seq(Reports)
      BY DEF KbdInv, KbdTypes
    <3>2. CASE reported = meant
      BY <3>1, <3>2 DEF IsPrefix
    <3>3. ASSUME NEW r, meant = Append(reported, r) PROVE IsPrefix(reported, meant)
      BY <3>1, <3>3 DEF IsPrefix
    <3> QED
      BY <2>2, <2>3, <3>2, <3>3
  <2> QED
    BY <2>1, <2>2, <2>3 DEF KeysRight, AsTyped
<1> QED
  BY <1>1, KbdInvInit, KbdInvStep, PTL DEF KbdSpec

-----------------------------------------------------------------------------
(* Bytes between a driver and its bus                                       *)

\* Numbers in the order of sending, from the one behind k.
Counted(s, k) == s \in Seq(Nat) /\ \A i \in 1..Len(s) : s[i] = k + i

LEMMA CountedAppend ==
    ASSUME NEW k \in Nat, NEW s, Counted(s, k), NEW x, x = k + Len(s) + 1
    PROVE  Counted(Append(s, x), k) /\ Len(Append(s, x)) = Len(s) + 1
  BY DEF Counted

LEMMA CountedTail ==
    ASSUME NEW k \in Nat, NEW s, Counted(s, k), s # <<>>
    PROVE  /\ Len(s) \in Nat \ {0} /\ Head(s) = k + 1 /\ Len(Tail(s)) = Len(s) - 1
           /\ Counted(Tail(s), k + 1)
<1>1. s \in Seq(Nat) /\ \A i \in 1..Len(s) : s[i] = k + i
  BY DEF Counted
<1>2. Len(s) \in Nat \ {0} /\ Head(s) = s[1] /\ Len(Tail(s)) = Len(s) - 1
  BY <1>1
<1>3. Tail(s) \in Seq(Nat) /\ \A i \in 1..Len(Tail(s)) : Tail(s)[i] = s[i + 1]
  BY <1>1
<1>4. \A i \in 1..Len(Tail(s)) : Tail(s)[i] = (k + 1) + i
  BY <1>1, <1>2, <1>3
<1> QED
  BY <1>1, <1>2, <1>3, <1>4 DEF Counted

LEMMA CountedNone == \A k : Counted(<<>>, k) /\ Len(<<>>) = 0
  BY DEF Counted

LEMMA CountedLen == \A s, k : Counted(s, k) => Len(s) \in Nat /\ (s = <<>> <=> Len(s) = 0)
  BY DEF Counted

LEMMA CountedIs ==
    ASSUME NEW s, Counted(s, 0) PROVE s = Numbers_to(Len(s))
<1>1. s \in Seq(Nat) /\ \A i \in 1..Len(s) : s[i] = i
  BY DEF Counted
<1> QED
  BY <1>1 DEF Numbers_to

TransferKinds == {"i2c_write", "i2c_read", "spi"}

BusTypes ==
    /\ job \in [kind : {"none"} \union TransferKinds, length : Nat, answers : BOOLEAN]
    /\ sent \in Nat /\ wire_in \in Nat /\ outcome \in Int
    /\ active \in BOOLEAN /\ status \in SUBSET {"DONE", "ERR"}

\* What was sent is on the wire or in the FIFO behind it, in order; what came
\* in is in the buffer or in the FIFO behind it.
BytesFlow ==
    /\ Counted(wire_out, 0) /\ Counted(tx_fifo, Len(wire_out))
    /\ sent = Len(wire_out) + Len(tx_fifo)
    /\ Counted(taken, 0) /\ Counted(rx_fifo, Len(taken))
    /\ wire_in = Len(taken) + Len(rx_fifo)

NoneYet == job.kind = "none" =>
    job_at = "idle" /\ job.answers /\ ~active /\ sent = 0 /\ wire_in = 0

\* The transfer is over for the bus with DONE, and then everything is out.
Writing == job.kind = "i2c_write" =>
    /\ job_at \in {"push", "wait", "idle"}
    /\ wire_in = 0 /\ sent <= job.length
    /\ job_at # "push" => sent = job.length
    /\ job_at = "idle" => "DONE" \in status
    /\ active <=> "DONE" \notin status
    /\ "DONE" \in status /\ job.answers => Len(wire_out) = job.length

\* And everything is in; the driver resets DONE when it has taken it.
Reading == job.kind = "i2c_read" =>
    /\ job_at \in {"poll", "drain", "stray", "idle"}
    /\ sent = 0 /\ wire_in <= job.length
    /\ active <=> "DONE" \notin status /\ job_at # "idle"
    /\ job_at = "stray" => "DONE" \in status
    /\ "ERR" \in status => ~job.answers
    /\ ~job.answers => wire_in = 0 /\ ("DONE" \in status => "ERR" \in status)
    /\ ~active /\ job.answers => wire_in = job.length
    /\ job_at = "idle" => outcome = (IF job.answers THEN job.length ELSE -1)
    /\ job_at = "idle" => Len(rx_fifo) = 0

\* As many bytes come in as go out.
Exchanging == job.kind = "spi" =>
    /\ job_at \in {"tx", "rx", "spi_wait", "idle"}
    /\ job.answers /\ sent <= job.length
    /\ wire_in = Len(wire_out)
    /\ job_at \in {"spi_wait", "idle"} => sent = job.length /\ Len(taken) = job.length
    /\ job_at = "idle" => ~active /\ Len(tx_fifo) = 0

BusInv == BusTypes /\ BytesFlow /\ NoneYet /\ Writing /\ Reading /\ Exchanging

LEMMA BusInvInit == PortsInit => BusInv
<1> SUFFICES ASSUME PortsInit PROVE BusInv
  OBVIOUS
<1>0. /\ job = [kind |-> "none", length |-> 0, answers |-> TRUE]
      /\ sent = 0 /\ wire_in = 0 /\ outcome = 0 /\ active = FALSE /\ status = {}
  BY DEF PortsInit
<1>1. BusTypes
  <2>1. job \in [kind : {"none"} \union TransferKinds, length : Nat, answers : BOOLEAN]
    BY <1>0
  <2>2. active \in BOOLEAN /\ status \in SUBSET {"DONE", "ERR"}
    BY <1>0
  <2> QED
    BY <1>0, <2>1, <2>2 DEF BusTypes
<1>2. BytesFlow
  BY CountedNone DEF PortsInit, BytesFlow
<1>3. NoneYet /\ Writing /\ Reading /\ Exchanging
  BY DEF PortsInit, NoneYet, Writing, Reading, Exchanging
<1> QED
  BY <1>1, <1>2, <1>3 DEF BusInv

LEMMA BeginInv == BusInv /\ begin_transfer => BusInv'
<1> SUFFICES ASSUME BusInv, begin_transfer PROVE BusInv'
  OBVIOUS
<1>1. PICK kind \in TransferKinds, n \in TransferLengths, ans \in BOOLEAN :
        /\ kind = "spi" => ans
        /\ job' = [kind |-> kind, length |-> n, answers |-> ans]
        /\ job_at' = CASE kind = "i2c_write" -> "push" [] kind = "i2c_read" -> "poll" [] OTHER -> "tx"
  BY DEF begin_transfer, TransferKinds
<1>2. n \in Nat
  BY PortsAssumption
<1>3. BusTypes'
  BY <1>1, <1>2 DEF begin_transfer, BusTypes, TransferKinds
<1>4. BytesFlow'
  BY CountedNone DEF begin_transfer, BytesFlow, Cleared
<1>5. NoneYet' /\ Writing' /\ Reading' /\ Exchanging'
  BY <1>1, <1>2, CountedNone DEF begin_transfer, NoneYet, Writing, Reading, Exchanging, TransferKinds, Cleared
<1> QED
  BY <1>3, <1>4, <1>5 DEF BusInv

\* A byte into the FIFO.
LEMMA PushInv ==
    ASSUME BusInv, Push, job.kind \in {"i2c_write", "spi"}, sent < job.length,
           job_at \in {"push", "tx"}
    PROVE  BusInv'
<1>1. Counted(tx_fifo', Len(wire_out)) /\ Len(tx_fifo') = Len(tx_fifo) + 1
  BY CountedAppend, CountedLen DEF BusInv, BytesFlow, Push
<1>2. BusTypes' /\ BytesFlow'
  BY <1>1, CountedLen DEF BusInv, BusTypes, BytesFlow, Push
<1>3. sent' \in Nat /\ sent' <= job.length
  BY DEF Push, BusInv, BusTypes
<1>4. NoneYet' /\ Reading'
  BY DEF Push, BusInv, NoneYet, Reading
<1>5. Writing'
  BY <1>3 DEF Push, BusInv, Writing
<1>6. Exchanging'
  BY <1>3 DEF Push, BusInv, Exchanging
<1> QED
  BY <1>2, <1>4, <1>5, <1>6 DEF BusInv

\* A byte out of the FIFO.
LEMMA TakeInv ==
    ASSUME BusInv, Take, RXD, job.kind \in {"i2c_read", "spi"}, job_at \in {"drain", "stray", "rx"}
    PROVE  BusInv'
<1>1. /\ Len(rx_fifo) \in Nat \ {0} /\ Head(rx_fifo) = Len(taken) + 1
      /\ Len(rx_fifo') = Len(rx_fifo) - 1 /\ Counted(rx_fifo', Len(taken) + 1)
  BY CountedTail, CountedLen DEF BusInv, BytesFlow, Take, RXD
<1>2. Counted(taken', 0) /\ Len(taken') = Len(taken) + 1
  BY <1>1, CountedAppend, CountedLen DEF BusInv, BytesFlow, Take
<1>3. BusTypes' /\ BytesFlow'
  BY <1>1, <1>2, CountedLen DEF BusInv, BusTypes, BytesFlow, Take
<1>4. NoneYet' /\ Writing'
  BY DEF Take, BusInv, NoneYet, Writing
<1>5. Reading'
  BY DEF Take, BusInv, Reading
<1>6. Exchanging'
  BY DEF Take, BusInv, Exchanging
<1> QED
  BY <1>3, <1>4, <1>5, <1>6 DEF BusInv

\* The driver goes on to another place.
LEMMA GoInv ==
    ASSUME BusInv, NEW to, Go(to),
           \/ job_at = "push" /\ to = "wait" /\ sent = job.length
           \/ job_at = "wait" /\ to = "idle" /\ "DONE" \in status
           \/ job_at = "poll" /\ to = (IF "DONE" \in status THEN "stray" ELSE "drain")
           \/ job_at = "drain" /\ to = "poll"
           \/ job_at = "tx" /\ to = "rx"
           \/ job_at = "rx" /\ to = "tx"
           \/ job_at = "rx" /\ to = "spi_wait" /\ sent >= job.length /\ Len(taken) >= job.length
    PROVE  BusInv'
<1>1. BusTypes' /\ BytesFlow'
  BY DEF BusInv, BusTypes, BytesFlow, Go
<1>2. NoneYet' /\ Writing' /\ Reading'
  BY DEF Go, BusInv, NoneYet, Writing, Reading
<1>3. Len(taken) \in Nat /\ Len(rx_fifo) \in Nat /\ Len(wire_out) \in Nat /\ Len(tx_fifo) \in Nat
  BY CountedLen DEF BusInv, BytesFlow
<1>4. Exchanging'
  BY <1>3 DEF Go, BusInv, Exchanging, BytesFlow, BusTypes
<1> QED
  BY <1>1, <1>2, <1>4 DEF BusInv

LEMMA DriverInv ==
    ASSUME BusInv,
           \/ i2c_push \/ i2c_wait \/ i2c_poll \/ i2c_drain \/ i2c_stray
           \/ spi_tx \/ spi_rx \/ spi_wait
    PROVE  BusInv'
<1>0. /\ Len(taken) \in Nat /\ Len(rx_fifo) \in Nat /\ Len(wire_out) \in Nat /\ Len(tx_fifo) \in Nat
      /\ (rx_fifo = <<>> <=> Len(rx_fifo) = 0) /\ (tx_fifo = <<>> <=> Len(tx_fifo) = 0)
  BY CountedLen DEF BusInv, BytesFlow
<1>t. /\ job.kind \in {"none"} \union TransferKinds /\ job.length \in Nat /\ job.answers \in BOOLEAN
      /\ sent \in Nat /\ wire_in \in Nat
  BY DEF BusInv, BusTypes
<1>k. /\ job_at \in {"push", "wait"} => job.kind = "i2c_write"
      /\ job_at \in {"poll", "drain", "stray"} => job.kind = "i2c_read"
      /\ job_at \in {"tx", "rx", "spi_wait"} => job.kind = "spi"
  BY <1>t DEF BusInv, NoneYet, Writing, Reading, Exchanging, TransferKinds
<1>1. CASE i2c_push
  BY <1>1, <1>k, PushInv, GoInv DEF i2c_push
<1>2. CASE i2c_wait
  BY <1>2, GoInv DEF i2c_wait
<1>3. CASE i2c_poll
  BY <1>3, GoInv DEF i2c_poll
<1>4. CASE i2c_drain
  BY <1>4, <1>k, TakeInv, GoInv DEF i2c_drain
<1>5. CASE i2c_stray
  <2>1. CASE Len(taken) < job.length /\ RXD
    BY <1>5, <2>1, <1>k, TakeInv DEF i2c_stray
  <2>2. CASE ~(Len(taken) < job.length /\ RXD)
    <3>1. /\ job_at = "stray" /\ job_at' = "idle" /\ status' = status \ {"DONE", "ERR"}
          /\ outcome' = (IF "ERR" \in status THEN -1 ELSE Len(taken))
          /\ UNCHANGED <<job, sent, taken, tx_fifo, rx_fifo, active, wire_out, wire_in>>
      BY <1>5, <2>2 DEF i2c_stray
    <3>2. job.kind = "i2c_read" /\ "DONE" \in status /\ ~active
      BY <3>1, <1>k DEF BusInv, Reading
    <3>3. job.answers => wire_in = job.length /\ "ERR" \notin status
      BY <3>2 DEF BusInv, Reading
    <3>4. wire_in = Len(taken) + Len(rx_fifo) /\ wire_in <= job.length
      BY <3>2 DEF BusInv, BytesFlow, Reading
    <3>5. Len(rx_fifo) = 0 /\ (job.answers => Len(taken) = job.length)
      BY <1>0, <1>t, <2>2, <3>3, <3>4 DEF RXD
    <3>6. BusTypes' /\ BytesFlow'
      BY <3>1, <1>0 DEF BusInv, BusTypes, BytesFlow
    <3>7. NoneYet' /\ Writing' /\ Exchanging'
      BY <3>1, <3>2 DEF NoneYet, Writing, Exchanging
    <3>8. Reading'
      BY <3>1, <3>2, <3>3, <3>5 DEF BusInv, Reading
    <3> QED
      BY <3>6, <3>7, <3>8 DEF BusInv
  <2> QED
    BY <2>1, <2>2
<1>6. CASE spi_tx
  <2>1. CASE TXD /\ sent < job.length
    BY <1>6, <2>1, <1>k, PushInv DEF spi_tx
  <2>2. CASE ~(TXD /\ sent < job.length)
    BY <1>6, <2>2, GoInv DEF spi_tx
  <2> QED
    BY <2>1, <2>2
<1>7. CASE spi_rx
  <2>1. CASE RXD /\ Len(taken) < job.length
    BY <1>7, <2>1, <1>k, TakeInv DEF spi_rx
  <2>2. CASE ~(RXD /\ Len(taken) < job.length)
    BY <1>7, <2>2, <1>0, <1>t, GoInv DEF spi_rx
  <2> QED
    BY <2>1, <2>2
<1>8. CASE spi_wait
  <2>1. job.kind = "spi" /\ job_at = "spi_wait" /\ job_at' = "idle" /\ active' = FALSE
    BY <1>8, <1>k DEF spi_wait
  <2>2. BusTypes' /\ BytesFlow'
    BY <1>8 DEF spi_wait, BusInv, BusTypes, BytesFlow
  <2>3. NoneYet' /\ Writing' /\ Reading' /\ Exchanging'
    BY <1>8, <2>1, <1>0 DEF spi_wait, BusInv, NoneYet, Writing, Reading, Exchanging
  <2> QED
    BY <2>2, <2>3 DEF BusInv
<1> QED
  BY <1>1, <1>2, <1>3, <1>4, <1>5, <1>6, <1>7, <1>8

LEMMA BusesInv ==
    ASSUME BusInv, i2c_sends \/ i2c_receives \/ i2c_no_answer \/ spi_exchanges
    PROVE  BusInv'
<1>0. /\ Len(taken) \in Nat /\ Len(rx_fifo) \in Nat /\ Len(wire_out) \in Nat /\ Len(tx_fifo) \in Nat
      /\ (rx_fifo = <<>> <=> Len(rx_fifo) = 0) /\ (tx_fifo = <<>> <=> Len(tx_fifo) = 0)
  BY CountedLen DEF BusInv, BytesFlow
<1>t. /\ job.kind \in {"none"} \union TransferKinds /\ job.length \in Nat /\ job.answers \in BOOLEAN
      /\ sent \in Nat /\ wire_in \in Nat
  BY DEF BusInv, BusTypes
<1>s. ASSUME tx_fifo # <<>>, wire_out' = Append(wire_out, Head(tx_fifo)), tx_fifo' = Tail(tx_fifo)
      PROVE  /\ Counted(wire_out', 0) /\ Counted(tx_fifo', Len(wire_out'))
             /\ Len(wire_out') = Len(wire_out) + 1 /\ Len(tx_fifo') = Len(tx_fifo) - 1
             /\ Len(tx_fifo) \in Nat \ {0}
  <2>1. /\ Len(tx_fifo) \in Nat \ {0} /\ Head(tx_fifo) = Len(wire_out) + 1
        /\ Len(Tail(tx_fifo)) = Len(tx_fifo) - 1 /\ Counted(Tail(tx_fifo), Len(wire_out) + 1)
    BY <1>s, <1>0, CountedTail DEF BusInv, BytesFlow
  <2>2. Counted(wire_out', 0) /\ Len(wire_out') = Len(wire_out) + 1
    BY <1>s, <1>0, <2>1, CountedAppend DEF BusInv, BytesFlow
  <2> QED
    BY <1>s, <2>1, <2>2
<1>r. ASSUME rx_fifo' = Append(rx_fifo, wire_in + 1)
      PROVE  Counted(rx_fifo', Len(taken)) /\ Len(rx_fifo') = Len(rx_fifo) + 1
  BY <1>r, <1>0, CountedAppend DEF BusInv, BytesFlow
<1>1. CASE i2c_sends
  <2>0. /\ active /\ job.kind = "i2c_write" /\ job.answers
        /\ UNCHANGED <<job, job_at, sent, taken, outcome, rx_fifo, wire_in, transfers>>
        /\ sent <= job.length /\ "DONE" \notin status
    BY <1>1 DEF i2c_sends, BusInv, Writing
  <2>1. CASE Len(wire_out) = job.length
    <3>1. Finished /\ UNCHANGED <<tx_fifo, wire_out>>
      BY <1>1, <2>1 DEF i2c_sends
    <3>2. BusTypes' /\ BytesFlow'
      BY <2>0, <3>1 DEF Finished, BusInv, BusTypes, BytesFlow
    <3>3. NoneYet' /\ Writing' /\ Reading' /\ Exchanging'
      BY <2>0, <2>1, <3>1 DEF Finished, BusInv, NoneYet, Writing, Reading, Exchanging
    <3> QED
      BY <3>2, <3>3 DEF BusInv
  <2>2. CASE Len(wire_out) # job.length
    <3>1. /\ tx_fifo # <<>> /\ wire_out' = Append(wire_out, Head(tx_fifo))
          /\ tx_fifo' = Tail(tx_fifo) /\ UNCHANGED <<active, status>>
      BY <1>1, <2>2 DEF i2c_sends, Goes_on
    <3>2. BusTypes' /\ BytesFlow'
      BY <2>0, <3>1, <1>s, <1>0 DEF BusInv, BusTypes, BytesFlow
    <3>3. NoneYet' /\ Writing' /\ Reading' /\ Exchanging'
      BY <2>0, <3>1 DEF BusInv, NoneYet, Writing, Reading, Exchanging
    <3> QED
      BY <3>2, <3>3 DEF BusInv
  <2> QED
    BY <2>1, <2>2
<1>2. CASE i2c_receives
  <2>0. /\ active /\ job.kind = "i2c_read" /\ job.answers
        /\ UNCHANGED <<job, job_at, sent, taken, outcome, tx_fifo, wire_out, transfers>>
        /\ wire_in <= job.length /\ "DONE" \notin status /\ job_at # "idle" /\ "ERR" \notin status
    BY <1>2 DEF i2c_receives, BusInv, Reading
  <2>1. CASE wire_in = job.length
    <3>1. Finished /\ UNCHANGED <<rx_fifo, wire_in>>
      BY <1>2, <2>1 DEF i2c_receives
    <3>2. BusTypes' /\ BytesFlow'
      BY <2>0, <3>1 DEF Finished, BusInv, BusTypes, BytesFlow
    <3>3. NoneYet' /\ Writing' /\ Reading' /\ Exchanging'
      BY <2>0, <2>1, <3>1 DEF Finished, BusInv, NoneYet, Writing, Reading, Exchanging
    <3> QED
      BY <3>2, <3>3 DEF BusInv
  <2>2. CASE wire_in # job.length
    <3>1. wire_in' = wire_in + 1 /\ rx_fifo' = Append(rx_fifo, wire_in + 1) /\ UNCHANGED <<active, status>>
      BY <1>2, <2>2 DEF i2c_receives, Goes_on
    <3>2. BusTypes' /\ BytesFlow'
      BY <2>0, <3>1, <1>r, <1>0, <1>t DEF BusInv, BusTypes, BytesFlow
    <3>3. wire_in' <= job.length
      BY <2>0, <2>2, <3>1, <1>t
    <3>4. NoneYet' /\ Writing' /\ Reading' /\ Exchanging'
      BY <2>0, <3>1, <3>3 DEF BusInv, NoneYet, Writing, Reading, Exchanging
    <3> QED
      BY <3>2, <3>4 DEF BusInv
  <2> QED
    BY <2>1, <2>2
<1>3. CASE i2c_no_answer
  <2>0. /\ active /\ ~job.answers /\ active' = FALSE /\ status' = status \union {"DONE", "ERR"}
        /\ UNCHANGED <<job, job_at, sent, taken, outcome, tx_fifo, rx_fifo, wire_out, wire_in, transfers>>
    BY <1>3 DEF i2c_no_answer
  <2>1. BusTypes' /\ BytesFlow'
    BY <2>0 DEF BusInv, BusTypes, BytesFlow
  <2>2. NoneYet' /\ Writing' /\ Reading' /\ Exchanging'
    BY <2>0 DEF BusInv, NoneYet, Writing, Reading, Exchanging
  <2> QED
    BY <2>1, <2>2 DEF BusInv
<1>4. CASE spi_exchanges
  <2>0. /\ active /\ job.kind = "spi" /\ tx_fifo # <<>>
        /\ wire_out' = Append(wire_out, Head(tx_fifo)) /\ tx_fifo' = Tail(tx_fifo)
        /\ wire_in' = wire_in + 1 /\ rx_fifo' = Append(rx_fifo, wire_in + 1)
        /\ UNCHANGED <<job, job_at, sent, taken, outcome, active, status, transfers>>
    BY <1>4 DEF spi_exchanges
  <2>1. BusTypes' /\ BytesFlow'
    BY <2>0, <1>s, <1>r, <1>0, <1>t DEF BusInv, BusTypes, BytesFlow
  <2>2. NoneYet' /\ Writing' /\ Reading'
    BY <2>0 DEF BusInv, NoneYet, Writing, Reading
  <2>3. Exchanging'
    <3>1. job_at # "idle"
      BY <2>0 DEF BusInv, Exchanging
    <3> QED
      BY <2>0, <3>1, <1>s DEF BusInv, Exchanging
  <2> QED
    BY <2>1, <2>2, <2>3 DEF BusInv
<1> QED
  BY <1>1, <1>2, <1>3, <1>4

LEMMA BusStep == BusInv /\ [BusNext]_bus_vars => BusInv'
<1> SUFFICES ASSUME BusInv, [BusNext]_bus_vars PROVE BusInv'
  OBVIOUS
<1>1. CASE UNCHANGED bus_vars
  BY <1>1 DEF bus_vars, BusInv, BusTypes, BytesFlow, NoneYet, Writing, Reading, Exchanging
<1>2. CASE BusNext
  BY <1>2, BeginInv, DriverInv, BusesInv DEF BusNext
<1> QED
  BY <1>1, <1>2

LEMMA BusRight == BusInv => TransfersRight
<1> SUFFICES ASSUME BusInv PROVE TransfersRight
  OBVIOUS
<1>0. /\ Len(taken) \in Nat /\ Len(rx_fifo) \in Nat /\ Len(wire_out) \in Nat /\ Len(tx_fifo) \in Nat
      /\ (rx_fifo = <<>> <=> Len(rx_fifo) = 0) /\ (tx_fifo = <<>> <=> Len(tx_fifo) = 0)
      /\ (taken = <<>> <=> Len(taken) = 0)
  BY CountedLen DEF BusInv, BytesFlow
<1>t. /\ job.kind \in {"none"} \union TransferKinds /\ job.length \in Nat /\ job.answers \in BOOLEAN
      /\ sent \in Nat /\ wire_in \in Nat /\ active \in BOOLEAN
      /\ sent = Len(wire_out) + Len(tx_fifo) /\ wire_in = Len(taken) + Len(rx_fifo)
  BY DEF BusInv, BusTypes, BytesFlow
<1>n. taken = Numbers_to(Len(taken)) /\ wire_out = Numbers_to(Len(wire_out))
  BY CountedIs DEF BusInv, BytesFlow
<1>1. ASSUME job_at = "idle", job.answers
      PROVE  /\ job.kind = "i2c_read" => outcome = job.length
             /\ job.kind \in {"i2c_read", "spi"} => Len(taken) = job.length
             /\ job.kind \in {"i2c_write", "spi"} => Len(wire_out) = job.length
             /\ Len(rx_fifo) = 0 /\ Len(tx_fifo) = 0
  <2>1. CASE job.kind = "none"
    BY <1>1, <2>1, <1>0, <1>t DEF BusInv, NoneYet
  <2>2. CASE job.kind = "i2c_write"
    BY <1>1, <2>2, <1>0, <1>t DEF BusInv, Writing
  <2>3. CASE job.kind = "i2c_read"
    BY <1>1, <2>3, <1>0, <1>t DEF BusInv, Reading
  <2>4. CASE job.kind = "spi"
    BY <1>1, <2>4, <1>0, <1>t DEF BusInv, Exchanging
  <2> QED
    BY <2>1, <2>2, <2>3, <2>4, <1>t DEF TransferKinds
<1>2. ASSUME job_at = "idle", job.kind = "i2c_read", ~job.answers
      PROVE  outcome = -1 /\ taken = <<>>
  BY <1>2, <1>0, <1>t DEF BusInv, Reading
<1>3. ASSUME job_at = "push", sent < job.length, ~TXD, ~active
      PROVE  ~job.answers /\ job.length > FifoDepth
  <2>1. job.kind = "i2c_write"
    BY <1>3, <1>t DEF BusInv, NoneYet, Reading, Exchanging, TransferKinds
  <2>2. "DONE" \in status /\ (job.answers => Len(wire_out) = job.length)
    BY <1>3, <2>1 DEF BusInv, Writing
  <2>3. Len(tx_fifo) >= FifoDepth
    BY <1>3, <1>0, PortsAssumption DEF TXD
  <2> QED
    BY <1>3, <1>0, <1>t, <2>2, <2>3, PortsAssumption
<1>4. ASSUME job_at \in {"tx", "rx", "spi_wait"}
      PROVE  sent = Len(taken) + Len(rx_fifo) + Len(tx_fifo)
  <2>1. job.kind = "spi"
    BY <1>4, <1>t DEF BusInv, NoneYet, Reading, Writing, TransferKinds
  <2> QED
    BY <2>1, <1>0, <1>t DEF BusInv, Exchanging
<1> QED
  BY <1>0, <1>n, <1>1, <1>2, <1>3, <1>4 DEF TransfersRight

-----------------------------------------------------------------------------
(* The serial port                                                          *)

LEMMA JoinedOf ==
    ASSUME NEW S, NEW s \in Seq(S), NEW t \in Seq(S)
    PROVE  /\ s \o t \in Seq(S)
           /\ Len(s \o t) = Len(s) + Len(t)
           /\ \A i \in 1..(Len(s) + Len(t)) :
                (s \o t)[i] = IF i <= Len(s) THEN s[i] ELSE t[i - Len(s)]
  OBVIOUS

\* What is behind a FIFO and what is in it is one sequence: a byte that goes
\* from the one to the other does not change it, and a byte that comes in is
\* its last.
LEMMA FifoTakes ==
    ASSUME NEW S, NEW s \in Seq(S), NEW q \in Seq(S), q # <<>>
    PROVE  /\ Append(s, Head(q)) \in Seq(S) /\ Tail(q) \in Seq(S)
           /\ Append(s, Head(q)) \o Tail(q) = s \o q
<1>1. Head(q) \in S /\ Len(q) \in Nat \ {0} /\ Tail(q) \in Seq(S) /\ Len(Tail(q)) = Len(q) - 1
      /\ Head(q) = q[1] /\ \A i \in 1..Len(Tail(q)) : Tail(q)[i] = q[i + 1]
  OBVIOUS
<1> DEFINE t == Tail(q)
           a == Append(s, Head(q))
<1>2. /\ a \in Seq(S) /\ Len(a) = Len(s) + 1 /\ a[Len(s) + 1] = q[1]
      /\ \A i \in 1..Len(s) : a[i] = s[i]
  BY <1>1
<1>3. /\ t \in Seq(S) /\ Len(t) = Len(q) - 1 /\ \A i \in 1..Len(t) : t[i] = q[i + 1]
  BY <1>1
<1> HIDE DEF t, a
<1>4. /\ Len(a \o t) = Len(a) + Len(t)
      /\ \A i \in 1..(Len(a) + Len(t)) : (a \o t)[i] = IF i <= Len(a) THEN a[i] ELSE t[i - Len(a)]
  BY <1>2, <1>3, JoinedOf
<1>5. /\ Len(s \o q) = Len(s) + Len(q)
      /\ \A i \in 1..(Len(s) + Len(q)) : (s \o q)[i] = IF i <= Len(s) THEN s[i] ELSE q[i - Len(s)]
  OBVIOUS
<1>6. Len(s) \in Nat /\ Len(q) \in Nat /\ Len(a \o t) = Len(s \o q)
  BY <1>1, <1>2, <1>3, <1>4, <1>5
<1>7. ASSUME NEW i \in 1..(Len(s) + Len(q)) PROVE (a \o t)[i] = (s \o q)[i]
  <2>1. CASE i <= Len(s)
    BY <1>2, <1>3, <1>4, <1>5, <1>6, <2>1
  <2>2. CASE i = Len(s) + 1
    BY <1>2, <1>3, <1>4, <1>5, <1>6, <2>2
  <2>3. CASE i > Len(s) + 1
    <3>1. i - Len(a) \in 1..Len(t) /\ ~(i <= Len(a)) /\ ~(i <= Len(s)) /\ (i - Len(a)) + 1 = i - Len(s)
      BY <1>2, <1>3, <1>6, <2>3
    <3> QED
      BY SMTT(30), <1>3, <1>4, <1>5, <1>2, <3>1
  <2> QED
    BY <1>6, <2>1, <2>2, <2>3
<1>8. a \o t \in Seq(S) /\ s \o q \in Seq(S)
  BY <1>2, <1>3
<1>9. a \o t = s \o q
  BY SMTT(30), <1>5, <1>6, <1>7, <1>8
<1> QED
  BY <1>2, <1>3, <1>9 DEF a, t

LEMMA FifoGets ==
    ASSUME NEW S, NEW s \in Seq(S), NEW q \in Seq(S), NEW x \in S
    PROVE  s \o Append(q, x) = Append(s \o q, x)
<1> DEFINE b == Append(q, x)
           j == s \o q
<1>1. b \in Seq(S) /\ Len(b) = Len(q) + 1 /\ b[Len(q) + 1] = x /\ \A i \in 1..Len(q) : b[i] = q[i]
  OBVIOUS
<1>2. /\ j \in Seq(S) /\ Len(j) = Len(s) + Len(q)
      /\ \A i \in 1..(Len(s) + Len(q)) : j[i] = IF i <= Len(s) THEN s[i] ELSE q[i - Len(s)]
  OBVIOUS
<1> HIDE DEF b, j
<1>3. /\ s \o b \in Seq(S) /\ Len(s \o b) = Len(s) + Len(b)
      /\ \A i \in 1..(Len(s) + Len(b)) : (s \o b)[i] = IF i <= Len(s) THEN s[i] ELSE b[i - Len(s)]
  BY <1>1
<1>4. /\ Append(j, x) \in Seq(S) /\ Len(Append(j, x)) = Len(j) + 1
      /\ Append(j, x)[Len(j) + 1] = x /\ \A i \in 1..Len(j) : Append(j, x)[i] = j[i]
  BY <1>2
<1>5. Len(s) \in Nat /\ Len(q) \in Nat
  OBVIOUS
<1>6. ASSUME NEW i \in 1..(Len(s) + Len(b)) PROVE (s \o b)[i] = Append(j, x)[i]
  <2>1. CASE i <= Len(s)
    BY <1>1, <1>2, <1>3, <1>4, <1>5, <2>1
  <2>2. CASE i > Len(s) /\ i <= Len(s) + Len(q)
    <3>1. i - Len(s) \in 1..Len(q) /\ ~(i <= Len(s)) /\ i \in 1..Len(j)
      BY <1>2, <1>5, <2>2
    <3> QED
      BY <1>1, <1>2, <1>3, <1>4, <3>1
  <2>3. CASE i = Len(s) + Len(q) + 1
    <3>1. i - Len(s) = Len(q) + 1 /\ ~(i <= Len(s)) /\ i = Len(j) + 1
      BY <1>2, <1>5, <2>3
    <3> QED
      BY <1>1, <1>2, <1>3, <1>4, <3>1
  <2>4. i <= Len(s) \/ (i > Len(s) /\ i <= Len(s) + Len(q)) \/ i = Len(s) + Len(q) + 1
    BY <1>1, <1>5
  <2> QED
    BY <2>1, <2>2, <2>3, <2>4
<1>7. s \o b = Append(j, x)
  BY <1>1, <1>2, <1>3, <1>4, <1>5, <1>6
<1> QED
  BY <1>7 DEF b, j

ReceiveTypes ==
    /\ console \in Seq(Nat) /\ uart_rx \in Seq(Nat) /\ arrived \in Nat
    /\ overrun \in SUBSET (1..arrived)

ReceiveInv == ReceiveTypes /\ ReceivesRight

LEMMA ReceiveInit == PortsInit => ReceiveInv
<1> SUFFICES ASSUME PortsInit PROVE ReceiveInv
  OBVIOUS
<1>1. console = <<>> /\ uart_rx = <<>> /\ arrived = 0 /\ overrun = {}
  BY DEF PortsInit
<1>2. console \o uart_rx = <<>>
  BY <1>1
<1> QED
  BY <1>1, <1>2 DEF ReceiveInv, ReceiveTypes, ReceivesRight, Rises, Range

LEMMA ArriveInv == ReceiveInv /\ arrive => ReceiveInv'
<1> SUFFICES ASSUME ReceiveInv, arrive PROVE ReceiveInv'
  OBVIOUS
<1> DEFINE got == console \o uart_rx
           n == arrived + 1
<1>1. /\ console \in Seq(Nat) /\ uart_rx \in Seq(Nat) /\ arrived \in Nat /\ n \in Nat
      /\ overrun \subseteq 1..arrived /\ Rises(got) /\ Range(got) = (1..arrived) \ overrun
  BY DEF ReceiveInv, ReceiveTypes, ReceivesRight
<1>2. got \in Seq(Nat) /\ DOMAIN got = 1..Len(got) /\ Len(got) \in Nat
  BY <1>1
<1>3. \A i \in DOMAIN got : got[i] \in 1..arrived
  BY <1>1, <1>2 DEF Range
<1>4. arrived' = n /\ console' = console /\ timer' = TRUE
  BY DEF arrive
<1>5. CASE Len(uart_rx) < FifoDepth
  <2>1. uart_rx' = Append(uart_rx, n) /\ overrun' = overrun
    BY <1>4, <1>5 DEF arrive
  <2>2. (console \o uart_rx)' = Append(got, n) /\ uart_rx' \in Seq(Nat)
    BY <1>1, <1>4, <2>1, FifoGets
  <2> HIDE DEF got
  <2> DEFINE now == Append(got, n)
  <2>3. /\ DOMAIN now = 1..(Len(got) + 1) /\ now[Len(got) + 1] = n
        /\ \A i \in 1..Len(got) : now[i] = got[i]
    BY <1>1, <1>2
  <2> HIDE DEF now
  <2>4. Rises(now)
    <3> SUFFICES ASSUME NEW i \in DOMAIN now, NEW j \in DOMAIN now, i < j PROVE now[i] < now[j]
      BY DEF Rises
    <3>1. i \in 1..Len(got) /\ now[i] = got[i] /\ got[i] \in 1..arrived
      BY <1>2, <1>3, <2>3
    <3>2. CASE j \in 1..Len(got)
      BY <1>1, <1>2, <2>3, <3>1, <3>2 DEF Rises
    <3>3. CASE j = Len(got) + 1
      BY <1>1, <2>3, <3>1, <3>3
    <3> QED
      BY <1>2, <2>3, <3>2, <3>3
  <2>5. Range(now) = Range(got) \union {n}
    <3>1. Range(got) = {got[i] : i \in 1..Len(got)} /\ Range(now) = {now[i] : i \in 1..(Len(got) + 1)}
      BY <1>2, <2>3 DEF Range
    <3> QED
      BY <1>2, <2>3, <3>1
  <2>6. Range(now) = (1..arrived') \ overrun'
    BY <1>1, <1>4, <2>1, <2>5
  <2>7. ReceiveTypes'
    BY <1>1, <1>4, <2>1, <2>2 DEF ReceiveTypes
  <2>8. (Rises(console \o uart_rx) /\ Range(console \o uart_rx) = (1..arrived) \ overrun)'
    BY <2>2, <2>4, <2>6 DEF now
  <2> QED
    BY <1>4, <2>7, <2>8 DEF ReceiveInv, ReceivesRight
<1>6. CASE ~(Len(uart_rx) < FifoDepth)
  <2>1. overrun' = overrun \union {n} /\ uart_rx' = uart_rx
    BY <1>4, <1>6 DEF arrive
  <2>2. (1..arrived) \ overrun = (1..n) \ (overrun \union {n})
    BY <1>1
  <2> QED
    BY <1>1, <1>4, <2>1, <2>2 DEF ReceiveInv, ReceiveTypes, ReceivesRight
<1> QED
  BY <1>5, <1>6

LEMMA UartReadInv == ReceiveInv /\ uart_read => ReceiveInv'
<1> SUFFICES ASSUME ReceiveInv, uart_read PROVE ReceiveInv'
  OBVIOUS
<1>1. console \in Seq(Nat) /\ uart_rx \in Seq(Nat)
  BY DEF ReceiveInv, ReceiveTypes
<1>2. CASE uart_rx # <<>>
  <2>1. /\ handler_at = "read" /\ handler_at' = "read" /\ UNCHANGED <<arrived, overrun>>
        /\ console' = Append(console, Head(uart_rx)) /\ uart_rx' = Tail(uart_rx)
    BY <1>2 DEF uart_read
  <2>2. (console \o uart_rx)' = console \o uart_rx /\ console' \in Seq(Nat) /\ uart_rx' \in Seq(Nat)
    BY SMTT(30), <1>1, <1>2, <2>1, FifoTakes
  <2> QED
    BY <2>1, <2>2 DEF ReceiveInv, ReceiveTypes, ReceivesRight
<1>3. CASE uart_rx = <<>>
  BY <1>3 DEF uart_read, ReceiveInv, ReceiveTypes, ReceivesRight
<1> QED
  BY <1>2, <1>3

LEMMA ReceiveStep == ReceiveInv /\ [UartNext]_uart_vars => ReceiveInv'
<1> SUFFICES ASSUME ReceiveInv, [UartNext]_uart_vars PROVE ReceiveInv'
  OBVIOUS
<1>1. CASE UNCHANGED uart_vars \/ write_begin \/ write_next \/ uart_sends
  <2>1. UNCHANGED <<console, uart_rx, arrived, overrun, handler_at, timer, rtim>>
    BY <1>1 DEF uart_vars, write_begin, write_next, uart_sends
  <2> QED
    BY <2>1 DEF ReceiveInv, ReceiveTypes, ReceivesRight
<1>2. CASE timeout \/ uart_interrupt \/ uart_clear
  <2>1. UNCHANGED <<console, uart_rx, arrived, overrun>>
    BY <1>2 DEF timeout, uart_interrupt, uart_clear
  <2>2. (uart_rx # <<>> =>
           handler_at = "read" \/ timer \/ (rtim /\ handler_at = "none") \/ Len(uart_rx) >= RxLevel)'
    BY <1>2, <2>1 DEF timeout, uart_interrupt, uart_clear, ReceiveInv, ReceivesRight
  <2> QED
    BY <2>1, <2>2 DEF ReceiveInv, ReceiveTypes, ReceivesRight
<1> QED
  BY <1>1, <1>2, ArriveInv, UartReadInv DEF UartNext

-----------------------------------------------------------------------------

Newlines(s, k) == {j \in 1..k : s[j] = "nl"}

LEMMA NewlinesCount ==
    ASSUME NEW s, NEW k \in Nat
    PROVE  IsFiniteSet(Newlines(s, k)) /\ Cardinality(Newlines(s, k)) \in Nat
<1>1. IsFiniteSet(1..k)
  BY FS_Interval
<1>2. Newlines(s, k) \in SUBSET (1..k)
  BY DEF Newlines
<1>3. IsFiniteSet(Newlines(s, k))
  BY <1>1, <1>2, FS_Subset
<1> QED
  BY <1>3, FS_CardinalityType

LEMMA PlaceIsCount == \A s, k : Place(s, k) = k + Cardinality(Newlines(s, k))
  BY DEF Place, Newlines

\* No character stands on another one's place.
LEMMA PlaceGrows ==
    ASSUME NEW s, NEW m \in Nat, NEW k \in 0..m
    PROVE  Place(s, k) \in Nat /\ k <= Place(s, k) /\ Place(s, k) <= Place(s, m)
<1>1. Newlines(s, k) \in SUBSET Newlines(s, m) /\ k \in Nat
  BY DEF Newlines
<1>2. Cardinality(Newlines(s, k)) <= Cardinality(Newlines(s, m))
  BY <1>1, NewlinesCount, FS_Subset
<1> QED
  BY <1>1, <1>2, NewlinesCount, PlaceIsCount

LEMMA PlaceNext ==
    ASSUME NEW s, NEW k \in Nat
    PROVE  Place(s, k + 1) = Place(s, k) + (IF s[k + 1] = "nl" THEN 2 ELSE 1)
<1>1. Newlines(s, k + 1) = IF s[k + 1] = "nl" THEN Newlines(s, k) \union {k + 1} ELSE Newlines(s, k)
  BY DEF Newlines
<1>2. k + 1 \notin Newlines(s, k)
  BY DEF Newlines
<1>3. s[k + 1] = "nl" => Cardinality(Newlines(s, k + 1)) = Cardinality(Newlines(s, k)) + 1
  BY <1>1, <1>2, NewlinesCount, FS_AddElement
<1>4. Cardinality(Newlines(s, k)) \in Nat
  BY NewlinesCount
<1> QED
  BY <1>1, <1>3, <1>4, PlaceIsCount

LEMMA PlaceFirst == \A s : Place(s, 0) = 0
<1>1. \A s : Newlines(s, 0) = {}
  BY DEF Newlines
<1> QED
  BY <1>1, FS_EmptySet, PlaceIsCount

LEMMA PlaceSame ==
    ASSUME NEW s, NEW t, NEW k \in Nat, \A j \in 1..k : s[j] = t[j]
    PROVE  Place(s, k) = Place(t, k)
<1>1. Newlines(s, k) = Newlines(t, k)
  BY DEF Newlines
<1> QED
  BY <1>1, PlaceIsCount

\* There is a place in front of a "\n".
LEMMA PlaceOfNewline ==
    ASSUME NEW s, NEW k \in Nat \ {0}, s[k] = "nl"
    PROVE  Place(s, k) - 1 \in Nat \ {0}
<1>1. Place(s, k) = Place(s, k - 1) + 2
  <2>1. k - 1 \in Nat /\ (k - 1) + 1 = k
    OBVIOUS
  <2> QED
    BY <2>1, PlaceNext
<1>2. k - 1 \in 0..(k - 1)
  OBVIOUS
<1>3. Place(s, k - 1) \in Nat
  BY PlaceGrows
<1> QED
  BY <1>1, <1>3

Characters == {"a", "nl"}
Out == uart_line \o uart_tx
Done == Len(written) - Len(uart_text)

SendTypes ==
    /\ written \in Seq(Characters) /\ uart_text \in Seq(Characters)
    /\ uart_line \in Seq(Characters \union {"cr"}) /\ uart_tx \in Seq(Characters \union {"cr"})
    /\ cr_put \in BOOLEAN

\* What is left to write is the end of what was to be written.
TextLeft ==
    /\ Len(uart_text) <= Len(written)
    /\ \A i \in 1..Len(uart_text) : uart_text[i] = written[Done + i]

SendInv == SendTypes /\ TextLeft /\ SendsRight

LEMMA SendsIs == SendsRight <=>
    /\ Len(Out) = Place(written, Done) + (IF cr_put THEN 1 ELSE 0)
    /\ \A k \in 1..Done :
          /\ Out[Place(written, k)] = written[k]
          /\ written[k] = "nl" => Out[Place(written, k) - 1] = "cr"
    /\ cr_put => Out[Len(Out)] = "cr" /\ uart_text # <<>> /\ Head(uart_text) = "nl"
  BY DEF SendsRight, Out, Done

LEMMA SendsIsNext == SendsRight' <=>
    /\ Len(Out') = Place(written', Done') + (IF cr_put' THEN 1 ELSE 0)
    /\ \A k \in 1..Done' :
          /\ Out'[Place(written', k)] = written'[k]
          /\ written'[k] = "nl" => Out'[Place(written', k) - 1] = "cr"
    /\ cr_put' => Out'[Len(Out')] = "cr" /\ uart_text' # <<>> /\ Head(uart_text') = "nl"
  BY DEF SendsRight, Out, Done, Place

LEMMA SendInit == PortsInit => SendInv
<1> SUFFICES ASSUME PortsInit PROVE SendInv
  OBVIOUS
<1>1. uart_line = <<>> /\ uart_tx = <<>> /\ uart_text = <<>> /\ written = <<>> /\ cr_put = FALSE
  BY DEF PortsInit
<1>2. Done = 0 /\ Out = <<>> /\ Len(Out) = 0
  BY <1>1 DEF Done, Out
<1>3. SendTypes
  <2>1. <<>> \in Seq(Characters) /\ <<>> \in Seq(Characters \union {"cr"})
    OBVIOUS
  <2>2. cr_put \in BOOLEAN
    BY <1>1
  <2> QED
    BY <1>1, <2>1, <2>2 DEF SendTypes
<1>t. TextLeft
  <2>1. Len(uart_text) = 0 /\ Len(written) = 0
    BY <1>1
  <2> QED
    BY <2>1 DEF TextLeft
<1>4. SendsRight
  BY <1>1, <1>2, PlaceFirst, SendsIs
<1> QED
  BY <1>3, <1>t, <1>4 DEF SendInv

LEMMA SendFacts ==
    ASSUME SendInv
    PROVE  /\ Len(written) \in Nat /\ Len(uart_text) \in Nat /\ Done \in 0..Len(written)
           /\ Out \in Seq(Characters \union {"cr"}) /\ Len(Out) \in Nat
<1>1. SendTypes /\ Len(uart_text) <= Len(written)
  BY DEF SendInv, TextLeft
<1>2. Out \in Seq(Characters \union {"cr"})
  BY <1>1 DEF SendTypes, Out
<1> QED
  BY <1>1, <1>2 DEF SendTypes, Done

LEMMA WriteBeginInv == SendInv /\ write_begin => SendInv'
<1> SUFFICES ASSUME SendInv, write_begin PROVE SendInv'
  OBVIOUS
<1>0. /\ Len(written) \in Nat /\ Len(uart_text) \in Nat /\ Done \in 0..Len(written)
      /\ Len(Out) \in Nat /\ written \in Seq(Characters)
  BY SendFacts DEF SendInv, SendTypes
<1>1. PICK n \in 0..(MaxText - Len(written)) : \E s \in [1..n -> Characters] :
        uart_text' = s /\ written' = written \o s
  BY DEF write_begin, Characters
<1>2. PICK s \in [1..n -> Characters] : uart_text' = s /\ written' = written \o s
  BY <1>1
<1>3. uart_text = <<>> /\ UNCHANGED <<uart_tx, uart_line, cr_put>>
  BY DEF write_begin
<1>n. n \in Nat
  BY <1>0, PortsAssumption
<1>4. s \in Seq(Characters) /\ Len(s) = n
  BY <1>n
<1>5. /\ written' \in Seq(Characters) /\ Len(written') = Len(written) + n
      /\ \A i \in 1..Len(written) : written'[i] = written[i]
      /\ \A i \in 1..n : written'[Len(written) + i] = s[i]
  <2> DEFINE w == written \o s
  <2>1. /\ w \in Seq(Characters) /\ Len(w) = Len(written) + n
        /\ \A i \in 1..(Len(written) + n) :
             w[i] = IF i <= Len(written) THEN written[i] ELSE s[i - Len(written)]
    BY <1>0, <1>4, JoinedOf
  <2> HIDE DEF w
  <2>2. \A i \in 1..Len(written) : w[i] = written[i]
    BY <1>0, <1>n, <2>1
  <2>3. \A i \in 1..n : w[Len(written) + i] = s[i]
    BY <1>0, <1>n, <2>1
  <2>4. written' = w
    BY <1>2 DEF w
  <2> QED
    BY <2>1, <2>2, <2>3, <2>4
<1>6. Done = Len(written) /\ Done' = Len(written) /\ Out' = Out
  BY <1>0, <1>2, <1>3, <1>4, <1>5 DEF Done, Out
<1>7. cr_put = FALSE
  BY <1>3, SendsIs DEF SendInv, SendTypes
<1>8. ASSUME NEW k \in 0..Len(written) PROVE Place(written', k) = Place(written, k)
  <2>1. k \in Nat /\ \A j \in 1..k : written'[j] = written[j]
    BY <1>0, <1>5
  <2> QED
    BY <2>1, PlaceSame
<1>9. SendTypes'
  BY <1>2, <1>3, <1>4, <1>5 DEF SendInv, SendTypes
<1>10. TextLeft'
  BY <1>0, <1>2, <1>4, <1>n, <1>5, <1>6 DEF TextLeft
<1>11. /\ Len(Out') = Place(written', Done')
       /\ \A k \in 1..Done' :
            /\ Out'[Place(written', k)] = written'[k]
            /\ written'[k] = "nl" => Out'[Place(written', k) - 1] = "cr"
  <2>1. /\ Len(Out) = Place(written, Len(written))
        /\ \A k \in 1..Len(written) :
             /\ Out[Place(written, k)] = written[k]
             /\ written[k] = "nl" => Out[Place(written, k) - 1] = "cr"
    BY <1>0, <1>6, <1>7, PlaceGrows, SendsIs DEF SendInv
  <2>2. /\ Len(written) \in 0..Len(written)
        /\ \A k \in 1..Len(written) : k \in 0..Len(written)
    BY <1>0
  <2> QED
    BY <1>5, <1>6, <1>8, <2>1, <2>2
<1>12. SendsRight'
  <2>1. cr_put' = FALSE
    BY <1>3, <1>7
  <2>2. Place(written', Done') \in Nat
    BY <1>0, <1>6, PlaceGrows
  <2> QED
    BY <1>11, <2>1, <2>2, SendsIsNext
<1> QED
  BY <1>9, <1>10, <1>12 DEF SendInv

LEMMA WriteNextInv == SendInv /\ write_next => SendInv'
<1> SUFFICES ASSUME SendInv, write_next PROVE SendInv'
  OBVIOUS
<1>0. /\ Len(written) \in Nat /\ Len(uart_text) \in Nat /\ Done \in 0..Len(written)
      /\ Out \in Seq(Characters \union {"cr"}) /\ Len(Out) \in Nat /\ SendTypes
  BY SendFacts DEF SendInv
<1>1. uart_text # <<>> /\ UNCHANGED <<uart_line, written>>
  BY DEF write_next
<1>2. /\ Head(uart_text) \in Characters /\ Len(uart_text) \in Nat \ {0}
      /\ Head(uart_text) = uart_text[1]
      /\ Tail(uart_text) \in Seq(Characters) /\ Len(Tail(uart_text)) = Len(uart_text) - 1
      /\ \A i \in 1..Len(Tail(uart_text)) : Tail(uart_text)[i] = uart_text[i + 1]
  BY <1>0, <1>1 DEF SendTypes
<1>3. Head(uart_text) = written[Done + 1] /\ Done + 1 <= Len(written)
  BY <1>0, <1>2 DEF SendInv, TextLeft, Done
<1>4. /\ Len(Out) = Place(written, Done) + (IF cr_put THEN 1 ELSE 0)
      /\ \A k \in 1..Done :
           /\ Out[Place(written, k)] = written[k]
           /\ written[k] = "nl" => Out[Place(written, k) - 1] = "cr"
      /\ cr_put => Out[Len(Out)] = "cr" /\ Head(uart_text) = "nl"
  BY SendsIs DEF SendInv
<1>5. \A k \in 1..Done : /\ Place(written, k) \in 1..Place(written, Done)
                         /\ written[k] = "nl" => Place(written, k) - 1 \in 1..Place(written, Done)
  <2> SUFFICES ASSUME NEW k \in 1..Done
               PROVE  /\ Place(written, k) \in 1..Place(written, Done)
                      /\ written[k] = "nl" => Place(written, k) - 1 \in 1..Place(written, Done)
    OBVIOUS
  <2>1. Done \in Nat /\ k \in 0..Done /\ k \in Nat \ {0} /\ Done \in 0..Done
    BY <1>0
  <2>2. Place(written, k) \in Nat /\ k <= Place(written, k) /\ Place(written, k) <= Place(written, Done)
        /\ Place(written, Done) \in Nat
    BY <2>1, PlaceGrows
  <2>3. written[k] = "nl" => Place(written, k) - 1 \in Nat \ {0}
    BY <2>1, PlaceOfNewline
  <2> QED
    BY <2>1, <2>2, <2>3
<1>6. Place(written, Done) \in Nat
  <2>1. Done \in Nat /\ Done \in 0..Done
    BY <1>0
  <2> QED
    BY <2>1, PlaceGrows
<1>a. ASSUME NEW x \in Characters \union {"cr"}, uart_tx' = Append(uart_tx, x)
      PROVE  /\ uart_tx' \in Seq(Characters \union {"cr"})
             /\ Out' = Append(Out, x) /\ Len(Out') = Len(Out) + 1 /\ Out'[Len(Out) + 1] = x
             /\ \A i \in 1..Len(Out) : Out'[i] = Out[i]
  <2>1. Out' = Append(Out, x)
    BY <1>0, <1>1, <1>a, FifoGets DEF SendTypes, Out
  <2> QED
    BY <1>0, <1>a, <2>1 DEF SendTypes
<1>7. CASE Head(uart_text) = "nl" /\ ~cr_put
  <2>1. uart_tx' = Append(uart_tx, "cr") /\ cr_put' = TRUE /\ uart_text' = uart_text
    BY <1>7 DEF write_next, uart_putc
  <2>2. /\ uart_tx' \in Seq(Characters \union {"cr"}) /\ Len(Out') = Len(Out) + 1
        /\ Out'[Len(Out) + 1] = "cr" /\ \A i \in 1..Len(Out) : Out'[i] = Out[i]
    BY <2>1, <1>a
  <2>3. Done' = Done
    BY <1>1, <2>1 DEF Done
  <2>4. SendTypes' /\ TextLeft'
    BY <1>0, <1>1, <2>1, <2>2, <2>3 DEF SendInv, SendTypes, TextLeft
  <2>5. \A k \in 1..Done :
          /\ Out'[Place(written, k)] = written[k]
          /\ written[k] = "nl" => Out'[Place(written, k) - 1] = "cr"
    BY <1>4, <1>5, <1>6, <1>7, <2>2
  <2>6. Len(Out') = Place(written, Done) + 1 /\ Out'[Len(Out')] = "cr"
    BY <1>4, <1>6, <1>7, <2>2
  <2>7. SendsRight'
    BY <1>1, <1>7, <2>1, <2>3, <2>5, <2>6, SendsIsNext
  <2> QED
    BY <2>4, <2>7 DEF SendInv
<1>8. CASE ~(Head(uart_text) = "nl" /\ ~cr_put)
  <2>1. uart_tx' = Append(uart_tx, Head(uart_text)) /\ cr_put' = FALSE /\ uart_text' = Tail(uart_text)
    BY <1>8 DEF write_next, uart_putc
  <2>2. /\ uart_tx' \in Seq(Characters \union {"cr"}) /\ Len(Out') = Len(Out) + 1
        /\ Out'[Len(Out) + 1] = Head(uart_text) /\ \A i \in 1..Len(Out) : Out'[i] = Out[i]
    BY <2>1, <1>2, <1>a
  <2>3. Done' = Done + 1 /\ Done \in Nat
    BY <1>0, <1>1, <1>2, <2>1 DEF Done
  <2>4. SendTypes'
    BY <1>0, <1>1, <1>2, <2>1, <2>2 DEF SendTypes
  <2>5. TextLeft'
    <3>1. Len(uart_text') <= Len(written')
      BY <1>0, <1>1, <1>2, <2>1 DEF SendInv, TextLeft
    <3>2. ASSUME NEW i \in 1..Len(uart_text') PROVE uart_text'[i] = written'[Done' + i]
      <4>1. uart_text'[i] = uart_text[i + 1] /\ i + 1 \in 1..Len(uart_text)
        BY <1>2, <2>1
      <4>2. uart_text[i + 1] = written[Done + (i + 1)]
        BY <4>1 DEF SendInv, TextLeft
      <4> QED
        BY <1>1, <2>3, <4>1, <4>2
    <3> QED
      BY <3>1, <3>2 DEF TextLeft
  <2>6. Place(written, Done + 1) = Len(Out) + 1
        /\ (written[Done + 1] = "nl" => Out[Len(Out)] = "cr" /\ Len(Out) \in 1..Len(Out))
    <3>1. Place(written, Done + 1) = Place(written, Done) + (IF written[Done + 1] = "nl" THEN 2 ELSE 1)
      BY <2>3, PlaceNext
    <3> QED
      BY SMTT(30), <1>0, <1>3, <1>4, <1>6, <1>8, <3>1 DEF SendTypes
  <2>7. ASSUME NEW k \in 1..(Done + 1)
        PROVE  /\ Out'[Place(written, k)] = written[k]
               /\ written[k] = "nl" => Out'[Place(written, k) - 1] = "cr"
    <3>1. CASE k \in 1..Done
      <4>1. Place(written, Done) <= Len(Out)
        BY <1>0, <1>4, <1>6
      <4>2. /\ Place(written, k) \in 1..Len(Out)
            /\ written[k] = "nl" => Place(written, k) - 1 \in 1..Len(Out)
        BY <1>0, <1>5, <1>6, <3>1, <4>1
      <4> QED
        BY <1>4, <2>2, <3>1, <4>2
    <3>2. CASE k = Done + 1
      BY <1>0, <1>3, <2>2, <2>6, <3>2
    <3> QED
      BY <2>3, <3>1, <3>2
  <2>8. SendsRight'
    <3>1. Len(Out') = Place(written', Done') /\ Len(Out') \in Nat
      BY <1>0, <1>1, <2>2, <2>3, <2>6
    <3> QED
      BY <1>1, <2>1, <2>3, <2>7, <3>1, SendsIsNext
  <2> QED
    BY <2>4, <2>5, <2>8 DEF SendInv
<1> QED
  BY <1>7, <1>8

LEMMA SendStep == SendInv /\ [UartNext]_uart_vars => SendInv'
<1> SUFFICES ASSUME SendInv, [UartNext]_uart_vars PROVE SendInv'
  OBVIOUS
<1>1. CASE UNCHANGED uart_vars \/ arrive \/ timeout \/ uart_interrupt \/ uart_read \/ uart_clear
  <2>1. UNCHANGED <<uart_tx, uart_line, uart_text, cr_put, written>>
    BY <1>1 DEF uart_vars, arrive, timeout, uart_interrupt, uart_read, uart_clear
  <2> QED
    BY <2>1 DEF SendInv, SendTypes, TextLeft, SendsRight, Done
<1>2. CASE uart_sends
  <2>1. /\ uart_tx # <<>> /\ UNCHANGED <<uart_text, cr_put, written>>
        /\ uart_line' = Append(uart_line, Head(uart_tx)) /\ uart_tx' = Tail(uart_tx)
    BY <1>2 DEF uart_sends
  <2>2. /\ uart_line' \in Seq(Characters \union {"cr"}) /\ uart_tx' \in Seq(Characters \union {"cr"})
        /\ uart_line' \o uart_tx' = uart_line \o uart_tx
    BY <2>1, FifoTakes DEF SendInv, SendTypes
  <2> QED
    BY <2>1, <2>2 DEF SendInv, SendTypes, TextLeft, SendsRight, Done
<1> QED
  BY <1>1, <1>2, WriteBeginInv, WriteNextInv DEF UartNext

-----------------------------------------------------------------------------
(* The pins                                                                 *)

LEMMA Quotient ==
    ASSUME NEW n \in Nat \ {0}, NEW x \in Nat
    PROVE  x \div n \in Nat /\ x % n \in 0..(n - 1) /\ x = n * (x \div n) + (x % n)
  OBVIOUS

LEMMA QuotientGrows ==
    ASSUME NEW n \in Nat \ {0}, NEW x \in Nat, NEW y \in Nat, x <= y
    PROVE  x \div n <= y \div n
<1> DEFINE a == x \div n
           b == y \div n
<1>1. /\ a \in Nat /\ x % n \in 0..(n - 1) /\ x = n * a + (x % n)
      /\ b \in Nat /\ y % n \in 0..(n - 1) /\ y = n * b + (y % n)
  BY Quotient
<1> HIDE DEF a, b
<1>2. ASSUME a > b PROVE FALSE
  <2>1. n * a >= n * (b + 1)
    BY <1>1, <1>2
  <2>2. n * (b + 1) = n * b + n
    BY <1>1
  <2> DEFINE na == n * a
             nb == n * b
  <2>3. na \in Int /\ nb \in Int /\ na >= nb + n
    BY <1>1, <2>1, <2>2
  <2>4. x = na + (x % n) /\ y = nb + (y % n)
    BY <1>1
  <2> HIDE DEF na, nb
  <2> QED
    BY <1>1, <2>3, <2>4
<1> QED
  BY <1>1, <1>2 DEF a, b

\* A pin is its word and its bit there.
LEMMA PinOf ==
    ASSUME NEW n \in Nat \ {0}, NEW x \in Nat, NEW y \in Nat,
           x \div n = y \div n, x % n = y % n
    PROVE  x = y
  BY Quotient

LEMMA PinTypes ==
    /\ MAX_GPIO \in Nat /\ PER_FSEL \in Nat \ {0} /\ PER_WORD \in Nat \ {0}
    /\ \A pin \in Valid_pins :
         /\ pin \in Nat
         /\ Word_of(pin) \in 0..(MAX_GPIO \div PER_WORD) /\ Bit_of(pin) \in Nat
         /\ pin \div PER_FSEL \in 0..(MAX_GPIO \div PER_FSEL) /\ pin % PER_FSEL \in Nat
<1>1. MAX_GPIO \in Nat /\ PER_FSEL \in Nat \ {0} /\ PER_WORD \in Nat \ {0}
  BY PinsAssumption
<1>2. ASSUME NEW pin \in Valid_pins
      PROVE  /\ pin \in Nat
             /\ Word_of(pin) \in 0..(MAX_GPIO \div PER_WORD) /\ Bit_of(pin) \in Nat
             /\ pin \div PER_FSEL \in 0..(MAX_GPIO \div PER_FSEL) /\ pin % PER_FSEL \in Nat
  <2>1. pin \in Nat /\ pin <= MAX_GPIO
    BY <1>1 DEF Valid_pins
  <2>2. pin \div PER_WORD <= MAX_GPIO \div PER_WORD /\ pin \div PER_FSEL <= MAX_GPIO \div PER_FSEL
    BY <1>1, <2>1, QuotientGrows
  <2>3. /\ pin \div PER_WORD \in Nat /\ pin % PER_WORD \in Nat
        /\ pin \div PER_FSEL \in Nat /\ pin % PER_FSEL \in Nat
        /\ MAX_GPIO \div PER_WORD \in Nat /\ MAX_GPIO \div PER_FSEL \in Nat
    <3>1. /\ pin \div PER_WORD \in Nat /\ pin % PER_WORD \in 0..(PER_WORD - 1)
          /\ MAX_GPIO \div PER_WORD \in Nat
      BY <1>1, <2>1, Quotient
    <3>2. /\ pin \div PER_FSEL \in Nat /\ pin % PER_FSEL \in 0..(PER_FSEL - 1)
          /\ MAX_GPIO \div PER_FSEL \in Nat
      BY <1>1, <2>1, Quotient
    <3> QED
      BY <3>1, <3>2
  <2> QED
    BY <2>1, <2>2, <2>3 DEF Word_of, Bit_of
<1> QED
  BY <1>1, <1>2

Words == [0..(MAX_GPIO \div PER_WORD) -> SUBSET Nat]

\* A register of one bit for each pin stands for a set of pins.
StandsFor(reg, pins) ==
    \A r \in DOMAIN reg :
        reg[r] = {Bit_of(pin) : pin \in {p \in Valid_pins : Word_of(p) = r /\ p \in pins}}

LEMMA BitOfPin ==
    ASSUME NEW reg \in Words, NEW pins, StandsFor(reg, pins), NEW pin \in Valid_pins
    PROVE  Bit_of(pin) \in reg[Word_of(pin)] <=> pin \in pins
<1>1. Word_of(pin) \in DOMAIN reg
  BY PinTypes DEF Words
<1>2. reg[Word_of(pin)] =
        {Bit_of(p) : p \in {q \in Valid_pins : Word_of(q) = Word_of(pin) /\ q \in pins}}
  BY <1>1 DEF StandsFor
<1>3. \A p \in Valid_pins : Word_of(p) = Word_of(pin) /\ Bit_of(p) = Bit_of(pin) => p = pin
  BY PinTypes, PinOf DEF Word_of, Bit_of
<1> QED
  BY <1>2, <1>3

LEMMA BitGoesUp ==
    ASSUME NEW reg \in Words, NEW pins, StandsFor(reg, pins), NEW pin \in Valid_pins,
           NEW new, new = [reg EXCEPT ![Word_of(pin)] = @ \union {Bit_of(pin)}]
    PROVE  new \in Words /\ StandsFor(new, pins \union {pin})
<1>1. Word_of(pin) \in DOMAIN reg /\ Bit_of(pin) \in Nat /\ DOMAIN reg = 0..(MAX_GPIO \div PER_WORD)
  BY PinTypes DEF Words
<1>2. new \in Words /\ DOMAIN new = DOMAIN reg
  BY <1>1 DEF Words
<1>3. ASSUME NEW r \in DOMAIN new
      PROVE  new[r] = {Bit_of(q) : q \in {p \in Valid_pins : Word_of(p) = r /\ p \in pins \union {pin}}}
  <2>1. reg[r] = {Bit_of(q) : q \in {p \in Valid_pins : Word_of(p) = r /\ p \in pins}}
    BY <1>2 DEF StandsFor
  <2>2. CASE r = Word_of(pin)
    <3>1. new[r] = reg[r] \union {Bit_of(pin)}
      BY <1>1, <2>2
    <3> QED
      BY <2>1, <2>2, <3>1
  <2>3. CASE r # Word_of(pin)
    <3>1. new[r] = reg[r]
      BY <1>2, <2>3
    <3>2. {p \in Valid_pins : Word_of(p) = r /\ p \in pins \union {pin}}
            = {p \in Valid_pins : Word_of(p) = r /\ p \in pins}
      BY <2>3
    <3> QED
      BY <2>1, <3>1, <3>2
  <2> QED
    BY <2>2, <2>3
<1> QED
  BY <1>2, <1>3 DEF StandsFor

LEMMA BitGoesDown ==
    ASSUME NEW reg \in Words, NEW pins, StandsFor(reg, pins), NEW pin \in Valid_pins,
           NEW new, new = [reg EXCEPT ![Word_of(pin)] = @ \ {Bit_of(pin)}]
    PROVE  new \in Words /\ StandsFor(new, pins \ {pin})
<1>1. Word_of(pin) \in DOMAIN reg /\ Bit_of(pin) \in Nat /\ DOMAIN reg = 0..(MAX_GPIO \div PER_WORD)
  BY PinTypes DEF Words
<1>2. new \in Words /\ DOMAIN new = DOMAIN reg
  BY <1>1 DEF Words
<1>3. ASSUME NEW r \in DOMAIN new
      PROVE  new[r] = {Bit_of(q) : q \in {p \in Valid_pins : Word_of(p) = r /\ p \in pins \ {pin}}}
  <2>1. reg[r] = {Bit_of(q) : q \in {p \in Valid_pins : Word_of(p) = r /\ p \in pins}}
    BY <1>2 DEF StandsFor
  <2>2. CASE r = Word_of(pin)
    <3>1. new[r] = reg[r] \ {Bit_of(pin)}
      BY <1>1, <2>2
    <3>2. \A p \in Valid_pins : Word_of(p) = r /\ Bit_of(p) = Bit_of(pin) => p = pin
      BY <2>2, PinTypes, PinOf DEF Word_of, Bit_of
    <3> QED
      BY <2>1, <2>2, <3>1, <3>2
  <2>3. CASE r # Word_of(pin)
    <3>1. new[r] = reg[r]
      BY <1>2, <2>3
    <3>2. {p \in Valid_pins : Word_of(p) = r /\ p \in pins \ {pin}}
            = {p \in Valid_pins : Word_of(p) = r /\ p \in pins}
      BY <2>3
    <3> QED
      BY <2>1, <3>1, <3>2
  <2> QED
    BY <2>2, <2>3
<1> QED
  BY <1>2, <1>3 DEF StandsFor

Fsels == [0..(MAX_GPIO \div PER_FSEL) -> SUBSET Nat]
Settings == [Valid_pins -> Functions_of_pins]

\* The function registers stand for the functions of the pins: a bit is 1 if
\* it is a pin's, and 1 in that pin's function.
Selects(reg, functions) ==
    \A r \in DOMAIN reg : \A b : b \in reg[r] <=>
        \E pin \in Valid_pins :
            pin \div PER_FSEL = r /\ \E k \in Bits_of_three(functions[pin]) : b = 3 * (pin % PER_FSEL) + k

LEMMA SelectsIs ==
    ASSUME NEW reg, NEW functions
    PROVE  Selects(reg, functions) <=>
             \A r \in DOMAIN reg : reg[r] =
               UNION {{3 * (pin % PER_FSEL) + k : k \in Bits_of_three(functions[pin])} :
                         pin \in {x \in Valid_pins : x \div PER_FSEL = r}}
<1>1. ASSUME NEW r
      PROVE  \A b : b \in UNION {{3 * (pin % PER_FSEL) + k : k \in Bits_of_three(functions[pin])} :
                                    pin \in {x \in Valid_pins : x \div PER_FSEL = r}}
                    <=> \E pin \in Valid_pins :
                          /\ pin \div PER_FSEL = r
                          /\ \E k \in Bits_of_three(functions[pin]) : b = 3 * (pin % PER_FSEL) + k
  OBVIOUS
<1> QED
  BY <1>1 DEF Selects

LEMMA ThreeBits == \A f \in Functions_of_pins : Bits_of_three(f) \in SUBSET (0..2)
  BY DEF Functions_of_pins, Bits_of_three

\* The fields of two pins do not overlap.
LEMMA FieldsApart ==
    ASSUME NEW p \in Valid_pins, NEW q \in Valid_pins, NEW j \in 0..2, NEW k \in 0..2,
           p \div PER_FSEL = q \div PER_FSEL,
           3 * (p % PER_FSEL) + j = 3 * (q % PER_FSEL) + k
    PROVE  p = q /\ j = k
<1>1. p % PER_FSEL \in Nat /\ q % PER_FSEL \in Nat /\ p \in Nat /\ q \in Nat /\ PER_FSEL \in Nat \ {0}
  BY PinTypes
<1>2. p % PER_FSEL = q % PER_FSEL /\ j = k
  BY <1>1
<1> QED
  BY <1>1, <1>2, PinOf

LEMMA FieldIs ==
    ASSUME NEW reg \in Fsels, NEW functions \in Settings, Selects(reg, functions), NEW pin \in Valid_pins
    PROVE  \A k \in 0..2 : 3 * (pin % PER_FSEL) + k \in reg[pin \div PER_FSEL]
                              <=> k \in Bits_of_three(functions[pin])
<1> SUFFICES ASSUME NEW k \in 0..2
             PROVE  3 * (pin % PER_FSEL) + k \in reg[pin \div PER_FSEL]
                       <=> k \in Bits_of_three(functions[pin])
  OBVIOUS
<1>1. pin \div PER_FSEL \in DOMAIN reg
  BY PinTypes DEF Fsels
<1>2. 3 * (pin % PER_FSEL) + k \in reg[pin \div PER_FSEL] <=>
        \E q \in Valid_pins :
          /\ q \div PER_FSEL = pin \div PER_FSEL
          /\ \E j \in Bits_of_three(functions[q]) : 3 * (pin % PER_FSEL) + k = 3 * (q % PER_FSEL) + j
  BY <1>1 DEF Selects
<1>3. ASSUME NEW q \in Valid_pins, q \div PER_FSEL = pin \div PER_FSEL,
             NEW j \in Bits_of_three(functions[q]), 3 * (pin % PER_FSEL) + k = 3 * (q % PER_FSEL) + j
      PROVE  k \in Bits_of_three(functions[pin])
  <2>1. functions[q] \in Functions_of_pins
    BY DEF Settings
  <2>2. j \in 0..2
    BY <2>1, ThreeBits
  <2>3. pin = q /\ k = j
    BY <1>3, <2>2, FieldsApart
  <2> QED
    BY <2>3
<1> QED
  BY <1>2, <1>3

\* A register with a function put into a pin's field.
PutInField(reg, pin, f) ==
    [reg EXCEPT ![pin \div PER_FSEL] =
        (@ \ Field(pin)) \union {3 * (pin % PER_FSEL) + k : k \in Bits_of_three(f)}]

LEMMA FieldChosen ==
    ASSUME NEW reg \in Fsels, NEW functions \in Settings, Selects(reg, functions),
           NEW pin \in Valid_pins, NEW f \in Functions_of_pins, NEW new, NEW chosens,
           new = PutInField(reg, pin, f),
           chosens = [functions EXCEPT ![pin] = f]
    PROVE  new \in Fsels /\ chosens \in Settings /\ Selects(new, chosens)
<1> DEFINE at == pin \div PER_FSEL
<1>1. at \in DOMAIN reg /\ pin % PER_FSEL \in Nat /\ DOMAIN reg = 0..(MAX_GPIO \div PER_FSEL)
  BY PinTypes DEF Fsels
<1>2. Bits_of_three(f) \subseteq 0..2
  BY ThreeBits
<1>3. chosens \in Settings /\ chosens[pin] = f /\ \A q \in Valid_pins \ {pin} : chosens[q] = functions[q]
  BY DEF Settings
<1>4. new[at] = (reg[at] \ Field(pin)) \union {3 * (pin % PER_FSEL) + k : k \in Bits_of_three(f)}
      /\ DOMAIN new = DOMAIN reg /\ \A r \in DOMAIN reg \ {at} : new[r] = reg[r]
  BY <1>1 DEF PutInField
<1>5. new \in Fsels
  <2>1. reg[at] \subseteq Nat /\ {3 * (pin % PER_FSEL) + k : k \in Bits_of_three(f)} \subseteq Nat
    BY <1>1, <1>2 DEF Fsels
  <2>2. (reg[at] \ Field(pin)) \union {3 * (pin % PER_FSEL) + k : k \in Bits_of_three(f)} \in SUBSET Nat
    BY <2>1
  <2> QED
    BY <2>2 DEF Fsels, PutInField
<1>6. ASSUME NEW r \in DOMAIN new, NEW b
      PROVE  b \in new[r] <=> \E q \in Valid_pins :
               q \div PER_FSEL = r /\ \E k \in Bits_of_three(chosens[q]) : b = 3 * (q % PER_FSEL) + k
  <2>0. b \in reg[r] <=> \E q \in Valid_pins :
          q \div PER_FSEL = r /\ \E k \in Bits_of_three(functions[q]) : b = 3 * (q % PER_FSEL) + k
    BY <1>4 DEF Selects
  <2>1. CASE r # at
    <3>1. new[r] = reg[r]
      BY <1>4, <2>1
    <3>2. \A q \in Valid_pins : q \div PER_FSEL = r => chosens[q] = functions[q]
      BY <1>3, <2>1
    <3> QED
      BY <2>0, <3>1, <3>2
  <2>2. CASE r = at
    <3>1. b \in new[r] <=> (b \in reg[r] /\ b \notin Field(pin))
                              \/ \E k \in Bits_of_three(f) : b = 3 * (pin % PER_FSEL) + k
      BY <1>4, <2>2
    <3>2. ASSUME NEW q \in Valid_pins, q \div PER_FSEL = r, q # pin,
                 NEW k \in Bits_of_three(functions[q]), b = 3 * (q % PER_FSEL) + k
          PROVE  b \notin Field(pin)
      <4>1. k \in 0..2
        BY ThreeBits DEF Settings
      <4>2. ASSUME NEW j \in 0..2, b = 3 * (pin % PER_FSEL) + j PROVE FALSE
        BY <2>2, <3>2, <4>1, <4>2, FieldsApart
      <4> QED
        BY <4>2 DEF Field
    <3>3. ASSUME NEW k \in Bits_of_three(functions[pin]), b = 3 * (pin % PER_FSEL) + k
          PROVE  b \in Field(pin)
      <4>1. k \in 0..2
        BY ThreeBits DEF Settings
      <4> QED
        BY <3>3, <4>1 DEF Field
    <3>4. ASSUME b \in reg[r], b \notin Field(pin)
          PROVE  \E q \in Valid_pins : q \div PER_FSEL = r
                    /\ \E k \in Bits_of_three(chosens[q]) : b = 3 * (q % PER_FSEL) + k
      <4>1. PICK q \in Valid_pins :
              q \div PER_FSEL = r /\ \E k \in Bits_of_three(functions[q]) : b = 3 * (q % PER_FSEL) + k
        BY <2>0, <3>4
      <4>2. q # pin
        BY <3>3, <3>4, <4>1
      <4>3. chosens[q] = functions[q]
        BY <1>3, <4>2
      <4> QED
        BY <4>1, <4>3
    <3>5. ASSUME NEW q \in Valid_pins, q \div PER_FSEL = r,
                 NEW k \in Bits_of_three(chosens[q]), b = 3 * (q % PER_FSEL) + k
          PROVE  b \in new[r]
      <4>1. CASE q = pin
        BY <1>3, <3>1, <3>5, <4>1
      <4>2. CASE q # pin
        <5>1. chosens[q] = functions[q]
          BY <1>3, <4>2
        <5> QED
          BY <2>0, <3>1, <3>2, <3>5, <4>2, <5>1
      <4> QED
        BY <4>1, <4>2
    <3>6. ASSUME NEW k \in Bits_of_three(f), b = 3 * (pin % PER_FSEL) + k
          PROVE  \E q \in Valid_pins : q \div PER_FSEL = r
                    /\ \E j \in Bits_of_three(chosens[q]) : b = 3 * (q % PER_FSEL) + j
      BY <1>3, <2>2, <3>6
    <3> QED
      BY <3>1, <3>4, <3>5, <3>6
  <2> QED
    BY <2>1, <2>2
<1> QED
  BY <1>3, <1>5, <1>6 DEF Selects

PinTypesInv ==
    /\ gpfsel \in Fsels /\ chosen \in Settings
    /\ gpset \in Words /\ gpfen \in Words /\ gpeds \in Words
    /\ pin_answer = No_answer \/ pin_answer \in [pin : Valid_pins, value : {0, 1}]

PinsInv ==
    /\ PinTypesInv
    /\ Selects(gpfsel, chosen)
    /\ StandsFor(gpset, high) /\ StandsFor(gpfen, watched) /\ StandsFor(gpeds, fallen)
    /\ pin_answer # No_answer =>
         (pin_answer.value = 1 <=>
            pin_answer.pin \in (IF chosen[pin_answer.pin] = 1 THEN high ELSE pin_input))

LEMMA PinsInvRight == PinsInv => PinsRight
<1> SUFFICES ASSUME PinsInv PROVE PinsRight
  OBVIOUS
<1>1. \A r \in DOMAIN gpfsel : gpfsel[r] =
         UNION {{3 * (pin % PER_FSEL) + k : k \in Bits_of_three(chosen[pin])} :
                   pin \in {x \in Valid_pins : x \div PER_FSEL = r}}
  BY SelectsIs DEF PinsInv
<1>2. DOMAIN gpset = DOMAIN gpfen /\ DOMAIN gpset = DOMAIN gpeds
  BY DEF PinsInv, PinTypesInv, Words
<1>3. ASSUME NEW r \in DOMAIN gpset
      PROVE  /\ gpset[r] = {Bit_of(pin) : pin \in {p \in Valid_pins : Word_of(p) = r /\ p \in high}}
             /\ gpfen[r] = {Bit_of(pin) : pin \in {p \in Valid_pins : Word_of(p) = r /\ p \in watched}}
             /\ gpeds[r] = {Bit_of(pin) : pin \in {p \in Valid_pins : Word_of(p) = r /\ p \in fallen}}
  BY <1>2 DEF PinsInv, StandsFor
<1> QED
  BY <1>1, <1>3 DEF PinsInv, PinsRight

LEMMA PinsInvInit == PortsInit => PinsInv
<1> SUFFICES ASSUME PortsInit PROVE PinsInv
  OBVIOUS
<1>1. /\ gpfsel = [r \in 0..(MAX_GPIO \div PER_FSEL) |-> {}]
      /\ gpset = [r \in 0..(MAX_GPIO \div PER_WORD) |-> {}] /\ gpfen = gpset /\ gpeds = gpset
      /\ pin_answer = No_answer
      /\ chosen = [pin \in Valid_pins |-> 0] /\ high = {} /\ watched = {} /\ fallen = {}
  BY DEF PortsInit, PinsInit
<1>2. PinTypesInv
  BY <1>1 DEF PinTypesInv, Fsels, Words, Settings, Functions_of_pins
<1>3. \A pin \in Valid_pins : Bits_of_three(chosen[pin]) = {}
  BY <1>1 DEF Bits_of_three
<1>4. Selects(gpfsel, chosen)
  BY <1>1, <1>3 DEF Selects
<1>5. StandsFor(gpset, {})
  BY <1>1 DEF StandsFor
<1> QED
  BY <1>1, <1>2, <1>4, <1>5 DEF PinsInv

\* A level that is read is the pin's own.
LEMMA LevelIs ==
    ASSUME PinsInv, NEW pin \in Valid_pins
    PROVE  Bit_of(pin) \in Levels(Word_of(pin)) <=>
             pin \in (IF chosen[pin] = 1 THEN high ELSE pin_input)
<1> DEFINE Seen(x) == IF gpfsel[x \div PER_FSEL] \intersect Field(x) = {3 * (x % PER_FSEL)}
                      THEN Bit_of(x) \in gpset[Word_of(pin)] ELSE x \in pin_input
<1>1. gpfsel \in Fsels /\ chosen \in Settings /\ gpset \in Words
  BY DEF PinsInv, PinTypesInv
<1>2. \A x \in Valid_pins : Word_of(x) = Word_of(pin) /\ Bit_of(x) = Bit_of(pin) => x = pin
  BY PinTypes, PinOf DEF Word_of, Bit_of
<1>3. Levels(Word_of(pin)) =
        {Bit_of(x) : x \in {y \in Valid_pins : Word_of(y) = Word_of(pin) /\ Seen(y)}}
  BY DEF Levels
<1> HIDE DEF Seen
<1>4. Bit_of(pin) \in Levels(Word_of(pin)) <=> Seen(pin)
  BY <1>2, <1>3
<1>5. (gpfsel[pin \div PER_FSEL] \intersect Field(pin) = {3 * (pin % PER_FSEL)}) <=> chosen[pin] = 1
  <2> DEFINE at == 3 * (pin % PER_FSEL)
             reg == gpfsel[pin \div PER_FSEL]
  <2>1. at \in Nat
    BY PinTypes
  <2>2. \A k \in 0..2 : at + k \in reg <=> k \in Bits_of_three(chosen[pin])
    BY <1>1, FieldIs DEF PinsInv
  <2>3. Field(pin) = {at, at + 1, at + 2}
    BY <2>1 DEF Field
  <2>4. /\ at \in reg <=> 0 \in Bits_of_three(chosen[pin])
        /\ at + 1 \in reg <=> 1 \in Bits_of_three(chosen[pin])
        /\ at + 2 \in reg <=> 2 \in Bits_of_three(chosen[pin])
    BY <2>1, <2>2
  <2>5. chosen[pin] \in {0, 1, 4}
    BY <1>1 DEF Settings, Functions_of_pins
  <2> HIDE DEF at, reg
  <2>6. reg \intersect {at, at + 1, at + 2} = {at} <=> at \in reg /\ at + 1 \notin reg /\ at + 2 \notin reg
    BY <2>1
  <2> QED
    BY <2>3, <2>4, <2>5, <2>6 DEF Bits_of_three, at, reg
<1>6. Bit_of(pin) \in gpset[Word_of(pin)] <=> pin \in high
  BY <1>1, BitOfPin DEF PinsInv
<1> QED
  BY <1>4, <1>5, <1>6 DEF Seen

LEMMA GetInv ==
    ASSUME PinsInv, NEW pin \in Valid_pins, gpio_get_value(pin), pin_input' = pin_input
    PROVE  PinsInv'
<1>1. UNCHANGED <<gpfsel, gpset, gpfen, gpeds, chosen, high, watched, fallen>>
  BY DEF gpio_get_value, gpio_registers, gpio_history
<1>2. pin_answer' = [pin |-> pin, value |-> IF Bit_of(pin) \in Levels(Word_of(pin)) THEN 1 ELSE 0]
  BY DEF gpio_get_value
<1>3. pin_answer' \in [pin : Valid_pins, value : {0, 1}] /\ pin_answer'.pin = pin
      /\ (pin_answer'.value = 1 <=> Bit_of(pin) \in Levels(Word_of(pin)))
  BY <1>2
<1>4. pin_answer'.value = 1 <=> pin \in (IF chosen[pin] = 1 THEN high ELSE pin_input)
  BY <1>3, LevelIs
<1>5. PinTypesInv'
  BY <1>1, <1>3 DEF PinsInv, PinTypesInv
<1> QED
  BY <1>1, <1>3, <1>4, <1>5 DEF PinsInv, Selects, StandsFor

LEMMA SelectInv ==
    ASSUME PinsInv, NEW pin \in Valid_pins, NEW f \in Functions_of_pins,
           gpio_function_select(pin, f), pin_answer' = No_answer
    PROVE  PinsInv'
<1>1. UNCHANGED <<gpset, gpfen, gpeds, high, watched, fallen>>
  BY DEF gpio_function_select
<1>2. gpfsel' \in Fsels /\ chosen' \in Settings /\ Selects(gpfsel', chosen')
  <2>1. gpfsel \in Fsels /\ chosen \in Settings /\ Selects(gpfsel, chosen)
    BY DEF PinsInv, PinTypesInv
  <2>2. gpfsel' = PutInField(gpfsel, pin, f) /\ chosen' = [chosen EXCEPT ![pin] = f]
    BY DEF gpio_function_select, PutInField
  <2> QED
    BY <2>1, <2>2, FieldChosen
<1>3. PinTypesInv'
  BY <1>1, <1>2 DEF PinsInv, PinTypesInv
<1>4. Selects(gpfsel, chosen)' /\ StandsFor(gpset, high)' /\ StandsFor(gpfen, watched)'
      /\ StandsFor(gpeds, fallen)'
  BY <1>1, <1>2 DEF PinsInv, Selects, StandsFor
<1> QED
  BY <1>3, <1>4 DEF PinsInv

LEMMA BitCallInv ==
    ASSUME PinsInv, NEW pin \in Valid_pins, pin_answer' = No_answer,
           \/ \E value \in {0, 1} : gpio_set_value(pin, value)
           \/ gpio_set_falling(pin) \/ gpio_clear_interrupt(pin)
    PROVE  PinsInv'
<1>0. /\ gpset \in Words /\ gpfen \in Words /\ gpeds \in Words
      /\ StandsFor(gpset, high) /\ StandsFor(gpfen, watched) /\ StandsFor(gpeds, fallen)
      /\ gpfsel \in Fsels /\ chosen \in Settings /\ Selects(gpfsel, chosen)
  BY DEF PinsInv, PinTypesInv
<1>1. UNCHANGED <<gpfsel, chosen>>
  BY DEF gpio_set_value, gpio_set_falling, gpio_clear_interrupt
<1>2. /\ gpset' \in Words /\ StandsFor(gpset', high')
      /\ gpfen' \in Words /\ StandsFor(gpfen', watched')
      /\ gpeds' \in Words /\ StandsFor(gpeds', fallen')
  <2>1. ASSUME gpio_set_value(pin, 1) PROVE gpset' \in Words /\ StandsFor(gpset', high')
    <3>1. gpset' = [gpset EXCEPT ![Word_of(pin)] = @ \union {Bit_of(pin)}] /\ high' = high \union {pin}
      BY <2>1 DEF gpio_set_value
    <3> QED
      BY <1>0, <3>1, BitGoesUp
  <2>2. ASSUME gpio_set_value(pin, 0) PROVE gpset' \in Words /\ StandsFor(gpset', high')
    <3>1. gpset' = [gpset EXCEPT ![Word_of(pin)] = @ \ {Bit_of(pin)}] /\ high' = high \ {pin}
      BY <2>2 DEF gpio_set_value
    <3> QED
      BY <1>0, <3>1, BitGoesDown
  <2>3. CASE \E value \in {0, 1} : gpio_set_value(pin, value)
    <3>1. UNCHANGED <<gpfen, gpeds, watched, fallen>>
      BY <2>3 DEF gpio_set_value
    <3> QED
      BY <1>0, <2>1, <2>2, <2>3, <3>1
  <2>4. CASE gpio_set_falling(pin)
    <3>1. /\ gpfen' = [gpfen EXCEPT ![Word_of(pin)] = @ \union {Bit_of(pin)}]
          /\ watched' = watched \union {pin} /\ UNCHANGED <<gpset, gpeds, high, fallen>>
      BY <2>4 DEF gpio_set_falling
    <3>2. gpfen' \in Words /\ StandsFor(gpfen', watched')
      BY <1>0, <3>1, BitGoesUp
    <3> QED
      BY <1>0, <3>1, <3>2
  <2>5. CASE gpio_clear_interrupt(pin)
    <3>1. /\ gpeds' = [gpeds EXCEPT ![Word_of(pin)] = @ \ {Bit_of(pin)}]
          /\ fallen' = fallen \ {pin} /\ UNCHANGED <<gpset, gpfen, high, watched>>
      BY <2>5 DEF gpio_clear_interrupt
    <3>2. gpeds' \in Words /\ StandsFor(gpeds', fallen')
      BY <1>0, <3>1, BitGoesDown
    <3> QED
      BY <1>0, <3>1, <3>2
  <2> QED
    BY <2>3, <2>4, <2>5
<1>3. Selects(gpfsel', chosen')
  BY <1>0, <1>1
<1> QED
  BY <1>0, <1>1, <1>2, <1>3 DEF PinsInv, PinTypesInv

LEMMA PinCallInv == PinsInv /\ gpio_call => PinsInv'
<1> SUFFICES ASSUME PinsInv, gpio_call PROVE PinsInv'
  OBVIOUS
<1>1. PICK pin \in Valid_pins :
        \/ gpio_get_value(pin)
        \/ /\ \/ gpio_request(pin) \/ gpio_free(pin)
              \/ \E function \in Functions_of_pins : gpio_function_select(pin, function)
              \/ \E value \in {0, 1} : gpio_set_value(pin, value)
              \/ gpio_set_falling(pin) \/ gpio_clear_interrupt(pin)
           /\ pin_answer' = No_answer
  BY DEF gpio_call
<1>2. pin_input' = pin_input
  BY DEF gpio_call
<1>3. CASE (gpio_request(pin) \/ gpio_free(pin)) /\ pin_answer' = No_answer
  <2>1. UNCHANGED <<gpfsel, gpset, gpfen, gpeds, chosen, high, watched, fallen>>
    BY <1>3 DEF gpio_request, gpio_free, gpio_registers, gpio_history
  <2> QED
    BY <1>3, <2>1 DEF PinsInv, PinTypesInv, Selects, StandsFor
<1> QED
  BY <1>1, <1>2, <1>3, GetInv, SelectInv, BitCallInv

LEMMA PinChangesInv == PinsInv /\ pin_changes => PinsInv'
<1> SUFFICES ASSUME PinsInv, pin_changes PROVE PinsInv'
  OBVIOUS
<1>0. /\ gpset \in Words /\ gpfen \in Words /\ gpeds \in Words
      /\ StandsFor(gpset, high) /\ StandsFor(gpfen, watched) /\ StandsFor(gpeds, fallen)
      /\ gpfsel \in Fsels /\ chosen \in Settings /\ Selects(gpfsel, chosen)
  BY DEF PinsInv, PinTypesInv
<1>1. PICK pin \in Valid_pins \ {MAX_GPIO} :
        IF pin \in pin_input
        THEN /\ gpeds' = [gpeds EXCEPT ![Word_of(pin)] = @ \union ({Bit_of(pin)} \intersect gpfen[Word_of(pin)])]
             /\ fallen' = fallen \union ({pin} \intersect watched)
        ELSE UNCHANGED <<gpeds, fallen>>
  BY DEF pin_changes
<1>2. UNCHANGED <<gpfsel, gpset, gpfen, chosen, high, watched>> /\ pin_answer' = No_answer
  BY DEF pin_changes
<1>3. gpeds' \in Words /\ StandsFor(gpeds', fallen')
  <2>1. Bit_of(pin) \in gpfen[Word_of(pin)] <=> pin \in watched
    BY <1>0, BitOfPin
  <2>2. CASE pin \in pin_input /\ pin \in watched
    <3>1. {Bit_of(pin)} \intersect gpfen[Word_of(pin)] = {Bit_of(pin)} /\ {pin} \intersect watched = {pin}
      BY <2>1, <2>2
    <3>2. gpeds' = [gpeds EXCEPT ![Word_of(pin)] = @ \union {Bit_of(pin)}] /\ fallen' = fallen \union {pin}
      BY <1>1, <2>2, <3>1
    <3> QED
      BY <1>0, <3>2, BitGoesUp
  <2>3. CASE pin \in pin_input /\ pin \notin watched
    <3>1. {Bit_of(pin)} \intersect gpfen[Word_of(pin)] = {} /\ {pin} \intersect watched = {}
      BY <2>1, <2>3
    <3>2. gpeds' = gpeds /\ fallen' = fallen
      BY <1>0, <1>1, <2>3, <3>1 DEF Words
    <3> QED
      BY <1>0, <3>2
  <2>4. CASE pin \notin pin_input
    BY <1>0, <1>1, <2>4
  <2> QED
    BY <2>2, <2>3, <2>4
<1>4. Selects(gpfsel', chosen') /\ StandsFor(gpset', high') /\ StandsFor(gpfen', watched')
  BY <1>0, <1>2
<1> QED
  BY <1>0, <1>2, <1>3, <1>4 DEF PinsInv, PinTypesInv

LEMMA PinsStep == PinsInv /\ [PinsNext]_gpio_vars => PinsInv'
<1> SUFFICES ASSUME PinsInv, [PinsNext]_gpio_vars PROVE PinsInv'
  OBVIOUS
<1>1. CASE UNCHANGED gpio_vars
  BY <1>1 DEF gpio_vars, gpio_registers, gpio_history, PinsInv, PinTypesInv, Selects, StandsFor
<1> QED
  BY <1>1, PinCallInv, PinChangesInv DEF PinsNext

\* No byte is lost, doubled, changed in order or left behind between the
\* drivers of the serial port, the I2C and the SPI bus and their hardware,
\* for any FIFOs and any lengths, but by a full FIFO or an absent device; and a
\* pin does what it was told.
THEOREM PortsAreRight == PortsSpec => []PortsRight
<1> DEFINE Inv == BusInv /\ ReceiveInv /\ SendInv /\ PinsInv
<1>1. PortsInit => Inv
  BY BusInvInit, ReceiveInit, SendInit, PinsInvInit
<1>2. Inv /\ [PortsNext]_port_vars => Inv'
  <2>1. [PortsNext]_port_vars => [BusNext]_bus_vars /\ [UartNext]_uart_vars /\ [PinsNext]_gpio_vars
    BY DEF PortsNext, port_vars
  <2> QED
    BY <2>1, BusStep, ReceiveStep, SendStep, PinsStep
<1>3. Inv => PortsRight
  BY BusRight, PinsInvRight DEF PortsRight, ReceiveInv, SendInv
<1> QED
  BY <1>1, <1>2, <1>3, PTL DEF PortsSpec

=============================================================================
