-------------------------- MODULE MusicChannel_proofs --------------------------
(* Proofs about MusicChannel, for every cap on the queue and on the history.  *)
EXTENDS MusicChannel, Integers, SequenceTheorems, TLAPS

\* Nothing is in a sequence twice, nor in two of them, and what is was added.
Distinct(s)  == \A i, j \in DOMAIN s : s[i] = s[j] => i = j
Lacks(s, e)  == \A i \in DOMAIN s : s[i] # e
Disjoint(s, t) == \A i \in DOMAIN s : Lacks(t, s[i])
Added(s)     == \A i \in DOMAIN s : s[i] <= added

Apart ==
    /\ Distinct(queue) /\ Distinct(history) /\ Disjoint(queue, history)
    /\ Added(queue) /\ Added(history)
    /\ now # Silence => now <= added /\ Lacks(queue, now) /\ Lacks(history, now)

HistoryBounded == Len(history) <= HistoryCap

\* What is in none of the three places is what the history forgot.
Conserved ==
    /\ forgotten \subseteq 1..added
    /\ \A e \in 1..added : e \in forgotten <=> e # now /\ Lacks(queue, e) /\ Lacks(history, e)

ChannelInv ==
    /\ ChannelTypeOK /\ HistoryBounded /\ QueueBounded
    /\ NothingWaits /\ PausedHasSong /\ Apart

-----------------------------------------------------------------------------
(* What the operations on the queue and the history do to their entries. *)

\* Without its first entry.
LEMMA TailEntries ==
    ASSUME NEW s \in Seq(Entry), s # <<>>
    PROVE  /\ Tail(s) \in Seq(Entry) /\ Len(Tail(s)) = Len(s) - 1
           /\ \A i \in DOMAIN Tail(s) : i + 1 \in DOMAIN s /\ Tail(s)[i] = s[i + 1]
           /\ Head(s) = s[1] /\ 1 \in DOMAIN s /\ Head(s) \in Entry
OBVIOUS

\* With one more at its end.
LEMMA AppendEntries ==
    ASSUME NEW s \in Seq(Entry), NEW e \in Entry
    PROVE  /\ Append(s, e) \in Seq(Entry) /\ Len(Append(s, e)) = Len(s) + 1
           /\ \A i \in DOMAIN Append(s, e) :
                 \/ i \in DOMAIN s /\ Append(s, e)[i] = s[i]
                 \/ i = Len(s) + 1 /\ Append(s, e)[i] = e
OBVIOUS

\* With one more in front of it.
LEMMA ConsEntries ==
    ASSUME NEW s \in Seq(Entry), NEW e \in Entry
    PROVE  /\ <<e>> \o s \in Seq(Entry) /\ Len(<<e>> \o s) = Len(s) + 1
           /\ \A i \in DOMAIN (<<e>> \o s) :
                 \/ i = 1 /\ (<<e>> \o s)[i] = e
                 \/ i - 1 \in DOMAIN s /\ (<<e>> \o s)[i] = s[i - 1]
OBVIOUS

\* Without its last entry.
LEMMA FrontEntries ==
    ASSUME NEW s \in Seq(Entry), s # <<>>
    PROVE  LET f == SubSeq(s, 1, Len(s) - 1)
           IN  /\ f \in Seq(Entry) /\ Len(f) = Len(s) - 1
               /\ \A i \in DOMAIN f : i \in DOMAIN s /\ i < Len(s) /\ f[i] = s[i]
               /\ s[Len(s)] \in Entry /\ Len(s) \in DOMAIN s
<1> DEFINE f == SubSeq(s, 1, Len(s) - 1)
<1>1. Len(s) \in Nat \ {0} /\ Len(s) \in DOMAIN s /\ DOMAIN s = 1..Len(s)
  OBVIOUS
<1>2. /\ f \in Seq(Entry) /\ Len(f) = Len(s) - 1
      /\ \A i \in 1..(Len(s) - 1) : f[i] = s[i]
  BY <1>1, SubSeqProperties
<1>3. DOMAIN f = 1..(Len(s) - 1)
  BY <1>1, <1>2
<1> HIDE DEF f
<1>4. \A i \in DOMAIN f : i \in DOMAIN s /\ i < Len(s) /\ f[i] = s[i]
  BY <1>1, <1>2, <1>3
<1> QED BY <1>1, <1>2, <1>4 DEF f

\* Without its entry i.
LEMMA WithoutEntries ==
    ASSUME NEW s \in Seq(Entry), NEW i \in DOMAIN s
    PROVE  LET w == SubSeq(s, 1, i - 1) \o SubSeq(s, i + 1, Len(s))
           IN  /\ w \in Seq(Entry) /\ Len(w) = Len(s) - 1
               /\ \A j \in DOMAIN w :
                     \/ j < i /\ j \in DOMAIN s /\ w[j] = s[j]
                     \/ j >= i /\ j + 1 \in DOMAIN s /\ w[j] = s[j + 1]
               /\ s[i] \in Entry
<1> DEFINE a == SubSeq(s, 1, i - 1)
           b == SubSeq(s, i + 1, Len(s))
<1>1. i \in 1..Len(s) /\ s[i] \in Entry
  OBVIOUS
<1>2. a \in Seq(Entry) /\ Len(a) = i - 1 /\ \A j \in 1..(i - 1) : a[j] = s[j]
  BY <1>1
<1>3. b \in Seq(Entry) /\ Len(b) = Len(s) - i /\ \A j \in 1..(Len(s) - i) : b[j] = s[i + j]
  BY <1>1
<1> DEFINE w == a \o b
<1> HIDE DEF a, b
<1>4. /\ w \in Seq(Entry) /\ Len(w) = Len(a) + Len(b)
      /\ \A j \in 1..(Len(a) + Len(b)) : w[j] = IF j <= Len(a) THEN a[j] ELSE b[j - Len(a)]
  BY <1>2, <1>3, ConcatProperties
<1>5. Len(w) = Len(s) - 1 /\ DOMAIN w = 1..(Len(s) - 1)
  <2>1. Len(s) \in Nat /\ i \in Nat
    BY <1>1
  <2>2. (i - 1) + (Len(s) - i) = Len(s) - 1
    BY <2>1
  <2>3. Len(w) = Len(s) - 1
    BY <1>2, <1>3, <1>4, <2>2
  <2>4. DOMAIN w = 1..Len(w)
    BY <1>4
  <2> QED BY <2>3, <2>4
<1> HIDE DEF w
<1>6. ASSUME NEW j \in DOMAIN w
      PROVE  \/ j < i /\ j \in DOMAIN s /\ w[j] = s[j]
             \/ j >= i /\ j + 1 \in DOMAIN s /\ w[j] = s[j + 1]
  <2>1. j \in 1..(Len(s) - 1) /\ Len(a) + Len(b) = Len(s) - 1 /\ DOMAIN s = 1..Len(s)
    BY <1>1, <1>2, <1>3, <1>5
  <2>2. CASE j < i
    BY <2>1, <2>2, <1>1, <1>2, <1>4
  <2>3. CASE ~(j < i)
    <3>1. j - (i - 1) \in 1..(Len(s) - i) /\ i + (j - (i - 1)) = j + 1
      BY <2>1, <2>3, <1>1
    <3>2. w[j] = b[j - (i - 1)]
      BY <2>1, <2>3, <1>1, <1>2, <1>4
    <3>3. w[j] = s[j + 1]
      BY <3>1, <3>2, <1>3
    <3> QED BY <2>1, <2>3, <3>3, <1>1
  <2> QED BY <2>2, <2>3
<1> QED BY <1>1, <1>4, <1>5, <1>6 DEF w, a, b

\* What each of them leaves out, or brings in.
LEMMA AppendLacks ==
    ASSUME NEW s \in Seq(Entry), NEW x \in Entry, NEW e
    PROVE  Lacks(Append(s, x), e) <=> Lacks(s, e) /\ x # e
<1>1. /\ Append(s, x)[Len(s) + 1] = x /\ Len(s) + 1 \in DOMAIN Append(s, x)
      /\ \A i \in DOMAIN s : i \in DOMAIN Append(s, x) /\ Append(s, x)[i] = s[i]
  OBVIOUS
<1> QED BY <1>1, AppendEntries DEF Lacks

LEMMA TailLacks ==
    ASSUME NEW s \in Seq(Entry), s # <<>>, NEW e
    PROVE  Lacks(s, e) <=> Lacks(Tail(s), e) /\ Head(s) # e
<1> DEFINE t == Tail(s)
<1>1. /\ t \in Seq(Entry) /\ Len(t) = Len(s) - 1 /\ Len(s) \in Nat
      /\ \A i \in DOMAIN t : i + 1 \in DOMAIN s /\ t[i] = s[i + 1]
      /\ Head(s) = s[1] /\ 1 \in DOMAIN s
  BY TailEntries
<1> HIDE DEF t
<1>2. DOMAIN t = 1..(Len(s) - 1) /\ DOMAIN s = 1..Len(s)
  BY <1>1
<1>3. ASSUME NEW i \in DOMAIN s, i # 1
      PROVE  \E k \in DOMAIN t : t[k] = s[i]
  <2>1. i - 1 \in DOMAIN t /\ (i - 1) + 1 = i
    BY <1>1, <1>2, <1>3
  <2>2. t[i - 1] = s[i]
    BY <1>1, <2>1
  <2> QED BY <2>1, <2>2
<1> QED BY <1>1, <1>3 DEF Lacks, t

LEMMA ConsLacks ==
    ASSUME NEW s \in Seq(Entry), NEW x \in Entry, NEW e
    PROVE  Lacks(<<x>> \o s, e) <=> Lacks(s, e) /\ x # e
<1> DEFINE c == <<x>> \o s
<1>1. \A i \in DOMAIN c : \/ i = 1 /\ c[i] = x
                          \/ i - 1 \in DOMAIN s /\ c[i] = s[i - 1]
  BY ConsEntries
<1>2. /\ c \in Seq(Entry) /\ Len(c) = Len(s) + 1 /\ Len(s) \in Nat
      /\ c[1] = x
  BY ConsEntries
<1> HIDE DEF c
<1>3. DOMAIN c = 1..(Len(s) + 1) /\ DOMAIN s = 1..Len(s)
  BY <1>2
<1>4. ASSUME NEW i \in DOMAIN s
      PROVE  \E k \in DOMAIN c : c[k] = s[i]
  <2>1. i + 1 \in DOMAIN c /\ (i + 1) - 1 = i /\ i + 1 # 1
    BY <1>2, <1>3
  <2>2. c[i + 1] = s[i]
    BY <1>1, <2>1
  <2> QED BY <2>1, <2>2
<1>5. 1 \in DOMAIN c
  BY <1>2, <1>3
<1> QED BY <1>1, <1>2, <1>4, <1>5 DEF Lacks, c

LEMMA FrontLacks ==
    ASSUME NEW s \in Seq(Entry), s # <<>>, NEW e
    PROVE  Lacks(s, e) <=> Lacks(SubSeq(s, 1, Len(s) - 1), e) /\ s[Len(s)] # e
<1> DEFINE f == SubSeq(s, 1, Len(s) - 1)
<1>1. /\ \A i \in DOMAIN f : i \in DOMAIN s /\ i < Len(s) /\ f[i] = s[i]
      /\ Len(s) \in DOMAIN s /\ f \in Seq(Entry) /\ Len(f) = Len(s) - 1
  BY FrontEntries
<1> HIDE DEF f
<1>2. \A i \in DOMAIN s : i = Len(s) \/ i \in DOMAIN f
  BY <1>1
<1> QED BY <1>1, <1>2 DEF Lacks, f

LEMMA WithoutLacks ==
    ASSUME NEW s \in Seq(Entry), NEW i \in DOMAIN s, NEW e
    PROVE  Lacks(s, e) <=>
               Lacks(SubSeq(s, 1, i - 1) \o SubSeq(s, i + 1, Len(s)), e) /\ s[i] # e
<1> DEFINE w == SubSeq(s, 1, i - 1) \o SubSeq(s, i + 1, Len(s))
<1>1. /\ w \in Seq(Entry) /\ Len(w) = Len(s) - 1
      /\ \A j \in DOMAIN w : \/ j < i /\ j \in DOMAIN s /\ w[j] = s[j]
                             \/ j >= i /\ j + 1 \in DOMAIN s /\ w[j] = s[j + 1]
  BY WithoutEntries
<1> HIDE DEF w
<1>2. DOMAIN w = 1..(Len(s) - 1) /\ DOMAIN s = 1..Len(s) /\ Len(s) \in Nat /\ i \in 1..Len(s)
  BY <1>1
<1>3. ASSUME NEW j \in DOMAIN s, j # i
      PROVE  \E k \in DOMAIN w : w[k] = s[j]
  <2>1. CASE j < i
    BY <1>1, <1>2, <2>1
  <2>2. CASE ~(j < i)
    <3>1. j - 1 \in DOMAIN w /\ j - 1 >= i /\ (j - 1) + 1 = j
      BY <1>2, <1>3, <2>2
    <3>2. w[j - 1] = s[j]
      BY <1>1, <1>2, <3>1
    <3> QED BY <3>1, <3>2
  <2> QED BY <2>1, <2>2
<1> QED BY <1>1, <1>3 DEF Lacks, w

\* One after the other.
LEMMA ConcatLacks ==
    ASSUME NEW s \in Seq(Entry), NEW u \in Seq(Entry), NEW e
    PROVE  (Lacks(s \o u, e) <=> Lacks(s, e) /\ Lacks(u, e)) /\ s \o u \in Seq(Entry)
<1> DEFINE c == s \o u
<1>1. /\ c \in Seq(Entry) /\ Len(c) = Len(s) + Len(u) /\ Len(s) \in Nat /\ Len(u) \in Nat
      /\ \A i \in 1..(Len(s) + Len(u)) : c[i] = IF i <= Len(s) THEN s[i] ELSE u[i - Len(s)]
  BY ConcatProperties
<1> HIDE DEF c
<1>2. DOMAIN c = 1..(Len(s) + Len(u)) /\ DOMAIN s = 1..Len(s) /\ DOMAIN u = 1..Len(u)
  BY <1>1
<1>3. ASSUME NEW i \in DOMAIN s
      PROVE  i \in DOMAIN c /\ c[i] = s[i]
  BY <1>1, <1>2
<1>4. ASSUME NEW i \in DOMAIN u
      PROVE  Len(s) + i \in DOMAIN c /\ c[Len(s) + i] = u[i]
  <2>1. Len(s) + i \in 1..(Len(s) + Len(u)) /\ ~(Len(s) + i <= Len(s)) /\ (Len(s) + i) - Len(s) = i
    BY <1>1, <1>2
  <2> QED BY <1>1, <1>2, <2>1
<1>5. ASSUME NEW i \in DOMAIN c
      PROVE  \/ i \in DOMAIN s /\ c[i] = s[i]
             \/ i - Len(s) \in DOMAIN u /\ c[i] = u[i - Len(s)]
  BY <1>1, <1>2
<1> QED BY <1>1, <1>3, <1>4, <1>5 DEF Lacks, c

\* Retiring what plays keeps the history within its cap, and apart.
LEMMA Retiring ==
    ASSUME ChannelInv
    PROVE  /\ Retired \in Seq(Entry) /\ Len(Retired) <= HistoryCap /\ Len(Retired) <= Len(history) + 1
           /\ Distinct(Retired) /\ Added(Retired) /\ Disjoint(queue, Retired)
<1> USE ChannelAssumption DEF ChannelAssumption
<1>1. history \in Seq(Entry) /\ Len(history) \in Nat /\ Len(history) <= HistoryCap
  BY DEF ChannelInv, ChannelTypeOK, HistoryBounded
<1>2. CASE now = Silence
  BY <1>1, <1>2 DEF Retired, ChannelInv, Apart
<1>3. CASE now # Silence
  <2>1. now \in Entry
    BY <1>3 DEF ChannelInv, ChannelTypeOK
  <2>2. CASE Len(history) < HistoryCap
    <3>1. Retired = Append(history, now)
      BY <1>3, <2>2 DEF Retired
    <3> QED BY <1>1, <1>3, <2>1, <2>2, <3>1, AppendEntries
            DEF ChannelInv, Apart, Distinct, Lacks, Disjoint, Added
  <2>3. CASE ~(Len(history) < HistoryCap)
    <3> DEFINE t == Tail(history)
    <3>1. Retired = Append(t, now) /\ history # <<>>
      BY <1>1, <1>3, <2>3 DEF Retired
    <3>2. /\ t \in Seq(Entry) /\ Len(t) = Len(history) - 1
          /\ \A i \in DOMAIN t : i + 1 \in DOMAIN history /\ t[i] = history[i + 1]
      BY <1>1, <3>1, TailEntries
    <3>3. Distinct(t) /\ Added(t) /\ Disjoint(queue, t) /\ Lacks(t, now)
      <4>1. Distinct(t)
        <5> SUFFICES ASSUME NEW i \in DOMAIN t, NEW j \in DOMAIN t, t[i] = t[j]
                     PROVE  i = j
          BY DEF Distinct
        <5>1. i + 1 = j + 1 /\ i \in Int /\ j \in Int
          BY <3>2 DEF ChannelInv, Apart, Distinct
        <5> QED BY <5>1
      <4>2. Added(t) /\ Disjoint(queue, t) /\ Lacks(t, now)
        BY <1>3, <3>2 DEF ChannelInv, Apart, Added, Disjoint, Lacks
      <4> QED BY <4>1, <4>2
    <3> HIDE DEF t
    <3> QED BY <1>1, <1>3, <2>1, <3>1, <3>2, <3>3, AppendEntries
            DEF ChannelInv, Apart, Distinct, Lacks, Disjoint, Added
  <2> QED BY <2>2, <2>3
<1> QED BY <1>2, <1>3

-----------------------------------------------------------------------------
LEMMA ChannelStart == ChannelInit => ChannelInv
<1> SUFFICES ASSUME ChannelInit PROVE ChannelInv
  OBVIOUS
<1>1. now = 1 /\ added = 1 /\ queue = <<>> /\ history = <<>> /\ mark = 1 /\ now \in Entry
  BY DEF ChannelInit, Entry
<1>2. open = TRUE /\ paused = FALSE /\ moved = FALSE
  BY DEF ChannelInit
<1>3. ChannelTypeOK
  <2>1. open \in BOOLEAN /\ paused \in BOOLEAN /\ moved \in BOOLEAN
    BY <1>2
  <2>2. queue \in Seq(Entry) /\ history \in Seq(Entry) /\ mark \in Nat /\ added \in Nat
    BY <1>1
  <2> QED BY <1>1, <2>1, <2>2 DEF ChannelTypeOK
<1>4. PausedHasSong /\ NothingWaits
  BY <1>1, <1>2 DEF PausedHasSong, NothingWaits
<1>5. HistoryBounded /\ QueueBounded
  BY <1>1, ChannelAssumption DEF ChannelAssumption, HistoryBounded, QueueBounded
<1>6. Apart
  BY <1>1 DEF Apart, Distinct, Lacks, Disjoint, Added
<1> QED BY <1>3, <1>4, <1>5, <1>6 DEF ChannelInv

\* Any step that starts something plays it.
LEMMA Unpausing ==
    ASSUME ChannelInv, Unpaused
    PROVE  PausedHasSong' /\ paused' \in BOOLEAN /\ moved' \in BOOLEAN /\ mark' \in Nat
<1>1. mark \in Nat /\ mark' = mark + 1
  BY DEF ChannelInv, ChannelTypeOK, Unpaused
<1>2. paused' = FALSE /\ moved' = FALSE
  BY DEF Unpaused
<1>3. PausedHasSong'
  BY <1>2 DEF PausedHasSong
<1>4. paused' \in BOOLEAN /\ moved' \in BOOLEAN
  BY <1>2
<1>5. mark' \in Nat
  BY <1>1
<1> QED BY <1>3, <1>4, <1>5

LEMMA SkipStep == ASSUME ChannelInv, Skip PROVE ChannelInv'
<1> USE ChannelAssumption DEF ChannelAssumption
<1>1. /\ queue \in Seq(Entry) /\ history \in Seq(Entry) /\ added \in Nat
      /\ Len(queue) \in Nat /\ Len(history) \in Nat /\ Len(Retired) \in Nat
      /\ Len(queue) + Len(history) <= QueueCap + HistoryCap
  BY Retiring DEF ChannelInv, ChannelTypeOK, QueueBounded
<1>2. PausedHasSong' /\ paused' \in BOOLEAN /\ moved' \in BOOLEAN /\ mark' \in Nat
  BY Unpausing DEF Skip
<1>3. CASE queue = <<>>
  <2>1. now' = Silence /\ queue' = <<>> /\ history' = Retired /\ added' = added /\ open' = open
    BY <1>3 DEF Skip
  <2>2. ChannelTypeOK' /\ NothingWaits'
    BY <1>1, <1>2, <2>1, Retiring DEF ChannelInv, ChannelTypeOK, NothingWaits
  <2>3. HistoryBounded' /\ QueueBounded'
    BY <1>1, <2>1, Retiring DEF HistoryBounded, QueueBounded
  <2>4. Apart'
    BY <2>1, Retiring DEF Apart, Distinct, Lacks, Disjoint, Added
  <2> QED BY <1>2, <2>2, <2>3, <2>4 DEF ChannelInv
<1>4. CASE queue # <<>>
  <2>1. now' = Head(queue) /\ queue' = Tail(queue) /\ history' = Retired /\ added' = added /\ open' = open
    BY <1>4 DEF Skip
  <2>2. /\ Tail(queue) \in Seq(Entry) /\ Len(Tail(queue)) = Len(queue) - 1
        /\ \A i \in DOMAIN Tail(queue) : i \in Nat /\ i + 1 \in DOMAIN queue /\ i + 1 # 1
                                         /\ Tail(queue)[i] = queue[i + 1]
        /\ Head(queue) = queue[1] /\ 1 \in DOMAIN queue /\ Head(queue) \in Entry
    BY <1>1, <1>4, TailEntries
  <2>3. ChannelTypeOK' /\ NothingWaits'
    BY <1>1, <1>2, <2>1, <2>2, Retiring DEF ChannelInv, ChannelTypeOK, NothingWaits
  <2>4. HistoryBounded' /\ QueueBounded'
    BY <1>1, <2>1, <2>2, Retiring DEF HistoryBounded, QueueBounded
  <2>5. Distinct(Tail(queue))
    <3> SUFFICES ASSUME NEW i \in DOMAIN Tail(queue), NEW j \in DOMAIN Tail(queue),
                        Tail(queue)[i] = Tail(queue)[j]
                 PROVE  i = j
      BY DEF Distinct
    <3>1. i + 1 = j + 1 /\ i \in Nat /\ j \in Nat
      BY <2>2 DEF ChannelInv, Apart, Distinct
    <3> QED BY <3>1
  <2>6. Lacks(Tail(queue), Head(queue)) /\ Lacks(Retired, Head(queue))
        /\ Disjoint(Tail(queue), Retired)
    BY <2>2, Retiring DEF ChannelInv, Apart, Distinct, Lacks, Disjoint
  <2>7. \A i \in DOMAIN Tail(queue) : Tail(queue)[i] <= added
    BY <2>2 DEF ChannelInv, Apart, Added
  <2>8. Head(queue) <= added
    BY <2>2 DEF ChannelInv, Apart, Added
  <2>9. Apart'
    BY <2>1, <2>5, <2>6, <2>7, <2>8, Retiring DEF Apart, Added
  <2> QED BY <1>2, <2>3, <2>4, <2>9 DEF ChannelInv
<1> QED BY <1>3, <1>4

LEMMA EnqueueStep == ASSUME ChannelInv, Enqueue PROVE ChannelInv'
<1> USE ChannelAssumption DEF ChannelAssumption
<1> DEFINE e == added + 1
<1>1. /\ queue \in Seq(Entry) /\ history \in Seq(Entry) /\ added \in Nat
      /\ Len(queue) \in Nat /\ Len(history) \in Nat /\ Len(history) <= HistoryCap
      /\ Len(queue) < QueueCap /\ e \in Entry /\ added' = e
      /\ history' = history /\ open' = open
  BY DEF ChannelInv, ChannelTypeOK, HistoryBounded, Enqueue, Entry
<1>2. Added(queue) /\ Added(history) /\ (now # Silence => now <= added)
      /\ Distinct(queue) /\ Distinct(history) /\ Disjoint(queue, history)
  BY DEF ChannelInv, Apart
<1>3. Lacks(queue, e) /\ Lacks(history, e)
  <2> SUFFICES ASSUME NEW s \in Seq(Entry), Added(s) PROVE Lacks(s, e)
    BY <1>1, <1>2
  <2> SUFFICES ASSUME NEW i \in DOMAIN s PROVE s[i] # e
    BY DEF Lacks
  <2>1. s[i] \in Nat /\ s[i] <= added
    BY DEF Added, Entry
  <2> QED BY <2>1, <1>1
<1>4. Added(history)'
  <2> SUFFICES ASSUME NEW i \in DOMAIN history PROVE history[i] <= e
    BY <1>1 DEF Added
  <2>1. history[i] \in Nat /\ history[i] <= added
    BY <1>1, <1>2 DEF Added, Entry
  <2> QED BY <2>1, <1>1
<1>5. CASE now = Silence
  <2>1. queue = <<>>
    BY <1>5 DEF ChannelInv, NothingWaits
  <2>2. now' = e /\ queue' = <<>> /\ Unpaused
    BY <1>1, <1>5, <2>1 DEF Enqueue
  <2>3. ChannelTypeOK' /\ NothingWaits' /\ PausedHasSong'
    BY <1>1, <2>2, Unpausing DEF ChannelInv, ChannelTypeOK, NothingWaits
  <2>4. HistoryBounded' /\ QueueBounded'
    BY <1>1, <2>1, <2>2 DEF HistoryBounded, QueueBounded
  <2>5. Apart'
    BY <1>1, <1>2, <1>3, <1>4, <2>1, <2>2 DEF Apart, Distinct, Lacks, Disjoint, Added
  <2> QED BY <2>3, <2>4, <2>5 DEF ChannelInv
<1>6. CASE now # Silence
  <2> DEFINE q == Append(queue, e)
  <2>1. now' = now /\ queue' = q /\ UNCHANGED <<paused, moved, mark>>
    BY <1>1, <1>6 DEF Enqueue
  <2>2. /\ q \in Seq(Entry) /\ Len(q) = Len(queue) + 1
        /\ \A i \in DOMAIN q : \/ i \in DOMAIN queue /\ q[i] = queue[i]
                               \/ i = Len(queue) + 1 /\ q[i] = e
    BY <1>1, AppendEntries
  <2>3. ChannelTypeOK' /\ NothingWaits' /\ PausedHasSong'
    BY <1>1, <1>6, <2>1, <2>2 DEF ChannelInv, ChannelTypeOK, NothingWaits, PausedHasSong
  <2>4. HistoryBounded' /\ QueueBounded'
    BY <1>1, <2>1, <2>2 DEF HistoryBounded, QueueBounded
  <2>5. now \in Nat /\ now # e /\ now <= e
    BY <1>1, <1>2, <1>6 DEF ChannelInv, ChannelTypeOK, Entry
  <2>6. Lacks(q, now) /\ Distinct(q) /\ Disjoint(q, history)
    BY <1>1, <1>2, <1>3, <1>6, <2>2, <2>5 DEF ChannelInv, Apart, Lacks, Distinct, Disjoint
  <2>7. \A i \in DOMAIN q : q[i] <= e
    <3> SUFFICES ASSUME NEW i \in DOMAIN q PROVE q[i] <= e
      OBVIOUS
    <3>1. q[i] = e \/ (q[i] \in Nat /\ q[i] <= added)
      BY <1>1, <1>2, <2>2 DEF Added, Entry
    <3> QED BY <3>1, <1>1
  <2> HIDE DEF q
  <2>8. Apart'
    BY <1>1, <1>2, <1>4, <1>6, <2>1, <2>5, <2>6, <2>7 DEF ChannelInv, Apart, Added
  <2> QED BY <2>3, <2>4, <2>8 DEF ChannelInv
<1> QED BY <1>5, <1>6

LEMMA StepBackStep == ASSUME ChannelInv, StepBack PROVE ChannelInv'
<1> USE ChannelAssumption DEF ChannelAssumption
<1> DEFINE f == SubSeq(history, 1, Len(history) - 1)
           l == history[Len(history)]
<1>1. /\ queue \in Seq(Entry) /\ history \in Seq(Entry) /\ added \in Nat /\ history # <<>>
      /\ Len(queue) \in Nat /\ Len(history) \in Nat /\ Len(history) <= HistoryCap
      /\ Len(queue) + Len(history) <= QueueCap + HistoryCap
  BY DEF ChannelInv, ChannelTypeOK, HistoryBounded, QueueBounded, StepBack
<1>2. /\ f \in Seq(Entry) /\ Len(f) = Len(history) - 1
      /\ \A i \in DOMAIN f : i \in DOMAIN history /\ i < Len(history) /\ f[i] = history[i]
      /\ l \in Entry /\ Len(history) \in DOMAIN history
  BY <1>1, FrontEntries
<1>3. now' = l /\ history' = f /\ added' = added /\ open' = open /\ l # Silence
  BY <1>2 DEF StepBack
<1>4. PausedHasSong' /\ paused' \in BOOLEAN /\ moved' \in BOOLEAN /\ mark' \in Nat
  BY Unpausing DEF StepBack
<1>5. Distinct(f) /\ Lacks(f, l) /\ l <= added /\ (\A i \in DOMAIN f : f[i] <= added)
  BY <1>1, <1>2 DEF ChannelInv, Apart, Distinct, Lacks, Added
<1>6. Lacks(queue, l) /\ Disjoint(queue, f)
  BY <1>2 DEF ChannelInv, Apart, Lacks, Disjoint
<1>7. CASE now = Silence
  <2>1. queue' = queue
    BY <1>7 DEF StepBack
  <2>2. ChannelTypeOK' /\ NothingWaits' /\ HistoryBounded' /\ QueueBounded'
    BY <1>1, <1>2, <1>3, <1>4, <2>1
    DEF ChannelInv, ChannelTypeOK, NothingWaits, HistoryBounded, QueueBounded
  <2> HIDE DEF f, l
  <2>3. Apart'
    BY <1>3, <1>5, <1>6, <2>1 DEF ChannelInv, Apart, Added
  <2> QED BY <1>4, <2>2, <2>3 DEF ChannelInv
<1>8. CASE now # Silence
  <2> DEFINE q == <<now>> \o queue
  <2>1. queue' = q /\ now \in Entry
    BY <1>8 DEF StepBack, ChannelInv, ChannelTypeOK
  <2>2. /\ q \in Seq(Entry) /\ Len(q) = Len(queue) + 1
        /\ \A i \in DOMAIN q : \/ i = 1 /\ q[i] = now
                               \/ i - 1 \in DOMAIN queue /\ q[i] = queue[i - 1]
    BY <1>1, <2>1, ConsEntries
  <2> HIDE DEF f, l, q
  <2>3. ChannelTypeOK' /\ NothingWaits' /\ HistoryBounded' /\ QueueBounded'
    <3>1. Len(q) \in Nat /\ Len(f) \in Nat /\ Len(q) + Len(f) = Len(queue) + Len(history)
      BY <1>1, <1>2, <2>2
    <3>2. open \in BOOLEAN /\ open' \in BOOLEAN
      BY <1>3 DEF ChannelInv, ChannelTypeOK
    <3>3. ChannelTypeOK' /\ NothingWaits'
      BY <1>1, <1>2, <1>3, <1>4, <2>1, <2>2, <3>2 DEF ChannelTypeOK, NothingWaits
    <3>4. HistoryBounded' /\ QueueBounded'
      BY <1>1, <1>2, <1>3, <2>1, <3>1 DEF HistoryBounded, QueueBounded
    <3> QED BY <3>3, <3>4
  <2>4. Lacks(queue, now) /\ Lacks(history, now) /\ Distinct(queue) /\ now <= added
    BY <1>8 DEF ChannelInv, Apart
  <2>5. Distinct(q)
    <3> SUFFICES ASSUME NEW i \in DOMAIN q, NEW j \in DOMAIN q, q[i] = q[j]
                 PROVE  i = j
      BY DEF Distinct
    <3>1. i \in Int /\ j \in Int
      BY <2>2
    <3>2. i = 1 <=> j = 1
      BY <2>2, <2>4 DEF Lacks
    <3>3. CASE i # 1
      BY <3>1, <3>2, <3>3, <2>2, <2>4 DEF Distinct
    <3> QED BY <3>2, <3>3
  <2>6. Lacks(q, l) /\ Disjoint(q, f)
    BY <1>2, <1>6, <2>2, <2>4 DEF Lacks, Disjoint, l
  <2>7. \A i \in DOMAIN q : q[i] <= added
    BY <2>2, <2>4 DEF ChannelInv, Apart, Added
  <2>8. Apart'
    BY <1>3, <1>5, <2>1, <2>5, <2>6, <2>7 DEF Apart, Added
  <2> QED BY <1>4, <2>3, <2>8 DEF ChannelInv
<1> QED BY <1>7, <1>8

LEMMA PlayNowStep == ASSUME ChannelInv, NEW i \in 1..Len(queue), PlayNow(i) PROVE ChannelInv'
<1> USE ChannelAssumption DEF ChannelAssumption
<1> DEFINE w == SubSeq(queue, 1, i - 1) \o SubSeq(queue, i + 1, Len(queue))
<1>1. /\ queue \in Seq(Entry) /\ history \in Seq(Entry) /\ added \in Nat /\ i \in DOMAIN queue
      /\ Len(queue) \in Nat /\ Len(history) \in Nat /\ Len(Retired) \in Nat /\ i \in Nat
      /\ Len(queue) + Len(history) <= QueueCap + HistoryCap
  BY Retiring DEF ChannelInv, ChannelTypeOK, QueueBounded, PlayNow
<1>2. /\ w \in Seq(Entry) /\ Len(w) = Len(queue) - 1
      /\ \A j \in DOMAIN w : \/ j < i /\ j \in DOMAIN queue /\ w[j] = queue[j]
                             \/ j >= i /\ j + 1 \in DOMAIN queue /\ w[j] = queue[j + 1]
      /\ queue[i] \in Entry
  BY <1>1, WithoutEntries
<1>3. now' = queue[i] /\ queue' = w /\ history' = Retired /\ added' = added /\ open' = open
      /\ queue[i] # Silence
  BY <1>2 DEF PlayNow
<1>4. PausedHasSong' /\ paused' \in BOOLEAN /\ moved' \in BOOLEAN /\ mark' \in Nat
  BY Unpausing DEF PlayNow
<1>6. \A j \in DOMAIN w : j \in Nat
  BY <1>2
<1> HIDE DEF w
<1>5. ChannelTypeOK' /\ NothingWaits' /\ HistoryBounded' /\ QueueBounded'
  <2>1. open \in BOOLEAN /\ open' \in BOOLEAN
    BY <1>3 DEF ChannelInv, ChannelTypeOK
  <2>2. ChannelTypeOK' /\ NothingWaits'
    BY <1>1, <1>2, <1>3, <1>4, <2>1, Retiring DEF ChannelTypeOK, NothingWaits
  <2>3. HistoryBounded' /\ QueueBounded'
    BY <1>1, <1>2, <1>3, Retiring DEF HistoryBounded, QueueBounded
  <2> QED BY <2>2, <2>3
<1>7. Distinct(w)
  <2> SUFFICES ASSUME NEW j \in DOMAIN w, NEW k \in DOMAIN w, w[j] = w[k]
               PROVE  j = k
    BY DEF Distinct
  <2>1. j \in Nat /\ k \in Nat
    BY <1>6
  <2> QED BY <1>1, <1>2, <2>1 DEF ChannelInv, Apart, Distinct
<1>8. Lacks(w, queue[i]) /\ Disjoint(w, Retired) /\ (\A j \in DOMAIN w : w[j] <= added)
  <2> SUFFICES ASSUME NEW j \in DOMAIN w
               PROVE  w[j] # queue[i] /\ Lacks(Retired, w[j]) /\ w[j] <= added
    BY DEF Lacks, Disjoint
  <2>1. PICK k \in DOMAIN queue : k # i /\ w[j] = queue[k]
    BY <1>1, <1>2, <1>6
  <2>2. queue[k] # queue[i]
    BY <1>1, <2>1 DEF ChannelInv, Apart, Distinct
  <2>3. Lacks(Retired, queue[k])
    BY <2>1, Retiring DEF Disjoint
  <2>4. queue[k] <= added
    BY <2>1 DEF ChannelInv, Apart, Added
  <2> QED BY <2>1, <2>2, <2>3, <2>4
<1>9. queue[i] <= added /\ Lacks(Retired, queue[i])
  BY <1>1, Retiring DEF ChannelInv, Apart, Added, Disjoint
<1>10. Apart'
  BY <1>3, <1>7, <1>8, <1>9, Retiring DEF Apart, Added
<1> QED BY <1>4, <1>5, <1>10 DEF ChannelInv

LEMMA ChannelStep == ASSUME ChannelInv, [ChannelNext]_channel PROVE ChannelInv'
<1>1. ASSUME UNCHANGED songs, ChannelTypeOK', PausedHasSong'
      PROVE  ChannelInv'
  BY <1>1 DEF ChannelInv, HistoryBounded, QueueBounded, NothingWaits, Apart, Distinct, Lacks,
              Disjoint, Added, songs
<1>2. CASE Seek \/ Restart \/ Pause \/ Resume \/ Close
  <2>1. UNCHANGED songs
    BY <1>2 DEF Seek, Restart, Pause, Resume, Close
  <2>2. ChannelTypeOK'
    <3>1. open' \in BOOLEAN /\ paused' \in BOOLEAN /\ moved' \in BOOLEAN
      BY <1>2 DEF ChannelInv, ChannelTypeOK, Seek, Restart, Unpaused, Pause, Resume, Close
    <3>2. mark' \in Nat
      <4>1. mark' = mark \/ mark' = mark + 1
        BY <1>2 DEF Seek, Restart, Unpaused, Pause, Resume, Close
      <4> QED BY <4>1 DEF ChannelInv, ChannelTypeOK
    <3> QED BY <2>1, <3>1, <3>2 DEF ChannelInv, ChannelTypeOK, songs
  <2>3. PausedHasSong'
    BY <1>2 DEF ChannelInv, ChannelTypeOK, PausedHasSong, Seek, Restart, Unpaused, Pause, Resume, Close,
                songs
  <2> QED BY <1>1, <2>1, <2>2, <2>3
<1>3. CASE UNCHANGED channel
  BY <1>1, <1>3 DEF ChannelInv, ChannelTypeOK, PausedHasSong, channel, songs
<1> QED BY <1>2, <1>3, SkipStep, EnqueueStep, StepBackStep, PlayNowStep DEF ChannelNext, Start

\* What is neither queued nor past once the playing entry retires is what the
\* history has forgotten.
LEMMA RetiredLacks ==
    ASSUME ChannelInv, Conserved, Forgets, NEW e \in 1..added
    PROVE  e \in forgotten' <=> Lacks(queue, e) /\ Lacks(Retired, e)
<1> USE ChannelAssumption DEF ChannelAssumption
<1>1. history \in Seq(Entry) /\ Len(history) \in Nat /\ e \in Entry /\ e # Silence
  BY DEF ChannelInv, ChannelTypeOK, Entry
<1>2. CASE now = Silence
  BY <1>1, <1>2 DEF Retired, Forgets, Conserved
<1>3. CASE now # Silence /\ Len(history) < HistoryCap
  <2>1. now \in Entry /\ Retired = Append(history, now) /\ forgotten' = forgotten
    BY <1>1, <1>3 DEF Retired, Forgets, ChannelInv, ChannelTypeOK
  <2>2. Lacks(Retired, e) <=> Lacks(history, e) /\ now # e
    BY <1>1, <2>1, AppendLacks
  <2> QED BY <2>1, <2>2 DEF Conserved
<1>4. CASE now # Silence /\ ~(Len(history) < HistoryCap)
  <2>1. /\ now \in Entry /\ Retired = Append(Tail(history), now) /\ history # <<>>
        /\ forgotten' = forgotten \cup {Head(history)}
    BY <1>1, <1>4 DEF Retired, Forgets, ChannelInv, ChannelTypeOK
  <2>2. Lacks(Retired, e) <=> Lacks(Tail(history), e) /\ now # e
    BY <1>1, <2>1, TailEntries, AppendLacks
  <2>3. Lacks(history, e) <=> Lacks(Tail(history), e) /\ Head(history) # e
    BY <1>1, <2>1, TailLacks
  <2>4. /\ Lacks(Tail(history), Head(history)) /\ Head(history) # now
        /\ Lacks(queue, Head(history))
    <3>1. \A i \in DOMAIN Tail(history) :
             i \in Nat \ {0} /\ i + 1 \in DOMAIN history /\ Tail(history)[i] = history[i + 1]
      BY <1>1, <2>1, TailEntries
    <3>2. Head(history) = history[1] /\ 1 \in DOMAIN history
      BY <1>1, <2>1, TailEntries
    <3>3. \A i \in DOMAIN Tail(history) : i + 1 # 1
      BY <3>1
    <3>4. Distinct(history) /\ Disjoint(queue, history) /\ Lacks(history, now)
      BY <1>4 DEF ChannelInv, Apart
    <3>5. Lacks(Tail(history), Head(history))
      BY <3>1, <3>2, <3>3, <3>4 DEF Distinct, Lacks
    <3> QED BY <3>2, <3>4, <3>5 DEF Disjoint, Lacks
  <2> QED BY <2>1, <2>2, <2>3, <2>4 DEF Conserved
<1> QED BY <1>1, <1>2, <1>3, <1>4

LEMMA ForgetsWhatWasAdded ==
    ASSUME ChannelInv, Conserved, Forgets
    PROVE  forgotten' \subseteq 1..added
<1> USE ChannelAssumption DEF ChannelAssumption
<1>1. history \in Seq(Entry) /\ added \in Nat
  BY DEF ChannelInv, ChannelTypeOK
<1>2. CASE forgotten' = forgotten
  BY <1>2 DEF Conserved
<1>3. CASE history # <<>> /\ forgotten' = forgotten \cup {Head(history)}
  <2>1. Head(history) \in Entry /\ Head(history) <= added
    BY <1>1, <1>3, TailEntries DEF ChannelInv, Apart, Added
  <2>2. Head(history) \in 1..added
    BY <1>1, <2>1 DEF Entry
  <2> QED BY <1>3, <2>2 DEF Conserved
<1> QED BY <1>1, <1>2, <1>3 DEF Forgets

\* No operation loses an entry.
LEMMA ConservedStep ==
    ASSUME ChannelInv, Conserved, [ChannelNext]_channel
    PROVE  Conserved'
<1> USE ChannelAssumption DEF ChannelAssumption
<1>1. /\ queue \in Seq(Entry) /\ history \in Seq(Entry) /\ added \in Nat
      /\ now \in Entry \cup {Silence} /\ 1..added \subseteq Entry
  BY DEF ChannelInv, ChannelTypeOK, Entry
<1>2. CASE UNCHANGED channel \/ Seek \/ Restart \/ Pause \/ Resume \/ Close
  <2>1. UNCHANGED songs
    BY <1>2 DEF channel, Seek, Restart, Pause, Resume, Close
  <2> QED BY <2>1 DEF Conserved, Lacks, songs
<1>3. CASE Skip
  <2>0. added' = added /\ history' = Retired /\ Forgets
    BY <1>3 DEF Skip
  <2>1. forgotten' \subseteq 1..added'
    BY <2>0, ForgetsWhatWasAdded
  <2>3. ASSUME NEW e \in 1..added
        PROVE  (e # now' /\ Lacks(queue', e)) <=> Lacks(queue, e)
    <3>1. CASE queue = <<>>
      BY <1>1, <1>3, <3>1 DEF Skip, Lacks
    <3>2. CASE queue # <<>>
      BY <1>1, <1>3, <3>2, TailLacks DEF Skip
    <3> QED BY <3>1, <3>2
  <2>4. ASSUME NEW e \in 1..added
        PROVE  e \in forgotten' <=> e # now' /\ Lacks(queue', e) /\ Lacks(history', e)
    <3>1. e \in forgotten' <=> Lacks(queue, e) /\ Lacks(Retired, e)
      BY <2>0, RetiredLacks
    <3> QED BY <2>0, <2>3, <3>1
  <2> QED BY <2>0, <2>1, <2>4 DEF Conserved
<1>4. ASSUME NEW i \in 1..Len(queue), PlayNow(i)
      PROVE  Conserved'
  <2> DEFINE w == SubSeq(queue, 1, i - 1) \o SubSeq(queue, i + 1, Len(queue))
  <2>0. /\ added' = added /\ history' = Retired /\ Forgets /\ i \in DOMAIN queue
        /\ now' = queue[i] /\ queue' = w
    BY <1>4 DEF PlayNow
  <2>1. forgotten' \subseteq 1..added'
    BY <2>0, ForgetsWhatWasAdded
  <2>3. ASSUME NEW e \in 1..added
        PROVE  (e # now' /\ Lacks(queue', e)) <=> Lacks(queue, e)
    <3>1. Lacks(queue, e) <=> Lacks(w, e) /\ queue[i] # e
      BY <1>1, <2>0, WithoutLacks
    <3> HIDE DEF w
    <3> QED BY <2>0, <3>1
  <2>4. ASSUME NEW e \in 1..added
        PROVE  e \in forgotten' <=> e # now' /\ Lacks(queue', e) /\ Lacks(history', e)
    <3>1. e \in forgotten' <=> Lacks(queue, e) /\ Lacks(Retired, e)
      BY <2>0, RetiredLacks
    <3> QED BY <2>0, <2>3, <3>1
  <2> QED BY <2>0, <2>1, <2>4 DEF Conserved
<1>5. CASE StepBack
  <2> DEFINE f == SubSeq(history, 1, Len(history) - 1)
             l == history[Len(history)]
  <2>0. /\ added' = added /\ forgotten' = forgotten /\ history # <<>>
        /\ now' = l /\ history' = f
        /\ queue' = IF now = Silence THEN queue ELSE <<now>> \o queue
    BY <1>5 DEF StepBack
  <2>1. ASSUME NEW e \in 1..added
        PROVE  (e # now' /\ Lacks(history', e)) <=> Lacks(history, e)
    <3>1. Lacks(history, e) <=> Lacks(f, e) /\ l # e
      BY <1>1, <2>0, FrontLacks
    <3> HIDE DEF f, l
    <3> QED BY <2>0, <3>1
  <2>2. ASSUME NEW e \in 1..added
        PROVE  Lacks(queue', e) <=> Lacks(queue, e) /\ e # now
    BY <1>1, <2>0, ConsLacks
  <2> QED BY <2>0, <2>1, <2>2 DEF Conserved
<1>6. CASE Enqueue
  <2>0. /\ added' = added + 1 /\ added' \in Entry /\ 1..added' = (1..added) \cup {added'}
        /\ forgotten' = forgotten /\ history' = history
    BY <1>1, <1>6 DEF Enqueue, Entry
  <2>1. added' \notin forgotten
    BY <1>1, <2>0 DEF Conserved
  <2>2. ASSUME NEW e \in 1..added'
        PROVE  (e # now' /\ Lacks(queue', e)) <=> (e # now /\ Lacks(queue, e) /\ e # added')
    <3> DEFINE q == Append(queue, added')
    <3>1. Lacks(q, e) <=> Lacks(queue, e) /\ added' # e
      BY <1>1, <2>0, AppendLacks
    <3>2. q \in Seq(Entry) /\ q # <<>>
      BY <1>1, <2>0
    <3>3. Lacks(q, e) <=> Lacks(Tail(q), e) /\ Head(q) # e
      BY <3>2, TailLacks
    <3>4. IF now = Silence THEN now' = Head(q) /\ queue' = Tail(q)
                           ELSE now' = now /\ queue' = q
      BY <1>6 DEF Enqueue
    <3>5. e \in Entry
      BY <1>1, <2>0
    <3> HIDE DEF q
    <3> QED BY <3>1, <3>3, <3>4, <3>5
  <2>3. forgotten' \subseteq 1..added'
    BY <2>0 DEF Conserved
  <2>4. ASSUME NEW e \in 1..added'
        PROVE  e \in forgotten' <=> e # now' /\ Lacks(queue', e) /\ Lacks(history', e)
    <3>1. CASE e = added'
      BY <2>0, <2>1, <2>2, <3>1
    <3>2. CASE e \in 1..added /\ e # added'
      BY <2>0, <2>2, <3>2 DEF Conserved
    <3> QED BY <2>0, <3>1, <3>2
  <2> QED BY <2>3, <2>4 DEF Conserved
<1> QED BY <1>2, <1>3, <1>4, <1>5, <1>6 DEF ChannelNext, Start

\* The invariant says what EachEntryOnce says of the three places together.
LEMMA ApartIsOnce == ASSUME ChannelInv, Conserved PROVE EachEntryOnce
<1> DEFINE playing == IF now = Silence THEN <<>> ELSE <<now>>
           n == Len(playing)
           m == Len(queue)
<1>1. /\ queue \in Seq(Entry) /\ history \in Seq(Entry) /\ m \in Nat /\ Len(history) \in Nat
      /\ n \in {0, 1} /\ (n = 1 => now # Silence /\ playing[1] = now)
      /\ playing \in Seq(Entry)
  BY DEF ChannelInv, ChannelTypeOK
<1>2. /\ Len(Places) = n + m + Len(history)
      /\ \A i \in DOMAIN Places :
            \/ i \in 1..n /\ Places[i] = playing[i]
            \/ i - n \in DOMAIN queue /\ Places[i] = queue[i - n]
            \/ i - n - m \in DOMAIN history /\ Places[i] = history[i - n - m]
  <2> DEFINE pq == playing \o queue
  <2>1. /\ pq \in Seq(Entry) /\ Len(pq) = n + m
        /\ \A i \in DOMAIN pq : \/ i \in 1..n /\ pq[i] = playing[i]
                                \/ i - n \in DOMAIN queue /\ pq[i] = queue[i - n]
    BY <1>1
  <2>2. Places = pq \o history
    BY DEF Places
  <2> HIDE DEF pq, n, m, playing
  <2>3. /\ Len(pq \o history) = n + m + Len(history)
        /\ \A i \in DOMAIN (pq \o history) :
              \/ i \in DOMAIN pq /\ (pq \o history)[i] = pq[i]
              \/ i - n - m \in DOMAIN history /\ (pq \o history)[i] = history[i - n - m]
    <3> DEFINE all == pq \o history
    <3>1. /\ all \in Seq(Entry) /\ Len(all) = Len(pq) + Len(history)
          /\ \A i \in 1..(Len(pq) + Len(history)) :
                all[i] = IF i <= Len(pq) THEN pq[i] ELSE history[i - Len(pq)]
      BY <1>1, <2>1, ConcatProperties
    <3>2. n \in Nat /\ DOMAIN pq = 1..Len(pq) /\ DOMAIN history = 1..Len(history)
      BY <1>1, <2>1
    <3> HIDE DEF all
    <3>3. DOMAIN all = 1..(Len(pq) + Len(history))
      BY <3>1
    <3>4. \A i \in DOMAIN all : \/ i \in DOMAIN pq /\ all[i] = pq[i]
                                \/ i - n - m \in DOMAIN history /\ all[i] = history[i - n - m]
      <4> SUFFICES ASSUME NEW i \in DOMAIN all
                   PROVE  \/ i \in DOMAIN pq /\ all[i] = pq[i]
                          \/ i - n - m \in DOMAIN history /\ all[i] = history[i - n - m]
        OBVIOUS
      <4>1. /\ Len(pq) \in Nat /\ Len(history) \in Nat /\ n \in Nat /\ m \in Nat
            /\ i \in Nat /\ 1 <= i /\ i <= Len(pq) + Len(history)
        BY <1>1, <2>1, <3>2, <3>3
      <4>2. Len(pq) = n + m
        BY <2>1
      <4>3. all[i] = IF i <= Len(pq) THEN pq[i] ELSE history[i - Len(pq)]
        BY <3>1, <3>3
      <4>4. CASE i <= Len(pq)
        <5>1. i \in DOMAIN pq
          BY <3>2, <4>1, <4>4
        <5> QED BY <4>3, <4>4, <5>1
      <4>5. CASE ~(i <= Len(pq))
        <5>1. i - n - m = i - Len(pq) /\ i - Len(pq) \in 1..Len(history)
          BY <4>1, <4>2, <4>5
        <5> QED BY <3>2, <4>3, <4>5, <5>1
      <4> QED BY <4>4, <4>5
    <3> QED BY <1>1, <2>1, <3>1, <3>2, <3>4 DEF all
  <2> QED BY <2>1, <2>2, <2>3
<1>0. {Places[i] : i \in DOMAIN Places} = (1..added) \ forgotten
  <2>1. Places \in Seq(Entry)
    BY <1>1 DEF Places
  <2>2. ASSUME NEW e
        PROVE  Lacks(Places, e) <=> Lacks(playing, e) /\ Lacks(queue, e) /\ Lacks(history, e)
    <3>1. /\ Lacks(playing \o queue, e) <=> Lacks(playing, e) /\ Lacks(queue, e)
          /\ playing \o queue \in Seq(Entry)
      BY <1>1, ConcatLacks
    <3> QED BY <1>1, <3>1, ConcatLacks DEF Places
  <2>3. \A e : Lacks(playing, e) <=> now = Silence \/ now # e
    BY DEF Lacks
  <2>4. \A e \in 1..added : e # Silence
    BY ChannelAssumption DEF ChannelAssumption, Entry, ChannelInv, ChannelTypeOK
  <2>5. \A e \in 1..added : e \in forgotten <=> Lacks(Places, e)
    BY <2>2, <2>3, <2>4 DEF Conserved
  <2>6. ASSUME NEW e, ~Lacks(Places, e)
        PROVE  e \in 1..added
    <3>1. \/ e = now /\ now # Silence
          \/ \E i \in DOMAIN queue : queue[i] = e
          \/ \E i \in DOMAIN history : history[i] = e
      BY <2>2, <2>3, <2>6 DEF Lacks
    <3>2. e \in Entry
      BY <1>1, <3>1 DEF ChannelInv, ChannelTypeOK
    <3>3. e <= added
      BY <3>1 DEF ChannelInv, Apart, Added
    <3>4. added \in Nat
      BY DEF ChannelInv, ChannelTypeOK
    <3> QED BY <3>2, <3>3, <3>4 DEF Entry
  <2>7. \A e : e \in {Places[i] : i \in DOMAIN Places} <=> ~Lacks(Places, e)
    BY DEF Lacks
  <2> QED BY <2>5, <2>6, <2>7
<1> SUFFICES ASSUME NEW i \in DOMAIN Places, NEW j \in DOMAIN Places, Places[i] = Places[j]
             PROVE  i = j
  BY <1>0 DEF EachEntryOnce
<1>3. i \in Int /\ j \in Int /\ n \in Int /\ m \in Int
  <2>1. playing \o queue \in Seq(Entry)
    BY <1>1
  <2>2. Places \in Seq(Entry)
    BY <1>1, <2>1 DEF Places
  <2>3. DOMAIN Places \subseteq Int
    BY <2>2
  <2> QED BY <1>1, <2>3
<1> HIDE DEF playing, n, m
<1>4. CASE i \in 1..n /\ Places[i] = playing[i]
  <2>1. i = 1 /\ now # Silence /\ Places[i] = now
    BY <1>1, <1>3, <1>4
  <2>2. j \in 1..n
    BY <1>2, <2>1 DEF ChannelInv, Apart, Lacks
  <2> QED BY <1>1, <1>3, <2>1, <2>2
<1>5. CASE i - n \in DOMAIN queue /\ Places[i] = queue[i - n]
  <2>1. CASE j \in 1..n /\ Places[j] = playing[j]
    <3>1. Places[j] = now /\ now # Silence
      BY <1>1, <1>3, <2>1
    <3> QED BY <1>5, <3>1 DEF ChannelInv, Apart, Lacks
  <2>2. CASE j - n \in DOMAIN queue /\ Places[j] = queue[j - n]
    <3>1. i - n = j - n
      BY <1>5, <2>2 DEF ChannelInv, Apart, Distinct
    <3> QED BY <1>3, <3>1
  <2>3. CASE j - n - m \in DOMAIN history /\ Places[j] = history[j - n - m]
    BY <1>5, <2>3 DEF ChannelInv, Apart, Disjoint, Lacks
  <2> QED BY <1>2, <2>1, <2>2, <2>3
<1>6. CASE i - n - m \in DOMAIN history /\ Places[i] = history[i - n - m]
  <2>1. CASE j \in 1..n /\ Places[j] = playing[j]
    <3>1. Places[j] = now /\ now # Silence
      BY <1>1, <1>3, <2>1
    <3> QED BY <1>6, <3>1 DEF ChannelInv, Apart, Lacks
  <2>2. CASE j - n \in DOMAIN queue /\ Places[j] = queue[j - n]
    BY <1>6, <2>2 DEF ChannelInv, Apart, Disjoint, Lacks
  <2>3. CASE j - n - m \in DOMAIN history /\ Places[j] = history[j - n - m]
    <3>1. i - n - m = j - n - m
      BY <1>6, <2>3 DEF ChannelInv, Apart, Distinct
    <3> QED BY <1>3, <3>1
  <2> QED BY <1>2, <2>1, <2>2, <2>3
<1> QED BY <1>2, <1>4, <1>5, <1>6

LEMMA ChannelHolds == ChannelSpec => []ChannelInv
<1> QED BY ChannelStart, ChannelStep, PTL DEF ChannelSpec

LEMMA ConservedStart == ChannelInit => Conserved
<1> SUFFICES ASSUME ChannelInit PROVE Conserved
  OBVIOUS
<1>1. now = 1 /\ added = 1 /\ queue = <<>> /\ history = <<>> /\ forgotten = {} /\ 1..added = {1}
  BY DEF ChannelInit
<1> QED BY <1>1 DEF Conserved

LEMMA ConservedHolds == ChannelSpec => []Conserved
<1>1. ChannelInv /\ Conserved /\ [ChannelNext]_channel => Conserved'
  BY ConservedStep
<1> QED BY <1>1, ConservedStart, ChannelHolds, PTL DEF ChannelSpec

\* Stepping back fills the queue past its cap, but never by more than the
\* history has room for (previous, queueMany).
THEOREM QueueStaysBounded == ChannelSpec => []QueueBounded
<1>1. ChannelInv => QueueBounded
  BY DEF ChannelInv
<1> QED BY <1>1, ChannelHolds, PTL

\* However a channel is skipped through, stepped back and played out of turn, no
\* entry is lost or doubled: each one ever added is playing, queued, past, or was
\* the oldest of a full history (retire, skip, previous).
THEOREM PlayedOnce == ChannelSpec => []EachEntryOnce
<1>1. ChannelInv /\ Conserved => EachEntryOnce
  BY ApartIsOnce
<1> QED BY <1>1, ChannelHolds, ConservedHolds, PTL
=============================================================================
