------------------------------- MODULE BookProofs -------------------------------
(***************************************************************************)
(* Theorems about OrderBookSync, for any number of books, any bounds and   *)
(* any interleaving of snapshots, diffs, gaps and reconnections.           *)
(***************************************************************************)
EXTENDS OrderBookSync, SequenceTheorems, WellFoundedInduction, TLAPS

(* A set of naturals has a least one. *)
LEMMA LeastOf ==
  ASSUME NEW ns \in SUBSET Nat, ns # {}
  PROVE  \E n \in ns : \A m \in ns : n <= m
<1> DEFINE less == OpToRel(<, Nat)
<1>1. IsWellFoundedOn(less, Nat)
  BY NatLessThanWellFounded DEF OpToRel
<1>2. \A m, n \in Nat : m < n => <<m, n>> \in less
  BY DEF OpToRel
<1> HIDE DEF less
<1>3. PICK n \in ns : \A m \in ns : ~(<<m, n>> \in less)
  BY <1>1, WFMin
<1>4. ASSUME NEW m \in ns PROVE n <= m
  <2>1. m \in Nat /\ n \in Nat
    OBVIOUS
  <2>2. ~(m < n)
    BY <1>2, <1>3, <2>1
  <2> QED BY <2>1, <2>2
<1> QED BY <1>4
--------------------------------------------------------------------------------
(* Diffs in the order of the ids they end with, none of them beyond n *)
Ordered(diffs, n) ==
  /\ \A i, j \in DOMAIN diffs : i < j => diffs[i].final <= diffs[j].final
  /\ \A i \in DOMAIN diffs : diffs[i].final <= n

(* A replay that meets no gap leaves exactly the updates up to its last diff. *)
LEMMA ReplayIsPrefix ==
  ASSUME NEW diffs \in Seq(Delta), NEW last \in Nat, NEW n \in Nat,
         Ordered(diffs, n), diffs # <<>>,
         \A i \in DOMAIN diffs : diffs[i].final > last /\ Joins(diffs, last, i)
  PROVE  (1 .. last) \cup UNION {Ids(diffs[i]) : i \in DOMAIN diffs}
           = 1 .. diffs[Len(diffs)].final
<1> DEFINE top == diffs[Len(diffs)].final
           all == (1 .. last) \cup UNION {Ids(diffs[i]) : i \in DOMAIN diffs}
<1>1. Len(diffs) \in DOMAIN diffs /\ DOMAIN diffs = 1 .. Len(diffs) /\ Len(diffs) \in Nat
  <2> HIDE DEF top, all
  <2>1. Len(diffs) \in Nat /\ DOMAIN diffs = 1 .. Len(diffs)
    BY LenProperties
  <2>2. Len(diffs) # 0
    BY EmptySeq
  <2> QED BY <2>1, <2>2
<1>2. \A i \in DOMAIN diffs : diffs[i].final \in Nat /\ diffs[i].first \in Nat \ {0}
  <2>1. \A i \in DOMAIN diffs : diffs[i] \in Delta
    BY <1>1, ElementOfSeq
  <2> QED BY <2>1 DEF Delta
<1>3. \A i \in DOMAIN diffs : diffs[i].final <= top
  BY <1>1, <1>2 DEF Ordered
<1>4. top \in Nat /\ top > last
  BY <1>1, <1>2
<1>5. ASSUME NEW x \in all PROVE x \in 1 .. top
  <2>1. CASE x \in 1 .. last
    BY <2>1, <1>4
  <2>2. CASE \E i \in DOMAIN diffs : x \in Ids(diffs[i])
    <3>1. PICK i \in DOMAIN diffs : x \in Ids(diffs[i])
      BY <2>2
    <3> QED BY <3>1, <1>2, <1>3, <1>4 DEF Ids
  <2> QED BY <2>1, <2>2
<1>6. ASSUME NEW x \in 1 .. top, x \notin 1 .. last PROVE x \in all
  <2> DEFINE reach == {i \in DOMAIN diffs : x <= diffs[i].final}
  <2>1. x \in Nat /\ x > last
    BY <1>4, <1>6
  <2>2. reach # {} /\ reach \in SUBSET Nat
    BY <1>1, <2>1
  <2>3. PICK i \in reach : \A j \in reach : i <= j
    BY <2>2, LeastOf
  <2>4. diffs[i].first <= x
    <3>1. CASE i = 1
      BY <3>1, <2>1, <2>3, <1>2 DEF Joins
    <3>2. CASE i # 1
      <4>1. i - 1 \in DOMAIN diffs /\ i - 1 \notin reach
        BY <3>2, <2>3, <1>1
      <4>2. diffs[i - 1].final < x
        BY <4>1, <2>1, <1>2
      <4> QED BY <4>1, <4>2, <3>2, <2>1, <2>3, <1>2 DEF Joins
    <3> QED BY <3>1, <3>2
  <2>5. x \in Ids(diffs[i])
    BY <2>1, <2>3, <2>4, <1>2 DEF Ids
  <2> QED BY <2>3, <2>5
<1> QED BY <1>5, <1>6, <1>4
--------------------------------------------------------------------------------
(* What the state says of one book k of which the venue made n updates: what it
   contains has no hole, and what waits in its buffer is in order. *)
Sound(k, n) ==
  /\ k \in Book
  /\ Len(k.buffer) <= MaxBuffer
  /\ Ordered(k.buffer, n)
  /\ k.health \in {"OK", "CROSSED"} => k.levels = 1 .. k.seq /\ k.seq <= n
  /\ k.phase = "LIVE" => k.health \in {"OK", "CROSSED"} /\ k.buffer = <<>>

(* What waits in the buffer precedes what is on the wire. *)
Behind(k, w) ==
  \A i \in DOMAIN k.buffer, j \in DOMAIN w : k.buffer[i].final <= w[j].final

(* The diffs a snapshot leaves are the tail of those that waited. *)
LEMMA SurvivorsAreATail ==
  ASSUME NEW buffer \in Seq(Delta), NEW n \in Nat, Ordered(buffer, n), NEW last \in Nat
  PROVE  LET diffs == Survivors(buffer, last) IN
         /\ diffs \in Seq(Delta)
         /\ Len(diffs) <= Len(buffer)
         /\ Ordered(diffs, n)
         /\ \A i \in DOMAIN diffs : diffs[i].final > last
         /\ \A i \in DOMAIN diffs : \E j \in DOMAIN buffer : diffs[i] = buffer[j]
<1> DEFINE fresh == {i \in DOMAIN buffer : buffer[i].final > last}
           from == IF fresh = {} THEN Len(buffer) + 1
                   ELSE CHOOSE i \in fresh : \A j \in fresh : i <= j
           diffs == SubSeq(buffer, from, Len(buffer))
<1>1. Len(buffer) \in Nat /\ DOMAIN buffer = 1 .. Len(buffer)
  BY LenProperties
<1>2. \A i \in DOMAIN buffer : buffer[i] \in Delta /\ buffer[i].final \in Nat
  <2>1. \A i \in DOMAIN buffer : buffer[i] \in Delta
    BY <1>1, ElementOfSeq
  <2> QED BY <2>1 DEF Delta
<1>3. fresh # {} => from \in fresh /\ \A j \in fresh : from <= j
  <2>1. fresh \in SUBSET Nat
    BY <1>1
  <2> HIDE DEF fresh
  <2> QED BY <2>1, LeastOf
<1>4. from \in 1 .. Len(buffer) + 1
  <2>1. fresh \subseteq 1 .. Len(buffer)
    BY <1>1
  <2>2. CASE fresh = {}
    BY <2>2, <1>1
  <2>3. CASE fresh # {}
    <3>1. from \in 1 .. Len(buffer)
      BY <2>1, <2>3, <1>3
    <3> QED BY <3>1, <1>1
  <2> QED BY <2>2, <2>3
<1>11. fresh = {} => from = Len(buffer) + 1
  OBVIOUS
<1> HIDE DEF from
<1>5. \A i \in from .. Len(buffer) : i \in DOMAIN buffer /\ buffer[i].final > last
  <2> SUFFICES ASSUME NEW i \in from .. Len(buffer)
               PROVE  i \in DOMAIN buffer /\ buffer[i].final > last
    OBVIOUS
  <2>1. i \in DOMAIN buffer /\ fresh # {}
    BY <1>1, <1>4, <1>11
  <2>2. from \in fresh /\ from <= i
    BY <2>1, <1>3, <1>1
  <2>3. buffer[from].final <= buffer[i].final
    BY <2>1, <2>2, <1>1, <1>2 DEF Ordered
  <2> QED BY <2>1, <2>2, <2>3, <1>2
<1> HIDE DEF fresh
<1>6. /\ diffs \in Seq(Delta)
      /\ Len(diffs) = IF from <= Len(buffer) THEN Len(buffer) - from + 1 ELSE 0
      /\ \A i \in 1 .. Len(buffer) - from + 1 : diffs[i] = buffer[from + i - 1]
  BY <1>1, <1>2, <1>4, <1>5, SubSeqProperties
<1> HIDE DEF diffs
<1>7. DOMAIN diffs = 1 .. Len(diffs) /\ Len(diffs) \in Nat
  BY <1>6, LenProperties
<1>8. \A i \in DOMAIN diffs : diffs[i] = buffer[from + i - 1] /\ from + i - 1 \in from .. Len(buffer)
  <2> SUFFICES ASSUME NEW i \in DOMAIN diffs
               PROVE  i \in 1 .. Len(buffer) - from + 1 /\ from + i - 1 \in from .. Len(buffer)
    BY <1>6
  <2>1. from <= Len(buffer) /\ Len(diffs) = Len(buffer) - from + 1
    BY <1>1, <1>4, <1>6, <1>7
  <2> QED BY <2>1, <1>1, <1>4, <1>7
<1>9. Ordered(diffs, n)
  <2>1. \A i, j \in DOMAIN diffs : i < j =>
          from + i - 1 \in DOMAIN buffer /\ from + j - 1 \in DOMAIN buffer
          /\ from + i - 1 < from + j - 1
    BY <1>4, <1>5, <1>7, <1>8
  <2>2. \A i \in DOMAIN diffs : from + i - 1 \in DOMAIN buffer
    BY <1>5, <1>8
  <2> QED BY <2>1, <2>2, <1>8 DEF Ordered
<1>10. Survivors(buffer, last) = diffs
  BY DEF Survivors, diffs, from, fresh
<1>12. \A i \in DOMAIN diffs : from + i - 1 \in DOMAIN buffer
  BY <1>5, <1>8
<1>13. Len(diffs) <= Len(buffer)
  BY <1>1, <1>4, <1>6
<1>14. \A i \in DOMAIN diffs : diffs[i].final > last
  BY <1>5, <1>8
<1> QED BY <1>6, <1>8, <1>9, <1>10, <1>12, <1>13, <1>14

(* Whatever snapshot arrives, the book it leaves is sound. *)
LEMMA SynchronisedIsSound ==
  ASSUME NEW n \in Nat, NEW k, Sound(k, n), k.phase = "BUFFERING",
         NEW last \in 0 .. n, NEW verdict \in Verdicts, link.number \in 0 .. MaxConnections
  PROVE  /\ Sound(Synchronised(k, last, verdict), n)
         /\ Synchronised(k, last, verdict).phase \in {"LIVE", "BUFFERING"}
         /\ \A i \in DOMAIN Synchronised(k, last, verdict).buffer :
              \E j \in DOMAIN k.buffer : Synchronised(k, last, verdict).buffer[i] = k.buffer[j]
<1> DEFINE diffs == Survivors(k.buffer, last)
           stop  == Breaks(diffs, last)
           done  == SubSeq(diffs, 1, stop - 1)
           rest  == SubSeq(diffs, stop, Len(diffs))
           after == Replayed([k EXCEPT !.buffer = rest], done, last, verdict)
           gaps  == {i \in DOMAIN diffs : ~Joins(diffs, last, i)}
<1>1. k \in Book /\ k.buffer \in Seq(Delta) /\ last \in Nat /\ Len(k.buffer) <= MaxBuffer
  BY DEF Sound, Book
<1>2. /\ diffs \in Seq(Delta) /\ Len(diffs) <= Len(k.buffer) /\ Ordered(diffs, n)
      /\ \A i \in DOMAIN diffs : diffs[i].final > last
      /\ \A i \in DOMAIN diffs : \E j \in DOMAIN k.buffer : diffs[i] = k.buffer[j]
  <2>1. Ordered(k.buffer, n)
    BY DEF Sound
  <2> QED BY <1>1, <2>1, SurvivorsAreATail
<1> HIDE DEF diffs
<1>3. Len(diffs) \in Nat /\ DOMAIN diffs = 1 .. Len(diffs) /\ Len(k.buffer) \in Nat
  BY <1>1, <1>2, LenProperties
<1>4. \A i \in DOMAIN diffs : diffs[i] \in Delta
  BY <1>2, <1>3, ElementOfSeq
<1>5. /\ gaps = {} => stop = Len(diffs) + 1
      /\ gaps # {} => stop \in gaps
  <2>1. gaps \in SUBSET Nat
    BY <1>3
  <2>2. stop = IF gaps = {} THEN Len(diffs) + 1
               ELSE CHOOSE i \in gaps : \A j \in gaps : i <= j
    BY DEF Breaks
  <2> HIDE DEF gaps, stop
  <2> QED BY <2>1, <2>2, LeastOf
<1>6. stop \in 1 .. Len(diffs) + 1
  <2>1. gaps \subseteq 1 .. Len(diffs)
    BY <1>3
  <2> HIDE DEF gaps, stop
  <2>2. CASE gaps = {}
    BY <2>2, <1>3, <1>5
  <2>3. CASE gaps # {}
    <3>1. stop \in 1 .. Len(diffs)
      BY <2>1, <2>3, <1>5
    <3> QED BY <3>1, <1>3
  <2> QED BY <2>2, <2>3
<1>7. Synchronised(k, last, verdict) =
        IF stop > Len(diffs) THEN [after EXCEPT !.phase = "LIVE"]
        ELSE IF stop = 1     THEN [k EXCEPT !.buffer = diffs]
                             ELSE Reset(after)
  BY DEF Synchronised, diffs
<1>8. CASE stop = 1 /\ ~(stop > Len(diffs))
  <2>1. Synchronised(k, last, verdict) = [k EXCEPT !.buffer = diffs]
    BY <1>7, <1>8
  <2> HIDE DEF stop, gaps, done, rest, after
  <2>2. Len(diffs) <= MaxBuffer
    BY <1>1, <1>2, <1>3, SyncAssumption
  <2> DEFINE new == [k EXCEPT !.buffer = diffs]
  <2>3. /\ new \in Book /\ new.buffer = diffs /\ new.phase = "BUFFERING"
        /\ new.health = k.health /\ new.levels = k.levels /\ new.seq = k.seq
    BY <1>1, <1>2 DEF Book
  <2> HIDE DEF new
  <2>4. Sound(new, n)
    BY <2>2, <2>3, <1>2 DEF Sound
  <2>5. Synchronised(k, last, verdict) = new
    BY <2>1 DEF new
  <2> QED BY <2>3, <2>4, <2>5, <1>2
<1> HIDE DEF stop, gaps
<1>9. /\ done \in Seq(Delta) /\ Len(done) = stop - 1
      /\ \A i \in 1 .. stop - 1 : done[i] = diffs[i]
  <2>1. \A i \in 1 .. stop - 1 : diffs[i] \in Delta
    BY <1>3, <1>4, <1>6
  <2>2. /\ done \in Seq(Delta) /\ Len(done) = IF 1 <= stop - 1 THEN (stop - 1) - 1 + 1 ELSE 0
        /\ \A i \in 1 .. (stop - 1) - 1 + 1 : done[i] = diffs[1 + i - 1]
    BY <2>1, <1>3, <1>6, SubSeqProperties
  <2> QED BY <2>2, <1>3, <1>6
<1>10. /\ rest \in Seq(Delta)
       /\ Len(rest) = Len(diffs) - stop + 1
       /\ \A i \in 1 .. Len(rest) : rest[i] = diffs[stop + i - 1] /\ stop + i - 1 \in DOMAIN diffs
  <2>1. \A i \in stop .. Len(diffs) : diffs[i] \in Delta
    BY <1>3, <1>4, <1>6
  <2>2. /\ rest \in Seq(Delta)
        /\ Len(rest) = IF stop <= Len(diffs) THEN Len(diffs) - stop + 1 ELSE 0
        /\ \A i \in 1 .. Len(diffs) - stop + 1 : rest[i] = diffs[stop + i - 1]
    BY <2>1, <1>3, <1>6, SubSeqProperties
  <2> HIDE DEF rest
  <2> QED BY <2>2, <1>3, <1>6
<1> HIDE DEF done, rest
<1>11. DOMAIN rest = 1 .. Len(rest) /\ DOMAIN done = 1 .. Len(done) /\ Len(rest) \in Nat
  BY <1>9, <1>10, LenProperties
<1>12. Ordered(rest, n)
  <2>1. \A i \in DOMAIN rest : rest[i] = diffs[stop + i - 1] /\ stop + i - 1 \in DOMAIN diffs
    BY <1>10, <1>11
  <2>2. \A i, j \in DOMAIN rest : i < j => stop + i - 1 < stop + j - 1
    BY <1>6, <1>3, <1>11
  <2> QED BY <2>1, <2>2, <1>2 DEF Ordered
<1>13. \A i \in DOMAIN done : done[i] \in Delta
  BY <1>9, <1>11, ElementOfSeq
<1>14. /\ after \in Book /\ after.phase = k.phase /\ after.buffer = rest
       /\ after.health = verdict /\ after.from = link.number
       /\ after.seq = (IF done = <<>> THEN last ELSE done[Len(done)].final)
       /\ after.levels = (1 .. last) \cup UNION {Ids(done[i]) : i \in DOMAIN done}
  <2>1. (1 .. last) \cup UNION {Ids(done[i]) : i \in DOMAIN done} \in SUBSET Nat
    BY <1>1, <1>13 DEF Ids, Delta
  <2>2. (IF done = <<>> THEN last ELSE done[Len(done)].final) \in Nat
    <3>1. done # <<>> => Len(done) \in DOMAIN done
      <4>1. done # <<>> => Len(done) \in Nat \ {0}
        BY <1>9, EmptySeq
      <4> QED BY <4>1, <1>11
    <3> QED BY <1>1, <1>13, <3>1 DEF Delta
  <2>3. verdict \in {"OK", "CROSSED"}
    BY SyncAssumption
  <2> DEFINE levels == (1 .. last) \cup UNION {Ids(done[i]) : i \in DOMAIN done}
             seq == IF done = <<>> THEN last ELSE done[Len(done)].final
  <2>4. after = [[k EXCEPT !.buffer = rest] EXCEPT
                   !.levels = levels, !.seq = seq, !.health = verdict, !.from = link.number]
    BY DEF Replayed
  <2> HIDE DEF levels, seq, after
  <2>5. levels \in SUBSET Nat /\ seq \in Nat
    BY <2>1, <2>2 DEF levels, seq
  <2>6. /\ after \in Book /\ after.phase = k.phase /\ after.buffer = rest
        /\ after.health = verdict /\ after.from = link.number
        /\ after.seq = seq /\ after.levels = levels
    BY <1>1, <1>10, <2>3, <2>4, <2>5 DEF Book
  <2> QED BY <2>6 DEF levels, seq
<1> HIDE DEF after
<1>15. CASE stop > Len(diffs)
  <2>1. stop = Len(diffs) + 1 /\ gaps = {}
    BY <1>3, <1>5, <1>6, <1>15 DEF gaps
  <2>2. done = diffs
    BY <2>1, <1>2, <1>3, <1>9, SeqEqual
  <2>3. Len(rest) = 0 /\ rest = <<>>
    <3>1. Len(rest) = 0
      BY <2>1, <1>3, <1>10
    <3> QED BY <3>1, <1>10, EmptySeq
  <2>4. after.levels = 1 .. after.seq /\ after.seq <= n
    <3>1. CASE diffs = <<>>
      <4>1. DOMAIN diffs = {}
        BY <3>1
      <4> QED BY <4>1, <3>1, <2>2, <1>14
    <3>2. CASE diffs # <<>>
      <4>1. Len(diffs) \in DOMAIN diffs
        <5>1. Len(diffs) \in Nat \ {0}
          BY <3>2, <1>2, EmptySeq
        <5> QED BY <5>1, <1>3
      <4>2. diffs[Len(diffs)].final <= n
        BY <4>1, <1>2 DEF Ordered
      <4>3. \A i \in DOMAIN diffs : Joins(diffs, last, i)
        BY <2>1 DEF gaps
      <4>4. (1 .. last) \cup UNION {Ids(diffs[i]) : i \in DOMAIN diffs}
              = 1 .. diffs[Len(diffs)].final
        BY <4>3, <3>2, <1>1, <1>2, ReplayIsPrefix
      <4> QED BY <4>2, <4>4, <3>2, <2>2, <1>14
    <3> QED BY <3>1, <3>2
  <2>5. verdict \in {"OK", "CROSSED"}
    BY SyncAssumption
  <2>7. Ordered(<<>>, n) /\ Len(<<>>) <= MaxBuffer
    BY SyncAssumption DEF Ordered
  <2> DEFINE new == [after EXCEPT !.phase = "LIVE"]
  <2>8. /\ new \in Book /\ new.buffer = <<>> /\ new.phase = "LIVE" /\ new.health = verdict
        /\ new.levels = after.levels /\ new.seq = after.seq
    BY <1>14, <2>3 DEF Book
  <2>9. Synchronised(k, last, verdict) = new
    BY <1>7, <1>15
  <2> HIDE DEF new
  <2>10. Sound(new, n)
    BY <2>4, <2>5, <2>7, <2>8 DEF Sound
  <2>11. DOMAIN <<>> = {}
    OBVIOUS
  <2> QED BY <2>8, <2>9, <2>10, <2>11
<1>16. CASE stop # 1 /\ ~(stop > Len(diffs))
  <2>1. Synchronised(k, last, verdict) = Reset(after)
    BY <1>16, <1>7
  <2>2. Len(rest) <= MaxBuffer
    BY <1>1, <1>2, <1>3, <1>6, <1>10, SyncAssumption
  <2> DEFINE new == Reset(after)
  <2>3. /\ new \in Book /\ new.buffer = rest /\ new.phase = "BUFFERING"
        /\ new.health = "RESYNC_REQUIRED"
    BY <1>14 DEF Reset, Book
  <2> HIDE DEF new
  <2>4. Sound(new, n)
    BY <2>2, <2>3, <1>12 DEF Sound
  <2>5. \A i \in DOMAIN rest : \E j \in DOMAIN k.buffer : rest[i] = k.buffer[j]
    <3> SUFFICES ASSUME NEW i \in DOMAIN rest
                 PROVE  \E j \in DOMAIN k.buffer : rest[i] = k.buffer[j]
      OBVIOUS
    <3>1. rest[i] = diffs[stop + i - 1] /\ stop + i - 1 \in DOMAIN diffs
      BY <1>10, <1>11
    <3> QED BY <3>1, <1>2
  <2>6. Synchronised(k, last, verdict) = new
    BY <2>1 DEF new
  <2> QED BY <2>3, <2>4, <2>5, <2>6
<1> QED BY <1>8, <1>15, <1>16

LEMMA ResyncingIsSound ==
  ASSUME NEW n \in Nat, NEW k, Sound(k, n), NEW discard \in BOOLEAN
  PROVE  LET after == Resyncing(k, discard) IN
         /\ Sound(after, n) /\ after.phase = "BUFFERING"
         /\ after.buffer \in {k.buffer, <<>>}
<1>1. Ordered(<<>>, n) /\ <<>> \in Seq(Delta) /\ Len(<<>>) <= MaxBuffer
  BY SyncAssumption DEF Ordered
<1>2. Len(k.buffer) <= MaxBuffer /\ Ordered(k.buffer, n) /\ k \in Book
  BY DEF Sound
<1>3. CASE k.phase = "IDLE"
  <2>1. Resyncing(k, discard) = [k EXCEPT !.phase = "BUFFERING", !.buffer = k.buffer]
    BY <1>3, <1>2 DEF Resyncing, Book
  <2> QED BY <2>1, <1>2 DEF Sound, Book
<1>4. CASE k.phase # "IDLE"
  <2>1. PICK kept \in {k.buffer, <<>>} :
          Resyncing(k, discard) = [Reset(k) EXCEPT !.phase = "BUFFERING", !.buffer = kept]
    BY <1>4, <1>2 DEF Resyncing, Reset, Book
  <2>2. kept \in Seq(Delta) /\ Ordered(kept, n) /\ Len(kept) <= MaxBuffer
    BY <1>1, <1>2 DEF Book
  <2> DEFINE after == [Reset(k) EXCEPT !.phase = "BUFFERING", !.buffer = kept]
  <2>3. /\ after \in Book /\ after.phase = "BUFFERING" /\ after.buffer = kept
        /\ after.health = "RESYNC_REQUIRED"
    BY <1>2, <2>2 DEF Reset, Book
  <2> HIDE DEF after
  <2>4. Sound(after, n)
    BY <2>2, <2>3 DEF Sound
  <2> QED BY <2>1, <2>3, <2>4 DEF after
<1> QED BY <1>3, <1>4

(* Whatever diff is delivered next, the book it leaves is sound, and a book that
   stays live only grows. *)
LEMMA FedIsSound ==
  ASSUME NEW n \in Nat, NEW k, Sound(k, n), NEW verdict \in Verdicts,
         NEW d \in Delta, d.final <= n, link.number \in 0 .. MaxConnections,
         \A i \in DOMAIN k.buffer : k.buffer[i].final <= d.final
  PROVE  LET after == Fed(k, d, verdict) IN
         /\ Sound(after, n)
         /\ \A i \in DOMAIN after.buffer : after.buffer[i].final <= d.final
         /\ after.phase \in {k.phase, "BUFFERING"}
         /\ k.phase = "FAILED" => after.phase = "FAILED"
         /\ k.phase = "LIVE" /\ after.phase = "LIVE" => k.levels \subseteq after.levels
<1>1. /\ k \in Book /\ Len(k.buffer) <= MaxBuffer /\ Ordered(k.buffer, n)
      /\ k.buffer \in Seq(Delta) /\ k.seq \in Nat
      /\ Len(k.buffer) \in Nat /\ DOMAIN k.buffer = 1 .. Len(k.buffer)
  BY LenProperties DEF Sound, Book
<1>2. d.final \in Nat /\ d.first \in Nat \ {0} /\ verdict \in {"OK", "CROSSED"}
  BY SyncAssumption DEF Delta
<1>3. CASE k.phase = "FAILED" \/ (k.phase = "LIVE" /\ ~RefusesDeltas(k) /\ Duplicate(k, d))
  <2>1. Fed(k, d, verdict) = k
    BY <1>3 DEF Fed
  <2> QED BY <2>1, <1>3
<1>4. CASE k.phase \notin {"FAILED", "LIVE"}
  <2> DEFINE room == IF Len(k.buffer) >= MaxBuffer THEN Tail(k.buffer) ELSE k.buffer
             full == Append(room, d)
  <2>1. Fed(k, d, verdict) = [[k EXCEPT !.buffer = full] EXCEPT !.phase = "BUFFERING"]
    BY <1>4, <1>1 DEF Fed, Buffered, Book
  <2>2. /\ room \in Seq(Delta) /\ Len(room) \in Nat /\ Len(room) + 1 <= MaxBuffer
        /\ DOMAIN room = 1 .. Len(room)
        /\ \/ \A i \in DOMAIN room : i \in DOMAIN k.buffer /\ room[i] = k.buffer[i]
           \/ \A i \in DOMAIN room : i + 1 \in DOMAIN k.buffer /\ room[i] = k.buffer[i + 1]
    <3>1. CASE Len(k.buffer) >= MaxBuffer
      <4>1. k.buffer # <<>> /\ room = Tail(k.buffer)
        BY <3>1, SyncAssumption
      <4>2. /\ room \in Seq(Delta) /\ Len(room) = Len(k.buffer) - 1
            /\ \A i \in 1 .. Len(room) : room[i] = k.buffer[i + 1]
        <5> HIDE DEF room
        <5>1. /\ Tail(k.buffer) \in Seq(Delta) /\ Len(Tail(k.buffer)) = Len(k.buffer) - 1
              /\ \A i \in 1 .. Len(Tail(k.buffer)) : Tail(k.buffer)[i] = k.buffer[i + 1]
          BY <4>1, <1>1, HeadTailProperties
        <5> QED BY <5>1, <4>1
      <4> HIDE DEF room
      <4>3. DOMAIN room = 1 .. Len(room)
        BY <4>2, LenProperties
      <4> QED BY <4>2, <4>3, <1>1, <3>1, SyncAssumption
    <3>2. CASE ~(Len(k.buffer) >= MaxBuffer)
      BY <3>2, <1>1, SyncAssumption
    <3> QED BY <3>1, <3>2
  <2> HIDE DEF room
  <2>3. /\ full \in Seq(Delta) /\ Len(full) = Len(room) + 1
        /\ DOMAIN full = 1 .. Len(room) + 1
        /\ \A i \in DOMAIN full : full[i] = IF i = Len(room) + 1 THEN d ELSE room[i]
    BY <2>2
  <2> HIDE DEF full
  <2>4. \A i \in DOMAIN room : room[i].final <= d.final /\ room[i].final \in Nat
    <3>1. \A i \in DOMAIN k.buffer : k.buffer[i] \in Delta
      BY <1>1, ElementOfSeq
    <3> QED BY <2>2, <3>1 DEF Delta
  <2>5. \A i, j \in DOMAIN room : i < j => room[i].final <= room[j].final
    <3>1. \A i, j \in DOMAIN k.buffer : i < j => k.buffer[i].final <= k.buffer[j].final
      BY <1>1 DEF Ordered
    <3>2. CASE \A i \in DOMAIN room : i \in DOMAIN k.buffer /\ room[i] = k.buffer[i]
      BY <3>1, <3>2
    <3>3. CASE \A i \in DOMAIN room : i + 1 \in DOMAIN k.buffer /\ room[i] = k.buffer[i + 1]
      <4>1. \A i, j \in DOMAIN room : i < j => i + 1 < j + 1
        BY <2>2
      <4> QED BY <3>1, <3>3, <4>1
    <3> QED BY <2>2, <3>2, <3>3
  <2>6. \A i \in DOMAIN full : full[i].final <= d.final /\ full[i].final \in Nat
    BY <2>2, <2>3, <2>4, <1>2
  <2>7. \A i, j \in DOMAIN full : i < j => full[i].final <= full[j].final
    <3> SUFFICES ASSUME NEW i \in DOMAIN full, NEW j \in DOMAIN full, i < j
                 PROVE  full[i].final <= full[j].final
      OBVIOUS
    <3>1. i \in DOMAIN room /\ full[i] = room[i]
      BY <2>2, <2>3
    <3>2. CASE j = Len(room) + 1
      BY <3>1, <3>2, <2>3, <2>4
    <3>3. CASE j # Len(room) + 1
      BY <3>1, <3>3, <2>2, <2>3, <2>5
    <3> QED BY <3>2, <3>3
  <2>8. Ordered(full, n)
    BY <2>6, <2>7, <1>2 DEF Ordered
  <2> QED BY <2>1, <2>2, <2>3, <2>6, <2>8, <1>1, <1>4 DEF Sound, Book
<1>5. CASE k.phase = "LIVE" /\ (RefusesDeltas(k) \/ (~Duplicate(k, d) /\ Gap(k, d)))
  <2>1. Fed(k, d, verdict) = [Reset(k) EXCEPT !.phase = "BUFFERING", !.buffer = <<d>>]
    BY <1>5 DEF Fed
  <2>2. /\ <<d>> \in Seq(Delta) /\ Len(<<d>>) = 1 /\ DOMAIN <<d>> = {1} /\ <<d>>[1] = d
        /\ Len(<<d>>) <= MaxBuffer
    BY SyncAssumption
  <2>3. Ordered(<<d>>, n)
    BY <2>2, <1>2 DEF Ordered
  <2> DEFINE after == [Reset(k) EXCEPT !.phase = "BUFFERING", !.buffer = <<d>>]
  <2>4. /\ after \in Book /\ after.phase = "BUFFERING" /\ after.buffer = <<d>>
        /\ after.health = "RESYNC_REQUIRED"
    BY <1>1, <2>2 DEF Reset, Book
  <2> HIDE DEF after
  <2>5. Sound(after, n)
    BY <2>2, <2>3, <2>4 DEF Sound
  <2>6. \A i \in DOMAIN after.buffer : after.buffer[i].final <= d.final
    BY <2>2, <2>4, <1>2
  <2>7. Fed(k, d, verdict) = after
    BY <2>1 DEF after
  <2> QED BY <2>4, <2>5, <2>6, <2>7, <1>5
<1>6. CASE k.phase = "LIVE" /\ ~RefusesDeltas(k) /\ ~Duplicate(k, d) /\ ~Gap(k, d)
  <2>1. Fed(k, d, verdict) = [k EXCEPT !.levels = @ \cup Ids(d), !.seq = d.final,
                                       !.health = verdict, !.from = link.number]
    BY <1>6 DEF Fed, Extended
  <2>2. k.levels = 1 .. k.seq /\ k.buffer = <<>>
    BY <1>6 DEF Sound
  <2>3. k.levels \cup Ids(d) = 1 .. d.final
    BY <2>2, <1>1, <1>2, <1>6 DEF Ids, Duplicate, Gap
  <2> DEFINE after == [k EXCEPT !.levels = @ \cup Ids(d), !.seq = d.final,
                                !.health = verdict, !.from = link.number]
  <2>4. k.levels \cup Ids(d) \in SUBSET Nat
    BY <2>3
  <2>5. /\ after \in Book /\ after.phase = "LIVE" /\ after.buffer = <<>>
        /\ after.health = verdict /\ after.seq = d.final /\ after.levels = k.levels \cup Ids(d)
    BY <2>2, <2>4, <1>1, <1>2, <1>6 DEF Book
  <2> HIDE DEF after
  <2>6. Ordered(<<>>, n) /\ Len(<<>>) <= MaxBuffer /\ DOMAIN <<>> = {}
    BY SyncAssumption DEF Ordered
  <2>7. Sound(after, n)
    BY <2>3, <2>5, <2>6, <1>2 DEF Sound
  <2>8. Fed(k, d, verdict) = after
    BY <2>1 DEF after
  <2> QED BY <2>5, <2>6, <2>7, <2>8, <1>6
<1>7. k.phase \in {"IDLE", "BUFFERING", "LIVE", "FAILED"}
  BY <1>1 DEF Book
<1> QED BY <1>3, <1>4, <1>5, <1>6, <1>7

LEMMA MoreUpdates ==
  ASSUME NEW n \in Nat, NEW m \in Nat, n <= m, NEW k, Sound(k, n)
  PROVE  Sound(k, m)
<1>1. \A i \in DOMAIN k.buffer : k.buffer[i].final \in Nat
  <2>1. k.buffer \in Seq(Delta)
    BY DEF Sound, Book
  <2>2. \A i \in DOMAIN k.buffer : k.buffer[i] \in Delta
    BY <2>1, ElementOfSeq, LenProperties
  <2> QED BY <2>2 DEF Delta
<1>2. Ordered(k.buffer, m)
  BY <1>1 DEF Sound, Ordered
<1> QED BY <1>2 DEF Sound, Book

LEMMA TailOfWire ==
  ASSUME NEW n \in Nat, NEW w \in Seq(Delta), w # <<>>, Ordered(w, n)
  PROVE  /\ Tail(w) \in Seq(Delta) /\ Ordered(Tail(w), n)
         /\ 1 \in DOMAIN w /\ Head(w) = w[1] /\ Head(w) \in Delta /\ Head(w).final <= n
         /\ \A j \in DOMAIN Tail(w) : j + 1 \in DOMAIN w /\ Tail(w)[j] = w[j + 1]
         /\ \A j \in DOMAIN Tail(w) : Head(w).final <= Tail(w)[j].final
<1>1. /\ Tail(w) \in Seq(Delta) /\ Len(Tail(w)) = Len(w) - 1 /\ Head(w) \in Delta
      /\ \A j \in 1 .. Len(Tail(w)) : Tail(w)[j] = w[j + 1]
  BY HeadTailProperties
<1>2. DOMAIN w = 1 .. Len(w) /\ DOMAIN Tail(w) = 1 .. Len(Tail(w)) /\ Len(w) \in Nat \ {0}
  BY <1>1, LenProperties, EmptySeq
<1>3. Head(w) = w[1] /\ 1 \in DOMAIN w
  BY <1>2
<1>4. \A j \in DOMAIN Tail(w) : j + 1 \in DOMAIN w /\ Tail(w)[j] = w[j + 1] /\ 1 < j + 1
  BY <1>1, <1>2
<1>5. \A i, j \in DOMAIN Tail(w) : i < j => i + 1 < j + 1
  BY <1>2
<1> QED BY <1>1, <1>3, <1>4, <1>5 DEF Ordered
--------------------------------------------------------------------------------
BookInv(b) ==
  Sound(book[b], now[b]) /\ Ordered(wire[b], now[b]) /\ Behind(book[b], wire[b])

(* The inductive invariant: each book is sound, what waits in its buffer precedes
   what is on the wire, and the book the worker fetches for is waiting. *)
IInv ==
  /\ TypeOK
  /\ \A b \in Books : BookInv(b)
  /\ worker.pc = "fetching" => book[worker.job.book].phase = "BUFFERING"
  /\ NoBookForgotten

LEMMA RequestsOfAll ==
  ASSUME NEW discard \in BOOLEAN
  PROVE  /\ RequestAll(discard) \in Seq(Request)
         /\ \A b \in Books : \E i \in 1 .. Len(RequestAll(discard)) :
              RequestAll(discard)[i].book = b
<1>1. Symbols \in Seq(Books) /\ DOMAIN Symbols = 1 .. Len(Symbols) /\ Len(Symbols) \in Nat
  BY SyncAssumption, LenProperties
<1>2. \A i \in DOMAIN Symbols : Symbols[i] \in Books
  BY DEF Books, Range
<1>3. RequestAll(discard) \in Seq(Request) /\ Len(RequestAll(discard)) = Len(Symbols)
  BY <1>1, <1>2 DEF RequestAll, Request
<1>4. \A b \in Books : \E i \in DOMAIN Symbols : Symbols[i] = b
  BY DEF Books, Range
<1> QED BY <1>1, <1>3, <1>4 DEF RequestAll

LEMMA InitIInv == Init => IInv
<1> SUFFICES ASSUME Init PROVE IInv
  OBVIOUS
<1>1. \A b \in Books : BookInv(b)
  BY SyncAssumption DEF Init, BookInv, Sound, Ordered, Behind, Book, NewBook
<1>2. TypeOK
  BY SyncAssumption DEF Init, TypeOK, Book, NewBook, Idle
<1>3. NoBookForgotten
  BY DEF Init, NoBookForgotten, Requested, NewBook
<1> QED BY <1>1, <1>2, <1>3 DEF Init, IInv, Idle

LEMMA Shapes ==
  ASSUME TypeOK
  PROVE  /\ \A b \in Books : now[b] \in Nat /\ book[b] \in Book /\ wire[b] \in Seq(Delta)
         /\ link.up \in BOOLEAN /\ link.number \in 0 .. MaxConnections
         /\ queue.items \in Seq(Request) /\ queue.started \in BOOLEAN
         /\ worker.pc # "idle" => worker.job \in Request /\ worker.job.book \in Books
  BY DEF TypeOK, Request

(* A step that gives one book another sound state leaves every book sound. *)
LEMMA OneBookBecomes ==
  ASSUME IInv, NEW c \in Books, NEW k, Sound(k, now[c]),
         UNCHANGED now, NEW w \in Seq(Delta), wire' = [wire EXCEPT ![c] = w],
         Ordered(w, now[c]), Behind(k, w), Become(c, k)
  PROVE  /\ book' \in [Books -> Book] /\ wire' \in [Books -> Seq(Delta)]
         /\ \A b \in Books : Len(book'[b].buffer) <= MaxBuffer
         /\ \A b \in Books : BookInv(b)'
<1>1. book' \in [Books -> Book] /\ book' = [book EXCEPT ![c] = k]
  BY DEF Become, IInv, TypeOK, Sound
<1>2. wire' \in [Books -> Seq(Delta)]
  BY DEF IInv, TypeOK
<1>3. ASSUME NEW b \in Books PROVE BookInv(b)' /\ Len(book'[b].buffer) <= MaxBuffer
  <2>1. CASE b = c
    <3>1. book'[b] = k /\ wire'[b] = w
      BY <1>1, <2>1 DEF IInv, TypeOK
    <3> QED BY <3>1, <2>1 DEF BookInv, Sound, Ordered, Behind
  <2>2. CASE b # c
    <3>1. book'[b] = book[b] /\ wire'[b] = wire[b]
      BY <1>1, <2>2 DEF IInv, TypeOK
    <3>2. Sound(book[b], now[b]) /\ Ordered(wire[b], now[b]) /\ Behind(book[b], wire[b])
      BY DEF IInv, BookInv
    <3> QED BY <3>1, <3>2 DEF BookInv, Sound, Ordered, Behind
  <2> QED BY <2>1, <2>2
<1> QED BY <1>1, <1>2, <1>3

(* A diff that the venue has just produced goes behind all others. *)
LEMMA AppendedIsOrdered ==
  ASSUME NEW s \in Seq(Delta), NEW d \in Delta, NEW k \in Book,
         NEW m \in Nat, NEW n \in Nat, m <= n, d.final = n,
         Ordered(s, m), Behind(k, s), Ordered(k.buffer, m)
  PROVE  Ordered(Append(s, d), n) /\ Behind(k, Append(s, d))
<1> DEFINE w == Append(s, d)
<1>1. /\ DOMAIN s = 1 .. Len(s) /\ Len(s) \in Nat
      /\ DOMAIN w = 1 .. Len(s) + 1
      /\ \A i \in DOMAIN s : w[i] = s[i] /\ s[i] \in Delta
      /\ w[Len(s) + 1] = d
  BY ElementOfSeq, LenProperties
<1> HIDE DEF w
<1>2. \A i \in DOMAIN s : /\ w[i].final \in Nat /\ w[i].final <= m
                          /\ \A j \in DOMAIN s : i < j => w[i].final <= w[j].final
  BY <1>1 DEF Delta, Ordered
<1>3. \A i \in DOMAIN w : i \in DOMAIN s \/ i = Len(s) + 1
  BY <1>1
<1>4. \A i \in DOMAIN w : w[i].final <= n
  <2> SUFFICES ASSUME NEW i \in DOMAIN w PROVE w[i].final <= n
    OBVIOUS
  <2>1. CASE i \in DOMAIN s
    BY <2>1, <1>2
  <2>2. CASE i = Len(s) + 1
    BY <2>2, <1>1
  <2> QED BY <2>1, <2>2, <1>3
<1>5. ASSUME NEW i \in DOMAIN w, NEW j \in DOMAIN w, i < j
      PROVE  w[i].final <= w[j].final
  <2>1. i \in DOMAIN s
    BY <1>1, <1>5
  <2>2. CASE j \in DOMAIN s
    BY <2>1, <2>2, <1>2, <1>5
  <2>3. CASE j = Len(s) + 1
    BY <2>1, <2>3, <1>1, <1>2
  <2> QED BY <2>2, <2>3, <1>3
<1>6. ASSUME NEW i \in DOMAIN k.buffer, NEW j \in DOMAIN w
      PROVE  k.buffer[i].final <= w[j].final
  <2>1. CASE j \in DOMAIN s
    BY <2>1, <1>1 DEF Behind
  <2>2. CASE j = Len(s) + 1
    <3>1. k.buffer \in Seq(Delta)
      BY DEF Book
    <3>2. k.buffer[i] \in Delta
      BY <3>1, ElementOfSeq, LenProperties
    <3>3. k.buffer[i].final \in Nat /\ k.buffer[i].final <= m
      BY <3>2 DEF Delta, Ordered
    <3> QED BY <2>2, <3>3, <1>1
  <2> QED BY <2>1, <2>2, <1>3
<1>7. Ordered(w, n) /\ Behind(k, w)
  BY <1>4, <1>5, <1>6 DEF Ordered, Behind
<1> QED BY <1>7 DEF w

LEMMA VenueUpdatesKeepsIInv ==
  ASSUME IInv, NEW c \in Books, VenueUpdates(c)
  PROVE  IInv'
<1> USE DEF IInv
<1>1. PICK n \in {1, 2} :
        /\ now[c] + n <= Horizon[c] /\ now' = [now EXCEPT ![c] = @ + n]
        /\ wire' = IF link.up THEN [wire EXCEPT ![c] = Append(@, [first |-> now[c] + 1,
                                                                 final |-> now[c] + n])]
                   ELSE wire
  BY DEF VenueUpdates
<1>2. UNCHANGED <<link, book, queue, worker>>
  BY DEF VenueUpdates
<1> DEFINE d == [first |-> now[c] + 1, final |-> now[c] + n]
           w == Append(wire[c], d)
<1>3. d \in Delta /\ now[c] \in Nat /\ wire[c] \in Seq(Delta)
  BY Shapes DEF Delta
<1>4. now' \in [Books -> Nat] /\ \A b \in Books : now[b] <= now'[b] /\ now'[b] <= Horizon[b]
  BY <1>1 DEF TypeOK
<1>5. w \in Seq(Delta)
  BY <1>3
<1>6. wire' \in [Books -> Seq(Delta)]
      /\ \A b \in Books : wire'[b] = wire[b] \/ (b = c /\ wire'[b] = w)
  BY <1>1, <1>5 DEF TypeOK
<1>7. d.final = now'[c] /\ d.final = now[c] + n
  BY <1>1 DEF TypeOK
<1> HIDE DEF d, w
<1>8. ASSUME NEW b \in Books PROVE BookInv(b)'
  <2>1. Sound(book[b], now[b]) /\ Ordered(wire[b], now[b]) /\ Behind(book[b], wire[b])
        /\ Ordered(book[b].buffer, now[b])
    BY DEF BookInv, Sound
  <2>2. now[b] \in Nat /\ now'[b] \in Nat /\ now[b] <= now'[b]
    BY <1>4, Shapes
  <2>3. Sound(book[b], now'[b])
    BY <2>1, <2>2, MoreUpdates
  <2>4. \A i \in DOMAIN wire[b] : wire[b][i].final \in Nat /\ wire[b][i].final <= now[b]
    <3>1. \A i \in DOMAIN wire[b] : wire[b][i] \in Delta
      BY Shapes, ElementOfSeq, LenProperties
    <3> QED BY <3>1, <2>1 DEF Delta, Ordered
  <2>5. Ordered(wire[b], now'[b])
    BY <2>1, <2>2, <2>4 DEF Ordered
  <2>7. CASE wire'[b] = wire[b]
    BY <1>2, <2>1, <2>3, <2>5, <2>7 DEF BookInv
  <2>8. CASE b = c /\ wire'[b] = w
    <3>1. book[c] \in Book /\ wire[c] \in Seq(Delta)
      BY Shapes
    <3>2. Ordered(w, now'[c]) /\ Behind(book[c], w)
      BY <1>3, <1>7, <2>1, <2>2, <2>8, <3>1, AppendedIsOrdered DEF w
    <3> QED BY <1>2, <2>3, <2>8, <3>2 DEF BookInv
  <2> QED BY <1>6, <2>7, <2>8
<1>9. TypeOK'
  BY <1>2, <1>4, <1>6 DEF TypeOK
<1>10. NoBookForgotten'
  BY <1>2 DEF NoBookForgotten, Requested, RefusesDeltas
<1> QED BY <1>2, <1>8, <1>9, <1>10

LEMMA DisconnectsKeepsIInv ==
  ASSUME IInv, Disconnects
  PROVE  IInv'
<1> USE DEF IInv, Disconnects
<1>1. \A b \in Books : wire'[b] = <<>>
  OBVIOUS
<1>2. \A b \in Books : BookInv(b)'
  BY <1>1 DEF BookInv, Sound, Ordered, Behind
<1>3. /\ RequestAll(TRUE) \in Seq(Request)
      /\ queue'.items = queue.items \o RequestAll(TRUE)
      /\ queue'.started = queue.started
      /\ queue' \in [started : BOOLEAN, items : Seq(Request)]
  <2> DEFINE all == RequestAll(TRUE)
  <2>1. all \in Seq(Request)
    BY RequestsOfAll
  <2>2. queue' = [queue EXCEPT !.items = @ \o all]
    BY DEF Enqueue
  <2>3. queue \in [started : BOOLEAN, items : Seq(Request)]
    BY DEF TypeOK
  <2> HIDE DEF all
  <2>4. queue.items \o all \in Seq(Request)
    BY <2>1, <2>3
  <2>5. /\ queue'.items = queue.items \o all /\ queue'.started = queue.started
        /\ queue' \in [started : BOOLEAN, items : Seq(Request)]
    BY <2>2, <2>3, <2>4
  <2> QED BY <2>1, <2>5 DEF all
<1>4. \A b \in Books : \E j \in DOMAIN queue'.items : queue'.items[j].book = b
  <2> DEFINE all == RequestAll(TRUE)
  <2>1. queue.items \in Seq(Request) /\ all \in Seq(Request) /\ queue'.items = queue.items \o all
    BY <1>3, Shapes
  <2>2. \A b \in Books : \E i \in 1 .. Len(all) : all[i].book = b
    BY RequestsOfAll
  <2> HIDE DEF all
  <2> SUFFICES ASSUME NEW b \in Books
               PROVE  \E j \in DOMAIN queue'.items : queue'.items[j].book = b
    OBVIOUS
  <2>3. PICK i \in 1 .. Len(all) : all[i].book = b
    BY <2>2
  <2>4. Len(queue.items) + i \in DOMAIN queue'.items /\ queue'.items[Len(queue.items) + i] = all[i]
    BY <2>1
  <2> QED BY <2>3, <2>4
<1>5. ASSUME NEW b \in Books PROVE Requested(b)'
  BY <1>4 DEF Requested
<1>6. NoBookForgotten'
  BY <1>5 DEF NoBookForgotten, RefusesDeltas
<1>7. TypeOK'
  <2>1. wire' \in [Books -> Seq(Delta)]
    OBVIOUS
  <2>2. link' \in [up : BOOLEAN, number : 0 .. MaxConnections, lost : 0 .. MaxLost]
    BY DEF TypeOK
  <2>3. UNCHANGED <<now, book, worker>>
    OBVIOUS
  <2> QED BY <2>1, <2>2, <2>3, <1>3 DEF TypeOK
<1> QED BY <1>2, <1>6, <1>7

LEMMA LosesFrameKeepsIInv ==
  ASSUME IInv, NEW c \in Books, LosesFrame(c)
  PROVE  IInv'
<1> USE DEF IInv, LosesFrame
<1>1. Sound(book[c], now[c]) /\ Ordered(wire[c], now[c]) /\ Behind(book[c], wire[c])
  BY DEF BookInv
<1>2. now[c] \in Nat /\ wire[c] \in Seq(Delta) /\ link.number \in 0 .. MaxConnections
  BY Shapes
<1>3. /\ Tail(wire[c]) \in Seq(Delta) /\ Ordered(Tail(wire[c]), now[c])
      /\ \A j \in DOMAIN Tail(wire[c]) : j + 1 \in DOMAIN wire[c]
                                        /\ Tail(wire[c])[j] = wire[c][j + 1]
  BY <1>1, <1>2, TailOfWire
<1>4. Behind(book[c], Tail(wire[c]))
  BY <1>1, <1>3 DEF Behind
<1>5. Become(c, book[c])
  BY DEF Become, TypeOK
<1>6. wire' = [wire EXCEPT ![c] = Tail(wire[c])]
  OBVIOUS
<1>7. /\ book' \in [Books -> Book] /\ wire' \in [Books -> Seq(Delta)]
      /\ \A b \in Books : Len(book'[b].buffer) <= MaxBuffer
      /\ \A b \in Books : BookInv(b)'
  BY <1>1, <1>3, <1>4, <1>5, <1>6, OneBookBecomes
<1>8. link' \in [up : BOOLEAN, number : 0 .. MaxConnections, lost : 0 .. MaxLost]
  <2>1. link \in [up : BOOLEAN, number : 0 .. MaxConnections, lost : 0 .. MaxLost]
    BY DEF TypeOK
  <2>2. link.lost + 1 \in 0 .. MaxLost
    BY <2>1, SyncAssumption
  <2> QED BY <2>1, <2>2
<1>9. TypeOK'
  BY <1>7, <1>8 DEF TypeOK
<1>10. NoBookForgotten'
  BY DEF NoBookForgotten, Requested, RefusesDeltas
<1> QED BY <1>7, <1>9, <1>10

LEMMA DeliversKeepsIInv ==
  ASSUME IInv, NEW c \in Books, Delivers(c)
  PROVE  IInv'
<1> USE DEF IInv
<1>1. wire[c] # <<>> /\ wire' = [wire EXCEPT ![c] = Tail(wire[c])] /\ UNCHANGED <<now, link, worker>>
  BY DEF Delivers
<1>2. PICK verdict \in Verdicts : Become(c, Fed(book[c], Head(wire[c]), verdict))
  BY DEF Delivers
<1> DEFINE d == Head(wire[c])
           k == Fed(book[c], d, verdict)
<1>3. Sound(book[c], now[c]) /\ Ordered(wire[c], now[c]) /\ Behind(book[c], wire[c])
  BY DEF BookInv
<1>4. now[c] \in Nat /\ wire[c] \in Seq(Delta) /\ link.number \in 0 .. MaxConnections
  BY Shapes
<1>5. /\ Tail(wire[c]) \in Seq(Delta) /\ Ordered(Tail(wire[c]), now[c])
      /\ 1 \in DOMAIN wire[c] /\ d = wire[c][1] /\ d \in Delta /\ d.final <= now[c]
      /\ \A j \in DOMAIN Tail(wire[c]) : d.final <= Tail(wire[c])[j].final
  BY <1>1, <1>3, <1>4, TailOfWire
<1>6. \A i \in DOMAIN book[c].buffer : book[c].buffer[i].final <= d.final
  BY <1>3, <1>5 DEF Behind
<1> HIDE DEF d
<1>7. /\ Sound(k, now[c])
      /\ \A i \in DOMAIN k.buffer : k.buffer[i].final <= d.final
      /\ k.phase \in {book[c].phase, "BUFFERING"}
      /\ book[c].phase = "FAILED" => k.phase = "FAILED"
  BY <1>3, <1>4, <1>5, <1>6, FedIsSound
<1>8. Become(c, k)
  BY <1>2 DEF d
<1> HIDE DEF k
<1>9. Behind(k, Tail(wire[c]))
  <2> SUFFICES ASSUME NEW i \in DOMAIN k.buffer, NEW j \in DOMAIN Tail(wire[c])
               PROVE  k.buffer[i].final <= Tail(wire[c])[j].final
    BY DEF Behind
  <2>1. k.buffer[i].final \in Nat /\ d.final \in Nat
    <3>1. k.buffer \in Seq(Delta)
      BY <1>7 DEF Sound, Book
    <3>2. k.buffer[i] \in Delta
      BY <3>1, ElementOfSeq, LenProperties
    <3> QED BY <3>2, <1>5 DEF Delta
  <2>2. Tail(wire[c])[j].final \in Nat
    <3>1. Tail(wire[c])[j] \in Delta
      BY <1>5, ElementOfSeq, LenProperties
    <3> QED BY <3>1 DEF Delta
  <2> QED BY <2>1, <2>2, <1>5, <1>7
<1>10. /\ book' \in [Books -> Book] /\ wire' \in [Books -> Seq(Delta)]
       /\ \A b \in Books : Len(book'[b].buffer) <= MaxBuffer
       /\ \A b \in Books : BookInv(b)'
  BY <1>1, <1>5, <1>7, <1>8, <1>9, OneBookBecomes
<1>11. /\ book'[c] = k
       /\ \A b \in Books \ {c} : book'[b] = book[b]
  BY <1>8 DEF Become, TypeOK
<1>12. /\ queue' \in [started : BOOLEAN, items : Seq(Request)] /\ queue'.started = queue.started
       /\ \A i \in DOMAIN queue.items : i \in DOMAIN queue'.items /\ queue'.items[i] = queue.items[i]
       /\ book[c].phase = "LIVE" /\ k.phase = "BUFFERING" =>
            \E i \in DOMAIN queue'.items : queue'.items[i].book = c
  <2>1. queue \in [started : BOOLEAN, items : Seq(Request)] /\ queue.items \in Seq(Request)
    BY DEF TypeOK
  <2>2. CASE UNCHANGED queue /\ ~(book[c].phase = "LIVE" /\ book'[c].phase = "BUFFERING")
    BY <2>1, <2>2, <1>11
  <2>3. CASE Enqueue(<<[book |-> c, discard |-> FALSE]>>)
    <3> DEFINE r == [book |-> c, discard |-> FALSE]
    <3>1. r \in Request /\ r.book = c
      BY DEF Request
    <3>2. queue' = [queue EXCEPT !.items = @ \o <<r>>]
      BY <2>3 DEF Enqueue
    <3> HIDE DEF r
    <3>3. queue.items \o <<r>> \in Seq(Request)
      BY <2>1, <3>1
    <3>4. /\ queue'.items = queue.items \o <<r>> /\ queue'.started = queue.started
          /\ queue' \in [started : BOOLEAN, items : Seq(Request)]
      BY <2>1, <3>2, <3>3
    <3>5. /\ \A i \in DOMAIN queue.items : i \in DOMAIN queue'.items /\ queue'.items[i] = queue.items[i]
          /\ Len(queue.items) + 1 \in DOMAIN queue'.items
          /\ queue'.items[Len(queue.items) + 1] = r
      BY <2>1, <3>1, <3>4
    <3> QED BY <3>1, <3>4, <3>5
  <2> QED BY <2>2, <2>3 DEF Delivers
<1>13. NoBookForgotten'
  <2>1. ASSUME NEW b \in Books, book'[b].phase \in {"IDLE", "BUFFERING"} PROVE Requested(b)'
    <3>1. CASE book[b].phase \in {"IDLE", "BUFFERING"}
      <4>1. Requested(b)
        BY <3>1 DEF NoBookForgotten
      <4> QED BY <4>1, <1>1, <1>12 DEF Requested
    <3>2. CASE b = c /\ book[c].phase = "LIVE"
      BY <3>2, <2>1, <1>7, <1>11, <1>12 DEF Requested
    <3>3. book[b] \in Book
      BY Shapes
    <3> QED BY <3>1, <3>2, <3>3, <2>1, <1>7, <1>11 DEF Book
  <2>2. ASSUME NEW b \in Books, book'[b].phase = "LIVE"
        PROVE  ~RefusesDeltas(book'[b]) /\ book'[b].buffer = <<>>
    BY <2>2, <1>10 DEF BookInv, Sound, RefusesDeltas
  <2> QED BY <2>1, <2>2 DEF NoBookForgotten
<1>14. TypeOK'
  BY <1>1, <1>10, <1>12 DEF TypeOK
<1>15. worker.pc = "fetching" => book'[worker.job.book].phase = "BUFFERING"
  BY <1>7, <1>11, Shapes
<1> QED BY <1>1, <1>10, <1>13, <1>14, <1>15

(* The worker turns to a book: the request is its job now. *)
LEMMA BeginsKeepsIInv ==
  ASSUME IInv, NEW r \in Request, Begins(r), UNCHANGED <<now, wire, link>>,
         queue' \in [started : BOOLEAN, items : Seq(Request)],
         \A b \in Books : Requested(b) => (b = r.book \/ Requested(b)')
  PROVE  IInv'
<1> USE DEF IInv
<1> DEFINE c == r.book
           k == Resyncing(book[c], r.discard)
<1>1. c \in Books /\ r.discard \in BOOLEAN
  BY DEF Request
<1>2. Sound(book[c], now[c]) /\ Ordered(wire[c], now[c]) /\ Behind(book[c], wire[c])
      /\ now[c] \in Nat /\ wire[c] \in Seq(Delta)
  BY <1>1, Shapes DEF BookInv
<1> HIDE DEF c
<1>3. /\ Sound(k, now[c]) /\ k.phase = "BUFFERING" /\ k.buffer \in {book[c].buffer, <<>>}
  BY <1>1, <1>2, ResyncingIsSound
<1>4. Become(c, k) /\ worker' = [pc |-> "fetching", job |-> r, attempt |-> 0]
  BY DEF Begins, c
<1> HIDE DEF k
<1>5. Behind(k, wire[c])
  BY <1>2, <1>3 DEF Behind
<1>6. wire' = [wire EXCEPT ![c] = wire[c]]
  BY DEF TypeOK
<1>7. /\ book' \in [Books -> Book] /\ wire' \in [Books -> Seq(Delta)]
      /\ \A b \in Books : Len(book'[b].buffer) <= MaxBuffer
      /\ \A b \in Books : BookInv(b)'
  BY <1>1, <1>2, <1>3, <1>4, <1>5, <1>6, OneBookBecomes
<1>8. book'[c] = k /\ \A b \in Books \ {c} : book'[b] = book[b]
  BY <1>1, <1>4 DEF Become, TypeOK
<1>9. worker'.job = r /\ worker'.pc = "fetching" /\ r # None /\ worker'.job.book = c
  <2>1. r # None
    BY SyncAssumption
  <2> QED BY <2>1, <1>4 DEF c
<1>10. TypeOK'
  <2>1. worker' \in [pc : {"idle", "waiting", "woken", "fetching"},
                     job : Request \cup {None}, attempt : 0 .. MaxAttempts]
    BY <1>4, SyncAssumption
  <2> QED BY <2>1, <1>7, <1>9 DEF TypeOK
<1>11. NoBookForgotten'
  <2>1. ASSUME NEW b \in Books, book'[b].phase \in {"IDLE", "BUFFERING"} PROVE Requested(b)'
    <3>1. CASE b = c
      BY <3>1, <1>9 DEF Requested
    <3>2. CASE b # c
      BY <3>2, <2>1, <1>8 DEF NoBookForgotten, c
    <3> QED BY <3>1, <3>2
  <2>2. ASSUME NEW b \in Books, book'[b].phase = "LIVE"
        PROVE  ~RefusesDeltas(book'[b]) /\ book'[b].buffer = <<>>
    BY <2>2, <1>7 DEF BookInv, Sound, RefusesDeltas
  <2> QED BY <2>1, <2>2 DEF NoBookForgotten
<1> QED BY <1>3, <1>7, <1>8, <1>9, <1>10, <1>11

LEMMA TakesRequestKeepsIInv ==
  ASSUME IInv, TakesRequest
  PROVE  IInv'
<1> USE DEF IInv
<1> DEFINE r == Head(queue.items)
<1>1. queue.items \in Seq(Request) /\ queue.items # <<>> /\ worker.pc = "idle" /\ worker.job = None
      /\ queue \in [started : BOOLEAN, items : Seq(Request)]
      /\ queue' = [queue EXCEPT !.items = Tail(queue.items)] /\ UNCHANGED <<now, wire, link>>
  BY DEF TakesRequest, TypeOK
<1>2. /\ r \in Request /\ Tail(queue.items) \in Seq(Request)
      /\ 1 \in DOMAIN queue.items /\ r = queue.items[1]
      /\ \A i \in DOMAIN queue.items : i # 1 => i - 1 \in DOMAIN Tail(queue.items)
                                             /\ Tail(queue.items)[i - 1] = queue.items[i]
  <2> DEFINE items == queue.items
  <2>1. items \in Seq(Request) /\ items # <<>>
    BY <1>1
  <2> HIDE DEF items
  <2>2. /\ Head(items) \in Request /\ Tail(items) \in Seq(Request)
        /\ Len(Tail(items)) = Len(items) - 1
        /\ \A i \in 1 .. Len(Tail(items)) : Tail(items)[i] = items[i + 1]
    BY <2>1, HeadTailProperties
  <2>3. /\ DOMAIN items = 1 .. Len(items) /\ Len(items) \in Nat \ {0} /\ Head(items) = items[1]
        /\ DOMAIN Tail(items) = 1 .. Len(Tail(items))
    BY <2>1, <2>2, LenProperties, EmptySeq
  <2>4. \A i \in DOMAIN items : i # 1 => i - 1 \in 1 .. Len(Tail(items))
    BY <2>2, <2>3
  <2> QED BY <2>2, <2>3, <2>4 DEF items
<1> HIDE DEF r
<1>3. /\ queue' \in [started : BOOLEAN, items : Seq(Request)]
      /\ queue'.items = Tail(queue.items) /\ queue'.started = queue.started
  BY <1>1, <1>2
<1>4. ASSUME NEW b \in Books, Requested(b)
      PROVE  \/ b = r.book
             \/ \E i \in DOMAIN queue'.items : queue'.items[i].book = b
             \/ ~queue'.started
  BY <1>1, <1>2, <1>3, <1>4 DEF Requested
<1>5. CASE link.up
  <2>1. Begins(r)
    BY <1>5 DEF TakesRequest, r
  <2>2. \A b \in Books : Requested(b) => (b = r.book \/ Requested(b)')
    BY <1>4 DEF Requested
  <2> QED BY <1>1, <1>2, <1>3, <2>1, <2>2, BeginsKeepsIInv
<1>6. CASE ~link.up
  <2>1. worker' = [Idle EXCEPT !.pc = "waiting", !.job = r] /\ UNCHANGED book
    BY <1>6 DEF TakesRequest, r
  <2>2. worker'.pc = "waiting" /\ worker'.job = r /\ r # None
    BY <2>1, <1>2, SyncAssumption DEF Idle
  <2>3. worker' \in [pc : {"idle", "waiting", "woken", "fetching"},
                     job : Request \cup {None}, attempt : 0 .. MaxAttempts]
    <3>1. worker' = [pc |-> "waiting", job |-> r, attempt |-> 0]
      BY <2>1 DEF Idle
    <3>2. 0 \in 0 .. MaxAttempts
      BY SyncAssumption
    <3> QED BY <3>1, <3>2, <1>2
  <2>4. TypeOK'
    BY <2>1, <2>2, <2>3, <1>1, <1>3 DEF TypeOK
  <2>5. \A b \in Books : BookInv(b)'
    BY <2>1, <1>1 DEF BookInv
  <2>6. NoBookForgotten'
    <3>1. ASSUME NEW b \in Books, Requested(b) PROVE Requested(b)'
      BY <3>1, <1>4, <2>2 DEF Requested
    <3>2. \A b \in Books : RefusesDeltas(book'[b]) = RefusesDeltas(book[b]) /\ book'[b] = book[b]
      BY <2>1
    <3> QED BY <3>1, <3>2 DEF NoBookForgotten
  <2> QED BY <2>2, <2>4, <2>5, <2>6
<1> QED BY <1>5, <1>6

LEMMA WakesKeepsIInv ==
  ASSUME IInv, Wakes
  PROVE  IInv'
<1>1. worker.job \in Request /\ worker.job # None
  BY DEF IInv, TypeOK, Wakes
<1>2. \A b \in Books : Requested(b) => (b = worker.job.book \/ Requested(b)')
  BY DEF Wakes, Requested
<1> QED BY <1>1, <1>2, BeginsKeepsIInv DEF Wakes, IInv, TypeOK

(* The worker has a snapshot, or none, for the book of its job. *)
LEMMA FetchKeepsIInv ==
  ASSUME IInv, worker.pc = "fetching", UNCHANGED <<now, wire, link, queue>>,
         NEW k, Sound(k, now[worker.job.book]), Behind(k, wire[worker.job.book]),
         Become(worker.job.book, k),
         worker' \in {Idle, [worker EXCEPT !.attempt = @ + 1]},
         worker' # Idle => worker.attempt < MaxAttempts /\ k.phase = "BUFFERING",
         worker' = Idle => k.phase \in {"LIVE", "FAILED"}
  PROVE  IInv'
<1> USE DEF IInv
<1> DEFINE c == worker.job.book
<1>1. c \in Books /\ Ordered(wire[c], now[c]) /\ wire[c] \in Seq(Delta) /\ worker.job \in Request
  BY Shapes DEF BookInv
<1>2. wire' = [wire EXCEPT ![c] = wire[c]]
  BY DEF TypeOK
<1>3. Become(c, k) /\ Sound(k, now[c]) /\ Behind(k, wire[c])
  OBVIOUS
<1>4. /\ book' \in [Books -> Book] /\ wire' \in [Books -> Seq(Delta)]
      /\ \A b \in Books : Len(book'[b].buffer) <= MaxBuffer
      /\ \A b \in Books : BookInv(b)'
  <2> HIDE DEF c
  <2> QED BY <1>1, <1>2, <1>3, OneBookBecomes
<1>5. book'[c] = k /\ \A b \in Books \ {c} : book'[b] = book[b]
  BY <1>1, <1>3 DEF Become, TypeOK
<1>6. /\ worker' \in [pc : {"idle", "waiting", "woken", "fetching"},
                      job : Request \cup {None}, attempt : 0 .. MaxAttempts]
      /\ (worker'.pc = "idle") <=> (worker'.job = None)
      /\ worker' # Idle => worker'.pc = "fetching" /\ worker'.job = worker.job
  <2>1. worker \in [pc : {"idle", "waiting", "woken", "fetching"},
                    job : Request \cup {None}, attempt : 0 .. MaxAttempts]
        /\ worker.job # None
    BY DEF TypeOK
  <2>2. CASE worker' = Idle
    BY <2>2, SyncAssumption DEF Idle
  <2>3. CASE worker' # Idle
    <3>1. worker.attempt + 1 \in 0 .. MaxAttempts
      BY <2>1, <2>3, SyncAssumption
    <3> QED BY <2>1, <2>3, <3>1
  <2> QED BY <2>2, <2>3
<1>7. TypeOK'
  BY <1>4, <1>6 DEF TypeOK
<1>8. NoBookForgotten'
  <2>1. ASSUME NEW b \in Books, book'[b].phase \in {"IDLE", "BUFFERING"} PROVE Requested(b)'
    <3>1. CASE b = c
      <4>1. worker' # Idle
        BY <3>1, <2>1, <1>5
      <4> QED BY <4>1, <3>1, <1>6, <1>1, SyncAssumption DEF Requested
    <3>2. CASE b # c
      <4>1. Requested(b)
        BY <3>2, <2>1, <1>5 DEF NoBookForgotten
      <4> QED BY <4>1, <3>2 DEF Requested
    <3> QED BY <3>1, <3>2
  <2>2. ASSUME NEW b \in Books, book'[b].phase = "LIVE"
        PROVE  ~RefusesDeltas(book'[b]) /\ book'[b].buffer = <<>>
    BY <2>2, <1>4 DEF BookInv, Sound, RefusesDeltas
  <2> QED BY <2>1, <2>2 DEF NoBookForgotten
<1>9. worker'.pc = "fetching" => book'[worker'.job.book].phase = "BUFFERING"
  BY <1>5, <1>6 DEF Idle
<1> QED BY <1>4, <1>7, <1>8, <1>9

LEMMA StepKeepsIInv == IInv /\ [Next]_vars => IInv'
<1> SUFFICES ASSUME IInv, [Next]_vars PROVE IInv'
  OBVIOUS
<1> USE DEF IInv
<1>1. CASE UNCHANGED vars
  BY <1>1 DEF vars, TypeOK, BookInv, NoBookForgotten, Requested, RefusesDeltas
<1>2. CASE Connects
  <2>1. worker' \in [pc : {"idle", "waiting", "woken", "fetching"},
                     job : Request \cup {None}, attempt : 0 .. MaxAttempts]
        /\ worker'.job = worker.job /\ (worker'.pc = "idle" <=> worker.pc = "idle")
        /\ (worker'.pc = "fetching" => worker.pc = "fetching")
    BY <1>2 DEF Connects, TypeOK
  <2>2. link' \in [up : BOOLEAN, number : 0 .. MaxConnections, lost : 0 .. MaxLost]
    <3>1. link \in [up : BOOLEAN, number : 0 .. MaxConnections, lost : 0 .. MaxLost]
          /\ link.number + 1 \in 0 .. MaxConnections
      BY <1>2, SyncAssumption DEF Connects, TypeOK
    <3> QED BY <1>2, <3>1 DEF Connects
  <2>3. TypeOK'
    BY <1>2, <2>1, <2>2 DEF Connects, TypeOK
  <2>4. \A b \in Books : BookInv(b)'
    BY <1>2 DEF Connects, BookInv
  <2>5. NoBookForgotten'
    BY <1>2, <2>1 DEF Connects, NoBookForgotten, Requested, RefusesDeltas
  <2> QED BY <1>2, <2>1, <2>3, <2>4, <2>5 DEF Connects
<1>3. CASE Disconnects
  BY <1>3, DisconnectsKeepsIInv
<1>4. CASE FeedStarts
  <2>1. queue' \in [started : BOOLEAN, items : Seq(Request)]
        /\ queue'.items = queue.items \o RequestAll(FALSE)
    <3> DEFINE all == RequestAll(FALSE)
    <3>1. all \in Seq(Request)
      BY RequestsOfAll
    <3> HIDE DEF all
    <3>2. queue.items \o all \in Seq(Request)
      BY <3>1, Shapes
    <3>3. queue' = [started |-> TRUE, items |-> queue.items \o all]
      BY <1>4 DEF FeedStarts, all
    <3> QED BY <3>2, <3>3 DEF all
  <2>2. ASSUME NEW b \in Books PROVE \E j \in DOMAIN queue'.items : queue'.items[j].book = b
    <3> DEFINE all == RequestAll(FALSE)
    <3>1. all \in Seq(Request)
      BY RequestsOfAll
    <3>2. PICK i \in 1 .. Len(all) : all[i].book = b
      BY RequestsOfAll
    <3>3. queue'.items = queue.items \o all /\ queue.items \in Seq(Request)
      BY <2>1, Shapes
    <3> HIDE DEF all
    <3>4. Len(queue.items) + i \in DOMAIN queue'.items /\ queue'.items[Len(queue.items) + i] = all[i]
      BY <3>1, <3>2, <3>3
    <3> QED BY <3>2, <3>4
  <2>3. ASSUME NEW b \in Books PROVE Requested(b)'
    BY <2>2 DEF Requested
  <2>4. TypeOK'
    BY <1>4, <2>1 DEF FeedStarts, TypeOK
  <2>5. \A b \in Books : BookInv(b)'
    BY <1>4 DEF FeedStarts, BookInv
  <2>6. NoBookForgotten'
    BY <1>4, <2>3 DEF FeedStarts, NoBookForgotten, RefusesDeltas
  <2> QED BY <1>4, <2>4, <2>5, <2>6 DEF FeedStarts
<1>5. CASE TakesRequest
  BY <1>5, TakesRequestKeepsIInv
<1>6. CASE Wakes
  BY <1>6, WakesKeepsIInv
<1> DEFINE c == worker.job.book
           k == book[c]
<1>7. ASSUME worker.pc = "fetching"
      PROVE  /\ c \in Books /\ Sound(k, now[c]) /\ Behind(k, wire[c]) /\ k.phase = "BUFFERING"
             /\ now[c] \in Nat /\ k \in Book /\ link.number \in 0 .. MaxConnections
             /\ \A i \in DOMAIN k.buffer, j \in DOMAIN wire[c] :
                  k.buffer[i].final <= wire[c][j].final
  BY <1>7, Shapes DEF BookInv, Behind
<1>8. CASE FetchFails
  <2>1. worker.pc = "fetching" /\ worker.attempt < MaxAttempts
        /\ worker' = [worker EXCEPT !.attempt = @ + 1] /\ UNCHANGED <<now, wire, link, book, queue>>
    BY <1>8 DEF FetchFails, MayFetch, FetchAgain
  <2>2. Become(c, k)
    BY <2>1 DEF Become, TypeOK
  <2>3. worker' # Idle
    BY <2>1 DEF Idle, TypeOK
  <2> QED BY <1>7, <2>1, <2>2, <2>3, FetchKeepsIInv
<1>9. CASE SnapshotArrives
  <2>1. worker.pc = "fetching" /\ worker.attempt < MaxAttempts /\ UNCHANGED <<now, wire, link, queue>>
    BY <1>9 DEF SnapshotArrives, MayFetch
  <2>2. PICK last \in 0 .. now[c], verdict \in Verdicts :
          Become(c, Synchronised(k, last, verdict))
    BY <1>9 DEF SnapshotArrives
  <2> DEFINE after == Synchronised(k, last, verdict)
  <2>3. Sound(after, now[c]) /\ after.phase \in {"LIVE", "BUFFERING"}
    BY <1>7, <2>1, SynchronisedIsSound
  <2>4. Behind(after, wire[c])
    <3>1. \A i \in DOMAIN after.buffer : \E j \in DOMAIN k.buffer : after.buffer[i] = k.buffer[j]
      BY <1>7, <2>1, SynchronisedIsSound
    <3> HIDE DEF after, k, c
    <3> QED BY <3>1, <1>7, <2>1 DEF Behind
  <2>5. book'[c] = after
    BY <1>7, <2>1, <2>2 DEF Become, TypeOK
  <2>6. worker' = IF after.phase = "LIVE" THEN Idle ELSE [worker EXCEPT !.attempt = @ + 1]
    BY <1>9, <2>5 DEF SnapshotArrives, FetchAgain
  <2>7. [worker EXCEPT !.attempt = @ + 1] # Idle
    BY <2>1 DEF Idle, TypeOK
  <2> HIDE DEF after
  <2>8. Become(c, after)
    BY <2>2 DEF after
  <2> QED BY <2>1, <2>3, <2>4, <2>6, <2>7, <2>8, FetchKeepsIInv
<1>10. CASE GivesUp
  <2>1. worker.pc = "fetching" /\ UNCHANGED <<now, wire, link, queue>> /\ worker' = Idle
        /\ Become(c, [k EXCEPT !.phase = "FAILED"])
    BY <1>10 DEF GivesUp
  <2> DEFINE after == [k EXCEPT !.phase = "FAILED"]
  <2>2. Sound(after, now[c]) /\ Behind(after, wire[c]) /\ after.phase = "FAILED"
    BY <1>7, <2>1 DEF Sound, Book, Behind
  <2> HIDE DEF after
  <2>3. Become(c, after)
    BY <2>1 DEF after
  <2> QED BY <2>1, <2>2, <2>3, FetchKeepsIInv
<1>11. CASE \E b \in Books : VenueUpdates(b) \/ LosesFrame(b) \/ Delivers(b)
  BY <1>11, VenueUpdatesKeepsIInv, LosesFrameKeepsIInv, DeliversKeepsIInv
<1> QED BY <1>1, <1>2, <1>3, <1>4, <1>5, <1>6, <1>8, <1>9, <1>10, <1>11 DEF Next, Works

LEMMA AlwaysIInv == Spec => []IInv
BY InitIInv, StepKeepsIInv, PTL DEF Spec

(* The variables keep their types, and no buffer outgrows its limit. *)
THEOREM BooksTyped == Spec => []TypeOK
<1>1. IInv => TypeOK
  BY DEF IInv
<1> QED BY <1>1, AlwaysIInv, PTL

(* A book that waits for a snapshot always has the worker or a request for it,
   whatever the number of books, gaps, disconnections and failures: see
   _run_resync_worker and _dispatch. *)
THEOREM NeverForgotten == Spec => []NoBookForgotten
<1>1. IInv => NoBookForgotten
  BY DEF IInv
<1> QED BY <1>1, AlwaysIInv, PTL
--------------------------------------------------------------------------------
(* While a book is shown by two successive states it only grows. *)
LEMMA ShownOnlyGrows ==
  ASSUME IInv, [Next]_vars, NEW b \in Books,
         link.up, book[b].phase = "LIVE", link'.up, book'[b].phase = "LIVE"
  PROVE  book[b].levels \subseteq book'[b].levels
<1> USE DEF IInv
<1>1. CASE UNCHANGED book
  BY <1>1
<1>2. CASE \E c \in Books : Delivers(c)
  <2>1. PICK c \in Books, verdict \in Verdicts :
          wire[c] # <<>> /\ Become(c, Fed(book[c], Head(wire[c]), verdict))
    BY <1>2 DEF Delivers
  <2>2. CASE b # c
    BY <2>1, <2>2 DEF Become, TypeOK
  <2>3. CASE b = c
    <3> DEFINE d == Head(wire[b])
               k == Fed(book[b], d, verdict)
    <3>1. /\ Sound(book[b], now[b]) /\ Ordered(wire[b], now[b]) /\ Behind(book[b], wire[b])
          /\ now[b] \in Nat /\ wire[b] \in Seq(Delta) /\ link.number \in 0 .. MaxConnections
      BY Shapes DEF BookInv
    <3>2. 1 \in DOMAIN wire[b] /\ d = wire[b][1] /\ d \in Delta /\ d.final <= now[b]
      BY <2>1, <2>3, <3>1, TailOfWire
    <3>3. \A i \in DOMAIN book[b].buffer : book[b].buffer[i].final <= d.final
      BY <3>1, <3>2 DEF Behind
    <3>4. book'[b] = k
      BY <2>1, <2>3 DEF Become, TypeOK
    <3> HIDE DEF d
    <3>5. k.phase = "LIVE" => book[b].levels \subseteq k.levels
      BY <3>1, <3>2, <3>3, FedIsSound
    <3> QED BY <3>4, <3>5
  <2> QED BY <2>2, <2>3
(* Every other step of a book is taken from another phase, or to it. *)
<1>3. CASE TakesRequest \/ Wakes
  <2>1. PICK r \in Request : Begins(r) \/ UNCHANGED book
    <3>1. CASE Wakes
      BY <3>1, Shapes DEF Wakes
    <3>2. CASE TakesRequest
      <4>1. queue.items \in Seq(Request) /\ queue.items # <<>>
        BY <3>2 DEF TakesRequest, TypeOK
      <4>2. Head(queue.items) \in Request
        BY <4>1
      <4> QED BY <3>2, <4>2 DEF TakesRequest
    <3> QED BY <1>3, <3>1, <3>2
  <2>2. CASE Begins(r)
    <3>1. r.book \in Books /\ r.discard \in BOOLEAN
      BY DEF Request
    <3>2. Sound(book[r.book], now[r.book]) /\ now[r.book] \in Nat
      BY <3>1, Shapes DEF BookInv
    <3>3. Resyncing(book[r.book], r.discard).phase = "BUFFERING"
      BY <3>1, <3>2, ResyncingIsSound
    <3> QED BY <2>2, <3>1, <3>3 DEF Begins, Become, TypeOK
  <2> QED BY <2>1, <2>2
<1>4. CASE SnapshotArrives \/ GivesUp
  <2>1. worker.pc = "fetching" /\ \E k : Become(worker.job.book, k)
    BY <1>4 DEF SnapshotArrives, GivesUp, MayFetch
  <2>2. b # worker.job.book
    BY <2>1
  <2> QED BY <2>1, <2>2 DEF Become, TypeOK
<1> QED BY <1>1, <1>2, <1>3, <1>4
       DEF Next, Works, vars, Connects, Disconnects, FeedStarts, FetchFails, VenueUpdates,
           LosesFrame

(* The feed implements what BookView promises: every step shows a reader a prefix
   of the venue's updates or hides the book, and no step from one book shown to
   another goes back.  (A book that was hidden in between may be an older one.) *)
THEOREM FeedImplementsView == Spec => ShowsTheVenue
<1>1. Init => View!Init
  BY DEF Init, View!Init, Shown, NewBook
<1>2. IInv /\ IInv' /\ [Next]_vars => [View!Next]_<<now, [b \in Books |-> Shown(b)]>>
  <2> SUFFICES ASSUME IInv, IInv', [Next]_vars PROVE View!Next
    OBVIOUS
  <2>1. now' \in [Books -> Nat]
    BY DEF IInv, TypeOK
  <2>2. \A b \in Books : now[b] <= now'[b]
    <3>1. now \in [Books -> Nat]
      BY DEF IInv, TypeOK
    <3>2. CASE UNCHANGED now
      BY <3>1, <3>2
    <3>3. CASE \E c \in Books : VenueUpdates(c)
      BY <3>1, <3>3 DEF VenueUpdates
    <3> QED BY <3>2, <3>3
           DEF Next, Works, vars, Connects, Disconnects, FeedStarts, TakesRequest, Wakes,
               FetchFails, SnapshotArrives, GivesUp, LosesFrame, Delivers
  <2>3. ASSUME NEW b \in Books
        PROVE  \/ Shown(b)' = Hidden
               \/ /\ Shown(b)' \in View!BookAt(now'[b])
                  /\ Shown(b) = Hidden \/ Shown(b) \subseteq Shown(b)'
    <3>1. Shown(b)' = Hidden \/ Shown(b)' \in View!BookAt(now'[b])
      <4>1. CASE link'.up /\ book'[b].phase = "LIVE" /\ book'[b].health = "OK"
        <5>1. book'[b].levels = 1 .. book'[b].seq /\ book'[b].seq <= now'[b]
          BY <4>1 DEF IInv, BookInv, Sound
        <5>2. book'[b].seq \in Nat /\ now'[b] \in Nat
          BY DEF IInv, TypeOK, Book
        <5> QED BY <4>1, <5>1, <5>2 DEF Shown, View!BookAt, View!Updates
      <4> QED BY <4>1 DEF Shown
    <3>2. Shown(b) = Hidden \/ Shown(b)' = Hidden \/ Shown(b) \subseteq Shown(b)'
      BY ShownOnlyGrows DEF Shown
    <3> QED BY <3>1, <3>2
  <2>4. \A b \in Books : [c \in Books |-> Shown(c)][b] = Shown(b)
                      /\ ([c \in Books |-> Shown(c)][b])' = Shown(b)'
    OBVIOUS
  <2> QED BY <2>1, <2>2, <2>3, <2>4 DEF View!Next, View!MayShow
<1> QED BY <1>1, <1>2, AlwaysIInv, PTL DEF Spec, ShowsTheVenue, View!Spec
================================================================================
