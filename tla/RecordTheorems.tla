--------------------------- MODULE RecordTheorems ---------------------------
(***************************************************************************)
(* What the scans of BookingRecords return: the first record that passes a *)
(* test is one of those that pass it, the greatest id bounds all ids, and  *)
(* the next id is new unless it wraps around to 0.                         *)
(***************************************************************************)
EXTENDS BookingRecords, Integers, FiniteSetTheorems, TLAPS

UpTo(S, m) == {n \in S : n <= m}

(* A finite set of naturals has a least element: the sets of what is not    *)
(* above an element are finite, so one of them is minimal for inclusion.    *)
LEMMA LeastOfFinite ==
  ASSUME NEW S \in SUBSET Nat, IsFiniteSet(S), S # {}
  PROVE  \E m \in S : \A n \in S : m <= n
<1> DEFINE Family == {UpTo(S, m) : m \in S}
<1>1. Family \subseteq FiniteSubsetsOf(S) /\ Family # {}
  <2>1. \A m \in S : UpTo(S, m) \in SUBSET S
    BY DEF UpTo
  <2>2. Family \subseteq SUBSET S /\ Family # {}
    BY <2>1
  <2> QED BY <2>2, FS_FiniteSubsetsOfFinite
<1>2. \E F \in Family : \A G \in Family : ~(<<G, F>> \in StrictSubsetOrdering(S))
  <2> HIDE DEF Family
  <2>1. IsWellFoundedOn(StrictSubsetOrdering(S), FiniteSubsetsOf(S))
    BY FS_StrictSubsetOrderingWellFounded
  <2> QED BY <1>1, <2>1, WFMin
<1>3. PICK m \in S : \A G \in Family : ~(<<G, UpTo(S, m)>> \in StrictSubsetOrdering(S))
  BY <1>2
<1>4. ASSUME NEW k \in S, k < m PROVE FALSE
  <2>1. UpTo(S, k) \in SUBSET S /\ UpTo(S, m) \in SUBSET S /\ UpTo(S, k) \in Family
    BY DEF UpTo
  <2>2. \A n \in S : n <= k => n <= m
    BY <1>4
  <2>3. UpTo(S, k) \subseteq UpTo(S, m)
    BY <2>2 DEF UpTo
  <2>4. m \in UpTo(S, m) /\ m \notin UpTo(S, k)
    BY <1>4 DEF UpTo
  <2>5. <<UpTo(S, k), UpTo(S, m)>> \in StrictSubsetOrdering(S)
    BY <2>1, <2>3, <2>4 DEF StrictSubsetOrdering
  <2> QED BY <1>3, <2>1, <2>5
<1> QED BY <1>4

LEMMA GreatestOfBounded ==
  ASSUME NEW N \in Nat, NEW S \in SUBSET (0 .. N), S # {}
  PROVE  \E m \in S : \A n \in S : n <= m
<1> DEFINE T == {N - n : n \in S}
<1>1. T \in SUBSET Nat /\ T # {} /\ \A t \in T : t <= N
  <2>1. \A n \in S : N - n \in Nat /\ N - n <= N
    OBVIOUS
  <2> QED BY <2>1
<1>2. IsFiniteSet(T)
  BY <1>1, FS_BoundedSetOfNaturals
<1>3. PICK t \in T : \A u \in T : t <= u
  <2> HIDE DEF T
  <2> QED BY <1>1, <1>2, LeastOfFinite
<1>4. PICK m \in S : t = N - m
  BY <1>3
<1>5. \A n \in S : N - m <= N - n
  BY <1>3, <1>4
<1> QED BY <1>5

(* FirstOf finds an index of the file that passes the test, or 0 when none  *)
(* does.                                                                    *)
LEMMA FirstOfFile ==
  ASSUME NEW file \in Seq(Booking), NEW hits \in SUBSET DOMAIN file
  PROVE  /\ FirstOf(hits) = 0 <=> hits = {}
         /\ FirstOf(hits) # 0 => FirstOf(hits) \in hits
<1>1. hits \in SUBSET Nat /\ 0 \notin hits /\ \A i \in hits : i <= Len(file)
  OBVIOUS
<1>2. CASE hits = {}
  BY <1>2 DEF FirstOf
<1>3. CASE hits # {}
  <2>1. IsFiniteSet(hits)
    BY <1>1, FS_BoundedSetOfNaturals
  <2>2. \E i \in hits : \A j \in hits : i <= j
    BY <1>1, <1>3, <2>1, LeastOfFinite
  <2>3. FirstOf(hits) \in hits
    BY <1>3, <2>2 DEF FirstOf
  <2> QED BY <1>1, <1>3, <2>3
<1> QED BY <1>2, <1>3

LEMMA BookingIds ==
  ASSUME NEW file \in Seq(Booking), NEW i \in DOMAIN file
  PROVE  file[i].booking_id \in 0 .. IdLimit - 1 /\ file[i].booking_id \in Nat
<1>1. file[i] \in Booking
  OBVIOUS
<1>2. file[i].booking_id \in 0 .. IdLimit - 1
  BY <1>1 DEF Booking
<1> QED BY <1>2, RecordAssumption

(* No id of the file is above the greatest one.                             *)
LEMMA GreatestIdBounds ==
  ASSUME NEW file \in Seq(Booking)
  PROVE  /\ GreatestId(file) \in 0 .. IdLimit - 1
         /\ \A i \in DOMAIN file : file[i].booking_id <= GreatestId(file)
<1> DEFINE ids == {0} \cup {file[i].booking_id : i \in DOMAIN file}
<1>1. \A i \in DOMAIN file : file[i].booking_id \in 0 .. IdLimit - 1
  BY BookingIds
<1>2. ids \in SUBSET (0 .. IdLimit - 1) /\ ids # {} /\ IdLimit - 1 \in Nat
  BY <1>1, RecordAssumption
<1>3. \E m \in ids : \A n \in ids : n <= m
  <2> HIDE DEF ids
  <2> QED BY <1>2, GreatestOfBounded
<1>4. GreatestId(file) = CHOOSE m \in ids : \A n \in ids : n <= m
  BY DEF GreatestId
<1>5. GreatestId(file) \in ids /\ \A n \in ids : n <= GreatestId(file)
  <2> HIDE DEF ids
  <2> QED BY <1>3, <1>4
<1> QED BY <1>2, <1>5

(* The id of a new booking fits its field, and is no other booking's unless *)
(* it is 0.                                                                 *)
LEMMA NextIdNew ==
  ASSUME NEW file \in Seq(Booking)
  PROVE  /\ NextId(file) \in 0 .. IdLimit - 1
         /\ \A i \in DOMAIN file : file[i].booking_id = NextId(file) => NextId(file) = 0
<1> DEFINE g == GreatestId(file)
<1>1. g \in 0 .. IdLimit - 1 /\ \A i \in DOMAIN file : file[i].booking_id <= g
  BY GreatestIdBounds
<1>2. CASE g + 1 = IdLimit
  <2>1. NextId(file) = IdLimit % IdLimit
    BY <1>2 DEF NextId
  <2> QED BY <2>1, RecordAssumption
<1>3. CASE g + 1 < IdLimit
  <2> HIDE DEF g
  <2>1. g + 1 \in 0 .. IdLimit - 1
    BY <1>1, <1>3, RecordAssumption
  <2>2. NextId(file) = g + 1
    BY <1>3, <2>1, RecordAssumption DEF NextId, g
  <2>3. \A i \in DOMAIN file : file[i].booking_id \in Nat
    BY BookingIds
  <2> QED BY <1>1, <2>1, <2>2, <2>3
<1> QED BY <1>1, <1>2, <1>3, RecordAssumption

=============================================================================
