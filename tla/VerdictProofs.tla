---------------------------- MODULE VerdictProofs -----------------------------
(***************************************************************************)
(* What the proofs about archives and about the scan command use of        *)
(* Verdicts: the seven statuses, and which of them is that of a whole; and *)
(* a fact about numbers that both need.                                    *)
(***************************************************************************)
EXTENDS Verdicts, WellFoundedInduction, TLAPS

(* The priority order, listed.                                             *)
LEMMA PriorityListed ==
  /\ DOMAIN VerdictPriority = 1 .. 7
  /\ VerdictPriority[1] = "scan_error" /\ VerdictPriority[2] = "known_malicious"
  /\ VerdictPriority[3] = "suspicious" /\ VerdictPriority[4] = "engine_missing"
  /\ VerdictPriority[5] = "engine_unavailable" /\ VerdictPriority[6] = "partial_scan"
  /\ VerdictPriority[7] = "clean_by_known_checks"
BY DEF VerdictPriority

(* A status is one of the seven.                                           *)
LEMMA StatusesListed ==
  VerdictStatuses = {"scan_error", "known_malicious", "suspicious", "engine_missing",
                     "engine_unavailable", "partial_scan", "clean_by_known_checks"}
BY DEF VerdictStatuses, VerdictPriority, Range

(* A set of places in the order has a first one.                           *)
LEMMA FirstPlace ==
  ASSUME NEW found \in SUBSET (1 .. 7), found # {}
  PROVE  \E k \in found : \A m \in found : k <= m
<1> DEFINE Below(k) == \A m \in found : k <= m
<1>1. PICK n \in found : TRUE
  OBVIOUS
<1>2. n \in 1 .. 7
  OBVIOUS
<1>3. CASE 1 \in found
  BY <1>3
<1>4. CASE 1 \notin found /\ 2 \in found
  BY <1>4
<1>5. CASE 1 \notin found /\ 2 \notin found /\ 3 \in found
  BY <1>5
<1>6. CASE 1 \notin found /\ 2 \notin found /\ 3 \notin found /\ 4 \in found
  BY <1>6
<1>7. CASE /\ 1 \notin found /\ 2 \notin found /\ 3 \notin found /\ 4 \notin found
           /\ 5 \in found
  BY <1>7
<1>8. CASE /\ 1 \notin found /\ 2 \notin found /\ 3 \notin found /\ 4 \notin found
           /\ 5 \notin found /\ 6 \in found
  BY <1>8
<1>9. CASE /\ 1 \notin found /\ 2 \notin found /\ 3 \notin found /\ 4 \notin found
           /\ 5 \notin found /\ 6 \notin found
  BY <1>1, <1>2, <1>9
<1>10. QED
  BY <1>3, <1>4, <1>5, <1>6, <1>7, <1>8, <1>9

(* The status of a whole is one of those present, and none that is present *)
(* stands before it.                                                       *)
LEMMA OverallFacts ==
  ASSUME NEW present \in SUBSET VerdictStatuses, present # {}
  PROVE  /\ Overall(present) \in present
         /\ "scan_error" \in present => Overall(present) = "scan_error"
         /\ "known_malicious" \in present =>
              Overall(present) \in {"scan_error", "known_malicious"}
         /\ Overall(present) = "clean_by_known_checks" =>
              \A s \in present : s = "clean_by_known_checks"
<1> DEFINE found == {k \in DOMAIN VerdictPriority : VerdictPriority[k] \in present}
           first == CHOOSE k \in found : \A m \in found : k <= m
<1>1. found \subseteq 1 .. 7
  BY PriorityListed
<1>2. \A s \in present : \E k \in 1 .. 7 : s = VerdictPriority[k]
  BY PriorityListed, StatusesListed
<1>3. found # {}
  BY <1>2, PriorityListed
<1>4. first \in found /\ \A m \in found : first <= m
  BY <1>1, <1>3, FirstPlace
<1>5. Overall(present) = VerdictPriority[first]
  BY <1>3 DEF Overall
<1>6. first \in 1 .. 7 /\ VerdictPriority[first] \in present
  BY <1>1, <1>4
<1>7. \A k \in 1 .. 7 : VerdictPriority[k] \in present => first <= k
  BY <1>4, PriorityListed
<1> HIDE DEF first, found
<1>8. "scan_error" \in present => first = 1
  BY <1>6, <1>7, PriorityListed
<1>9. "known_malicious" \in present => first \in {1, 2}
  BY <1>6, <1>7, PriorityListed
<1>10. first = 7 => \A s \in present : s = "clean_by_known_checks"
  <2> SUFFICES ASSUME first = 7, NEW s \in present PROVE s = VerdictPriority[7]
    BY PriorityListed
  <2>1. PICK k \in 1 .. 7 : s = VerdictPriority[k]
    BY <1>2
  <2>2. QED
    BY <1>7, <2>1
<1>11. VerdictPriority[first] = "clean_by_known_checks" => first = 7
  BY <1>6, PriorityListed
<1>12. QED
  BY <1>5, <1>6, <1>8, <1>9, <1>10, <1>11, PriorityListed

-----------------------------------------------------------------------------
(* A set of numbers has a least one.                                       *)
LEMMA LeastNumber ==
  ASSUME NEW S \in SUBSET Nat, S # {}
  PROVE  \E x \in S : \A y \in S : x <= y
<1>1. PICK x \in S : \A y \in S : ~(<<y, x>> \in OpToRel(<, Nat))
  BY NatLessThanWellFounded, WFMin
<1>2. \A y \in S : ~(y < x)
  BY <1>1 DEF OpToRel
<1>3. QED
  BY <1>2
=============================================================================
