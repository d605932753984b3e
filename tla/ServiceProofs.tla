--------------------------- MODULE ServiceProofs ----------------------------
(***************************************************************************)
(* A directory scanned while it changes, and the counters read while they  *)
(* are written: what the runs check on three names and two thresholds, for *)
(* any names, page size, callbacks, thresholds and number of calls.        *)
(*                                                                         *)
(* A scan.  ScanComplete is inductive but for types; RepeatsBounded is     *)
(* not: an insertion pushes a name behind the offset in one step and the   *)
(* scan returns it again in a later one, so the invariant counts what is   *)
(* due to be returned again.                                               *)
(*                                                                         *)
(* The export.  Its loads are stale and in no order, so all the invariant  *)
(* has of the snapshot is that no bucket of it exceeds the histogram's.    *)
(* The sums over the buckets are defined by recursion; what is proved of   *)
(* them is proved by induction over the buckets.                           *)
(***************************************************************************)
EXTENDS Service, TLAPS, FiniteSetTheorems, WellFoundedInduction

-----------------------------------------------------------------------------
(* Places in a listing.                                                    *)
Below(S, n) == {m \in S : m < n}
Place(S, n) == 2 + Cardinality(Below(S, n))

(* PlaceOf, before and after a step.                                       *)
LEMMA PlaceIs ==
  /\ \A n : PlaceOf(n) = Place(children, n)
  /\ \A n : (PlaceOf(n))' = Place(children', n)
BY DEF PlaceOf, Place, Below

(* A listing is finite, and so are its parts.                              *)
LEMMA Finite ==
  ASSUME NEW S, S \subseteq Names
  PROVE  /\ IsFiniteSet(S) /\ Cardinality(S) \in Nat /\ Cardinality(S) <= Cardinality(Names)
         /\ \A n : IsFiniteSet(Below(S, n)) /\ Cardinality(Below(S, n)) \in Nat
<1>1. IsFiniteSet(S) /\ Cardinality(S) <= Cardinality(Names)
  BY NamesAssumption, FS_Subset
<1>2. ASSUME NEW n PROVE IsFiniteSet(Below(S, n))
  BY <1>1, FS_Subset DEF Below
<1> QED
  BY <1>1, <1>2, FS_CardinalityType

(* The listing is in the order of the names, one name to a place.          *)
LEMMA PlaceOrder ==
  ASSUME NEW S, S \subseteq Names, NEW m \in S, NEW n \in Names, m < n
  PROVE  Place(S, m) < Place(S, n)
<1>1. m \in Nat /\ n \in Nat /\ \A k \in S : k \in Nat
  BY NamesAssumption
<1>2. /\ IsFiniteSet(Below(S, m)) /\ Cardinality(Below(S, m)) \in Nat
      /\ IsFiniteSet(Below(S, n)) /\ Cardinality(Below(S, n)) \in Nat
  BY Finite
<1>3. m \notin Below(S, m) /\ Below(S, m) \union {m} \subseteq Below(S, n)
  <2>1. ASSUME NEW k \in Below(S, m) PROVE k \in S /\ k < n /\ k # m
    BY <1>1 DEF Below
  <2> QED
    BY <2>1 DEF Below
<1>4. /\ IsFiniteSet(Below(S, m) \union {m})
      /\ Cardinality(Below(S, m) \union {m}) = Cardinality(Below(S, m)) + 1
  BY <1>2, <1>3, FS_AddElement
<1>5. Cardinality(Below(S, m) \union {m}) <= Cardinality(Below(S, n))
  BY <1>2, <1>3, FS_Subset
<1> QED
  BY <1>2, <1>4, <1>5 DEF Place

(* So two names never share a place.                                       *)
LEMMA PlaceInjective ==
  ASSUME NEW S, S \subseteq Names, NEW m \in S, NEW n \in S, Place(S, m) = Place(S, n)
  PROVE  m = n
<1>1. m \in Nat /\ n \in Nat
  BY NamesAssumption
<1>2. Place(S, m) \in Nat /\ Place(S, n) \in Nat
  BY Finite DEF Place
<1>3. ~(m < n)
  BY <1>2, PlaceOrder
<1>4. ~(n < m)
  BY <1>2, PlaceOrder
<1> QED
  BY <1>1, <1>3, <1>4

(* A place in a listing lies between the two dots and its end.             *)
LEMMA PlaceRange ==
  ASSUME NEW S, S \subseteq Names, NEW n \in Names
  PROVE  /\ Place(S, n) \in Nat /\ 2 <= Place(S, n)
         /\ n \in S => Place(S, n) < Cardinality(S) + 2
<1>1. Place(S, n) \in Nat /\ 2 <= Place(S, n)
  BY Finite DEF Place
<1>2. ASSUME n \in S PROVE Place(S, n) < Cardinality(S) + 2
  <2>1. n \in Nat /\ n \notin Below(S, n) /\ Below(S, n) \union {n} \subseteq S
    BY <1>2, NamesAssumption DEF Below
  <2>2. Cardinality(Below(S, n) \union {n}) = Cardinality(Below(S, n)) + 1
    BY <2>1, Finite, FS_AddElement
  <2>3. Cardinality(Below(S, n) \union {n}) <= Cardinality(S)
    BY <2>1, Finite, FS_Subset
  <2> QED
    BY <2>2, <2>3, Finite DEF Place
<1> QED
  BY <1>1, <1>2

(* A new name moves those behind it by one.                                *)
LEMMA PlaceAfterInsert ==
  ASSUME NEW S, S \subseteq Names, NEW x \in Names \ S, NEW n \in Names
  PROVE  Place(S \union {x}, n) = IF x < n THEN Place(S, n) + 1 ELSE Place(S, n)
<1>1. x \in Nat /\ n \in Nat /\ \A k \in S : k \in Nat
  BY NamesAssumption
<1>2. IsFiniteSet(Below(S, n)) /\ Cardinality(Below(S, n)) \in Nat
  BY Finite
<1>3. CASE x < n
  <2>1. Below(S \union {x}, n) = Below(S, n) \union {x} /\ x \notin Below(S, n)
    BY <1>1, <1>3 DEF Below
  <2>2. Cardinality(Below(S \union {x}, n)) = Cardinality(Below(S, n)) + 1
    BY <1>2, <2>1, FS_AddElement
  <2> QED
    BY <1>2, <1>3, <2>2 DEF Place
<1>4. CASE ~(x < n)
  <2>1. Below(S \union {x}, n) = Below(S, n)
    BY <1>1, <1>4 DEF Below
  <2> QED
    BY <1>4, <2>1 DEF Place
<1> QED
  BY <1>3, <1>4

(* A name that goes lets them move up.                                     *)
LEMMA PlaceAfterDelete ==
  ASSUME NEW S, S \subseteq Names, NEW x \in S, NEW n \in Names
  PROVE  Place(S, n) = IF x < n THEN Place(S \ {x}, n) + 1 ELSE Place(S \ {x}, n)
<1>1. S \ {x} \subseteq Names /\ x \in Names \ (S \ {x}) /\ (S \ {x}) \union {x} = S
  OBVIOUS
<1> QED
  BY <1>1, PlaceAfterInsert

(* A set that gains at most one element grows by at most one.              *)
LEMMA GrowsByOne ==
  ASSUME NEW S, NEW T, NEW x, IsFiniteSet(S), T \subseteq S \union {x}
  PROVE  IsFiniteSet(T) /\ Cardinality(T) \in Nat /\ Cardinality(S) \in Nat
         /\ Cardinality(T) <= Cardinality(S) + 1
<1>1. /\ IsFiniteSet(S \union {x}) /\ Cardinality(S) \in Nat
      /\ Cardinality(S \union {x}) <= Cardinality(S) + 1
  <2>1. Cardinality(S) \in Nat
    BY FS_CardinalityType
  <2>2. /\ IsFiniteSet(S \union {x})
        /\ Cardinality(S \union {x}) = IF x \in S THEN Cardinality(S) ELSE Cardinality(S) + 1
    BY FS_AddElement
  <2> QED
    BY <2>1, <2>2
<1>2. IsFiniteSet(T) /\ Cardinality(T) <= Cardinality(S \union {x})
  BY <1>1, FS_Subset
<1> QED
  BY <1>1, <1>2, FS_CardinalityType

-----------------------------------------------------------------------------
(* A scan.  Due: what the scan has returned again, and what it will if     *)
(* nothing changes any more.                                               *)
Again(n, g, S, o) ==
  g[n] + IF n \in S /\ g[n] >= 1 /\ Place(S, n) >= o THEN 1 ELSE 0

DueOf(g, S, o) == {d \in Names \X Nat : 2 <= d[2] /\ d[2] <= Again(d[1], g, S, o)}
Due == DueOf(got, children, offset)

MissedOf(t, g, S, o) == {n \in t : g[n] = 0 /\ Place(S, n) < o}

AtMost(S, n) == IsFiniteSet(S) /\ Cardinality(S) <= n

ScanInv ==
  /\ DirTypeOK
  /\ throughout \subseteq children
  /\ ~scanning => offset = 0 /\ throughout = {} /\ got = [n \in Names |-> 0]
  /\ AtMost(MissedOf(throughout, got, children, offset), removed)
  /\ AtMost(Due, inserted)

(* The two properties follow.                                              *)
LEMMA ScanInvComplete == ScanInv => ScanComplete
<1>1. Missed = MissedOf(throughout, got, children, offset)
  BY PlaceIs DEF Missed, MissedOf
<1> QED
  BY <1>1 DEF ScanInv, ScanComplete, AtMost

(* What was returned again is among what was due.                          *)
LEMMA ScanInvRepeats == ScanInv => RepeatsBounded
<1> SUFFICES ASSUME ScanInv PROVE RepeatsBounded
  OBVIOUS
<1>1. got \in [Names -> Nat] /\ IsFiniteSet(Due) /\ Cardinality(Due) <= inserted
      /\ inserted \in Nat
  BY DEF ScanInv, AtMost, DirTypeOK
<1>2. ASSUME NEW d \in Repeats PROVE d \in Due
  <2>1. PICK n \in Names : d \in {n} \X (2..got[n])
    BY <1>2 DEF Repeats
  <2>2. d = <<n, d[2]>> /\ d[1] = n /\ d[2] \in 2..got[n]
    BY <2>1
  <2>3. got[n] \in Nat /\ d[2] \in Nat /\ 2 <= d[2] /\ d[2] <= got[n]
    BY <1>1, <2>2
  <2>4. d[2] <= Again(n, got, children, offset)
    BY <2>3 DEF Again
  <2> QED
    BY <2>2, <2>3, <2>4 DEF Due, DueOf
<1>3. IsFiniteSet(Repeats) /\ Cardinality(Repeats) <= Cardinality(Due)
  BY <1>1, <1>2, FS_Subset
<1>4. Cardinality(Repeats) \in Nat /\ Cardinality(Due) \in Nat
  BY <1>1, <1>3, FS_CardinalityType
<1> QED
  BY <1>1, <1>3, <1>4 DEF RepeatsBounded

(* Before a scan there is nothing due and nothing missed.                  *)
LEMMA NothingDue ==
  ASSUME NEW S, NEW o, NEW t
  PROVE  /\ DueOf([n \in Names |-> 0], S, o) = {}
         /\ MissedOf({}, t, S, o) = {}
         /\ S \subseteq Names => MissedOf(S, [n \in Names |-> 0], S, 0) = {}
         /\ AtMost({}, 0)
<1> DEFINE g == [n \in Names |-> 0]
<1>1. ASSUME NEW n \in Names PROVE Again(n, g, S, o) = 0
  BY DEF Again
<1>2. ASSUME NEW d \in DueOf(g, S, o) PROVE FALSE
  <2>1. d[1] \in Names /\ d[2] \in Nat /\ 2 <= d[2] /\ d[2] <= Again(d[1], g, S, o)
    BY DEF DueOf
  <2> QED
    BY <1>1, <2>1
<1>3. ASSUME S \subseteq Names, NEW n \in MissedOf(S, g, S, 0) PROVE FALSE
  BY <1>3, PlaceRange DEF MissedOf
<1>4. AtMost({}, 0)
  BY FS_EmptySet DEF AtMost
<1>5. MissedOf({}, t, S, o) = {}
  BY DEF MissedOf
<1> QED
  BY <1>2, <1>3, <1>4, <1>5

(* The invariant holds at mount.                                           *)
LEMMA InitScan == DirInit => ScanInv
<1> SUFFICES ASSUME DirInit PROVE ScanInv
  OBVIOUS
<1>1. Cardinality(Names) \in Nat
  BY Finite
<1>2. DirTypeOK
  <2>1. 0 \in 0..(Cardinality(Names) + 2) /\ [n \in Names |-> 0] \in [Names -> Nat]
    BY <1>1
  <2> QED
    BY <2>1 DEF DirInit, DirTypeOK
<1>3. Due = {} /\ MissedOf(throughout, got, children, offset) = {}
  BY NothingDue DEF DirInit, Due
<1> QED
  BY <1>2, <1>3, NothingDue DEF DirInit, ScanInv

(* The end of a scan.                                                      *)
LEMMA NoScanType == ASSUME DirTypeOK, NoScan, UNCHANGED children PROVE DirTypeOK'
<1>1. Cardinality(Names) \in Nat
  BY Finite
<1>2. 0 \in 0..(Cardinality(Names) + 2) /\ [n \in Names |-> 0] \in [Names -> Nat]
  BY <1>1
<1> QED
  BY <1>2 DEF DirTypeOK, NoScan

(* Everything counted for the scan goes with it.                           *)
LEMMA NoScanScan == ASSUME ScanInv, NoScan, UNCHANGED children PROVE ScanInv'
<1>1. DirTypeOK'
  BY NoScanType DEF ScanInv
<1>2. Due' = {} /\ MissedOf(throughout', got', children', offset') = {}
  BY NothingDue DEF NoScan, Due
<1> QED
  BY <1>1, <1>2, NothingDue DEF NoScan, ScanInv

(* Its start.                                                              *)
LEMMA RewindScan == ASSUME ScanInv, Rewind PROVE ScanInv'
<1>1. DirTypeOK'
  BY DEF ScanInv, DirTypeOK, Rewind
<1>2. children \subseteq Names /\ offset = 0 /\ got = [n \in Names |-> 0]
      /\ inserted \in Nat /\ removed \in Nat
  BY DEF ScanInv, DirTypeOK, Rewind
<1>3. Due' = {} /\ MissedOf(throughout', got', children', offset') = {}
  BY <1>2, NothingDue DEF Rewind, Due
<1>4. AtMost({}, inserted') /\ AtMost({}, removed')
  <2>1. inserted' = inserted /\ removed' = removed
    BY DEF Rewind
  <2> QED
    BY <1>2, <2>1, FS_EmptySet DEF AtMost
<1> QED
  BY <1>1, <1>3, <1>4 DEF Rewind, ScanInv

(* A page is not empty and ends within the listing.                        *)
LEMMA EndsRange ==
  ASSUME DirTypeOK, offset < Entries, NEW end \in Ends
  PROVE  end \in Nat /\ offset < end /\ end <= Entries
<1>1. Entries \in Nat /\ offset \in Nat
  BY Finite DEF DirTypeOK, Entries
<1>2. PICK size \in 1..MaxPage : end = Min({offset + size, Entries})
  BY DEF Ends
<1>3. size \in Nat /\ size >= 1
  BY <1>2, PageAssumption
<1> DEFINE T == {offset + size, Entries}
<1>4. \E x \in T : \A y \in T : x <= y
  BY <1>1, <1>3
<1>5. end \in T /\ \A y \in T : end <= y
  BY <1>2, <1>4 DEF Min
<1> QED
  BY <1>1, <1>3, <1>5

(* A page returns what is due in it: nothing more becomes due, and what it *)
(* passes it has returned.                                                 *)
LEMMA PageScan ==
  ASSUME ScanInv, scanning, offset < Entries, NEW end \in Ends, Page(end, end)
  PROVE  ScanInv'
<1> DEFINE S == children
<1>1. /\ DirTypeOK /\ S \subseteq Names /\ got \in [Names -> Nat] /\ offset \in Nat
      /\ throughout \subseteq S
  BY DEF ScanInv, DirTypeOK
<1>2. end \in Nat /\ offset < end /\ end <= Entries
  BY <1>1, EndsRange
<1>3. /\ got' = [n \in Names |-> IF n \in S /\ Place(S, n) \in offset..(end - 1)
                                   THEN got[n] + 1 ELSE got[n]]
      /\ offset' = end
      /\ UNCHANGED <<children, scanning, throughout, inserted, removed>>
  BY PlaceIs DEF Page
<1>4. got' \in [Names -> Nat]
  BY <1>1, <1>3
<1>5. DirTypeOK'
  <2>1. end \in 0..(Cardinality(Names) + 2)
    BY <1>1, <1>2, Finite DEF Entries
  <2> QED
    BY <1>1, <1>3, <1>4, <2>1 DEF DirTypeOK
<1>6. ASSUME NEW n \in Names
      PROVE  /\ got'[n] = IF n \in S /\ offset <= Place(S, n) /\ Place(S, n) < end
                            THEN got[n] + 1 ELSE got[n]
             /\ Place(S, n) \in Nat /\ got[n] \in Nat
  <2>1. Place(S, n) \in Nat /\ got[n] \in Nat
    BY <1>1, PlaceRange
  <2> QED
    BY <1>1, <1>2, <1>3, <2>1
<1>7. MissedOf(throughout', got', S', offset') = MissedOf(throughout, got, S, offset)
  BY <1>1, <1>2, <1>3, <1>6 DEF MissedOf
<1>8. ASSUME NEW n \in Names, NEW k \in Nat, 2 <= k
      PROVE  k <= Again(n, got', S, end) <=> k <= Again(n, got, S, offset)
  <2>1. Place(S, n) \in Nat /\ got[n] \in Nat
    BY <1>6
  <2>2. CASE n \in S /\ offset <= Place(S, n) /\ Place(S, n) < end
    <3>1. got'[n] = got[n] + 1 /\ ~(Place(S, n) >= end) /\ Place(S, n) >= offset
      BY <1>1, <1>2, <1>6, <2>1, <2>2
    <3>2. Again(n, got', S, end) = got[n] + 1
      BY <2>1, <3>1 DEF Again
    <3>3. Again(n, got, S, offset) = IF got[n] >= 1 THEN got[n] + 1 ELSE got[n]
      BY <2>1, <2>2, <3>1 DEF Again
    <3> QED
      BY <1>8, <2>1, <3>2, <3>3
  <2>3. CASE ~(n \in S /\ offset <= Place(S, n) /\ Place(S, n) < end)
    <3>1. got'[n] = got[n]
      BY <1>6, <2>3
    <3>2. n \in S => (Place(S, n) >= end <=> Place(S, n) >= offset)
      BY <1>1, <1>2, <2>1, <2>3
    <3>3. Again(n, got', S, end) = Again(n, got, S, offset)
      BY <3>1, <3>2 DEF Again
    <3> QED
      BY <3>3
  <2> QED
    BY <2>2, <2>3
<1>9. Due' = Due
  <2>1. Due' = DueOf(got', S, end)
    BY <1>3 DEF Due
  <2> QED
    BY <1>8, <2>1 DEF Due, DueOf
<1>10. ~scanning' => offset' = 0 /\ throughout' = {} /\ got' = [n \in Names |-> 0]
  BY <1>3
<1> QED
  BY <1>3, <1>5, <1>7, <1>9, <1>10 DEF ScanInv

(* At most one name becomes due for a new one: the new one, or the one it  *)
(* pushes behind the offset.                                               *)
Newly(S, x, o) ==
  {m \in S \union {x} : Place(S \union {x}, m) >= o /\ ~(m \in S /\ Place(S, m) >= o)}

LEMMA NewlyIsOne ==
  ASSUME NEW S, S \subseteq Names, NEW x \in Names \ S, NEW o \in Nat,
         NEW m \in Newly(S, x, o), NEW n \in Newly(S, x, o)
  PROVE  m = n
<1>1. /\ m \in S \union {x} /\ Place(S \union {x}, m) >= o /\ ~(m \in S /\ Place(S, m) >= o)
      /\ n \in S \union {x} /\ Place(S \union {x}, n) >= o /\ ~(n \in S /\ Place(S, n) >= o)
  BY DEF Newly
<1>2. m \in Names /\ n \in Names /\ S \union {x} \subseteq Names
  BY <1>1
<1>3. m \in Nat /\ n \in Nat /\ x \in Nat
  BY <1>2, NamesAssumption
<1>4. /\ Place(S, m) \in Nat /\ Place(S, n) \in Nat /\ Place(S, x) \in Nat
  BY <1>2, PlaceRange
<1>5. Place(S \union {x}, m) = IF x < m THEN Place(S, m) + 1 ELSE Place(S, m)
  BY <1>2, PlaceAfterInsert
<1>6. Place(S \union {x}, n) = IF x < n THEN Place(S, n) + 1 ELSE Place(S, n)
  BY <1>2, PlaceAfterInsert
<1>7. Place(S \union {x}, x) = Place(S, x)
  <2>1. x \in Names /\ ~(x < x)
    BY <1>3
  <2>2. Place(S \union {x}, x) = IF x < x THEN Place(S, x) + 1 ELSE Place(S, x)
    BY <2>1, PlaceAfterInsert
  <2> QED
    BY <2>1, <2>2
<1>8. CASE m \in S /\ n \in S
  <2>1. Place(S, m) = Place(S, n)
    BY <1>1, <1>4, <1>5, <1>6, <1>8
  <2> QED
    BY <1>8, <2>1, PlaceInjective
<1>9. CASE m \in S /\ n = x
  <2>1. x < m /\ Place(S, m) < o /\ Place(S, x) >= o
    BY <1>1, <1>4, <1>5, <1>7, <1>9
  <2>2. Place(S \union {x}, x) < Place(S \union {x}, m)
    BY <1>2, <1>9, <2>1, PlaceOrder
  <2> QED
    BY <1>4, <1>5, <1>7, <2>1, <2>2
<1>10. CASE n \in S /\ m = x
  <2>1. x < n /\ Place(S, n) < o /\ Place(S, x) >= o
    BY <1>1, <1>4, <1>6, <1>7, <1>10
  <2>2. Place(S \union {x}, x) < Place(S \union {x}, n)
    BY <1>2, <1>10, <2>1, PlaceOrder
  <2> QED
    BY <1>4, <1>6, <1>7, <2>1, <2>2
<1> QED
  BY <1>1, <1>8, <1>9, <1>10

(* Sets that stay, shrink or gain one element.                             *)
LEMMA AtMostSubset ==
  ASSUME NEW S, NEW T, NEW n \in Nat, AtMost(S, n), T \subseteq S
  PROVE  AtMost(T, n)
<1>1. IsFiniteSet(T) /\ Cardinality(T) <= Cardinality(S)
  BY FS_Subset DEF AtMost
<1>2. Cardinality(S) \in Nat /\ Cardinality(T) \in Nat /\ Cardinality(S) <= n
  BY <1>1, FS_CardinalityType DEF AtMost
<1> QED
  BY <1>1, <1>2 DEF AtMost

LEMMA AtMostOneMore ==
  ASSUME NEW S, NEW T, NEW x, NEW n \in Nat, AtMost(S, n), T \subseteq S \union {x}
  PROVE  AtMost(T, n + 1)
<1>1. IsFiniteSet(T) /\ Cardinality(T) \in Nat /\ Cardinality(S) \in Nat
      /\ Cardinality(T) <= Cardinality(S) + 1
  BY GrowsByOne DEF AtMost
<1> QED
  BY <1>1 DEF AtMost

(* A new name: at most one more is due, and nothing more is missed.        *)
LEMMA InsertScan == ASSUME ScanInv, Insert PROVE ScanInv'
<1> DEFINE S == children
<1>1. /\ DirTypeOK /\ S \subseteq Names /\ got \in [Names -> Nat] /\ offset \in Nat
      /\ throughout \subseteq S /\ inserted \in Nat /\ removed \in Nat
  BY DEF ScanInv, DirTypeOK
<1>2. PICK x \in Names \ S : /\ children' = S \union {x}
                             /\ inserted' = Counted(inserted)
                             /\ UNCHANGED <<scanning, offset, got, throughout, removed>>
  BY DEF Insert
<1>3. DirTypeOK' /\ throughout' \subseteq children'
  BY <1>1, <1>2 DEF DirTypeOK, Counted
<1>4. ASSUME NEW n \in Names PROVE /\ Place(S \union {x}, n) \in Nat /\ Place(S, n) \in Nat
                                   /\ Place(S, n) <= Place(S \union {x}, n)
  BY <1>1, PlaceRange, PlaceAfterInsert
<1>5. MissedOf(throughout', got', children', offset') \subseteq MissedOf(throughout, got, S, offset)
  BY <1>1, <1>2, <1>4 DEF MissedOf
<1>6. AtMost(MissedOf(throughout', got', children', offset'), removed')
  BY <1>1, <1>2, <1>5, AtMostSubset DEF ScanInv
<1>7. CASE ~scanning
  <2>1. got' = [n \in Names |-> 0] /\ inserted' = inserted
    BY <1>2, <1>7 DEF ScanInv, Counted
  <2>2. Due' = {} /\ AtMost({}, 0)
    BY <2>1, NothingDue DEF Due
  <2>3. AtMost(Due', inserted')
    BY <1>1, <2>1, <2>2, FS_EmptySet DEF AtMost
  <2> QED
    BY <1>2, <1>3, <1>6, <2>3 DEF ScanInv
<1>8. CASE scanning
  <2>1. inserted' = inserted + 1
    BY <1>2, <1>8 DEF Counted
  <2>2. ASSUME NEW d \in Due'
        PROVE  d \in Due \/ (d[1] \in Newly(S, x, offset) /\ d = <<d[1], got[d[1]] + 1>>)
    <3>1. /\ d = <<d[1], d[2]>> /\ d[1] \in Names /\ d[2] \in Nat /\ 2 <= d[2]
          /\ d[2] <= Again(d[1], got, S \union {x}, offset)
      BY <1>2, <2>2 DEF Due, DueOf
    <3>2. CASE d[2] <= Again(d[1], got, S, offset)
      BY <3>1, <3>2 DEF Due, DueOf
    <3>3. CASE ~(d[2] <= Again(d[1], got, S, offset))
      <4>1. got[d[1]] \in Nat /\ Place(S \union {x}, d[1]) \in Nat /\ Place(S, d[1]) \in Nat
        BY <1>1, <1>4, <3>1
      <4>2. /\ d[2] = got[d[1]] + 1
            /\ d[1] \in S \union {x} /\ Place(S \union {x}, d[1]) >= offset
            /\ ~(d[1] \in S /\ Place(S, d[1]) >= offset)
        BY <3>1, <3>3, <4>1 DEF Again
      <4> QED
        BY <3>1, <4>2 DEF Newly
    <3> QED
      BY <3>2, <3>3
  <2>3. \E e : Due' \subseteq Due \union {e}
    <3>1. CASE Newly(S, x, offset) = {}
      BY <2>2, <3>1
    <3>2. CASE Newly(S, x, offset) # {}
      <4>1. PICK m : m \in Newly(S, x, offset)
        BY <3>2
      <4>2. \A n \in Newly(S, x, offset) : n = m
        BY <1>1, <4>1, NewlyIsOne
      <4>3. Due' \subseteq Due \union {<<m, got[m] + 1>>}
        BY <2>2, <4>2
      <4> QED
        BY <4>3
    <3> QED
      BY <3>1, <3>2
  <2>4. AtMost(Due', inserted')
    BY <1>1, <2>1, <2>3, AtMostOneMore DEF ScanInv
  <2> QED
    BY <1>2, <1>3, <1>6, <1>8, <2>4 DEF ScanInv
<1> QED
  BY <1>7, <1>8

(* A name that goes: nothing more is due, and at most the one that moves   *)
(* up to just before the offset is missed.                                 *)
LEMMA DeleteScan == ASSUME ScanInv, Delete PROVE ScanInv'
<1> DEFINE S == children
<1>1. /\ DirTypeOK /\ S \subseteq Names /\ got \in [Names -> Nat] /\ offset \in Nat
      /\ throughout \subseteq S /\ inserted \in Nat /\ removed \in Nat
  BY DEF ScanInv, DirTypeOK
<1>2. PICK x \in S : /\ children' = S \ {x} /\ throughout' = throughout \ {x}
                     /\ removed' = Counted(removed)
                     /\ UNCHANGED <<scanning, offset, got, inserted>>
  BY DEF Delete
<1>3. DirTypeOK' /\ throughout' \subseteq children'
  BY <1>1, <1>2 DEF DirTypeOK, Counted
<1>4. ASSUME NEW n \in Names
      PROVE  /\ Place(S \ {x}, n) \in Nat /\ Place(S, n) \in Nat
             /\ Place(S \ {x}, n) <= Place(S, n) /\ Place(S, n) <= Place(S \ {x}, n) + 1
  <2>1. Place(S \ {x}, n) \in Nat /\ Place(S, n) \in Nat
    BY <1>1, PlaceRange
  <2>2. Place(S, n) = IF x < n THEN Place(S \ {x}, n) + 1 ELSE Place(S \ {x}, n)
    BY <1>1, PlaceAfterDelete
  <2> QED
    BY <2>1, <2>2
<1>5. Due' \subseteq Due
  <2>1. ASSUME NEW n \in Names
        PROVE  Again(n, got, S \ {x}, offset) <= Again(n, got, S, offset)
               /\ Again(n, got, S \ {x}, offset) \in Nat /\ Again(n, got, S, offset) \in Nat
    BY <1>1, <1>4 DEF Again
  <2>2. Due' = DueOf(got, S \ {x}, offset)
    BY <1>2 DEF Due
  <2> QED
    BY <2>1, <2>2 DEF Due, DueOf
<1>6. AtMost(Due', inserted')
  BY <1>1, <1>2, <1>5, AtMostSubset DEF ScanInv
<1>7. CASE ~scanning
  <2>1. throughout' = {} /\ removed' = removed
    BY <1>2, <1>7 DEF ScanInv, Counted
  <2>2. AtMost(MissedOf(throughout', got', children', offset'), removed')
    BY <1>1, <2>1, NothingDue, FS_EmptySet DEF AtMost
  <2> QED
    BY <1>2, <1>3, <1>6, <1>7, <2>1, <2>2 DEF ScanInv
<1>8. CASE scanning
  <2>1. removed' = removed + 1
    BY <1>2, <1>8 DEF Counted
  <2> DEFINE M == MissedOf(throughout, got, S, offset)
             N == MissedOf(throughout \ {x}, got, S \ {x}, offset)
  <2>2. ASSUME NEW m \in N PROVE m \in M \/ (m \in S /\ Place(S, m) = offset)
    <3>1. m \in throughout /\ got[m] = 0 /\ Place(S \ {x}, m) < offset /\ m \in S /\ m \in Names
      BY <1>1, <2>2 DEF MissedOf
    <3> QED
      BY <1>1, <1>4, <3>1 DEF MissedOf
  <2>3. \E e : N \subseteq M \union {e}
    <3>1. CASE \E m \in S : Place(S, m) = offset
      <4>1. PICK m \in S : Place(S, m) = offset
        BY <3>1
      <4>2. \A n \in S : Place(S, n) = offset => n = m
        BY <1>1, <4>1, PlaceInjective
      <4>3. N \subseteq M \union {m}
        BY <2>2, <4>2
      <4> QED
        BY <4>3
    <3>2. CASE ~ \E m \in S : Place(S, m) = offset
      BY <2>2, <3>2
    <3> QED
      BY <3>1, <3>2
  <2>4. AtMost(N, removed + 1)
    <3>1. AtMost(M, removed)
      BY DEF ScanInv
    <3> QED
      BY <1>1, <2>3, <3>1, AtMostOneMore
  <2> QED
    BY <1>2, <1>3, <1>6, <1>8, <2>1, <2>4 DEF ScanInv
<1> QED
  BY <1>7, <1>8

-----------------------------------------------------------------------------
(* Every nonempty set of numbers has a least one, and what holds of 0 and  *)
(* is handed on holds of all: the two forms of induction the sums need.    *)
LEMMA Least ==
  ASSUME NEW T, T \subseteq Nat, T # {}
  PROVE  \E x \in T : \A y \in T : x <= y
<1> DEFINE R == OpToRel(<, Nat)
<1>1. IsWellFoundedOn(R, Nat)
  BY NatLessThanWellFounded
<1>2. \A x, y \in Nat : <<x, y>> \in R <=> x < y
  BY Zenon DEF OpToRel
<1> HIDE DEF R
<1>3. PICK x \in T : \A y \in T : ~ (<<y, x>> \in R)
  BY <1>1, WFMin
<1>4. \A y \in T : ~(y < x)
  BY <1>2, <1>3
<1>5. \A y \in T : x <= y
  BY <1>4
<1> QED
  BY <1>5

LEMMA Induction ==
  ASSUME NEW S, 0 \in S, \A n \in Nat : n \in S => n + 1 \in S
  PROVE  Nat \subseteq S
<1> DEFINE T == Nat \ S
<1> SUFFICES ASSUME T # {} PROVE FALSE
  OBVIOUS
<1>1. PICK x \in T : \A y \in T : x <= y
  BY Least
<1>2. x \in Nat /\ x # 0 /\ x \notin S
  BY <1>1
<1>3. x - 1 \in Nat /\ ~(x <= x - 1) /\ (x - 1) + 1 = x
  BY <1>2
<1>4. x - 1 \in S
  BY <1>1, <1>3
<1> QED
  BY <1>2, <1>3, <1>4

(* g is what a loop of N rounds computes: it starts with a, and round i    *)
(* makes h of the value so far.  There is one.                             *)
Computes(g, V, a, h, N) ==
  g \in [0..N -> V] /\ g[0] = a /\ \A i \in 1..N : g[i] = h[<<i, g[i - 1]>>]

LEMMA Loop ==
  ASSUME NEW V, NEW a \in V, NEW h \in [Nat \X V -> V], NEW N \in Nat
  PROVE  \E g : Computes(g, V, a, h, N)
<1> DEFINE Runs(g, n) == g[0] = a /\ \A i \in 1..n : g[i] = h[<<i, g[i - 1]>>]
           S == {n \in Nat : \E g \in [0..n -> V] : Runs(g, n)}
<1>1. 0 \in S
  <2>1. [i \in 0..0 |-> a] \in [0..0 -> V] /\ Runs([i \in 0..0 |-> a], 0)
    OBVIOUS
  <2> QED
    BY <2>1
<1>2. ASSUME NEW n \in Nat, n \in S PROVE n + 1 \in S
  <2>1. PICK g \in [0..n -> V] : Runs(g, n)
    BY <1>2
  <2>2. PICK v : v = h[<<n + 1, g[n]>>]
    OBVIOUS
  <2>3. v \in V
    BY <2>2
  <2>4. PICK k : k = [i \in 0..(n + 1) |-> IF i = n + 1 THEN v ELSE g[i]]
    OBVIOUS
  <2>5. /\ k \in [0..(n + 1) -> V] /\ k[n + 1] = v
        /\ \A i \in 0..n : k[i] = g[i]
    BY <2>3, <2>4
  <2>6. k[0] = a
    BY <2>1, <2>5
  <2>7. ASSUME NEW i \in 1..(n + 1) PROVE k[i] = h[<<i, k[i - 1]>>]
    <3>1. CASE i = n + 1
      <4>1. k[i - 1] = g[n]
        BY <2>5, <3>1
      <4> QED
        BY <2>2, <2>5, <3>1, <4>1
    <3>2. CASE i # n + 1
      <4>1. i \in 1..n /\ i \in 0..n /\ i - 1 \in 0..n
        BY <3>2
      <4>2. k[i] = g[i] /\ k[i - 1] = g[i - 1]
        BY <2>5, <4>1
      <4> QED
        BY <2>1, <4>1, <4>2
    <3> QED
      BY <3>1, <3>2
  <2>8. Runs(k, n + 1)
    BY <2>6, <2>7
  <2> QED
    BY <2>5, <2>8
<1> HIDE DEF S
<1>3. N \in S
  BY <1>1, <1>2, Induction
<1> QED
  BY <1>3 DEF S, Computes

-----------------------------------------------------------------------------
(* There is a bucket, and the last one has all samples.                    *)
LEMMA BucketFacts ==
  /\ HISTO_BUCKETS \in Nat /\ HISTO_BUCKETS >= 1
  /\ Buckets = 0..(HISTO_BUCKETS - 1) /\ 0 \in Buckets /\ HISTO_BUCKETS - 1 \in Buckets
  /\ HISTO_BUCKETS - 1 \in Nat
<1>1. Len(HISTO_THRESHOLDS) \in Nat
  BY ThresholdsAssumption
<1> QED
  BY <1>1 DEF HISTO_BUCKETS, Buckets

(* The running sums are what their recursive definition says.              *)
LEMMA SumsDef ==
  ASSUME NEW s \in [Buckets -> Nat]
  PROVE  /\ Sums(s) \in [Buckets -> Nat]
         /\ Sums(s)[0] = s[0]
         /\ \A b \in Buckets \ {0} : Sums(s)[b] = Sums(s)[b - 1] + s[b]
<1>1. PICK N \in Nat : N = HISTO_BUCKETS - 1
  BY BucketFacts
<1>2. Buckets = 0..N
  BY <1>1, BucketFacts
<1>3. PICK h : h = [x \in Nat \X Nat |-> IF x[1] \in Buckets THEN x[2] + s[x[1]] ELSE 0]
  OBVIOUS
<1>4. h \in [Nat \X Nat -> Nat] /\ \A i \in Buckets, m \in Nat : h[<<i, m>>] = m + s[i]
  <2>1. ASSUME NEW x \in Nat \X Nat PROVE h[x] \in Nat
    BY <1>3
  <2> QED
    BY <1>2, <1>3, <2>1
<1>5. s[0] \in Nat
  BY <1>2
<1>6. PICK g : Computes(g, Nat, s[0], h, N)
  BY <1>4, <1>5, Loop
<1>7. ASSUME NEW i \in 1..N PROVE g[i] = g[i - 1] + s[i]
  <2>1. i \in Buckets /\ i - 1 \in 0..N
    BY <1>2
  <2> QED
    BY <1>4, <1>6, <2>1 DEF Computes
<1>8. g = [b \in Buckets |-> IF b = 0 THEN s[0] ELSE g[b - 1] + s[b]]
  BY <1>2, <1>6, <1>7 DEF Computes
<1>9. Sums(s) = CHOOSE f : f = [b \in Buckets |-> IF b = 0 THEN s[0] ELSE f[b - 1] + s[b]]
  BY DEF Sums
<1>10. Sums(s) = [b \in Buckets |-> IF b = 0 THEN s[0] ELSE Sums(s)[b - 1] + s[b]]
  BY <1>8, <1>9
<1>11. PICK f : f = Sums(s)
  OBVIOUS
<1>12. f[0] = s[0] /\ \A b \in Buckets \ {0} : f[b] = f[b - 1] + s[b]
  BY <1>2, <1>10, <1>11
<1>13. f \in [Buckets -> Nat]
  <2> DEFINE S == {n \in Nat : n \in Buckets => f[n] \in Nat}
  <2>1. 0 \in S
    BY <1>5, <1>12
  <2>2. ASSUME NEW n \in Nat, n \in S PROVE n + 1 \in S
    <3>1. ASSUME n + 1 \in Buckets PROVE f[n + 1] \in Nat
      <4>1. n \in Buckets /\ n + 1 \in Buckets \ {0} /\ (n + 1) - 1 = n
        BY <1>2, <3>1
      <4>2. f[n] \in Nat /\ s[n + 1] \in Nat
        BY <2>2, <4>1
      <4>3. f[n + 1] = f[n] + s[n + 1]
        BY <1>12, <4>1
      <4> QED
        BY <4>2, <4>3
    <3> QED
      BY <3>1
  <2> HIDE DEF S
  <2>3. Nat \subseteq S
    BY <2>1, <2>2, Induction
  <2>4. \A b \in Buckets : f[b] \in Nat
    BY <1>2, <2>3 DEF S
  <2> QED
    BY <1>10, <1>11, <2>4
<1> QED
  BY <1>11, <1>12, <1>13

(* The sums are numbers.                                                   *)
LEMMA TotalNat == ASSUME NEW s \in [Buckets -> Nat] PROVE Total(s) \in Nat
BY SumsDef, BucketFacts DEF Total, Cum

LEMMA CumNat == ASSUME NEW s \in [Buckets -> Nat], NEW b \in Buckets PROVE Cum(s, b) \in Nat
BY SumsDef DEF Cum

(* No samples, no sum.                                                     *)
LEMMA TotalZero == Total(Zero(Buckets)) = 0
<1>1. PICK s : s = Zero(Buckets)
  OBVIOUS
<1>2. s \in [Buckets -> Nat] /\ \A b \in Buckets : s[b] = 0
  BY <1>1 DEF Zero
<1>3. PICK f : f = Sums(s)
  OBVIOUS
<1>4. f[0] = 0 /\ \A b \in Buckets \ {0} : f[b] = f[b - 1] + s[b]
  BY <1>2, <1>3, SumsDef, BucketFacts
<1> DEFINE S == {n \in Nat : n \in Buckets => f[n] = 0}
<1>5. 0 \in S
  BY <1>4
<1>6. ASSUME NEW n \in Nat, n \in S PROVE n + 1 \in S
  <2>1. ASSUME n + 1 \in Buckets PROVE f[n + 1] = 0
    <3>1. n \in Buckets /\ n + 1 \in Buckets \ {0} /\ (n + 1) - 1 = n
      BY <2>1, BucketFacts
    <3>2. f[n] = 0 /\ s[n + 1] = 0
      BY <1>2, <1>6, <3>1
    <3> QED
      BY <1>4, <3>1, <3>2
  <2> QED
    BY <2>1
<1> HIDE DEF S
<1>7. Nat \subseteq S
  BY <1>5, <1>6, Induction
<1>8. f[HISTO_BUCKETS - 1] = 0
  BY <1>7, BucketFacts DEF S
<1> QED
  BY <1>1, <1>3, <1>8 DEF Total, Cum

(* One sample more in a bucket, one more in all.                           *)
LEMMA TotalPlusOne ==
  ASSUME NEW s \in [Buckets -> Nat], NEW t \in [Buckets -> Nat], NEW c \in Buckets,
         \A b \in Buckets : t[b] = IF b = c THEN s[b] + 1 ELSE s[b]
  PROVE  Total(t) = Total(s) + 1
<1>1. PICK f : f = Sums(s)
  OBVIOUS
<1>2. PICK g : g = Sums(t)
  OBVIOUS
<1>3. /\ f \in [Buckets -> Nat] /\ f[0] = s[0]
      /\ \A b \in Buckets \ {0} : f[b] = f[b - 1] + s[b]
  BY <1>1, SumsDef
<1>4. g[0] = t[0] /\ \A b \in Buckets \ {0} : g[b] = g[b - 1] + t[b]
  BY <1>2, SumsDef
<1> DEFINE S == {n \in Nat : n \in Buckets => g[n] = IF n >= c THEN f[n] + 1 ELSE f[n]}
<1>5. c \in Nat /\ 0 \in Buckets
  BY BucketFacts
<1>6. 0 \in S
  BY <1>3, <1>4, <1>5
<1>7. ASSUME NEW n \in Nat, n \in S PROVE n + 1 \in S
  <2>1. ASSUME n + 1 \in Buckets
        PROVE  g[n + 1] = IF n + 1 >= c THEN f[n + 1] + 1 ELSE f[n + 1]
    <3>1. n \in Buckets /\ n + 1 \in Buckets \ {0} /\ (n + 1) - 1 = n
      BY <2>1, BucketFacts
    <3>2. g[n] = IF n >= c THEN f[n] + 1 ELSE f[n]
      BY <1>7, <3>1
    <3>3. t[n + 1] = IF n + 1 = c THEN s[n + 1] + 1 ELSE s[n + 1]
      BY <2>1
    <3>4. g[n + 1] = g[n] + t[n + 1] /\ f[n + 1] = f[n] + s[n + 1]
      BY <1>3, <1>4, <3>1
    <3>5. f[n] \in Nat /\ s[n + 1] \in Nat
      BY <1>3, <2>1, <3>1
    <3> QED
      BY <1>5, <3>2, <3>3, <3>4, <3>5
  <2> QED
    BY <2>1
<1> HIDE DEF S
<1>8. Nat \subseteq S
  BY <1>6, <1>7, Induction
<1>9. g[HISTO_BUCKETS - 1] = f[HISTO_BUCKETS - 1] + 1
  <2>1. HISTO_BUCKETS - 1 \in Nat /\ HISTO_BUCKETS - 1 \in Buckets /\ HISTO_BUCKETS - 1 >= c
    BY <1>5, BucketFacts
  <2> QED
    BY <1>8, <2>1 DEF S
<1> QED
  BY <1>1, <1>2, <1>9 DEF Total, Cum

(* Fewer samples in every bucket, fewer in all.                            *)
LEMMA TotalMonotone ==
  ASSUME NEW s \in [Buckets -> Nat], NEW t \in [Buckets -> Nat],
         \A b \in Buckets : s[b] <= t[b]
  PROVE  Total(s) <= Total(t)
<1>1. PICK f : f = Sums(s)
  OBVIOUS
<1>2. PICK g : g = Sums(t)
  OBVIOUS
<1>3. /\ f \in [Buckets -> Nat] /\ f[0] = s[0]
      /\ \A b \in Buckets \ {0} : f[b] = f[b - 1] + s[b]
  BY <1>1, SumsDef
<1>4. /\ g \in [Buckets -> Nat] /\ g[0] = t[0]
      /\ \A b \in Buckets \ {0} : g[b] = g[b - 1] + t[b]
  BY <1>2, SumsDef
<1> DEFINE S == {n \in Nat : n \in Buckets => f[n] <= g[n]}
<1>5. 0 \in S
  BY <1>3, <1>4, BucketFacts
<1>6. ASSUME NEW n \in Nat, n \in S PROVE n + 1 \in S
  <2>1. ASSUME n + 1 \in Buckets PROVE f[n + 1] <= g[n + 1]
    <3>1. n \in Buckets /\ n + 1 \in Buckets \ {0} /\ (n + 1) - 1 = n
      BY <2>1, BucketFacts
    <3>2. f[n] <= g[n] /\ s[n + 1] <= t[n + 1]
      BY <1>6, <2>1, <3>1
    <3>3. g[n + 1] = g[n] + t[n + 1] /\ f[n + 1] = f[n] + s[n + 1]
      BY <1>3, <1>4, <3>1
    <3>4. f[n] \in Nat /\ g[n] \in Nat /\ s[n + 1] \in Nat /\ t[n + 1] \in Nat
      BY <1>3, <1>4, <2>1, <3>1
    <3> QED
      BY <3>2, <3>3, <3>4
  <2> QED
    BY <2>1
<1> HIDE DEF S
<1>7. Nat \subseteq S
  BY <1>5, <1>6, Induction
<1>8. f[HISTO_BUCKETS - 1] <= g[HISTO_BUCKETS - 1]
  BY <1>7, BucketFacts DEF S
<1> QED
  BY <1>1, <1>2, <1>8 DEF Total, Cum

-----------------------------------------------------------------------------
(* summary's loop: a bucket but the first is reported once the sum is      *)
(* there, the first never is.                                              *)
DoneAt(s, target, i, p) ==
  \/ p = 0 /\ \A b \in Buckets : 1 <= b /\ b < i => Cum(s, b) < target
  \/ /\ p \in Buckets /\ 1 <= p /\ p < i /\ Cum(s, p) >= target
     /\ \A b \in Buckets : 1 <= b /\ b < p => Cum(s, b) < target

(* By induction over the loop's rounds.                                    *)
LEMMA DoneDef ==
  ASSUME NEW s \in [Buckets -> Nat], NEW target \in Nat
  PROVE  DoneAt(s, target, HISTO_BUCKETS, Done(s, target)[HISTO_BUCKETS])
<1>1. PICK N \in Nat : N = HISTO_BUCKETS
  BY BucketFacts
<1>2. Buckets = 0..(N - 1) /\ N >= 1
  BY <1>1, BucketFacts
<1>3. PICK h : h = [x \in Nat \X Nat |->
                      IF x[1] >= 1 /\ x[2] = 0 /\ Cum(s, x[1] - 1) >= target
                        THEN x[1] - 1 ELSE x[2]]
  OBVIOUS
<1>4. /\ h \in [Nat \X Nat -> Nat]
      /\ \A i \in 1..N, m \in Nat :
           h[<<i, m>>] = IF m = 0 /\ Cum(s, i - 1) >= target THEN i - 1 ELSE m
  <2>1. ASSUME NEW x \in Nat \X Nat PROVE h[x] \in Nat
    BY <1>3
  <2> QED
    BY <1>3, <2>1
<1>5. PICK g : Computes(g, Nat, 0, h, N)
  BY <1>4, Loop
<1>6. ASSUME NEW i \in 1..N
      PROVE  g[i] = IF g[i - 1] = 0 /\ Cum(s, i - 1) >= target THEN i - 1 ELSE g[i - 1]
  <2>1. i - 1 \in 0..N
    OBVIOUS
  <2> QED
    BY <1>4, <1>5, <2>1 DEF Computes
<1>7. g = [i \in 0..N |->
             IF i = 0 THEN 0
             ELSE IF g[i - 1] = 0 /\ Cum(s, i - 1) >= target THEN i - 1 ELSE g[i - 1]]
  BY <1>5, <1>6 DEF Computes
<1>8. Done(s, target) =
        CHOOSE f : f = [i \in 0..N |->
             IF i = 0 THEN 0
             ELSE IF f[i - 1] = 0 /\ Cum(s, i - 1) >= target THEN i - 1 ELSE f[i - 1]]
  BY <1>1 DEF Done
<1>9. PICK f : f = Done(s, target)
  OBVIOUS
<1>10. f = [i \in 0..N |->
             IF i = 0 THEN 0
             ELSE IF f[i - 1] = 0 /\ Cum(s, i - 1) >= target THEN i - 1 ELSE f[i - 1]]
  BY <1>7, <1>8, <1>9
<1>11. /\ f[0] = 0
       /\ \A i \in 1..N :
            f[i] = IF f[i - 1] = 0 /\ Cum(s, i - 1) >= target THEN i - 1 ELSE f[i - 1]
  BY <1>2, <1>10
<1> DEFINE S == {n \in Nat : n <= N => DoneAt(s, target, n, f[n])}
<1>12. 0 \in S
  BY <1>2, <1>11 DEF DoneAt
<1>13. ASSUME NEW n \in Nat, n \in S PROVE n + 1 \in S
  <2>1. ASSUME n + 1 <= N PROVE DoneAt(s, target, n + 1, f[n + 1])
    <3>1. n <= N /\ n + 1 \in 1..N /\ (n + 1) - 1 = n /\ n \in Buckets
      BY <1>2, <2>1
    <3>2. DoneAt(s, target, n, f[n])
      BY <1>13, <3>1
    <3>3. f[n + 1] = IF f[n] = 0 /\ Cum(s, n) >= target THEN n ELSE f[n]
      BY <1>11, <3>1
    <3>4. \A b \in Buckets : b \in Nat /\ Cum(s, b) \in Nat
      BY <1>2, CumNat
    <3>5. CASE f[n] = 0 /\ Cum(s, n) >= target
      BY <3>1, <3>2, <3>3, <3>4, <3>5 DEF DoneAt
    <3>6. CASE f[n] = 0 /\ ~(Cum(s, n) >= target)
      <4>1. f[n + 1] = 0
        BY <3>3, <3>6
      <4>2. \A b \in Buckets : 1 <= b /\ b < n => Cum(s, b) < target
        BY <3>2, <3>6 DEF DoneAt
      <4>3. \A b \in Buckets : 1 <= b /\ b < n + 1 => Cum(s, b) < target
        BY <3>1, <3>4, <3>6, <4>2
      <4> QED
        BY <4>1, <4>3 DEF DoneAt
    <3>7. CASE f[n] # 0
      <4>1. f[n + 1] = f[n]
        BY <3>3, <3>7
      <4>2. /\ f[n] \in Buckets /\ 1 <= f[n] /\ f[n] < n /\ Cum(s, f[n]) >= target
            /\ \A b \in Buckets : 1 <= b /\ b < f[n] => Cum(s, b) < target
        BY <3>2, <3>7 DEF DoneAt
      <4>3. f[n] < n + 1
        BY <3>4, <4>2
      <4> QED
        BY <4>1, <4>2, <4>3 DEF DoneAt
    <3> QED
      BY <3>5, <3>6, <3>7
  <2> QED
    BY <2>1
<1> HIDE DEF S
<1>14. Nat \subseteq S
  BY <1>12, <1>13, Induction
<1> QED
  BY <1>1, <1>9, <1>14 DEF S

(* What the summary says of a histogram with samples, for each of its      *)
(* percentages.                                                            *)
LEMMA PercentileLemma ==
  ASSUME NEW s \in [Buckets -> Nat], NEW q \in Quantiles
  PROVE  LET p == Percentile(s, q)
             r == NearestRank(s, q)
         IN  /\ p <= r \/ (r = 0 /\ p = 1)
             /\ p >= r \/ 100 * (Cum(s, p) + 1) > q * Total(s)
<1>1. PICK T : T = Total(s)
  OBVIOUS
<1>2. PICK target : target = Target(s, q)
  OBVIOUS
<1>3. PICK N : N = HISTO_BUCKETS
  OBVIOUS
<1>4. N \in Nat /\ N >= 1 /\ Buckets = 0..(N - 1)
  BY <1>3, BucketFacts
<1>5. T \in Nat /\ T = Cum(s, N - 1)
  BY <1>1, <1>3, TotalNat DEF Total
<1>6. q \in {50, 95, 99}
  BY DEF Quantiles
<1>7. target \in Nat /\ 100 * target <= q * T /\ q * T < 100 * (target + 1) /\ target <= T
  <2>1. target = (T * q) \div 100
    BY <1>1, <1>2 DEF Target
  <2>2. CASE q = 50
    BY <1>5, <2>1, <2>2
  <2>3. CASE q = 95
    BY <1>5, <2>1, <2>3
  <2>4. CASE q = 99
    BY <1>5, <2>1, <2>4
  <2> QED
    BY <1>6, <2>2, <2>3, <2>4
<1>8. \A b \in Buckets : Cum(s, b) \in Nat /\ b \in Nat /\ b < N
  BY <1>4, CumNat
<1>9. PICK p : p = Percentile(s, q)
  OBVIOUS
<1>10. DoneAt(s, target, N, p)
  BY <1>2, <1>3, <1>7, <1>9, DoneDef DEF Percentile
<1>11. PICK r : r = NearestRank(s, q)
  OBVIOUS
<1>12. r \in Buckets /\ 100 * Cum(s, r) >= q * T /\ \A b \in Buckets : 100 * Cum(s, b) >= q * T => r <= b
  <2> DEFINE E == {b \in Buckets : 100 * Cum(s, b) >= q * T}
  <2>1. N - 1 \in E
    BY <1>4, <1>5, <1>6
  <2>2. E \subseteq Nat /\ E # {}
    BY <1>4, <2>1
  <2>3. \E x \in E : \A y \in E : x <= y
    BY <2>2, Least
  <2>4. r = CHOOSE x \in E : \A y \in E : x <= y
    BY <1>1, <1>11 DEF NearestRank, Min
  <2>5. r \in E /\ \A y \in E : r <= y
    BY <2>3, <2>4
  <2> QED
    BY <2>5
<1>13. Cum(s, r) >= target
  <2>1. PICK c \in Nat : c = Cum(s, r)
    BY <1>8, <1>12
  <2>2. PICK Q \in Nat : Q = q * T
    BY <1>5, <1>6
  <2>3. 100 * c >= Q /\ 100 * target <= Q /\ target \in Nat
    BY <1>7, <1>12, <2>1, <2>2
  <2> QED
    BY <2>1, <2>3
<1>14. p \in Buckets /\ Cum(s, p) >= target
  <2>1. CASE p = 0 /\ \A b \in Buckets : 1 <= b /\ b < N => Cum(s, b) < target
    <3>1. N - 1 \in Buckets /\ Cum(s, N - 1) >= target
      BY <1>4, <1>5, <1>7
    <3>2. ~(1 <= N - 1)
      BY <1>4, <1>5, <1>7, <2>1, <3>1
    <3> QED
      BY <1>4, <2>1, <3>1, <3>2
  <2>2. CASE p # 0
    BY <1>10, <2>2 DEF DoneAt
  <2> QED
    BY <1>10, <2>1, <2>2 DEF DoneAt
<1>15. p >= r \/ 100 * (Cum(s, p) + 1) > q * T
  BY <1>5, <1>6, <1>7, <1>8, <1>14
<1>16. p <= r \/ (r = 0 /\ p = 1)
  <2>1. SUFFICES ASSUME ~(p <= r) PROVE r = 0 /\ p = 1
    OBVIOUS
  <2>2. p # 0 /\ r < p
    BY <1>8, <1>12, <1>14, <2>1
  <2>3. 1 <= p /\ \A b \in Buckets : 1 <= b /\ b < p => Cum(s, b) < target
    BY <1>10, <2>2 DEF DoneAt
  <2>4. r = 0
    <3>1. ~(1 <= r)
      BY <1>7, <1>8, <1>12, <1>13, <2>2, <2>3
    <3> QED
      BY <1>8, <1>12, <3>1
  <2>5. p = 1
    <3>1. SUFFICES ASSUME p # 1 PROVE FALSE
      OBVIOUS
    <3>2. 1 \in Buckets /\ 1 < p /\ 1 \in Buckets \ {0}
      BY <1>4, <1>8, <1>14, <2>3, <3>1
    <3>3. Cum(s, 1) < target
      BY <2>3, <3>2
    <3>4. Cum(s, 1) = Cum(s, 0) + s[1]
      BY <3>2, SumsDef DEF Cum
    <3> QED
      BY <1>7, <1>8, <1>12, <1>13, <2>4, <3>2, <3>3, <3>4
  <2> QED
    BY <2>4, <2>5
<1> QED
  BY <1>1, <1>9, <1>11, <1>15, <1>16

-----------------------------------------------------------------------------
(* The counters and the export.                                            *)
CountInv ==
  /\ MetricsTypeOK
  /\ fuse.at = "idle" => count + turned = Total(counts)
  /\ fuse.at = "body" => count + turned = Total(counts) + 1
  /\ \A b \in Buckets : snap[b] <= counts[b]

(* The snapshot has no more samples than the histogram, which has one for  *)
(* every callback that has left.                                           *)
LEMMA CountInvSamples == CountInv => OneSamplePerCall
<1> SUFFICES ASSUME CountInv PROVE OneSamplePerCall
  OBVIOUS
<1>1. /\ snap \in [Buckets -> Nat] /\ counts \in [Buckets -> Nat]
      /\ fuse.at \in {"idle", "body"} /\ count \in Nat /\ turned \in Nat
  BY DEF CountInv, MetricsTypeOK
<1>2. Total(snap) <= Total(counts)
  BY <1>1, TotalMonotone DEF CountInv
<1>3. Total(snap) \in Nat /\ Total(counts) \in Nat
  BY <1>1, TotalNat
<1>4. Total(counts) + UnderWay = count + turned
  BY <1>1, <1>3 DEF CountInv, UnderWay
<1>5. Total(counts) <= count + turned
  BY <1>1, <1>3, <1>4 DEF UnderWay
<1>6. Total(snap) <= count + turned
  BY <1>1, <1>2, <1>3, <1>5
<1> QED
  BY <1>4, <1>6 DEF OneSamplePerCall

(* The percentiles are a matter of the snapshot alone.                     *)
LEMMA CountInvPercentile == CountInv => PercentileClose
BY PercentileLemma DEF CountInv, MetricsTypeOK, PercentileClose

(* The counters and buckets start at zero.                                 *)
LEMMA InitCount == MetricsInit => CountInv
<1> SUFFICES ASSUME MetricsInit PROVE CountInv
  OBVIOUS
<1>1. Zero(Buckets) \in [Buckets -> Nat] /\ Asleep \in Asleep..HISTO_BUCKETS
  BY BucketFacts DEF Zero, Asleep
<1>2. MetricsTypeOK
  BY <1>1 DEF MetricsInit, MetricsTypeOK, Idle
<1>3. fuse.at = "idle" /\ count = 0 /\ turned = 0
  BY DEF MetricsInit, Idle
<1>4. \A b \in Buckets : snap[b] <= counts[b]
  BY DEF MetricsInit, Zero
<1> QED
  BY <1>2, <1>3, <1>4, TotalZero DEF MetricsInit, CountInv

(* A callback goes into one of the buckets.                                *)
LEMMA BucketInRange == ASSUME NEW us \in Durations PROVE Bucket(us) \in Buckets
<1> DEFINE fits == {i \in 1..Len(HISTO_THRESHOLDS) : us <= HISTO_THRESHOLDS[i]}
<1>1. Len(HISTO_THRESHOLDS) \in Nat
  BY ThresholdsAssumption
<1>2. CASE fits = {}
  BY <1>2, BucketFacts DEF Bucket
<1>3. CASE fits # {}
  <2>1. fits \subseteq Nat /\ fits \subseteq 1..Len(HISTO_THRESHOLDS)
    OBVIOUS
  <2>2. \E x \in fits : \A y \in fits : x <= y
    BY <1>3, <2>1, Least
  <2>3. Min(fits) \in fits
    BY <2>2 DEF Min
  <2>4. Bucket(us) = Min(fits) - 1
    BY <1>3 DEF Bucket
  <2> QED
    BY <1>1, <2>1, <2>3, <2>4 DEF Buckets, HISTO_BUCKETS
<1> QED
  BY <1>2, <1>3

(* The preamble counts the callback.                                       *)
LEMMA EnterCount == ASSUME CountInv, NEW op \in Op, Enter(op) PROVE CountInv'
<1>1. MetricsTypeOK'
  BY DEF CountInv, MetricsTypeOK, Enter, exportVars
<1>2. /\ fuse.at = "idle" /\ fuse'.at = "body" /\ count' = count + 1
      /\ UNCHANGED <<turned, untimed, counts, export, ops, snap>>
  BY DEF Enter, Idle, exportVars
<1>3. count \in Nat /\ turned \in Nat /\ Total(counts) \in Nat
  BY TotalNat DEF CountInv, MetricsTypeOK
<1> QED
  BY <1>1, <1>2, <1>3 DEF CountInv

(* The guard records one sample, and no bucket that was read shrinks.      *)
LEMMA RecordCount ==
  ASSUME CountInv, Record
  PROVE  /\ counts' \in [Buckets -> Nat] /\ Total(counts') = Total(counts) + 1
         /\ \A b \in Buckets : snap[b] <= counts'[b]
<1>1. PICK us \in Durations : counts' = [counts EXCEPT ![Bucket(us)] = @ + 1]
  BY DEF Record
<1>2. PICK c \in Buckets : c = Bucket(us)
  BY BucketInRange
<1>3. counts \in [Buckets -> Nat] /\ snap \in [Buckets -> Nat]
  BY DEF CountInv, MetricsTypeOK
<1>4. /\ counts' \in [Buckets -> Nat]
      /\ \A b \in Buckets : counts'[b] = IF b = c THEN counts[b] + 1 ELSE counts[b]
  BY <1>1, <1>2, <1>3
<1>5. Total(counts') = Total(counts) + 1
  BY <1>3, <1>4, TotalPlusOne
<1>6. \A b \in Buckets : snap[b] <= counts[b]
  BY DEF CountInv
<1>7. ASSUME NEW b \in Buckets PROVE snap[b] <= counts'[b]
  BY <1>3, <1>4, <1>6
<1> QED
  BY <1>4, <1>5, <1>7

LEMMA LeaveCount == ASSUME CountInv, NEW ok, Leave(ok) PROVE CountInv'
<1>1. /\ fuse.at = "body" /\ fuse'.at = "idle" /\ fuse' = Idle
      /\ UNCHANGED <<count, turned, untimed, export, ops, snap>> /\ Record
  BY DEF Leave, Idle, exportVars
<1>2. /\ counts' \in [Buckets -> Nat] /\ Total(counts') = Total(counts) + 1
      /\ \A b \in Buckets : snap[b] <= counts'[b]
  BY <1>1, RecordCount
<1>3. MetricsTypeOK'
  BY <1>1, <1>2 DEF CountInv, MetricsTypeOK, Idle
<1> QED
  BY <1>1, <1>2, <1>3 DEF CountInv

LEMMA TurnAwayCount == ASSUME CountInv, TurnAway PROVE CountInv'
<1>1. /\ fuse.at = "idle" /\ fuse' = fuse /\ turned' = turned + 1
      /\ UNCHANGED <<count, untimed, export, ops, snap>> /\ Record
  BY DEF TurnAway, Idle, exportVars
<1>2. /\ counts' \in [Buckets -> Nat] /\ Total(counts') = Total(counts) + 1
      /\ \A b \in Buckets : snap[b] <= counts'[b]
  BY <1>1, RecordCount
<1>3. MetricsTypeOK'
  BY <1>1, <1>2 DEF CountInv, MetricsTypeOK
<1>4. count \in Nat /\ turned \in Nat /\ Total(counts) \in Nat
  BY TotalNat DEF CountInv, MetricsTypeOK
<1> QED
  BY <1>1, <1>2, <1>3, <1>4 DEF CountInv

(* A callback without a guard leaves the counters and the buckets alone.   *)
LEMMA UntimedCount == ASSUME CountInv, Untimed PROVE CountInv'
<1>1. /\ untimed' = untimed + 1
      /\ UNCHANGED <<fuse, count, turned, counts, export, ops, snap>>
  BY DEF Untimed, exportVars
<1>2. MetricsTypeOK'
  BY <1>1 DEF CountInv, MetricsTypeOK
<1> QED
  BY <1>1, <1>2 DEF CountInv

(* Reading changes nothing that is read, and a load, however stale, is of  *)
(* a value the atomic has had.                                             *)
LEMMA ExportCount == ASSUME CountInv, Wake \/ LoadOps \/ LoadBucket \/ Log PROVE CountInv'
<1>0. /\ MetricsTypeOK /\ counts \in [Buckets -> Nat] /\ snap \in [Buckets -> Nat]
      /\ count \in Nat /\ ops \in Nat
  BY DEF CountInv, MetricsTypeOK
<1>1. CASE Wake \/ Log
  <2>1. /\ UNCHANGED <<fuse, count, turned, untimed, counts, ops, snap>>
        /\ export' \in Asleep..HISTO_BUCKETS
    BY <1>1, BucketFacts DEF Wake, Log, Asleep, LoadingOps
  <2>2. MetricsTypeOK'
    BY <1>0, <2>1 DEF MetricsTypeOK
  <2> QED
    BY <2>1, <2>2 DEF CountInv
<1>2. CASE LoadOps
  <2>1. /\ UNCHANGED <<fuse, count, turned, untimed, counts, snap>>
        /\ export' \in Asleep..HISTO_BUCKETS /\ ops' \in Nat
    BY <1>0, <1>2, BucketFacts DEF LoadOps, Asleep
  <2>2. MetricsTypeOK'
    BY <1>0, <2>1 DEF MetricsTypeOK
  <2> QED
    BY <2>1, <2>2 DEF CountInv
<1>3. CASE LoadBucket
  <2>1. PICK n \in snap[export]..counts[export] : snap' = [snap EXCEPT ![export] = n]
    BY <1>3 DEF LoadBucket
  <2>2. export \in Buckets /\ export' = export + 1
        /\ UNCHANGED <<fuse, count, turned, untimed, counts, ops>>
    BY <1>3 DEF LoadBucket
  <2>3. snap[export] \in Nat /\ counts[export] \in Nat
    BY <1>0, <2>2
  <2>4. n \in Nat /\ n <= counts[export]
    BY <2>3
  <2>5. snap' \in [Buckets -> Nat]
    BY <1>0, <2>1, <2>2, <2>4
  <2>6. ASSUME NEW b \in Buckets PROVE snap'[b] <= counts[b]
    <3>1. snap[b] <= counts[b]
      BY DEF CountInv
    <3> QED
      BY <1>0, <2>1, <2>2, <2>4, <3>1
  <2>7. export' \in Asleep..HISTO_BUCKETS
    BY <2>2, BucketFacts DEF Asleep
  <2>8. MetricsTypeOK'
    BY <1>0, <2>2, <2>5, <2>7 DEF MetricsTypeOK
  <2> QED
    BY <2>2, <2>6, <2>8 DEF CountInv
<1> QED
  BY <1>1, <1>2, <1>3

-----------------------------------------------------------------------------
(* The FUSE thread, the kernel and the export thread together.             *)
SInv == ScanInv /\ CountInv

(* Both invariants hold at mount,                                          *)
LEMMA InitService == Init => SInv
BY InitScan, InitCount DEF Init, SInv

(* and a step that leaves the variables of one alone keeps it.             *)
LEMMA KeepScan == ASSUME ScanInv, UNCHANGED dirVars PROVE ScanInv'
<1>1. Due' = Due /\ DirTypeOK'
  BY DEF dirVars, Due, ScanInv, DirTypeOK
<1> QED
  BY <1>1 DEF ScanInv, dirVars

LEMMA KeepCount == ASSUME CountInv, UNCHANGED metricsVars PROVE CountInv'
<1>1. MetricsTypeOK'
  BY DEF metricsVars, exportVars, CountInv, MetricsTypeOK
<1> QED
  BY <1>1 DEF CountInv, metricsVars, exportVars

(* Every callback, the kernel's rewind and every step of the export thread *)
(* keep it.                                                                *)
LEMMA StepService == SInv /\ [Next]_vars => SInv'
<1> SUFFICES ASSUME ScanInv, CountInv, [Next]_vars PROVE ScanInv' /\ CountInv'
  BY DEF SInv
<1>1. CASE Call
  <2>1. CASE TurnAway
    BY <1>1, <2>1, KeepScan, TurnAwayCount DEF Call
  <2>2. CASE \E op \in Op : Enter(op)
    BY <1>1, <2>2, KeepScan, EnterCount DEF Call
  <2>3. CASE Untimed
    BY <1>1, <2>3, KeepScan, UntimedCount DEF Call
  <2> QED
    BY <1>1, <2>1, <2>2, <2>3 DEF Call
<1>2. CASE ReadPage
  <2>1. CountInv'
    BY <1>2, LeaveCount DEF ReadPage
  <2>2. CASE scanning /\ offset < Entries /\ \E end \in Ends : Page(end, end)
    BY <2>1, <2>2, PageScan
  <2>3. CASE NoScan /\ UNCHANGED children
    BY <2>1, <2>3, NoScanScan
  <2> QED
    BY <1>2, <2>2, <2>3 DEF ReadPage, readdir
<1>3. CASE Create
  BY <1>3, InsertScan, LeaveCount DEF Create
<1>4. CASE Unlink
  BY <1>4, DeleteScan, LeaveCount DEF Unlink
<1>5. CASE Error
  BY <1>5, KeepScan, LeaveCount DEF Error
<1>6. CASE Kernel
  BY <1>6, RewindScan, KeepCount DEF Kernel
<1>7. CASE Export
  BY <1>7, KeepScan, ExportCount DEF Export
<1>8. CASE UNCHANGED vars
  BY <1>8, KeepScan, KeepCount DEF vars
<1> QED
  BY <1>1, <1>2, <1>3, <1>4, <1>5, <1>6, <1>7, <1>8 DEF Next

LEMMA AlwaysService == Spec => []SInv
BY InitService, StepService, PTL DEF Spec

(* A scan's offset stays within the listing's length, and the histogram    *)
(* records every callback in one of its buckets (readdir, record).         *)
THEOREM TypeCorrect == Spec => []TypeOK
<1>1. SInv => TypeOK
  BY DEF SInv, ScanInv, CountInv, TypeOK
<1> QED
  BY <1>1, AlwaysService, PTL

(* A scan misses at most one name for every name removed while it runs:    *)
(* without removals it misses none, however its pages fall (readdir's      *)
(* skip(offset) over a list that every page reads anew).                   *)
THEOREM ScanTheorem == Spec => []ScanComplete
<1>1. SInv => ScanComplete
  BY ScanInvComplete DEF SInv
<1> QED
  BY <1>1, AlwaysService, PTL

(* A scan returns at most one name again for every name that is added      *)
(* while it runs (the same skip).                                          *)
THEOREM RepeatsTheorem == Spec => []RepeatsBounded
<1>1. SInv => RepeatsBounded
  BY ScanInvRepeats DEF SInv
<1> QED
  BY <1>1, AlwaysService, PTL

(* Whatever the samples are, a logged percentile names the bucket of the   *)
(* true one, up to the rounding of its target and the doubled meaning of   *)
(* bucket 0 (Histogram::summary).                                          *)
THEOREM PercentileTheorem == Spec => []PercentileClose
<1>1. SInv => PercentileClose
  BY CountInvPercentile DEF SInv
<1> QED
  BY <1>1, AlwaysService, PTL

(* Every timed callback leaves one sample, by whatever path it leaves, and *)
(* no export shows more samples than there were callbacks, in whatever     *)
(* order and however late its relaxed loads see them (FuseLatencyGuard,    *)
(* record, snapshot).                                                      *)
THEOREM SamplesTheorem == Spec => []OneSamplePerCall
<1>1. SInv => OneSamplePerCall
  BY CountInvSamples DEF SInv
<1> QED
  BY <1>1, AlwaysService, PTL
=============================================================================
