----------------------- MODULE CoinsAndScriptsProofs -----------------------
(***************************************************************************)
(* Proofs about five of the small parts: the sweep of a legacy wallet, the *)
(* wallet's questions to outside services, the selection of coins, the     *)
(* proofs that a transaction is in a block, and an output that m of n keys *)
(* can spend.                                                              *)
(***************************************************************************)
EXTENDS MCCoinsAndScripts, FiniteSetTheorems, SequenceTheorems, WellFoundedInduction,
        NaturalsInduction, TLAPS

-----------------------------------------------------------------------------
(* Legacy sweep: the scan *)

LEMMA SameCardinality ==
  /\ \A S : LS!Cardinality(S) = Cardinality(S)
  /\ \A S : LS!IsFiniteSet(S) <=> IsFiniteSet(S)
BY DEF LS!Cardinality, Cardinality, LS!IsFiniteSet, IsFiniteSet

\* Nothing is in reach behind a gap that is over.
LEMMA NothingBehind ==
  ASSUME NEW c, NEW i \in Nat, NEW now \in Int, now >= -1, i - now >= GAP_LIMIT,
         \A k \in now + 1..i : coins[<<c, k>>] = 0,
         NEW k \in Nat, k > i
  PROVE  ~LS!InReach(c, k)
<1> USE SweepAssumption DEF SweepAssumption
<1>1. now + 1 \in 0..k - GAP_LIMIT
  OBVIOUS
<1>2. LS!Gap(c, now + 1)
  BY DEF LS!Gap
<1> QED
  BY <1>1, <1>2 DEF LS!InReach, LS!NoGap

\* While the last coin is near enough, the addresses so far end no gap.
LEMMA NoGapYet ==
  ASSUME NEW c, NEW i \in Nat, LS!NoGap(c, i), NEW now \in Int, now >= -1, now <= i,
         i - now < GAP_LIMIT, now # -1 => coins[<<c, now>>] # 0
  PROVE  LS!NoGap(c, i + 1)
<1> USE SweepAssumption DEF SweepAssumption
<1> SUFFICES ASSUME NEW j \in 0..i + 1 - GAP_LIMIT
             PROVE  ~LS!Gap(c, j)
  BY DEF LS!NoGap
<1>1. CASE j <= i - GAP_LIMIT
  BY <1>1 DEF LS!NoGap
<1>2. CASE j = i + 1 - GAP_LIMIT
  <2>1. now \in j..j + GAP_LIMIT - 1 /\ coins[<<c, now>>] # 0
    BY <1>2
  <2> QED
    BY <2>1 DEF LS!Gap
<1> QED
  BY <1>1, <1>2

\* The coins in reach on the branches before c, and below i on c.
FoundBelow(c, i) ==
  {a \in LS!Addresses : LS!InReach(a[1], a[2]) /\ (a[1] < c \/ (a[1] = c /\ a[2] < i))}

LEMMA OneFurther ==
  ASSUME NEW c \in 0..1, NEW i \in Nat, i < MAX_SCAN_ADDRESSES
  PROVE  FoundBelow(c, i + 1)
           = FoundBelow(c, i) \cup (IF LS!InReach(c, i) THEN {<<c, i>>} ELSE {})
<1> USE SweepAssumption DEF SweepAssumption
<1>1. ASSUME NEW a \in LS!Addresses
      PROVE  a[1] < c \/ (a[1] = c /\ a[2] < i + 1)
               <=> a[1] < c \/ (a[1] = c /\ a[2] < i) \/ a = <<c, i>>
  BY DEF LS!Addresses
<1>2. <<c, i>> \in LS!Addresses
  BY DEF LS!Addresses
<1>3. <<c, i>>[1] = c /\ <<c, i>>[2] = i
  OBVIOUS
<1> QED
  BY <1>1, <1>2, <1>3 DEF FoundBelow

\* Behind the last address of a branch there is the next one, or nothing.
LEMMA NextBranch ==
  ASSUME NEW c \in 0..1, NEW i \in Nat,
         \A k \in Nat : k > i /\ k < MAX_SCAN_ADDRESSES => ~LS!InReach(c, k)
  PROVE  /\ FoundBelow(c, i + 1) = FoundBelow(c + 1, 0)
         /\ c = 1 => FoundBelow(c, i + 1) = {a \in LS!Addresses : LS!InReach(a[1], a[2])}
<1> USE SweepAssumption DEF SweepAssumption
<1>1. ASSUME NEW a \in LS!Addresses, LS!InReach(a[1], a[2])
      PROVE  /\ a[1] < c \/ (a[1] = c /\ a[2] < i + 1)
                  <=> a[1] < c + 1 \/ (a[1] = c + 1 /\ a[2] < 0)
             /\ c = 1 => (a[1] < c \/ (a[1] = c /\ a[2] < i + 1))
  <2>1. a[1] \in 0..1 /\ a[2] \in Nat /\ a[2] < MAX_SCAN_ADDRESSES
    BY DEF LS!Addresses
  <2>2. a[1] = c => ~(a[2] > i)
    BY <1>1, <2>1
  <2> QED
    BY <2>1, <2>2
<1> QED
  BY <1>1 DEF FoundBelow

LEMMA RangeOfAppend ==
  ASSUME NEW S, NEW s \in Seq(S), NEW x \in S
  PROVE  LS!Range(Append(s, x)) = LS!Range(s) \cup {x}
<1> DEFINE n == Len(s)  more == Append(s, x)
<1>1. /\ n \in Nat /\ DOMAIN s = 1..n /\ DOMAIN more = 1..(n + 1)
      /\ more[n + 1] = x /\ \A i \in 1..n : more[i] = s[i]
  OBVIOUS
<1> HIDE DEF n, more
<1>2. LS!Range(more) = {more[i] : i \in 1..(n + 1)} /\ LS!Range(s) = {s[i] : i \in 1..n}
  BY <1>1 DEF LS!Range
<1>3. 1..(n + 1) = 1..n \cup {n + 1}
  BY <1>1
<1> QED
  BY <1>1, <1>2, <1>3 DEF more

\* The reach of a branch is of the chain only.
LEMMA SameReach ==
  ASSUME UNCHANGED coins
  PROVE  /\ \A c, i : LS!NoGap(c, i)' <=> LS!NoGap(c, i)
         /\ \A c, i : FoundBelow(c, i)' = FoundBelow(c, i)
         /\ {a \in LS!Addresses : LS!InReach(a[1], a[2])'} = {a \in LS!Addresses : LS!InReach(a[1], a[2])}
<1>1. \A c, i : LS!NoGap(c, i)' <=> LS!NoGap(c, i)
  <2>1. \A c, i : LS!Gap(c, i)' <=> LS!Gap(c, i)
    BY DEF LS!Gap
  <2> QED
    BY <2>1 DEF LS!NoGap
<1>2. \A c, i : LS!InReach(c, i)' <=> LS!InReach(c, i)
  BY <1>1 DEF LS!InReach
<1> QED
  BY <1>1, <1>2 DEF FoundBelow

\* What has been found halfway through a scan.
Scanned ==
  /\ LS!Range(found) = FoundBelow(change, index)
  /\ IsFiniteSet(LS!Range(found)) /\ Cardinality(LS!Range(found)) = Len(found)

Scanning ==
  pc = "scan" /\ ~failed =>
    /\ Scanned /\ LS!NoGap(change, index)
    /\ last # -1 => coins[<<change, last>>] # 0
    /\ \A k \in last + 1..index - 1 : coins[<<change, k>>] = 0
    /\ index - last <= GAP_LIMIT

LEMMA ScanSaid == LS!ScanInv <=> Scanning
BY SameCardinality DEF LS!ScanInv, Scanning, Scanned, FoundBelow

LEMMA ScanTypes ==
  ASSUME LS!TypeOK, UNCHANGED <<coins, active, restored, dest, paid, user>>,
         found' \in Seq(LS!Addresses), change' \in 0..2,
         index' \in 0..MAX_SCAN_ADDRESSES, last' \in -1..MAX_SCAN_ADDRESSES
  PROVE  LS!TypeOK'
BY DEF LS!TypeOK

\* A query that was answered, and what the scan has then.
LEMMA SweepQuery ==
  ASSUME LS!IInv, NEW ok \in BOOLEAN, LS!Query(ok)
  PROVE  LS!IInv'
<1> USE SweepAssumption DEF SweepAssumption
<1> DEFINE a == <<change, index>>
           hit == ok /\ coins[a] # 0
           now == IF hit THEN index ELSE last
           over == LS!GapOver(index, now) \/ index + 1 >= MAX_SCAN_ADDRESSES
<1>1. /\ pc = "scan" /\ change \in 0..1 /\ index \in Nat /\ index < MAX_SCAN_ADDRESSES
      /\ last \in Int /\ last >= -1 /\ last < index /\ a \in LS!Addresses
      /\ found \in Seq(LS!Addresses)
  BY DEF LS!IInv, LS!TypeOK, LS!PlaceInv, LS!Query, LS!Addresses
<1>2. /\ failed' = (failed \/ ~ok)
      /\ found' = IF hit THEN Append(found, a) ELSE found
      /\ change' = IF over THEN change + 1 ELSE change
      /\ index' = IF over THEN 0 ELSE index + 1
      /\ last' = IF over THEN -1 ELSE now
      /\ pc' = IF over /\ change = 1 THEN "scanned" ELSE "scan"
      /\ UNCHANGED <<coins, active, restored, imports, dest, paid, outcome, user, meddled>>
  BY DEF LS!Query, LS!session, LS!past
<1>3. /\ now \in Int /\ now >= -1 /\ now <= index
      /\ over <=> index - now >= GAP_LIMIT \/ index + 1 >= MAX_SCAN_ADDRESSES
      /\ now = IF hit THEN index ELSE last
  BY <1>1 DEF LS!GapOver
<1> HIDE DEF over, now
<1>4. found' \in Seq(LS!Addresses)
  BY <1>1, <1>2
<1>5. LS!TypeOK'
  <2>1. change' \in 0..2 /\ index' \in 0..MAX_SCAN_ADDRESSES /\ last' \in -1..MAX_SCAN_ADDRESSES
    <3>1. CASE over
      BY <1>1, <1>2, <3>1
    <3>2. CASE ~over
      BY <1>1, <1>2, <1>3, <3>2
    <3> QED
      BY <3>1, <3>2
  <2>2. UNCHANGED <<coins, active, restored, dest, paid, user>>
    BY <1>2
  <2>3. LS!TypeOK
    BY DEF LS!IInv
  <2> QED
    BY <1>4, <2>1, <2>2, <2>3, ScanTypes
<1>6. LS!PlaceInv'
  <2>1. /\ pc' \in {"scan", "scanned"}
        /\ pc' = "scan" => change' \in 0..1 /\ index' < MAX_SCAN_ADDRESSES /\ last' < index'
    <3>1. CASE over
      BY <1>1, <1>2, <3>1
    <3>2. CASE ~over
      BY <1>1, <1>2, <1>3, <3>2
    <3> QED
      BY <3>1, <3>2
  <2>2. restored' /\ outcome' = "none" /\ restored' \in BOOLEAN
    BY <1>1, <1>2 DEF LS!IInv, LS!PlaceInv
  <2> QED
    BY <2>1, <2>2 DEF LS!PlaceInv
<1>7. LS!UndisturbedInv' /\ LS!SweepIsWhole' /\ LS!IntoNewWallet'
  BY <1>1, <1>2 DEF LS!IInv, LS!PlaceInv, LS!UndisturbedInv, LS!SweepIsWhole, LS!IntoNewWallet
<1>8. LS!ScanInv' <=> Scanning'
  BY ScanSaid, PTL
<1>9. ASSUME ~failed'
      PROVE  LS!ScanInv' /\ LS!ScanMissesNothing'
  <2>1. /\ ok /\ ~failed
        /\ Scanned /\ LS!NoGap(change, index)
        /\ last # -1 => coins[<<change, last>>] # 0
        /\ \A k \in last + 1..index - 1 : coins[<<change, k>>] = 0
    BY <1>1, <1>2, <1>9, ScanSaid DEF LS!IInv, Scanning
  <2>2. /\ now # -1 => coins[<<change, now>>] # 0
        /\ \A k \in now + 1..index : coins[<<change, k>>] = 0
    <3>1. CASE hit
      BY <1>1, <1>3, <3>1
    <3>2. CASE ~hit
      <4>1. coins[<<change, index>>] = 0
        BY <2>1, <3>2
      <4> QED
        BY <1>1, <1>3, <2>1, <3>2, <4>1, SMTT(30)
    <3> QED
      BY <3>1, <3>2
  <2>3. hit <=> LS!InReach(change, index)
    BY <2>1 DEF LS!InReach
  <2>4. /\ LS!Range(found') = FoundBelow(change, index + 1)
        /\ IsFiniteSet(LS!Range(found')) /\ Cardinality(LS!Range(found')) = Len(found')
    <3>1. FoundBelow(change, index + 1) = FoundBelow(change, index) \cup (IF hit THEN {a} ELSE {})
      BY <1>1, <2>3, OneFurther
    <3>2. a \notin LS!Range(found)
      BY <1>1, <2>1 DEF FoundBelow, Scanned
    <3>3. CASE hit
      <4>1. found' = Append(found, a) /\ LS!Range(found') = LS!Range(found) \cup {a}
        BY <1>1, <1>2, <3>3, RangeOfAppend, ZenonT(60)
      <4>2. /\ IsFiniteSet(LS!Range(found) \cup {a})
            /\ Cardinality(LS!Range(found) \cup {a}) = Cardinality(LS!Range(found)) + 1
        BY <2>1, <3>2, FS_AddElement DEF Scanned
      <4>3. Len(found') = Len(found) + 1
        BY <1>1, <4>1
      <4> QED
        BY <2>1, <3>1, <3>3, <4>1, <4>2, <4>3 DEF Scanned
    <3>4. CASE ~hit
      <4>1. found' = found
        BY <1>2, <3>4
      <4> QED
        BY <2>1, <3>1, <3>4, <4>1 DEF Scanned
    <3> QED
      BY <3>3, <3>4
  <2>5. UNCHANGED coins
    BY <1>2
  <2>6. CASE ~over
    <3>1. LS!NoGap(change, index + 1)
      BY <1>1, <1>3, <2>1, <2>2, <2>6, NoGapYet
    <3>2. /\ change' = change /\ index' = index + 1 /\ last' = now /\ pc' = "scan"
          /\ index' - last' <= GAP_LIMIT
      BY <1>1, <1>2, <1>3, <2>6
    <3>3. \A k \in last' + 1..index' - 1 : coins[<<change', k>>] = 0
      <4>1. last' + 1..index' - 1 = now + 1..index
        BY <1>1, <3>2
      <4> QED
        BY <2>2, <3>2, <4>1
    <3>4. Scanned'
      BY <2>4, <2>5, <3>2, SameReach DEF Scanned
    <3>5. LS!NoGap(change, index)'
      BY <2>5, <3>1, <3>2, SameReach
    <3> QED
      BY <1>8, <2>2, <2>5, <3>2, <3>3, <3>4, <3>5 DEF LS!ScanMissesNothing, Scanning
  <2>7. CASE over
    <3>1. \A k \in Nat : k > index /\ k < MAX_SCAN_ADDRESSES => ~LS!InReach(change, k)
      <4>1. CASE index + 1 >= MAX_SCAN_ADDRESSES
        BY <1>1, <4>1
      <4>2. CASE index - now >= GAP_LIMIT
        BY <1>1, <1>3, <2>2, <4>2, NothingBehind
      <4> QED
        BY <1>3, <2>7, <4>1, <4>2
    <3>2. /\ FoundBelow(change, index + 1) = FoundBelow(change + 1, 0)
          /\ change = 1 => FoundBelow(change, index + 1) = {b \in LS!Addresses : LS!InReach(b[1], b[2])}
      BY <1>1, <3>1, NextBranch
    <3>3. CASE change = 0
      <4>1. change' = 1 /\ index' = 0 /\ last' = -1 /\ pc' = "scan"
        BY <1>2, <2>7, <3>3
      <4>2. LS!NoGap(change, index)'
        BY <4>1 DEF LS!NoGap
      <4>3. Scanned'
        BY <2>4, <2>5, <3>2, <3>3, <4>1, SameReach DEF Scanned
      <4>4. last' + 1..index' - 1 = {} /\ index' - last' <= GAP_LIMIT
        BY <4>1
      <4> QED
        BY <1>8, <4>1, <4>2, <4>3, <4>4 DEF LS!ScanMissesNothing, Scanning
    <3>4. CASE change = 1
      <4>1. pc' = "scanned"
        BY <1>2, <2>7, <3>4
      <4> QED
        BY <2>4, <2>5, <3>2, <3>4, <4>1, SameReach, SameCardinality, <1>8 DEF LS!ScanMissesNothing, Scanning
    <3> QED
      BY <1>1, <3>3, <3>4
  <2> QED
    BY <2>6, <2>7
<1>10. ASSUME failed'
      PROVE  LS!ScanInv' /\ LS!ScanMissesNothing'
  BY <1>10 DEF LS!ScanInv, LS!ScanMissesNothing
<1> QED
  BY <1>5, <1>6, <1>7, <1>9, <1>10 DEF LS!IInv

-----------------------------------------------------------------------------
(* Legacy sweep: the rest of it *)

LEMMA SweepInit == ASSUME LS!Init PROVE LS!IInv
<1> USE SweepAssumption DEF SweepAssumption
<1>1. coins \in [LS!Addresses -> Amounts \cup {0}]
  <2>1. PICK held \in UNION {LS!kSubset(n, LS!Addresses) : n \in 0..MaxSwept} :
          \E worth \in [held -> Amounts] :
            coins = [a \in LS!Addresses |-> IF a \in held THEN worth[a] ELSE 0]
    BY DEF LS!Init
  <2> QED
    BY <2>1
<1>2. LS!TypeOK
  BY <1>1 DEF LS!Init, LS!TypeOK, LS!NoWallet, LS!NotPaid
<1>3. LS!PlaceInv /\ LS!ScanInv /\ LS!UndisturbedInv
  BY DEF LS!Init, LS!PlaceInv, LS!ScanInv, LS!UndisturbedInv
<1> QED
  BY <1>2, <1>3 DEF LS!Init, LS!IInv, LS!ScanMissesNothing, LS!SweepIsWhole, LS!IntoNewWallet

\* A call that comes back leaves nothing in hand.
LEMMA SweepEnds ==
  ASSUME LS!IInv, NEW how, LS!End(how), how # "swept", how # "restored" \/ imports' = {"new"} \/ meddled,
         coins' \in [LS!Addresses -> Amounts \cup {0}],
         active' \in [wallet : {"none", "new", "other"}, unlocked : BOOLEAN],
         active'.wallet = "new" => restored, restored, imports' = imports \/ how = "restored",
         UNCHANGED <<restored, paid, user, meddled>>
  PROVE  LS!IInv'
<1> USE SweepAssumption DEF SweepAssumption
<1>1. LS!TypeOK'
  BY DEF LS!IInv, LS!TypeOK, LS!End
<1>2. LS!PlaceInv' /\ LS!ScanInv' /\ LS!UndisturbedInv'
  BY DEF LS!IInv, LS!PlaceInv, LS!ScanInv, LS!UndisturbedInv, LS!End
<1> QED
  BY <1>1, <1>2 DEF LS!IInv, LS!ScanMissesNothing, LS!SweepIsWhole, LS!IntoNewWallet, LS!End

LEMMA SweepBegins ==
  ASSUME LS!IInv, LS!Restore \/ LS!Sweep
  PROVE  LS!IInv'
<1> USE SweepAssumption DEF SweepAssumption
<1>1. CASE LS!Restore
  <2>1. LS!TypeOK'
    BY <1>1 DEF LS!IInv, LS!TypeOK, LS!Restore, LS!scan
  <2>2. LS!PlaceInv' /\ LS!ScanInv' /\ LS!UndisturbedInv'
    BY <1>1 DEF LS!IInv, LS!PlaceInv, LS!ScanInv, LS!UndisturbedInv, LS!Restore, LS!scan
  <2> QED
    BY <1>1, <2>1, <2>2
       DEF LS!IInv, LS!ScanMissesNothing, LS!SweepIsWhole, LS!IntoNewWallet, LS!Restore, LS!scan
<1>2. CASE LS!Sweep
  <2>1. LS!TypeOK'
    BY <1>2 DEF LS!IInv, LS!TypeOK, LS!Sweep, LS!scan, LS!session
  <2>2. LS!PlaceInv' /\ LS!UndisturbedInv'
    BY <1>2 DEF LS!IInv, LS!PlaceInv, LS!UndisturbedInv, LS!Sweep, LS!scan, LS!session
  <2>3. LS!ScanInv'
    <3>1. pc' = "scan" /\ found' = <<>> /\ change' = 0 /\ index' = 0 /\ last' = -1 /\ UNCHANGED coins
      BY <1>2 DEF LS!IInv, LS!PlaceInv, LS!Sweep, LS!scan
    <3>2. FoundBelow(0, 0) = {}
      BY DEF FoundBelow, LS!Addresses
    <3>3. LS!Range(found') = {} /\ Len(found') = 0
      BY <3>1 DEF LS!Range
    <3>4. Scanned'
      BY <3>1, <3>2, <3>3, SameReach, FS_EmptySet DEF Scanned
    <3>5. LS!NoGap(change, index)'
      BY <3>1 DEF LS!NoGap
    <3>6. last' + 1..index' - 1 = {} /\ index' - last' <= GAP_LIMIT
      BY <3>1
    <3>7. Scanning'
      BY <3>1, <3>4, <3>5, <3>6 DEF Scanning
    <3> QED
      BY <3>7, ScanSaid, PTL
  <2> QED
    BY <1>2, <2>1, <2>2, <2>3
       DEF LS!IInv, LS!ScanMissesNothing, LS!SweepIsWhole, LS!IntoNewWallet, LS!Sweep, LS!scan, LS!session
<1> QED
  BY <1>1, <1>2

LEMMA SweepImports ==
  ASSUME LS!IInv, LS!Import
  PROVE  LS!IInv'
<1>1. /\ pc = "import" /\ restored /\ imports = {} /\ active.wallet \in {"none", "new", "other"}
      /\ UNCHANGED <<coins, active, restored, paid, user, meddled>>
      /\ coins \in [LS!Addresses -> Amounts \cup {0}]
      /\ active \in [wallet : {"none", "new", "other"}, unlocked : BOOLEAN]
      /\ active.wallet = "new" => restored
      /\ ~meddled => active.wallet = "new"
  BY DEF LS!IInv, LS!TypeOK, LS!PlaceInv, LS!UndisturbedInv, LS!Import
<1>2. CASE active.wallet = "none"
  BY <1>1, <1>2, SweepEnds DEF LS!Import
<1>3. CASE active.wallet # "none"
  <2>1. LS!End("restored") /\ imports' = imports \cup {active.wallet}
    BY <1>3 DEF LS!Import
  <2>2. imports' = {"new"} \/ meddled
    BY <1>1, <2>1
  <2> QED
    BY <1>1, <2>1, <2>2, SweepEnds
<1> QED
  BY <1>2, <1>3

LEMMA SweepGetsReady ==
  ASSUME LS!IInv, LS!Open \/ LS!Unlock \/ LS!Address
  PROVE  LS!IInv'
<1> USE SweepAssumption DEF SweepAssumption
<1>1. /\ pc \in {"scanned", "unlock", "address"} /\ restored /\ outcome = "none"
      /\ coins \in [LS!Addresses -> Amounts \cup {0}]
      /\ active \in [wallet : {"none", "new", "other"}, unlocked : BOOLEAN]
      /\ active.wallet = "new" => restored
      /\ UNCHANGED <<coins, restored, imports, paid, user, meddled>>
  BY DEF LS!IInv, LS!TypeOK, LS!PlaceInv, LS!Open, LS!Unlock, LS!Address, LS!session
<1>2. ASSUME NEW how, LS!End(how), how \notin {"swept", "restored"}, UNCHANGED active
      PROVE  LS!IInv'
  BY <1>1, <1>2, SweepEnds
<1>3. ASSUME UNCHANGED <<change, index, last, found, answered, failed, outcome>>,
             active' \in [wallet : {"none", "new", "other"}, unlocked : BOOLEAN],
             dest' \in {"none", "new", "other"}, pc' \in {"unlock", "address", "build"},
             LS!UndisturbedInv'
      PROVE  LS!IInv'
  <2>1. LS!TypeOK'
    BY <1>1, <1>3 DEF LS!IInv, LS!TypeOK
  <2>2. LS!PlaceInv' /\ LS!ScanInv'
    BY <1>1, <1>3 DEF LS!IInv, LS!PlaceInv, LS!ScanInv
  <2> QED
    BY <1>1, <1>3, <2>1, <2>2
       DEF LS!IInv, LS!ScanMissesNothing, LS!SweepIsWhole, LS!IntoNewWallet
<1>4. CASE LS!Open
  <2>1. CASE LS!End("no answer") /\ UNCHANGED active
    BY <1>2, <2>1
  <2>2. CASE LS!End("nothing to sweep") /\ UNCHANGED active
    BY <1>2, <2>2
  <2>3. CASE /\ active' = LS!OpenNew /\ pc' = "unlock"
             /\ UNCHANGED <<LS!scan, dest, outcome>>
    <3>1. active' \in [wallet : {"none", "new", "other"}, unlocked : BOOLEAN] /\ active'.wallet = "new"
      BY <1>1, <2>3 DEF LS!OpenNew
    <3>2. LS!UndisturbedInv' /\ dest' \in {"none", "new", "other"}
      BY <2>3, <3>1 DEF LS!UndisturbedInv, LS!IInv, LS!TypeOK
    <3> QED
      BY <1>3, <2>3, <3>1, <3>2 DEF LS!scan
  <2> QED
    BY <1>4, <2>1, <2>2, <2>3 DEF LS!Open
<1>5. CASE LS!Unlock
  <2>1. CASE LS!End("no wallet") /\ UNCHANGED active
    BY <1>2, <2>1
  <2>2. CASE LS!End("already unlocked") /\ UNCHANGED active
    BY <1>2, <2>2
  <2>3. CASE /\ active' = [active EXCEPT !.unlocked = TRUE] /\ pc' = "address"
             /\ UNCHANGED <<LS!scan, dest, outcome>>
    <3>1. /\ active' \in [wallet : {"none", "new", "other"}, unlocked : BOOLEAN]
          /\ active'.wallet = active.wallet
      BY <1>1, <2>3
    <3>2. dest' \in {"none", "new", "other"}
      BY <2>3 DEF LS!IInv, LS!TypeOK
    <3>3. ~meddled => active.wallet = "new"
      BY <1>5 DEF LS!UndisturbedInv, LS!IInv, LS!Unlock
    <3>4. LS!UndisturbedInv'
      BY <1>1, <2>3, <3>1, <3>3 DEF LS!UndisturbedInv
    <3> QED
      BY <1>3, <2>3, <3>1, <3>2, <3>4 DEF LS!scan
  <2> QED
    BY <1>5, <2>1, <2>2, <2>3 DEF LS!Unlock
<1>6. CASE LS!Address
  <2>1. CASE LS!End("no wallet") /\ UNCHANGED active
    BY <1>2, <2>1
  <2>2. CASE /\ dest' = active.wallet /\ pc' = "build"
             /\ UNCHANGED <<LS!scan, outcome, active>>
    <3>1. dest' \in {"none", "new", "other"}
      BY <1>1, <2>2
    <3>2. ~meddled => active.wallet = "new"
      BY <1>6 DEF LS!UndisturbedInv, LS!IInv, LS!Address
    <3>3. LS!UndisturbedInv'
      BY <1>1, <2>2, <3>2 DEF LS!UndisturbedInv
    <3> QED
      BY <1>1, <1>3, <2>2, <3>1, <3>3 DEF LS!scan
  <2> QED
    BY <1>6, <2>1, <2>2 DEF LS!Address, LS!session
<1> QED
  BY <1>4, <1>5, <1>6

LEMMA LeastOf ==
  ASSUME NEW S, S \subseteq Nat, S # {}
  PROVE  LS!Min(S) \in S /\ \A y \in S : LS!Min(S) <= y
<1> DEFINE less == {p \in Nat \X Nat : p[1] < p[2]}
<1>1. IsWellFoundedOn(less, Nat)
  BY NatLessThanWellFounded DEF OpToRel
<1>2. PICK x \in S : \A y \in S : <<y, x>> \notin less
  BY <1>1, WFMin
<1>3. \A y \in S : ~(y < x)
  BY <1>2
<1>4. \A y \in S : x <= y
  BY <1>3
<1> QED
  BY <1>4 DEF LS!Min

LEMMA InputsAreASequence ==
  ASSUME LS!Affordable, found \in Seq(LS!Addresses)
  PROVE  Len(LS!Inputs) \in Nat /\ DOMAIN LS!Inputs = 1..Len(LS!Inputs)
<1> DEFINE enough == {n \in 1..Len(found) : LS!Suffices(n)}  last_one == LS!Min(enough)
<1>1. last_one \in Nat
  <2>1. enough \subseteq Nat /\ enough # {}
    BY DEF LS!Affordable
  <2> QED
    BY <2>1, LeastOf
<1> HIDE DEF last_one
<1>2. SubSeq(LS!LargestFirst, 1, last_one) \in Seq({LS!LargestFirst[i] : i \in 1..last_one})
  BY <1>1, SubSeqProperties
<1>3. LS!Inputs = SubSeq(LS!LargestFirst, 1, last_one)
  BY DEF LS!Inputs, last_one
<1> QED
  BY <1>2, <1>3

\* A transaction that is signed throughout and accepted spends all that was found.
LEMMA AllSpent ==
  ASSUME found \in Seq(LS!Addresses), LS!Payable, LS!Signed, LS!Accepted
  PROVE  LS!Range(found) \subseteq LS!Range(LS!Inputs)
<1> DEFINE n == Len(found)  m == Len(LS!Inputs)
<1>1. n \in Nat /\ DOMAIN found = 1..n
  OBVIOUS
<1>2. m \in Nat /\ DOMAIN LS!Inputs = 1..m
  BY InputsAreASequence DEF LS!Payable
<1>3. n <= m
  BY DEF LS!Signed
<1>4. LS!Min({m, n}) = n
  <2>1. {m, n} \subseteq Nat /\ {m, n} # {}
    BY <1>1, <1>2
  <2> HIDE DEF m, n
  <2>2. LS!Min({m, n}) \in {m, n} /\ \A y \in {m, n} : LS!Min({m, n}) <= y
    BY <2>1, LeastOf
  <2> QED
    BY <1>1, <1>2, <1>3, <2>2
<1>5. \A i \in 1..n : LS!Inputs[i] = found[i]
  BY <1>4 DEF LS!Accepted, LS!Valid
<1> QED
  BY <1>1, <1>2, <1>3, <1>5 DEF LS!Range

LEMMA SweepBuild ==
  ASSUME LS!IInv, LS!Build
  PROVE  LS!IInv'
<1> USE SweepAssumption DEF SweepAssumption
<1>1. /\ pc = "build" /\ restored /\ outcome = "none" /\ found \in Seq(LS!Addresses)
      /\ coins \in [LS!Addresses -> Amounts \cup {0}]
      /\ active \in [wallet : {"none", "new", "other"}, unlocked : BOOLEAN]
      /\ active.wallet = "new" => restored
      /\ UNCHANGED <<restored, imports, user, meddled>>
  BY DEF LS!IInv, LS!TypeOK, LS!PlaceInv, LS!Build
<1>2. LS!Spent \in [LS!Addresses -> Amounts \cup {0}]
  BY <1>1 DEF LS!Spent
<1>3. LS!NoWallet \in [wallet : {"none", "new", "other"}, unlocked : BOOLEAN] /\ LS!NoWallet.wallet = "none"
  BY DEF LS!NoWallet
<1>4. ASSUME NEW how, LS!End(how), how \notin {"swept", "restored"}, active' \in {active, LS!NoWallet},
             coins' \in {coins, LS!Spent}, UNCHANGED paid
      PROVE  LS!IInv'
  BY <1>1, <1>2, <1>3, <1>4, SweepEnds
<1>5. ASSUME LS!Payable, LS!Signed, LS!Accepted, coins' = LS!Spent, LS!End("swept"),
             paid' = [amount |-> LS!sweep_amount, to |-> dest, from |-> LS!Range(found)],
             active' = LS!NoWallet
      PROVE  LS!IInv'
  <2>1. LS!TypeOK'
    BY <1>1, <1>2, <1>3, <1>5 DEF LS!IInv, LS!TypeOK, LS!End
  <2>2. LS!PlaceInv' /\ LS!ScanInv' /\ LS!UndisturbedInv'
    BY <1>1, <1>5 DEF LS!IInv, LS!PlaceInv, LS!ScanInv, LS!UndisturbedInv, LS!End
  <2>3. \A b \in paid'.from : coins'[b] = 0
    <3>1. LS!Range(found) \subseteq LS!Range(LS!Inputs)
      BY <1>1, <1>5, AllSpent
    <3>2. LS!Range(found) \subseteq LS!Addresses
      BY <1>1 DEF LS!Range
    <3> QED
      BY <1>5, <3>1, <3>2 DEF LS!Spent
  <2>4. paid'.amount > 0
    BY <1>5 DEF LS!Payable
  <2>5. ~meddled' => paid'.to = "new"
    BY <1>1, <1>5 DEF LS!IInv, LS!UndisturbedInv
  <2> QED
    BY <1>1, <1>5, <2>1, <2>2, <2>3, <2>4, <2>5
       DEF LS!IInv, LS!ScanMissesNothing, LS!SweepIsWhole, LS!IntoNewWallet, LS!End
<1>6. CASE ~LS!Payable /\ active' = (IF LS!Affordable THEN LS!NoWallet ELSE active)
           /\ LS!End("insufficient funds") /\ UNCHANGED <<coins, paid>>
  BY <1>4, <1>6
<1>7. CASE LS!End("cannot sign") /\ UNCHANGED <<coins, active, paid>>
  BY <1>4, <1>7
<1>8. CASE coins' \in {coins, LS!Spent} /\ LS!End("broadcast failed") /\ UNCHANGED <<active, paid>>
  BY <1>4, <1>8
<1> QED
  BY <1>5, <1>6, <1>7, <1>8 DEF LS!Build

LEMMA SweepUser ==
  ASSUME LS!IInv, LS!User
  PROVE  LS!IInv'
<1> USE SweepAssumption DEF SweepAssumption
<1>1. /\ user' = user + 1 /\ user < MaxUser /\ meddled' = (meddled \/ pc # "idle")
      /\ UNCHANGED <<coins, restored, imports, pc, change, index, last, found, answered, failed,
                     dest, paid, outcome>>
  BY DEF LS!User, LS!scan
<1>2. /\ active' \in [wallet : {"none", "new", "other"}, unlocked : BOOLEAN]
      /\ active'.wallet = "new" => restored
  <2> DEFINE Sessions == [wallet : {"none", "new", "other"}, unlocked : BOOLEAN]
  <2>1. active \in Sessions /\ (active.wallet = "new" => restored)
    BY DEF LS!IInv, LS!TypeOK
  <2>2. CASE active' = LS!NoWallet
    BY <2>2 DEF LS!NoWallet
  <2>3. CASE active' = [wallet |-> "other", unlocked |-> FALSE]
    BY <2>3
  <2>4. CASE restored /\ active' = LS!OpenNew
    BY <2>1, <2>4 DEF LS!OpenNew
  <2>5. CASE active' = [active EXCEPT !.unlocked = TRUE]
    BY <2>1, <2>5
  <2> QED
    BY <2>2, <2>3, <2>4, <2>5 DEF LS!User
<1>3. LS!TypeOK'
  BY <1>1, <1>2 DEF LS!IInv, LS!TypeOK
<1>4. LS!PlaceInv' /\ LS!UndisturbedInv' /\ LS!SweepIsWhole' /\ LS!IntoNewWallet'
  BY <1>1 DEF LS!IInv, LS!PlaceInv, LS!UndisturbedInv, LS!SweepIsWhole, LS!IntoNewWallet
<1>5. LS!ScanInv'
  <2>1. Scanning
    BY ScanSaid DEF LS!IInv
  <2>2. Scanning'
    BY <1>1, <2>1, SameReach DEF Scanning, Scanned
  <2> QED
    BY <2>2, ScanSaid, PTL
<1>6. LS!ScanMissesNothing'
  BY <1>1, SameReach, SameCardinality DEF LS!IInv, LS!ScanMissesNothing
<1> QED
  BY <1>3, <1>4, <1>5, <1>6 DEF LS!IInv

LEMMA SweepUnchanged ==
  ASSUME LS!IInv, UNCHANGED LS!vars
  PROVE  LS!IInv'
<1>1. UNCHANGED <<coins, active, restored, imports, pc, change, index, last, found, answered,
                  failed, dest, paid, outcome, user, meddled>>
  BY DEF LS!vars, LS!session, LS!scan, LS!past
<1>2. LS!TypeOK' /\ LS!PlaceInv' /\ LS!UndisturbedInv' /\ LS!SweepIsWhole' /\ LS!IntoNewWallet'
  BY <1>1 DEF LS!IInv, LS!TypeOK, LS!PlaceInv, LS!UndisturbedInv, LS!SweepIsWhole, LS!IntoNewWallet
<1>3. LS!ScanInv'
  <2>1. Scanning
    BY ScanSaid DEF LS!IInv
  <2>2. Scanning'
    BY <1>1, <2>1, SameReach DEF Scanning, Scanned
  <2> QED
    BY <2>2, ScanSaid, PTL
<1>4. LS!ScanMissesNothing'
  BY <1>1, SameReach, SameCardinality DEF LS!IInv, LS!ScanMissesNothing
<1> QED
  BY <1>2, <1>3, <1>4 DEF LS!IInv

SweepInv == part = "sweep" => LS!IInv

\* A sweep agrees with the chain as it was at each of its awaits.
THEOREM SweepInvariant == Spec => []SweepInv
<1>1. Init => SweepInv
  BY SweepInit DEF Init, SweepInv
<1>2. SweepInv /\ [Next]_vars => SweepInv'
  <2> SUFFICES ASSUME part = "sweep", LS!IInv, [Next]_vars, part' = "sweep"
               PROVE  LS!IInv'
    BY DEF SweepInv, Next, vars
  <2>1. CASE LS!Next
    BY <2>1, SweepBegins, SweepImports, SweepQuery, SweepGetsReady, SweepBuild, SweepUser DEF LS!Next
  <2>2. CASE UNCHANGED vars
    <3>1. UNCHANGED LS!vars
      BY <2>2 DEF vars, sweep, LS!vars, LS!session, LS!scan, LS!past
    <3> QED
      BY <3>1, SweepUnchanged
  <2> QED
    BY <2>1, <2>2 DEF Next
<1> QED
  BY <1>1, <1>2, PTL DEF Spec

\* sweep_legacy_to_new: the scan misses no coin within the gaps, whatever the limits
\* and wherever the coins are; a sweep that goes through leaves none of them behind,
\* and undisturbed it pays the wallet just restored.
THEOREM SweepsWhole == Spec => []SweepSound
<1>1. SweepInv => SweepSound
  BY DEF SweepInv, SweepSound, LS!IInv
<1> QED
  BY <1>1, SweepInvariant, PTL

-----------------------------------------------------------------------------
(* Outside services *)

LEMMA Answered ==
  ASSUME NEW S, NEW s \in Seq(S), NEW x \in S
  PROVE  /\ Append(s, x) \in Seq(S) /\ Len(Append(s, x)) = Len(s) + 1
         /\ DOMAIN Append(s, x) = 1..Len(s) + 1 /\ Append(s, x)[Len(s) + 1] = x
         /\ DOMAIN s = 1..Len(s) /\ Len(s) \in Nat
         /\ \A i \in 1..Len(s) : Append(s, x)[i] = s[i]
OBVIOUS

GoodOnes == {i \in DOMAIN asked : OS!Good(asked[i])}

\* What a call may come back with, once it has the last of its answers.
Fits(r, answer) ==
  /\ r # <<>> /\ r[1] \in {"error", "rates", "fee rate", "quote", "address"}
  /\ r[1] = "rates" => r[2] # {} /\ OS!Good(answer)
  /\ r = <<"error", "NoAnswer">> =>
       ~OS!Good(answer) /\ (call[1] # "provider" => Len(asked) + 1 = Len(Providers))
  /\ call = <<"fee rate">> =>
       /\ r[1] = "fee rate" /\ r[2] >= OS!DEFAULT_FEE_RATE
       /\ answer[1] = "fees" =>
            \A size \in TxSizes : r[2] * size >= OS!calculate_fee(answer[2], size)

\* One more answer, and what the ones before it were.
LEMMA OneMoreAnswer ==
  ASSUME asked \in Seq(OS!Answers), \A i \in DOMAIN asked : ~OS!Good(asked[i]),
         NEW answer \in OS!Answers, asked' = Append(asked, answer)
  PROVE  /\ asked' \in Seq(OS!Answers) /\ Len(asked') = Len(asked) + 1 /\ Len(asked) \in Nat
         /\ asked = <<>> => asked'[1] = answer
         /\ GoodOnes' = IF OS!Good(answer) THEN {Len(asked')} ELSE {}
         /\ ~OS!Good(answer) => \A i \in DOMAIN asked' : ~OS!Good(asked'[i])
<1>1. /\ asked' \in Seq(OS!Answers) /\ Len(asked') = Len(asked) + 1 /\ DOMAIN asked' = 1..Len(asked) + 1
      /\ asked'[Len(asked) + 1] = answer /\ DOMAIN asked = 1..Len(asked) /\ Len(asked) \in Nat
      /\ \A i \in 1..Len(asked) : asked'[i] = asked[i]
  BY Answered
<1>2. \A i \in 1..Len(asked) + 1 : OS!Good(asked'[i]) <=> i = Len(asked) + 1 /\ OS!Good(answer)
  BY <1>1
<1>3. GoodOnes' = {i \in 1..Len(asked) + 1 : OS!Good(asked'[i])}
  BY <1>1 DEF GoodOnes
<1>4. GoodOnes' = IF OS!Good(answer) THEN {Len(asked')} ELSE {}
  BY <1>1, <1>2, <1>3
<1>5. asked = <<>> => Len(asked) = 0
  OBVIOUS
<1> QED
  BY <1>1, <1>2, <1>4, <1>5

\* A call that returns has a good answer, the first, or has seen none.
LEMMA QuoteReturned ==
  ASSUME OS!IInv, NEW r, NEW answer \in OS!Answers, OS!Return(r, answer), Fits(r, answer)
  PROVE  OS!IInv'
<1>1. /\ asked \in Seq(OS!Answers) /\ \A i \in DOMAIN asked : ~OS!Good(asked[i])
      /\ asked' = Append(asked, answer)
  BY DEF OS!Return, OS!IInv, OS!TypeOK, OS!AskingInv
<1>2. /\ asked' \in Seq(OS!Answers) /\ Len(asked') = Len(asked) + 1 /\ Len(asked) \in Nat
      /\ asked = <<>> => asked'[1] = answer
      /\ GoodOnes' = IF OS!Good(answer) THEN {Len(asked')} ELSE {}
  BY <1>1, OneMoreAnswer
<1>3. call # <<>> /\ result = <<>> /\ result' = r /\ call' = call
  BY DEF OS!Return
<1>4. OS!TypeOK'
  <2>1. call[1] \in {"rates", "rate"} => Len(asked) + 1 <= Len(Providers)
    <3>1. call[1] \in {"rates", "rate"} => Len(asked) < Len(Providers)
      BY <1>3 DEF OS!IInv, OS!AskingInv
    <3>2. Len(Providers) \in Nat
      BY QuotesAssumption DEF QuotesAssumption
    <3> QED
      BY <1>2, <3>1, <3>2
  <2>2. r[1] \in {"error", "rates", "fee rate", "quote", "address"}
    BY DEF Fits
  <2> QED
    BY <1>2, <1>3, <2>1, <2>2 DEF OS!TypeOK
<1>5. OS!AskingInv'
  BY <1>3 DEF OS!AskingInv, Fits
<1>6. OS!FirstGoodAnswer'
  <2>1. r[1] = "rates" => r[2] # {} /\ GoodOnes' = {Len(asked')}
    BY <1>2 DEF Fits
  <2>2. r = <<"error", "NoAnswer">> =>
          GoodOnes' = {} /\ (call[1] # "provider" => Len(asked') = Len(Providers))
    BY <1>2 DEF Fits
  <2> QED
    BY <1>3, <2>1, <2>2 DEF OS!FirstGoodAnswer, GoodOnes
<1>7. OS!FeeCoversQuote'
  <2>1. call = <<"fee rate">> => asked'[1] = answer
    BY <1>2, <1>3 DEF OS!IInv, OS!AskingInv
  <2> QED
    BY <1>3, <2>1 DEF OS!FeeCoversQuote, Fits
<1> QED
  BY <1>4, <1>5, <1>6, <1>7 DEF OS!IInv

\* A call goes on after an answer that is not good, where there is somebody left to ask.
Unanswered(answer) ==
  /\ ~OS!Good(answer) /\ call # <<>> /\ result = <<>>
  /\ call \notin {<<"fee rate">>, <<"quote">>}
  /\ call[1] \in {"rates", "rate"} => Len(asked) + 1 < Len(Providers)

LEMMA QuoteGoesOn ==
  ASSUME OS!IInv, NEW answer \in OS!Answers, OS!GoOn(answer), Unanswered(answer)
  PROVE  OS!IInv'
<1>1. /\ result' = <<>> /\ call' = call
      /\ asked \in Seq(OS!Answers) /\ \A i \in DOMAIN asked : ~OS!Good(asked[i])
      /\ asked' = Append(asked, answer)
  BY DEF OS!GoOn, OS!IInv, OS!TypeOK, OS!AskingInv, Unanswered
<1>2. /\ asked' \in Seq(OS!Answers) /\ Len(asked') = Len(asked) + 1 /\ Len(asked) \in Nat
      /\ \A i \in DOMAIN asked' : ~OS!Good(asked'[i])
  BY <1>1, OneMoreAnswer DEF Unanswered
<1>3. Len(Providers) \in Nat
  BY QuotesAssumption DEF QuotesAssumption
<1>4. call # <<>> /\ call[1] \in {"rates", "rate"} => Len(asked') < Len(Providers)
  BY <1>2 DEF Unanswered
<1>5. OS!TypeOK'
  BY <1>1, <1>2, <1>3, <1>4 DEF OS!TypeOK
<1>6. OS!AskingInv'
  BY <1>1, <1>2, <1>4 DEF OS!AskingInv, Unanswered
<1> QED
  BY <1>1, <1>5, <1>6 DEF OS!IInv, OS!FirstGoodAnswer, OS!FeeCoversQuote

\* Whose turn it is, and whether others follow.
Asking(lst) ==
  /\ call # <<>> /\ result = <<>> /\ call[1] \in {"rates", "rate", "provider"}
  /\ lst => (call[1] # "provider" => Len(asked) + 1 = Len(Providers))
  /\ ~lst => (call[1] \in {"rates", "rate"} => Len(asked) + 1 < Len(Providers))

LEMMA AskingForRates ==
  ASSUME NEW lst, Asking(lst)
  PROVE  call # <<"fee rate">> /\ call # <<"quote">>
<1>1. <<"fee rate">>[1] = "fee rate" /\ <<"quote">>[1] = "quote"
  OBVIOUS
<1>2. call[1] \in {"rates", "rate", "provider"}
  BY DEF Asking
<1> QED
  BY <1>1, <1>2

LEMMA RatesFit ==
  ASSUME NEW rates, rates # {}, NEW answer, OS!Good(answer), call # <<"fee rate">>
  PROVE  Fits(<<"rates", rates>>, answer)
<1> DEFINE r == <<"rates", rates>>
<1>1. r # <<>> /\ r[1] = "rates" /\ r[2] = rates
  OBVIOUS
<1>2. r # <<"error", "NoAnswer">>
  BY <1>1
<1> HIDE DEF r
<1> QED
  BY <1>1, <1>2 DEF Fits

LEMMA ErrorFits ==
  ASSUME NEW what, NEW answer, call # <<"fee rate">>,
         what = "NoAnswer" =>
           ~OS!Good(answer) /\ (call[1] # "provider" => Len(asked) + 1 = Len(Providers))
  PROVE  Fits(<<"error", what>>, answer)
<1> DEFINE r == <<"error", what>>
<1>1. r # <<>> /\ r[1] = "error"
  OBVIOUS
<1>2. r = <<"error", "NoAnswer">> => what = "NoAnswer"
  OBVIOUS
<1> HIDE DEF r
<1> QED
  BY <1>1, <1>2 DEF Fits

LEMMA ProviderAsked ==
  ASSUME OS!IInv, NEW i \in DOMAIN Providers, NEW lst \in BOOLEAN, Asking(lst),
         OS!AskProvider(Providers[i], lst)
  PROVE  OS!IInv'
<1> DEFINE p == Providers[i]
<1>1. ASSUME NEW prices \in SUBSET Currencies
      PROVE  /\ <<"prices", p, prices>> \in OS!Answers
             /\ OS!Good(<<"prices", p, prices>>) <=> OS!Usable(p, prices)
  BY DEF OS!Answers, OS!Good, OS!Usable
<1>2. call # <<"fee rate">> /\ call # <<"quote">>
  BY AskingForRates
<1>3. CASE \E prices \in SUBSET Currencies :
             /\ OS!Usable(p, prices)
             /\ OS!Return(OS!Quoted(OS!RatesIn(p, prices)), <<"prices", p, prices>>)
  <2>1. PICK prices \in SUBSET Currencies :
               /\ OS!Usable(p, prices)
               /\ OS!Return(OS!Quoted(OS!RatesIn(p, prices)), <<"prices", p, prices>>)
    BY <1>3
  <2> DEFINE r == OS!Quoted(OS!RatesIn(p, prices))  answer == <<"prices", p, prices>>
  <2>2. answer \in OS!Answers /\ OS!Good(answer) /\ OS!RatesIn(p, prices) # {}
    BY <1>1, <2>1 DEF OS!Usable
  <2>3. r = <<"rates", OS!RatesIn(p, prices)>> \/ r = <<"error", "UnknownCurrency">>
    BY DEF OS!Quoted
  <2>4. Fits(r, answer)
    <3>1. CASE r = <<"rates", OS!RatesIn(p, prices)>>
      BY <1>2, <2>2, <3>1, RatesFit
    <3>2. CASE r = <<"error", "UnknownCurrency">>
      <4>1. "UnknownCurrency" # "NoAnswer"
        OBVIOUS
      <4>2. Fits(<<"error", "UnknownCurrency">>, answer)
        BY <1>2, <4>1, ErrorFits
      <4> QED
        BY <3>2, <4>2
    <3> QED
      BY <2>3, <3>1, <3>2
  <2> QED
    BY <2>1, <2>2, <2>4, QuoteReturned
<1>4. CASE \E failure \in OS!Failures \cup {<<"prices", p, prices>> : prices \in SUBSET Currencies} :
             /\ failure[1] = "prices" => ~OS!Usable(p, failure[3])
             /\ IF lst THEN OS!Return(<<"error", "NoAnswer">>, failure) ELSE OS!GoOn(failure)
  <2>1. PICK failure \in OS!Failures \cup {<<"prices", p, prices>> : prices \in SUBSET Currencies} :
               /\ failure[1] = "prices" => ~OS!Usable(p, failure[3])
               /\ IF lst THEN OS!Return(<<"error", "NoAnswer">>, failure) ELSE OS!GoOn(failure)
    BY <1>4
  <2>2. failure \in OS!Answers /\ ~OS!Good(failure)
    <3>1. CASE failure \in OS!Failures
      BY <3>1 DEF OS!Failures, OS!Answers, OS!Good
    <3>2. CASE failure \notin OS!Failures
      <4>1. PICK prices \in SUBSET Currencies : failure = <<"prices", p, prices>>
        BY <2>1, <3>2
      <4>2. failure[1] = "prices" /\ failure[3] = prices
        BY <4>1
      <4> QED
        BY <1>1, <2>1, <4>1, <4>2
    <3> QED
      BY <3>1, <3>2
  <2>3. CASE lst
    <3>1. Fits(<<"error", "NoAnswer">>, failure)
      BY <1>2, <2>2, <2>3, ErrorFits DEF Asking
    <3> QED
      BY <2>1, <2>2, <2>3, <3>1, QuoteReturned
  <2>4. CASE ~lst
    <3>1. Unanswered(failure)
      BY <1>2, <2>2, <2>4 DEF Unanswered, Asking
    <3> QED
      BY <2>1, <2>2, <2>4, <3>1, QuoteGoesOn
  <2> QED
    BY <2>3, <2>4
<1> QED
  BY <1>3, <1>4 DEF OS!AskProvider

LEMMA RatesAsked ==
  ASSUME OS!IInv, OS!get_rates \/ OS!get_rates_from
  PROVE  OS!IInv'
<1>1. CASE OS!get_rates
  <2> DEFINE i == Len(asked) + 1  lst == (i = Len(Providers))
  <2>1. call # <<>> /\ call[1] \in {"rates", "rate"} /\ result = <<>>
    BY <1>1 DEF OS!get_rates
  <2>2. Len(asked) \in Nat /\ Len(asked) < Len(Providers)
    <3>1. asked \in Seq(OS!Answers)
      BY DEF OS!IInv, OS!TypeOK
    <3>2. Len(asked) < Len(Providers)
      BY <2>1 DEF OS!IInv, OS!AskingInv
    <3>3. Len(asked) \in Nat
      BY <3>1
    <3> QED
      BY <3>2, <3>3
  <2>3. DOMAIN Providers = 1..Len(Providers) /\ Len(Providers) \in Nat
    BY QuotesAssumption DEF QuotesAssumption
  <2>4. i \in DOMAIN Providers
    <3>1. ASSUME NEW n \in Nat, NEW m \in Nat, n < m
          PROVE  n + 1 \in 1..m
      BY ONLY n \in Nat, m \in Nat, <3>1
    <3> QED
      BY <2>2, <2>3, <3>1
  <2>5. ~lst => Len(asked) + 1 < Len(Providers)
    <3>1. ASSUME NEW n \in Nat, NEW m \in Nat, n < m, n + 1 # m
          PROVE  n + 1 < m
      BY <3>1
    <3> QED
      BY <2>2, <2>3, <3>1, Zenon
  <2>6. Asking(lst)
    BY <2>1, <2>5 DEF Asking
  <2> QED
    BY <1>1, <2>4, <2>6, ProviderAsked DEF OS!get_rates
<1>2. CASE OS!get_rates_from
  <2>1. call # <<>> /\ call[1] = "provider" /\ result = <<>>
    BY <1>2 DEF OS!get_rates_from
  <2>2. CASE \E i \in DOMAIN Providers : Providers[i] = call[2]
    <3>1. PICK i \in DOMAIN Providers : Providers[i] = call[2]
      BY <2>2
    <3>2. Asking(TRUE)
      BY <2>1 DEF Asking
    <3> QED
      BY <1>2, <3>1, <3>2, ProviderAsked DEF OS!get_rates_from
  <2>3. CASE ~ \E i \in DOMAIN Providers : Providers[i] = call[2]
    <3>1. Asking(TRUE)
      BY <2>1 DEF Asking
    <3>2. call # <<"fee rate">>
      BY <3>1, AskingForRates
    <3>3. <<"nobody">> \in OS!Answers
      BY DEF OS!Answers
    <3>4. Fits(<<"error", "UnknownCurrency">>, <<"nobody">>)
      <4>1. "UnknownCurrency" # "NoAnswer"
        OBVIOUS
      <4> QED
        BY <3>2, <4>1, ErrorFits
    <3> QED
      BY <1>2, <2>3, <3>3, <3>4, QuoteReturned DEF OS!get_rates_from
  <2> QED
    BY <2>2, <2>3
<1> QED
  BY <1>1, <1>2

\* The rate for a quote is enough for a transaction of any size.
LEMMA MaxOfTwo ==
  ASSUME NEW a \in Nat, NEW b \in Nat
  PROVE  OS!Max({a, b}) = IF a >= b THEN a ELSE b
BY DEF OS!Max

LEMMA MinOfTwo ==
  ASSUME NEW a \in Nat, NEW b \in Nat
  PROVE  OS!Min({a, b}) = IF a <= b THEN a ELSE b
BY DEF OS!Min

LEMMA RateIsEnough ==
  ASSUME NEW unit \in [satoshis : Nat, bytes : Nat], NEW size \in Nat \ {0}
  PROVE  /\ OS!RatePerByte(unit) \in Nat /\ OS!RatePerByte(unit) >= 1
         /\ OS!RatePerByte(unit) * size >= OS!calculate_fee(unit, size)
<1> DEFINE s == unit.satoshis  r == OS!RatePerByte(unit)
           most == OS!Min({s * size, Word - 1})  bytes == OS!Max({unit.bytes, 1})
<1>1. s \in Nat /\ unit.bytes \in Nat /\ s * size \in Nat /\ Word - 1 \in Nat
  BY QuotesAssumption DEF QuotesAssumption
<1>2. r \in Nat /\ r >= 1 /\ r >= s
  BY <1>1, MaxOfTwo DEF OS!RatePerByte
<1>3. most \in Nat /\ most <= s * size
  BY <1>1, MinOfTwo
<1>4. bytes \in Nat /\ bytes >= 1
  BY <1>1, MaxOfTwo
<1>5. OS!calculate_fee(unit, size) = OS!Max({most \div bytes, s})
  BY DEF OS!calculate_fee
<1> HIDE DEF s, r, most, bytes
<1>6. most \div bytes \in Nat /\ most \div bytes <= most
  <2> DEFINE q == most \div bytes
  <2>1. q \in Int /\ bytes * q <= most /\ q >= 0
    BY <1>3, <1>4
  <2> HIDE DEF q
  <2>2. q <= bytes * q
    BY <1>4, <2>1
  <2>3. q \in Nat /\ q <= most
    BY <1>3, <1>4, <2>1, <2>2
  <2> QED
    BY <2>3 DEF q
<1>7. s * size <= r * size /\ s <= s * size /\ r * size \in Nat
  BY <1>1, <1>2
<1>8. most \div bytes <= r * size /\ s <= r * size
  BY <1>1, <1>3, <1>6, <1>7
<1> QED
  BY <1>1, <1>2, <1>5, <1>6, <1>7, <1>8, MaxOfTwo DEF r

LEMMA RateFits ==
  ASSUME NEW rate, rate >= OS!DEFAULT_FEE_RATE, NEW answer,
         answer[1] = "fees" => \A size \in TxSizes : rate * size >= OS!calculate_fee(answer[2], size)
  PROVE  Fits(<<"fee rate", rate>>, answer)
<1> DEFINE r == <<"fee rate", rate>>
<1>1. r # <<>> /\ r[1] = "fee rate" /\ r[2] = rate
  OBVIOUS
<1>2. r # <<"error", "NoAnswer">>
  BY <1>1
<1> HIDE DEF r
<1> QED
  BY <1>1, <1>2 DEF Fits

LEMMA OtherFits ==
  ASSUME NEW what \in {"quote", "address"}, NEW x, NEW answer, call # <<"fee rate">>
  PROVE  Fits(<<what, x>>, answer)
<1> DEFINE r == <<what, x>>
<1>1. r # <<>> /\ r[1] = what
  OBVIOUS
<1>2. r # <<"error", "NoAnswer">>
  BY <1>1
<1> HIDE DEF r
<1> QED
  BY <1>1, <1>2 DEF Fits

LEMMA FeesAsked ==
  ASSUME OS!IInv, OS!get_fee_quote
  PROVE  OS!IInv'
<1> DEFINE Replies(quote, rate, answer) ==
             OS!Return(IF call = <<"quote">> THEN quote ELSE <<"fee rate", rate>>, answer)
<1>1. <<"quote">> # <<"fee rate">>
  <2>1. <<"quote">>[1] = "quote" /\ <<"fee rate">>[1] = "fee rate"
    OBVIOUS
  <2> QED
    BY <2>1
<1>2. call = <<"fee rate">> \/ call = <<"quote">>
  BY DEF OS!get_fee_quote
<1>3. ASSUME NEW quote, NEW rate, NEW answer \in OS!Answers, Replies(quote, rate, answer),
             call = <<"quote">> => Fits(quote, answer), rate >= OS!DEFAULT_FEE_RATE,
             answer[1] = "fees" => \A size \in TxSizes : rate * size >= OS!calculate_fee(answer[2], size)
      PROVE  OS!IInv'
  <2>1. CASE call = <<"quote">>
    BY <1>3, <2>1, QuoteReturned
  <2>2. CASE call # <<"quote">>
    <3>1. Fits(<<"fee rate", rate>>, answer)
      BY <1>3, RateFits
    <3> QED
      BY <1>3, <2>2, <3>1, QuoteReturned
  <2> QED
    BY <2>1, <2>2
<1>4. TxSizes \subseteq Nat \ {0} /\ OS!DEFAULT_FEE_RATE = 1
  BY QuotesAssumption DEF QuotesAssumption, OS!DEFAULT_FEE_RATE
<1>5. CASE \E unit \in FeeUnits : Replies(<<"quote", unit.satoshis>>, OS!RatePerByte(unit), <<"fees", unit>>)
  <2>1. PICK unit \in FeeUnits : Replies(<<"quote", unit.satoshis>>, OS!RatePerByte(unit), <<"fees", unit>>)
    BY <1>5
  <2>2. unit \in [satoshis : Nat, bytes : Nat]
    BY QuotesAssumption DEF QuotesAssumption
  <2>3. <<"fees", unit>> \in OS!Answers /\ <<"fees", unit>>[2] = unit
    BY DEF OS!Answers
  <2>4. call = <<"quote">> => Fits(<<"quote", unit.satoshis>>, <<"fees", unit>>)
    BY <1>1, OtherFits
  <2>5. OS!RatePerByte(unit) >= 1
        /\ \A size \in TxSizes : OS!RatePerByte(unit) * size >= OS!calculate_fee(unit, size)
    BY <1>4, <2>2, RateIsEnough
  <2> HIDE DEF Replies
  <2> QED
    BY <1>3, <1>4, <2>1, <2>3, <2>4, <2>5
<1>6. CASE Replies(<<"quote", 0>>, OS!DEFAULT_FEE_RATE, <<"fees", OS!NoFees>>)
  <2>1. OS!NoFees \in [satoshis : Nat, bytes : Nat] /\ OS!RatePerByte(OS!NoFees) = 1
    BY MaxOfTwo DEF OS!NoFees, OS!RatePerByte
  <2>2. <<"fees", OS!NoFees>> \in OS!Answers /\ <<"fees", OS!NoFees>>[2] = OS!NoFees
    BY DEF OS!Answers
  <2>3. call = <<"quote">> => Fits(<<"quote", 0>>, <<"fees", OS!NoFees>>)
    BY <1>1, OtherFits
  <2>4. \A size \in TxSizes : OS!DEFAULT_FEE_RATE * size >= OS!calculate_fee(OS!NoFees, size)
    BY <1>4, <2>1, RateIsEnough
  <2> HIDE DEF Replies
  <2>5. OS!DEFAULT_FEE_RATE >= OS!DEFAULT_FEE_RATE
    BY <1>4
  <2> QED
    BY <1>3, <1>6, <2>2, <2>3, <2>4, <2>5
<1>7. CASE \E failure \in OS!Failures \cup {<<"ApiError">>} :
             Replies(<<"error", failure[1]>>, OS!DEFAULT_FEE_RATE, failure)
  <2>1. PICK failure \in OS!Failures \cup {<<"ApiError">>} :
               Replies(<<"error", failure[1]>>, OS!DEFAULT_FEE_RATE, failure)
    BY <1>7
  <2>2. failure \in OS!Answers /\ failure[1] # "fees" /\ failure[1] # "NoAnswer"
    BY DEF OS!Answers, OS!Failures
  <2>3. call = <<"quote">> => Fits(<<"error", failure[1]>>, failure)
    BY <1>1, <2>2, ErrorFits
  <2> HIDE DEF Replies
  <2>4. OS!DEFAULT_FEE_RATE >= OS!DEFAULT_FEE_RATE
    BY <1>4
  <2> QED
    BY <1>3, <2>1, <2>2, <2>3, <2>4
<1> QED
  BY <1>5, <1>6, <1>7 DEF OS!get_fee_quote

LEMMA HandleResolved ==
  ASSUME OS!IInv, OS!RefuseHandle \/ OS!well_known_lookup \/ OS!RequestAddress
  PROVE  OS!IInv'
<1>1. call # <<>> /\ call[1] = "paymail" /\ result = <<>>
  BY DEF OS!RefuseHandle, OS!well_known_lookup, OS!RequestAddress, OS!Resolving
<1>2. call # <<"fee rate">> /\ call # <<"quote">>
  <2>1. <<"fee rate">>[1] = "fee rate" /\ <<"quote">>[1] = "quote"
    OBVIOUS
  <2> QED
    BY <1>1, <2>1
<1>3. ASSUME NEW what \in {"InvalidHandle", "DiscoveryFailed", "InvalidAddress", "AddressResolutionFailed"},
             NEW answer \in OS!Answers, OS!Return(<<"error", what>>, answer)
      PROVE  OS!IInv'
  <2>1. what # "NoAnswer"
    OBVIOUS
  <2>2. Fits(<<"error", what>>, answer)
    BY <1>2, <2>1, ErrorFits
  <2> QED
    BY <1>3, <2>2, QuoteReturned
<1>4. /\ <<"nobody">> \in OS!Answers /\ <<"Http">> \in OS!Answers /\ <<"found">> \in OS!Answers
      /\ OS!Failures \subseteq OS!Answers
      /\ \A x \in {"blank", "text"} : <<"address", x>> \in OS!Answers
  BY DEF OS!Answers, OS!Failures
<1>5. CASE OS!RefuseHandle
  BY <1>3, <1>4, <1>5 DEF OS!RefuseHandle
<1>6. CASE OS!well_known_lookup
  <2>1. CASE OS!GoOn(<<"found">>)
    <3>1. ~OS!Good(<<"found">>)
      BY DEF OS!Good
    <3>2. Unanswered(<<"found">>)
      BY <1>1, <1>2, <3>1 DEF Unanswered
    <3> QED
      BY <1>4, <2>1, <3>2, QuoteGoesOn
  <2>2. CASE OS!Return(<<"error", "DiscoveryFailed">>, <<"Http">>)
    BY <1>3, <1>4, <2>2
  <2> QED
    BY <1>6, <2>1, <2>2 DEF OS!well_known_lookup
<1>7. CASE OS!RequestAddress
  <2>1. CASE \E x \in {"blank", "text"} : OS!Return(OS!request_address(x), <<"address", x>>)
    <3>1. PICK x \in {"blank", "text"} : OS!Return(OS!request_address(x), <<"address", x>>)
      BY <2>1
    <3>2. CASE x = "blank"
      <4>1. OS!request_address(x) = <<"error", "InvalidAddress">>
        BY <3>2 DEF OS!request_address
      <4> QED
        BY <1>3, <1>4, <3>1, <4>1
    <3>3. CASE x # "blank"
      <4>1. OS!request_address(x) = <<"address", x>>
        BY <3>3 DEF OS!request_address
      <4>2. Fits(<<"address", x>>, <<"address", x>>)
        BY <1>2, OtherFits
      <4> QED
        BY <1>4, <3>1, <4>1, <4>2, QuoteReturned
    <3> QED
      BY <3>2, <3>3
  <2>2. CASE \E failure \in OS!Failures : OS!Return(<<"error", "AddressResolutionFailed">>, failure)
    BY <1>3, <1>4, <2>2
  <2> QED
    BY <1>7, <2>1, <2>2 DEF OS!RequestAddress
<1> QED
  BY <1>5, <1>6, <1>7

LEMMA CallBegins ==
  ASSUME OS!IInv, NEW c, OS!Begin(c)
  PROVE  OS!IInv'
<1>1. asked = <<>> /\ result = <<>> /\ asked' = <<>> /\ result' = <<>>
  BY DEF OS!Begin, OS!IInv, OS!AskingInv
<1>2. Len(Providers) \in Nat /\ Len(Providers) > 0
  BY QuotesAssumption DEF QuotesAssumption
<1>3. Len(asked') = 0 /\ DOMAIN asked' = {} /\ asked' \in Seq(OS!Answers)
  BY <1>1
<1>4. OS!TypeOK'
  BY <1>1, <1>2, <1>3 DEF OS!TypeOK
<1>5. OS!AskingInv'
  BY <1>1, <1>2, <1>3 DEF OS!AskingInv
<1> QED
  BY <1>1, <1>4, <1>5 DEF OS!IInv, OS!FirstGoodAnswer, OS!FeeCoversQuote

LEMMA QuotesInit == ASSUME OS!Init PROVE OS!IInv
<1>1. asked = <<>> /\ result = <<>> /\ call = <<>>
  BY DEF OS!Init
<1>2. DOMAIN asked = {} /\ asked \in Seq(OS!Answers)
  BY <1>1
<1> QED
  BY <1>1, <1>2 DEF OS!IInv, OS!TypeOK, OS!AskingInv, OS!FirstGoodAnswer, OS!FeeCoversQuote

QuotesInv == part = "outside" => OS!IInv

\* While a call is asking it has met no good answer.
THEOREM QuotesInvariant == Spec => []QuotesInv
<1>1. Init => QuotesInv
  BY QuotesInit DEF Init, QuotesInv
<1>2. QuotesInv /\ [Next]_vars => QuotesInv'
  <2> SUFFICES ASSUME part = "outside", OS!IInv, [Next]_vars, part' = "outside"
               PROVE  OS!IInv'
    BY DEF QuotesInv, Next, vars
  <2>1. CASE OS!Next
    BY <2>1, CallBegins, RatesAsked, FeesAsked, HandleResolved DEF OS!Next
  <2>2. CASE UNCHANGED vars
    <3>1. call' = call /\ asked' = asked /\ result' = result
      BY <2>2 DEF vars, outside
    <3> QED
      BY <3>1 DEF OS!IInv, OS!TypeOK, OS!AskingInv, OS!FirstGoodAnswer, OS!FeeCoversQuote
  <2> QED
    BY <2>1, <2>2 DEF Next
<1> QED
  BY <1>1, <1>2, PTL DEF Spec

\* ExchangeRateService, fetch_default_fee_rate: for any providers, currencies and fees,
\* rates are those of the first provider that has any, and there always is a fee rate,
\* one that is enough for the miner that quoted it.
THEOREM QuotesAreSound == Spec => []QuotesSound
<1>1. QuotesInv => QuotesSound
  BY DEF QuotesInv, QuotesSound, OS!IInv
<1> QED
  BY <1>1, QuotesInvariant, PTL

-----------------------------------------------------------------------------
(* Least numbers *)

LEMMA LeastNumber ==
  ASSUME NEW S \in SUBSET Nat, S # {}
  PROVE  \E m \in S : \A k \in S : m <= k
<1> DEFINE less == {p \in Nat \X Nat : p[1] < p[2]}
<1>1. IsWellFoundedOn(less, Nat)
  BY NatLessThanWellFounded DEF OpToRel
<1>2. PICK m \in S : \A k \in S : <<k, m>> \notin less
  BY <1>1, WFMin
<1>3. ASSUME NEW k \in S PROVE m <= k
  <2>1. k \in Nat /\ m \in Nat /\ ~(k < m)
    BY <1>2
  <2> QED
    BY <2>1
<1> QED
  BY <1>3

-----------------------------------------------------------------------------
(* Coin selection: sums of amounts *)

\* f adds up the amounts of a from the first on.
Adds(f, a) == /\ DOMAIN f = 0..Len(a) /\ f[0] = 0
              /\ \A i \in 1..Len(a) : f[i] = f[i - 1] + a[i]

LEMMA AmountsAre ==
  ASSUME NEW a \in Seq(Nat)
  PROVE  Len(a) \in Nat /\ \A i \in 1..Len(a) : a[i] \in Nat
  OBVIOUS

\* Two functions that add up the same amounts are equal, ...
LEMMA AddsOnce ==
  ASSUME NEW a \in Seq(Nat), NEW f, NEW g, Adds(f, a), Adds(g, a)
  PROVE  f[Len(a)] = g[Len(a)]
<1> DEFINE Bad == {n \in 0..Len(a) : f[n] # g[n]}
<1>0. Len(a) \in Nat
  OBVIOUS
<1> SUFFICES ASSUME Bad # {} PROVE FALSE
  BY <1>0
<1>b. Bad \in SUBSET Nat
  BY <1>0
<1>1. PICK n \in Bad : \A k \in Bad : n <= k
  BY <1>b, LeastNumber
<1>2. n \in 1..Len(a) /\ n - 1 \in 0..Len(a) /\ n - 1 \notin Bad
  BY <1>0, <1>1 DEF Adds
<1> QED
  BY <1>1, <1>2 DEF Adds

\* ... there is one for each sequence, ...
LEMMA AddsExists ==
  ASSUME NEW a \in Seq(Nat)
  PROVE  \E f \in [0..Len(a) -> Nat] : Adds(f, a)
<1> DEFINE Until(n) == \E f \in [0..n -> Nat] : f[0] = 0 /\ \A i \in 1..n : f[i] = f[i - 1] + a[i]
           Bad == {n \in 0..Len(a) : ~Until(n)}
<1>1. Until(0)
  <2> DEFINE g == [i \in 0..0 |-> 0]
  <2>1. g \in [0..0 -> Nat] /\ g[0] = 0 /\ 1..0 = {}
    OBVIOUS
  <2> QED
    BY <2>1
<1>2. ASSUME NEW n \in 1..Len(a), Until(n - 1) PROVE Until(n)
  <2>0. n \in Nat /\ a[n] \in Nat
    BY AmountsAre
  <2>1. PICK g \in [0..n - 1 -> Nat] : g[0] = 0 /\ \A i \in 1..n - 1 : g[i] = g[i - 1] + a[i]
    BY <1>2
  <2> DEFINE f == [i \in 0..n |-> IF i = n THEN g[n - 1] + a[n] ELSE g[i]]
  <2>2. g[n - 1] + a[n] \in Nat
    BY <2>0, <2>1
  <2>3. /\ f \in [0..n -> Nat] /\ f[n] = g[n - 1] + a[n]
        /\ \A i \in 0..n - 1 : f[i] = g[i]
    BY <2>0, <2>1, <2>2
  <2> HIDE DEF f
  <2>4. f[0] = 0
    BY <2>0, <2>1, <2>3
  <2>5. \A i \in 1..n : f[i] = f[i - 1] + a[i]
    <3> SUFFICES ASSUME NEW i \in 1..n PROVE f[i] = f[i - 1] + a[i]
      OBVIOUS
    <3>1. f[i - 1] = g[i - 1]
      BY <2>0, <2>3
    <3>2. i # n => i \in 1..n - 1 /\ i \in 0..n - 1
      BY <2>0
    <3> QED
      BY <2>1, <2>3, <3>1, <3>2
  <2> QED
    BY <2>3, <2>4, <2>5
<1> HIDE DEF Until
<1>3. Bad = {}
  <2>0. Len(a) \in Nat
    OBVIOUS
  <2> SUFFICES ASSUME Bad # {} PROVE FALSE
    OBVIOUS
  <2>b. Bad \in SUBSET Nat
    BY <2>0
  <2>1. PICK n \in Bad : \A k \in Bad : n <= k
    BY <2>b, LeastNumber
  <2>2. n \in 1..Len(a) /\ n - 1 \in 0..Len(a) /\ n - 1 \notin Bad
    BY <2>0, <1>1, <2>1
  <2> QED
    BY <1>2, <2>1, <2>2
<1>4. Len(a) \in Nat /\ Until(Len(a))
  BY <1>3
<1> QED
  BY <1>4 DEF Until, Adds

\* ... and its last value is what the recursion of Total computes.
LEMMA TotalAdds ==
  ASSUME NEW a \in Seq(Nat)
  PROVE  \E f \in [0..Len(a) -> Nat] : Adds(f, a) /\ CS!Total(a) = f[Len(a)]
<1> DEFINE Term(s, i) == IF i = 0 THEN 0 ELSE s[i - 1] + a[i]
           sum == CHOOSE s : s = [i \in 0..Len(a) |-> Term(s, i)]
<1>0. Len(a) \in Nat
  OBVIOUS
<1>1. PICK g \in [0..Len(a) -> Nat] : Adds(g, a)
  BY AddsExists
<1>2. \A i \in 0..Len(a) : g[i] = Term(g, i)
  BY <1>0, <1>1 DEF Adds
<1>3. g = [i \in 0..Len(a) |-> Term(g, i)]
  <2> HIDE DEF Term
  <2> QED
    BY <1>1, <1>2
<1>4. sum = [i \in 0..Len(a) |-> Term(sum, i)]
  BY <1>3
<1>5. CS!Total(a) = sum[Len(a)]
  BY DEF CS!Total
<1> HIDE DEF sum
<1>6. DOMAIN sum = 0..Len(a) /\ \A i \in 0..Len(a) : sum[i] = Term(sum, i)
  BY <1>4
<1>7. Adds(sum, a)
  <2>1. sum[0] = 0
    BY <1>0, <1>6
  <2>2. \A i \in 1..Len(a) : sum[i] = sum[i - 1] + a[i]
    BY <1>0, <1>6
  <2> QED
    BY <1>6, <2>1, <2>2 DEF Adds
<1> QED
  BY <1>1, <1>5, <1>7, AddsOnce

\* A total of amounts that are none of them larger is not larger.
LEMMA TotalsCompared ==
  ASSUME NEW a \in Seq(Nat), NEW b \in Seq(Nat), Len(a) = Len(b),
         \A i \in 1..Len(a) : a[i] <= b[i]
  PROVE  CS!Total(a) \in Nat /\ CS!Total(b) \in Nat /\ CS!Total(a) <= CS!Total(b)
<1>0. Len(a) \in Nat
  OBVIOUS
<1>1. PICK f \in [0..Len(a) -> Nat] : Adds(f, a) /\ CS!Total(a) = f[Len(a)]
  BY TotalAdds
<1>2. PICK g \in [0..Len(b) -> Nat] : Adds(g, b) /\ CS!Total(b) = g[Len(b)]
  BY TotalAdds
<1> DEFINE Bad == {n \in 0..Len(a) : ~(f[n] <= g[n])}
<1>3. Bad = {}
  <2> SUFFICES ASSUME Bad # {} PROVE FALSE
    OBVIOUS
  <2>b. Bad \in SUBSET Nat
    BY <1>0
  <2>1. PICK n \in Bad : \A k \in Bad : n <= k
    BY <2>b, LeastNumber
  <2>2. n \in 1..Len(a) /\ n - 1 \in 0..Len(a) /\ n - 1 \notin Bad
    BY <1>0, <1>1, <1>2, <2>1 DEF Adds
  <2>3. f[n - 1] <= g[n - 1] /\ f[n] = f[n - 1] + a[n] /\ g[n] = g[n - 1] + b[n] /\ a[n] <= b[n]
    BY <1>1, <1>2, <2>2 DEF Adds
  <2>4. a[n] \in Nat /\ b[n] \in Nat /\ f[n - 1] \in Nat /\ g[n - 1] \in Nat
    BY <1>1, <1>2, <2>2, AmountsAre
  <2>5. f[n] <= g[n]
    <3>1. PICK p \in Nat, q \in Nat, u \in Nat, v \in Nat :
            p = f[n - 1] /\ q = g[n - 1] /\ u = a[n] /\ v = b[n]
      BY <2>4
    <3>2. p <= q /\ u <= v
      BY <2>3, <3>1
    <3>3. p + u <= q + v
      BY <3>2
    <3> QED
      BY <2>3, <3>1, <3>3
  <2> QED
    BY <2>1, <2>5
<1> QED
  BY <1>0, <1>1, <1>2, <1>3

\* A total grows by what one of the amounts does.
LEMMA TotalGrows ==
  ASSUME NEW a \in Seq(Nat), NEW b \in Seq(Nat), Len(a) = Len(b), NEW t \in 1..Len(a), NEW d \in Nat,
         b[t] = a[t] + d, \A i \in 1..Len(a) : i # t => a[i] = b[i]
  PROVE  CS!Total(b) = CS!Total(a) + d
<1>0. Len(a) \in Nat /\ t \in Nat
  OBVIOUS
<1>1. PICK f \in [0..Len(a) -> Nat] : Adds(f, a) /\ CS!Total(a) = f[Len(a)]
  BY TotalAdds
<1>2. PICK g \in [0..Len(b) -> Nat] : Adds(g, b) /\ CS!Total(b) = g[Len(b)]
  BY TotalAdds
<1> DEFINE More(n) == IF n < t THEN 0 ELSE d
           Bad == {n \in 0..Len(a) : g[n] # f[n] + More(n)}
<1>3. Bad = {}
  <2> SUFFICES ASSUME Bad # {} PROVE FALSE
    OBVIOUS
  <2>b. Bad \in SUBSET Nat
    BY <1>0
  <2>1. PICK n \in Bad : \A k \in Bad : n <= k
    BY <2>b, LeastNumber
  <2>2. 0 \notin Bad
    BY <1>0, <1>1, <1>2 DEF Adds
  <2>3. n \in 1..Len(a) /\ n - 1 \in 0..Len(a) /\ n - 1 \notin Bad
    <3>1. n \in 0..Len(a) /\ n # 0
      BY <2>1, <2>2
    <3>2. n \in 1..Len(a) /\ n - 1 \in 0..Len(a) /\ ~(n <= n - 1)
      BY <1>0, <3>1
    <3> QED
      BY <2>1, <3>2, Zenon
  <2>4. g[n - 1] = f[n - 1] + More(n - 1) /\ f[n] = f[n - 1] + a[n] /\ g[n] = g[n - 1] + b[n]
    BY <1>1, <1>2, <2>3 DEF Adds
  <2>5. a[n] \in Nat /\ b[n] \in Nat /\ f[n - 1] \in Nat /\ g[n - 1] \in Nat
    BY <1>1, <1>2, <2>3, AmountsAre
  <2>6. More(n - 1) \in Nat /\ More(n) \in Nat
    OBVIOUS
  <2>7. b[n] + More(n - 1) = a[n] + More(n)
    <3>1. CASE n = t
      <4>1. More(n - 1) = 0 /\ More(n) = d /\ b[n] = a[n] + d
        BY <1>0, <3>1
      <4>2. PICK v \in Nat : v = b[n]
        BY <2>5
      <4>3. b[n] + 0 = a[n] + d
        BY <4>1, <4>2, SMTT(30)
      <4> HIDE DEF More
      <4> QED
        BY <4>1, <4>3, Zenon
    <3>2. CASE n # t
      <4>1. More(n - 1) = More(n) /\ a[n] = b[n]
        BY <1>0, <2>3, <3>2, SMTT(30)
      <4> QED
        BY <4>1
    <3> QED
      BY <3>1, <3>2
  <2>8. g[n] = f[n] + More(n)
    <3>1. PICK p \in Nat, u \in Nat, v \in Nat, x \in Nat, y \in Nat :
            p = f[n - 1] /\ u = a[n] /\ v = b[n] /\ x = More(n - 1) /\ y = More(n)
      BY <2>5, <2>6
    <3>2. v + x = u + y
      BY <2>7, <3>1
    <3>3. (p + x) + v = (p + u) + y
      BY <3>2
    <3> QED
      BY <2>4, <3>1, <3>3
  <2> QED
    BY <2>1, <2>8
<1>4. Len(a) \notin Bad /\ Len(a) \in 0..Len(a) /\ ~(Len(a) < t)
  BY <1>0, <1>3, SMTT(30)
<1> QED
  BY <1>1, <1>2, <1>4

-----------------------------------------------------------------------------
(* Coin selection: what sets of coins hold *)

LEMMA SameCounting ==
  /\ \A S : CS!Cardinality(S) = Cardinality(S)
  /\ \A S : CS!IsFiniteSet(S) <=> IsFiniteSet(S)
BY DEF CS!Cardinality, Cardinality, CS!IsFiniteSet, IsFiniteSet

LEMMA WalletIs ==
  ASSUME coins \in CS!Wallets
  PROVE  /\ coins \in Seq(Coins) /\ Len(coins) \in 0..MaxCoins /\ CS!All = 1..Len(coins)
         /\ \A i \in CS!All : coins[i] \in Coins /\ coins[i].value \in Nat
         /\ IsFiniteSet(CS!All) /\ Cardinality(CS!All) = Len(coins)
<1> USE SelectionAssumption DEF SelectionAssumption
<1>1. PICK n \in 0..MaxCoins : coins \in [1..n -> Coins]
  BY DEF CS!Wallets
<1>2. n \in Nat /\ coins \in Seq(Coins) /\ Len(coins) = n /\ CS!All = 1..n
  BY <1>1 DEF CS!All
<1>3. IsFiniteSet(1..n) /\ Cardinality(1..n) = n
  BY <1>2, FS_Interval
<1> QED
  BY <1>1, <1>2, <1>3

\* The amounts Value adds up.
Held(S) == [i \in CS!All |-> IF i \in S THEN coins[i].value ELSE 0]

LEMMA HeldIs ==
  ASSUME coins \in CS!Wallets, NEW S
  PROVE  /\ Held(S) \in Seq(Nat) /\ Len(Held(S)) = Len(coins) /\ CS!Value(S) = CS!Total(Held(S))
         /\ \A i \in 1..Len(coins) : Held(S)[i] = IF i \in S THEN coins[i].value ELSE 0
<1> DEFINE n == Len(coins)
<1>1. n \in Nat /\ CS!All = 1..n /\ \A i \in 1..n : coins[i].value \in Nat
  BY WalletIs
<1>2. Held(S) \in [1..n -> Nat] /\ \A i \in 1..n : Held(S)[i] = IF i \in S THEN coins[i].value ELSE 0
  BY <1>1 DEF Held
<1>3. CS!Value(S) = CS!Total(Held(S))
  BY DEF CS!Value, Held, CS!All
<1> QED
  BY <1>1, <1>2, <1>3

LEMMA ValueFits ==
  ASSUME coins \in CS!Wallets, NEW S
  PROVE  CS!Value(S) \in 0..Word - 1
<1> USE SelectionAssumption DEF SelectionAssumption
<1>1. Held(CS!All) = [i \in DOMAIN coins |-> coins[i].value]
  BY DEF Held, CS!All
<1>2. CS!Total(Held(CS!All)) < Word
  BY <1>1
<1>3. \A i \in 1..Len(coins) : Held(S)[i] <= Held(CS!All)[i]
  <2> TAKE i \in 1..Len(coins)
  <2>1. coins[i].value \in Nat /\ i \in CS!All
    BY WalletIs
  <2>2. /\ Held(S)[i] = IF i \in S THEN coins[i].value ELSE 0
        /\ Held(CS!All)[i] = coins[i].value
    BY <2>1, HeldIs
  <2> QED
    BY <2>1, <2>2
<1>4. CS!Total(Held(S)) \in Nat /\ CS!Total(Held(CS!All)) \in Nat /\ CS!Total(Held(S)) <= CS!Total(Held(CS!All))
  BY <1>3, HeldIs, TotalsCompared
<1> QED
  BY <1>2, <1>4, HeldIs

LEMMA ValueOfNone ==
  ASSUME coins \in CS!Wallets
  PROVE  CS!Value({}) = 0
<1>1. PICK f \in [0..Len(Held({})) -> Nat] : Adds(f, Held({})) /\ CS!Total(Held({})) = f[Len(Held({}))]
  BY HeldIs, TotalAdds
<1> DEFINE Bad == {n \in 0..Len(coins) : f[n] # 0}
<1>2. Len(coins) \in Nat /\ Len(Held({})) = Len(coins)
  BY WalletIs, HeldIs
<1>3. Bad = {}
  <2> SUFFICES ASSUME Bad # {} PROVE FALSE
    OBVIOUS
  <2>1. Bad \in SUBSET Nat
    BY <1>2
  <2>2. PICK n \in Bad : \A k \in Bad : n <= k
    BY <2>1, LeastNumber
  <2>3. n \in 1..Len(coins) /\ n - 1 \in 0..Len(coins) /\ n - 1 \notin Bad
    BY <1>1, <1>2, <2>2 DEF Adds
  <2>4. f[n] = f[n - 1] + Held({})[n] /\ Held({})[n] = 0 /\ f[n - 1] = 0
    BY <1>1, <1>2, <2>3, HeldIs DEF Adds
  <2> QED
    BY <2>2, <2>4
<1>4. Len(coins) \in 0..Len(coins) /\ Len(coins) \notin Bad
  BY <1>2, <1>3
<1> QED
  BY <1>1, <1>2, <1>4, HeldIs

LEMMA ValueWith ==
  ASSUME coins \in CS!Wallets, NEW S, NEW t \in CS!All, t \notin S
  PROVE  CS!Value(S \cup {t}) = CS!Value(S) + coins[t].value
<1>1. t \in 1..Len(coins) /\ coins[t].value \in Nat
  BY WalletIs
<1>2. /\ Held(S) \in Seq(Nat) /\ Held(S \cup {t}) \in Seq(Nat)
      /\ Len(Held(S)) = Len(coins) /\ Len(Held(S \cup {t})) = Len(coins)
  BY HeldIs
<1>3. Held(S \cup {t})[t] = Held(S)[t] + coins[t].value
  <2>1. Held(S)[t] = 0 /\ Held(S \cup {t})[t] = coins[t].value
    BY <1>1, HeldIs
  <2> QED
    BY <1>1, <2>1
<1>4. \A i \in 1..Len(coins) : i # t => Held(S)[i] = Held(S \cup {t})[i]
  BY HeldIs
<1>5. CS!Total(Held(S \cup {t})) = CS!Total(Held(S)) + coins[t].value
  <2> DEFINE a == Held(S)
             b == Held(S \cup {t})
  <2>1. PICK d \in Nat : d = coins[t].value
    BY <1>1
  <2>2. a \in Seq(Nat) /\ b \in Seq(Nat) /\ Len(a) = Len(b) /\ t \in 1..Len(a) /\ b[t] = a[t] + d
    BY <1>1, <1>2, <1>3, <2>1
  <2>3. \A i \in 1..Len(a) : i # t => a[i] = b[i]
    BY <1>2, <1>4
  <2> HIDE DEF a, b
  <2>4. CS!Total(b) = CS!Total(a) + d
    BY <2>2, <2>3, TotalGrows
  <2> QED
    BY <2>1, <2>4 DEF a, b
<1> QED
  BY <1>5, HeldIs

-----------------------------------------------------------------------------
(* Coin selection: the largest coins *)

\* The coins before i in the order of sort_by.
Before(i) == {j \in CS!All : CS!Larger(j, i)}
Rank(i) == Cardinality(Before(i))

LEMMA LargerIsOrder ==
  ASSUME coins \in CS!Wallets
  PROVE  /\ \A i \in CS!All : ~CS!Larger(i, i)
         /\ \A i, j \in CS!All : i # j => CS!Larger(i, j) \/ CS!Larger(j, i)
         /\ \A i, j, k \in CS!All : CS!Larger(i, j) /\ CS!Larger(j, k) => CS!Larger(i, k)
         /\ \A i, j \in CS!All : CS!Larger(i, j) => coins[i].value >= coins[j].value
<1>1. \A i \in CS!All : i \in Nat /\ coins[i].value \in Nat
  BY WalletIs
<1> QED
  BY <1>1 DEF CS!Larger

LEMMA Ranks ==
  ASSUME coins \in CS!Wallets
  PROVE  /\ \A i \in CS!All : IsFiniteSet(Before(i)) /\ Rank(i) \in 0..Len(coins) - 1
         /\ \A i, j \in CS!All : CS!Larger(i, j) => Rank(i) < Rank(j)
<1>0. Len(coins) \in Nat /\ IsFiniteSet(CS!All) /\ Cardinality(CS!All) = Len(coins)
  BY WalletIs
<1>1. \A i \in CS!All : IsFiniteSet(Before(i)) /\ Rank(i) \in Nat
  <2> TAKE i \in CS!All
  <2>1. Before(i) \subseteq CS!All
    BY DEF Before
  <2> QED
    BY <1>0, <2>1, FS_Subset, FS_CardinalityType DEF Rank
<1>2. ASSUME NEW i \in CS!All PROVE Rank(i) < Len(coins)
  <2>1. Before(i) \subseteq CS!All /\ Before(i) # CS!All
    BY LargerIsOrder DEF Before
  <2>2. Cardinality(Before(i)) <= Cardinality(CS!All) /\ Cardinality(Before(i)) # Cardinality(CS!All)
    BY <1>0, <2>1, FS_Subset
  <2> QED
    BY <1>0, <1>1, <2>2 DEF Rank
<1>3. ASSUME NEW i \in CS!All, NEW j \in CS!All, CS!Larger(i, j) PROVE Rank(i) < Rank(j)
  <2>1. Before(i) \subseteq Before(j) /\ i \in Before(j) /\ i \notin Before(i)
    BY <1>3, LargerIsOrder DEF Before
  <2>2. Cardinality(Before(i)) <= Cardinality(Before(j)) /\ Cardinality(Before(i)) # Cardinality(Before(j))
    BY <1>1, <2>1, FS_Subset
  <2> QED
    BY <1>1, <2>2 DEF Rank
<1> QED
  BY <1>0, <1>1, <1>2, <1>3

LEMMA LargestIs ==
  ASSUME NEW n \in Nat
  PROVE  CS!Largest(n) = {i \in CS!All : Rank(i) < n}
<1>1. \A i : CS!Cardinality({j \in CS!All : CS!Larger(j, i)}) = Rank(i)
  BY SameCounting DEF Rank, Before
<1> QED
  BY <1>1 DEF CS!Largest

\* The coins are ranked 0, 1, 2, ...
LEMMA RankIsTaken ==
  ASSUME coins \in CS!Wallets, NEW n \in 0..Len(coins) - 1
  PROVE  \E i \in CS!All : Rank(i) = n
<1> DEFINE f == [i \in CS!All |-> Rank(i)]
           N == Len(coins)
<1>0. N \in Nat /\ IsFiniteSet(CS!All) /\ Cardinality(CS!All) = N
  BY WalletIs
<1>1. IsFiniteSet(0..N - 1) /\ Cardinality(0..N - 1) = N
  <2>1. 0 \in Int /\ N - 1 \in Int
    BY <1>0
  <2>2. IsFiniteSet(0..N - 1) /\ Cardinality(0..N - 1) = IF 0 > N - 1 THEN 0 ELSE (N - 1) - 0 + 1
    BY <2>1, FS_Interval
  <2> HIDE DEF N
  <2> QED
    BY <1>0, <2>2
<1>2. f \in [CS!All -> 0..N - 1]
  BY Ranks
<1>3. ASSUME NEW i \in CS!All, NEW j \in CS!All, i # j PROVE f[i] # f[j]
  <2>1. Rank(i) \in Nat /\ Rank(j) \in Nat
    BY <1>0, Ranks
  <2>2. Rank(i) < Rank(j) \/ Rank(j) < Rank(i)
    BY <1>3, Ranks, LargerIsOrder
  <2> QED
    BY <2>1, <2>2
<1>4. f \in Injection(CS!All, 0..N - 1)
  BY <1>2, <1>3 DEF Injection, IsInjective
<1>5. f \in Surjection(CS!All, 0..N - 1)
  BY <1>0, <1>1, <1>4, FS_Injection
<1> QED
  BY <1>5 DEF Surjection

LEMMA LargestGrows ==
  ASSUME coins \in CS!Wallets, NEW n \in 1..Len(coins)
  PROVE  \E x \in CS!All \ CS!Largest(n - 1) :
           /\ CS!Largest(n) = CS!Largest(n - 1) \cup {x}
           /\ \A t \in CS!All \ CS!Largest(n - 1) : coins[t].value <= coins[x].value
<1>0. Len(coins) \in Nat /\ n \in Nat /\ n - 1 \in Nat /\ n - 1 \in 0..Len(coins) - 1
  BY WalletIs
<1>1. PICK x \in CS!All : Rank(x) = n - 1
  BY <1>0, RankIsTaken
<1>2. \A i \in CS!All : Rank(i) \in Nat
  BY <1>0, Ranks
<1>3. /\ CS!Largest(n) = {i \in CS!All : Rank(i) < n}
      /\ CS!Largest(n - 1) = {i \in CS!All : Rank(i) < n - 1}
  BY <1>0, LargestIs
<1>4. ASSUME NEW t \in CS!All, t \notin CS!Largest(n - 1)
      PROVE  t = x \/ (CS!Larger(x, t) /\ Rank(t) # n - 1)
  <2>1. ~(Rank(t) < Rank(x))
    BY <1>1, <1>3, <1>4
  <2>2. t = x \/ CS!Larger(x, t)
    BY <2>1, Ranks, LargerIsOrder
  <2>3. CS!Larger(x, t) => Rank(x) < Rank(t)
    BY Ranks
  <2> QED
    BY <1>0, <1>1, <1>2, <2>2, <2>3
<1>5. x \notin CS!Largest(n - 1)
  BY <1>0, <1>1, <1>3
<1>6. CS!Largest(n) = CS!Largest(n - 1) \cup {x}
  <2>1. x \in CS!Largest(n) /\ CS!Largest(n - 1) \subseteq CS!Largest(n)
    BY <1>0, <1>1, <1>2, <1>3
  <2>2. ASSUME NEW t \in CS!Largest(n), t \notin CS!Largest(n - 1) PROVE t = x
    <3>1. t \in CS!All /\ Rank(t) < n /\ ~(Rank(t) < n - 1)
      BY <1>3, <2>2
    <3>2. Rank(t) = n - 1
      BY <1>0, <1>2, <3>1
    <3> QED
      BY <1>4, <2>2, <3>1, <3>2
  <2> QED
    BY <2>1, <2>2
<1>7. \A t \in CS!All \ CS!Largest(n - 1) : coins[t].value <= coins[x].value
  <2> TAKE t \in CS!All \ CS!Largest(n - 1)
  <2>1. coins[t].value \in Nat /\ coins[x].value \in Nat
    BY WalletIs
  <2>2. CS!Larger(x, t) => coins[x].value >= coins[t].value
    BY LargerIsOrder
  <2> QED
    BY <1>4, <2>1, <2>2
<1> QED
  BY <1>5, <1>6, <1>7

LEMMA LargestCounts ==
  ASSUME coins \in CS!Wallets, NEW n \in 0..Len(coins)
  PROVE  /\ CS!Largest(n) \subseteq CS!All /\ IsFiniteSet(CS!Largest(n))
         /\ Cardinality(CS!Largest(n)) = n
<1> DEFINE Bad == {k \in 0..Len(coins) : Cardinality(CS!Largest(k)) # k}
<1>0. Len(coins) \in Nat /\ IsFiniteSet(CS!All)
  BY WalletIs
<1>1. \A k : CS!Largest(k) \subseteq CS!All /\ IsFiniteSet(CS!Largest(k))
  <2> TAKE k
  <2>1. CS!Largest(k) \subseteq CS!All
    BY DEF CS!Largest
  <2> QED
    BY <1>0, <2>1, FS_Subset
<1>2. Bad = {}
  <2> SUFFICES ASSUME Bad # {} PROVE FALSE
    OBVIOUS
  <2>1. Bad \in SUBSET Nat
    BY <1>0
  <2>2. PICK k \in Bad : \A l \in Bad : k <= l
    BY <2>1, LeastNumber
  <2>3. 0 \notin Bad
    <3>1. CS!Largest(0) = {i \in CS!All : Rank(i) < 0}
      BY LargestIs
    <3>2. \A i \in CS!All : Rank(i) \in 0..Len(coins) - 1
      BY Ranks
    <3>3. CS!Largest(0) = {}
      BY <1>0, <3>1, <3>2
    <3> QED
      BY <3>3, FS_EmptySet
  <2>4. k \in 1..Len(coins) /\ k - 1 \in 0..Len(coins) /\ k - 1 \notin Bad
    BY <1>0, <2>2, <2>3
  <2>5. PICK x \in CS!All \ CS!Largest(k - 1) : CS!Largest(k) = CS!Largest(k - 1) \cup {x}
    BY <2>4, LargestGrows
  <2>6. Cardinality(CS!Largest(k)) = Cardinality(CS!Largest(k - 1)) + 1
    BY <1>1, <2>5, FS_AddElement
  <2>7. Cardinality(CS!Largest(k - 1)) = k - 1
    BY <2>4
  <2> QED
    BY <1>0, <2>2, <2>4, <2>6, <2>7
<1> QED
  BY <1>1, <1>2

\* No n coins hold more than the n largest.
LEMMA LargestHoldMost ==
  ASSUME coins \in CS!Wallets, NEW T \in SUBSET CS!All
  PROVE  /\ Cardinality(T) \in 0..Len(coins)
         /\ CS!Value(T) <= CS!Value(CS!Largest(Cardinality(T)))
<1> DEFINE Less(S) == CS!Value(S) <= CS!Value(CS!Largest(Cardinality(S)))
           Bad == {k \in 0..Len(coins) : \E S \in SUBSET CS!All : Cardinality(S) = k /\ ~Less(S)}
<1>0. Len(coins) \in Nat /\ IsFiniteSet(CS!All) /\ Cardinality(CS!All) = Len(coins)
  BY WalletIs
<1>1. \A S \in SUBSET CS!All : IsFiniteSet(S) /\ Cardinality(S) \in 0..Len(coins)
  <2> TAKE S \in SUBSET CS!All
  <2>1. IsFiniteSet(S) /\ Cardinality(S) <= Cardinality(CS!All) /\ Cardinality(S) \in Nat
    BY <1>0, FS_Subset, FS_CardinalityType
  <2> QED
    BY <1>0, <2>1
<1>2. Bad = {}
  <2> SUFFICES ASSUME Bad # {} PROVE FALSE
    OBVIOUS
  <2>1. Bad \in SUBSET Nat
    BY <1>0
  <2>2. PICK k \in Bad : \A l \in Bad : k <= l
    BY <2>1, LeastNumber
  <2>3. PICK S \in SUBSET CS!All : Cardinality(S) = k /\ ~Less(S)
    BY <2>2
  <2>4. CASE k = 0
    <3>1. S = {}
      BY <1>1, <2>3, <2>4, FS_EmptySet
    <3>2. CS!Value(S) = 0 /\ CS!Value(CS!Largest(Cardinality(S))) \in 0..Word - 1
      BY <3>1, ValueOfNone, ValueFits
    <3>3. Word \in Nat
      BY SelectionAssumption DEF SelectionAssumption
    <3> QED
      BY <2>3, <3>2, <3>3
  <2>5. CASE k # 0
    <3>1. k \in 1..Len(coins) /\ k - 1 \in 0..Len(coins) /\ k - 1 \notin Bad
      BY <1>0, <2>2, <2>5
    <3> DEFINE L == CS!Largest(k - 1)
    <3>2. PICK x \in CS!All \ L :
            /\ CS!Largest(k) = L \cup {x}
            /\ \A t \in CS!All \ L : coins[t].value <= coins[x].value
      BY <3>1, LargestGrows
    <3>3. L \subseteq CS!All /\ IsFiniteSet(L) /\ Cardinality(L) = k - 1
      BY <3>1, LargestCounts
    <3>4. PICK t \in S : t \notin L
      <4> SUFFICES ASSUME S \subseteq L PROVE FALSE
        OBVIOUS
      <4>1. Cardinality(S) <= Cardinality(L)
        BY <3>3, FS_Subset
      <4> QED
        BY <2>3, <3>1, <3>3, <4>1
    <3> DEFINE R == S \ {t}
    <3>5. Cardinality(R) = k - 1 /\ R \in SUBSET CS!All /\ S = R \cup {t} /\ t \notin R /\ t \in CS!All
      BY <1>1, <2>3, <3>4, FS_RemoveElement
    <3>6. CS!Value(R) <= CS!Value(L)
      <4>1. Less(R)
        BY <3>1, <3>5
      <4> QED
        BY <3>5, <4>1
    <3>7. CS!Value(S) = CS!Value(R) + coins[t].value
      BY <3>5, ValueWith
    <3>8. CS!Value(CS!Largest(k)) = CS!Value(L) + coins[x].value
      BY <3>2, ValueWith
    <3>9. coins[t].value <= coins[x].value /\ coins[t].value \in Nat /\ coins[x].value \in Nat
      BY <3>2, <3>4, <3>5, WalletIs
    <3>10. CS!Value(R) \in Nat /\ CS!Value(L) \in Nat
      BY ValueFits, SelectionAssumption DEF SelectionAssumption
    <3>11. CS!Value(S) <= CS!Value(CS!Largest(k))
      <4>1. PICK p \in Nat, q \in Nat, u \in Nat, v \in Nat :
              /\ p = CS!Value(R) /\ q = CS!Value(L)
              /\ u = coins[t].value /\ v = coins[x].value
        BY <3>9, <3>10
      <4>2. p <= q /\ u <= v
        BY <3>6, <3>9, <4>1
      <4>3. p + u <= q + v
        BY <4>2
      <4> QED
        BY <3>7, <3>8, <4>1, <4>3
    <3> QED
      BY <2>3, <3>11
  <2> QED
    BY <2>4, <2>5
<1>3. Cardinality(T) \in 0..Len(coins) /\ Cardinality(T) \notin Bad
  BY <1>1, <1>2
<1> QED
  BY <1>3

-----------------------------------------------------------------------------
(* Coin selection: payments and fees *)

\* The fee of a transaction with n inputs, as it is and not as it may wrap.
Cost(n) == request.rate * (10 + 148 * n + 34 * CS!num_outputs)

LEMMA RequestIs ==
  ASSUME request \in CS!Requests
  PROVE  /\ request.rate \in Nat /\ CS!Paid \in 0..Word - 1 /\ CS!total_payment = CS!Paid
         /\ CS!num_outputs \in 1..Len(request.payments) + 2
         /\ request.payments \in Payments /\ request.rate \in Rates /\ Len(request.payments) \in Nat
         /\ CS!DataOutputs \in Nat /\ CS!num_outputs = CS!DataOutputs + 1
<1> USE SelectionAssumption DEF SelectionAssumption
<1>1. /\ request.rate \in Rates /\ request.payments \in Payments /\ request.op_return \in BOOLEAN
      /\ request.payments \in Seq(Nat)
  BY DEF CS!Requests
<1>2. CS!Paid \in Nat
  <2>1. PICK f \in [0..Len(request.payments) -> Nat] : CS!Total(request.payments) = f[Len(request.payments)]
    BY <1>1, TotalAdds
  <2>2. Len(request.payments) \in 0..Len(request.payments)
    BY <1>1
  <2> QED
    BY <2>1, <2>2 DEF CS!Paid
<1>3. CS!Paid < Word
  BY <1>1 DEF CS!Paid
<1>4. CS!total_payment = CS!Paid
  BY <1>2, <1>3 DEF CS!total_payment, CS!Wrap
<1>5. Len(request.payments) \in Nat
  BY <1>1
<1>6. /\ CS!DataOutputs \in Nat /\ CS!num_outputs = CS!DataOutputs + 1
      /\ CS!num_outputs \in 1..Len(request.payments) + 2
  <2>1. CASE request.op_return
    BY <1>5, <2>1 DEF CS!num_outputs, CS!DataOutputs
  <2>2. CASE ~request.op_return
    BY <1>5, <2>2 DEF CS!num_outputs, CS!DataOutputs
  <2> QED
    BY <2>1, <2>2
<1>7. request.rate \in Nat
  BY <1>1
<1>8. CS!Paid \in 0..Word - 1
  BY <1>2, <1>3
<1> QED
  BY <1>1, <1>4, <1>5, <1>6, <1>7, <1>8

LEMMA CostIs ==
  ASSUME request \in CS!Requests, NEW n \in 0..MaxCoins
  PROVE  Cost(n) \in 0..Word - 1 /\ CS!estimate_fee(n, CS!num_outputs) = Cost(n)
<1> USE SelectionAssumption DEF SelectionAssumption
<1> DEFINE size == 10 + 148 * n + 34 * CS!num_outputs
           rate == request.rate
<1>1. size \in Nat /\ rate \in Nat /\ n \in Nat
  BY RequestIs
<1>2. size * rate < Word
  BY RequestIs, ZenonT(60)
<1>3. CS!estimate_fee(n, CS!num_outputs) = (size * rate) % Word
  BY DEF CS!estimate_fee, CS!Wrap
<1>4. Cost(n) = rate * size
  BY DEF Cost
<1> HIDE DEF size, rate
<1>5. size * rate \in Nat /\ rate * size = size * rate
  BY <1>1
<1>6. PICK c \in Nat : c = size * rate
  BY <1>5
<1>7. c % Word = c /\ c \in 0..Word - 1
  BY <1>2, <1>6
<1> QED
  BY <1>3, <1>4, <1>5, <1>6, <1>7

LEMMA RateGrows ==
  ASSUME NEW rate \in Nat, NEW low \in Nat, NEW high \in Nat, low <= high
  PROVE  rate * low \in Nat /\ rate * high \in Nat /\ rate * low <= rate * high
<1>1. PICK d \in Nat : high = low + d
  <2>1. high - low \in Nat /\ high = low + (high - low)
    OBVIOUS
  <2> QED
    BY <2>1
<1>2. rate * high = rate * low + rate * d /\ rate * d \in Nat /\ rate * low \in Nat
  BY <1>1
<1> QED
  BY <1>2

LEMMA CostGrows ==
  ASSUME request \in CS!Requests, NEW m \in Nat, NEW n \in Nat, m <= n
  PROVE  Cost(m) \in Nat /\ Cost(n) \in Nat /\ Cost(m) <= Cost(n)
<1> DEFINE low == 10 + 148 * m + 34 * CS!num_outputs
           high == 10 + 148 * n + 34 * CS!num_outputs
           rate == request.rate
<1>1. low \in Nat /\ high \in Nat /\ rate \in Nat /\ low <= high
  BY RequestIs, SMTT(30)
<1>2. Cost(m) = rate * low /\ Cost(n) = rate * high
  BY DEF Cost
<1> HIDE DEF low, high, rate
<1> QED
  BY <1>1, <1>2, RateGrows

LEMMA PayingIs ==
  ASSUME coins \in CS!Wallets, request \in CS!Requests, NEW S \in SUBSET CS!All
  PROVE  /\ Cardinality(S) \in 0..Len(coins) /\ Cardinality(S) \in 0..MaxCoins
         /\ CS!FeeFor(S) = Cost(Cardinality(S)) /\ CS!FeeFor(S) \in 0..Word - 1
         /\ CS!CanPay(S) <=> CS!Value(S) >= CS!Paid + Cost(Cardinality(S))
<1>1. Cardinality(S) \in 0..Len(coins) /\ Cardinality(S) \in 0..MaxCoins
  <2>1. Cardinality(S) \in 0..Len(coins) /\ Len(coins) \in 0..MaxCoins
    BY LargestHoldMost, WalletIs
  <2> QED
    BY <2>1, SelectionAssumption DEF SelectionAssumption
<1>2. CS!FeeFor(S) = Cost(Cardinality(S)) /\ CS!FeeFor(S) \in 0..Word - 1
  BY <1>1, CostIs, SameCounting DEF CS!FeeFor
<1>3. CS!CanPay(S) <=> CS!Value(S) >= CS!Paid + Cost(Cardinality(S))
  BY SameCounting DEF CS!CanPay, Cost
<1> QED
  BY <1>1, <1>2, <1>3

\* The parts of the state that no step changes.
LEMMA SameCoins ==
  ASSUME coins' = coins, request' = request
  PROVE  /\ CS!All' = CS!All /\ CS!Paid' = CS!Paid /\ CS!total_payment' = CS!total_payment
         /\ CS!num_outputs' = CS!num_outputs /\ CS!DataOutputs' = CS!DataOutputs
         /\ CS!Value(selected)' = CS!Value(selected')
         /\ (coins \in CS!Wallets)' <=> coins \in CS!Wallets
         /\ (request \in CS!Requests)' <=> request \in CS!Requests
         /\ \A S : CS!CanPay(S)' <=> CS!CanPay(S)
         /\ \A n : CS!estimate_fee(n, CS!num_outputs)' = CS!estimate_fee(n, CS!num_outputs)
<1>1. /\ CS!All' = CS!All /\ CS!Paid' = CS!Paid
      /\ (coins \in CS!Wallets)' <=> coins \in CS!Wallets
      /\ (request \in CS!Requests)' <=> request \in CS!Requests
      /\ \A S : CS!Value(S)' = CS!Value(S)
  BY DEF CS!All, CS!Paid, CS!Wallets, CS!Requests, CS!Value
<1>2. CS!DataOutputs' = CS!DataOutputs /\ CS!num_outputs' = CS!num_outputs
  BY DEF CS!DataOutputs, CS!num_outputs
<1>3. CS!total_payment' = CS!total_payment
  BY <1>1 DEF CS!total_payment
<1>4. CS!Value(selected)' = CS!Value(selected')
  BY DEF CS!Value
<1>5. \A S : CS!CanPay(S)' <=> CS!CanPay(S)
  BY <1>1, <1>2 DEF CS!CanPay
<1>6. \A n : CS!estimate_fee(n, CS!num_outputs)' = CS!estimate_fee(n, CS!num_outputs)
  BY <1>2 DEF CS!estimate_fee
<1> QED
  BY <1>1, <1>2, <1>3, <1>4, <1>5, <1>6

\* A step that ends in an error leaves the amounts alone.
LEMMA StopsWell ==
  ASSUME CS!IInv, coins' = coins, request' = request, NEW error \in CS!Ended, CS!Stop(error),
         error # "done",
         error = "InsufficientFunds" /\ request.strategy = "largest_first"
           => \A S \in SUBSET CS!All : ~CS!CanPay(S)
  PROVE  CS!IInv'
<1>1. status' = error /\ fee' = fee /\ selected' = selected /\ change' = change
  BY DEF CS!Stop
<1>2. CS!TypeOK'
  BY <1>1, SameCoins DEF CS!IInv, CS!TypeOK, CS!Ended
<1>3. CS!ShortOnlyIfUnpayable'
  BY <1>1, SameCoins DEF CS!ShortOnlyIfUnpayable
<1>4. CS!RoundInv' /\ CS!PaysItsWay' /\ CS!FewestInputs'
  BY <1>1 DEF CS!RoundInv, CS!PaysItsWay, CS!FewestInputs, CS!Ended
<1> QED
  BY <1>2, <1>3, <1>4 DEF CS!IInv

\* A transaction whose coins hold the payment and the fee for what is selected.
LEMMA FinishesWell ==
  ASSUME CS!IInv, coins' = coins, request' = request, NEW S \in SUBSET CS!All,
         CS!Finish(S, CS!FeeFor(S)), CS!Value(S) >= CS!total_payment + CS!FeeFor(S),
         request.strategy = "largest_first"
           => \A T \in SUBSET CS!All : CS!CanPay(T) => Cardinality(T) >= Cardinality(S)
  PROVE  CS!IInv'
<1> DEFINE k == Cardinality(S)
<1>0. coins \in CS!Wallets /\ request \in CS!Requests
  BY DEF CS!IInv, CS!TypeOK
<1>1. /\ status' = "done" /\ fee' = CS!FeeFor(S) /\ selected' = S
      /\ change' = CS!Value(S) - (CS!total_payment + CS!FeeFor(S))
  BY DEF CS!Finish
<1>2. /\ k \in Nat /\ CS!FeeFor(S) = Cost(k) /\ CS!FeeFor(S) \in 0..Word - 1
      /\ CS!total_payment = CS!Paid /\ CS!Paid \in Nat /\ CS!Value(S) \in 0..Word - 1
      /\ request.rate \in Nat /\ CS!DataOutputs \in Nat /\ CS!num_outputs = CS!DataOutputs + 1
      /\ Word \in Nat
  BY <1>0, PayingIs, RequestIs, ValueFits, SelectionAssumption DEF SelectionAssumption
<1>3. change' \in 0..Word - 1
  BY <1>1, <1>2
<1>4. CS!TypeOK'
  BY <1>0, <1>1, <1>2, <1>3, SameCoins DEF CS!TypeOK, CS!Ended
<1>5. CS!PaysItsWay'
  <2> DEFINE more == IF change' > 0 THEN 1 ELSE 0
             low == 10 + 148 * k + 34 * (CS!DataOutputs + more)
             high == 10 + 148 * k + 34 * CS!num_outputs
  <2>1. more \in 0..1
    OBVIOUS
  <2>2. low \in Nat /\ high \in Nat /\ low <= high
    <3> HIDE DEF more
    <3> QED
      BY <1>2, <2>1
  <2>3. Cost(k) = request.rate * high
    BY DEF Cost
  <2>4. request.rate * low <= request.rate * high
    <3> HIDE DEF low, high
    <3> QED
      BY <1>2, <2>2, RateGrows
  <2>5. CS!Value(S) - CS!Paid - change' = Cost(k)
    <3>1. PICK c \in Nat : c = Cost(k)
      BY <1>2
    <3> QED
      BY <1>1, <1>2, <3>1
  <2>6. CS!Value(S) - CS!Paid - change' >= request.rate * low
    BY <2>3, <2>4, <2>5
  <2>7. CS!Value(selected)' = CS!Value(S) /\ CS!Cardinality(selected)' = k
    BY <1>1, SameCoins, SameCounting
  <2>8. CS!Value(selected)' - CS!Paid' - change' >= request'.rate * low
    BY <2>6, <2>7, SameCoins
  <2> QED
    BY <2>7, <2>8, SameCoins DEF CS!PaysItsWay
<1>6. CS!FewestInputs'
  BY <1>1, SameCoins, SameCounting DEF CS!FewestInputs
<1>7. CS!RoundInv' /\ CS!ShortOnlyIfUnpayable'
  BY <1>1 DEF CS!RoundInv, CS!ShortOnlyIfUnpayable
<1> QED
  BY <1>4, <1>5, <1>6, <1>7 DEF CS!IInv

-----------------------------------------------------------------------------
(* Coin selection: the rounds of largest-first *)

\* FirstLargest is the shortest list of the largest coins that is enough, if any is.
LEMMA FirstLargestIs ==
  ASSUME coins \in CS!Wallets, NEW enough
  PROVE  \/ /\ CS!FirstLargest(enough) = {}
            /\ \A m \in 1..Len(coins) : CS!Largest(m) \notin enough
         \/ \E n \in 1..Len(coins) :
              /\ CS!FirstLargest(enough) = CS!Largest(n) /\ CS!Largest(n) \in enough
              /\ CS!Largest(n) # {}
              /\ \A m \in 1..n - 1 : CS!Largest(m) \notin enough
<1> DEFINE counts == {n \in 1..Len(coins) : CS!Largest(n) \in enough}
<1>0. Len(coins) \in Nat
  BY WalletIs
<1>1. CASE counts = {}
  BY <1>1 DEF CS!FirstLargest
<1>2. CASE counts # {}
  <2>1. counts \in SUBSET Nat
    BY <1>0
  <2>2. PICK n \in counts : \A m \in counts : n <= m
    BY <1>2, <2>1, LeastNumber
  <2>3. CS!Min(counts) = n
    <3>1. \A x \in counts : (\A m \in counts : x <= m) => x = n
      BY <2>1, <2>2
    <3> HIDE DEF counts
    <3> QED
      BY <2>2, <3>1 DEF CS!Min
  <2>4. CS!FirstLargest(enough) = CS!Largest(n)
    BY <1>2, <2>3 DEF CS!FirstLargest
  <2>5. n \in 1..Len(coins) /\ CS!Largest(n) \in enough
    BY <2>2
  <2>6. CS!Largest(n) # {}
    <3>1. Cardinality(CS!Largest(n)) = n /\ n # 0
      BY <1>0, <2>5, LargestCounts
    <3> QED
      BY <3>1, FS_EmptySet
  <2>7. \A m \in 1..n - 1 : m \notin counts /\ m \in 1..Len(coins)
    BY <1>0, <2>2, <2>5
  <2>8. \A m \in 1..n - 1 : CS!Largest(m) \notin enough
    BY <2>7
  <2> QED
    BY <2>4, <2>5, <2>6, <2>8
<1> QED
  BY <1>1, <1>2

LEMMA FirstLargestFits ==
  ASSUME coins \in CS!Wallets, NEW enough
  PROVE  CS!FirstLargest(enough) \in SUBSET CS!All
<1>1. \A n : CS!Largest(n) \subseteq CS!All
  BY DEF CS!Largest
<1> QED
  BY <1>1, FirstLargestIs

\* With the fee of j coins selected for, too few coins are short: fewer than j
\* by what earlier rounds found, and others because their own fee is no smaller.
LEMMA ShortBelow ==
  ASSUME coins \in CS!Wallets, request \in CS!Requests, CS!total_payment > 0,
         NEW j \in 1..MaxCoins, fee = Cost(j),
         \A S \in SUBSET CS!All : CS!CanPay(S) => Cardinality(S) >= j,
         NEW n \in Nat,
         \A m \in 1..n - 1 : CS!Value(CS!Largest(m)) < CS!total_payment + fee,
         NEW S \in SUBSET CS!All, CS!CanPay(S)
  PROVE  Cardinality(S) >= n
<1> DEFINE m == Cardinality(S)
<1>1. /\ m \in Nat /\ CS!Value(S) >= CS!Paid + Cost(m) /\ CS!total_payment = CS!Paid
      /\ CS!Paid \in Nat /\ j \in Nat
  BY PayingIs, RequestIs, SelectionAssumption, WalletIs DEF SelectionAssumption
<1>2. m >= j
  OBVIOUS
<1>3. Cost(j) \in Nat /\ Cost(m) \in Nat /\ Cost(j) <= Cost(m)
  <2> HIDE DEF m
  <2> QED
    BY <1>1, <1>2, CostGrows
<1>4. /\ CS!Value(S) \in Nat /\ CS!Value(CS!Largest(m)) \in Nat
      /\ CS!Value(S) <= CS!Value(CS!Largest(m))
  BY ValueFits, LargestHoldMost, SelectionAssumption DEF SelectionAssumption
<1>5. ~(CS!Value(CS!Largest(m)) < CS!total_payment + fee)
  <2> HIDE DEF m
  <2> QED
    BY <1>1, <1>3, <1>4
<1>6. m >= 1
  BY <1>1, <1>2
<1>7. m \notin 1..n - 1
  BY <1>5
<1> HIDE DEF m
<1>8. m >= n
  BY <1>1, <1>6, <1>7
<1> QED
  BY <1>8 DEF m

LEMMA EstimateIs ==
  ASSUME request \in CS!Requests, NEW n \in 1..MaxCoins
  PROVE  CS!estimate_fee(n, CS!num_outputs) = Cost(n)
<1>1. n \in 0..MaxCoins
  BY SelectionAssumption DEF SelectionAssumption
<1> QED
  BY <1>1, CostIs

LEMMA Selected ==
  ASSUME CS!IInv, CS!Select
  PROVE  CS!IInv' /\ (status' = "selecting" => fee' > fee)
<1> DEFINE C == CS!Covering
           enough == {S \in SUBSET CS!All : CS!Value(S) >= CS!total_payment + fee}
<1>0. /\ coins \in CS!Wallets /\ request \in CS!Requests /\ coins' = coins /\ request' = request
      /\ status = "selecting" /\ request.strategy = "largest_first"
      /\ CS!total_payment > 0 /\ CS!total_payment = CS!Paid /\ CS!Paid \in Nat
      /\ fee \in Nat /\ Word \in Nat /\ Len(coins) \in Nat
  BY RequestIs, WalletIs, SelectionAssumption
     DEF CS!Select, CS!IInv, CS!TypeOK, CS!RoundInv, SelectionAssumption
<1>1. PICK j \in 1..MaxCoins :
        /\ fee = Cost(j)
        /\ \A S \in SUBSET CS!All : CS!CanPay(S) => Cardinality(S) >= j
  BY <1>0, EstimateIs, SameCounting DEF CS!IInv, CS!RoundInv
<1>2. ASSUME NEW error \in {"NoUtxos", "InvalidOutput"}, CS!Stop(error)
      PROVE  CS!IInv' /\ status' # "selecting"
  <2>1. error \in CS!Ended /\ error # "done" /\ error # "InsufficientFunds" /\ error # "selecting"
    BY DEF CS!Ended
  <2>2. status' = error
    BY <1>2 DEF CS!Stop
  <2> QED
    BY <1>0, <1>2, <2>1, <2>2, StopsWell
<1>3. C = CS!FirstLargest(enough) /\ C \in SUBSET CS!All
  BY <1>0, FirstLargestFits DEF CS!Covering
<1>4. \A m \in Nat : CS!Largest(m) \notin enough => CS!Value(CS!Largest(m)) < CS!total_payment + fee
  <2> TAKE m \in Nat
  <2>1. CS!Largest(m) \in SUBSET CS!All
    BY DEF CS!Largest
  <2>2. CS!Value(CS!Largest(m)) \in Nat
    BY <1>0, ValueFits
  <2> QED
    BY <1>0, <2>1, <2>2
<1>5. CASE C = {} /\ CS!Stop("InsufficientFunds")
  <2>1. \A m \in 1..Len(coins) : CS!Largest(m) \notin enough
    <3> HIDE DEF enough
    <3> QED
      BY <1>0, <1>3, <1>5, FirstLargestIs
  <2>2. \A m \in 1..(Len(coins) + 1) - 1 : CS!Value(CS!Largest(m)) < CS!total_payment + fee
    <3> HIDE DEF enough
    <3> QED
      BY <1>0, <1>4, <2>1
  <2>3. ASSUME NEW S \in SUBSET CS!All, CS!CanPay(S) PROVE FALSE
    <3>1. Cardinality(S) >= Len(coins) + 1
      <4>1. Len(coins) + 1 \in Nat
        BY <1>0
      <4> QED
        BY <1>0, <1>1, <2>2, <2>3, <4>1, ShortBelow
    <3>2. Cardinality(S) \in 0..Len(coins)
      BY <1>0, LargestHoldMost
    <3> QED
      BY <1>0, <3>1, <3>2
  <2>4. status' = "InsufficientFunds"
    BY <1>5 DEF CS!Stop
  <2>5. "InsufficientFunds" \in CS!Ended
    BY DEF CS!Ended
  <2> QED
    BY <1>0, <1>5, <2>3, <2>4, <2>5, StopsWell
<1>6. CASE C # {}
  <2>1. PICK n \in 1..Len(coins) :
          /\ C = CS!Largest(n) /\ CS!Largest(n) \in enough
          /\ \A m \in 1..n - 1 : CS!Largest(m) \notin enough
    <3> HIDE DEF enough
    <3> QED
      BY <1>0, <1>3, <1>6, FirstLargestIs
  <2>2. n \in Nat /\ n \in 1..MaxCoins /\ n \in 0..Len(coins) /\ 1..n - 1 \subseteq Nat
    <3>1. Len(coins) \in 0..MaxCoins
      BY <1>0, WalletIs
    <3> QED
      BY <1>0, <3>1, SelectionAssumption DEF SelectionAssumption
  <2>3. Cardinality(C) = n
    BY <1>0, <2>1, <2>2, LargestCounts
  <2>4. CS!FeeFor(C) = Cost(n)
    BY <1>0, <1>3, <2>3, PayingIs
  <2>5. \A m \in 1..n - 1 : CS!Value(CS!Largest(m)) < CS!total_payment + fee
    BY <1>4, <2>1, <2>2
  <2>6. \A S \in SUBSET CS!All : CS!CanPay(S) => Cardinality(S) >= n
    BY <1>0, <1>1, <2>2, <2>5, ShortBelow
  <2>7. CS!Value(C) >= CS!total_payment + fee
    BY <2>1
  <2>8. CASE CS!FeeFor(C) = fee /\ CS!Finish(C, fee)
    <3>1. status' = "done"
      BY <2>8 DEF CS!Finish
    <3> HIDE DEF C
    <3> QED
      BY <1>0, <1>3, <2>3, <2>6, <2>7, <2>8, <3>1, FinishesWell
  <2>9. CASE /\ CS!FeeFor(C) # fee /\ fee' = CS!FeeFor(C)
             /\ UNCHANGED <<status, selected, change>>
    <3>1. n >= j
      <4> SUFFICES ASSUME n < j PROVE FALSE
        BY <1>1, <2>2
      <4>1. Cost(n) \in Nat /\ Cost(n) <= Cost(j)
        BY <1>0, <1>1, <2>2, CostGrows
      <4>2. CS!Value(C) >= CS!Paid + Cost(n)
        <5>1. CS!Value(C) \in Nat
          BY <1>0, ValueFits
        <5> HIDE DEF C
        <5> QED
          BY <1>0, <1>1, <2>7, <4>1, <5>1
      <4>3. CS!CanPay(C)
        BY <1>0, <1>3, <2>3, <4>2, PayingIs
      <4> QED
        BY <1>1, <1>3, <2>2, <2>3, <4>3
    <3>2. fee' > fee
      <4>1. Cost(j) <= Cost(n) /\ Cost(n) \in Nat /\ Cost(j) \in Nat
        BY <1>0, <1>1, <2>2, <3>1, CostGrows
      <4> QED
        BY <1>1, <2>4, <2>9, <4>1
    <3>3. fee' \in 0..Word - 1
      BY <1>0, <1>3, <2>9, PayingIs
    <3>4. CS!TypeOK'
      BY <1>0, <2>9, <3>3, SameCoins DEF CS!IInv, CS!TypeOK
    <3>5. CS!RoundInv'
      <4>1. fee' = CS!estimate_fee(n, CS!num_outputs)
        BY <1>0, <2>2, <2>4, <2>9, EstimateIs
      <4>2. fee' = CS!estimate_fee(n, CS!num_outputs)'
        BY <1>0, <4>1, SameCoins
      <4>3. \A S \in SUBSET CS!All' : CS!CanPay(S)' => CS!Cardinality(S) >= n
        BY <1>0, <2>6, SameCoins, SameCounting
      <4>4. CS!total_payment' > 0
        BY <1>0, SameCoins
      <4> QED
        BY <2>2, <4>2, <4>3, <4>4 DEF CS!RoundInv
    <3>6. CS!PaysItsWay' /\ CS!FewestInputs' /\ CS!ShortOnlyIfUnpayable'
      BY <1>0, <2>9 DEF CS!PaysItsWay, CS!FewestInputs, CS!ShortOnlyIfUnpayable
    <3> QED
      BY <3>2, <3>4, <3>5, <3>6 DEF CS!IInv
  <2> QED
    BY <1>0, <1>2, <1>6, <2>8, <2>9 DEF CS!Select
<1> QED
  BY <1>2, <1>5, <1>6 DEF CS!Select

-----------------------------------------------------------------------------
(* Coin selection: the coin chooser *)

\* Whatever coins the chooser returns, the fee of the real transaction decides.
LEMMA Concluded ==
  ASSUME CS!IInv, coins' = coins, request' = request, request.strategy # "largest_first",
         NEW choices, \A S \in choices : S \in SUBSET CS!All, CS!Conclude(choices)
  PROVE  CS!IInv' /\ status' # "selecting"
<1>0. coins \in CS!Wallets /\ request \in CS!Requests
  BY DEF CS!IInv, CS!TypeOK
<1>1. ASSUME NEW error \in {"InsufficientFunds", "InvalidOutput"}, CS!Stop(error)
      PROVE  CS!IInv' /\ status' # "selecting"
  <2>1. error \in CS!Ended /\ error # "done" /\ error # "selecting" /\ status' = error
    BY <1>1 DEF CS!Ended, CS!Stop
  <2> QED
    BY <1>1, <2>1, StopsWell
<1>2. ASSUME NEW S \in choices, CS!Reconcile(S)
      PROVE  CS!IInv' /\ status' # "selecting"
  <2>1. CASE CS!Value(S) >= CS!total_payment + CS!FeeFor(S) /\ CS!Finish(S, CS!FeeFor(S))
    <3>1. status' = "done" /\ S \in SUBSET CS!All
      BY <2>1 DEF CS!Finish
    <3> QED
      BY <2>1, <3>1, FinishesWell
  <2> QED
    BY <1>1, <1>2, <2>1 DEF CS!Reconcile
<1> QED
  BY <1>1, <1>2 DEF CS!Conclude

LEMMA ChosenBnb ==
  ASSUME CS!IInv, CS!ChooseBnb
  PROVE  CS!IInv' /\ status' # "selecting"
<1>0. /\ coins \in CS!Wallets /\ request' = request /\ coins' = coins
      /\ request.strategy # "largest_first"
  BY DEF CS!ChooseBnb, CS!IInv, CS!TypeOK
<1>1. ASSUME NEW error \in {"NoUtxos", "InvalidOutput"}, CS!Stop(error)
      PROVE  CS!IInv' /\ status' # "selecting"
  <2>1. /\ error \in CS!Ended /\ error # "done" /\ error # "selecting" /\ status' = error
        /\ error # "InsufficientFunds"
    BY <1>1 DEF CS!Ended, CS!Stop
  <2> QED
    BY <1>0, <1>1, <2>1, StopsWell
<1>2. \A S \in CS!BnbChoices : S \in SUBSET CS!All
  BY <1>0, FirstLargestFits DEF CS!BnbChoices, CS!BnbMatches, CS!fallback_largest_first
<1> QED
  BY <1>0, <1>1, <1>2, Concluded DEF CS!ChooseBnb

LEMMA ChosenRandom ==
  ASSUME CS!IInv, CS!ChooseRandom
  PROVE  CS!IInv' /\ status' # "selecting"
<1>0. coins' = coins /\ request' = request /\ request.strategy # "largest_first"
  BY DEF CS!ChooseRandom
<1>1. CASE CS!Stop("NoUtxos")
  <2>1. "NoUtxos" \in CS!Ended /\ status' = "NoUtxos"
    BY <1>1 DEF CS!Ended, CS!Stop
  <2> QED
    BY <1>0, <1>1, <2>1, StopsWell
<1>2. ASSUME NEW tried, CS!Conclude(CS!RandomChoices(tried))
      PROVE  CS!IInv' /\ status' # "selecting"
  <2>1. \A S \in CS!RandomChoices(tried) : S \in SUBSET CS!All
    BY DEF CS!RandomChoices, CS!Holding
  <2> QED
    BY <1>0, <1>2, <2>1, Concluded
<1> QED
  BY <1>1, <1>2 DEF CS!ChooseRandom

-----------------------------------------------------------------------------
(* Coin selection: the theorems *)

LEMMA SelectionInit == ASSUME CS!Init PROVE CS!IInv
<1>1. /\ coins \in CS!Wallets /\ request \in CS!Requests /\ status = "start"
      /\ fee = 0 /\ selected = {} /\ change = 0
  BY DEF CS!Init
<1>2. 0 \in 0..Word - 1
  BY SelectionAssumption DEF SelectionAssumption
<1>3. CS!TypeOK
  BY <1>1, <1>2 DEF CS!TypeOK
<1> QED
  BY <1>1, <1>3 DEF CS!IInv, CS!RoundInv, CS!PaysItsWay, CS!FewestInputs, CS!ShortOnlyIfUnpayable

LEMMA SelectionStarts ==
  ASSUME CS!IInv, CS!Start
  PROVE  CS!IInv'
<1>0. /\ coins \in CS!Wallets /\ request \in CS!Requests /\ coins' = coins /\ request' = request
      /\ CS!total_payment \in Nat
  BY RequestIs DEF CS!Start, CS!IInv, CS!TypeOK
<1>1. CASE CS!Stop("InvalidOutput")
  <2>1. "InvalidOutput" \in CS!Ended
    BY DEF CS!Ended
  <2> QED
    BY <1>0, <1>1, <2>1, StopsWell
<1>2. CASE /\ CS!total_payment # 0 /\ status' = "selecting"
           /\ fee' = CS!estimate_fee(1, CS!num_outputs) /\ UNCHANGED <<selected, change>>
  <2>1. 1 \in 1..MaxCoins /\ 1 \in 0..MaxCoins
    BY SelectionAssumption DEF SelectionAssumption
  <2>2. fee' \in 0..Word - 1
    BY <1>0, <1>2, <2>1, CostIs
  <2>3. CS!TypeOK'
    BY <1>0, <1>2, <2>2, SameCoins DEF CS!IInv, CS!TypeOK
  <2>4. CS!RoundInv'
    <3>1. CS!total_payment' > 0
      BY <1>0, <1>2, SameCoins
    <3>2. fee' = CS!estimate_fee(1, CS!num_outputs)'
      BY <1>0, <1>2, SameCoins
    <3>3. ASSUME NEW S \in SUBSET CS!All', CS!CanPay(S)' PROVE CS!Cardinality(S) >= 1
      <4>1. S \in SUBSET CS!All /\ CS!CanPay(S)
        BY <1>0, <3>3, SameCoins
      <4>2. /\ Cardinality(S) \in Nat /\ CS!Value(S) >= CS!Paid + Cost(Cardinality(S))
            /\ CS!Paid \in Nat /\ CS!Paid > 0
        BY <1>0, <1>2, <4>1, PayingIs, RequestIs, SelectionAssumption DEF SelectionAssumption
      <4>3. Cardinality(S) # 0
        <5> SUFFICES ASSUME Cardinality(S) = 0 PROVE FALSE
          OBVIOUS
        <5>1. S = {}
          <6>1. IsFiniteSet(S)
            BY <1>0, <4>1, WalletIs, FS_Subset
          <6> QED
            BY <6>1, FS_EmptySet
        <5>2. CS!Value(S) = 0 /\ Cost(Cardinality(S)) \in Nat
          BY <1>0, <4>2, <5>1, ValueOfNone, CostGrows
        <5> QED
          BY <4>2, <5>2
      <4> QED
        BY <4>2, <4>3, SameCounting
    <3> QED
      BY <2>1, <3>1, <3>2, <3>3 DEF CS!RoundInv
  <2>5. CS!PaysItsWay' /\ CS!FewestInputs' /\ CS!ShortOnlyIfUnpayable'
    BY <1>2 DEF CS!PaysItsWay, CS!FewestInputs, CS!ShortOnlyIfUnpayable
  <2> QED
    BY <2>3, <2>4, <2>5 DEF CS!IInv
<1> QED
  BY <1>1, <1>2 DEF CS!Start

SelectionInv == part = "selection" => CS!IInv

\* Between rounds, the fee is that of some number of coins and fewer cannot pay.
THEOREM SelectionInvariant == Spec => []SelectionInv
<1>1. Init => SelectionInv
  BY SelectionInit DEF Init, SelectionInv
<1>2. SelectionInv /\ [Next]_vars => SelectionInv'
  <2> SUFFICES ASSUME part = "selection", CS!IInv, [Next]_vars, part' = "selection"
               PROVE  CS!IInv'
    BY DEF SelectionInv, Next, vars
  <2>1. CASE CS!Next
    BY <2>1, SelectionStarts, Selected, ChosenBnb, ChosenRandom DEF CS!Next
  <2>2. CASE UNCHANGED vars
    <3>1. /\ coins' = coins /\ request' = request /\ status' = status /\ fee' = fee
          /\ selected' = selected /\ change' = change
      BY <2>2 DEF vars, selection
    <3>2. CS!TypeOK'
      BY <3>1, SameCoins DEF CS!IInv, CS!TypeOK
    <3>3. CS!RoundInv'
      BY <3>1, SameCoins DEF CS!IInv, CS!RoundInv
    <3>4. CS!PaysItsWay'
      BY <3>1, SameCoins DEF CS!IInv, CS!PaysItsWay
    <3>5. CS!FewestInputs' /\ CS!ShortOnlyIfUnpayable'
      BY <3>1, SameCoins DEF CS!IInv, CS!FewestInputs, CS!ShortOnlyIfUnpayable
    <3> QED
      BY <3>2, <3>3, <3>4, <3>5 DEF CS!IInv
  <2> QED
    BY <2>1, <2>2 DEF Next
<1> QED
  BY <1>1, <1>2, PTL DEF Spec

\* build_unsigned: for any coins, payments and rates whose amounts do not wrap, a
\* transaction that was built pays the rate for its own bytes, whatever the strategy.
THEOREM TransactionsPayTheirWay == Spec => []PaysItsWay
<1>1. SelectionInv => PaysItsWay
  BY DEF SelectionInv, PaysItsWay, CS!IInv
<1> QED
  BY <1>1, SelectionInvariant, PTL

\* build_unsigned, largest first: no smaller set of coins could have paid, and
\* funds are insufficient only if no set at all can.
THEOREM LargestFirstIsBest == Spec => []LargestIsBest
<1>1. SelectionInv => LargestIsBest
  BY DEF SelectionInv, LargestIsBest, CS!IInv
<1> QED
  BY <1>1, SelectionInvariant, PTL

\* build_unsigned: from round to round the fee only rises, so the loop over it
\* cannot oscillate.
THEOREM FeeNeverFalls == Spec => FeeOnlyRises
<1>1. SelectionInv /\ [Next]_vars =>
        [part = "selection" /\ status = "selecting" /\ status' = "selecting" => fee' > fee]_vars
  <2> SUFFICES ASSUME SelectionInv, Next, part = "selection", status = "selecting",
                      status' = "selecting"
               PROVE  fee' > fee
    OBVIOUS
  <2>1. CS!IInv /\ CS!Next
    BY DEF SelectionInv, Next
  <2>2. ~CS!Start
    BY DEF CS!Start
  <2> QED
    BY <2>1, <2>2, Selected, ChosenBnb, ChosenRandom DEF CS!Next
<1> QED
  BY <1>1, SelectionInvariant, PTL DEF Spec, FeeOnlyRises

-----------------------------------------------------------------------------
(* Proofs of inclusion: numbers digit by digit *)

\* The values of a function that is defined by recursion over the numbers up to n.
\* G, fed with its own results.
Stays(G, n, T) == \A i \in 1..n, y \in T : G[<<i, y>>] \in T
Iterates(G, n, x, T) == \E f \in [0..n -> T] : f[0] = x /\ \A i \in 1..n : f[i] = G[<<i, f[i - 1]>>]

LEMMA Repeated ==
  ASSUME NEW T, NEW n \in Nat, NEW x \in T, NEW G, Stays(G, n, T)
  PROVE  Iterates(G, n, x, T)
<1> DEFINE Until(k) == \E f \in [0..k -> T] : f[0] = x /\ \A i \in 1..k : f[i] = G[<<i, f[i - 1]>>]
           Bad == {k \in 0..n : ~Until(k)}
<1>1. Until(0)
  <2> DEFINE g == [i \in 0..0 |-> x]
  <2>1. g \in [0..0 -> T] /\ g[0] = x /\ 1..0 = {}
    OBVIOUS
  <2> QED
    BY <2>1
<1>2. ASSUME NEW k \in 1..n, Until(k - 1) PROVE Until(k)
  <2>1. PICK g \in [0..k - 1 -> T] : g[0] = x /\ \A i \in 1..k - 1 : g[i] = G[<<i, g[i - 1]>>]
    BY <1>2
  <2>2. k - 1 \in 0..k - 1 /\ g[k - 1] \in T
    BY <2>1
  <2> DEFINE y == G[<<k, g[k - 1]>>]
             f == [i \in 0..k |-> IF i = k THEN y ELSE g[i]]
  <2>3. y \in T
    BY <2>2 DEF Stays
  <2> HIDE DEF y
  <2>4. f \in [0..k -> T] /\ f[k] = y /\ \A i \in 0..k - 1 : f[i] = g[i]
    BY <2>1, <2>3
  <2> HIDE DEF f
  <2>5. f[0] = x
    BY <2>1, <2>4
  <2>6. ASSUME NEW i \in 1..k PROVE f[i] = G[<<i, f[i - 1]>>]
    <3>1. f[i - 1] = g[i - 1]
      BY <2>4
    <3>2. CASE i = k
      BY <2>4, <3>1, <3>2 DEF y
    <3>3. CASE i # k
      <4>1. i \in 1..k - 1 /\ i \in 0..k - 1
        BY <3>3
      <4> QED
        BY <2>1, <2>4, <3>1, <4>1
    <3> QED
      BY <3>2, <3>3
  <2> QED
    BY <2>4, <2>5, <2>6
<1> HIDE DEF Until
<1>3. Bad = {}
  <2> SUFFICES ASSUME Bad # {} PROVE FALSE
    OBVIOUS
  <2>1. Bad \in SUBSET Nat
    OBVIOUS
  <2>2. PICK k \in Bad : \A l \in Bad : k <= l
    BY <2>1, LeastNumber
  <2>3. k \in 1..n /\ k - 1 \in 0..n /\ k - 1 \notin Bad
    BY <1>1, <2>2
  <2> QED
    BY <1>2, <2>2, <2>3
<1>4. n \in 0..n /\ Until(n)
  BY <1>3
<1> QED
  BY <1>4 DEF Until, Iterates

LEMMA Iteration ==
  ASSUME NEW n \in Nat, NEW x \in Nat, NEW G \in [(1..n) \X Nat -> Nat]
  PROVE  \E f \in [0..n -> Nat] : f[0] = x /\ \A i \in 1..n : f[i] = G[<<i, f[i - 1]>>]
<1>1. Stays(G, n, Nat)
  BY DEF Stays
<1>2. Iterates(G, n, x, Nat)
  BY <1>1, Repeated
<1> QED
  BY <1>2 DEF Iterates

LEMMA Quotient ==
  ASSUME NEW base \in Nat \ {0}, NEW x \in Nat
  PROVE  x % base \in 0..base - 1 /\ x \div base \in Nat /\ x = base * (x \div base) + (x % base)
  OBVIOUS

\* Shifted, one digit at a time.
LEMMA ShiftedIs ==
  ASSUME NEW n \in Nat, NEW base \in Nat \ {0}
  PROVE  /\ SP!Shifted(n, base, 0) = n
         /\ \A k \in Nat : SP!Shifted(n, base, k) \in Nat
         /\ \A k \in Nat : SP!Shifted(n, base, k + 1) = SP!Shifted(n, base, k) \div base
<1> DEFINE Divides(f, k) == /\ DOMAIN f = 0..k /\ f[0] = n
                            /\ \A i \in 1..k : f[i] = f[i - 1] \div base
           Term(s, i) == IF i = 0 THEN n ELSE s[i - 1] \div base
           rest(k) == CHOOSE s : s = [i \in 0..k |-> Term(s, i)]
<1>1. ASSUME NEW k \in Nat
      PROVE  \E f \in [0..k -> Nat] : Divides(f, k)
  <2> DEFINE G == [p \in (1..k) \X Nat |-> p[2] \div base]
  <2>1. G \in [(1..k) \X Nat -> Nat]
    BY Quotient
  <2>2. PICK f \in [0..k -> Nat] : f[0] = n /\ \A i \in 1..k : f[i] = G[<<i, f[i - 1]>>]
    <3> HIDE DEF G
    <3> QED
      BY <2>1, Iteration, ZenonT(60)
  <2>3. ASSUME NEW i \in 1..k PROVE f[i] = f[i - 1] \div base
    <3>1. <<i, f[i - 1]>> \in (1..k) \X Nat
      OBVIOUS
    <3> QED
      BY <2>2, <3>1
  <2> QED
    BY <2>2, <2>3
<1>2. ASSUME NEW k \in Nat
      PROVE  Divides(rest(k), k) /\ SP!Shifted(n, base, k) = rest(k)[k]
  <2>1. PICK g \in [0..k -> Nat] : Divides(g, k)
    BY <1>1
  <2>2. g = [i \in 0..k |-> Term(g, i)]
    <3>1. \A i \in 0..k : g[i] = Term(g, i)
      BY <2>1
    <3> HIDE DEF Term
    <3> QED
      BY <3>1
  <2>3. rest(k) = [i \in 0..k |-> Term(rest(k), i)]
    BY <2>2
  <2>4. SP!Shifted(n, base, k) = rest(k)[k]
    BY DEF SP!Shifted
  <2> HIDE DEF rest
  <2>5. DOMAIN rest(k) = 0..k /\ \A i \in 0..k : rest(k)[i] = Term(rest(k), i)
    BY <2>3
  <2>6. rest(k)[0] = n /\ \A i \in 1..k : rest(k)[i] = rest(k)[i - 1] \div base
    BY <2>5
  <2> QED
    BY <2>4, <2>5, <2>6
<1> HIDE DEF rest
\* Two such functions agree as far as both go.
<1>3. ASSUME NEW f, NEW k \in Nat, Divides(f, k), NEW m \in 0..k
      PROVE  f[m] = SP!Shifted(n, base, m)
  <2> DEFINE g == rest(m)
             Bad == {i \in 0..m : f[i] # g[i]}
  <2>1. Divides(g, m) /\ SP!Shifted(n, base, m) = g[m]
    BY <1>2
  <2> HIDE DEF g
  <2>2. Bad = {}
    <3> SUFFICES ASSUME Bad # {} PROVE FALSE
      OBVIOUS
    <3>1. Bad \in SUBSET Nat
      OBVIOUS
    <3>2. PICK i \in Bad : \A j \in Bad : i <= j
      BY <3>1, LeastNumber
    <3>3. i \in 1..m /\ i \in 1..k /\ i - 1 \in 0..m /\ i - 1 \notin Bad
      BY <1>3, <2>1, <3>2
    <3> QED
      BY <1>3, <2>1, <3>2, <3>3
  <2>3. m \in 0..m /\ m \notin Bad
    BY <2>2
  <2> QED
    BY <2>1, <2>3
<1>4. ASSUME NEW k \in Nat
      PROVE  /\ SP!Shifted(n, base, 0) = n
             /\ SP!Shifted(n, base, k) \in Nat
             /\ SP!Shifted(n, base, k + 1) = SP!Shifted(n, base, k) \div base
  <2>0. k + 1 \in Nat
    OBVIOUS
  <2>1. PICK f \in [0..k + 1 -> Nat] : Divides(f, k + 1)
    <3> HIDE DEF Divides
    <3> QED
      BY <1>1, <2>0
  <2>2. /\ f[0] = SP!Shifted(n, base, 0) /\ f[k] = SP!Shifted(n, base, k)
        /\ f[k + 1] = SP!Shifted(n, base, k + 1)
    <3>1. 0 \in 0..k + 1 /\ k \in 0..k + 1 /\ k + 1 \in 0..k + 1
      OBVIOUS
    <3> HIDE DEF Divides
    <3> QED
      BY <1>3, <2>0, <2>1, <3>1
  <2>3. f[0] = n /\ f[k] \in Nat /\ f[k + 1] = f[k] \div base
    BY <2>1
  <2> QED
    BY <2>2, <2>3
<1> QED
  BY <1>4

\* f multiplies n by Byte again and again.
LEMMA ScaledIs ==
  ASSUME NEW n \in Nat
  PROVE  /\ SP!Scaled(n, 0) = n
         /\ \A k \in Nat : SP!Scaled(n, k) \in Nat
         /\ \A k \in Nat : SP!Scaled(n, k + 1) = SP!Scaled(n, k) * Byte
<1>b. Byte \in Nat
  BY SpvAssumption DEF SpvAssumption
<1> USE <1>b
<1> DEFINE Grows(f, k) == /\ DOMAIN f = 0..k /\ f[0] = n
                          /\ \A i \in 1..k : f[i] = f[i - 1] * Byte
           Term(s, i) == IF i = 0 THEN n ELSE s[i - 1] * Byte
           power(k) == CHOOSE s : s = [i \in 0..k |-> Term(s, i)]
<1>1. ASSUME NEW k \in Nat
      PROVE  \E f \in [0..k -> Nat] : Grows(f, k)
  <2> DEFINE G == [p \in (1..k) \X Nat |-> p[2] * Byte]
  <2>1. G \in [(1..k) \X Nat -> Nat]
    <3> SUFFICES ASSUME NEW p \in (1..k) \X Nat PROVE p[2] * Byte \in Nat
      OBVIOUS
    <3> QED
      OBVIOUS
  <2>2. PICK f \in [0..k -> Nat] : f[0] = n /\ \A i \in 1..k : f[i] = G[<<i, f[i - 1]>>]
    <3> HIDE DEF G
    <3> QED
      BY <2>1, Iteration, ZenonT(60)
  <2>3. ASSUME NEW i \in 1..k PROVE f[i] = f[i - 1] * Byte
    <3>1. <<i, f[i - 1]>> \in (1..k) \X Nat
      OBVIOUS
    <3> QED
      BY <2>2, <3>1
  <2> QED
    BY <2>2, <2>3
<1>2. ASSUME NEW k \in Nat
      PROVE  Grows(power(k), k) /\ SP!Scaled(n, k) = power(k)[k]
  <2>1. PICK g \in [0..k -> Nat] : Grows(g, k)
    BY <1>1
  <2>2. g = [i \in 0..k |-> Term(g, i)]
    <3>1. \A i \in 0..k : g[i] = Term(g, i)
      BY <2>1
    <3> HIDE DEF Term
    <3> QED
      BY <3>1
  <2>3. power(k) = [i \in 0..k |-> Term(power(k), i)]
    BY <2>2
  <2>4. SP!Scaled(n, k) = power(k)[k]
    BY DEF SP!Scaled
  <2> HIDE DEF power
  <2>5. DOMAIN power(k) = 0..k /\ \A i \in 0..k : power(k)[i] = Term(power(k), i)
    BY <2>3
  <2>6. power(k)[0] = n /\ \A i \in 1..k : power(k)[i] = power(k)[i - 1] * Byte
    BY <2>5
  <2> QED
    BY <2>4, <2>5, <2>6
<1> HIDE DEF power
<1>3. ASSUME NEW f, NEW k \in Nat, Grows(f, k), NEW m \in 0..k
      PROVE  f[m] = SP!Scaled(n, m)
  <2> DEFINE g == power(m)
             Bad == {i \in 0..m : f[i] # g[i]}
  <2>1. Grows(g, m) /\ SP!Scaled(n, m) = g[m]
    BY <1>2
  <2> HIDE DEF g
  <2>2. Bad = {}
    <3> SUFFICES ASSUME Bad # {} PROVE FALSE
      OBVIOUS
    <3>1. Bad \in SUBSET Nat
      OBVIOUS
    <3>2. PICK i \in Bad : \A j \in Bad : i <= j
      BY <3>1, LeastNumber
    <3>3. i \in 1..m /\ i \in 1..k /\ i - 1 \in 0..m /\ i - 1 \notin Bad
      BY <1>3, <2>1, <3>2
    <3> QED
      BY <1>3, <2>1, <3>2, <3>3
  <2>3. m \in 0..m /\ m \notin Bad
    BY <2>2
  <2> QED
    BY <2>1, <2>3
<1>4. ASSUME NEW k \in Nat
      PROVE  /\ SP!Scaled(n, 0) = n
             /\ SP!Scaled(n, k) \in Nat
             /\ SP!Scaled(n, k + 1) = SP!Scaled(n, k) * Byte
  <2>0. k + 1 \in Nat
    OBVIOUS
  <2>1. PICK f \in [0..k + 1 -> Nat] : Grows(f, k + 1)
    <3> HIDE DEF Grows
    <3> QED
      BY <1>1, <2>0
  <2>2. /\ f[0] = SP!Scaled(n, 0) /\ f[k] = SP!Scaled(n, k)
        /\ f[k + 1] = SP!Scaled(n, k + 1)
    <3>1. 0 \in 0..k + 1 /\ k \in 0..k + 1 /\ k + 1 \in 0..k + 1
      OBVIOUS
    <3> HIDE DEF Grows
    <3> QED
      BY <1>3, <2>0, <2>1, <3>1
  <2>3. f[0] = n /\ f[k] \in Nat /\ f[k + 1] = f[k] * Byte
    BY <2>1
  <2> QED
    BY <2>2, <2>3
<1> QED
  BY <1>4

\* The first digits of a number, one more at a time.
Reads(h, t) == /\ h \in [0..Len(t) -> Nat] /\ h[0] = 0
               /\ \A i \in 1..Len(t) : h[i] = h[i - 1] * Byte + t[i]

LEMMA NumberIs ==
  ASSUME NEW t \in Seq(Nat)
  PROVE  \E h : Reads(h, t) /\ SP!NumberOf(t) = h[Len(t)]
<1>b. Byte \in Nat
  BY SpvAssumption DEF SpvAssumption
<1> USE <1>b
<1> DEFINE k == Len(t)
           Term(s, i) == IF i = 0 THEN 0 ELSE s[i - 1] * Byte + t[i]
           n == CHOOSE s : s = [i \in 0..k |-> Term(s, i)]
           G == [p \in (1..k) \X Nat |-> p[2] * Byte + t[p[1]]]
<1>0. k \in Nat /\ \A i \in 1..k : t[i] \in Nat
  OBVIOUS
<1>1. G \in [(1..k) \X Nat -> Nat]
  <2> SUFFICES ASSUME NEW p \in (1..k) \X Nat PROVE p[2] * Byte + t[p[1]] \in Nat
    OBVIOUS
  <2>1. p[2] \in Nat /\ p[1] \in 1..k /\ t[p[1]] \in Nat
    BY <1>0
  <2>2. PICK u \in Nat, v \in Nat : u = p[2] /\ v = t[p[1]]
    BY <2>1
  <2>3. u * Byte \in Nat
    OBVIOUS
  <2>4. u * Byte + v \in Nat
    BY <2>3
  <2> QED
    BY <2>2, <2>4
<1>2. PICK g \in [0..k -> Nat] : g[0] = 0 /\ \A i \in 1..k : g[i] = G[<<i, g[i - 1]>>]
  <2>1. k \in Nat /\ 0 \in Nat
    BY <1>0
  <2> HIDE DEF G, k
  <2> QED
    BY <1>1, <2>1, Iteration, ZenonT(60)
<1>3. \A i \in 1..k : g[i] = g[i - 1] * Byte + t[i]
  <2> TAKE i \in 1..k
  <2>0. k \in Nat /\ i - 1 \in 0..k
    BY <1>0
  <2>1. <<i, g[i - 1]>> \in (1..k) \X Nat
    BY <2>0
  <2> QED
    BY <1>2, <2>1
<1>4. g = [i \in 0..k |-> Term(g, i)]
  <2>1. \A i \in 0..k : g[i] = Term(g, i)
    BY <1>0, <1>2, <1>3
  <2> HIDE DEF Term
  <2> QED
    BY <2>1
<1>5. n = [i \in 0..k |-> Term(n, i)]
  BY <1>4
<1>6. SP!NumberOf(t) = n[k]
  BY DEF SP!NumberOf
<1> HIDE DEF n
<1>7. DOMAIN n = 0..k /\ \A i \in 0..k : n[i] = Term(n, i)
  BY <1>5
<1> DEFINE Bad == {i \in 0..k : n[i] # g[i]}
<1>8. Bad = {}
  <2> SUFFICES ASSUME Bad # {} PROVE FALSE
    OBVIOUS
  <2>1. Bad \in SUBSET Nat
    BY <1>0
  <2>2. PICK i \in Bad : \A j \in Bad : i <= j
    BY <2>1, LeastNumber
  <2>3. i # 0
    BY <1>0, <1>2, <1>7, <2>2
  <2>4. i \in 1..k /\ i - 1 \in 0..k /\ i - 1 \notin Bad
    BY <1>0, <2>2, <2>3
  <2>5. n[i] = n[i - 1] * Byte + t[i] /\ n[i - 1] = g[i - 1]
    BY <1>0, <1>7, <2>4
  <2> QED
    BY <1>3, <2>2, <2>4, <2>5
<1>9. n[k] = g[k]
  BY <1>0, <1>8
<1> QED
  BY <1>0, <1>2, <1>3, <1>6, <1>9 DEF Reads

\* Digits written before the others count more than all of those.
LEMMA DigitsCompare ==
  ASSUME NEW x \in Nat, NEW y \in Nat, NEW u \in 0..Byte - 1, NEW v \in 0..Byte - 1
  PROVE  /\ x * Byte + u < y * Byte + v <=> x < y \/ (x = y /\ u < v)
         /\ x * Byte + u = y * Byte + v <=> x = y /\ u = v
<1> USE SpvAssumption DEF SpvAssumption
<1>1. ASSUME NEW a \in Nat, NEW b \in Nat, a < b PROVE a * Byte + Byte <= b * Byte
  <2>1. PICK d \in Nat : b = a + 1 + d
    <3>1. b - a - 1 \in Nat /\ b = a + 1 + (b - a - 1)
      BY <1>1
    <3> QED
      BY <3>1
  <2>2. b * Byte = a * Byte + Byte + d * Byte /\ d * Byte \in Nat
    BY <2>1
  <2> QED
    BY <2>2
<1>2. x * Byte \in Nat /\ y * Byte \in Nat
  OBVIOUS
<1>3. CASE x < y
  <2>1. x * Byte + Byte <= y * Byte
    BY <1>1, <1>3
  <2> QED
    BY <1>2, <1>3, <2>1
<1>4. CASE y < x
  <2>1. y * Byte + Byte <= x * Byte
    BY <1>1, <1>4
  <2> QED
    BY <1>2, <1>4, <2>1
<1>5. CASE x = y
  BY <1>2, <1>5
<1> QED
  BY <1>3, <1>4, <1>5

Digits == [1..Width -> 0..Byte - 1]

LEMMA DigitsAre ==
  ASSUME NEW t \in Digits
  PROVE  t \in Seq(Nat) /\ Len(t) = Width /\ Width \in Nat /\ \A i \in 1..Width : t[i] \in 0..Byte - 1
<1>1. Width \in Nat /\ Byte \in Nat
  BY SpvAssumption DEF SpvAssumption
<1> QED
  BY <1>1 DEF Digits

\* Comparing from the high digit on compares the numbers.
LEMMA LexicographicIs ==
  ASSUME NEW s \in Digits, NEW t \in Digits
  PROVE  SP!Lexicographic(s, t) <=> SP!NumberOf(s) < SP!NumberOf(t)
<1>0. /\ Width \in Nat /\ Len(s) = Width /\ Len(t) = Width
      /\ \A i \in 1..Width : s[i] \in 0..Byte - 1 /\ t[i] \in 0..Byte - 1
      /\ s \in Seq(Nat) /\ t \in Seq(Nat)
  BY DigitsAre
<1>1. PICK f : Reads(f, s) /\ SP!NumberOf(s) = f[Width]
  BY <1>0, NumberIs
<1>2. PICK g : Reads(g, t) /\ SP!NumberOf(t) = g[Width]
  BY <1>0, NumberIs
<1> DEFINE Same(n) == \A j \in 1..n : s[j] = t[j]
           Below(n) == \E i \in 1..n : s[i] < t[i] /\ Same(i - 1)
           Right(n) == (f[n] < g[n] <=> Below(n)) /\ (f[n] = g[n] <=> Same(n))
           Bad == {n \in 0..Width : ~Right(n)}
<1>3. Right(0)
  <2>1. f[0] = 0 /\ g[0] = 0
    BY <1>1, <1>2 DEF Reads
  <2> QED
    BY <2>1
<1>4. ASSUME NEW n \in 1..Width, Right(n - 1) PROVE Right(n)
  <2>0. n \in Nat /\ n - 1 \in 0..Width
    BY <1>0
  <2>1. /\ f[n - 1] \in Nat /\ g[n - 1] \in Nat /\ s[n] \in 0..Byte - 1 /\ t[n] \in 0..Byte - 1
        /\ f[n] = f[n - 1] * Byte + s[n] /\ g[n] = g[n - 1] * Byte + t[n]
    BY <1>0, <1>1, <1>2, <2>0 DEF Reads
  <2>2. /\ f[n] < g[n] <=> f[n - 1] < g[n - 1] \/ (f[n - 1] = g[n - 1] /\ s[n] < t[n])
        /\ f[n] = g[n] <=> f[n - 1] = g[n - 1] /\ s[n] = t[n]
    BY <2>1, DigitsCompare
  <2>3. Same(n) <=> Same(n - 1) /\ s[n] = t[n]
    <3>1. 1..n = (1..n - 1) \cup {n}
      BY <2>0
    <3> QED
      BY <3>1
  <2>4. Below(n) <=> Below(n - 1) \/ (Same(n - 1) /\ s[n] < t[n])
    <3>1. 1..n = (1..n - 1) \cup {n}
      BY <2>0
    <3> HIDE DEF Same
    <3> QED
      BY <3>1
  <2> HIDE DEF Same, Below
  <2> QED
    BY <1>4, <2>2, <2>3, <2>4
<1> HIDE DEF Right
<1>5. Bad = {}
  <2> SUFFICES ASSUME Bad # {} PROVE FALSE
    OBVIOUS
  <2>1. Bad \in SUBSET Nat
    BY <1>0
  <2>2. PICK n \in Bad : \A j \in Bad : n <= j
    BY <2>1, LeastNumber
  <2>3. n \in 1..Width /\ n - 1 \in 0..Width /\ n - 1 \notin Bad
    BY <1>0, <1>3, <2>2
  <2> QED
    BY <1>4, <2>2, <2>3
<1>6. Right(Width)
  BY <1>0, <1>5, SMTT(30)
<1>7. SP!Lexicographic(s, t) <=> Below(Width)
  BY DEF SP!Lexicographic
<1> QED
  BY <1>1, <1>2, <1>6, <1>7 DEF Right

\* A number of at most k digits has nothing left without them.
LEMMA NothingLeft ==
  ASSUME NEW n \in Nat, NEW k \in Nat, n < SP!Scaled(1, k)
  PROVE  SP!Shifted(n, Byte, k) = 0
<1>0. Byte \in Nat \ {0}
  BY SpvAssumption DEF SpvAssumption
<1> DEFINE Small(i) == SP!Shifted(n, Byte, i) < SP!Scaled(1, k - i)
           Bad == {i \in 0..k : ~Small(i)}
<1>1. ASSUME NEW i \in 1..k, Small(i - 1) PROVE Small(i)
  <2> DEFINE x == SP!Shifted(n, Byte, i - 1)
             y == SP!Scaled(1, k - i)
  <2>0. i - 1 \in Nat /\ k - i \in Nat /\ (i - 1) + 1 = i /\ (k - i) + 1 = k - (i - 1)
    OBVIOUS
  <2>1. x \in Nat /\ SP!Shifted(n, Byte, i) = x \div Byte
    <3>1. x \in Nat /\ SP!Shifted(n, Byte, (i - 1) + 1) = x \div Byte
      <4> DEFINE k1 == i - 1
      <4>1. k1 \in Nat
        BY <2>0
      <4> HIDE DEF k1
      <4>2. SP!Shifted(n, Byte, k1) \in Nat /\ SP!Shifted(n, Byte, k1 + 1) = SP!Shifted(n, Byte, k1) \div Byte
        BY <1>0, <4>1, ShiftedIs
      <4> QED
        BY <4>2 DEF k1
    <3> QED
      BY <2>0, <3>1
  <2>2. y \in Nat /\ SP!Scaled(1, k - (i - 1)) = y * Byte
    <3>1. SP!Scaled(1, (k - i) + 1) = y * Byte /\ y \in Nat
      BY <2>0, ScaledIs
    <3> QED
      BY <2>0, <3>1
  <2>3. x < y * Byte
    BY <1>1, <2>2
  <2> HIDE DEF x, y
  <2>4. PICK q \in Nat : q = x \div Byte
    BY <1>0, <2>1, Quotient
  <2>5. PICK r \in Nat : x = Byte * q + r
    <3>1. x % Byte \in 0..Byte - 1 /\ x = Byte * (x \div Byte) + (x % Byte)
      BY <1>0, <2>1, Quotient
    <3>2. x % Byte \in Nat
      BY <1>0, <3>1
    <3> QED
      BY <2>4, <3>1, <3>2
  <2>6. q < y
    <3> SUFFICES ASSUME q >= y PROVE FALSE
      BY <2>2, <2>4
    <3>1. Byte * y <= Byte * q /\ Byte * y \in Nat /\ Byte * q \in Nat
      BY <1>0, <2>2, <2>4, RateGrows
    <3>2. y * Byte = Byte * y
      BY <1>0, <2>2
    <3> QED
      BY <2>1, <2>3, <2>5, <3>1, <3>2
  <2> QED
    BY <2>1, <2>4, <2>6 DEF y
<1>2. Small(0)
  BY <1>0, ShiftedIs
<1> HIDE DEF Small
<1>3. Bad = {}
  <2> SUFFICES ASSUME Bad # {} PROVE FALSE
    OBVIOUS
  <2>1. Bad \in SUBSET Nat
    OBVIOUS
  <2>2. PICK i \in Bad : \A j \in Bad : i <= j
    BY <2>1, LeastNumber
  <2>3. i \in 1..k /\ i - 1 \in 0..k /\ i - 1 \notin Bad
    BY <1>2, <2>2
  <2> QED
    BY <1>1, <2>2, <2>3
<1>4. Small(k)
  BY <1>3
<1>5. SP!Scaled(1, k - k) = 1 /\ SP!Shifted(n, Byte, k) \in Nat
  BY <1>0, ScaledIs, ShiftedIs
<1> QED
  BY <1>4, <1>5 DEF Small

LEMMA DigitIs ==
  ASSUME NEW n \in Nat, NEW k \in Nat
  PROVE  /\ SP!Digit(n, k) \in 0..Byte - 1
         /\ SP!Shifted(n, Byte, k) = SP!Shifted(n, Byte, k + 1) * Byte + SP!Digit(n, k)
<1>0. Byte \in Nat \ {0}
  BY SpvAssumption DEF SpvAssumption
<1> DEFINE x == SP!Shifted(n, Byte, k)
<1>1. x \in Nat /\ SP!Shifted(n, Byte, k + 1) = x \div Byte /\ SP!Digit(n, k) = x % Byte
  BY <1>0, ShiftedIs DEF SP!Digit
<1> HIDE DEF x
<1>2. x % Byte \in 0..Byte - 1 /\ x \div Byte \in Nat /\ x = Byte * (x \div Byte) + (x % Byte)
  BY <1>0, <1>1, Quotient
<1>3. Byte * (x \div Byte) = (x \div Byte) * Byte
  BY <1>0, <1>2
<1> QED
  BY <1>1, <1>2, <1>3 DEF x

\* A number is that of its digits.
LEMMA DigitsOfIs ==
  ASSUME NEW n \in Nat, n < SP!Scaled(1, Width)
  PROVE  SP!DigitsOf(n) \in Digits /\ SP!NumberOf(SP!DigitsOf(n)) = n
<1>0. Byte \in Nat \ {0} /\ Width \in Nat
  BY SpvAssumption DEF SpvAssumption
<1> DEFINE t == SP!DigitsOf(n)
<1>1. t \in Digits /\ \A i \in 1..Width : t[i] = SP!Digit(n, Width - i)
  <2>1. ASSUME NEW i \in 1..Width PROVE SP!Digit(n, Width - i) \in 0..Byte - 1
    <3>1. PICK k \in Nat : k = Width - i
      BY <1>0
    <3>2. SP!Digit(n, k) \in 0..Byte - 1
      BY DigitIs
    <3> QED
      BY <3>1, <3>2
  <2> QED
    BY <2>1 DEF SP!DigitsOf, Digits
<1> HIDE DEF t
<1>2. Len(t) = Width /\ t \in Seq(Nat)
  BY <1>1, DigitsAre
<1>3. PICK h : Reads(h, t) /\ SP!NumberOf(t) = h[Width]
  BY <1>2, NumberIs
<1> DEFINE Bad == {i \in 0..Width : h[i] # SP!Shifted(n, Byte, Width - i)}
<1>4. Bad = {}
  <2> SUFFICES ASSUME Bad # {} PROVE FALSE
    OBVIOUS
  <2>1. Bad \in SUBSET Nat
    BY <1>0
  <2>2. PICK i \in Bad : \A j \in Bad : i <= j
    BY <2>1, LeastNumber
  <2>3. i # 0
    <3>1. h[0] = 0 /\ SP!Shifted(n, Byte, Width - 0) = 0
      BY <1>0, <1>3, NothingLeft DEF Reads
    <3> QED
      BY <2>2, <3>1
  <2>4. i \in 1..Width /\ i - 1 \in 0..Width /\ i - 1 \notin Bad
    BY <1>0, <2>2, <2>3
  <2>5. h[i] = h[i - 1] * Byte + SP!Digit(n, Width - i)
    BY <1>1, <1>2, <1>3, <2>4 DEF Reads
  <2>6. Width - i \in Nat /\ Width - (i - 1) = (Width - i) + 1
    BY <1>0, <2>4
  <2>7. h[i - 1] = SP!Shifted(n, Byte, (Width - i) + 1)
    BY <2>4, <2>6
  <2>8. h[i] = SP!Shifted(n, Byte, Width - i)
    BY <2>5, <2>6, <2>7, DigitIs
  <2> QED
    BY <2>2, <2>8
<1>5. Width \in 0..Width /\ Width \notin Bad /\ Width - Width = 0
  BY <1>0, <1>4
<1>6. h[Width] = n
  BY <1>0, <1>5, ShiftedIs
<1> QED
  BY <1>1, <1>3, <1>6 DEF t

\* What the first digits of a target read: nothing, then the mantissa, then zeros.
Mantissa(m, j) == IF j <= 0 THEN 0
                  ELSE IF j <= 3 THEN SP!Shifted(m, Byte, 3 - j) ELSE SP!Scaled(m, j - 3)
MantissaDigit(m, j) == IF j \in 1..3 THEN SP!Digit(m, 3 - j) ELSE 0

LEMMA MantissaIs ==
  ASSUME NEW m \in Nat, m < SP!Scaled(1, 3), NEW j \in Int
  PROVE  /\ MantissaDigit(m, j) \in 0..Byte - 1
         /\ Mantissa(m, j) = Mantissa(m, j - 1) * Byte + MantissaDigit(m, j)
<1>0. Byte \in Nat /\ Byte > 1
  BY SpvAssumption DEF SpvAssumption
<1>1. CASE j <= 0
  <2>1. MantissaDigit(m, j) = 0 /\ Mantissa(m, j) = 0 /\ Mantissa(m, j - 1) = 0
    BY <1>1 DEF MantissaDigit, Mantissa
  <2> QED
    BY <1>0, <2>1
<1>2. CASE j \in 1..3
  <2>1. /\ SP!Digit(m, 3 - j) \in 0..Byte - 1
        /\ SP!Shifted(m, Byte, 3 - j) = SP!Shifted(m, Byte, (3 - j) + 1) * Byte + SP!Digit(m, 3 - j)
    <3>1. PICK k \in Nat : k = 3 - j
      BY <1>2
    <3>2. /\ SP!Digit(m, k) \in 0..Byte - 1
          /\ SP!Shifted(m, Byte, k) = SP!Shifted(m, Byte, k + 1) * Byte + SP!Digit(m, k)
      BY DigitIs
    <3> QED
      BY <3>1, <3>2
  <2>2. MantissaDigit(m, j) = SP!Digit(m, 3 - j) /\ Mantissa(m, j) = SP!Shifted(m, Byte, 3 - j)
    BY <1>2 DEF MantissaDigit, Mantissa
  <2>3. Mantissa(m, j - 1) = SP!Shifted(m, Byte, (3 - j) + 1)
    <3>1. CASE j = 1
      <4>1. Mantissa(m, 1 - 1) = 0 /\ SP!Shifted(m, Byte, 3) = 0 /\ (3 - 1) + 1 = 3
        BY NothingLeft DEF Mantissa
      <4> QED
        BY <3>1, <4>1
    <3>2. CASE j # 1
      <4>1. j - 1 > 0 /\ j - 1 <= 3 /\ 3 - (j - 1) = (3 - j) + 1
        BY <1>2, <3>2
      <4> QED
        BY <4>1 DEF Mantissa
    <3> QED
      BY <3>1, <3>2
  <2> QED
    BY <2>1, <2>2, <2>3
<1>3. CASE j > 3
  <2>1. MantissaDigit(m, j) = 0 /\ Mantissa(m, j) = SP!Scaled(m, j - 3)
    BY <1>3 DEF MantissaDigit, Mantissa
  <2>2. Mantissa(m, j - 1) = SP!Scaled(m, j - 4)
    <3>1. CASE j = 4
      <4>1. Mantissa(m, 4 - 1) = SP!Shifted(m, Byte, 0) /\ SP!Shifted(m, Byte, 0) = m
        BY <1>0, ShiftedIs DEF Mantissa
      <4>2. SP!Scaled(m, 4 - 4) = m
        BY ScaledIs
      <4> QED
        BY <3>1, <4>1, <4>2
    <3>2. CASE j # 4
      <4>1. ~(j - 1 <= 3) /\ ~(j - 1 <= 0) /\ (j - 1) - 3 = j - 4
        BY <1>3, <3>2
      <4> QED
        BY <4>1 DEF Mantissa
    <3> QED
      BY <3>1, <3>2
  <2>3. j - 4 \in Nat /\ (j - 4) + 1 = j - 3
    BY <1>3
  <2>4. SP!Scaled(m, j - 3) = SP!Scaled(m, j - 4) * Byte /\ SP!Scaled(m, j - 4) \in Nat
    BY <2>3, ScaledIs
  <2>5. PICK z \in Nat : z = SP!Scaled(m, j - 4)
    BY <2>4
  <2>6. z * Byte = z * Byte + 0 /\ 0 \in 0..Byte - 1
    BY <1>0
  <2> QED
    BY <2>1, <2>2, <2>4, <2>5, <2>6
<1> QED
  BY <1>1, <1>2, <1>3

LEMMA TargetIs ==
  ASSUME NEW b \in SP!AllBits
  PROVE  /\ SP!target_from_bits(b) \in Digits
         /\ SP!NumberOf(SP!target_from_bits(b)) =
              IF b.exponent <= Width THEN Mantissa(b.mantissa, b.exponent) ELSE 0
<1> DEFINE t == SP!target_from_bits(b)
           e == b.exponent
           m == b.mantissa
<1>0. /\ Byte \in Nat /\ Byte > 1 /\ Width \in Nat /\ Width >= 3
      /\ e \in Nat /\ m \in Nat /\ m < SP!Scaled(1, 3)
  <2>1. e \in 0..MaxExponent /\ m \in 0..SP!Scaled(1, 3) - 1 /\ SP!Scaled(1, 3) \in Nat
    BY ScaledIs DEF SP!AllBits
  <2> HIDE DEF e, m
  <2> QED
    BY <2>1, SpvAssumption DEF SpvAssumption
<1>1. CASE e <= Width
  <2>1. t = [i \in 1..Width |-> MantissaDigit(m, i - (Width - e))]
    <3>1. CASE e >= 3
      <4>1. t = [i \in 1..Width |-> LET k == i - 1 - (Width - b.exponent)
                                    IN  IF k \in 0..2 THEN SP!Digit(b.mantissa, 2 - k) ELSE 0]
        <5>1. b.exponent \in 3..Width
          BY <1>0, <1>1, <3>1
        <5> QED
          BY <5>1 DEF SP!target_from_bits
      <4>2. ASSUME NEW i \in 1..Width
            PROVE  (IF i - 1 - (Width - e) \in 0..2 THEN SP!Digit(m, 2 - (i - 1 - (Width - e))) ELSE 0)
                     = MantissaDigit(m, i - (Width - e))
        <5> DEFINE j == i - (Width - e)
        <5>1. i - 1 - (Width - e) = j - 1 /\ j \in Int /\ 2 - (j - 1) = 3 - j
          BY <1>0
        <5>2. j - 1 \in 0..2 <=> j \in 1..3
          BY <5>1
        <5> HIDE DEF j, e, m
        <5>3. (IF j - 1 \in 0..2 THEN SP!Digit(m, 2 - (j - 1)) ELSE 0) = MantissaDigit(m, j)
          BY <5>1, <5>2 DEF MantissaDigit
        <5> QED
          BY <5>1, <5>3 DEF j
      <4> HIDE DEF t
      <4> QED
        BY <4>1, <4>2
    <3>2. CASE e < 3
      <4>1. t = [i \in 1..Width |-> LET k == i - 1 - (Width - b.exponent)
                                    IN  IF k \in 0..b.exponent - 1 THEN SP!Digit(b.mantissa, 2 - k) ELSE 0]
        <5>1. b.exponent \notin 3..Width /\ b.exponent < 3
          BY <1>0, <3>2
        <5> QED
          BY <5>1 DEF SP!target_from_bits
      <4>2. ASSUME NEW i \in 1..Width
            PROVE  (IF i - 1 - (Width - e) \in 0..e - 1 THEN SP!Digit(m, 2 - (i - 1 - (Width - e))) ELSE 0)
                     = MantissaDigit(m, i - (Width - e))
        <5> DEFINE j == i - (Width - e)
        <5>1. i - 1 - (Width - e) = j - 1 /\ j \in Int /\ 2 - (j - 1) = 3 - j /\ j <= e
          BY <1>0
        <5> HIDE DEF j, m
        <5>2. j - 1 \in 0..e - 1 <=> j \in 1..3
          BY <1>0, <3>2, <5>1
        <5>3. (IF j - 1 \in 0..e - 1 THEN SP!Digit(m, 2 - (j - 1)) ELSE 0) = MantissaDigit(m, j)
          <6> HIDE DEF e
          <6> QED
            BY <5>1, <5>2 DEF MantissaDigit
        <5> QED
          BY <5>1, <5>3 DEF j
      <4> HIDE DEF t
      <4> QED
        BY <4>1, <4>2
    <3> QED
      BY <1>0, <3>1, <3>2
  <2> HIDE DEF t, e, m
  <2>2. \A i \in 1..Width : i - (Width - e) \in Int /\ MantissaDigit(m, i - (Width - e)) \in 0..Byte - 1
    BY <1>0, MantissaIs
  <2>3. t \in Digits /\ \A i \in 1..Width : t[i] = MantissaDigit(m, i - (Width - e))
    BY <2>1, <2>2 DEF Digits
  <2>4. t \in Seq(Nat) /\ Len(t) = Width
    BY <2>3, DigitsAre
  <2>5. PICK h : Reads(h, t) /\ SP!NumberOf(t) = h[Width]
    BY <2>4, NumberIs
  <2> DEFINE Bad == {i \in 0..Width : h[i] # Mantissa(m, i - (Width - e))}
  <2>6. Bad = {}
    <3> SUFFICES ASSUME Bad # {} PROVE FALSE
      OBVIOUS
    <3>1. Bad \in SUBSET Nat
      BY <1>0
    <3>2. PICK i \in Bad : \A k \in Bad : i <= k
      BY <3>1, LeastNumber
    <3>3. i # 0
      <4>1. h[0] = 0
        BY <2>5 DEF Reads
      <4>2. 0 - (Width - e) <= 0
        BY <1>0, <1>1
      <4>3. Mantissa(m, 0 - (Width - e)) = 0
        BY <4>2 DEF Mantissa
      <4> QED
        BY <3>2, <4>1, <4>3
    <3>4. i \in 1..Width /\ i - 1 \in 0..Width /\ i - 1 \notin Bad
      BY <1>0, <3>2, <3>3
    <3>5. h[i] = h[i - 1] * Byte + MantissaDigit(m, i - (Width - e))
      BY <2>3, <2>4, <2>5, <3>4 DEF Reads
    <3>6. (i - 1) - (Width - e) = (i - (Width - e)) - 1 /\ i - (Width - e) \in Int
      BY <1>0, <3>4
    <3>7. h[i - 1] = Mantissa(m, (i - (Width - e)) - 1)
      BY <3>4, <3>6
    <3>8. h[i] = Mantissa(m, i - (Width - e))
      BY <1>0, <3>5, <3>6, <3>7, MantissaIs
    <3> QED
      BY <3>2, <3>8
  <2>7. Width \in 0..Width /\ Width \notin Bad /\ Width - (Width - e) = e
    BY <1>0, <2>6
  <2>8. h[Width] = Mantissa(m, e)
    BY <2>7
  <2> QED
    BY <1>1, <2>3, <2>5, <2>8 DEF t, e, m
<1>2. CASE e > Width
  <2>1. t = [i \in 1..Width |-> 0]
    <3>1. b.exponent \notin 3..Width /\ ~(b.exponent < 3)
      BY <1>0, <1>2
    <3> QED
      BY <3>1 DEF SP!target_from_bits
  <2> HIDE DEF t
  <2>2. t \in Digits /\ \A i \in 1..Width : t[i] = 0
    BY <1>0, <2>1 DEF Digits
  <2>3. t \in Seq(Nat) /\ Len(t) = Width
    BY <2>2, DigitsAre
  <2>4. PICK h : Reads(h, t) /\ SP!NumberOf(t) = h[Width]
    BY <2>3, NumberIs
  <2> DEFINE Bad == {i \in 0..Width : h[i] # 0}
  <2>5. Bad = {}
    <3> SUFFICES ASSUME Bad # {} PROVE FALSE
      OBVIOUS
    <3>1. Bad \in SUBSET Nat
      BY <1>0
    <3>2. PICK i \in Bad : \A k \in Bad : i <= k
      BY <3>1, LeastNumber
    <3>3. i \in 1..Width /\ i - 1 \in 0..Width /\ i - 1 \notin Bad
      BY <1>0, <2>4, <3>2 DEF Reads
    <3>4. h[i] = h[i - 1] * Byte + 0 /\ h[i - 1] = 0
      BY <2>2, <2>3, <2>4, <3>3 DEF Reads
    <3> QED
      BY <1>0, <3>2, <3>4
  <2>6. h[Width] = 0
    BY <1>0, <2>5
  <2>7. ~(b.exponent <= Width)
    BY <1>0, <1>2
  <2> QED
    BY <2>2, <2>4, <2>6, <2>7 DEF t
<1> QED
  BY <1>0, <1>1, <1>2

\* target = mantissa * 256^(exponent - 3), and a hash is below it or not.
LEMMA TargetRight ==
  ASSUME bits \in SP!AllBits
  PROVE  SP!TargetIsItsNumber
<1> DEFINE e == bits.exponent
           m == bits.mantissa
           n == IF e >= 3 THEN SP!Scaled(m, e - 3) ELSE SP!Shifted(m, Byte, 3 - e)
           t == SP!target_from_bits(bits)
<1>0. /\ Byte \in Nat \ {0} /\ Width \in Nat /\ e \in Nat /\ m \in Nat /\ m < SP!Scaled(1, 3)
  <2>1. e \in 0..MaxExponent /\ m \in 0..SP!Scaled(1, 3) - 1 /\ SP!Scaled(1, 3) \in Nat
    BY ScaledIs DEF SP!AllBits
  <2> HIDE DEF e, m
  <2> QED
    BY <2>1, SpvAssumption DEF SpvAssumption
<1>1. Mantissa(m, e) = n
  <2> HIDE DEF e, m
  <2>1. CASE e = 0
    <3>1. SP!Shifted(m, Byte, 3) = 0 /\ Mantissa(m, 0) = 0
      BY <1>0, NothingLeft DEF Mantissa
    <3> QED
      BY <2>1, <3>1
  <2>2. CASE e \in 1..2
    BY <2>2 DEF Mantissa
  <2>3. CASE e = 3
    <3>1. Mantissa(m, 3) = SP!Shifted(m, Byte, 0) /\ SP!Shifted(m, Byte, 0) = m /\ SP!Scaled(m, 0) = m
      BY <1>0, ShiftedIs, ScaledIs DEF Mantissa
    <3> QED
      BY <2>3, <3>1
  <2>4. CASE e > 3
    BY <1>0, <2>4 DEF Mantissa
  <2> QED
    BY <1>0, <2>1, <2>2, <2>3, <2>4
<1>2. t \in Digits /\ SP!NumberOf(t) = IF e <= Width THEN n ELSE 0
  BY <1>1, TargetIs
<1>3. n \in Nat
  <2>1. e >= 3 => e - 3 \in Nat
    BY <1>0
  <2>2. ~(e >= 3) => 3 - e \in Nat
    BY <1>0
  <2> HIDE DEF e, m
  <2> QED
    BY <1>0, <2>1, <2>2, ScaledIs, ShiftedIs
<1>4. ASSUME NEW hash \in 0..SP!Scaled(1, Width) - 1
      PROVE  SP!check_pow(hash, bits) <=> e <= Width /\ hash < n
  <2>1. hash \in Nat /\ hash < SP!Scaled(1, Width)
    BY <1>0, ScaledIs
  <2>2. SP!DigitsOf(hash) \in Digits /\ SP!NumberOf(SP!DigitsOf(hash)) = hash
    BY <2>1, DigitsOfIs
  <2>3. SP!check_pow(hash, bits) <=> hash < SP!NumberOf(t)
    BY <1>2, <2>2, LexicographicIs DEF SP!check_pow
  <2> HIDE DEF n, t, e
  <2> QED
    BY <1>2, <2>1, <2>3
<1> QED
  BY <1>2, <1>4 DEF SP!TargetIsItsNumber

-----------------------------------------------------------------------------
(* Proofs of inclusion: the levels of a tree *)

\* A sequence, whatever its entries.
Row(x) == Len(x) \in Nat /\ x = [i \in 1..Len(x) |-> x[i]]

LEMMA RowIs ==
  ASSUME NEW n \in Nat, NEW x, x = [i \in 1..n |-> x[i]]
  PROVE  Row(x) /\ Len(x) = n
<1>1. x \in [1..n -> {x[i] : i \in 1..n}]
  OBVIOUS
<1>2. x \in Seq({x[i] : i \in 1..n}) /\ Len(x) = n
  BY <1>1, SMTT(30)
<1> QED
  BY <1>2 DEF Row

LEMMA LevelIs ==
  ASSUME NEW x, Row(x), Len(x) > 0
  PROVE  /\ Row(SP!Level(x)) /\ Len(SP!Level(x)) = (Len(x) + 1) \div 2 /\ Len(SP!Level(x)) > 0
         /\ \A i \in 1..Len(SP!Level(x)) :
              SP!Level(x)[i] = <<x[2 * i - 1], IF 2 * i <= Len(x) THEN x[2 * i] ELSE x[2 * i - 1]>>
         /\ Len(x) = 1 => Len(SP!Level(x)) = 1
         /\ Len(x) > 1 => Len(SP!Level(x)) < Len(x)
<1> DEFINE n == (Len(x) + 1) \div 2
           Pair(i) == <<x[2 * i - 1], IF 2 * i <= Len(x) THEN x[2 * i] ELSE x[2 * i - 1]>>
<1>1. Len(x) \in Nat
  BY DEF Row
<1>2. n \in Nat /\ n > 0 /\ (Len(x) = 1 => n = 1) /\ (Len(x) > 1 => n < Len(x))
  <2>1. PICK k \in Nat : k = Len(x)
    BY <1>1
  <2>2. PICK h : h = (k + 1) \div 2
    OBVIOUS
  <2>3. h \in Nat /\ h > 0 /\ (k = 1 => h = 1) /\ (k > 1 => h < k)
    BY <2>1, <2>2
  <2> QED
    BY <2>1, <2>2, <2>3
<1>3. SP!Level(x) = [i \in 1..n |-> Pair(i)]
  BY DEF SP!Level, SP!hash256
<1> HIDE DEF Pair, n
<1>4. SP!Level(x) = [i \in 1..n |-> SP!Level(x)[i]]
  BY <1>3
<1>5. Row(SP!Level(x)) /\ Len(SP!Level(x)) = n
  BY <1>2, <1>4, RowIs
<1>6. \A i \in 1..n : SP!Level(x)[i] = Pair(i)
  BY <1>3
<1> QED
  BY <1>2, <1>5, <1>6 DEF n, Pair

\* Rows from s on, each the level above the one before.
LEMMA AllLevelsIs ==
  ASSUME NEW s, Row(s)
  PROVE  /\ SP!AllLevels(s)[0] = s
         /\ \A i \in 1..Len(s) : SP!AllLevels(s)[i] = SP!Level(SP!AllLevels(s)[i - 1])
<1> DEFINE N == Len(s)
           Until(k) == \E f : /\ f = [i \in 0..k |-> f[i]] /\ f[0] = s
                              /\ \A i \in 1..k : f[i] = SP!Level(f[i - 1])
           Bad == {k \in 0..N : ~Until(k)}
           Term(f, d) == IF d = 0 THEN s ELSE SP!Level(f[d - 1])
           levels == CHOOSE f : f = [d \in 0..N |-> Term(f, d)]
<1>0. N \in Nat
  BY DEF Row
<1>1. Until(0)
  <2> DEFINE g == [i \in 0..0 |-> s]
  <2>1. g = [i \in 0..0 |-> g[i]] /\ g[0] = s /\ 1..0 = {}
    OBVIOUS
  <2> QED
    BY <2>1
<1>2. ASSUME NEW k \in 1..N, Until(k - 1) PROVE Until(k)
  <2>1. PICK g : /\ g = [i \in 0..k - 1 |-> g[i]] /\ g[0] = s
                 /\ \A i \in 1..k - 1 : g[i] = SP!Level(g[i - 1])
    BY <1>2
  <2> DEFINE f == [i \in 0..k |-> IF i = k THEN SP!Level(g[k - 1]) ELSE g[i]]
  <2>2. /\ f = [i \in 0..k |-> f[i]] /\ f[k] = SP!Level(g[k - 1])
        /\ \A i \in 0..k - 1 : f[i] = g[i]
    BY <1>0
  <2> HIDE DEF f
  <2>0. k \in Nat /\ 0 \in 0..k - 1
    BY <1>0
  <2>3. f[0] = s
    BY <2>0, <2>1, <2>2
  <2>4. ASSUME NEW i \in 1..k PROVE f[i] = SP!Level(f[i - 1])
    <3>1. f[i - 1] = g[i - 1]
      BY <1>0, <2>2, SMTT(30)
    <3>2. CASE i = k
      BY <2>2, <3>1, <3>2
    <3>3. CASE i # k
      <4>1. i \in 1..k - 1 /\ i \in 0..k - 1
        BY <1>0, <3>3
      <4> QED
        BY <2>1, <2>2, <3>1, <4>1
    <3> QED
      BY <3>2, <3>3
  <2> QED
    BY <2>2, <2>3, <2>4
<1> HIDE DEF Until
<1>3. Bad = {}
  <2> SUFFICES ASSUME Bad # {} PROVE FALSE
    OBVIOUS
  <2>1. Bad \in SUBSET Nat
    BY <1>0
  <2>2. PICK k \in Bad : \A l \in Bad : k <= l
    BY <2>1, LeastNumber
  <2>3. k \in 1..N /\ k - 1 \in 0..N /\ k - 1 \notin Bad
    BY <1>0, <1>1, <2>2
  <2> QED
    BY <1>2, <2>2, <2>3
<1>4. Until(N)
  BY <1>0, <1>3
<1>5. PICK g : /\ g = [i \in 0..N |-> g[i]] /\ g[0] = s
               /\ \A i \in 1..N : g[i] = SP!Level(g[i - 1])
  BY <1>4 DEF Until
<1>6. g = [d \in 0..N |-> Term(g, d)]
  <2>1. \A d \in 0..N : g[d] = Term(g, d)
    BY <1>0, <1>5
  <2> HIDE DEF Term
  <2> QED
    BY <1>5, <2>1
<1>7. levels = [d \in 0..N |-> Term(levels, d)]
  BY <1>6
<1>8. SP!AllLevels(s) = levels
  BY DEF SP!AllLevels
<1> HIDE DEF levels
<1>9. \A d \in 0..N : levels[d] = Term(levels, d)
  BY <1>7
<1>10. levels[0] = s /\ \A i \in 1..N : levels[i] = SP!Level(levels[i - 1])
  BY <1>0, <1>9
<1> QED
  BY <1>8, <1>10

\* Every level is shorter than the one below, until there is a single hash.
LEMMA TreeIs ==
  ASSUME NEW s, Row(s), Len(s) > 0
  PROVE  /\ SP!Depth(s) \in 0..Len(s) /\ Len(SP!AllLevels(s)[SP!Depth(s)]) = 1
         /\ \A d \in 0..Len(s) : Row(SP!AllLevels(s)[d]) /\ Len(SP!AllLevels(s)[d]) > 0
<1> DEFINE N == Len(s)
           L == SP!AllLevels(s)
           Fine(d) == Row(L[d]) /\ Len(L[d]) > 0 /\ (Len(L[d]) = 1 \/ Len(L[d]) <= N - d)
           Bad == {d \in 0..N : ~Fine(d)}
<1>0. N \in Nat
  BY DEF Row
<1>1. Fine(0)
  BY <1>0, AllLevelsIs
<1>2. ASSUME NEW d \in 1..N, Fine(d - 1) PROVE Fine(d)
  <2>1. L[d] = SP!Level(L[d - 1])
    BY AllLevelsIs
  <2> DEFINE x == L[d - 1]
  <2> HIDE DEF L
  <2>2. Row(x) /\ Len(x) > 0 /\ (Len(x) = 1 \/ Len(x) <= N - (d - 1))
    BY <1>2
  <2>3. /\ Row(SP!Level(x)) /\ Len(SP!Level(x)) > 0
        /\ Len(x) = 1 => Len(SP!Level(x)) = 1
        /\ Len(x) > 1 => Len(SP!Level(x)) < Len(x)
    BY <2>2, LevelIs
  <2>4. Len(x) \in Nat /\ Len(SP!Level(x)) \in Nat
    BY <2>2, <2>3 DEF Row
  <2> HIDE DEF x
  <2>5. Len(SP!Level(x)) = 1 \/ Len(SP!Level(x)) <= N - d
    <3>1. PICK a \in Nat, b \in Nat : a = Len(x) /\ b = Len(SP!Level(x))
      BY <2>4
    <3>2. d \in Nat /\ 1 <= d /\ d <= N
      BY <1>0
    <3>3. a > 0 /\ b > 0 /\ (a = 1 \/ a <= N - (d - 1)) /\ (a = 1 => b = 1) /\ (a > 1 => b < a)
      BY <2>2, <2>3, <3>1
    <3>4. b = 1 \/ b <= N - d
      BY <1>0, <3>2, <3>3
    <3> QED
      BY <3>1, <3>4
  <2> QED
    BY <2>1, <2>3, <2>5 DEF x
<1> HIDE DEF Fine
<1>3. Bad = {}
  <2> SUFFICES ASSUME Bad # {} PROVE FALSE
    OBVIOUS
  <2>1. Bad \in SUBSET Nat
    BY <1>0
  <2>2. PICK d \in Bad : \A l \in Bad : d <= l
    BY <2>1, LeastNumber
  <2>3. d \in 1..N /\ d - 1 \in 0..N /\ d - 1 \notin Bad
    BY <1>0, <1>1, <2>2
  <2> QED
    BY <1>2, <2>2, <2>3
<1>4. \A d \in 0..N : Fine(d)
  BY <1>3
<1> DEFINE tops == {d \in 0..N : Len(L[d]) = 1}
<1>5. N \in tops
  <2>1. Fine(N) /\ N \in 0..N
    BY <1>0, <1>4
  <2>2. Len(L[N]) \in Nat
    BY <2>1 DEF Fine, Row
  <2> QED
    BY <1>0, <2>1, <2>2 DEF Fine
<1>6. tops \in SUBSET Nat
  BY <1>0
<1>7. PICK d \in tops : \A k \in tops : d <= k
  BY <1>5, <1>6, LeastNumber
<1>8. SP!Depth(s) = d
  <2>1. \A x \in tops : (\A k \in tops : x <= k) => x = d
    BY <1>6, <1>7
  <2>2. SP!Depth(s) = SP!Min(tops)
    BY DEF SP!Depth
  <2> HIDE DEF tops
  <2> QED
    BY <1>7, <2>1, <2>2 DEF SP!Min
<1> QED
  BY <1>4, <1>7, <1>8 DEF Fine

LEMMA RootIs ==
  ASSUME NEW s, Row(s), Len(s) > 0
  PROVE  /\ SP!Root(s) = SP!AllLevels(s)[SP!Depth(s)][1]
         /\ \A d \in 1..SP!Depth(s) : SP!Levels(s)[d] = SP!AllLevels(s)[d - 1]
<1>1. SP!Depth(s) \in Nat
  BY TreeIs DEF Row
<1>2. \A d \in 1..SP!Depth(s) + 1 : SP!Levels(s)[d] = SP!AllLevels(s)[d - 1]
  BY DEF SP!Levels
<1>3. SP!Levels(s)[SP!Depth(s) + 1] = SP!AllLevels(s)[SP!Depth(s)]
  BY <1>1, <1>2
<1> QED
  BY <1>1, <1>2, <1>3 DEF SP!Root

\* What verify_merkle_proof has computed after each level of the branch.
Computes(f, tx, branch, pos) ==
  /\ f[0] = tx
  /\ \A i \in 1..Len(branch) :
       f[i] = IF SP!OnLeft(pos, i - 1) THEN <<f[i - 1], branch[i]>> ELSE <<branch[i], f[i - 1]>>

LEMMA ComputedIs ==
  ASSUME NEW tx, NEW branch, NEW pos, Len(branch) \in Nat
  PROVE  \E f : Computes(f, tx, branch, pos) /\ SP!Computed(tx, branch, pos) = f[Len(branch)]
<1> DEFINE N == Len(branch)
           Up(x, i) == IF SP!OnLeft(pos, i - 1) THEN <<x, branch[i]>> ELSE <<branch[i], x>>
           Until(k) == \E f : /\ f = [i \in 0..k |-> f[i]] /\ f[0] = tx
                              /\ \A i \in 1..k : f[i] = Up(f[i - 1], i)
           Bad == {k \in 0..N : ~Until(k)}
           Term(f, i) == IF i = 0 THEN tx ELSE Up(f[i - 1], i)
           current == CHOOSE f : f = [i \in 0..N |-> Term(f, i)]
<1>8. SP!Computed(tx, branch, pos) = current[N]
  BY DEF SP!Computed, SP!hash256
<1> HIDE DEF Up
<1>1. Until(0)
  <2> DEFINE g == [i \in 0..0 |-> tx]
  <2>1. g = [i \in 0..0 |-> g[i]] /\ g[0] = tx /\ 1..0 = {}
    OBVIOUS
  <2> QED
    BY <2>1
<1>2. ASSUME NEW k \in 1..N, Until(k - 1) PROVE Until(k)
  <2>1. PICK g : /\ g = [i \in 0..k - 1 |-> g[i]] /\ g[0] = tx
                 /\ \A i \in 1..k - 1 : g[i] = Up(g[i - 1], i)
    BY <1>2
  <2> DEFINE f == [i \in 0..k |-> IF i = k THEN Up(g[k - 1], k) ELSE g[i]]
  <2>2. /\ f = [i \in 0..k |-> f[i]] /\ f[k] = Up(g[k - 1], k)
        /\ \A i \in 0..k - 1 : f[i] = g[i]
    OBVIOUS
  <2> HIDE DEF f
  <2>0. k \in Nat /\ 0 \in 0..k - 1
    OBVIOUS
  <2>3. f[0] = tx
    BY <2>0, <2>1, <2>2
  <2>4. ASSUME NEW i \in 1..k PROVE f[i] = Up(f[i - 1], i)
    <3>1. f[i - 1] = g[i - 1]
      <4>1. i - 1 \in 0..k - 1
        BY <2>0
      <4> QED
        BY <2>2, <4>1
    <3>2. CASE i = k
      BY <2>2, <3>1, <3>2
    <3>3. CASE i # k
      <4>1. i \in 1..k - 1 /\ i \in 0..k - 1
        BY <3>3
      <4> QED
        BY <2>1, <2>2, <3>1, <4>1
    <3> QED
      BY <3>2, <3>3
  <2> QED
    BY <2>2, <2>3, <2>4
<1> HIDE DEF Until
<1>3. Bad = {}
  <2> SUFFICES ASSUME Bad # {} PROVE FALSE
    OBVIOUS
  <2>1. Bad \in SUBSET Nat
    OBVIOUS
  <2>2. PICK k \in Bad : \A l \in Bad : k <= l
    BY <2>1, LeastNumber
  <2>3. k \in 1..N /\ k - 1 \in 0..N /\ k - 1 \notin Bad
    BY <1>1, <2>2
  <2> QED
    BY <1>2, <2>2, <2>3
<1>4. Until(N)
  BY <1>3
<1>5. PICK g : /\ g = [i \in 0..N |-> g[i]] /\ g[0] = tx
               /\ \A i \in 1..N : g[i] = Up(g[i - 1], i)
  BY <1>4 DEF Until
<1>6. g = [i \in 0..N |-> Term(g, i)]
  <2>1. \A i \in 0..N : g[i] = Term(g, i)
    BY <1>5, SMTT(30)
  <2> HIDE DEF Term
  <2> QED
    BY <1>5, <2>1
<1>7. current = [i \in 0..N |-> Term(current, i)]
  BY <1>6
<1> HIDE DEF current
<1>9. \A i \in 0..N : current[i] = Term(current, i)
  BY <1>7
<1>10. current[0] = tx /\ \A i \in 1..N : current[i] = Up(current[i - 1], i)
  BY <1>9
<1> QED
  BY <1>8, <1>10 DEF Computes, Up

LEMMA Halves ==
  ASSUME NEW q \in Nat, NEW n \in Nat, q < n
  PROVE  \E h \in Nat : /\ q \div 2 = h /\ h < (n + 1) \div 2
                        /\ \/ q = 2 * h /\ q % 2 = 0
                           \/ q = 2 * h + 1 /\ q % 2 = 1
<1>1. q % 2 \in 0..1 /\ q \div 2 \in Nat /\ q = 2 * (q \div 2) + (q % 2)
  BY Quotient
<1>2. (n + 1) % 2 \in 0..1 /\ (n + 1) \div 2 \in Nat /\ n + 1 = 2 * ((n + 1) \div 2) + ((n + 1) % 2)
  BY Quotient
<1>3. PICK h \in Nat, r \in 0..1, k \in Nat, t \in 0..1 :
        h = q \div 2 /\ r = q % 2 /\ k = (n + 1) \div 2 /\ t = (n + 1) % 2
  BY <1>1, <1>2
<1>4. q = 2 * h + r /\ n + 1 = 2 * k + t
  BY <1>1, <1>2, <1>3
<1>5. h < k
  BY <1>4
<1> QED
  BY <1>3, <1>4, <1>5

\* A transaction's own branch and position lead to the root, in a block of any shape.
LEMMA InclusionComplete ==
  ASSUME NEW s, Row(s), NEW p \in 0..Len(s) - 1
  PROVE  SP!Computed(s[p + 1], SP!BranchOf(s, p), p) = SP!Root(s)
<1> DEFINE L == SP!AllLevels(s)
           D == SP!Depth(s)
           B == SP!BranchOf(s, p)
           Q(d) == SP!Shifted(p, 2, d)
<1>0. Len(s) \in Nat /\ Len(s) > 0 /\ p \in Nat /\ p < Len(s) /\ D \in Nat /\ D <= Len(s)
  <2>1. Len(s) \in Nat
    BY DEF Row
  <2>2. Len(s) > 0 /\ p \in Nat /\ p < Len(s)
    BY <2>1
  <2>3. D \in 0..Len(s)
    BY <2>2, TreeIs
  <2> QED
    BY <2>1, <2>2, <2>3
<1>1. /\ L[0] = s /\ \A i \in 1..D : L[i] = SP!Level(L[i - 1])
      /\ \A i \in 0..D : Row(L[i]) /\ Len(L[i]) > 0
      /\ Len(L[D]) = 1 /\ SP!Root(s) = L[D][1]
  <2>1. /\ L[0] = s /\ \A i \in 1..Len(s) : L[i] = SP!Level(L[i - 1])
        /\ \A i \in 0..Len(s) : Row(L[i]) /\ Len(L[i]) > 0
        /\ Len(L[D]) = 1 /\ SP!Root(s) = L[D][1]
    BY <1>0, AllLevelsIs, TreeIs, RootIs
  <2> HIDE DEF L, D
  <2>2. (\A i \in 1..D : i \in 1..Len(s)) /\ (\A i \in 0..D : i \in 0..Len(s))
    BY <1>0
  <2> QED
    BY <2>1, <2>2
<1>2. Q(0) = p /\ \A k \in Nat : Q(k) \in Nat /\ Q(k + 1) = Q(k) \div 2
  <2>1. p \in Nat /\ 2 \in Nat \ {0}
    BY <1>0
  <2> QED
    BY <2>1, ShiftedIs
<1>3. Len(B) = D /\ \A d \in 1..D : B[d] =
        LET level == SP!Levels(s)[d]
            partner == IF Q(d - 1) % 2 = 0 THEN Q(d - 1) + 1 ELSE Q(d - 1) - 1
        IN  IF partner < Len(level) THEN level[partner + 1] ELSE level[Q(d - 1) + 1]
  <2>1. B = [d \in 1..D |->
               LET level == SP!Levels(s)[d]
                   partner == IF Q(d - 1) % 2 = 0 THEN Q(d - 1) + 1 ELSE Q(d - 1) - 1
               IN  IF partner < Len(level) THEN level[partner + 1] ELSE level[Q(d - 1) + 1]]
    BY DEF SP!BranchOf
  <2> HIDE DEF B, D, Q
  <2>2. B = [d \in 1..D |-> B[d]]
    BY <2>1
  <2>3. Len(B) = D
    BY <1>0, <2>2, RowIs
  <2> QED
    BY <2>1, <2>3
<1>4. \A d \in 1..D : SP!Levels(s)[d] = L[d - 1]
  BY <1>0, RootIs
<1>5. PICK f : Computes(f, s[p + 1], B, p) /\ SP!Computed(s[p + 1], B, p) = f[D]
  <2>1. Len(B) \in Nat
    BY <1>0, <1>3
  <2> HIDE DEF B, D
  <2> QED
    BY <1>3, <2>1, ComputedIs, SMTT(30)
<1>6. f[0] = s[p + 1] /\ \A i \in 1..D :
        f[i] = IF Q(i - 1) % 2 = 0 THEN <<f[i - 1], B[i]>> ELSE <<B[i], f[i - 1]>>
  BY <1>3, <1>5 DEF Computes, SP!OnLeft
<1> HIDE DEF L, D, B, Q
<1> DEFINE OnPath(d) == Q(d) \in Nat /\ Q(d) < Len(L[d]) /\ f[d] = L[d][Q(d) + 1]
           Bad == {d \in 0..D : ~OnPath(d)}
<1>7. OnPath(0)
  BY <1>0, <1>1, <1>2, <1>6
<1>8. ASSUME NEW d \in 1..D, OnPath(d - 1) PROVE OnPath(d)
  <2>1. PICK c \in Nat : c = d - 1 /\ c + 1 = d /\ c \in 0..D
    <3>1. d - 1 \in Nat /\ (d - 1) + 1 = d /\ d - 1 \in 0..D
      BY <1>0
    <3> QED
      BY <3>1
  <2>2. PICK x : x = L[c]
    OBVIOUS
  <2>3. PICK q : q = Q(c)
    OBVIOUS
  <2>4. /\ Row(x) /\ Len(x) > 0 /\ L[d] = SP!Level(x)
        /\ q \in Nat /\ q < Len(x) /\ f[c] = x[q + 1] /\ Q(d) = q \div 2
    BY <1>1, <1>2, <1>8, <2>1, <2>2, <2>3
  <2>5. PICK n \in Nat : n = Len(x)
    BY <2>4 DEF Row
  <2>6. PICK h \in Nat : /\ q \div 2 = h /\ h < (n + 1) \div 2
                         /\ \/ q = 2 * h /\ q % 2 = 0
                            \/ q = 2 * h + 1 /\ q % 2 = 1
    BY <2>4, <2>5, Halves
  <2>7. PICK k \in Nat : k = (n + 1) \div 2
    BY <2>5, Quotient
  <2>8. /\ Len(SP!Level(x)) = k
        /\ \A i \in 1..k :
             SP!Level(x)[i] = <<x[2 * i - 1], IF 2 * i <= n THEN x[2 * i] ELSE x[2 * i - 1]>>
    BY <2>4, <2>5, <2>7, LevelIs
  <2>9. SP!Level(x)[h + 1] = <<x[2 * h + 1], IF 2 * h + 2 <= n THEN x[2 * h + 2] ELSE x[2 * h + 1]>>
    <3>1. h + 1 \in 1..k /\ 2 * (h + 1) - 1 = 2 * h + 1 /\ 2 * (h + 1) = 2 * h + 2
      BY <2>6, <2>7
    <3> QED
      BY <2>8, <3>1
  <2>10. B[d] = LET partner == IF q % 2 = 0 THEN q + 1 ELSE q - 1
                IN  IF partner < n THEN x[partner + 1] ELSE x[q + 1]
    BY <1>3, <1>4, <2>1, <2>2, <2>3, <2>5
  <2>11. f[d] = IF q % 2 = 0 THEN <<f[c], B[d]>> ELSE <<B[d], f[c]>>
    BY <1>6, <2>1, <2>3
  <2>12. f[d] = SP!Level(x)[h + 1]
    <3>1. CASE q = 2 * h /\ q % 2 = 0
      <4>1. f[d] = <<x[q + 1], IF q + 1 < n THEN x[(q + 1) + 1] ELSE x[q + 1]>>
        BY <2>4, <2>10, <2>11, <3>1
      <4>2. q + 1 = 2 * h + 1 /\ (q + 1) + 1 = 2 * h + 2 /\ (q + 1 < n <=> 2 * h + 2 <= n)
        BY <3>1
      <4> QED
        BY <2>9, <4>1, <4>2
    <3>2. CASE q = 2 * h + 1 /\ q % 2 = 1
      <4>1. /\ q - 1 < n /\ (q - 1) + 1 = 2 * h + 1 /\ q + 1 = 2 * h + 2 /\ 2 * h + 2 <= n
        BY <2>4, <2>5, <3>2
      <4>2. B[d] = x[2 * h + 1] /\ f[d] = <<B[d], x[2 * h + 2]>>
        BY <2>4, <2>10, <2>11, <3>2, <4>1
      <4> QED
        BY <2>9, <4>1, <4>2
    <3> QED
      BY <2>6, <3>1, <3>2
  <2> QED
    BY <2>4, <2>6, <2>7, <2>8, <2>12
<1> HIDE DEF OnPath
<1>9. Bad = {}
  <2> SUFFICES ASSUME Bad # {} PROVE FALSE
    OBVIOUS
  <2>1. Bad \in SUBSET Nat
    BY <1>0
  <2>2. PICK d \in Bad : \A l \in Bad : d <= l
    BY <2>1, LeastNumber
  <2>3. d \in 1..D /\ d - 1 \in 0..D /\ d - 1 \notin Bad
    BY <1>0, <1>7, <2>2
  <2> QED
    BY <1>8, <2>2, <2>3
<1>10. OnPath(D)
  BY <1>0, <1>9
<1>11. Q(D) = 0
  BY <1>1, <1>10 DEF OnPath
<1> QED
  BY <1>1, <1>5, <1>10, <1>11 DEF OnPath, B

\* A transaction that is not in the block: from the root down its first hashes
\* would have to be the tree's, and the lowest of them is none of the block's.
LEMMA InclusionSound ==
  ASSUME NEW s, Row(s), Len(s) > 0, NEW tx, NEW branch, Len(branch) \in Nat,
         NEW here, tx = <<here>>, NEW first, s[1] = <<first>>, here # first
  PROVE  SP!Computed(tx, branch, 0) # SP!Root(s)
<1> DEFINE L == SP!AllLevels(s)
           D == SP!Depth(s)
           N == Len(branch)
<1>0. D \in Nat /\ D <= Len(s) /\ N \in Nat /\ Len(s) \in Nat
  <2>1. D \in 0..Len(s) /\ Len(s) \in Nat
    BY TreeIs DEF Row
  <2> QED
    BY <2>1
<1>1. L[0] = s /\ SP!Root(s) = L[D][1]
  BY AllLevelsIs, RootIs
<1>2. ASSUME NEW i \in 1..D
      PROVE  \E r : L[i][1] = <<L[i - 1][1], r>>
  <2>1. i \in 1..Len(s) /\ i - 1 \in 0..Len(s)
    BY <1>0
  <2>2. L[i] = SP!Level(L[i - 1]) /\ Row(L[i - 1]) /\ Len(L[i - 1]) > 0
    BY <2>1, AllLevelsIs, TreeIs
  <2> DEFINE x == L[i - 1]
  <2> HIDE DEF L
  <2>3. Len(SP!Level(x)) > 0 /\ Len(SP!Level(x)) \in Nat
    BY <2>2, LevelIs DEF Row
  <2>4. SP!Level(x)[1] = <<x[2 * 1 - 1], IF 2 * 1 <= Len(x) THEN x[2 * 1] ELSE x[2 * 1 - 1]>>
    <3>1. 1 \in 1..Len(SP!Level(x))
      BY <2>3
    <3> QED
      BY <2>2, <3>1, LevelIs
  <2> QED
    BY <2>2, <2>4
<1>3. PICK f : Computes(f, tx, branch, 0) /\ SP!Computed(tx, branch, 0) = f[N]
  BY <1>0, ComputedIs
<1>4. f[0] = tx /\ \A i \in 1..N : f[i] = <<f[i - 1], branch[i]>>
  <2>1. ASSUME NEW i \in 1..N PROVE SP!OnLeft(0, i - 1)
    <3>1. PICK k \in Nat : k = i - 1
      BY <1>0
    <3>2. SP!Shifted(0, 2, k) = 0
      <4> DEFINE Bad == {j \in Nat : SP!Shifted(0, 2, j) # 0}
      <4>1. SP!Shifted(0, 2, 0) = 0 /\ \A j \in Nat : SP!Shifted(0, 2, j + 1) = SP!Shifted(0, 2, j) \div 2
        BY ShiftedIs
      <4>2. Bad = {}
        <5> SUFFICES ASSUME Bad # {} PROVE FALSE
          OBVIOUS
        <5>1. PICK j \in Bad : \A l \in Bad : j <= l
          BY LeastNumber
        <5>2. PICK h \in Nat : j = h + 1
          <6>1. j \in Nat /\ j # 0
            BY <4>1
          <6>2. j - 1 \in Nat /\ j = (j - 1) + 1
            BY <6>1
          <6> QED
            BY <6>2
        <5>3. h \notin Bad
          BY <5>1, <5>2
        <5> QED
          BY <4>1, <5>1, <5>2, <5>3
      <4> QED
        BY <4>2
    <3> QED
      BY <3>1, <3>2 DEF SP!OnLeft
  <2> QED
    BY <1>3, <2>1 DEF Computes
<1> SUFFICES ASSUME f[N] = L[D][1] PROVE FALSE
  BY <1>1, <1>3
<1> HIDE DEF L, D, N
<1> DEFINE Meets(j) == f[N - j] = L[D - j][1]
           M == IF N < D THEN N ELSE D
           Bad == {j \in 0..M : ~Meets(j)}
<1>5. M \in Nat /\ M <= N /\ M <= D /\ (M = N \/ M = D)
  BY <1>0
<1> HIDE DEF M
<1>6. Meets(0)
  BY <1>0
<1>7. ASSUME NEW j \in 1..M, Meets(j - 1) PROVE Meets(j)
  <2>1. PICK a \in 1..N, c \in 1..D :
          a = N - (j - 1) /\ a - 1 = N - j /\ c = D - (j - 1) /\ c - 1 = D - j
    <3>1. /\ N - (j - 1) \in 1..N /\ (N - (j - 1)) - 1 = N - j
          /\ D - (j - 1) \in 1..D /\ (D - (j - 1)) - 1 = D - j
      BY <1>0, <1>5
    <3> QED
      BY <3>1
  <2>2. f[a] = L[c][1] /\ f[a] = <<f[a - 1], branch[a]>>
    BY <1>4, <1>7, <2>1
  <2>3. PICK r : L[c][1] = <<L[c - 1][1], r>>
    BY <1>2
  <2>4. f[a - 1] = L[c - 1][1]
    <3>1. <<f[a - 1], branch[a]>>[1] = <<L[c - 1][1], r>>[1]
      BY <2>2, <2>3
    <3> QED
      BY <3>1
  <2> QED
    BY <2>1, <2>4
<1> HIDE DEF Meets
<1>8. Bad = {}
  <2> SUFFICES ASSUME Bad # {} PROVE FALSE
    OBVIOUS
  <2>1. Bad \in SUBSET Nat
    BY <1>5
  <2>2. PICK j \in Bad : \A l \in Bad : j <= l
    BY <2>1, LeastNumber
  <2>3. j \in 1..M /\ j - 1 \in 0..M /\ j - 1 \notin Bad
    BY <1>5, <1>6, <2>2
  <2> QED
    BY <1>7, <2>2, <2>3
<1>9. f[N - M] = L[D - M][1]
  BY <1>5, <1>8 DEF Meets
<1>10. CASE M = N
  <2>1. f[N - M] = tx
    <3>1. N - M = 0
      BY <1>0, <1>10
    <3>2. f[0] = tx
      BY <1>4
    <3>3. f[N - M] = f[0]
      BY <3>1
    <3> QED
      BY <3>2, <3>3
  <2>2. CASE D - M = 0
    <3>1. tx = s[1]
      BY <1>1, <1>9, <2>1, <2>2
    <3>2. <<here>>[1] = <<first>>[1]
      BY <3>1
    <3> QED
      BY <3>2
  <2>3. CASE D - M # 0
    <3>1. D - M \in 1..D
      BY <1>0, <1>5, <2>3
    <3>2. PICK l, r : L[D - M][1] = <<l, r>>
      BY <1>2, <3>1
    <3>3. <<here>> = <<l, r>>
      BY <1>9, <2>1, <3>2
    <3>4. Len(<<here>>) = 1 /\ Len(<<l, r>>) = 2
      OBVIOUS
    <3> QED
      BY <3>3, <3>4
  <2> QED
    BY <2>2, <2>3
<1>11. CASE M = D /\ M # N
  <2>1. f[N - M] = <<first>>
    BY <1>0, <1>1, <1>9, <1>11
  <2>2. N - M \in 1..N
    BY <1>0, <1>5, <1>11
  <2>3. PICK l, r : f[N - M] = <<l, r>>
    BY <1>4, <2>2
  <2>4. Len(<<first>>) = 1 /\ Len(<<l, r>>) = 2
    OBVIOUS
  <2> QED
    BY <2>1, <2>3, <2>4
<1> QED
  BY <1>5, <1>10, <1>11

-----------------------------------------------------------------------------
(* Proofs of inclusion: the commands *)

LEMMA BlockIs ==
  ASSUME SP!BlockInv
  PROVE  /\ Row(block) /\ SP!Range(block) = {block[i] : i \in 1..Len(block)}
         /\ \A i \in 1..Len(block) : \E x : x # Other /\ block[i] = <<x>>
<1>1. PICK b \in Blocks : block = [i \in DOMAIN b |-> <<b[i]>>]
  BY DEF SP!BlockInv
<1>2. b \in Seq({b[i] : i \in DOMAIN b}) /\ \A i \in DOMAIN b : b[i] # Other
  BY SpvAssumption DEF SpvAssumption
<1>3. Len(b) \in Nat /\ DOMAIN b = 1..Len(b)
  BY <1>2
<1>4. block = [i \in 1..Len(b) |-> block[i]]
  BY <1>1, <1>3
<1>5. Row(block) /\ Len(block) = Len(b)
  BY <1>3, <1>4, RowIs
<1>6. DOMAIN block = 1..Len(block)
  BY <1>1, <1>3, <1>5
<1>7. SP!Range(block) = {block[i] : i \in 1..Len(block)}
  BY <1>6 DEF SP!Range
<1>8. \A i \in 1..Len(block) : b[i] # Other /\ block[i] = <<b[i]>>
  BY <1>1, <1>2, <1>3, <1>5
<1> QED
  BY <1>5, <1>7, <1>8

\* Whatever the server sends, the verdict is right.
LEMMA SentIs ==
  ASSUME SP!BlockInv, block # <<>>, NEW sent \in SP!Sent
  PROVE  /\ Len(sent.branch) \in Nat
         /\ SP!verify_merkle_proof(sent.tx, sent.branch, sent.pos, SP!Root(block)) =>
              sent.tx \in SP!Range(block)
         /\ \A p \in 0..Len(block) - 1 :
              sent.tx = block[p + 1] /\ sent.branch = SP!BranchOf(block, p) /\ sent.pos = p =>
                SP!verify_merkle_proof(sent.tx, sent.branch, sent.pos, SP!Root(block))
<1>0. /\ Row(block) /\ SP!Range(block) = {block[i] : i \in 1..Len(block)}
      /\ \A i \in 1..Len(block) : \E x : x # Other /\ block[i] = <<x>>
  BY BlockIs
<1>1. Len(block) \in Nat /\ Len(block) > 0
  <2>1. Len(block) \in Nat /\ block = [i \in 1..Len(block) |-> block[i]]
    BY <1>0 DEF Row
  <2>2. CASE Len(block) = 0
    <3>1. block = [i \in 1..0 |-> block[i]]
      BY <2>1, <2>2
    <3>2. block = <<>>
      BY <3>1
    <3> QED
      BY <3>2
  <2> QED
    BY <2>1, <2>2
<1>2. CASE sent \in [tx : SP!Range(block) \cup {<<Other>>}, branch : SP!Branches, pos : {0}]
  <2>1. sent.tx \in SP!Range(block) \cup {<<Other>>} /\ sent.branch \in SP!Branches /\ sent.pos = 0
    BY <1>2
  <2>2. PICK d \in 0..MaxBranch : sent.branch \in [1..d -> SP!Nodes(block)]
    BY <2>1 DEF SP!Branches
  <2>3. Len(sent.branch) \in Nat
    <3>1. d \in Nat
      BY SpvAssumption DEF SpvAssumption
    <3>2. sent.branch = [i \in 1..d |-> sent.branch[i]]
      BY <2>2
    <3> QED
      BY <3>1, <3>2, RowIs
  <2>4. ASSUME SP!verify_merkle_proof(sent.tx, sent.branch, sent.pos, SP!Root(block))
        PROVE  sent.tx \in SP!Range(block)
    <3>1. CASE sent.tx = <<Other>>
      <4>1. PICK x : x # Other /\ block[1] = <<x>>
        BY <1>0, <1>1
      <4>2. SP!Computed(sent.tx, sent.branch, 0) = SP!Root(block)
        BY <2>1, <2>4 DEF SP!verify_merkle_proof
      <4> QED
        BY <1>0, <1>1, <2>3, <3>1, <4>1, <4>2, InclusionSound
    <3> QED
      BY <2>1, <3>1
  <2>5. ASSUME NEW p \in 0..Len(block) - 1, sent.tx = block[p + 1],
               sent.branch = SP!BranchOf(block, p), sent.pos = p
        PROVE  SP!verify_merkle_proof(sent.tx, sent.branch, sent.pos, SP!Root(block))
    BY <1>0, <2>5, InclusionComplete DEF SP!verify_merkle_proof
  <2> QED
    BY <2>3, <2>4, <2>5
<1>3. CASE sent \in {[tx |-> block[p + 1], branch |-> SP!BranchOf(block, p), pos |-> p] :
                       p \in 0..Len(block) - 1}
  <2>1. PICK p \in 0..Len(block) - 1 :
          sent.tx = block[p + 1] /\ sent.branch = SP!BranchOf(block, p) /\ sent.pos = p
    BY <1>3
  <2>2. p + 1 \in 1..Len(block)
    BY <1>1
  <2>3. Len(sent.branch) \in Nat
    <3>1. SP!Depth(block) \in Nat
      BY <1>0, <1>1, TreeIs
    <3> DEFINE B == SP!BranchOf(block, p)
    <3>2. B = [d \in 1..SP!Depth(block) |-> B[d]]
      BY DEF SP!BranchOf
    <3> HIDE DEF B
    <3>3. Len(B) \in Nat
      BY <3>1, <3>2, RowIs
    <3> QED
      BY <2>1, <3>3 DEF B
  <2>4. SP!verify_merkle_proof(sent.tx, sent.branch, sent.pos, SP!Root(block))
    BY <1>0, <2>1, InclusionComplete DEF SP!verify_merkle_proof
  <2> QED
    BY <1>0, <2>1, <2>2, <2>3, <2>4
<1> QED
  BY <1>2, <1>3 DEF SP!Sent

\* A command on its way that met no other is the only one on its way.
LEMMA AloneStays ==
  ASSUME SP!TypeOK, SP!AloneInv, NEW c \in Calls, pc[c] # "idle", NEW where,
         pc' = [pc EXCEPT ![c] = where], met' = met,
         where \in {"idle", "taken"} \/ header_store'
  PROVE  SP!AloneInv'
<1> SUFFICES ASSUME NEW d \in Calls, pc'[d] # "idle", d \notin met
             PROVE  /\ {e \in Calls : e # d /\ pc'[e] # "idle"} = {}
                    /\ pc'[d] = "ready" => header_store'
  BY DEF SP!AloneInv, SP!Others
<1>1. pc \in [Calls -> {"idle", "open", "ready", "taken"}]
  BY DEF SP!TypeOK
<1>2. d = c
  BY <1>1 DEF SP!AloneInv, SP!Others
<1>3. {e \in Calls : e # d /\ pc[e] # "idle"} = {}
  BY <1>2 DEF SP!AloneInv, SP!Others
<1>4. {e \in Calls : e # d /\ pc'[e] # "idle"} = {}
  BY <1>1, <1>2, <1>3
<1>5. pc'[d] = where
  BY <1>1, <1>2
<1> QED
  BY <1>4, <1>5

LEMMA Ended ==
  ASSUME SP!IInv, NEW c \in Calls, pc[c] # "idle", NEW how \in {"failed", "no store", "done"},
         SP!End(c, how), header_store' \in BOOLEAN, how = "no store" => c \in met
  PROVE  SP!IInv'
<1>1. /\ pc' = [pc EXCEPT ![c] = "idle"] /\ verdict' = [verdict EXCEPT ![c] = how]
      /\ block' = block /\ kind' = kind /\ proof' = proof /\ met' = met /\ bits' = bits
  BY DEF SP!End
<1>2. SP!TypeOK'
  BY <1>1 DEF SP!IInv, SP!TypeOK
<1>3. SP!BlockInv'
  BY <1>1 DEF SP!IInv, SP!BlockInv
<1>4. SP!AloneInv'
  BY <1>1, AloneStays DEF SP!IInv
<1>5. SP!ProofSound' /\ SP!ProofComplete'
  BY <1>1 DEF SP!IInv, SP!ProofSound, SP!ProofComplete
<1>6. SP!AloneHasStore'
  BY <1>1 DEF SP!IInv, SP!TypeOK, SP!AloneHasStore
<1> QED
  BY <1>2, <1>3, <1>4, <1>5, <1>6 DEF SP!IInv

LEMMA CommandStarts ==
  ASSUME SP!IInv, NEW c \in Calls, NEW k \in {"verify", "info", "sync"}, SP!Start(c, k)
  PROVE  SP!IInv'
<1>1. /\ pc[c] = "idle" /\ pc' = [pc EXCEPT ![c] = IF header_store THEN "ready" ELSE "open"]
      /\ kind' = [kind EXCEPT ![c] = k]
      /\ met' = IF SP!Others(c) = {} THEN met ELSE met \cup {c} \cup SP!Others(c)
      /\ block' = block /\ header_store' = header_store /\ verdict' = verdict
      /\ proof' = proof /\ bits' = bits
  BY DEF SP!Start
<1>2. pc \in [Calls -> {"idle", "open", "ready", "taken"}] /\ met \subseteq Calls
  BY DEF SP!IInv, SP!TypeOK
<1>3. SP!TypeOK'
  <2>1. met' \subseteq Calls
    BY <1>1, <1>2 DEF SP!Others
  <2> QED
    BY <1>1, <2>1 DEF SP!IInv, SP!TypeOK
<1>4. SP!BlockInv'
  BY <1>1 DEF SP!IInv, SP!BlockInv
<1>5. SP!AloneInv'
  <2> SUFFICES ASSUME NEW d \in Calls, pc'[d] # "idle", d \notin met'
               PROVE  /\ {e \in Calls : e # d /\ pc'[e] # "idle"} = {}
                      /\ pc'[d] = "ready" => header_store'
    BY DEF SP!AloneInv, SP!Others
  <2>1. d = c
    BY <1>1, <1>2 DEF SP!Others
  <2>2. SP!Others(c) = {}
    BY <1>1, <2>1
  <2>3. {e \in Calls : e # d /\ pc'[e] # "idle"} = {}
    BY <1>1, <1>2, <2>1, <2>2 DEF SP!Others
  <2>4. pc'[d] = "ready" => header_store'
    BY <1>1, <1>2, <2>1
  <2> QED
    BY <2>3, <2>4
<1>6. SP!ProofSound' /\ SP!ProofComplete'
  BY <1>1 DEF SP!IInv, SP!ProofSound, SP!ProofComplete
<1>7. SP!AloneHasStore'
  BY <1>1 DEF SP!IInv, SP!AloneHasStore
<1> QED
  BY <1>3, <1>4, <1>5, <1>6, <1>7 DEF SP!IInv

\* A step that only moves the command and the store.
LEMMA StoreMoved ==
  ASSUME SP!IInv, NEW c \in Calls, pc[c] # "idle", NEW where \in {"ready", "taken"},
         pc' = [pc EXCEPT ![c] = where], header_store' \in BOOLEAN,
         where = "ready" => header_store',
         UNCHANGED <<block, kind, verdict, proof, met, bits>>
  PROVE  SP!IInv'
<1>1. SP!TypeOK'
  BY DEF SP!IInv, SP!TypeOK
<1>2. SP!BlockInv'
  BY DEF SP!IInv, SP!BlockInv
<1>3. SP!AloneInv'
  BY AloneStays DEF SP!IInv
<1>4. SP!ProofSound' /\ SP!ProofComplete' /\ SP!AloneHasStore'
  BY DEF SP!IInv, SP!ProofSound, SP!ProofComplete, SP!AloneHasStore
<1> QED
  BY <1>1, <1>2, <1>3, <1>4 DEF SP!IInv

LEMMA StoreOpened ==
  ASSUME SP!IInv, NEW c \in Calls, SP!Open(c)
  PROVE  SP!IInv'
<1>1. pc[c] # "idle" /\ header_store \in BOOLEAN
  BY DEF SP!Open, SP!IInv, SP!TypeOK
<1>2. CASE /\ header_store' = TRUE /\ pc' = [pc EXCEPT ![c] = "ready"]
           /\ UNCHANGED <<block, kind, verdict, proof, met, bits>>
  BY <1>1, <1>2, StoreMoved
<1>3. CASE SP!End(c, "failed") /\ UNCHANGED header_store
  BY <1>1, <1>3, Ended
<1> QED
  BY <1>2, <1>3 DEF SP!Open

LEMMA StoreTaken ==
  ASSUME SP!IInv, NEW c \in Calls, SP!Take(c)
  PROVE  SP!IInv'
<1>1. pc[c] = "ready" /\ header_store \in BOOLEAN
  BY DEF SP!Take, SP!IInv, SP!TypeOK
<1>2. CASE SP!End(c, "failed") /\ UNCHANGED header_store
  BY <1>1, <1>2, Ended
<1>3. CASE /\ header_store' = FALSE /\ pc' = [pc EXCEPT ![c] = "taken"]
           /\ UNCHANGED <<block, kind, verdict, proof, met, bits>>
  BY <1>1, <1>3, StoreMoved
<1>4. CASE ~header_store /\ SP!End(c, "no store") /\ UNCHANGED header_store
  <2>1. c \in met
    BY <1>1, <1>4 DEF SP!IInv, SP!AloneInv
  <2> QED
    BY <1>1, <1>4, <2>1, Ended
<1> QED
  BY <1>2, <1>3, <1>4 DEF SP!Take

LEMMA ProofVerified ==
  ASSUME SP!IInv, block # <<>>, NEW c \in Calls, SP!Verify(c)
  PROVE  SP!IInv'
<1>1. PICK sent \in SP!Sent :
        proof' = [tx |-> sent.tx, branch |-> sent.branch, pos |-> sent.pos,
                  verified |-> SP!verify_merkle_proof(sent.tx, sent.branch, sent.pos, SP!Root(block))]
  BY DEF SP!Verify
<1>2. /\ pc[c] = "taken" /\ header_store' = TRUE /\ pc' = [pc EXCEPT ![c] = "idle"]
      /\ verdict' = [verdict EXCEPT ![c] = "done"]
      /\ block' = block /\ kind' = kind /\ met' = met /\ bits' = bits
  BY DEF SP!Verify
<1> DEFINE right == SP!verify_merkle_proof(sent.tx, sent.branch, sent.pos, SP!Root(block))
<1>3. /\ proof'.tx = sent.tx /\ proof'.branch = sent.branch /\ proof'.pos = sent.pos
      /\ proof'.verified = right
  BY <1>1
<1>4. /\ Len(sent.branch) \in Nat
      /\ right => sent.tx \in SP!Range(block)
      /\ \A p \in 0..Len(block) - 1 :
           sent.tx = block[p + 1] /\ sent.branch = SP!BranchOf(block, p) /\ sent.pos = p => right
  BY SentIs DEF SP!IInv
<1>5. right \in BOOLEAN
  BY DEF SP!verify_merkle_proof
<1> HIDE DEF right
<1>6. SP!TypeOK'
  BY <1>2, <1>3, <1>4, <1>5 DEF SP!IInv, SP!TypeOK
<1>7. SP!BlockInv'
  BY <1>2 DEF SP!IInv, SP!BlockInv
<1>8. SP!AloneInv'
  BY <1>2, AloneStays DEF SP!IInv
<1>9. SP!ProofSound'
  BY <1>2, <1>3, <1>4 DEF SP!ProofSound
<1>10. SP!ProofComplete'
  BY <1>2, <1>3, <1>4 DEF SP!ProofComplete
<1>11. SP!AloneHasStore'
  BY <1>2 DEF SP!IInv, SP!TypeOK, SP!AloneHasStore
<1> QED
  BY <1>6, <1>7, <1>8, <1>9, <1>10, <1>11 DEF SP!IInv

LEMMA SpvInit == ASSUME SP!Init PROVE SP!IInv
<1>1. /\ \E b \in Blocks : block = [i \in DOMAIN b |-> <<b[i]>>]
      /\ header_store = FALSE /\ pc = [c \in Calls |-> "idle"] /\ kind = [c \in Calls |-> "none"]
      /\ verdict = [c \in Calls |-> "none"] /\ proof = SP!NoProof /\ met = {}
      /\ block = <<>> => bits \in SP!AllBits
  BY DEF SP!Init
<1>2. proof.verified = FALSE /\ proof.tx = <<>> /\ proof.branch = <<>>
  BY <1>1 DEF SP!NoProof
<1>3. SP!TypeOK
  BY <1>1, <1>2 DEF SP!TypeOK
<1>4. SP!BlockInv
  BY <1>1 DEF SP!BlockInv
<1>5. SP!AloneInv /\ SP!AloneHasStore /\ SP!ProofSound
  BY <1>1, <1>2 DEF SP!AloneInv, SP!AloneHasStore, SP!ProofSound
<1>6. SP!ProofComplete
  <2> SUFFICES ASSUME NEW p \in 0..Len(block) - 1, proof.tx = block[p + 1] PROVE FALSE
    BY DEF SP!ProofComplete
  <2>1. Len(block) \in Nat
    BY <1>4, BlockIs DEF Row
  <2>2. p + 1 \in 1..Len(block)
    BY <2>1
  <2>3. PICK x : block[p + 1] = <<x>>
    BY <1>4, <2>2, BlockIs
  <2>4. <<>> = <<x>>
    BY <1>2, <2>3
  <2> QED
    BY <2>4
<1> QED
  BY <1>3, <1>4, <1>5, <1>6 DEF SP!IInv

\* Only an invocation of a block that is there starts.
SpvInv == part = "spv" => SP!IInv /\ (block = <<>> => \A c \in Calls : pc[c] = "idle")

\* The commands on one header store: what was verified is right, and a command
\* that met no other has the store.
THEOREM SpvInvariant == Spec => []SpvInv
<1>1. Init => SpvInv
  BY SpvInit DEF Init, SpvInv, SP!Init
<1>2. SpvInv /\ [Next]_vars => SpvInv'
  <2> SUFFICES ASSUME part = "spv", SP!IInv, block = <<>> => \A c \in Calls : pc[c] = "idle",
                      [Next]_vars, part' = "spv"
               PROVE  SP!IInv' /\ (block' = <<>> => \A c \in Calls : pc'[c] = "idle")
    BY DEF SpvInv, Next, vars
  <2>1. CASE SP!Next
    <3>1. PICK c \in Calls :
            \/ \E k \in {"verify", "info", "sync"} : SP!Start(c, k)
            \/ SP!Open(c) \/ SP!Take(c) \/ SP!Verify(c) \/ SP!PutBack(c) \/ SP!Lose(c)
      BY <2>1 DEF SP!Next
    <3>2. block # <<>>
      BY <3>1 DEF SP!Start, SP!Open, SP!Take, SP!Verify, SP!PutBack, SP!Lose
    <3>3. block' = block
      BY <3>1 DEF SP!Start, SP!Open, SP!Take, SP!Verify, SP!PutBack, SP!Lose, SP!End
    <3>4. CASE \E k \in {"verify", "info", "sync"} : SP!Start(c, k)
      BY <3>2, <3>3, <3>4, CommandStarts
    <3>5. CASE SP!Open(c)
      BY <3>2, <3>3, <3>5, StoreOpened
    <3>6. CASE SP!Take(c)
      BY <3>2, <3>3, <3>6, StoreTaken
    <3>7. CASE SP!Verify(c)
      BY <3>2, <3>3, <3>7, ProofVerified
    <3>8. CASE SP!PutBack(c)
      <4>1. pc[c] # "idle" /\ header_store' \in BOOLEAN /\ SP!End(c, "done")
        BY <3>8 DEF SP!PutBack
      <4> QED
        BY <3>2, <3>3, <4>1, Ended
    <3>9. CASE SP!Lose(c)
      <4>1. pc[c] # "idle" /\ header_store' \in BOOLEAN /\ SP!End(c, "failed")
        BY <3>9 DEF SP!Lose, SP!IInv, SP!TypeOK
      <4> QED
        BY <3>2, <3>3, <4>1, Ended
    <3> QED
      BY <3>1, <3>4, <3>5, <3>6, <3>7, <3>8, <3>9
  <2>2. CASE UNCHANGED vars
    <3>1. /\ block' = block /\ header_store' = header_store /\ verdict' = verdict
          /\ proof' = proof /\ met' = met /\ bits' = bits /\ pc' = pc /\ kind' = kind
      BY <2>2 DEF vars, spv
    <3>2. SP!TypeOK' /\ SP!AloneHasStore'
      BY <3>1 DEF SP!IInv, SP!TypeOK, SP!AloneHasStore
    <3>3. SP!BlockInv'
      BY <3>1 DEF SP!IInv, SP!BlockInv
    <3>4. SP!AloneInv'
      BY <3>1 DEF SP!IInv, SP!AloneInv, SP!Others
    <3>5. SP!ProofSound' /\ SP!ProofComplete'
      BY <3>1 DEF SP!IInv, SP!ProofSound, SP!ProofComplete
    <3> QED
      BY <3>1, <3>2, <3>3, <3>4, <3>5 DEF SP!IInv
  <2> QED
    BY <2>1, <2>2 DEF Next
<1> QED
  BY <1>1, <1>2, PTL DEF Spec

\* verify_transaction_proof, target_from_bits, check_pow: for blocks of every
\* shape and branches of any length a transaction is said to be in the block only
\* if it is, with its own branch it is said to be, and every target is compared
\* as the number its bits stand for.
THEOREM ProofsAreSound == Spec => []ProofsSound
<1>1. SpvInv => ProofsSound
  <2> SUFFICES ASSUME part = "spv", SP!IInv
               PROVE  /\ SP!TypeOK /\ SP!ProofSound /\ SP!ProofComplete /\ SP!AloneHasStore
                      /\ block = <<>> => SP!TargetIsItsNumber
    BY DEF SpvInv, ProofsSound
  <2>1. block = <<>> => SP!TargetIsItsNumber
    BY TargetRight DEF SP!IInv, SP!BlockInv
  <2> QED
    BY <2>1 DEF SP!IInv
<1> QED
  BY <1>1, SpvInvariant, PTL

-----------------------------------------------------------------------------
(* Multisig: encodings *)

\* A byte and what is above it.
Place(a, r) == a + 256 * r
Rest(v, i) == MS!Shifts(v)[i]
Low(v, i) == MS!Shifts(v)[i] % 256

LEMMA PlaceNone ==
  ASSUME NEW a \in Nat
  PROVE  Place(a, 0) = a
BY DEF Place

LEMMA PlaceZero ==
  ASSUME NEW a \in Nat, NEW r \in Nat, Place(a, r) = 0
  PROVE  r = 0
BY DEF Place

LEMMA Shift ==
  ASSUME NEW v \in Nat
  PROVE  v \div 256 \in Nat /\ v % 256 \in 0..255 /\ v = Place(v % 256, v \div 256)
<1>1. v % 256 \in 0..255
  OBVIOUS
<1>2. v \div 256 \in Nat
  OBVIOUS
<1>3. v = 256 * (v \div 256) + (v % 256)
  OBVIOUS
<1>4. PICK q \in Nat, r \in Nat : q = v \div 256 /\ r = v % 256
  BY <1>1, <1>2
<1>5. v = 256 * q + r
  BY <1>3, <1>4
<1>6. v = r + 256 * q
  BY <1>5
<1> QED
  BY <1>1, <1>2, <1>4, <1>6 DEF Place

\* A number of four bytes: each is what the next shift leaves behind.
LEMMA Bytes ==
  ASSUME NEW v \in Nat, MS!Shifts(v)[4] < 256
  PROVE  /\ \A i \in 1..4 : Rest(v, i) \in Nat /\ Low(v, i) \in Nat
         /\ v = Place(Low(v, 1), Rest(v, 2))
         /\ Rest(v, 2) = Place(Low(v, 2), Rest(v, 3))
         /\ Rest(v, 3) = Place(Low(v, 3), Rest(v, 4))
         /\ Rest(v, 4) = Low(v, 4)
         /\ (Rest(v, 2) = 0 => Rest(v, 3) = 0) /\ (Rest(v, 3) = 0 => Rest(v, 4) = 0)
<1>1. PICK x : x = v \div 256
  OBVIOUS
<1>2. PICK y : y = x \div 256
  OBVIOUS
<1>3. PICK z : z = y \div 256
  OBVIOUS
<1>4. MS!Shifts(v) = <<v, x, y, z>>
  BY <1>1, <1>2, <1>3 DEF MS!Shifts
<1>5. Rest(v, 1) = v /\ Rest(v, 2) = x /\ Rest(v, 3) = y /\ Rest(v, 4) = z
  BY <1>4 DEF Rest
<1>6. /\ Low(v, 1) = v % 256 /\ Low(v, 2) = x % 256
      /\ Low(v, 3) = y % 256 /\ Low(v, 4) = z % 256
  BY <1>4 DEF Low
<1>7. x \in Nat /\ v % 256 \in 0..255 /\ v = Place(v % 256, x)
  BY <1>1, Shift
<1>8. y \in Nat /\ x % 256 \in 0..255 /\ x = Place(x % 256, y)
  BY <1>2, <1>7, Shift
<1>9. z \in Nat /\ y % 256 \in 0..255 /\ y = Place(y % 256, z)
  BY <1>3, <1>8, Shift
<1>10. z < 256
  BY <1>4
<1>11. z % 256 = z /\ z \in 0..255
  BY <1>9, <1>10
<1>12. \A i \in 1..4 : Rest(v, i) \in Nat /\ Low(v, i) \in Nat
  <2> SUFFICES ASSUME NEW i \in 1..4 PROVE Rest(v, i) \in Nat /\ Low(v, i) \in Nat
    OBVIOUS
  <2>0. v % 256 \in Nat /\ x % 256 \in Nat /\ y % 256 \in Nat /\ z % 256 \in Nat
    BY <1>7, <1>8, <1>9, <1>11
  <2>1. i = 1 \/ i = 2 \/ i = 3 \/ i = 4
    OBVIOUS
  <2> QED
    BY <1>5, <1>6, <1>7, <1>8, <1>9, <2>0, <2>1
<1>13. (x = 0 => y = 0) /\ (y = 0 => z = 0)
  <2>1. x % 256 \in Nat /\ y % 256 \in Nat
    BY <1>8, <1>9
  <2> QED
    BY <1>8, <1>9, <2>1, PlaceZero
<1> QED
  BY <1>5, <1>6, <1>7, <1>8, <1>9, <1>11, <1>12, <1>13

LEMMA LittleEndianIs ==
  ASSUME NEW v \in Nat, MS!Shifts(v)[4] < 256, NEW k \in 1..4
  PROVE  /\ MS!LittleEndian(v, k) \in Seq(Nat) /\ Len(MS!LittleEndian(v, k)) = k
         /\ \A i \in 1..k : MS!LittleEndian(v, k)[i] = Low(v, i)
<1>1. MS!LittleEndian(v, k) = [i \in 1..k |-> Low(v, i)]
  BY DEF MS!LittleEndian, Low
<1>2. \A i \in 1..k : Low(v, i) \in Nat
  <2>1. \A i \in 1..k : i \in 1..4
    OBVIOUS
  <2> QED
    BY <2>1, Bytes
<1> QED
  BY <1>1, <1>2

LEMMA SumIs ==
  ASSUME NEW b \in Seq(Nat)
  PROVE  /\ Len(b) = 1 => MS!Sum(b) = b[1]
         /\ Len(b) = 2 => MS!Sum(b) = Place(b[1], b[2])
         /\ Len(b) = 3 => MS!Sum(b) = Place(b[1], Place(b[2], b[3]))
         /\ Len(b) = 4 => MS!Sum(b) = Place(b[1], Place(b[2], Place(b[3], b[4])))
         /\ Len(b) = 5 => MS!Sum(b) = Place(b[1], Place(b[2], Place(b[3], Place(b[4], b[5]))))
<1> DEFINE At(i) == IF i <= Len(b) THEN b[i] ELSE 0
<1>1. MS!Sum(b) = Place(At(1), Place(At(2), Place(At(3), Place(At(4), At(5)))))
  BY DEF MS!Sum, Place
<1>2. \A i \in 1..5 : (i <= Len(b) => At(i) = b[i] /\ b[i] \in Nat) /\ (i > Len(b) => At(i) = 0)
  OBVIOUS
<1>0. Place(0, 0) = 0
  BY PlaceNone
<1> HIDE DEF At
<1>3. CASE Len(b) = 1
  <2>1. At(1) = b[1] /\ At(2) = 0 /\ At(3) = 0 /\ At(4) = 0 /\ At(5) = 0 /\ b[1] \in Nat
    BY <1>2, <1>3
  <2> QED
    BY <1>0, <1>1, <1>3, <2>1, PlaceNone
<1>4. CASE Len(b) = 2
  <2>1. At(1) = b[1] /\ At(2) = b[2] /\ At(3) = 0 /\ At(4) = 0 /\ At(5) = 0 /\ b[2] \in Nat
    BY <1>2, <1>4
  <2> QED
    BY <1>0, <1>1, <1>4, <2>1, PlaceNone
<1>5. CASE Len(b) = 3
  <2>1. At(1) = b[1] /\ At(2) = b[2] /\ At(3) = b[3] /\ At(4) = 0 /\ At(5) = 0 /\ b[3] \in Nat
    BY <1>2, <1>5
  <2> QED
    BY <1>0, <1>1, <1>5, <2>1, PlaceNone
<1>6. CASE Len(b) = 4
  <2>1. /\ At(1) = b[1] /\ At(2) = b[2] /\ At(3) = b[3] /\ At(4) = b[4] /\ At(5) = 0
        /\ b[4] \in Nat
    BY <1>2, <1>6
  <2> QED
    BY <1>1, <1>6, <2>1, PlaceNone
<1>7. CASE Len(b) = 5
  <2>1. /\ At(1) = b[1] /\ At(2) = b[2] /\ At(3) = b[3] /\ At(4) = b[4] /\ At(5) = b[5]
    BY <1>2, <1>7
  <2> QED
    BY <1>1, <1>7, <2>1
<1> QED
  BY <1>3, <1>4, <1>5, <1>6, <1>7

LEMMA Behind ==
  ASSUME NEW x \in Nat, NEW b \in Seq(Nat)
  PROVE  LET p == <<x>> \o b
         IN  p[1] = x /\ SubSeq(p, 2, Len(b) + 1) = b /\ Tail(p) = b
<1> DEFINE p == <<x>> \o b
<1>1. p \in Seq(Nat) /\ Len(p) = Len(b) + 1 /\ p[1] = x /\ Len(b) \in Nat
      /\ \A i \in 1..Len(b) : p[i + 1] = b[i]
  OBVIOUS
<1> HIDE DEF p
<1>2. SubSeq(p, 2, Len(b) + 1) \in Seq(Nat) /\ Len(SubSeq(p, 2, Len(b) + 1)) = Len(b)
  BY <1>1
<1>3. \A i \in 1..Len(b) : SubSeq(p, 2, Len(b) + 1)[i] = b[i]
  BY <1>1
<1>4. SubSeq(p, 2, Len(b) + 1) = b
  BY <1>2, <1>3, SeqEqual
<1>5. Tail(p) \in Seq(Nat) /\ Len(Tail(p)) = Len(b) /\ \A i \in 1..Len(b) : Tail(p)[i] = p[i + 1]
  BY <1>1
<1>6. Tail(p) = b
  BY <1>1, <1>5, SeqEqual
<1> QED
  BY <1>1, <1>4, <1>6 DEF p

\* The fewest bytes that lose nothing.
LEMMA MinimalBytes ==
  ASSUME NEW v \in Nat, MS!Shifts(v)[4] < 256
  PROVE  LET b == MS!LittleEndian(v, MS!ByteCount(v))
         IN  b \in Seq(Nat) /\ Len(b) \in 1..4 /\ MS!Sum(b) = v
<1> DEFINE l == MS!LittleEndian(v, MS!ByteCount(v))
<1>1. /\ \A i \in 1..4 : Rest(v, i) \in Nat /\ Low(v, i) \in Nat
      /\ v = Place(Low(v, 1), Rest(v, 2))
      /\ Rest(v, 2) = Place(Low(v, 2), Rest(v, 3))
      /\ Rest(v, 3) = Place(Low(v, 3), Rest(v, 4))
      /\ Rest(v, 4) = Low(v, 4)
      /\ (Rest(v, 2) = 0 => Rest(v, 3) = 0) /\ (Rest(v, 3) = 0 => Rest(v, 4) = 0)
  BY Bytes
<1>2. MS!ByteCount(v) = CASE Rest(v, 2) = 0 -> 1
                          [] Rest(v, 2) # 0 /\ Rest(v, 3) = 0 -> 2
                          [] Rest(v, 3) # 0 /\ Rest(v, 4) = 0 -> 3
                          [] Rest(v, 4) # 0 -> 4
  BY DEF MS!ByteCount, Rest
<1>0. 1 \in 1..4 /\ 2 \in 1..4 /\ 3 \in 1..4 /\ 4 \in 1..4
  OBVIOUS
<1>3. ASSUME NEW k \in 1..4, MS!ByteCount(v) = k
      PROVE  l \in Seq(Nat) /\ Len(l) = k /\ \A i \in 1..k : l[i] = Low(v, i)
  BY <1>3, LittleEndianIs
<1> HIDE DEF l
<1>4. CASE Rest(v, 2) = 0
  <2>1. MS!ByteCount(v) = 1
    BY <1>1, <1>2, <1>4
  <2>2. l \in Seq(Nat) /\ Len(l) = 1 /\ \A i \in 1..1 : l[i] = Low(v, i)
    BY <1>0, <1>3, <2>1
  <2>3. l[1] = Low(v, 1) /\ Low(v, 1) \in Nat
    BY <1>0, <1>1, <2>2
  <2>4. v = Low(v, 1)
    BY <1>1, <1>4, <2>3, PlaceNone
  <2>5. MS!Sum(l) = l[1]
    BY <2>2, SumIs
  <2> QED
    BY <1>0, <2>2, <2>3, <2>4, <2>5 DEF l
<1>5. CASE Rest(v, 2) # 0 /\ Rest(v, 3) = 0
  <2>1. MS!ByteCount(v) = 2
    BY <1>1, <1>2, <1>5
  <2>2. l \in Seq(Nat) /\ Len(l) = 2 /\ \A i \in 1..2 : l[i] = Low(v, i)
    BY <1>0, <1>3, <2>1
  <2>3. l[1] = Low(v, 1) /\ l[2] = Low(v, 2) /\ Low(v, 2) \in Nat
    BY <1>0, <1>1, <2>2
  <2>4. Rest(v, 2) = Low(v, 2)
    BY <1>1, <1>5, <2>3, PlaceNone
  <2>5. MS!Sum(l) = Place(l[1], l[2])
    BY <2>2, SumIs
  <2> QED
    BY <1>0, <1>1, <2>2, <2>3, <2>4, <2>5 DEF l
<1>6. CASE Rest(v, 3) # 0 /\ Rest(v, 4) = 0
  <2>1. MS!ByteCount(v) = 3
    BY <1>1, <1>2, <1>6
  <2>2. l \in Seq(Nat) /\ Len(l) = 3 /\ \A i \in 1..3 : l[i] = Low(v, i)
    BY <1>0, <1>3, <2>1
  <2>3. l[1] = Low(v, 1) /\ l[2] = Low(v, 2) /\ l[3] = Low(v, 3) /\ Low(v, 3) \in Nat
    BY <1>0, <1>1, <2>2
  <2>4. Rest(v, 3) = Low(v, 3)
    BY <1>1, <1>6, <2>3, PlaceNone
  <2>5. MS!Sum(l) = Place(l[1], Place(l[2], l[3]))
    BY <2>2, SumIs
  <2> QED
    BY <1>0, <1>1, <2>2, <2>3, <2>4, <2>5 DEF l
<1>7. CASE Rest(v, 4) # 0
  <2>1. MS!ByteCount(v) = 4
    BY <1>1, <1>2, <1>7
  <2>2. l \in Seq(Nat) /\ Len(l) = 4 /\ \A i \in 1..4 : l[i] = Low(v, i)
    BY <1>0, <1>3, <2>1
  <2>3. l[1] = Low(v, 1) /\ l[2] = Low(v, 2) /\ l[3] = Low(v, 3) /\ l[4] = Low(v, 4)
    BY <1>0, <2>2
  <2>4. MS!Sum(l) = Place(l[1], Place(l[2], Place(l[3], l[4])))
    BY <2>2, SumIs
  <2> QED
    BY <1>0, <1>1, <2>2, <2>3, <2>4 DEF l
<1> QED
  BY <1>1, <1>4, <1>5, <1>6, <1>7

\* With a byte for the sign where the high bit would be taken for it.
LEMMA SignByte ==
  ASSUME NEW b \in Seq(Nat), Len(b) \in 1..4
  PROVE  LET signed == IF MS!Last(b) >= 128 THEN Append(b, 0) ELSE b
         IN  /\ signed \in Seq(Nat) /\ Len(signed) \in 1..5
             /\ MS!Last(signed) \in Nat /\ ~(MS!Last(signed) >= 128) /\ MS!Sum(signed) = MS!Sum(b)
<1> DEFINE signed == IF MS!Last(b) >= 128 THEN Append(b, 0) ELSE b
<1>1. Len(b) \in Nat /\ \A i \in 1..Len(b) : b[i] \in Nat
  OBVIOUS
<1>2. MS!Last(b) \in Nat
  BY <1>1 DEF MS!Last
<1>3. CASE MS!Last(b) >= 128
  <2>1. signed = Append(b, 0)
    BY <1>3
  <2>2. /\ signed \in Seq(Nat) /\ Len(signed) = Len(b) + 1 /\ signed[Len(b) + 1] = 0
        /\ \A i \in 1..Len(b) : signed[i] = b[i]
    BY <2>1
  <2> HIDE DEF signed
  <2>3. MS!Last(signed) = 0
    BY <2>2 DEF MS!Last
  <2>4. ASSUME Len(b) = 1 PROVE MS!Sum(signed) = MS!Sum(b)
    <3>1. Len(signed) = 2 /\ signed[1] = b[1] /\ signed[2] = 0 /\ b[1] \in Nat
      BY <1>1, <2>2, <2>4
    <3>2. MS!Sum(signed) = Place(signed[1], signed[2]) /\ MS!Sum(b) = b[1]
      BY <2>2, <2>4, <3>1, SumIs
    <3> QED
      BY <3>1, <3>2, PlaceNone
  <2>5. ASSUME Len(b) = 2 PROVE MS!Sum(signed) = MS!Sum(b)
    <3>1. /\ Len(signed) = 3 /\ signed[1] = b[1] /\ signed[2] = b[2] /\ signed[3] = 0
          /\ b[2] \in Nat
      BY <1>1, <2>2, <2>5
    <3>2. /\ MS!Sum(signed) = Place(signed[1], Place(signed[2], signed[3]))
          /\ MS!Sum(b) = Place(b[1], b[2])
      BY <2>2, <2>5, <3>1, SumIs
    <3> QED
      BY <3>1, <3>2, PlaceNone
  <2>6. ASSUME Len(b) = 3 PROVE MS!Sum(signed) = MS!Sum(b)
    <3>1. /\ Len(signed) = 4 /\ signed[1] = b[1] /\ signed[2] = b[2] /\ signed[3] = b[3]
          /\ signed[4] = 0 /\ b[3] \in Nat
      BY <1>1, <2>2, <2>6
    <3>2. /\ MS!Sum(signed) = Place(signed[1], Place(signed[2], Place(signed[3], signed[4])))
          /\ MS!Sum(b) = Place(b[1], Place(b[2], b[3]))
      BY <2>2, <2>6, <3>1, SumIs
    <3> QED
      BY <3>1, <3>2, PlaceNone
  <2>7. ASSUME Len(b) = 4 PROVE MS!Sum(signed) = MS!Sum(b)
    <3>1. /\ Len(signed) = 5 /\ signed[1] = b[1] /\ signed[2] = b[2] /\ signed[3] = b[3]
          /\ signed[4] = b[4] /\ signed[5] = 0 /\ b[4] \in Nat
      BY <1>1, <2>2, <2>7
    <3>2. /\ MS!Sum(signed) =
               Place(signed[1], Place(signed[2], Place(signed[3], Place(signed[4], signed[5]))))
          /\ MS!Sum(b) = Place(b[1], Place(b[2], Place(b[3], b[4])))
      BY <2>2, <2>7, <3>1, SumIs
    <3> QED
      BY <3>1, <3>2, PlaceNone
  <2>8. Len(b) = 1 \/ Len(b) = 2 \/ Len(b) = 3 \/ Len(b) = 4
    OBVIOUS
  <2>9. MS!Sum(signed) = MS!Sum(b)
    BY <2>4, <2>5, <2>6, <2>7, <2>8
  <2>10. Len(signed) \in 1..5
    <3>1. \A k \in 1..4 : k + 1 \in 1..5
      OBVIOUS
    <3> QED
      BY <2>2, <3>1
  <2>11. ~(0 >= 128)
    OBVIOUS
  <2> QED
    BY <2>2, <2>3, <2>9, <2>10, <2>11 DEF signed
<1>4. CASE ~(MS!Last(b) >= 128)
  <2>1. Len(b) \in 1..5
    OBVIOUS
  <2> QED
    BY <1>2, <1>4, <2>1
<1> QED
  BY <1>3, <1>4

LEMMA NumberRead ==
  ASSUME NEW v \in Nat, MS!Shifts(v)[4] < 256
  PROVE  MS!ScriptNumber(MS!push_int(v)) = v
<1>1. CASE v \in 1..16
  <2>1. MS!push_int(v) = <<81 + v - 1>>
    BY <1>1 DEF MS!push_int, MS!OP_1
  <2>2. 81 + v - 1 \in 81..81 + 15 /\ (81 + v - 1) - 81 + 1 = v
    BY <1>1
  <2> QED
    BY <2>1, <2>2 DEF MS!ScriptNumber, MS!OP_1
<1>2. CASE v \notin 1..16
  <2> DEFINE b == MS!LittleEndian(v, MS!ByteCount(v))
             signed == IF MS!Last(b) >= 128 THEN Append(b, 0) ELSE b
             p == <<Len(signed)>> \o signed
  <2>1. MS!push_int(v) = p
    BY <1>2 DEF MS!push_int, MS!push_minimal_signed
  <2>0. b \in Seq(Nat) /\ Len(b) \in 1..4 /\ MS!Sum(b) = v
    BY MinimalBytes
  <2> HIDE DEF b
  <2>2. /\ signed \in Seq(Nat) /\ Len(signed) \in 1..5
        /\ MS!Last(signed) \in Nat /\ ~(MS!Last(signed) >= 128) /\ MS!Sum(signed) = v
    BY <2>0, SignByte
  <2> HIDE DEF signed
  <2>3. Len(signed) \in Nat
    BY <2>2
  <2>4. p[1] = Len(signed) /\ SubSeq(p, 2, Len(signed) + 1) = signed
    BY <2>2, <2>3, Behind
  <2> HIDE DEF p
  <2>5. p[1] \notin 81..81 + 15
    <3>1. \A k \in 1..5 : k \notin 81..81 + 15
      BY SMT
    <3> QED
      BY <2>2, <2>4, <3>1
  <2>6. MS!ScriptNumber(p) = MS!Sum(signed)
    BY <2>2, <2>4, <2>5 DEF MS!ScriptNumber, MS!OP_1
  <2> QED
    BY <2>1, <2>2, <2>6
<1> QED
  BY <1>1, <1>2

LEMMA LengthRead ==
  ASSUME NEW v \in Nat, MS!Shifts(v)[4] < 256
  PROVE  MS!PushLength(MS!PushHeader(v)) = v
<1>0. MS!OP_PUSHDATA1 = 76
  BY DEF MS!OP_PUSHDATA1
<1>1. /\ \A i \in 1..4 : Rest(v, i) \in Nat /\ Low(v, i) \in Nat
      /\ v = Place(Low(v, 1), Rest(v, 2))
      /\ Rest(v, 2) = Place(Low(v, 2), Rest(v, 3))
      /\ Rest(v, 3) = Place(Low(v, 3), Rest(v, 4))
      /\ Rest(v, 4) = Low(v, 4)
  BY Bytes
<1>2. 1 \in 1..4 /\ 2 \in 1..4 /\ 3 \in 1..4 /\ 4 \in 1..4
  OBVIOUS
<1>3. ASSUME NEW k \in {2, 4}
      PROVE  LET b == MS!LittleEndian(v, k)
             IN  b \in Seq(Nat) /\ Len(b) = k /\ \A i \in 1..k : b[i] = Low(v, i)
  <2>1. k \in 1..4
    OBVIOUS
  <2> QED
    BY <2>1, LittleEndianIs
<1>4. CASE v <= 75
  <2>1. MS!PushHeader(v) = <<v>>
    BY SMT, <1>4 DEF MS!PushHeader
  <2>2. v < 76
    BY <1>4
  <2> QED
    BY <1>0, <2>1, <2>2 DEF MS!PushLength
<1>5. CASE v > 75 /\ v <= 255
  <2>1. MS!PushHeader(v) = <<76, v>>
    BY SMT, <1>0, <1>5 DEF MS!PushHeader
  <2>2. Tail(<<76, v>>) = <<v>>
    OBVIOUS
  <2>3. <<v>> \in Seq(Nat) /\ Len(<<v>>) = 1 /\ <<v>>[1] = v
    OBVIOUS
  <2>4. MS!Sum(<<v>>) = v
    BY <2>3, SumIs
  <2>5. ~(76 < 76)
    OBVIOUS
  <2> QED
    BY <1>0, <2>1, <2>2, <2>4, <2>5 DEF MS!PushLength
<1>6. CASE v > 255 /\ v <= 65535
  <2> DEFINE b == MS!LittleEndian(v, 2)
  <2>1. Rest(v, 3) = 0
    <3>1. PICK a \in Nat, x \in Nat, c \in Nat, y \in Nat :
            a = Low(v, 1) /\ x = Rest(v, 2) /\ c = Low(v, 2) /\ y = Rest(v, 3)
      BY <1>1, <1>2
    <3>2. v = a + 256 * x /\ x = c + 256 * y
      BY <1>1, <3>1 DEF Place
    <3>3. ~(y >= 1)
      BY SMT, <1>6, <3>2
    <3> QED
      BY <3>1, <3>3
  <2>2. MS!PushHeader(v) = <<77>> \o b
    BY SMT, <1>0, <1>6 DEF MS!PushHeader
  <2>3. b \in Seq(Nat) /\ Len(b) = 2 /\ \A i \in 1..2 : b[i] = Low(v, i)
    BY <1>3
  <2> HIDE DEF b
  <2>4. b[1] = Low(v, 1) /\ b[2] = Low(v, 2) /\ Low(v, 2) \in Nat
    <3>1. 1 \in 1..2 /\ 2 \in 1..2
      OBVIOUS
    <3> QED
      BY <1>1, <1>2, <2>3, <3>1
  <2>5. MS!Sum(b) = Place(b[1], b[2])
    BY <2>3, SumIs
  <2>6. MS!Sum(b) = v
    BY <1>1, <2>1, <2>4, <2>5, PlaceNone
  <2>7. (<<77>> \o b)[1] = 77 /\ Tail(<<77>> \o b) = b
    <3>1. 77 \in Nat
      OBVIOUS
    <3> QED
      BY <2>3, <3>1, Behind, ZenonT(60)
  <2>8. ~(77 < 76)
    OBVIOUS
  <2>9. PICK p : p = <<77>> \o b
    OBVIOUS
  <2>10. MS!PushHeader(v) = p /\ p[1] = 77 /\ Tail(p) = b
    BY <2>2, <2>7, <2>9
  <2> QED
    BY <1>0, <2>6, <2>8, <2>10, ZenonT(60) DEF MS!PushLength
<1>7. CASE v > 65535
  <2> DEFINE b == MS!LittleEndian(v, 4)
  <2>2. MS!PushHeader(v) = <<78>> \o b
    BY SMT, <1>0, <1>7 DEF MS!PushHeader
  <2>3. b \in Seq(Nat) /\ Len(b) = 4 /\ \A i \in 1..4 : b[i] = Low(v, i)
    BY <1>3
  <2> HIDE DEF b
  <2>4. b[1] = Low(v, 1) /\ b[2] = Low(v, 2) /\ b[3] = Low(v, 3) /\ b[4] = Low(v, 4)
    BY <1>2, <2>3
  <2>5. MS!Sum(b) = Place(b[1], Place(b[2], Place(b[3], b[4])))
    BY <2>3, SumIs
  <2>6. MS!Sum(b) = v
    BY <1>1, <2>4, <2>5
  <2>7. (<<78>> \o b)[1] = 78 /\ Tail(<<78>> \o b) = b
    <3>1. 78 \in Nat
      OBVIOUS
    <3> QED
      BY <2>3, <3>1, Behind, ZenonT(60)
  <2>8. ~(78 < 76)
    OBVIOUS
  <2>9. PICK p : p = <<78>> \o b
    OBVIOUS
  <2>10. MS!PushHeader(v) = p /\ p[1] = 78 /\ Tail(p) = b
    BY <2>2, <2>7, <2>9
  <2> QED
    BY <1>0, <2>6, <2>8, <2>10, ZenonT(60) DEF MS!PushLength
<1> QED
  BY <1>4, <1>5, <1>6, <1>7

-----------------------------------------------------------------------------
(* Multisig: scripts and stacks *)

LEMMA RowTyped ==
  ASSUME NEW s, Row(s)
  PROVE  s \in Seq({s[i] : i \in 1..Len(s)})
<1>1. s \in [1..Len(s) -> {s[i] : i \in 1..Len(s)}] /\ Len(s) \in Nat
  BY DEF Row
<1> QED
  BY <1>1

LEMMA TypedRow ==
  ASSUME NEW S, NEW s \in Seq(S)
  PROVE  Row(s)
BY DEF Row

LEMMA RowsEqual ==
  ASSUME NEW s, NEW t, Row(s), Row(t), Len(s) = Len(t), \A i \in 1..Len(s) : s[i] = t[i]
  PROVE  s = t
BY DEF Row

LEMMA Glued ==
  ASSUME NEW s, NEW t, Row(s), Row(t)
  PROVE  /\ Row(s \o t) /\ Len(s \o t) = Len(s) + Len(t)
         /\ \A i \in 1..Len(s) : (s \o t)[i] = s[i]
         /\ \A i \in 1..Len(t) : (s \o t)[Len(s) + i] = t[i]
<1>0. Len(s) \in Nat /\ Len(t) \in Nat
  BY DEF Row
<1> DEFINE S == {s[i] : i \in 1..Len(s)} \cup {t[i] : i \in 1..Len(t)}
<1>1. s \in [1..Len(s) -> S] /\ t \in [1..Len(t) -> S]
  BY DEF Row
<1>2. s \in Seq(S) /\ t \in Seq(S)
  BY <1>0, <1>1
<1> HIDE DEF S
<1>3. s \o t \in Seq(S) /\ Len(s \o t) = Len(s) + Len(t)
  BY <1>2
<1>4. \A i \in 1..Len(s) : (s \o t)[i] = s[i]
  BY <1>2
<1>5. \A i \in 1..Len(t) : (s \o t)[Len(s) + i] = t[i]
  BY <1>2
<1> QED
  BY <1>3, <1>4, <1>5, TypedRow

\* What is put on a stack is on top and can be taken off again.
LEMMA Grown ==
  ASSUME NEW s, NEW x, Row(s)
  PROVE  /\ Row(Append(s, x)) /\ Len(Append(s, x)) = Len(s) + 1 /\ Len(s) \in Nat
         /\ Append(s, x)[Len(s) + 1] = x /\ \A i \in 1..Len(s) : Append(s, x)[i] = s[i]
         /\ MS!Last(Append(s, x)) = x /\ MS!Front(Append(s, x)) = s
         /\ SubSeq(Append(s, x), 1, Len(s)) = s
<1> DEFINE S == {s[i] : i \in 1..Len(s)} \cup {x}
           t == Append(s, x)
<1>0. Len(s) \in Nat /\ s \in [1..Len(s) -> S] /\ x \in S
  BY DEF Row
<1>1. s \in Seq(S)
  BY <1>0
<1> HIDE DEF S
<1>2. /\ t \in Seq(S) /\ Len(t) = Len(s) + 1 /\ t[Len(s) + 1] = x
      /\ \A i \in 1..Len(s) : t[i] = s[i]
  BY <1>0, <1>1
<1> HIDE DEF t
<1>3. SubSeq(t, 1, Len(s)) \in Seq(S) /\ Len(SubSeq(t, 1, Len(s))) = Len(s)
      /\ \A i \in 1..Len(s) : SubSeq(t, 1, Len(s))[i] = t[i]
  BY <1>0, <1>2
<1>4. SubSeq(t, 1, Len(s)) = s
  BY <1>1, <1>2, <1>3, TypedRow, RowsEqual
<1>5. Len(t) - 1 = Len(s)
  BY <1>0, <1>2
<1> QED
  BY <1>0, <1>2, <1>4, <1>5, TypedRow DEF t, MS!Last, MS!Front

\* The two on top.
LEMMA TwoOnTop ==
  ASSUME NEW s, NEW x, NEW y, Row(s)
  PROVE  LET t == Append(Append(s, x), y)
         IN  /\ Row(t) /\ Len(t) = Len(s) + 2 /\ Len(s) \in Nat
             /\ t[Len(t) - 1] = x /\ MS!Last(t) = y
             /\ SubSeq(t, 1, Len(t) - 2) = s /\ SubSeq(t, 1, Len(t) - 1) = Append(s, x)
<1> DEFINE r == Append(s, x)
           t == Append(r, y)
<1>1. Row(r) /\ Len(r) = Len(s) + 1 /\ r[Len(s) + 1] = x /\ Len(s) \in Nat
      /\ \A i \in 1..Len(s) : r[i] = s[i]
  BY Grown
<1> HIDE DEF r
<1>2. Row(t) /\ Len(t) = Len(r) + 1 /\ MS!Last(t) = y /\ SubSeq(t, 1, Len(r)) = r
      /\ \A i \in 1..Len(r) : t[i] = r[i]
  BY <1>1, Grown
<1> HIDE DEF t
<1>3. Len(t) = Len(s) + 2 /\ Len(t) - 1 = Len(r) /\ Len(t) - 2 = Len(s) /\ Len(r) \in 1..Len(r)
  BY <1>1, <1>2
<1>4. t[Len(t) - 1] = x
  BY <1>1, <1>2, <1>3
<1> DEFINE u == SubSeq(t, 1, Len(s))
<1>5. Row(u) /\ Len(u) = Len(s) /\ \A i \in 1..Len(s) : u[i] = t[i]
  <2> DEFINE T == {t[i] : i \in 1..Len(t)}
  <2>1. t \in Seq(T)
    BY <1>2, RowTyped
  <2> HIDE DEF T
  <2>2. u \in Seq(T) /\ Len(u) = Len(s) /\ \A i \in 1..Len(s) : u[i] = t[i]
    BY <1>1, <1>3, <2>1
  <2> HIDE DEF u
  <2> QED
    BY <2>2, TypedRow
<1>6. \A i \in 1..Len(s) : u[i] = s[i]
  BY <1>1, <1>2, <1>3, <1>5
<1>7. u = s
  BY <1>5, <1>6, RowsEqual
<1> QED
  BY <1>1, <1>2, <1>3, <1>4, <1>7 DEF t, r

LEMMA OnTop ==
  ASSUME NEW s, Row(s)
  PROVE  /\ \A a : s \o <<a>> = Append(s, a)
         /\ \A a, b : s \o <<a, b>> = Append(Append(s, a), b)
         /\ \A a, b, c : s \o <<a, b, c>> = Append(Append(Append(s, a), b), c)
         /\ \A a, b, c, d : s \o <<a, b, c, d>> = Append(Append(Append(Append(s, a), b), c), d)
<1>1. ASSUME NEW t, Row(t), NEW a
      PROVE  s \o Append(t, a) = Append(s \o t, a)
  <2>1. /\ Row(Append(t, a)) /\ Len(Append(t, a)) = Len(t) + 1 /\ Append(t, a)[Len(t) + 1] = a
        /\ Len(t) \in Nat /\ \A i \in 1..Len(t) : Append(t, a)[i] = t[i]
    BY <1>1, Grown
  <2>2. /\ Row(s \o Append(t, a)) /\ Len(s \o Append(t, a)) = Len(s) + (Len(t) + 1)
        /\ \A i \in 1..Len(s) : (s \o Append(t, a))[i] = s[i]
        /\ \A i \in 1..Len(t) + 1 : (s \o Append(t, a))[Len(s) + i] = Append(t, a)[i]
    BY <2>1, Glued
  <2>3. /\ Row(s \o t) /\ Len(s \o t) = Len(s) + Len(t)
        /\ \A i \in 1..Len(s) : (s \o t)[i] = s[i]
        /\ \A i \in 1..Len(t) : (s \o t)[Len(s) + i] = t[i]
    BY <1>1, Glued
  <2>4. /\ Row(Append(s \o t, a)) /\ Len(Append(s \o t, a)) = Len(s \o t) + 1
        /\ Append(s \o t, a)[Len(s \o t) + 1] = a
        /\ \A i \in 1..Len(s \o t) : Append(s \o t, a)[i] = (s \o t)[i]
    BY <2>3, Grown
  <2> DEFINE u == s \o Append(t, a)
             w == Append(s \o t, a)
  <2>5. Len(s) \in Nat
    BY DEF Row
  <2>6. Len(u) = Len(w)
    BY <2>1, <2>2, <2>3, <2>4, <2>5
  <2>7. ASSUME NEW i \in 1..Len(u) PROVE u[i] = w[i]
    <3>1. CASE i <= Len(s)
      <4>1. i \in 1..Len(s) /\ i \in 1..Len(s \o t)
        BY <2>1, <2>2, <2>3, <2>5, <3>1
      <4> QED
        BY <2>2, <2>3, <2>4, <4>1
    <3>2. CASE i > Len(s) /\ i <= Len(s) + Len(t)
      <4>1. PICK j \in 1..Len(t) : i = Len(s) + j
        <5>1. i - Len(s) \in 1..Len(t) /\ i = Len(s) + (i - Len(s))
          BY <2>1, <2>2, <2>5, <3>2
        <5> QED
          BY <5>1
      <4>2. j \in 1..Len(t) + 1 /\ i \in 1..Len(s \o t)
        BY <2>1, <2>3, <2>5, <4>1
      <4> QED
        BY <2>1, <2>2, <2>3, <2>4, <4>1, <4>2
    <3>3. CASE i > Len(s) + Len(t)
      <4>1. i = Len(s) + (Len(t) + 1) /\ i = Len(s \o t) + 1 /\ Len(t) + 1 \in 1..Len(t) + 1
        BY <2>1, <2>2, <2>3, <2>5, <3>3, SMTT(30)
      <4> QED
        BY <2>1, <2>2, <2>4, <4>1
    <3>4. Len(s) + Len(t) \in Nat /\ i \in Nat
      BY <2>1, <2>5, <2>2
    <3> QED
      BY <2>5, <3>1, <3>2, <3>3, <3>4
  <2> QED
    BY <2>2, <2>4, <2>6, <2>7, RowsEqual
<1>2. Row(<<>>) /\ s \o <<>> = s
  <2>1. s \in Seq({s[i] : i \in 1..Len(s)})
    BY RowTyped
  <2>2. s \o <<>> = s
    BY <2>1
  <2> QED
    BY <2>2 DEF Row
<1>3. ASSUME NEW a PROVE Row(<<a>>) /\ s \o <<a>> = Append(s, a)
  <2>1. <<a>> = Append(<<>>, a)
    OBVIOUS
  <2> QED
    BY <1>1, <1>2, <2>1, Grown
<1>4. ASSUME NEW a, NEW b
      PROVE  Row(<<a, b>>) /\ s \o <<a, b>> = Append(Append(s, a), b)
  <2>1. <<a, b>> = Append(<<a>>, b)
    OBVIOUS
  <2>2. Row(<<a>>) /\ s \o <<a>> = Append(s, a)
    BY <1>3
  <2>3. Row(Append(<<a>>, b))
    BY <2>2, Grown
  <2>4. s \o Append(<<a>>, b) = Append(s \o <<a>>, b)
    BY <1>1, <2>2
  <2> QED
    BY ONLY <2>1, <2>2, <2>3, <2>4
<1>5. ASSUME NEW a, NEW b, NEW c
      PROVE  Row(<<a, b, c>>) /\ s \o <<a, b, c>> = Append(Append(Append(s, a), b), c)
  <2>1. <<a, b, c>> = Append(<<a, b>>, c)
    OBVIOUS
  <2>2. Row(<<a, b>>) /\ s \o <<a, b>> = Append(Append(s, a), b)
    BY <1>4
  <2>3. Row(Append(<<a, b>>, c))
    BY <2>2, Grown
  <2>4. s \o Append(<<a, b>>, c) = Append(s \o <<a, b>>, c)
    BY <1>1, <2>2
  <2> QED
    BY <2>1, <2>2, <2>3, <2>4
<1>6. ASSUME NEW a, NEW b, NEW c, NEW d
      PROVE  s \o <<a, b, c, d>> = Append(Append(Append(Append(s, a), b), c), d)
  <2>1. <<a, b, c, d>> = Append(<<a, b, c>>, d)
    OBVIOUS
  <2>2. Row(<<a, b, c>>) /\ s \o <<a, b, c>> = Append(Append(Append(s, a), b), c)
    BY <1>5
  <2>3. s \o Append(<<a, b, c>>, d) = Append(s \o <<a, b, c>>, d)
    BY <1>1, <2>2
  <2> QED
    BY <2>1, <2>2, <2>3
<1> QED
  BY <1>3, <1>4, <1>5, <1>6

\* The place of the j-th element of the i-th block of ten.
LEMMA TenPlaces ==
  ASSUME NEW k \in Nat, NEW i \in 1..k, NEW j \in 1..10
  PROVE  10 * (i - 1) + j \in 1..10 * k
<1>1. PICK p \in Nat : p = i - 1 /\ p + 1 <= k
  <2>1. i - 1 \in Nat /\ (i - 1) + 1 <= k
    OBVIOUS
  <2> QED
    BY <2>1
<1>2. PICK m \in Nat : m = k - (p + 1) /\ k = p + 1 + m
  <2>1. k - (p + 1) \in Nat /\ k = p + 1 + (k - (p + 1))
    BY <1>1
  <2> QED
    BY <2>1
<1>3. 10 * k = 10 * p + 10 + 10 * m
  BY ONLY p \in Nat, m \in Nat, <1>2
<1>4. 10 * p + j \in 1..10 * k
  BY ONLY p \in Nat, m \in Nat, j \in 1..10, <1>3
<1> QED
  BY <1>1, <1>4

\* As many blocks of ten, one behind the other.
LEMMA BlocksInRow ==
  ASSUME NEW N \in Nat, NEW seqs, seqs = [i \in 1..N |-> seqs[i]],
         \A i \in 1..N : Row(seqs[i]) /\ Len(seqs[i]) = 10
  PROVE  LET f == MS!FlattenSeq(seqs)
         IN  /\ Row(f) /\ Len(f) = 10 * N
             /\ \A i \in 1..N : \A j \in 1..10 : f[10 * (i - 1) + j] = seqs[i][j]
<1> DEFINE Result(f, k) == /\ Row(f) /\ Len(f) = 10 * k
                           /\ \A i \in 1..k : \A j \in 1..10 : f[10 * (i - 1) + j] = seqs[i][j]
<1>0. Row(seqs) /\ Len(seqs) = N
  BY RowIs
<1>1. ASSUME NEW k \in Nat, k + 1 \in 1..N, NEW f, Result(f, k)
      PROVE  Result(f \o seqs[k + 1], k + 1)
  <2> DEFINE g == f \o seqs[k + 1]
  <2>1. Row(f) /\ Len(f) = 10 * k /\ Row(seqs[k + 1]) /\ Len(seqs[k + 1]) = 10
    BY <1>1
  <2>2. Row(g) /\ Len(g) = 10 * k + 10
        /\ (\A m \in 1..10 * k : g[m] = f[m])
        /\ \A j \in 1..10 : g[10 * k + j] = seqs[k + 1][j]
    <3> DEFINE t == seqs[k + 1]
    <3>1. Row(f) /\ Row(t) /\ Len(f) = 10 * k /\ Len(t) = 10
      BY <2>1
    <3> HIDE DEF t
    <3>2. /\ Row(f \o t) /\ Len(f \o t) = Len(f) + Len(t)
          /\ \A m \in 1..Len(f) : (f \o t)[m] = f[m]
          /\ \A j \in 1..Len(t) : (f \o t)[Len(f) + j] = t[j]
      <4>1. Row(f) /\ Row(t)
        BY <3>1
      <4> QED
        BY ONLY <4>1, Glued
    <3> QED
      BY <3>1, <3>2 DEF t
  <2> HIDE DEF g
  <2>3. ASSUME NEW i \in 1..k + 1, NEW j \in 1..10
        PROVE  g[10 * (i - 1) + j] = seqs[i][j]
    <3>1. CASE i = k + 1
      <4>1. 10 * (i - 1) + j = 10 * k + j
        BY <3>1
      <4> QED
        BY <2>2, <3>1, <4>1
    <3>2. CASE i # k + 1
      <4>1. i \in 1..k /\ 10 * (i - 1) + j \in 1..10 * k
        <5>1. i \in 1..k
          BY <3>2
        <5> QED
          BY ONLY k \in Nat, j \in 1..10, <5>1, TenPlaces
      <4> QED
        BY <1>1, <2>2, <4>1
    <3> QED
      BY <3>1, <3>2
  <2>4. 10 * k + 10 = 10 * (k + 1)
    OBVIOUS
  <2> QED
    BY <2>2, <2>3, <2>4 DEF g
<1>2. Result(<<>>, 0)
  BY DEF Row
<1> HIDE DEF Result
<1>3. CASE N = 0
  <2>1. seqs = <<>>
    <3>1. Row(<<>>) /\ Len(<<>>) = 0
      BY DEF Row
    <3> QED
      BY <1>0, <1>3, <3>1, RowsEqual
  <2>2. MS!FlattenSeq(seqs) = <<>>
    BY <1>0, <1>3, <2>1 DEF MS!FlattenSeq
  <2> QED
    BY <1>2, <1>3, <2>2 DEF Result
<1>4. CASE N # 0
  <2> DEFINE Term(h, i) == IF i = 1 THEN seqs[i] ELSE h[i - 1] \o seqs[i]
             flatten == CHOOSE h : h = [i \in 1..N |-> Term(h, i)]
  <2>1. MS!FlattenSeq(seqs) = flatten[N]
    BY <1>0, <1>4 DEF MS!FlattenSeq
  <2>2. ASSUME NEW h, h = [i \in 1..N |-> Term(h, i)]
        PROVE  \A i \in 1..N : Result(h[i], i)
    <3>1. \A i \in 1..N : h[i] = Term(h, i)
      BY <2>2
    <3> DEFINE Wrong == {i \in 1..N : ~Result(h[i], i)}
    <3>2. SUFFICES ASSUME Wrong # {} PROVE FALSE
      OBVIOUS
    <3>3. Wrong \in SUBSET Nat
      OBVIOUS
    <3>4. PICK i \in Wrong : \A j \in Wrong : i <= j
      BY <3>2, <3>3, LeastNumber
    <3>5. CASE i = 1
      <4>1. h[1] = seqs[1] /\ 1 \in 1..N /\ 1 = 0 + 1
        BY <3>1, <3>4, <3>5
      <4>2. <<>> \o seqs[1] = seqs[1]
        <5>1. seqs[1] \in Seq({seqs[1][j] : j \in 1..Len(seqs[1])})
          BY <4>1, RowTyped, SMTT(30)
        <5> QED
          BY <5>1
      <4>3. Result(<<>> \o seqs[0 + 1], 0 + 1)
        BY <1>1, <1>2, <4>1
      <4> QED
        BY <3>4, <3>5, <4>1, <4>2, <4>3
    <3>6. CASE i # 1
      <4>1. i - 1 \in 1..N /\ i - 1 \in Nat /\ i \in 1..N /\ (i - 1) + 1 = i /\ i - 1 \notin Wrong
        BY <3>4, <3>6
      <4>2. Result(h[i - 1], i - 1) /\ h[i] = h[i - 1] \o seqs[i]
        BY <3>1, <3>6, <4>1
      <4>3. Result(h[i - 1] \o seqs[(i - 1) + 1], (i - 1) + 1)
        BY <1>1, <4>1, <4>2
      <4> QED
        BY <3>4, <4>1, <4>2, <4>3
    <3> QED
      BY <3>5, <3>6
  <2>3. \E h : h = [i \in 1..N |-> Term(h, i)]
    <3> DEFINE S == {seqs[p[1]][p[2]] : p \in (1..N) \X (1..10)}
    <3>1. \A i \in 1..N : seqs[i] \in Seq(S)
      <4> TAKE i \in 1..N
      <4>1. seqs[i] = [j \in 1..10 |-> seqs[i][j]]
        BY DEF Row
      <4>2. ASSUME NEW j \in 1..10 PROVE seqs[i][j] \in S
        <5>1. <<i, j>> \in (1..N) \X (1..10)
          OBVIOUS
        <5> QED
          BY <5>1
      <4> HIDE DEF S
      <4>3. seqs[i] \in [1..10 -> S]
        BY <4>1, <4>2
      <4>4. \A m \in Nat : [1..m -> S] \subseteq Seq(S)
        OBVIOUS
      <4>5. 10 \in Nat
        OBVIOUS
      <4> QED
        BY <4>3, <4>4, <4>5
    <3> HIDE DEF S
    <3> DEFINE T == Seq(S)
               G == [p \in (1..N) \X T |-> p[2] \o seqs[p[1]]]
    <3>2. ASSUME NEW i \in 1..N, NEW y \in T
          PROVE  G[<<i, y>>] = y \o seqs[i] /\ G[<<i, y>>] \in T
      <4>1. <<i, y>> \in (1..N) \X T
        OBVIOUS
      <4>2. G[<<i, y>>] = y \o seqs[i]
        BY <4>1
      <4>3. y \in Seq(S) /\ seqs[i] \in Seq(S)
        BY <3>1
      <4>4. y \o seqs[i] \in Seq(S)
        BY <4>3
      <4> QED
        BY <4>2, <4>4
    <3>3. <<>> \in T
      OBVIOUS
    <3>4. PICK g \in [0..N -> T] : g[0] = <<>> /\ \A i \in 1..N : g[i] = G[<<i, g[i - 1]>>]
      <4> HIDE DEF G, T
      <4>1. Stays(G, N, T)
        BY <3>2 DEF Stays
      <4>2. Iterates(G, N, <<>>, T)
        BY <3>3, <4>1, Repeated
      <4> QED
        BY <4>2 DEF Iterates
    <3>5. ASSUME NEW i \in 1..N PROVE g[i] = g[i - 1] \o seqs[i]
      <4>1. i - 1 \in 0..N
        OBVIOUS
      <4> HIDE DEF G, T
      <4>2. g[i - 1] \in T
        BY <3>4, <4>1
      <4> QED
        BY <3>2, <3>4, <4>2
    <3> DEFINE h == [i \in 1..N |-> g[i]]
    <3>6. ASSUME NEW i \in 1..N PROVE h[i] = Term(h, i)
      <4>1. CASE i = 1
        <5>1. g[1] = <<>> \o seqs[1] /\ 1 \in 1..N
          <6>1. g[i] = g[i - 1] \o seqs[i]
            BY <3>5
          <6>2. i - 1 = 0
            BY <4>1
          <6>3. g[i] = <<>> \o seqs[i]
            BY <3>4, <6>1, <6>2
          <6> QED
            BY <4>1, <6>3
        <5>2. g[1] = seqs[1]
          BY <3>1, <5>1
        <5> QED
          BY <4>1, <5>1, <5>2
      <4>2. CASE i # 1
        <5>1. i - 1 \in 1..N
          BY <4>2
        <5> QED
          BY <3>5, <4>2, <5>1
      <4> QED
        BY <4>1, <4>2
    <3>7. h = [i \in 1..N |-> Term(h, i)]
      <4> HIDE DEF Term
      <4>1. h = [i \in 1..N |-> g[i]]
        OBVIOUS
      <4> HIDE DEF h
      <4>2. h = [i \in 1..N |-> h[i]]
        BY <4>1
      <4> QED
        BY <3>6, <4>2
    <3> HIDE DEF h
    <3> QED
      BY <3>7
  <2>4. flatten = [i \in 1..N |-> Term(flatten, i)]
    BY <2>3, Zenon
  <2> HIDE DEF flatten
  <2>5. N \in 1..N
    BY <1>4
  <2>6. Result(flatten[N], N)
    BY <2>2, <2>4, <2>5
  <2> QED
    BY <2>1, <2>6 DEF Result
<1> QED
  BY <1>3, <1>4

LEMMA KeyBlockIs ==
  ASSUME NEW k
  PROVE  LET b == MS!KeyBlock(k)
         IN  /\ Row(b) /\ Len(b) = 10
             /\ b[1] = MS!Op("IF") /\ b[2] = MS!Op("DUP") /\ b[3] = MS!Op("HASH160")
             /\ b[4] = MS!Push(MS!hash160(k)) /\ b[5] = MS!Op("EQUALVERIFY")
             /\ b[6] = MS!Op("CHECKSIGVERIFY") /\ b[7] = MS!Op("FROMALTSTACK")
             /\ b[8] = MS!Op("1ADD") /\ b[9] = MS!Op("TOALTSTACK") /\ b[10] = MS!Op("ENDIF")
<1> DEFINE Tuple(a, b, c, d, e, f, g, h, i, j) == <<a, b, c, d, e, f, g, h, i, j>>
<1>1. ASSUME NEW a, NEW b, NEW c, NEW d, NEW e, NEW f, NEW g, NEW h, NEW i, NEW j
      PROVE  LET t == Tuple(a, b, c, d, e, f, g, h, i, j)
             IN  /\ Row(t) /\ Len(t) = 10
                 /\ t[1] = a /\ t[2] = b /\ t[3] = c /\ t[4] = d /\ t[5] = e
                 /\ t[6] = f /\ t[7] = g /\ t[8] = h /\ t[9] = i /\ t[10] = j
  <2> DEFINE t == <<a, b, c, d, e, f, g, h, i, j>>
             S == {a, b, c, d, e, f, g, h, i, j}
  <2>1. t \in Seq(S)
    OBVIOUS
  <2>2. Row(t)
    BY <2>1, TypedRow
  <2> QED
    BY <2>2
<1>2. MS!KeyBlock(k) = Tuple(MS!Op("IF"), MS!Op("DUP"), MS!Op("HASH160"), MS!Push(MS!hash160(k)),
                             MS!Op("EQUALVERIFY"), MS!Op("CHECKSIGVERIFY"), MS!Op("FROMALTSTACK"),
                             MS!Op("1ADD"), MS!Op("TOALTSTACK"), MS!Op("ENDIF"))
  BY DEF MS!KeyBlock
<1> HIDE DEF Tuple
<1> QED
  BY <1>1, <1>2

\* to_script_bytes, opcode by opcode.
LEMMA OutputIs ==
  ASSUME NEW N, N = MS!n, N \in Nat, public_keys = [i \in 1..N |-> public_keys[i]]
  PROVE  LET s == MS!to_script_bytes
         IN  /\ Row(s) /\ Len(s) = 10 * N + 5
             /\ s[1] = MS!Push(<<"num", 0>>) /\ s[2] = MS!Op("TOALTSTACK")
             /\ \A k \in 1..N : \A j \in 1..10 :
                  s[2 + (10 * (k - 1) + j)] = MS!KeyBlock(public_keys[k])[j]
             /\ s[10 * N + 3] = MS!Op("FROMALTSTACK")
             /\ s[10 * N + 4] = MS!Push(<<"num", MS!ScriptNumber(MS!push_int(threshold))>>)
             /\ s[10 * N + 5] = MS!Op("GREATERTHANOREQUAL")
<1> DEFINE blocks == [i \in 1..N |-> MS!KeyBlock(public_keys[i])]
           o == MS!Opening
           f == MS!FlattenSeq(blocks)
           c == MS!Closing
           s == MS!to_script_bytes
<1>1. Row(o) /\ Len(o) = 2 /\ o[1] = MS!Push(<<"num", 0>>) /\ o[2] = MS!Op("TOALTSTACK")
  <2> DEFINE a == MS!Push(<<"num", 0>>)
             b == MS!Op("TOALTSTACK")
  <2>1. o = <<a, b>>
    BY DEF MS!Opening
  <2> HIDE DEF a, b, o
  <2>2. <<a, b>> \in Seq({a, b})
    OBVIOUS
  <2>3. Row(o)
    BY <2>1, <2>2, TypedRow
  <2> QED
    BY <2>1, <2>3 DEF a, b
<1>2. /\ Row(c) /\ Len(c) = 3 /\ c[1] = MS!Op("FROMALTSTACK")
      /\ c[2] = MS!Push(<<"num", MS!ScriptNumber(MS!push_int(threshold))>>)
      /\ c[3] = MS!Op("GREATERTHANOREQUAL")
  <2> DEFINE a == MS!Op("FROMALTSTACK")
             b == MS!Push(<<"num", MS!ScriptNumber(MS!push_int(threshold))>>)
             d == MS!Op("GREATERTHANOREQUAL")
  <2>1. c = <<a, b, d>>
    BY DEF MS!Closing
  <2> HIDE DEF a, b, c, d
  <2>2. <<a, b, d>> \in Seq({a, b, d})
    OBVIOUS
  <2>3. Row(c)
    BY <2>1, <2>2, TypedRow
  <2> QED
    BY <2>1, <2>3 DEF a, b, d
<1>3. /\ Row(f) /\ Len(f) = 10 * N
      /\ \A k \in 1..N : \A j \in 1..10 : f[10 * (k - 1) + j] = blocks[k][j]
  <2>1. blocks = [i \in 1..N |-> blocks[i]]
    OBVIOUS
  <2>2. \A i \in 1..N : Row(blocks[i]) /\ Len(blocks[i]) = 10
    BY KeyBlockIs
  <2> HIDE DEF blocks
  <2>3. N \in Nat
    OBVIOUS
  <2>4. LET g == MS!FlattenSeq(blocks)
        IN  /\ Row(g) /\ Len(g) = 10 * N
            /\ \A k \in 1..N : \A j \in 1..10 : g[10 * (k - 1) + j] = blocks[k][j]
    BY ONLY <2>1, <2>2, <2>3, BlocksInRow
  <2> QED
    BY <2>4
<1>4. s = (o \o f) \o c
  BY DEF MS!to_script_bytes
<1>5. \A k \in 1..N : blocks[k] = MS!KeyBlock(public_keys[k])
  OBVIOUS
<1> HIDE DEF blocks, o, f, c, s
<1>6. /\ Row(o \o f) /\ Len(o \o f) = 2 + 10 * N
      /\ \A i \in 1..2 : (o \o f)[i] = o[i]
      /\ \A i \in 1..10 * N : (o \o f)[2 + i] = f[i]
  <2>1. Row(o) /\ Row(f)
    BY <1>1, <1>3
  <2>2. /\ Row(o \o f) /\ Len(o \o f) = Len(o) + Len(f)
        /\ \A i \in 1..Len(o) : (o \o f)[i] = o[i]
        /\ \A i \in 1..Len(f) : (o \o f)[Len(o) + i] = f[i]
    BY ONLY <2>1, Glued
  <2> QED
    BY <1>1, <1>3, <2>2
<1> DEFINE g == o \o f
<1>7. Row(g) /\ Len(g) = 2 + 10 * N
      /\ (\A i \in 1..2 : g[i] = o[i])
      /\ \A i \in 1..10 * N : g[2 + i] = f[i]
  BY <1>6
<1> HIDE DEF g
<1>8. /\ Row(s) /\ Len(s) = (2 + 10 * N) + 3
      /\ \A i \in 1..2 + 10 * N : s[i] = g[i]
      /\ \A i \in 1..3 : s[(2 + 10 * N) + i] = c[i]
  <2>1. Row(g) /\ Row(c)
    BY <1>2, <1>7
  <2>2. /\ Row(g \o c) /\ Len(g \o c) = Len(g) + Len(c)
        /\ \A i \in 1..Len(g) : (g \o c)[i] = g[i]
        /\ \A i \in 1..Len(c) : (g \o c)[Len(g) + i] = c[i]
    BY ONLY <2>1, Glued
  <2>3. s = g \o c
    BY <1>4 DEF g
  <2> QED
    BY <1>2, <1>7, <2>2, <2>3
<1>9. ASSUME NEW k \in 1..N, NEW j \in 1..10
      PROVE  s[2 + (10 * (k - 1) + j)] = MS!KeyBlock(public_keys[k])[j]
  <2>1. 10 * (k - 1) + j \in 1..10 * N
    BY ONLY N \in Nat, k \in 1..N, j \in 1..10, TenPlaces
  <2>2. PICK m \in 1..10 * N : m = 10 * (k - 1) + j
    BY <2>1
  <2>3. 2 + m \in 1..2 + 10 * N
    OBVIOUS
  <2>4. s[2 + m] = f[m]
    BY <1>7, <1>8, <2>3
  <2>5. f[m] = blocks[k][j]
    BY <1>3, <2>2
  <2> QED
    BY <1>5, <2>2, <2>4, <2>5
<1>10. s[1] = o[1] /\ s[2] = o[2]
  <2>1. 1 \in 1..2 /\ 2 \in 1..2 /\ 1 \in 1..2 + 10 * N /\ 2 \in 1..2 + 10 * N
    OBVIOUS
  <2> QED
    BY <1>7, <1>8, <2>1, SMTT(30)
<1>11. s[10 * N + 3] = c[1] /\ s[10 * N + 4] = c[2] /\ s[10 * N + 5] = c[3]
  <2>1. /\ (2 + 10 * N) + 1 = 10 * N + 3 /\ (2 + 10 * N) + 2 = 10 * N + 4
        /\ (2 + 10 * N) + 3 = 10 * N + 5 /\ 1 \in 1..3 /\ 2 \in 1..3 /\ 3 \in 1..3
    OBVIOUS
  <2>2. s[(2 + 10 * N) + 1] = c[1] /\ s[(2 + 10 * N) + 2] = c[2] /\ s[(2 + 10 * N) + 3] = c[3]
    BY <1>8, <2>1
  <2> QED
    BY <2>1, <2>2
<1>12. Len(s) = 10 * N + 5
  BY <1>8
<1> QED
  BY <1>1, <1>2, <1>8, <1>9, <1>10, <1>11, <1>12 DEF s

\* The whole script, and where the locking script begins.
LEMMA ScriptIs ==
  ASSUME Row(public_keys), Row(unlocking), NEW N \in Nat, N = MS!n, NEW U \in Nat, U = Len(unlocking)
  PROVE  LET s == MS!Script
         IN  /\ U \in Nat /\ Len(s) = U + 10 * N + 5
             /\ \A i \in 1..U : s[i] = unlocking[i]
             /\ s[U + 1] = MS!Push(<<"num", 0>>) /\ s[U + 2] = MS!Op("TOALTSTACK")
             /\ \A k \in 1..N : \A j \in 1..10 :
                  s[U + 2 + 10 * (k - 1) + j] = MS!KeyBlock(public_keys[k])[j]
             /\ s[U + 2 + 10 * N + 1] = MS!Op("FROMALTSTACK")
             /\ s[U + 2 + 10 * N + 2] = MS!Push(<<"num", MS!ScriptNumber(MS!push_int(threshold))>>)
             /\ s[U + 2 + 10 * N + 3] = MS!Op("GREATERTHANOREQUAL")
<1> DEFINE o == MS!to_script_bytes
           s == MS!Script
<1>0. N = Len(public_keys) /\ N \in Nat /\ public_keys = [i \in 1..N |-> public_keys[i]]
  BY DEF Row, MS!n
<1>1. /\ Row(o) /\ Len(o) = 10 * N + 5
      /\ o[1] = MS!Push(<<"num", 0>>) /\ o[2] = MS!Op("TOALTSTACK")
      /\ \A k \in 1..N : \A j \in 1..10 :
           o[2 + (10 * (k - 1) + j)] = MS!KeyBlock(public_keys[k])[j]
      /\ o[10 * N + 3] = MS!Op("FROMALTSTACK")
      /\ o[10 * N + 4] = MS!Push(<<"num", MS!ScriptNumber(MS!push_int(threshold))>>)
      /\ o[10 * N + 5] = MS!Op("GREATERTHANOREQUAL")
  BY ONLY N = MS!n, <1>0, OutputIs
<1>2. s = unlocking \o o
  BY DEF MS!Script
<1> HIDE DEF o, s
<1>3. U \in Nat
  BY DEF Row
<1>4. /\ Len(s) = U + (10 * N + 5) /\ \A i \in 1..U : s[i] = unlocking[i]
      /\ \A i \in 1..10 * N + 5 : s[U + i] = o[i]
  <2>1. /\ Len(unlocking \o o) = Len(unlocking) + Len(o)
        /\ \A i \in 1..Len(unlocking) : (unlocking \o o)[i] = unlocking[i]
        /\ \A i \in 1..Len(o) : (unlocking \o o)[Len(unlocking) + i] = o[i]
    <3>1. Row(unlocking) /\ Row(o)
      BY <1>1
    <3> QED
      BY ONLY <3>1, Glued
  <2> QED
    BY <1>1, <1>2, <2>1
<1>5. ASSUME NEW k \in 1..N, NEW j \in 1..10
      PROVE  s[U + 2 + 10 * (k - 1) + j] = MS!KeyBlock(public_keys[k])[j]
  <2>1. PICK m \in 1..10 * N : m = 10 * (k - 1) + j
    <3>1. 10 * (k - 1) + j \in 1..10 * N
      BY ONLY <1>0, k \in 1..N, j \in 1..10, TenPlaces
    <3> QED
      BY <3>1
  <2>5. PICK t \in Nat : t = 10 * (k - 1)
    BY <1>0
  <2>6. 2 + m \in 1..10 * N + 5
    BY SMT, <1>0
  <2>7. U + (2 + m) = U + 2 + t + j
    <3>1. m = t + j /\ j \in Nat
      BY <1>0, <2>1, <2>5, SMTT(30)
    <3> QED
      BY ONLY t \in Nat, <1>3, <3>1
  <2>2. 2 + m \in 1..10 * N + 5 /\ U + (2 + m) = U + 2 + 10 * (k - 1) + j
    BY <2>5, <2>6, <2>7
  <2>3. s[U + (2 + m)] = o[2 + m]
    BY <1>4, <2>2
  <2>4. o[2 + m] = MS!KeyBlock(public_keys[k])[j]
    BY <1>1, <2>1
  <2> QED
    BY <2>2, <2>3, <2>4
<1>6. s[U + 1] = o[1] /\ s[U + 2] = o[2]
  <2>1. 1 \in 1..10 * N + 5 /\ 2 \in 1..10 * N + 5
    BY <1>0
  <2> QED
    BY <1>4, <2>1
<1>7. /\ s[U + 2 + 10 * N + 1] = o[10 * N + 3] /\ s[U + 2 + 10 * N + 2] = o[10 * N + 4]
      /\ s[U + 2 + 10 * N + 3] = o[10 * N + 5]
  <2>1. PICK m \in Nat : m = 10 * N
    BY <1>0
  <2>2. m + 3 \in 1..m + 5 /\ m + 4 \in 1..m + 5 /\ m + 5 \in 1..m + 5
    BY <1>0
  <2>3. U + 2 + m + 1 = U + (m + 3) /\ U + 2 + m + 2 = U + (m + 4) /\ U + 2 + m + 3 = U + (m + 5)
    BY <1>3
  <2>4. s[U + (m + 3)] = o[m + 3] /\ s[U + (m + 4)] = o[m + 4] /\ s[U + (m + 5)] = o[m + 5]
    BY <1>4, <2>1, <2>2
  <2> QED
    BY <2>1, <2>3, <2>4
<1>8. Len(s) = U + 10 * N + 5
  BY <1>0, <1>3, <1>4
<1> QED
  BY <1>1, <1>3, <1>4, <1>5, <1>6, <1>7, <1>8 DEF s

LEMMA CardinalityIs == \A S : MS!Cardinality(S) = Cardinality(S)
  BY DEF MS!Cardinality, Cardinality, MS!IsFiniteSet, IsFiniteSet

\* How many sign, and what they push.
LEMMA Counting ==
  ASSUME NEW N \in Nat, N = MS!n, signing \subseteq 1..N
  PROVE  /\ \A k \in 0..N : MS!Counted(k) \in Nat
         /\ MS!Counted(0) = 0 /\ MS!Counted(N) = Cardinality(signing)
         /\ \A k \in 1..N : MS!Counted(k) = MS!Counted(k - 1) + IF k \in signing THEN 1 ELSE 0
         /\ MS!Pushed(N + 1) = 0 /\ \A k \in 1..N + 1 : MS!Pushed(k) \in Nat
         /\ \A k \in 1..N : MS!Pushed(k) = MS!Pushed(k + 1) + IF k \in signing THEN 3 ELSE 1
         /\ \A k \in 1..N + 1 : \A i \in k..N + 1 : MS!Pushed(i) <= MS!Pushed(k)
<1> DEFINE Upto(k) == {i \in signing : i <= k}
           From(k) == {i \in signing : i >= k}
<1>0. \A i \in signing : i \in 1..N
  OBVIOUS
<1>1. IsFiniteSet(signing)
  <2>1. IsFiniteSet(1..N)
    BY FS_Interval
  <2> QED
    BY <2>1, FS_Subset
<1>2. \A k : IsFiniteSet(Upto(k)) /\ IsFiniteSet(From(k))
  <2> TAKE k
  <2>1. Upto(k) \subseteq signing /\ From(k) \subseteq signing
    OBVIOUS
  <2> HIDE DEF Upto, From
  <2> QED
    BY <1>1, <2>1, FS_Subset
<1>3. \A k : Cardinality(Upto(k)) \in Nat /\ Cardinality(From(k)) \in Nat
  BY <1>2, FS_CardinalityType
<1>4. \A k : /\ MS!Counted(k) = Cardinality(Upto(k))
             /\ MS!Pushed(k) = N + 1 - k + 2 * Cardinality(From(k))
  <2> TAKE k
  <2>1. MS!Counted(k) = Cardinality(Upto(k))
    BY CardinalityIs DEF MS!Counted
  <2>2. MS!Pushed(k) = MS!n + 1 - k + 2 * Cardinality(From(k))
    BY CardinalityIs DEF MS!Pushed
  <2> QED
    BY <2>1, <2>2
<1>5. Upto(0) = {} /\ From(N + 1) = {} /\ Upto(N) = signing
  <2>1. \A i \in signing : ~(i <= 0) /\ ~(i >= N + 1) /\ i <= N
    BY <1>0
  <2> QED
    BY <2>1
<1>6. Cardinality({}) = 0
  BY FS_EmptySet
<1>7. ASSUME NEW k \in 1..N
      PROVE  /\ Cardinality(Upto(k)) = Cardinality(Upto(k - 1)) + IF k \in signing THEN 1 ELSE 0
             /\ Cardinality(From(k)) = Cardinality(From(k + 1)) + IF k \in signing THEN 1 ELSE 0
  <2>0. /\ \A i \in signing : (i <= k <=> i <= k - 1 \/ i = k) /\ (i >= k <=> i >= k + 1 \/ i = k)
        /\ ~(k <= k - 1) /\ ~(k >= k + 1) /\ k <= k /\ k >= k
    BY <1>0
  <2>1. CASE k \in signing
    <3>1. Upto(k) = Upto(k - 1) \cup {k} /\ k \notin Upto(k - 1)
      BY <2>0, <2>1
    <3>2. From(k) = From(k + 1) \cup {k} /\ k \notin From(k + 1)
      BY <2>0, <2>1
    <3> HIDE DEF Upto, From
    <3>3. /\ Cardinality(Upto(k - 1) \cup {k}) = Cardinality(Upto(k - 1)) + 1
          /\ Cardinality(From(k + 1) \cup {k}) = Cardinality(From(k + 1)) + 1
      BY <1>2, <3>1, <3>2, FS_AddElement
    <3> QED
      BY <2>1, <3>1, <3>2, <3>3
  <2>2. CASE k \notin signing
    <3>1. \A i \in signing : (i <= k <=> i <= k - 1) /\ (i >= k <=> i >= k + 1)
      BY <2>0, <2>2
    <3>2. Upto(k) = Upto(k - 1) /\ From(k) = From(k + 1)
      BY <3>1
    <3> HIDE DEF Upto, From
    <3> QED
      BY <1>3, <2>2, <3>2
  <2> QED
    BY <2>1, <2>2
<1>8. ASSUME NEW k \in 1..N + 1, NEW i \in k..N + 1
      PROVE  Cardinality(From(i)) <= Cardinality(From(k))
  <2>0. \A j \in signing : j >= i => j >= k
    BY <1>0
  <2>1. From(i) \subseteq From(k)
    BY <2>0
  <2> HIDE DEF From
  <2> QED
    BY <1>2, <2>1, FS_Subset
<1> HIDE DEF Upto, From
<1>9. MS!Counted(0) = 0 /\ MS!Counted(N) = Cardinality(signing) /\ \A k \in 0..N : MS!Counted(k) \in Nat
  BY <1>3, <1>4, <1>5, <1>6
<1>10. \A k \in 1..N : MS!Counted(k) = MS!Counted(k - 1) + IF k \in signing THEN 1 ELSE 0
  BY <1>4, <1>7
<1>11. MS!Pushed(N + 1) = 0
  <2>1. MS!Pushed(N + 1) = N + 1 - (N + 1) + 2 * 0
    BY <1>4, <1>5, <1>6
  <2> QED
    BY <2>1
<1>12. \A k \in 1..N + 1 : MS!Pushed(k) \in Nat
  <2> TAKE k \in 1..N + 1
  <2>1. PICK c \in Nat : c = Cardinality(From(k))
    BY <1>3
  <2>2. N + 1 - k + 2 * c \in Nat
    OBVIOUS
  <2> QED
    BY <1>4, <2>1, <2>2
<1>13. ASSUME NEW k \in 1..N
       PROVE  MS!Pushed(k) = MS!Pushed(k + 1) + IF k \in signing THEN 3 ELSE 1
  <2>1. PICK c \in Nat : c = Cardinality(From(k + 1))
    BY <1>3
  <2>2. MS!Pushed(k + 1) = N - k + 2 * c
    <3>1. N + 1 - (k + 1) = N - k
      OBVIOUS
    <3> QED
      BY <1>4, <2>1, <3>1
  <2>3. CASE k \in signing
    <3>1. MS!Pushed(k) = N + 1 - k + 2 * (c + 1)
      BY <1>4, <1>7, <2>1, <2>3
    <3> QED
      BY <2>2, <2>3, <3>1
  <2>4. CASE k \notin signing
    <3>1. MS!Pushed(k) = N + 1 - k + 2 * c
      BY <1>4, <1>7, <2>1, <2>4
    <3> QED
      BY <2>2, <2>4, <3>1
  <2> QED
    BY <2>3, <2>4
<1>14. ASSUME NEW k \in 1..N + 1, NEW i \in k..N + 1
       PROVE  MS!Pushed(i) <= MS!Pushed(k)
  <2>1. PICK c \in Nat, d \in Nat : c = Cardinality(From(i)) /\ d = Cardinality(From(k))
    BY <1>3
  <2>2. c <= d
    BY <1>8, <2>1
  <2>3. N + 1 - i + 2 * c <= N + 1 - k + 2 * d
    BY <2>2
  <2> QED
    BY <1>4, <2>1, <2>3
<1> QED
  BY <1>9, <1>10, <1>11, <1>12, <1>13, <1>14

LEMMA OpIs ==
  /\ \A x : MS!Op(x).op = x
  /\ \A x : MS!Push(x).op = "PUSH" /\ MS!Push(x).v = x
BY DEF MS!Op, MS!Push

LEMMA LeftIs ==
  ASSUME NEW c \in Nat
  PROVE  /\ Row(MS!Left(c)) /\ Len(MS!Left(c)) = c
         /\ MS!Left(0) = <<>>
         /\ MS!Left(c + 1) = Append(MS!Left(c), unlocking[c + 1].v)
<1>1. ASSUME NEW m \in Nat
      PROVE  /\ Row(MS!Left(m)) /\ Len(MS!Left(m)) = m
             /\ \A i \in 1..m : MS!Left(m)[i] = unlocking[i].v
  <2>1. MS!Left(m) = [i \in 1..m |-> unlocking[i].v]
    BY DEF MS!Left
  <2>2. \A i \in 1..m : MS!Left(m)[i] = unlocking[i].v
    BY <2>1
  <2>3. MS!Left(m) = [i \in 1..m |-> MS!Left(m)[i]]
    BY <2>1
  <2> QED
    BY <2>2, <2>3, RowIs
<1>2. MS!Left(0) = <<>>
  <2>1. Row(MS!Left(0)) /\ Len(MS!Left(0)) = 0
    BY <1>1
  <2>2. Row(<<>>) /\ Len(<<>>) = 0
    BY DEF Row
  <2> QED
    BY <2>1, <2>2, RowsEqual
<1>3. MS!Left(c + 1) = Append(MS!Left(c), unlocking[c + 1].v)
  <2> DEFINE x == unlocking[c + 1].v
             s == MS!Left(c)
             t == Append(s, x)
             l == MS!Left(c + 1)
  <2>1. Row(l) /\ Len(l) = c + 1 /\ \A i \in 1..c + 1 : l[i] = unlocking[i].v
    BY <1>1
  <2>2. Row(s) /\ Len(s) = c /\ \A i \in 1..c : s[i] = unlocking[i].v
    BY <1>1
  <2>3. l[c + 1] = x
    BY <2>1
  <2> HIDE DEF x, s
  <2>4. Row(t) /\ Len(t) = c + 1 /\ t[c + 1] = x /\ \A i \in 1..c : t[i] = s[i]
    BY <2>2, Grown
  <2> HIDE DEF l, t
  <2>5. ASSUME NEW i \in 1..c + 1 PROVE l[i] = t[i]
    <3>1. CASE i = c + 1
      BY <2>3, <2>4, <3>1
    <3>2. CASE i # c + 1
      <4>1. i \in 1..c
        BY <3>2
      <4> QED
        BY <2>1, <2>2, <2>4, <4>1
    <3> QED
      BY <3>1, <3>2
  <2>6. l = t
    BY <2>1, <2>4, <2>5, RowsEqual
  <2> QED
    BY <2>6 DEF l, t, s, x
<1> QED
  BY <1>1, <1>2, <1>3

\* What the unlocking script leaves for a key lies on what it leaves for those behind.
LEMMA AnswersAre ==
  ASSUME NEW N \in Nat, N = MS!n, signing \subseteq 1..N, MS!AnswersFrom(1), NEW k \in 1..N
  PROVE  /\ Row(MS!Left(MS!Pushed(k + 1))) /\ Len(MS!Left(MS!Pushed(k + 1))) = MS!Pushed(k + 1)
         /\ k \in signing =>
              MS!Left(MS!Pushed(k)) =
                Append(Append(Append(MS!Left(MS!Pushed(k + 1)), MS!SigOf(k)), MS!KeyOf(k)),
                       <<"num", 1>>)
         /\ k \notin signing =>
              MS!Left(MS!Pushed(k)) = Append(MS!Left(MS!Pushed(k + 1)), <<"num", 0>>)
<1> DEFINE P == MS!Pushed(k + 1)
           C == MS!Contribution(k)
<1>1. P \in Nat /\ MS!Pushed(k) = P + IF k \in signing THEN 3 ELSE 1
  <2>1. k + 1 \in 1..N + 1
    OBVIOUS
  <2> QED
    BY <2>1, Counting
<1>2. \A j \in 1..Len(C) : unlocking[P + j] = C[j]
  BY DEF MS!AnswersFrom
<1>3. Row(MS!Left(P)) /\ Len(MS!Left(P)) = P
  BY <1>1, LeftIs
<1> HIDE DEF P
<1>4. CASE k \in signing
  <2> DEFINE a == MS!Push(MS!SigOf(k))
             b == MS!Push(MS!KeyOf(k))
             c == MS!Push(<<"num", 1>>)
  <2>1. C = <<a, b, c>>
    BY <1>4 DEF MS!Contribution
  <2> HIDE DEF a, b, c, C
  <2>2. Len(C) = 3 /\ C[1] = a /\ C[2] = b /\ C[3] = c
    BY <2>1
  <2>3. unlocking[P + 1] = a /\ unlocking[P + 2] = b /\ unlocking[P + 3] = c
    BY <1>2, <2>2
  <2>4. a.v = MS!SigOf(k) /\ b.v = MS!KeyOf(k) /\ c.v = <<"num", 1>>
    BY OpIs DEF a, b, c
  <2>5. /\ MS!Left(P + 1) = Append(MS!Left(P), a.v)
        /\ MS!Left((P + 1) + 1) = Append(MS!Left(P + 1), b.v)
        /\ MS!Left(((P + 1) + 1) + 1) = Append(MS!Left((P + 1) + 1), c.v)
    <3>1. /\ P + 1 \in Nat /\ (P + 1) + 1 \in Nat /\ (P + 1) + 1 = P + 2
          /\ ((P + 1) + 1) + 1 = P + 3
      BY <1>1
    <3>2. MS!Left(P + 1) = Append(MS!Left(P), unlocking[P + 1].v)
      BY <1>1, LeftIs
    <3>3. MS!Left((P + 1) + 1) = Append(MS!Left(P + 1), unlocking[(P + 1) + 1].v)
      BY <3>1, LeftIs
    <3>4. MS!Left(((P + 1) + 1) + 1) = Append(MS!Left((P + 1) + 1), unlocking[((P + 1) + 1) + 1].v)
      BY <3>1, LeftIs
    <3> QED
      BY <2>3, <3>1, <3>2, <3>3, <3>4
  <2>6. MS!Pushed(k) = ((P + 1) + 1) + 1
    BY <1>1, <1>4
  <2> QED
    BY <1>3, <1>4, <2>4, <2>5, <2>6 DEF P
<1>5. CASE k \notin signing
  <2> DEFINE c == MS!Push(<<"num", 0>>)
  <2>1. C = <<c>>
    BY <1>5 DEF MS!Contribution
  <2> HIDE DEF c, C
  <2>2. Len(C) = 1 /\ C[1] = c
    BY <2>1
  <2>3. unlocking[P + 1] = c
    BY <1>2, <2>2
  <2>4. c.v = <<"num", 0>>
    BY OpIs DEF c
  <2>5. MS!Left(P + 1) = Append(MS!Left(P), unlocking[P + 1].v)
    BY <1>1, LeftIs
  <2>6. MS!Pushed(k) = P + 1
    BY <1>1, <1>5
  <2> QED
    BY <1>3, <1>5, <2>3, <2>4, <2>5, <2>6 DEF P
<1> QED
  BY <1>4, <1>5

-----------------------------------------------------------------------------
(* Multisig: the node's steps *)

\* What the next opcode does, if there is enough on the stack for it.
Does(s, a, f) == MS!Effect = <<s, a, f>> /\ (skipping \/ ~(Len(stack) < MS!Takes))

LEMMA Effects ==
  ASSUME skipping = FALSE, Row(stack), NEW r, Row(r), NEW x
  PROVE  /\ MS!op = "PUSH" => Does(Append(stack, MS!Script[ip].v), alt, FALSE)
         /\ MS!op = "ENDIF" => Does(stack, alt, FALSE)
         /\ MS!op = "FROMALTSTACK" /\ alt = <<x>> => Does(Append(stack, x), <<>>, FALSE)
         /\ stack = Append(r, x) =>
              /\ MS!op = "TOALTSTACK" => Does(r, Append(alt, x), FALSE)
              /\ MS!op = "IF" /\ x = <<"num", 0>> => Does(r, alt, TRUE)
              /\ MS!op = "IF" /\ x # <<"num", 0>> => Does(r, alt, FALSE)
              /\ MS!op = "DUP" => Does(Append(Append(r, x), x), alt, FALSE)
              /\ MS!op = "HASH160" => Does(Append(r, <<"hash", x[2]>>), alt, FALSE)
              /\ MS!op = "1ADD" => Does(Append(r, <<"num", x[2] + 1>>), alt, FALSE)
<1>0. Len(stack) \in Nat /\ Len(r) \in Nat /\ ~(Len(stack) < 0)
  <2>1. Len(stack) \in Nat /\ Len(r) \in Nat
    BY DEF Row
  <2> QED
    BY <2>1
<1>a. stack = Append(r, x) => MS!Top = x /\ MS!Drop(1) = r /\ ~(Len(stack) < 1)
  <2> SUFFICES ASSUME stack = Append(r, x)
               PROVE  MS!Top = x /\ MS!Drop(1) = r /\ ~(Len(stack) < 1)
    OBVIOUS
  <2>1. Len(stack) = Len(r) + 1 /\ MS!Last(stack) = x /\ SubSeq(stack, 1, Len(r)) = r
    BY Grown
  <2>2. Len(stack) - 1 = Len(r) /\ ~(Len(stack) < 1)
    BY <1>0, <2>1
  <2> QED
    BY <2>1, <2>2 DEF MS!Top, MS!Drop
<1>1. ASSUME MS!op = "PUSH" PROVE Does(Append(stack, MS!Script[ip].v), alt, FALSE)
  <2>1. MS!Takes = 0
    BY <1>1 DEF MS!Takes
  <2>2. MS!Effect = <<Append(stack, MS!Script[ip].v), alt, FALSE>>
    BY <1>1 DEF MS!Effect
  <2> QED
    BY <1>0, <1>1, <2>1, <2>2 DEF Does
<1>2. ASSUME MS!op = "ENDIF" PROVE Does(stack, alt, FALSE)
  <2>1. MS!Takes = 0
    BY <1>2 DEF MS!Takes
  <2>2. MS!Effect = <<stack, alt, FALSE>>
    BY <1>2 DEF MS!Effect
  <2> QED
    BY <1>0, <1>2, <2>1, <2>2 DEF Does
<1>3. ASSUME MS!op = "FROMALTSTACK", alt = <<x>> PROVE Does(Append(stack, x), <<>>, FALSE)
  <2>1. MS!Takes = 0
    BY <1>3 DEF MS!Takes
  <2>2. MS!Effect = <<Append(stack, MS!Last(alt)), MS!Front(alt), FALSE>>
    BY <1>3 DEF MS!Effect
  <2>3. Row(<<>>) /\ alt = Append(<<>>, x)
    BY <1>3 DEF Row
  <2>4. MS!Last(alt) = x /\ MS!Front(alt) = <<>>
    BY <2>3, Grown
  <2> QED
    BY <1>0, <2>1, <2>2, <2>4 DEF Does
<1>4. ASSUME MS!op = "TOALTSTACK", stack = Append(r, x) PROVE Does(r, Append(alt, x), FALSE)
  <2>1. MS!Takes = 1
    BY <1>4 DEF MS!Takes
  <2>2. MS!Effect = <<MS!Drop(1), Append(alt, MS!Top), FALSE>>
    BY <1>4 DEF MS!Effect
  <2> QED
    BY <1>0, <1>4, <2>1, <2>2, <1>a DEF Does
<1>5. ASSUME MS!op = "IF", stack = Append(r, x), x = <<"num", 0>> PROVE Does(r, alt, TRUE)
  <2>1. MS!Takes = 1
    BY <1>5 DEF MS!Takes
  <2>2. MS!Effect = <<MS!Drop(1), alt, MS!Top = <<"num", 0>>>>
    BY <1>5 DEF MS!Effect
  <2>3. MS!Top = x /\ MS!Drop(1) = r
    BY <1>a, <1>5
  <2>4. (MS!Top = <<"num", 0>>) = TRUE
    BY <1>5, <2>3
  <2>5. MS!Effect = <<r, alt, TRUE>>
    BY <2>2, <2>3, <2>4
  <2> QED
    BY <1>a, <1>5, <2>1, <2>5 DEF Does
<1>6. ASSUME MS!op = "IF", stack = Append(r, x), x # <<"num", 0>> PROVE Does(r, alt, FALSE)
  <2>1. MS!Takes = 1
    BY <1>6 DEF MS!Takes
  <2>2. MS!Effect = <<MS!Drop(1), alt, MS!Top = <<"num", 0>>>>
    BY <1>6 DEF MS!Effect
  <2>3. MS!Top = x /\ MS!Drop(1) = r
    BY <1>a, <1>6
  <2>4. (MS!Top = <<"num", 0>>) = FALSE
    BY <1>6, <2>3
  <2>5. MS!Effect = <<r, alt, FALSE>>
    BY <2>2, <2>3, <2>4
  <2> QED
    BY <1>a, <1>6, <2>1, <2>5 DEF Does
<1>7. ASSUME MS!op = "DUP", stack = Append(r, x) PROVE Does(Append(Append(r, x), x), alt, FALSE)
  <2>1. MS!Takes = 1
    BY <1>7 DEF MS!Takes
  <2>2. MS!Effect = <<Append(stack, MS!Top), alt, FALSE>>
    BY <1>7 DEF MS!Effect
  <2> QED
    BY <1>0, <1>7, <2>1, <2>2, <1>a DEF Does
<1>8. ASSUME MS!op = "HASH160", stack = Append(r, x) PROVE Does(Append(r, <<"hash", x[2]>>), alt, FALSE)
  <2>1. MS!Takes = 1
    BY <1>8 DEF MS!Takes
  <2>2. MS!Effect = <<Append(MS!Drop(1), <<"hash", MS!Top[2]>>), alt, FALSE>>
    BY <1>8 DEF MS!Effect
  <2> QED
    BY <1>0, <1>8, <2>1, <2>2, <1>a DEF Does
<1>9. ASSUME MS!op = "1ADD", stack = Append(r, x) PROVE Does(Append(r, <<"num", x[2] + 1>>), alt, FALSE)
  <2>1. MS!Takes = 1
    BY <1>9 DEF MS!Takes
  <2>2. MS!Effect = <<Append(MS!Drop(1), <<"num", MS!Top[2] + 1>>), alt, FALSE>>
    BY <1>9 DEF MS!Effect
  <2> QED
    BY <1>0, <1>9, <2>1, <2>2, <1>a DEF Does
<1> QED
  BY <1>1, <1>2, <1>3, <1>4, <1>5, <1>6, <1>7, <1>8, <1>9

LEMMA EffectsOnTwo ==
  ASSUME skipping = FALSE, NEW r, Row(r), NEW x, NEW y, stack = Append(Append(r, x), y)
  PROVE  /\ MS!op = "EQUALVERIFY" /\ y = x => Does(r, alt, FALSE)
         /\ MS!op = "EQUALVERIFY" /\ y # x => MS!Effect = <<>>
         /\ MS!op = "CHECKSIGVERIFY" /\ y[1] = "key" /\ x = <<"sig", y[2]>> => Does(r, alt, FALSE)
         /\ MS!op = "CHECKSIGVERIFY" /\ x # <<"sig", y[2]>> => MS!Effect = <<>>
         /\ MS!op = "GREATERTHANOREQUAL" /\ x[2] >= y[2] => Does(Append(r, <<"num", 1>>), alt, FALSE)
         /\ MS!op = "GREATERTHANOREQUAL" /\ ~(x[2] >= y[2]) =>
              Does(Append(r, <<"num", 0>>), alt, FALSE)
<1>1. Len(stack) = Len(r) + 2 /\ Len(r) \in Nat /\ stack[Len(stack) - 1] = x /\ MS!Last(stack) = y
      /\ SubSeq(stack, 1, Len(stack) - 2) = r
  BY TwoOnTop
<1>2. MS!Top = y /\ MS!Below = x /\ MS!Drop(2) = r /\ ~(Len(stack) < 2)
  BY <1>1 DEF MS!Top, MS!Below, MS!Drop
<1>3. ASSUME MS!op = "EQUALVERIFY", y = x PROVE Does(r, alt, FALSE)
  <2>1. MS!Takes = 2
    BY <1>3 DEF MS!Takes
  <2>2. MS!Effect = <<MS!Drop(2), alt, FALSE>>
    BY <1>2, <1>3 DEF MS!Effect
  <2> QED
    BY <1>2, <2>1, <2>2 DEF Does
<1>4. ASSUME MS!op = "EQUALVERIFY", y # x PROVE MS!Effect = <<>>
  BY <1>2, <1>4 DEF MS!Effect
<1>5. ASSUME MS!op = "CHECKSIGVERIFY", y[1] = "key", x = <<"sig", y[2]>> PROVE Does(r, alt, FALSE)
  <2>1. MS!Takes = 2
    BY <1>5 DEF MS!Takes
  <2>2. MS!Effect = <<MS!Drop(2), alt, FALSE>>
    BY <1>2, <1>5 DEF MS!Effect
  <2> QED
    BY <1>2, <2>1, <2>2 DEF Does
<1>6. ASSUME MS!op = "CHECKSIGVERIFY", x # <<"sig", y[2]>> PROVE MS!Effect = <<>>
  BY <1>2, <1>6 DEF MS!Effect
<1>7. ASSUME MS!op = "GREATERTHANOREQUAL", x[2] >= y[2] PROVE Does(Append(r, <<"num", 1>>), alt, FALSE)
  <2>1. MS!Takes = 2
    BY <1>7 DEF MS!Takes
  <2>2. MS!Effect = <<Append(MS!Drop(2), <<"num", 1>>), alt, FALSE>>
    BY <1>2, <1>7 DEF MS!Effect
  <2> QED
    BY <1>2, <2>1, <2>2 DEF Does
<1>8. ASSUME MS!op = "GREATERTHANOREQUAL", ~(x[2] >= y[2]) PROVE Does(Append(r, <<"num", 0>>), alt, FALSE)
  <2>1. MS!Takes = 2
    BY <1>8 DEF MS!Takes
  <2>2. MS!Effect = <<Append(MS!Drop(2), <<"num", 0>>), alt, FALSE>>
    BY <1>2, <1>8 DEF MS!Effect
  <2> QED
    BY <1>2, <2>1, <2>2 DEF Does
<1> QED
  BY <1>3, <1>4, <1>5, <1>6, <1>7, <1>8

LEMMA Skips ==
  ASSUME skipping = TRUE
  PROVE  /\ MS!op = "ENDIF" => Does(stack, alt, FALSE)
         /\ MS!op # "ENDIF" => Does(stack, alt, TRUE)
<1>1. MS!Effect = <<stack, alt, MS!op # "ENDIF">>
  BY DEF MS!Effect
<1>2. ASSUME MS!op = "ENDIF" PROVE (MS!op # "ENDIF") = FALSE
  BY <1>2
<1>3. ASSUME MS!op # "ENDIF" PROVE (MS!op # "ENDIF") = TRUE
  BY <1>3
<1> QED
  BY <1>1, <1>2, <1>3 DEF Does

LEMMA Executed ==
  ASSUME MS!Execute, NEW s, NEW a, NEW f, Does(s, a, f)
  PROVE  /\ stack' = s /\ alt' = a /\ skipping' = f /\ ip' = ip + 1 /\ status' = "running"
         /\ UNCHANGED <<public_keys, threshold, vetted, signing, flaw, key_idx, unlocking, number>>
<1>1. MS!Effect = <<s, a, f>> /\ MS!Effect # <<>>
  BY DEF Does
<1>2. ~(~skipping /\ (Len(stack) < MS!Takes \/ MS!Effect = <<>>))
  BY <1>1 DEF Does
<1>3. /\ stack' = MS!Effect[1] /\ alt' = MS!Effect[2] /\ skipping' = MS!Effect[3]
      /\ ip' = ip + 1 /\ status = "running"
      /\ UNCHANGED <<MS!output, signing, flaw, key_idx, unlocking, status, number>>
  BY <1>2 DEF MS!Execute
<1> QED
  BY <1>1, <1>3 DEF MS!output

\* How a step of the node that succeeds, and one that fails, changes its state.
Same == UNCHANGED <<public_keys, threshold, vetted, signing, flaw, key_idx, unlocking, number>>
Arrives(state) == <<stack', alt', skipping'>> = state /\ ip' = ip + 1 /\ status' = "running" /\ Same
Rejects == status' = "rejected" /\ Same /\ UNCHANGED <<ip, stack, alt, skipping>>

LEMMA Moved ==
  ASSUME MS!Execute, NEW s, NEW a, NEW f, Does(s, a, f)
  PROVE  Arrives(<<s, a, f>>)
BY Executed DEF Arrives, Same

LEMMA Failed ==
  ASSUME MS!Execute, skipping = FALSE, MS!Effect = <<>>
  PROVE  Rejects
<1>1. MS!Stop("rejected")
  BY DEF MS!Execute
<1> QED
  BY <1>1 DEF MS!Stop, MS!output, MS!machine, Rejects, Same

\* A contribution passes the two checks only if it is the key's own.
LEMMA Contributed ==
  ASSUME NEW k, public_keys[k] # "nobody"
  PROVE  /\ MS!KeyOf(k)[1] = "key"
         /\ <<"hash", MS!KeyOf(k)[2]>> = MS!hash160(public_keys[k]) <=>
              vetted /\ ~MS!Faulty(k, "other public key")
         /\ ~MS!Faulty(k, "other public key") =>
              (MS!SigOf(k) = <<"sig", MS!KeyOf(k)[2]>> <=> ~MS!Faulty(k, "other signature"))
<1> DEFINE p == public_keys[k]
           key == IF MS!Faulty(k, "other public key") THEN "nobody" ELSE p
           sig == IF MS!Faulty(k, "other signature") THEN "nobody" ELSE p
<1>1. MS!KeyOf(k) = <<"key", key>> /\ MS!SigOf(k) = <<"sig", sig>>
  BY DEF MS!KeyOf, MS!SigOf
<1>2. MS!hash160(p) = IF vetted THEN <<"hash", p>> ELSE <<"other hash", p>>
  BY DEF MS!hash160
<1>3. p # "nobody"
  OBVIOUS
<1>4. /\ MS!Faulty(k, "other public key") => key = "nobody"
      /\ ~MS!Faulty(k, "other public key") => key = p
      /\ MS!Faulty(k, "other signature") => sig = "nobody"
      /\ ~MS!Faulty(k, "other signature") => sig = p
  OBVIOUS
<1> HIDE DEF p, key, sig
<1>5. MS!KeyOf(k)[1] = "key" /\ MS!KeyOf(k)[2] = key
  BY <1>1
<1>6. \A x, y : /\ <<"hash", x>> = <<"hash", y>> <=> x = y
                /\ <<"sig", x>> = <<"sig", y>> <=> x = y
                /\ <<"hash", x>> # <<"other hash", y>>
  OBVIOUS
<1>7. <<"hash", key>> = MS!hash160(p) <=> vetted /\ ~MS!Faulty(k, "other public key")
  <2>1. CASE vetted
    <3>1. <<"hash", key>> = MS!hash160(p) <=> key = p
      BY <1>2, <1>6, <2>1
    <3> QED
      BY <1>3, <1>4, <2>1, <3>1
  <2>2. CASE ~vetted
    <3>1. MS!hash160(p) = <<"other hash", p>>
      BY <1>2, <2>2
    <3>2. <<"hash", key>> # <<"other hash", p>>
      BY <1>6
    <3>3. <<"hash", key>> # MS!hash160(p)
      BY <3>1, <3>2
    <3> QED
      BY ONLY <2>2, <3>3, ZenonT(40)
  <2> QED
    BY <2>1, <2>2
<1>8. ASSUME ~MS!Faulty(k, "other public key")
      PROVE  MS!SigOf(k) = <<"sig", key>> <=> ~MS!Faulty(k, "other signature")
  <2>1. MS!SigOf(k) = <<"sig", key>> <=> sig = p
    BY <1>1, <1>4, <1>6, <1>8
  <2> QED
    BY <1>3, <1>4, <2>1
<1> QED
  BY <1>5, <1>7, <1>8 DEF p

\* The stacks before each opcode of a key's block.
LEMMA DuringKeyIs ==
  ASSUME NEW k, Row(MS!Left(MS!Pushed(k + 1)))
  PROVE  LET rest == MS!Left(MS!Pushed(k + 1))
             count == <<"num", MS!Counted(k - 1)>>
             more == <<"num", MS!Counted(k - 1) + 1>>
             sig == MS!SigOf(k)
             key == MS!KeyOf(k)
             id == <<"hash", key[2]>>
             both == Append(Append(rest, sig), key)
         IN  /\ MS!DuringKey(k, 1) = <<MS!Left(MS!Pushed(k)), <<count>>, FALSE>>
             /\ k \notin signing => \A j \in 2..10 : MS!DuringKey(k, j) = <<rest, <<count>>, TRUE>>
             /\ k \in signing =>
                  /\ MS!DuringKey(k, 2) = <<both, <<count>>, FALSE>>
                  /\ MS!DuringKey(k, 3) = <<Append(both, key), <<count>>, FALSE>>
                  /\ MS!DuringKey(k, 4) = <<Append(both, id), <<count>>, FALSE>>
                  /\ MS!DuringKey(k, 5) =
                       <<Append(Append(both, id), MS!hash160(public_keys[k])), <<count>>, FALSE>>
                  /\ MS!DuringKey(k, 6) = <<both, <<count>>, FALSE>>
                  /\ MS!DuringKey(k, 7) = <<rest, <<count>>, FALSE>>
                  /\ MS!DuringKey(k, 8) = <<Append(rest, count), <<>>, FALSE>>
                  /\ MS!DuringKey(k, 9) = <<Append(rest, more), <<>>, FALSE>>
                  /\ MS!DuringKey(k, 10) = <<rest, <<more>>, FALSE>>
<1> DEFINE rest == MS!Left(MS!Pushed(k + 1))
           count == <<"num", MS!Counted(k - 1)>>
           more == <<"num", MS!Counted(k - 1) + 1>>
           sig == MS!SigOf(k)
           key == MS!KeyOf(k)
           id == <<"hash", key[2]>>
           h == MS!hash160(public_keys[k])
           both == Append(Append(rest, sig), key)
           E0 == <<rest, <<count>>, TRUE>>
           E1 == <<MS!Left(MS!Pushed(k)), <<count>>, FALSE>>
           E2 == <<rest \o <<sig, key>>, <<count>>, FALSE>>
           E3 == <<rest \o <<sig, key, key>>, <<count>>, FALSE>>
           E4 == <<rest \o <<sig, key, id>>, <<count>>, FALSE>>
           E5 == <<rest \o <<sig, key, id, h>>, <<count>>, FALSE>>
           E7 == <<rest, <<count>>, FALSE>>
           E8 == <<rest \o <<count>>, <<>>, FALSE>>
           E9 == <<rest \o <<more>>, <<>>, FALSE>>
           E10 == <<rest, <<more>>, FALSE>>
<1>1. \A j : MS!DuringKey(k, j) =
        CASE j = 1 -> E1
          [] j # 1 /\ k \notin signing -> E0
          [] j = 2 /\ k \in signing -> E2
          [] j = 3 /\ k \in signing -> E3
          [] j = 4 /\ k \in signing -> E4
          [] j = 5 /\ k \in signing -> E5
          [] j = 6 /\ k \in signing -> E2
          [] j = 7 /\ k \in signing -> E7
          [] j = 8 /\ k \in signing -> E8
          [] j = 9 /\ k \in signing -> E9
          [] j = 10 /\ k \in signing -> E10
  BY DEF MS!DuringKey
<1> HIDE DEF rest, count, more, sig, key, id, h
<1>2. Row(rest)
  BY DEF rest
<1>3. E2 = <<both, <<count>>, FALSE>> /\ E3 = <<Append(both, key), <<count>>, FALSE>>
  BY <1>2, OnTop
<1>4. E4 = <<Append(both, id), <<count>>, FALSE>>
      /\ E5 = <<Append(Append(both, id), h), <<count>>, FALSE>>
  BY <1>2, OnTop
<1>5. E8 = <<Append(rest, count), <<>>, FALSE>> /\ E9 = <<Append(rest, more), <<>>, FALSE>>
  BY <1>2, OnTop
<1> HIDE DEF E0, E1, E2, E3, E4, E5, E7, E8, E9, E10
<1>6. MS!DuringKey(k, 1) = E1
  BY <1>1
<1>7. ASSUME k \notin signing, NEW j \in 2..10
      PROVE  MS!DuringKey(k, j) = E0
  <2>1. j # 1
    OBVIOUS
  <2> QED
    BY <1>1, <1>7, <2>1
<1>8. ASSUME k \in signing
      PROVE  /\ MS!DuringKey(k, 2) = E2 /\ MS!DuringKey(k, 3) = E3 /\ MS!DuringKey(k, 4) = E4
             /\ MS!DuringKey(k, 5) = E5 /\ MS!DuringKey(k, 6) = E2 /\ MS!DuringKey(k, 7) = E7
             /\ MS!DuringKey(k, 8) = E8 /\ MS!DuringKey(k, 9) = E9 /\ MS!DuringKey(k, 10) = E10
  BY SMT, <1>1, <1>8
<1>9. k \in signing =>
        /\ MS!DuringKey(k, 2) = <<both, <<count>>, FALSE>>
        /\ MS!DuringKey(k, 3) = <<Append(both, key), <<count>>, FALSE>>
        /\ MS!DuringKey(k, 4) = <<Append(both, id), <<count>>, FALSE>>
        /\ MS!DuringKey(k, 5) = <<Append(Append(both, id), h), <<count>>, FALSE>>
        /\ MS!DuringKey(k, 6) = <<both, <<count>>, FALSE>>
        /\ MS!DuringKey(k, 7) = <<rest, <<count>>, FALSE>>
        /\ MS!DuringKey(k, 8) = <<Append(rest, count), <<>>, FALSE>>
        /\ MS!DuringKey(k, 9) = <<Append(rest, more), <<>>, FALSE>>
        /\ MS!DuringKey(k, 10) = <<rest, <<more>>, FALSE>>
  BY <1>3, <1>4, <1>5, <1>8 DEF E7, E10
<1>10. k \notin signing => \A j \in 2..10 : MS!DuringKey(k, j) = <<rest, <<count>>, TRUE>>
  BY <1>7 DEF E0
<1>11. MS!DuringKey(k, 1) = <<MS!Left(MS!Pushed(k)), <<count>>, FALSE>>
  BY <1>6 DEF E1
<1> HIDE DEF both
<1> QED
  BY <1>9, <1>10, <1>11 DEF rest, count, more, sig, key, id, h, both

\* What is known of the contributions, an opcode further.
LEMMA CheckedOn ==
  ASSUME NEW k, NEW i \in 1..9, MS!Checked(k, i),
         i = 5 /\ k \in signing => vetted /\ ~MS!Faulty(k, "other public key"),
         i = 6 /\ k \in signing => MS!Valid(k)
  PROVE  MS!Checked(k, i + 1)
<1>1. (i + 1 > 5 => i = 5 \/ i > 5) /\ (i + 1 > 6 => i = 6 \/ i > 6)
  BY ONLY i \in 1..9
<1> QED
  BY Zenon, <1>1 DEF MS!Checked

LEMMA CheckedSo ==
  ASSUME NEW k \in signing
  PROVE  /\ MS!Checked(k, 6) => vetted /\ ~MS!Faulty(k, "other public key")
         /\ MS!Checked(k, 10) => MS!Valid(k)
<1>1. 6 > 5 /\ 10 > 6
  BY SMT
<1> QED
  BY Zenon, <1>1 DEF MS!Checked

LEMMA Entered ==
  ASSUME skipping = FALSE, Row(stack), NEW r, Row(r), NEW x, stack = Append(r, x),
         MS!op = "IF", x # <<"num", 0>>
  PROVE  Does(r, alt, FALSE)
BY Effects

\* The opcode that is next, in the block of a key.
LEMMA KeyOp ==
  ASSUME Row(public_keys), Row(unlocking), NEW N \in Nat, N = MS!n, NEW U \in Nat, U = Len(unlocking),
         NEW k \in 1..N, NEW j \in 1..10, ip = U + 2 + 10 * (k - 1) + j
  PROVE  /\ j = 1 => MS!op = "IF"
         /\ j = 2 => MS!op = "DUP"
         /\ j = 3 => MS!op = "HASH160"
         /\ j = 4 => MS!op = "PUSH" /\ MS!Script[ip].v = MS!hash160(public_keys[k])
         /\ j = 5 => MS!op = "EQUALVERIFY"
         /\ j = 6 => MS!op = "CHECKSIGVERIFY"
         /\ j = 7 => MS!op = "FROMALTSTACK"
         /\ j = 8 => MS!op = "1ADD"
         /\ j = 9 => MS!op = "TOALTSTACK"
         /\ j = 10 => MS!op = "ENDIF"
<1> DEFINE b == MS!KeyBlock(public_keys[k])
           s == MS!Script
<1>1. s[ip] = b[j]
  BY ScriptIs
<1>2. /\ b[1] = MS!Op("IF") /\ b[2] = MS!Op("DUP") /\ b[3] = MS!Op("HASH160")
      /\ b[4] = MS!Push(MS!hash160(public_keys[k])) /\ b[5] = MS!Op("EQUALVERIFY")
      /\ b[6] = MS!Op("CHECKSIGVERIFY") /\ b[7] = MS!Op("FROMALTSTACK")
      /\ b[8] = MS!Op("1ADD") /\ b[9] = MS!Op("TOALTSTACK") /\ b[10] = MS!Op("ENDIF")
  BY KeyBlockIs
<1>3. MS!op = s[ip].op
  BY DEF MS!op
<1> HIDE DEF b, s
<1>4. MS!op = b[j].op /\ s[ip].v = b[j].v
  BY <1>1, <1>3
<1>5. /\ b[1].op = "IF" /\ b[2].op = "DUP" /\ b[3].op = "HASH160"
      /\ b[4].op = "PUSH" /\ b[4].v = MS!hash160(public_keys[k]) /\ b[5].op = "EQUALVERIFY"
      /\ b[6].op = "CHECKSIGVERIFY" /\ b[7].op = "FROMALTSTACK"
      /\ b[8].op = "1ADD" /\ b[9].op = "TOALTSTACK" /\ b[10].op = "ENDIF"
  BY <1>2, OpIs
<1> QED
  BY <1>4, <1>5 DEF s

\* Each opcode of a key's block leads to the next, or finds the contribution wanting.
LEMMA KeyStep ==
  ASSUME Row(public_keys), Row(unlocking), NEW N \in Nat, N = MS!n, NEW U \in Nat, U = Len(unlocking),
         signing \subseteq 1..N, MS!AnswersFrom(1),
         NEW k \in 1..N, NEW j \in 1..10, ip = U + 2 + 10 * (k - 1) + j,
         public_keys[k] # "nobody",
         <<stack, alt, skipping>> = MS!DuringKey(k, j), MS!Checked(k, j), MS!Execute
  PROVE  \/ Rejects /\ k \in signing /\ ~MS!Valid(k)
         \/ j # 10 /\ Arrives(MS!DuringKey(k, j + 1)) /\ MS!Checked(k, j + 1)
         \/ /\ j = 10 /\ (k \in signing => MS!Valid(k))
            /\ Arrives(<<MS!Left(MS!Pushed(k + 1)), <<<<"num", MS!Counted(k)>>>>, FALSE>>)
<1> DEFINE rest == MS!Left(MS!Pushed(k + 1))
           c == MS!Counted(k - 1)
           count == <<"num", c>>
           more == <<"num", c + 1>>
           counted == <<"num", MS!Counted(k)>>
           sig == MS!SigOf(k)
           key == MS!KeyOf(k)
           id == <<"hash", key[2]>>
           h == MS!hash160(public_keys[k])
           both == Append(Append(rest, sig), key)
           During(i) == MS!DuringKey(k, i)
           Checked(i) == MS!Checked(k, i)
           full == MS!Left(MS!Pushed(k))
           other == MS!Faulty(k, "other public key")
           forged == MS!Faulty(k, "other signature")
           valid == MS!Valid(k)
           zero == <<"num", 0>>
           one == <<"num", 1>>
<1>0. Row(rest)
  BY AnswersAre
<1>1. /\ k \in signing => full = Append(both, one)
      /\ k \notin signing => full = Append(rest, zero)
  BY AnswersAre
<1>2. During(1) = <<full, <<count>>, FALSE>>
      /\ (k \notin signing => \A i \in 2..10 : During(i) = <<rest, <<count>>, TRUE>>)
      /\ (k \in signing =>
            /\ During(2) = <<both, <<count>>, FALSE>>
            /\ During(3) = <<Append(both, key), <<count>>, FALSE>>
            /\ During(4) = <<Append(both, id), <<count>>, FALSE>>
            /\ During(5) = <<Append(Append(both, id), h), <<count>>, FALSE>>
            /\ During(6) = <<both, <<count>>, FALSE>>
            /\ During(7) = <<rest, <<count>>, FALSE>>
            /\ During(8) = <<Append(rest, count), <<>>, FALSE>>
            /\ During(9) = <<Append(rest, more), <<>>, FALSE>>
            /\ During(10) = <<rest, <<more>>, FALSE>>)
  BY <1>0, DuringKeyIs
<1>3. (k \in signing => counted = more) /\ (k \notin signing => counted = count)
  <2>1. MS!Counted(k) = c + IF k \in signing THEN 1 ELSE 0
    BY Counting
  <2>2. k - 1 \in 0..N
    OBVIOUS
  <2>3. c \in Nat
    BY <2>2, Counting
  <2> QED
    BY <2>1, <2>3
<1>4. \A i \in 1..9 :
        /\ Checked(i)
        /\ i = 5 /\ k \in signing => vetted /\ ~other
        /\ i = 6 /\ k \in signing => valid
        => Checked(i + 1)
  BY CheckedOn
<1>5. k \in signing => (Checked(6) => vetted /\ ~other) /\ (Checked(10) => valid)
  BY CheckedSo
<1>6. /\ key[1] = "key"
      /\ id = h <=> vetted /\ ~other
      /\ ~other => (sig = <<"sig", key[2]>> <=> ~forged)
  BY Contributed
<1>7. valid <=> vetted /\ ~other /\ ~forged
  BY DEF MS!Valid
<1>8. <<stack, alt, skipping>> = During(j) /\ Checked(j)
  OBVIOUS
<1>9. /\ j = 1 => MS!op = "IF"
      /\ j = 2 => MS!op = "DUP"
      /\ j = 3 => MS!op = "HASH160"
      /\ j = 4 => MS!op = "PUSH" /\ MS!Script[ip].v = h
      /\ j = 5 => MS!op = "EQUALVERIFY"
      /\ j = 6 => MS!op = "CHECKSIGVERIFY"
      /\ j = 7 => MS!op = "FROMALTSTACK"
      /\ j = 8 => MS!op = "1ADD"
      /\ j = 9 => MS!op = "TOALTSTACK"
      /\ j = 10 => MS!op = "ENDIF"
  BY KeyOp
<1>10. both = Append(Append(rest, sig), key)
  OBVIOUS
<1>11. Row(Append(rest, sig)) /\ Row(both)
  BY <1>0, Grown
<1>12. one # zero /\ zero = <<"num", 0>> /\ count[2] + 1 = more[2] /\ <<"hash", key[2]>> = id /\ <<"num", count[2] + 1>> = more
  OBVIOUS
<1>13. Append(<<>>, more) = <<more>>
  OBVIOUS
<1> DEFINE Goal ==
             \/ Rejects /\ k \in signing /\ ~valid
             \/ j # 10 /\ Arrives(During(j + 1)) /\ Checked(j + 1)
             \/ j = 10 /\ (k \in signing => valid) /\ Arrives(<<rest, <<counted>>, FALSE>>)
<1>14. ASSUME Goal
       PROVE  \/ Rejects /\ k \in signing /\ ~MS!Valid(k)
              \/ j # 10 /\ Arrives(MS!DuringKey(k, j + 1)) /\ MS!Checked(k, j + 1)
              \/ /\ j = 10 /\ (k \in signing => MS!Valid(k))
                 /\ Arrives(<<MS!Left(MS!Pushed(k + 1)), <<<<"num", MS!Counted(k)>>>>, FALSE>>)
  BY <1>14
<1> HIDE DEF rest, c, count, more, counted, sig, key, id, h, both, During, Checked, full, other, forged,
             valid, zero, one
<1>15. ASSUME NEW s, NEW a, NEW f, During(j) = <<s, a, f>>
       PROVE  stack = s /\ alt = a /\ skipping = f
  BY <1>8, <1>15
\* Where there is another opcode in the block.
<1>16. ASSUME NEW i, j + 1 = i, NEW s, NEW a, NEW f, Does(s, a, f), During(i) = <<s, a, f>>, Checked(i),
              j # 10
       PROVE  Goal
  BY <1>16, Moved
<1>17. ASSUME j # 10, j = 5 /\ k \in signing => vetted /\ ~other, j = 6 /\ k \in signing => valid
       PROVE  Checked(j + 1)
  <2>1. j \in 1..9
    BY <1>17
  <2> QED
    BY <1>4, <1>8, <1>17, <2>1
<1>18. ASSUME k \notin signing, j = 1 PROVE Goal
  <2>0. During(j) = <<Append(rest, zero), <<count>>, FALSE>>
    BY <1>1, <1>2, <1>18
  <2>1. stack = Append(rest, zero) /\ alt = <<count>> /\ skipping = FALSE
    BY <1>15, <2>0
  <2>2. Row(stack)
    BY <1>0, <2>1, Grown
  <2>3. zero = <<"num", 0>>
    BY DEF zero
  <2>4. Does(rest, <<count>>, TRUE)
    BY <1>0, <1>9, <1>18, <2>1, <2>2, <2>3, Effects
  <2>5. j + 1 = 2 /\ 2 \in 2..10 /\ j # 10 /\ j # 5 /\ j # 6
    BY <1>18
  <2>6. During(2) = <<rest, <<count>>, TRUE>>
    BY <1>2, <1>18, <2>5
  <2>7. Checked(2)
    BY <1>17, <2>5
  <2> QED
    BY <1>16, <2>4, <2>5, <2>6, <2>7
<1>19. ASSUME k \notin signing, j # 1, j # 10 PROVE Goal
  <2>1. j \in 2..10 /\ j + 1 \in 2..10
    BY <1>19
  <2>2. stack = rest /\ alt = <<count>> /\ skipping = TRUE
    BY <1>2, <1>15, <1>19, <2>1
  <2>3. j = 2 \/ j = 3 \/ j = 4 \/ j = 5 \/ j = 6 \/ j = 7 \/ j = 8 \/ j = 9
    BY <1>19
  <2>4. MS!op # "ENDIF"
    BY <1>9, <2>3
  <2>5. Does(rest, <<count>>, TRUE)
    BY <2>2, <2>4, Skips
  <2>6. During(j + 1) = <<rest, <<count>>, TRUE>>
    BY <1>2, <1>19, <2>1
  <2>7. Checked(j + 1)
    BY <1>17, <1>19
  <2> QED
    BY <1>16, <1>19, <2>5, <2>6, <2>7
<1>20. ASSUME k \notin signing, j = 10 PROVE Goal
  <2>1. 10 \in 2..10
    OBVIOUS
  <2>2. stack = rest /\ alt = <<count>> /\ skipping = TRUE
    BY <1>2, <1>15, <1>20, <2>1
  <2>3. Does(rest, <<count>>, FALSE)
    BY <1>9, <1>20, <2>2, Skips
  <2> QED
    BY <1>3, <1>20, <2>3, Moved
<1>21. ASSUME k \in signing, j = 1 PROVE Goal
  <2>0. one # <<"num", 0>>
    BY <1>12
  <2>1. stack = Append(both, one) /\ alt = <<count>> /\ skipping = FALSE
    BY <1>1, <1>2, <1>15, <1>21, ZenonT(60)
  <2>2. Row(both) /\ Row(stack)
    BY <1>0, <1>11, <2>1, Grown
  <2>3. Does(both, <<count>>, FALSE)
    <3>1. MS!op = "IF"
      BY <1>9, <1>21
    <3>2. Does(both, alt, FALSE)
      BY ONLY <2>0, <2>1, <2>2, <3>1, Entered
    <3> QED
      BY <2>1, <3>2
  <2>4. j + 1 = 2 /\ j # 10 /\ j # 5 /\ j # 6
    BY <1>21
  <2>5. During(2) = <<both, <<count>>, FALSE>>
    BY <1>2, <1>21
  <2>6. Checked(2)
    BY <1>17, <2>4
  <2> QED
    BY <1>16, <2>3, <2>4, <2>5, <2>6
<1>22. ASSUME k \in signing, j = 2 PROVE Goal
  <2>1. stack = Append(Append(rest, sig), key) /\ alt = <<count>> /\ skipping = FALSE
    BY <1>1, <1>2, <1>10, <1>15, <1>22
  <2>2. Row(Append(rest, sig)) /\ Row(stack)
    BY <1>0, <1>11, <2>1, Grown
  <2>3. Does(Append(both, key), <<count>>, FALSE)
    BY <1>9, <1>10, <1>12, <1>13, <1>22, <2>1, <2>2, Effects
  <2>4. j + 1 = 3 /\ j # 10 /\ j # 5 /\ j # 6
    BY <1>22
  <2>5. During(3) = <<Append(both, key), <<count>>, FALSE>>
    BY <1>2, <1>22
  <2>6. Checked(3)
    BY <1>17, <2>4
  <2> QED
    BY <1>16, <2>3, <2>4, <2>5, <2>6
<1>23. ASSUME k \in signing, j = 3 PROVE Goal
  <2>1. stack = Append(both, key) /\ alt = <<count>> /\ skipping = FALSE
    BY <1>1, <1>2, <1>15, <1>23
  <2>2. Row(both) /\ Row(stack)
    BY <1>0, <1>11, <2>1, Grown
  <2>3. Does(Append(both, id), <<count>>, FALSE)
    BY <1>9, <1>12, <1>13, <1>23, <2>1, <2>2, Effects
  <2>4. j + 1 = 4 /\ j # 10 /\ j # 5 /\ j # 6
    BY <1>23
  <2>5. During(4) = <<Append(both, id), <<count>>, FALSE>>
    BY <1>2, <1>23
  <2>6. Checked(4)
    BY <1>17, <2>4
  <2> QED
    BY <1>16, <2>3, <2>4, <2>5, <2>6
<1>24. ASSUME k \in signing, j = 4 PROVE Goal
  <2>1. stack = Append(both, id) /\ alt = <<count>> /\ skipping = FALSE
    BY <1>1, <1>2, <1>15, <1>24
  <2>2. Row(Append(both, id)) /\ Row(stack)
    BY <1>0, <1>11, <2>1, Grown
  <2>3. Does(Append(Append(both, id), h), <<count>>, FALSE)
    BY <1>9, <1>12, <1>13, <1>24, <2>1, <2>2, Effects
  <2>4. j + 1 = 5 /\ j # 10 /\ j # 5 /\ j # 6
    BY <1>24
  <2>5. During(5) = <<Append(Append(both, id), h), <<count>>, FALSE>>
    BY <1>2, <1>24
  <2>6. Checked(5)
    BY <1>17, <2>4
  <2> QED
    BY <1>16, <2>3, <2>4, <2>5, <2>6
<1>25. ASSUME k \in signing, j = 7 PROVE Goal
  <2>1. stack = rest /\ alt = <<count>> /\ skipping = FALSE
    BY <1>1, <1>2, <1>15, <1>25
  <2>2. Row(rest) /\ Row(stack)
    BY <1>0, <1>11, <2>1, Grown
  <2>3. Does(Append(rest, count), <<>>, FALSE)
    BY <1>9, <1>12, <1>13, <1>25, <2>1, <2>2, Effects
  <2>4. j + 1 = 8 /\ j # 10 /\ j # 5 /\ j # 6
    BY <1>25
  <2>5. During(8) = <<Append(rest, count), <<>>, FALSE>>
    BY <1>2, <1>25
  <2>6. Checked(8)
    BY <1>17, <2>4
  <2> QED
    BY <1>16, <2>3, <2>4, <2>5, <2>6
<1>26. ASSUME k \in signing, j = 8 PROVE Goal
  <2>1. stack = Append(rest, count) /\ alt = <<>> /\ skipping = FALSE
    BY <1>1, <1>2, <1>15, <1>26
  <2>2. Row(rest) /\ Row(stack)
    BY <1>0, <1>11, <2>1, Grown
  <2>3. Does(Append(rest, more), <<>>, FALSE)
    BY <1>9, <1>12, <1>13, <1>26, <2>1, <2>2, Effects
  <2>4. j + 1 = 9 /\ j # 10 /\ j # 5 /\ j # 6
    BY <1>26
  <2>5. During(9) = <<Append(rest, more), <<>>, FALSE>>
    BY <1>2, <1>26
  <2>6. Checked(9)
    BY <1>17, <2>4
  <2> QED
    BY <1>16, <2>3, <2>4, <2>5, <2>6
<1>27. ASSUME k \in signing, j = 9 PROVE Goal
  <2>1. stack = Append(rest, more) /\ alt = <<>> /\ skipping = FALSE
    BY <1>1, <1>2, <1>15, <1>27
  <2>2. Row(rest) /\ Row(stack)
    BY <1>0, <1>11, <2>1, Grown
  <2>3. Does(rest, <<more>>, FALSE)
    BY <1>9, <1>12, <1>13, <1>27, <2>1, <2>2, Effects
  <2>4. j + 1 = 10 /\ j # 10 /\ j # 5 /\ j # 6
    BY <1>27
  <2>5. During(10) = <<rest, <<more>>, FALSE>>
    BY <1>2, <1>27
  <2>6. Checked(10)
    BY <1>17, <2>4
  <2> QED
    BY <1>16, <2>3, <2>4, <2>5, <2>6
<1>28. ASSUME k \in signing, j = 5 PROVE Goal
  <2>1. stack = Append(Append(both, id), h) /\ alt = <<count>> /\ skipping = FALSE
    BY <1>2, <1>15, <1>28
  <2>2. CASE id = h
    <3>1. Does(both, <<count>>, FALSE)
      BY <1>9, <1>11, <1>28, <2>1, <2>2, EffectsOnTwo
    <3>2. During(6) = <<both, <<count>>, FALSE>>
      BY <1>2, <1>28
    <3>3. j + 1 = 6 /\ j # 10 /\ j # 6
      BY <1>28
    <3>4. Checked(6)
      BY <1>6, <1>17, <2>2, <3>3
    <3> QED
      BY <1>16, <3>1, <3>2, <3>3, <3>4
  <2>3. CASE id # h
    <3>1. MS!Effect = <<>>
      <4>1. MS!op = "EQUALVERIFY" /\ h # id => MS!Effect = <<>>
        BY ONLY <1>11, <2>1, EffectsOnTwo
      <4> QED
        BY <1>9, <1>28, <2>3, <4>1
    <3>2. Rejects
      BY <2>1, <3>1, Failed
    <3> QED
      BY <1>6, <1>7, <1>28, <2>3, <3>2
  <2> QED
    BY <2>2, <2>3
<1>29. ASSUME k \in signing, j = 6 PROVE Goal
  <2>1. stack = Append(Append(rest, sig), key) /\ alt = <<count>> /\ skipping = FALSE
    BY <1>2, <1>10, <1>15, <1>29
  <2>2. vetted /\ ~other
    BY <1>5, <1>8, <1>29
  <2>3. CASE sig = <<"sig", key[2]>>
    <3>1. Does(rest, <<count>>, FALSE)
      BY <1>0, <1>6, <1>9, <1>29, <2>1, <2>3, EffectsOnTwo
    <3>2. During(7) = <<rest, <<count>>, FALSE>>
      BY <1>2, <1>29
    <3>3. valid
      BY <1>6, <1>7, <2>2, <2>3
    <3>4. j + 1 = 7 /\ j # 10 /\ j # 5
      BY <1>29
    <3>5. Checked(7)
      BY <1>17, <3>3, <3>4
    <3> QED
      BY <1>16, <3>1, <3>2, <3>4, <3>5
  <2>4. CASE sig # <<"sig", key[2]>>
    <3>1. MS!Effect = <<>>
      <4>1. MS!op = "CHECKSIGVERIFY" /\ sig # <<"sig", key[2]>> => MS!Effect = <<>>
        BY ONLY <1>0, <2>1, EffectsOnTwo
      <4> QED
        BY <1>9, <1>29, <2>4, <4>1
    <3>2. Rejects
      BY <2>1, <3>1, Failed
    <3> QED
      BY <1>6, <1>7, <1>29, <2>2, <2>4, <3>2
  <2> QED
    BY <2>3, <2>4
<1>30. ASSUME k \in signing, j = 10 PROVE Goal
  <2>1. stack = rest /\ alt = <<more>> /\ skipping = FALSE
    BY <1>2, <1>15, <1>30
  <2>2. Does(rest, <<more>>, FALSE)
    BY <1>0, <1>9, <1>30, <2>1, Effects
  <2>3. valid
    BY <1>5, <1>8, <1>30
  <2> QED
    BY <1>3, <1>30, <2>2, <2>3, Moved
<1>31. Goal
  <2>1. j = 1 \/ j = 2 \/ j = 3 \/ j = 4 \/ j = 5 \/ j = 6 \/ j = 7 \/ j = 8 \/ j = 9 \/ j = 10
    OBVIOUS
  <2> HIDE DEF Goal
  <2> QED
    BY <1>18, <1>19, <1>20, <1>21, <1>22, <1>23, <1>24, <1>25, <1>26, <1>27, <1>28, <1>29, <1>30, <2>1
<1> QED
  BY <1>14, <1>31

\* What is said of the script and the contributions stays as long as they do.
LEMMA SameScript ==
  ASSUME UNCHANGED <<public_keys, threshold, vetted, signing, flaw, unlocking>>
  PROVE  /\ MS!n' = MS!n
         /\ \A c : MS!Left(c)' = MS!Left(c)
         /\ \A k : MS!Pushed(k)' = MS!Pushed(k)
         /\ \A k : MS!Counted(k)' = MS!Counted(k)
         /\ \A k : MS!Contribution(k)' = MS!Contribution(k)
         /\ \A k, j : MS!DuringKey(k, j)' = MS!DuringKey(k, j)
         /\ \A k : MS!Valid(k)' <=> MS!Valid(k)
         /\ \A k, j : MS!Checked(k, j)' <=> MS!Checked(k, j)
         /\ \A j : MS!AtTheEnd(j)' = MS!AtTheEnd(j)
         /\ \A k : MS!AnswersFrom(k)' <=> MS!AnswersFrom(k)
         /\ MS!Script' = MS!Script
<1>1. MS!n' = MS!n
  BY DEF MS!n
<1>2. \A c : MS!Left(c)' = MS!Left(c)
  BY DEF MS!Left
<1>3. \A k : MS!Pushed(k)' = MS!Pushed(k) /\ MS!Counted(k)' = MS!Counted(k)
  BY DEF MS!Pushed, MS!Counted, MS!n
<1>4. \A k, w : MS!Faulty(k, w)' <=> MS!Faulty(k, w)
  BY DEF MS!Faulty
<1>5. \A k : MS!SigOf(k)' = MS!SigOf(k) /\ MS!KeyOf(k)' = MS!KeyOf(k)
  BY DEF MS!SigOf, MS!KeyOf, MS!Faulty
<1>6. \A k : MS!Contribution(k)' = MS!Contribution(k)
  BY DEF MS!Contribution, MS!SigOf, MS!KeyOf, MS!Faulty
<1>7. \A k, j : MS!DuringKey(k, j)' = MS!DuringKey(k, j)
  BY DEF MS!DuringKey, MS!Left, MS!Pushed, MS!Counted, MS!SigOf, MS!KeyOf, MS!Faulty, MS!n, MS!hash160
<1>8. \A k : MS!Valid(k)' <=> MS!Valid(k)
  BY DEF MS!Valid, MS!Faulty
<1>9. \A k, j : MS!Checked(k, j)' <=> MS!Checked(k, j)
  BY DEF MS!Checked, MS!Valid, MS!Faulty
<1>10. \A j : MS!AtTheEnd(j)' = MS!AtTheEnd(j)
  BY DEF MS!AtTheEnd, MS!Counted, MS!n
<1>11. \A k : MS!AnswersFrom(k)' <=> MS!AnswersFrom(k)
  BY DEF MS!AnswersFrom, MS!Contribution, MS!SigOf, MS!KeyOf, MS!Faulty, MS!Pushed, MS!n
<1>12. MS!Script' = MS!Script
  BY DEF MS!Script, MS!to_script_bytes, MS!Closing, MS!Opening, MS!KeyBlock, MS!hash160, MS!n
<1> QED
  BY <1>1, <1>2, <1>3, <1>6, <1>7, <1>8, <1>9, <1>10, <1>11, <1>12

\* The unlocking script only pushes.
LEMMA PushStep ==
  ASSUME Row(public_keys), Row(unlocking), NEW N \in Nat, N = MS!n, NEW U \in Nat, U = Len(unlocking),
         unlocking = [i \in 1..U |-> MS!Push(unlocking[i].v)],
         MS!Execute, ip \in 1..U, <<stack, alt, skipping>> = <<MS!Left(ip - 1), <<>>, FALSE>>
  PROVE  Arrives(<<MS!Left(ip), <<>>, FALSE>>)
<1> DEFINE v == unlocking[ip].v
<1>1. MS!Script[ip] = unlocking[ip]
  BY ScriptIs
<1>2. MS!Script[ip] = MS!Push(v)
  BY <1>1
<1>3. MS!op = "PUSH" /\ MS!Script[ip].v = v
  BY <1>2, OpIs DEF MS!op
<1>4. ip - 1 \in Nat /\ (ip - 1) + 1 = ip
  OBVIOUS
<1>5. Row(MS!Left(ip - 1)) /\ MS!Left((ip - 1) + 1) = Append(MS!Left(ip - 1), unlocking[(ip - 1) + 1].v)
  BY <1>4, LeftIs
<1>6. stack = MS!Left(ip - 1) /\ alt = <<>> /\ skipping = FALSE /\ MS!Left(ip) = Append(stack, v)
  BY <1>4, <1>5
<1> HIDE DEF v
<1>7. Does(Append(stack, MS!Script[ip].v), alt, FALSE)
  BY <1>3, <1>5, <1>6, Effects
<1>8. Arrives(<<Append(stack, MS!Script[ip].v), alt, FALSE>>)
  BY <1>7, Moved
<1> QED
  BY <1>3, <1>6, <1>8

\* The opening of the locking script puts a count of zero aside.
LEMMA OpeningStep ==
  ASSUME Row(public_keys), Row(unlocking), NEW N \in Nat, N = MS!n, NEW U \in Nat, U = Len(unlocking),
         MS!Execute
  PROVE  /\ ip = U + 1 /\ <<stack, alt, skipping>> = <<MS!Left(U), <<>>, FALSE>> =>
              Arrives(<<Append(MS!Left(U), <<"num", 0>>), <<>>, FALSE>>)
         /\ ip = U + 2 /\ <<stack, alt, skipping>> = <<Append(MS!Left(U), <<"num", 0>>), <<>>, FALSE>> =>
              Arrives(<<MS!Left(U), <<<<"num", 0>>>>, FALSE>>)
<1> DEFINE zero == <<"num", 0>>
           left == MS!Left(U)
<1>1. MS!Script[U + 1] = MS!Push(zero) /\ MS!Script[U + 2] = MS!Op("TOALTSTACK")
  BY ScriptIs
<1>2. Row(left)
  BY LeftIs
<1> HIDE DEF zero, left
<1>3. ASSUME ip = U + 1, <<stack, alt, skipping>> = <<left, <<>>, FALSE>>
      PROVE  Arrives(<<Append(left, zero), <<>>, FALSE>>)
  <2>1. MS!op = "PUSH" /\ MS!Script[ip].v = zero
    BY <1>1, <1>3, OpIs DEF MS!op
  <2>2. stack = left /\ alt = <<>> /\ skipping = FALSE
    BY <1>3
  <2>3. Does(Append(stack, MS!Script[ip].v), alt, FALSE)
    BY <1>2, <2>1, <2>2, Effects
  <2>4. Arrives(<<Append(stack, MS!Script[ip].v), alt, FALSE>>)
    BY <2>3, Moved
  <2> QED
    BY <2>1, <2>2, <2>4
<1>4. ASSUME ip = U + 2, <<stack, alt, skipping>> = <<Append(left, zero), <<>>, FALSE>>
      PROVE  Arrives(<<left, <<zero>>, FALSE>>)
  <2>1. MS!op = "TOALTSTACK"
    BY <1>1, <1>4, OpIs DEF MS!op
  <2>2. stack = Append(left, zero) /\ alt = <<>> /\ skipping = FALSE
    BY <1>4
  <2>3. Row(stack)
    BY <1>2, <2>2, Grown
  <2>4. Does(left, Append(alt, zero), FALSE)
    BY <1>2, <2>1, <2>2, <2>3, Effects
  <2>5. Arrives(<<left, Append(alt, zero), FALSE>>)
    BY <2>4, Moved
  <2>6. Append(<<>>, zero) = <<zero>>
    OBVIOUS
  <2> QED
    BY <2>2, <2>5, <2>6
<1> QED
  BY <1>3, <1>4 DEF zero, left

\* Its closing compares the count with the threshold.
LEMMA ClosingStep ==
  ASSUME Row(public_keys), Row(unlocking), NEW N \in Nat, N = MS!n, NEW U \in Nat, U = Len(unlocking),
         MS!Execute, NEW j \in 1..3, ip = U + 2 + 10 * N + j,
         <<stack, alt, skipping>> = MS!AtTheEnd(j)
  PROVE  Arrives(MS!AtTheEnd(j + 1))
<1> DEFINE count == <<"num", MS!Counted(MS!n)>>
           m == <<"num", MS!ScriptNumber(MS!push_int(threshold))>>
           E1 == <<<<>>, <<count>>, FALSE>>
           E2 == <<<<count>>, <<>>, FALSE>>
           E3 == <<<<count, m>>, <<>>, FALSE>>
           E4 == <<<<<<"num", IF count[2] >= m[2] THEN 1 ELSE 0>>>>, <<>>, FALSE>>
           End(i) == MS!AtTheEnd(i)
<1>1. \A i : End(i) = CASE i = 1 -> E1 [] i = 2 -> E2 [] i = 3 -> E3 [] i = 4 -> E4
  BY DEF MS!AtTheEnd
<1>2. /\ MS!Script[U + 2 + 10 * N + 1] = MS!Op("FROMALTSTACK")
      /\ MS!Script[U + 2 + 10 * N + 2] = MS!Push(m)
      /\ MS!Script[U + 2 + 10 * N + 3] = MS!Op("GREATERTHANOREQUAL")
  BY ScriptIs
<1>3. <<stack, alt, skipping>> = End(j)
  OBVIOUS
<1> HIDE DEF count, m, End
<1>4. Row(<<>>) /\ Append(<<>>, count) = <<count>> /\ Append(Append(<<>>, count), m) = <<count, m>>
      /\ \A x : Append(<<>>, x) = <<x>>
  <2>1. Row(<<>>)
    BY DEF Row
  <2>2. \A x : Append(<<>>, x) = <<x>>
    OBVIOUS
  <2>3. ASSUME NEW x, NEW y PROVE <<x, y>> = Append(<<x>>, y)
    OBVIOUS
  <2> QED
    BY <2>1, <2>2, <2>3
<1>5. Row(<<count>>) /\ Row(<<count, m>>)
  BY <1>4, Grown
<1>a. ASSUME NEW s, NEW a, NEW f, End(j) = <<s, a, f>>
      PROVE  stack = s /\ alt = a /\ skipping = f
  BY <1>3, <1>a
<1>b. E1 = <<<<>>, <<count>>, FALSE>> /\ E2 = <<<<count>>, <<>>, FALSE>> /\ E3 = <<<<count, m>>, <<>>, FALSE>>
  OBVIOUS
<1> HIDE DEF E1, E2, E3, E4
<1>6. End(1) = E1 /\ End(2) = E2 /\ End(3) = E3 /\ End(4) = E4
  BY SMT, <1>1
<1>7. ASSUME j = 1 PROVE Arrives(End(j + 1))
  <2>1. MS!op = "FROMALTSTACK"
    BY <1>2, <1>7, OpIs DEF MS!op
  <2>2. stack = <<>> /\ alt = <<count>> /\ skipping = FALSE
    BY <1>6, <1>7, <1>a, <1>b
  <2>3. Does(Append(stack, count), <<>>, FALSE)
    BY <1>4, <2>1, <2>2, Effects
  <2>4. Arrives(<<Append(stack, count), <<>>, FALSE>>)
    BY <2>3, Moved
  <2>5. j + 1 = 2
    BY <1>7
  <2> QED
    BY <1>4, <1>6, <2>2, <2>4, <2>5 DEF E2
<1>8. ASSUME j = 2 PROVE Arrives(End(j + 1))
  <2>1. MS!op = "PUSH" /\ MS!Script[ip].v = m
    BY <1>2, <1>8, OpIs DEF MS!op
  <2>2. stack = <<count>> /\ alt = <<>> /\ skipping = FALSE
    BY <1>6, <1>8, <1>a, <1>b
  <2>3. Does(Append(stack, MS!Script[ip].v), alt, FALSE)
    BY <1>5, <2>1, <2>2, Effects
  <2>4. Arrives(<<Append(stack, MS!Script[ip].v), alt, FALSE>>)
    BY <2>3, Moved
  <2>5. j + 1 = 3
    BY <1>8
  <2> QED
    BY <1>4, <1>6, <2>1, <2>2, <2>4, <2>5 DEF E3
<1>9. ASSUME j = 3 PROVE Arrives(End(j + 1))
  <2>1. MS!op = "GREATERTHANOREQUAL"
    BY <1>2, <1>9, OpIs DEF MS!op
  <2>2. stack = Append(Append(<<>>, count), m) /\ alt = <<>> /\ skipping = FALSE
    BY <1>4, <1>6, <1>9, <1>a, <1>b
  <2>3. j + 1 = 4
    BY <1>9
  <2>4. CASE count[2] >= m[2]
    <3>1. Does(Append(<<>>, <<"num", 1>>), alt, FALSE)
      BY <1>4, <2>1, <2>2, <2>4, EffectsOnTwo
    <3>2. Arrives(<<Append(<<>>, <<"num", 1>>), alt, FALSE>>)
      BY <3>1, Moved
    <3>3. E4 = <<<<<<"num", 1>>>>, <<>>, FALSE>>
      BY <2>4 DEF E4
    <3> QED
      BY <1>4, <1>6, <2>2, <2>3, <3>2, <3>3
  <2>5. CASE ~(count[2] >= m[2])
    <3>1. Does(Append(<<>>, <<"num", 0>>), alt, FALSE)
      BY <1>4, <2>1, <2>2, <2>5, EffectsOnTwo
    <3>2. Arrives(<<Append(<<>>, <<"num", 0>>), alt, FALSE>>)
      BY <3>1, Moved
    <3>3. E4 = <<<<<<"num", 0>>>>, <<>>, FALSE>>
      BY <2>5 DEF E4
    <3> QED
      BY <1>4, <1>6, <2>2, <2>3, <3>2, <3>3
  <2> QED
    BY <2>4, <2>5
<1>10. j = 1 \/ j = 2 \/ j = 3
  OBVIOUS
<1> QED
  BY <1>7, <1>8, <1>9, <1>10 DEF End

\* RunInv, of a place in the script and the state of the machine there.
RunsAt(N, U, p, state) ==
  \/ p \in 1..U + 1 /\ state = <<MS!Left(p - 1), <<>>, FALSE>>
  \/ p = U + 2 /\ state = <<Append(MS!Left(U), <<"num", 0>>), <<>>, FALSE>>
  \/ \E k \in 1..N : \E j \in 1..10 :
       p = U + 2 + 10 * (k - 1) + j /\ state = MS!DuringKey(k, j) /\ MS!Checked(k, j)
  \/ \E j \in 1..4 :
       p = U + 2 + 10 * N + j /\ state = MS!AtTheEnd(j) /\ \A i \in signing : MS!Valid(i)

LEMMA OpeningLength == Len(MS!Opening) = 2
<1> DEFINE a == MS!Push(<<"num", 0>>)
           b == MS!Op("TOALTSTACK")
<1>1. MS!Opening = <<a, b>>
  BY DEF MS!Opening
<1> HIDE DEF a, b
<1> QED
  BY <1>1

LEMMA Running ==
  ASSUME NEW N \in Nat, N = MS!n, NEW U \in Nat, U = Len(unlocking), MS!RunInv
  PROVE  RunsAt(N, U, ip, <<stack, alt, skipping>>)
<1>1. PICK keys : keys = Len(unlocking) + Len(MS!Opening)
  OBVIOUS
<1>2. keys = U + 2 /\ keys - 2 = U
  BY <1>1, OpeningLength
<1> DEFINE state == <<stack, alt, skipping>>
<1>3. \/ ip \in 1..Len(unlocking) + 1 /\ state = <<MS!Left(ip - 1), <<>>, FALSE>>
      \/ ip = keys /\ state = <<Append(MS!Left(keys - 2), <<"num", 0>>), <<>>, FALSE>>
      \/ \E k \in 1..MS!n, j \in 1..10 :
           ip = keys + 10 * (k - 1) + j /\ state = MS!DuringKey(k, j) /\ MS!Checked(k, j)
      \/ \E j \in 1..4 :
           ip = keys + 10 * MS!n + j /\ state = MS!AtTheEnd(j) /\ \A i \in signing : MS!Valid(i)
  BY <1>1 DEF MS!RunInv
<1> HIDE DEF state
<1>4. RunsAt(N, U, ip, state)
  BY <1>2, <1>3 DEF RunsAt
<1> QED
  BY <1>4 DEF state

LEMMA RunsOn ==
  ASSUME NEW N \in Nat, N = MS!n, NEW U \in Nat, U = Len(unlocking),
         UNCHANGED <<public_keys, threshold, vetted, signing, flaw, unlocking>>,
         RunsAt(N, U, ip', <<stack', alt', skipping'>>)
  PROVE  MS!RunInv'
<1>1. U + 2 - 2 = U
  OBVIOUS
<1>2. N = MS!n' /\ U = Len(unlocking') /\ signing' = signing
  BY SameScript
<1>3. /\ \A c : MS!Left(c)' = MS!Left(c)
      /\ \A k, j : MS!DuringKey(k, j)' = MS!DuringKey(k, j)
      /\ \A k, j : MS!Checked(k, j)' <=> MS!Checked(k, j)
      /\ \A k : MS!Valid(k)' <=> MS!Valid(k)
      /\ \A j : MS!AtTheEnd(j)' = MS!AtTheEnd(j)
  BY SameScript
<1>4. MS!Left(ip - 1)' = [i \in 1..ip' - 1 |-> unlocking'[i].v] /\ MS!Left(U)' = MS!Left(U)
      /\ MS!Left(ip' - 1) = [i \in 1..ip' - 1 |-> unlocking[i].v]
  BY DEF MS!Left
<1>5. MS!Left(ip - 1)' = MS!Left(ip' - 1)
  BY <1>4
<1>6. CASE ip' \in 1..U + 1 /\ <<stack', alt', skipping'>> = <<MS!Left(ip' - 1), <<>>, FALSE>>
  BY <1>2, <1>5, <1>6 DEF MS!RunInv
<1>7. CASE ip' = U + 2 /\ <<stack', alt', skipping'>> = <<Append(MS!Left(U), <<"num", 0>>), <<>>, FALSE>>
  <2>1. MS!Left(Len(unlocking) + Len(MS!Opening) - 2)' = MS!Left(U)
    BY <1>1, <1>2, OpeningLength DEF MS!Left
  <2>2. ip' = Len(unlocking') + Len(MS!Opening)
    BY <1>2, <1>7, OpeningLength
  <2>3. <<stack', alt', skipping'>> =
          <<Append(MS!Left(Len(unlocking) + Len(MS!Opening) - 2)', <<"num", 0>>), <<>>, FALSE>>
    BY <1>7, <2>1
  <2> QED
    BY <2>2, <2>3 DEF MS!RunInv
<1>8. CASE \E k \in 1..N : \E j \in 1..10 :
             /\ ip' = U + 2 + 10 * (k - 1) + j
             /\ <<stack', alt', skipping'>> = MS!DuringKey(k, j) /\ MS!Checked(k, j)
  BY <1>2, <1>3, <1>8, OpeningLength DEF MS!RunInv
<1>9. CASE \E j \in 1..4 :
             /\ ip' = U + 2 + 10 * N + j
             /\ <<stack', alt', skipping'>> = MS!AtTheEnd(j) /\ \A i \in signing : MS!Valid(i)
  BY <1>2, <1>3, <1>9, OpeningLength DEF MS!RunInv
<1> QED
  BY <1>6, <1>7, <1>8, <1>9 DEF RunsAt

\* A key's block begins with the answer on top, the count so far aside.
LEMMA FirstOpcode ==
  ASSUME NEW N \in Nat, N = MS!n, signing \subseteq 1..N, MS!AnswersFrom(1), NEW k \in 1..N,
         \A i \in signing : i < k => MS!Valid(i)
  PROVE  /\ MS!DuringKey(k, 1) = <<MS!Left(MS!Pushed(k)), <<<<"num", MS!Counted(k - 1)>>>>, FALSE>>
         /\ MS!Checked(k, 1)
<1>1. Row(MS!Left(MS!Pushed(k + 1)))
  BY AnswersAre
<1>2. MS!DuringKey(k, 1) = <<MS!Left(MS!Pushed(k)), <<<<"num", MS!Counted(k - 1)>>>>, FALSE>>
  BY <1>1, DuringKeyIs
<1>3. ~(1 > 5) /\ ~(1 > 6)
  BY SMT
<1>4. MS!Checked(k, 1)
  BY Zenon, <1>3 DEF MS!Checked
<1> QED
  BY <1>2, <1>4

LEMMA EndIs ==
  LET count == <<"num", MS!Counted(MS!n)>>
      m == <<"num", MS!ScriptNumber(MS!push_int(threshold))>>
  IN  /\ MS!AtTheEnd(1) = <<<<>>, <<count>>, FALSE>>
      /\ MS!AtTheEnd(4) = <<<<<<"num", IF count[2] >= m[2] THEN 1 ELSE 0>>>>, <<>>, FALSE>>
<1> DEFINE count == <<"num", MS!Counted(MS!n)>>
           m == <<"num", MS!ScriptNumber(MS!push_int(threshold))>>
           E1 == <<<<>>, <<count>>, FALSE>>
           E2 == <<<<count>>, <<>>, FALSE>>
           E3 == <<<<count, m>>, <<>>, FALSE>>
           E4 == <<<<<<"num", IF count[2] >= m[2] THEN 1 ELSE 0>>>>, <<>>, FALSE>>
<1>1. \A j : MS!AtTheEnd(j) = CASE j = 1 -> E1 [] j = 2 -> E2 [] j = 3 -> E3 [] j = 4 -> E4
  BY DEF MS!AtTheEnd
<1> HIDE DEF E1, E2, E3, E4
<1>2. MS!AtTheEnd(1) = E1 /\ MS!AtTheEnd(4) = E4
  BY SMT, <1>1
<1> QED
  BY <1>2 DEF E1, E4

\* The node's steps keep to RunInv, or reject for a contribution that is not valid.
LEMMA NodeRuns ==
  ASSUME Row(public_keys), Row(unlocking), NEW N \in Nat, N > 0, N = MS!n, NEW U \in Nat, U = Len(unlocking),
         unlocking = [i \in 1..U |-> MS!Push(unlocking[i].v)],
         signing \subseteq 1..N, MS!AnswersFrom(1), \A k \in 1..N : public_keys[k] # "nobody",
         RunsAt(N, U, ip, <<stack, alt, skipping>>), MS!Execute
  PROVE  \/ Rejects /\ \E k \in signing : ~MS!Valid(k)
         \/ status' = "running" /\ Same /\ RunsAt(N, U, ip', <<stack', alt', skipping'>>)
<1> DEFINE state == <<stack, alt, skipping>>
           zero == <<"num", 0>>
           Goal == \/ Rejects /\ \E k \in signing : ~MS!Valid(k)
                   \/ status' = "running" /\ Same /\ RunsAt(N, U, ip', <<stack', alt', skipping'>>)
<1>0. U = MS!Pushed(1)
  BY DEF MS!AnswersFrom
<1>1. ASSUME NEW s, Arrives(s), NEW p, p = ip + 1, RunsAt(N, U, p, s)
      PROVE  Goal
  <2>1. ip' = p /\ <<stack', alt', skipping'>> = s /\ status' = "running" /\ Same
    BY <1>1 DEF Arrives
  <2> QED
    BY <1>1, <2>1
<1> HIDE DEF Goal
<1>2. ASSUME ip \in 1..U + 1, state = <<MS!Left(ip - 1), <<>>, FALSE>> PROVE Goal
  <2>1. CASE ip \in 1..U
    <3> DEFINE s == <<MS!Left(ip), <<>>, FALSE>>
    <3>1. Arrives(s)
      BY <1>2, <2>1, PushStep
    <3>2. PICK p : p = ip + 1
      OBVIOUS
    <3>3. p \in 1..U + 1 /\ p - 1 = ip
      BY <2>1, <3>2
    <3>4. RunsAt(N, U, p, s)
      BY <3>3 DEF RunsAt
    <3> HIDE DEF s
    <3> QED
      BY <1>1, <3>1, <3>2, <3>4
  <2>2. CASE ip = U + 1
    <3>1. ip - 1 = U
      BY <2>2
    <3> DEFINE s == <<Append(MS!Left(U), zero), <<>>, FALSE>>
    <3>2. Arrives(s)
      BY <1>2, <2>2, <3>1, OpeningStep
    <3>3. PICK p : p = ip + 1
      OBVIOUS
    <3>4. p = U + 2
      BY <2>2, <3>3
    <3>5. RunsAt(N, U, p, s)
      BY <3>4 DEF RunsAt
    <3> HIDE DEF s
    <3> QED
      BY <1>1, <3>2, <3>3, <3>5
  <2> QED
    BY <1>2, <2>1, <2>2
<1>3. ASSUME ip = U + 2, state = <<Append(MS!Left(U), zero), <<>>, FALSE>> PROVE Goal
  <2>1. Arrives(<<MS!Left(U), <<zero>>, FALSE>>)
    BY <1>3, OpeningStep
  <2>2. 1 \in 1..N /\ 1 \in 1..10 /\ \A i \in signing : ~(i < 1)
    OBVIOUS
  <2>3. MS!DuringKey(1, 1) = <<MS!Left(MS!Pushed(1)), <<<<"num", MS!Counted(1 - 1)>>>>, FALSE>>
        /\ MS!Checked(1, 1)
    BY <2>2, FirstOpcode
  <2>4. MS!Counted(1 - 1) = 0
    <3>1. 1 - 1 = 0
      OBVIOUS
    <3> QED
      BY <3>1, Counting
  <2>5. MS!DuringKey(1, 1) = <<MS!Left(U), <<zero>>, FALSE>>
    BY <1>0, <2>3, <2>4
  <2>6. PICK p : p = ip + 1
    OBVIOUS
  <2>7. p = U + 2 + 10 * (1 - 1) + 1
    BY <1>3, <2>6
  <2>8. RunsAt(N, U, p, MS!DuringKey(1, 1))
    BY <2>2, <2>3, <2>7 DEF RunsAt
  <2>9. Arrives(MS!DuringKey(1, 1))
    BY <2>1, <2>5
  <2> QED
    BY <1>1, <2>6, <2>8, <2>9
<1>4. ASSUME NEW k \in 1..N, NEW j \in 1..10, ip = U + 2 + 10 * (k - 1) + j,
             state = MS!DuringKey(k, j), MS!Checked(k, j)
      PROVE  Goal
  <2>1. \/ Rejects /\ k \in signing /\ ~MS!Valid(k)
        \/ j # 10 /\ Arrives(MS!DuringKey(k, j + 1)) /\ MS!Checked(k, j + 1)
        \/ /\ j = 10 /\ (k \in signing => MS!Valid(k))
           /\ Arrives(<<MS!Left(MS!Pushed(k + 1)), <<<<"num", MS!Counted(k)>>>>, FALSE>>)
    BY <1>4, KeyStep
  <2>2. PICK p : p = ip + 1
    OBVIOUS
  <2>3. CASE Rejects /\ k \in signing /\ ~MS!Valid(k)
    BY <2>3 DEF Goal
  <2>4. CASE j # 10 /\ Arrives(MS!DuringKey(k, j + 1)) /\ MS!Checked(k, j + 1)
    <3>1. PICK l \in 1..10 : l = j + 1
      BY <2>4
    <3>2. p = U + 2 + 10 * (k - 1) + l
      BY <1>4, <2>2, <3>1
    <3>3. RunsAt(N, U, p, MS!DuringKey(k, l))
      BY <2>4, <3>1, <3>2 DEF RunsAt
    <3> QED
      BY <1>1, <2>2, <2>4, <3>1, <3>3
  <2>5. CASE /\ j = 10 /\ (k \in signing => MS!Valid(k))
             /\ Arrives(<<MS!Left(MS!Pushed(k + 1)), <<<<"num", MS!Counted(k)>>>>, FALSE>>)
    <3>1. \A i \in signing : i < k + 1 => MS!Valid(i)
      <4>1. \A i \in signing : i < k => MS!Valid(i)
        BY <1>4 DEF MS!Checked
      <4>2. \A i \in signing : i < k + 1 => i < k \/ i = k
        BY ONLY k \in 1..N, signing \subseteq 1..N, N \in Nat
      <4> QED
        BY <2>5, <4>1, <4>2
    <3>2. CASE k < N
      <4>1. PICK l \in 1..N : l = k + 1
        BY <3>2
      <4>2. MS!DuringKey(l, 1) = <<MS!Left(MS!Pushed(l)), <<<<"num", MS!Counted(l - 1)>>>>, FALSE>>
            /\ MS!Checked(l, 1)
        BY <3>1, <4>1, FirstOpcode
      <4>3. l - 1 = k /\ 1 \in 1..10 /\ p = U + 2 + 10 * (l - 1) + 1
        BY <1>4, <2>2, <2>5, <4>1
      <4>4. RunsAt(N, U, p, MS!DuringKey(l, 1))
        BY <4>2, <4>3 DEF RunsAt
      <4>5. Arrives(MS!DuringKey(l, 1))
        BY <2>5, <4>1, <4>2, <4>3
      <4> QED
        BY <1>1, <2>2, <4>4, <4>5
    <3>3. CASE k = N
      <4>1. MS!Left(MS!Pushed(k + 1)) = <<>>
        <5>1. MS!Pushed(N + 1) = 0
          BY Counting
        <5>2. MS!Left(0) = <<>>
          BY LeftIs
        <5> QED
          BY <3>3, <5>1, <5>2
      <4>2. MS!AtTheEnd(1) = <<<<>>, <<<<"num", MS!Counted(MS!n)>>>>, FALSE>>
        BY EndIs
      <4>3. \A i \in signing : MS!Valid(i)
        <5>1. \A i \in signing : i < k + 1
          BY <3>3
        <5> QED
          BY <3>1, <5>1
      <4>4. 1 \in 1..4 /\ p = U + 2 + 10 * N + 1
        BY <1>4, <2>2, <2>5, <3>3
      <4>5. RunsAt(N, U, p, MS!AtTheEnd(1))
        BY <4>3, <4>4 DEF RunsAt
      <4>6. Arrives(MS!AtTheEnd(1))
        BY <2>5, <3>3, <4>1, <4>2
      <4> QED
        BY <1>1, <2>2, <4>5, <4>6
    <3> QED
      BY <3>2, <3>3
  <2> QED
    BY <2>1, <2>3, <2>4, <2>5
<1>5. ASSUME NEW j \in 1..4, ip = U + 2 + 10 * N + j, state = MS!AtTheEnd(j),
             \A i \in signing : MS!Valid(i)
      PROVE  Goal
  <2>1. j \in 1..3
    <3>1. ip <= Len(MS!Script)
      BY DEF MS!Execute
    <3>2. Len(MS!Script) = U + 10 * N + 5
      BY ScriptIs
    <3> QED
      BY <1>5, <3>1, <3>2
  <2>2. Arrives(MS!AtTheEnd(j + 1))
    BY <1>5, <2>1, ClosingStep
  <2>3. PICK l \in 1..4 : l = j + 1
    BY <2>1
  <2>4. PICK p : p = ip + 1
    OBVIOUS
  <2>5. p = U + 2 + 10 * N + l
    BY <1>5, <2>3, <2>4
  <2>6. RunsAt(N, U, p, MS!AtTheEnd(l))
    BY <1>5, <2>5 DEF RunsAt
  <2> QED
    BY <1>1, <2>2, <2>3, <2>4, <2>6
<1>6. RunsAt(N, U, ip, state)
  OBVIOUS
<1> HIDE DEF state
<1>7. Goal
  BY <1>2, <1>3, <1>4, <1>5, <1>6 DEF RunsAt
<1> QED
  BY <1>7 DEF Goal

\* A flaw that the unlocking script was built with makes a contribution invalid.
LEMMA FlawShows ==
  ASSUME flaw \in [at : signing, what : MS!Flaws],
         flaw.what \notin {"no signature", "no public key"}
  PROVE  \E k \in signing : ~MS!Valid(k)
<1>1. PICK k \in signing, w \in MS!Flaws : flaw = [at |-> k, what |-> w]
  OBVIOUS
<1>2. flaw.what = w
  BY <1>1
<1>3. w = "other signature" \/ w = "other public key"
  BY <1>2 DEF MS!Flaws
<1>4. MS!Faulty(k, w)
  BY <1>1 DEF MS!Faulty
<1>5. ~MS!Valid(k)
  BY <1>3, <1>4 DEF MS!Valid
<1> QED
  BY <1>5

\* Without a flaw, and with the hash of the node, all are valid.
LEMMA FlawlessValid ==
  ASSUME flaw = MS!NoFlaw, vetted, NEW k
  PROVE  MS!Valid(k)
<1>1. flaw.what = "none"
  BY DEF MS!NoFlaw
<1>2. \A w : [at |-> k, what |-> w].what = w
  OBVIOUS
<1>3. \A w : MS!Faulty(k, w) => w = "none"
  BY <1>1, <1>2 DEF MS!Faulty
<1>4. "other public key" # "none" /\ "other signature" # "none"
  OBVIOUS
<1> QED
  BY <1>3, <1>4 DEF MS!Valid

\* Where the script ends, the number on the stack says whether enough have signed.
LEMMA NodeEnds ==
  ASSUME Row(public_keys), Row(unlocking), NEW N \in Nat, N = MS!n, NEW U \in Nat, U = Len(unlocking),
         signing \subseteq 1..N, threshold \in Nat, MS!Shifts(threshold)[4] < 256,
         RunsAt(N, U, ip, <<stack, alt, skipping>>), MS!Finish
  PROVE  /\ \A i \in signing : MS!Valid(i)
         /\ MS!TooFew(signing) => status' = "rejected"
         /\ ~MS!TooFew(signing) => status' = "unlocked" /\ stack = <<<<"num", 1>>>> /\ alt = <<>>
         /\ UNCHANGED <<public_keys, threshold, vetted, signing, flaw, key_idx, unlocking, number,
                        ip, stack, alt, skipping>>
<1> DEFINE state == <<stack, alt, skipping>>
           count == <<"num", MS!Counted(MS!n)>>
           m == <<"num", MS!ScriptNumber(MS!push_int(threshold))>>
           x == <<"num", IF count[2] >= m[2] THEN 1 ELSE 0>>
<1>1. ip > U + 10 * N + 5
  <2>1. ip > Len(MS!Script)
    BY DEF MS!Finish
  <2>2. Len(MS!Script) = U + 10 * N + 5
    BY ScriptIs
  <2> QED
    BY <2>1, <2>2
<1>2. state = MS!AtTheEnd(4) /\ \A i \in signing : MS!Valid(i)
  <2>1. RunsAt(N, U, ip, state)
    OBVIOUS
  <2> HIDE DEF state
  <2>2. ~(ip \in 1..U + 1) /\ ip # U + 2
    BY <1>1
  <2>3. \A k \in 1..N : \A j \in 1..10 : ip # U + 2 + 10 * (k - 1) + j
    BY <1>1
  <2>4. \A j \in 1..4 : ip = U + 2 + 10 * N + j => j = 4
    BY <1>1
  <2> QED
    BY <2>1, <2>2, <2>3, <2>4 DEF RunsAt
<1>3. MS!AtTheEnd(4) = <<<<x>>, <<>>, FALSE>>
  BY EndIs
<1>4. count[2] = Cardinality(signing) /\ m[2] = threshold
  <2>1. MS!Counted(N) = Cardinality(signing)
    BY Counting
  <2>2. MS!ScriptNumber(MS!push_int(threshold)) = threshold
    BY NumberRead
  <2> QED
    BY <2>1, <2>2
<1>5. MS!TooFew(signing) <=> Cardinality(signing) < threshold
  BY CardinalityIs DEF MS!TooFew
<1>6. Cardinality(signing) \in Nat
  <2>1. N \in 0..N
    OBVIOUS
  <2> QED
    BY <2>1, Counting
<1> HIDE DEF count, m
<1>7. (MS!TooFew(signing) => x = <<"num", 0>>) /\ (~MS!TooFew(signing) => x = <<"num", 1>>)
  <2>1. MS!TooFew(signing) <=> ~(count[2] >= m[2])
    BY <1>4, <1>5, <1>6
  <2> QED
    BY <2>1
<1> HIDE DEF x
<1>8. stack = <<x>> /\ alt = <<>>
  BY <1>2, <1>3
<1>9. MS!Top = x /\ stack # <<>>
  <2>1. Len(stack) = 1 /\ stack[1] = x /\ Len(<<>>) = 0
    BY <1>8
  <2> QED
    BY <2>1 DEF MS!Top, MS!Last
<1>10. <<"num", 0>> # <<"num", 1>>
  OBVIOUS
<1>11. /\ status' = IF stack # <<>> /\ MS!Top # <<"num", 0>> THEN "unlocked" ELSE "rejected"
       /\ UNCHANGED <<public_keys, threshold, vetted, signing, flaw, key_idx, unlocking, number,
                      ip, stack, alt, skipping>>
  BY DEF MS!Finish, MS!Stop, MS!output, MS!machine
<1>12. CASE MS!TooFew(signing)
  BY <1>2, <1>7, <1>9, <1>11, <1>12
<1>13. CASE ~MS!TooFew(signing)
  BY <1>2, <1>7, <1>8, <1>9, <1>10, <1>11, <1>13
<1> QED
  BY <1>12, <1>13

-----------------------------------------------------------------------------
(* Multisig: every step *)

\* An unlocking script that answers for the keys from k on, and only pushes.
AnswersIn(u, k) ==
  /\ Row(u) /\ Len(u) = MS!Pushed(k)
  /\ \A i \in k..MS!n :
       \A j \in 1..Len(MS!Contribution(i)) : u[MS!Pushed(i + 1) + j] = MS!Contribution(i)[j]
OnlyPushes(u) == \A i \in 1..Len(u) : u[i] = MS!Push(u[i].v)

LEMMA ContributionIs ==
  ASSUME NEW k
  PROVE  /\ Row(MS!Contribution(k)) /\ OnlyPushes(MS!Contribution(k))
         /\ Len(MS!Contribution(k)) = IF k \in signing THEN 3 ELSE 1
<1>1. CASE k \in signing
  <2> DEFINE a == MS!Push(MS!SigOf(k))
             b == MS!Push(MS!KeyOf(k))
             c == MS!Push(<<"num", 1>>)
             C == MS!Contribution(k)
  <2>1. C = <<a, b, c>>
    BY <1>1 DEF MS!Contribution
  <2>2. a = MS!Push(a.v) /\ b = MS!Push(b.v) /\ c = MS!Push(c.v)
    BY OpIs
  <2> HIDE DEF a, b, c, C
  <2>3. <<a, b, c>> \in Seq({a, b, c})
    OBVIOUS
  <2>4. Row(C)
    BY <2>1, <2>3, TypedRow
  <2>5. Len(C) = 3 /\ C[1] = a /\ C[2] = b /\ C[3] = c
    BY <2>1
  <2>6. \A i \in 1..3 : i = 1 \/ i = 2 \/ i = 3
    OBVIOUS
  <2>7. OnlyPushes(C)
    BY <2>2, <2>5, <2>6 DEF OnlyPushes
  <2> QED
    BY <1>1, <2>4, <2>5, <2>7 DEF C
<1>2. CASE k \notin signing
  <2> DEFINE a == MS!Push(<<"num", 0>>)
             C == MS!Contribution(k)
  <2>1. C = <<a>>
    BY <1>2 DEF MS!Contribution
  <2>2. a = MS!Push(a.v)
    BY OpIs
  <2> HIDE DEF a, C
  <2>3. <<a>> \in Seq({a})
    OBVIOUS
  <2>4. Row(C)
    BY <2>1, <2>3, TypedRow
  <2>5. Len(C) = 1 /\ C[1] = a
    BY <2>1
  <2>6. \A i \in 1..1 : i = 1
    OBVIOUS
  <2>7. OnlyPushes(C)
    BY <2>2, <2>5, <2>6 DEF OnlyPushes
  <2> QED
    BY <1>2, <2>4, <2>5, <2>7 DEF C
<1> QED
  BY <1>1, <1>2

\* build_unlocking_script, a key further.
LEMMA KeyAnswered ==
  ASSUME NEW N \in Nat, N = MS!n, signing \subseteq 1..N, NEW k \in 1..N, NEW u,
         AnswersIn(u, k + 1), OnlyPushes(u)
  PROVE  AnswersIn(u \o MS!Contribution(k), k) /\ OnlyPushes(u \o MS!Contribution(k))
<1> DEFINE C == MS!Contribution(k)
           w == u \o C
           P(i) == MS!Pushed(i)
           Con(i) == MS!Contribution(i)
<1>1. /\ Row(C) /\ OnlyPushes(C) /\ \A i : Len(Con(i)) = IF i \in signing THEN 3 ELSE 1
  BY ContributionIs
<1>2. /\ \A i \in 1..N + 1 : P(i) \in Nat
      /\ \A i \in 1..N : P(i) = P(i + 1) + IF i \in signing THEN 3 ELSE 1
      /\ \A l \in 1..N + 1 : \A i \in l..N + 1 : P(i) <= P(l)
  BY Counting
<1>3. /\ Row(u) /\ Len(u) = P(k + 1)
      /\ \A i \in k + 1..N : \A j \in 1..Len(Con(i)) : u[P(i + 1) + j] = Con(i)[j]
  BY DEF AnswersIn
<1>4. C = Con(k)
  OBVIOUS
<1>n. P(k + 1) \in Nat /\ Len(C) \in Nat
  <2>1. k + 1 \in 1..N + 1
    OBVIOUS
  <2> QED
    BY <1>1, <1>2, <2>1 DEF Row
<1> HIDE DEF C, P, Con
<1>5. /\ Row(w) /\ Len(w) = P(k + 1) + Len(C)
      /\ \A i \in 1..P(k + 1) : w[i] = u[i]
      /\ \A i \in 1..Len(C) : w[P(k + 1) + i] = C[i]
  BY <1>1, <1>3, Glued
<1> HIDE DEF w
<1>6. Len(w) = P(k)
  <2>1. P(k) = P(k + 1) + IF k \in signing THEN 3 ELSE 1
    BY <1>2
  <2>2. Len(C) = IF k \in signing THEN 3 ELSE 1
    BY <1>1, <1>4
  <2> QED
    BY <1>5, <2>1, <2>2
<1>7. ASSUME NEW i \in k..N, NEW j \in 1..Len(Con(i))
      PROVE  w[P(i + 1) + j] = Con(i)[j]
  <2>1. CASE i = k
    BY <1>4, <1>5, <2>1
  <2>2. CASE i # k
    <3>1. i \in k + 1..N /\ i \in 1..N /\ k + 1 \in 1..N + 1 /\ i \in k + 1..N + 1 /\ i + 1 \in 1..N + 1
      BY <2>2
    <3>2. P(i) <= P(k + 1) /\ P(i) = P(i + 1) + Len(Con(i))
      BY <1>1, <1>2, <3>1
    <3>3. P(i) \in Nat /\ P(i + 1) \in Nat /\ Len(Con(i)) \in Nat
      BY <1>1, <1>2, <3>1
    <3>4. P(i + 1) + j \in 1..P(k + 1)
      BY <1>n, <3>2, <3>3
    <3>5. w[P(i + 1) + j] = u[P(i + 1) + j]
      BY <1>5, <3>4
    <3> QED
      BY <1>3, <3>1, <3>5
  <2> QED
    BY <2>1, <2>2
<1>8. AnswersIn(w, k)
  BY <1>5, <1>6, <1>7 DEF AnswersIn, P, Con
<1>9. ASSUME NEW i \in 1..Len(w) PROVE w[i] = MS!Push(w[i].v)
  <2>1. CASE i <= P(k + 1)
    <3>1. i \in 1..P(k + 1)
      BY <1>n, <2>1
    <3> QED
      BY <1>3, <1>5, <3>1 DEF OnlyPushes
  <2>2. CASE ~(i <= P(k + 1))
    <3>1. PICK j \in 1..Len(C) : i = P(k + 1) + j
      <4>1. i - P(k + 1) \in 1..Len(C) /\ i = P(k + 1) + (i - P(k + 1))
        BY <1>n, <1>5, <2>2
      <4> QED
        BY <4>1
    <3> QED
      BY <1>1, <1>5, <3>1 DEF OnlyPushes
  <2> QED
    BY <2>1, <2>2
<1>10. OnlyPushes(w)
  BY <1>9 DEF OnlyPushes
<1> QED
  BY <1>8, <1>10 DEF w, C

\* What the invariant says of the two sequences, and what the constants add.
LEMMA MultisigIs ==
  ASSUME MS!TypeOK, MS!BuildInv
  PROVE  /\ Row(public_keys) /\ Row(unlocking) /\ OnlyPushes(unlocking)
         /\ MS!n \in Nat /\ Len(unlocking) \in Nat
         /\ \A k \in 1..MS!n : public_keys[k] # "nobody"
         /\ threshold \in 1..MS!n => threshold \in Nat /\ MS!Shifts(threshold)[4] < 256
<1>1. public_keys \in Seq(Keys) /\ MS!n <= MaxKeys
  BY DEF MS!TypeOK
<1>2. Row(public_keys)
  BY <1>1, TypedRow
<1>3. MS!n \in Nat /\ \A k \in 1..MS!n : public_keys[k] \in Keys
  BY <1>1 DEF MS!n
<1>4. Len(unlocking) \in Nat /\ unlocking = [i \in 1..Len(unlocking) |-> MS!Push(unlocking[i].v)]
  BY DEF MS!BuildInv
<1>5. \A i \in 1..Len(unlocking) : unlocking[i] = MS!Push(unlocking[i].v)
  BY <1>4
<1>6. unlocking = [i \in 1..Len(unlocking) |-> unlocking[i]]
  BY <1>4
<1>7. Row(unlocking)
  BY <1>4, <1>6 DEF Row
<1>8. ASSUME threshold \in 1..MS!n PROVE threshold \in Nat /\ MS!Shifts(threshold)[4] < 256
  <2>1. threshold \in 0..MaxKeys
    BY <1>1, <1>3, <1>8, MultisigAssumption DEF MultisigAssumption
  <2> QED
    BY <2>1, MultisigAssumption DEF MultisigAssumption
<1>9. "nobody" \notin Keys
  BY MultisigAssumption DEF MultisigAssumption
<1> QED
  BY <1>2, <1>3, <1>4, <1>5, <1>7, <1>8, <1>9 DEF OnlyPushes

\* The invariant, but for what it says of each status.
Shape ==
  /\ Len(unlocking) \in Nat /\ unlocking = [i \in 1..Len(unlocking) |-> MS!Push(unlocking[i].v)]
  /\ flaw = MS!NoFlaw \/ flaw \in [at : signing, what : MS!Flaws]
StatusOK == status \in MS!Ended \cup {"new", "output", "building", "running"}

LEMMA ScriptLength == Row(public_keys) /\ Row(unlocking) => Len(MS!Script) \in Nat
<1> SUFFICES ASSUME Row(public_keys), Row(unlocking) PROVE Len(MS!Script) \in Nat
  OBVIOUS
<1>1. PICK N, U : N = MS!n /\ U = Len(unlocking)
  OBVIOUS
<1>2. N \in Nat /\ U \in Nat
  BY <1>1 DEF Row, MS!n
<1>3. Len(MS!Script) = U + 10 * N + 5
  BY <1>1, <1>2, ScriptIs
<1> QED
  BY <1>2, <1>3

LEMMA ScriptLengthNext == (Row(public_keys) /\ Row(unlocking) => Len(MS!Script) \in Nat)'
  BY ScriptLength, PTL

LEMMA SameText ==
  ASSUME UNCHANGED <<public_keys, threshold, vetted, unlocking>>
  PROVE  MS!n' = MS!n /\ MS!Script' = MS!Script
BY DEF MS!n, MS!Script, MS!to_script_bytes, MS!Closing, MS!Opening, MS!KeyBlock, MS!hash160

\* A step that only changes what is going on.
LEMMA ShapeKept ==
  ASSUME MS!IInv, Same, UNCHANGED <<ip, stack, alt, skipping>>, StatusOK'
  PROVE  MS!TypeOK' /\ Shape'
<1>1. /\ public_keys' = public_keys /\ threshold' = threshold /\ vetted' = vetted
      /\ signing' = signing /\ flaw' = flaw /\ key_idx' = key_idx /\ unlocking' = unlocking
      /\ number' = number /\ ip' = ip
  BY DEF Same
<1>2. MS!n' = MS!n /\ MS!Script' = MS!Script
  BY <1>1, SameText
<1>3. MS!TypeOK /\ Shape
  BY DEF MS!IInv, MS!BuildInv, Shape
<1>4. MS!TypeOK'
  BY <1>1, <1>2, <1>3 DEF MS!TypeOK, StatusOK
<1>5. Shape'
  BY <1>1, <1>3 DEF Shape
<1> QED
  BY <1>4, <1>5

LEMMA StopIs ==
  ASSUME NEW how, MS!Stop(how)
  PROVE  status' = how /\ Same /\ UNCHANGED <<ip, stack, alt, skipping>>
BY DEF MS!Stop, MS!output, MS!machine, Same

\* What ends without a node having run.
Refusals == {"NoPublicKeys", "InvalidThreshold", "InsufficientSignatures", "MissingSignature",
             "MissingPublicKey", "CannotSign"}
LEMMA RefusalKeeps ==
  ASSUME MS!TypeOK', Shape', status' \in Refusals
  PROVE  MS!IInv'
<1>1. /\ status' \notin {"new", "output"} /\ status' \notin {"new", "output", "building"}
      /\ status' \notin {"output", "building", "running"}
      /\ status' # "building" /\ status' # "running"
      /\ status' \notin {"rejected", "unlocked"} /\ status' # "unlocked"
  BY DEF Refusals
<1>2. MS!BuildInv'
  BY <1>1 DEF MS!BuildInv, Shape
<1>3. MS!ThresholdUnlocks' /\ MS!NothingLess'
  BY <1>1 DEF MS!ThresholdUnlocks, MS!NothingLess
<1> QED
  BY <1>2, <1>3 DEF MS!IInv

LEMMA Refused ==
  ASSUME MS!IInv, NEW how \in Refusals, MS!Stop(how)
  PROVE  MS!IInv'
<1>1. status' = how /\ Same /\ UNCHANGED <<ip, stack, alt, skipping>>
  BY StopIs
<1>2. StatusOK'
  BY <1>1 DEF StatusOK, Refusals, MS!Ended
<1>3. MS!TypeOK' /\ Shape'
  BY <1>1, <1>2, ShapeKept
<1> QED
  BY <1>1, <1>3, RefusalKeeps

\* AccumulatorMultiSigOutput::new accepts a threshold of the keys there are.
LEMMA OutputMade ==
  ASSUME MS!IInv, MS!New
  PROVE  MS!IInv'
<1>1. \/ MS!Stop("NoPublicKeys") \/ MS!Stop("InvalidThreshold")
      \/ ~(MS!n > 0 /\ threshold \notin 1..MS!n) /\ MS!n # 0 /\ MS!Stop("output")
  BY Zenon DEF MS!New
<1>2. CASE MS!Stop("NoPublicKeys") \/ MS!Stop("InvalidThreshold")
  BY <1>2, Refused DEF Refusals
<1>3. CASE ~(MS!n > 0 /\ threshold \notin 1..MS!n) /\ MS!n # 0 /\ MS!Stop("output")
  <2>1. status' = "output" /\ Same /\ UNCHANGED <<ip, stack, alt, skipping>>
    BY <1>3, StopIs
  <2>2. MS!TypeOK' /\ Shape'
    BY <2>1, ShapeKept DEF StatusOK
  <2>3. MS!n \in Nat
    BY MultisigIs DEF MS!IInv
  <2>4. threshold \in 1..MS!n
    BY <1>3, <2>3
  <2>5. MS!n' = MS!n /\ threshold' = threshold /\ unlocking' = unlocking /\ signing' = signing /\ flaw' = flaw
    BY <2>1, SameText DEF Same
  <2>6. status = "new"
    BY DEF MS!New
  <2>7. /\ unlocking = <<>> /\ signing = {} /\ flaw = MS!NoFlaw
        /\ ip = 1 /\ stack = <<>> /\ alt = <<>> /\ skipping = FALSE
    BY <2>6 DEF MS!IInv, MS!BuildInv
  <2>8. MS!BuildInv'
    BY <2>1, <2>2, <2>4, <2>5, <2>7 DEF MS!BuildInv, Shape
  <2>9. MS!ThresholdUnlocks' /\ MS!NothingLess'
    BY <2>1 DEF MS!ThresholdUnlocks, MS!NothingLess
  <2> QED
    BY <2>2, <2>8, <2>9 DEF MS!IInv
<1> QED
  BY <1>1, <1>2, <1>3

\* build_unlocking_script begins with no script, and answers for no key.
LEMMA Begun ==
  ASSUME MS!IInv, status = "output", NEW S, S \subseteq 1..MS!n,
         NEW w, w = MS!NoFlaw \/ w \in [at : S, what : MS!Flaws], NEW refused \in BOOLEAN,
         MS!Begin(S, w, refused)
  PROVE  MS!IInv'
<1>1. /\ signing' = S /\ flaw' = w /\ public_keys' = public_keys /\ threshold' = threshold
      /\ vetted' = vetted /\ unlocking' = unlocking /\ ip' = ip /\ stack' = stack
      /\ alt' = alt /\ skipping' = skipping /\ number' = number
      /\ \/ status' = "InsufficientSignatures" /\ key_idx' = key_idx
         \/ status' = "building" /\ key_idx' = MS!n
  BY DEF MS!Begin, MS!output, MS!machine, MS!FirstKey
<1>2. MS!n' = MS!n /\ MS!Script' = MS!Script
  BY <1>1, SameText
<1>3. /\ MS!n \in Nat /\ MS!TypeOK /\ unlocking = <<>> /\ threshold \in 1..MS!n
      /\ ip = 1 /\ stack = <<>> /\ alt = <<>> /\ skipping = FALSE /\ Shape
  BY MultisigIs DEF MS!IInv, MS!BuildInv, Shape
<1>4. MS!TypeOK'
  <2>1. key_idx' \in 0..MS!n
    BY <1>1, <1>3 DEF MS!TypeOK
  <2>2. status' \in MS!Ended \cup {"new", "output", "building", "running"}
    BY <1>1 DEF MS!Ended
  <2> QED
    BY <1>1, <1>2, <1>3, <2>1, <2>2 DEF MS!TypeOK
<1>5. Shape'
  BY <1>1, <1>3 DEF Shape
<1>6. CASE status' = "InsufficientSignatures"
  BY <1>4, <1>5, <1>6, RefusalKeeps DEF Refusals
<1>7. CASE status' = "building" /\ key_idx' = MS!n
  <2> DEFINE N == MS!n
  <2>1. {i \in S : i >= N + 1} = {}
    <3>1. \A i \in 1..N : ~(i >= N + 1)
      BY <1>3
    <3> QED
      BY <3>1
  <2>2. MS!Pushed(key_idx + 1)' = N + 1 - (N + 1) + 2 * MS!Cardinality({i \in S : i >= N + 1})
    BY <1>1, <1>2, <1>7 DEF MS!Pushed
  <2>3. MS!Cardinality({i \in S : i >= N + 1}) = 0
    BY <2>1, CardinalityIs, FS_EmptySet
  <2>4. MS!Pushed(key_idx + 1)' = 0
    BY <1>3, <2>2, <2>3
  <2>5. Len(unlocking') = 0
    BY <1>1, <1>3
  <2>6. key_idx' + 1..MS!n' = {} /\ \A i \in S : ~(i > N)
    BY <1>2, <1>3, <1>7
  <2>7. MS!AnswersFrom(key_idx + 1)'
    BY <2>4, <2>5, <2>6 DEF MS!AnswersFrom
  <2>8. \A i \in signing' : ~(i > key_idx')
    BY <1>1, <1>7, <2>6
  <2>9. MS!BuildInv'
    BY <1>1, <1>2, <1>3, <1>5, <1>7, <2>7, <2>8 DEF MS!BuildInv, Shape
  <2>10. MS!ThresholdUnlocks' /\ MS!NothingLess'
    BY <1>7 DEF MS!ThresholdUnlocks, MS!NothingLess
  <2> QED
    BY <1>4, <2>9, <2>10 DEF MS!IInv
<1> QED
  BY <1>1, <1>6, <1>7

\* build_unlocking_script has answered for one key more.
LEMMA KeyBuilt ==
  ASSUME MS!IInv, MS!BuildKey
  PROVE  MS!IInv'
<1> DEFINE k == key_idx
           u == unlocking \o MS!Contribution(k)
<1>1. /\ status = "building" /\ k \in 1..MS!n
      /\ \/ MS!Stop("MissingSignature") \/ MS!Stop("MissingPublicKey")
         \/ /\ ~MS!Faulty(k, "no signature") /\ ~MS!Faulty(k, "no public key")
            /\ unlocking' = u /\ key_idx' = k - 1
            /\ UNCHANGED <<public_keys, threshold, vetted, signing, flaw, ip, stack, alt, skipping,
                           status, number>>
  BY Zenon DEF MS!BuildKey, MS!output, MS!machine, MS!NextKey
<1>2. CASE MS!Stop("MissingSignature") \/ MS!Stop("MissingPublicKey")
  BY <1>2, Refused DEF Refusals
<1>3. CASE /\ ~MS!Faulty(k, "no signature") /\ ~MS!Faulty(k, "no public key")
           /\ unlocking' = u /\ key_idx' = k - 1
           /\ UNCHANGED <<public_keys, threshold, vetted, signing, flaw, ip, stack, alt, skipping,
                          status, number>>
  <2>1. /\ MS!TypeOK /\ Row(public_keys) /\ Row(unlocking) /\ OnlyPushes(unlocking) /\ MS!n \in Nat
        /\ signing \subseteq 1..MS!n
    BY MultisigIs DEF MS!IInv, MS!TypeOK
  <2>2. /\ MS!AnswersFrom(k + 1) /\ threshold \in 1..MS!n
        /\ \A i \in signing : i > k => ~MS!Faulty(i, "no signature") /\ ~MS!Faulty(i, "no public key")
        /\ ip = 1 /\ stack = <<>> /\ alt = <<>> /\ skipping = FALSE /\ Shape
    BY <1>1 DEF MS!IInv, MS!BuildInv, Shape
  <2>3. AnswersIn(unlocking, k + 1)
    BY <2>1, <2>2 DEF AnswersIn, MS!AnswersFrom
  <2>4. AnswersIn(u, k) /\ OnlyPushes(u)
    BY <1>1, <2>1, <2>3, KeyAnswered
  <2> HIDE DEF u
  <2>5. /\ MS!n' = MS!n /\ \A i : MS!Pushed(i)' = MS!Pushed(i)
        /\ \A i : MS!Contribution(i)' = MS!Contribution(i)
        /\ \A i, x : MS!Faulty(i, x)' <=> MS!Faulty(i, x)
    BY <1>3 DEF MS!n, MS!Pushed, MS!Contribution, MS!SigOf, MS!KeyOf, MS!Faulty
  <2>6. key_idx' + 1 = k /\ key_idx' \in 0..MS!n
    <3>1. PICK N \in Nat : N = MS!n
      BY <2>1
    <3>2. PICK l \in 1..N : l = k
      BY <1>1, <3>1
    <3>3. l - 1 + 1 = l /\ l - 1 \in 0..N
      BY ONLY N \in Nat, l \in 1..N
    <3> QED
      BY <1>3, <3>1, <3>2, <3>3
  <2>7. MS!AnswersFrom(key_idx + 1)'
    BY <1>3, <2>4, <2>5, <2>6 DEF MS!AnswersFrom, AnswersIn
  <2>8. Shape'
    <3>1. Len(unlocking') \in Nat
      BY <1>3, <2>4 DEF AnswersIn, Row
    <3>2. unlocking' = [i \in 1..Len(unlocking') |-> MS!Push(unlocking'[i].v)]
      BY <1>3, <2>4 DEF AnswersIn, Row, OnlyPushes
    <3> QED
      BY <1>3, <2>2, <3>1, <3>2 DEF Shape
  <2>9. MS!TypeOK'
    <3>1. Row(public_keys)' /\ Row(unlocking)'
      BY <1>3, <2>1, <2>4 DEF AnswersIn, Row
    <3>2. Len(MS!Script)' \in Nat
      BY <3>1, ScriptLengthNext
    <3>3. ip' \in 1..Len(MS!Script)' + 1
      <4>1. PICK c \in Nat : c = Len(MS!Script)'
        BY <3>2
      <4>2. 1 \in 1..c + 1
        BY ONLY c \in Nat
      <4> QED
        BY <1>3, <2>2, <4>1, <4>2
    <3> QED
      BY <1>3, <2>1, <2>5, <2>6, <3>3 DEF MS!TypeOK
  <2>10. ASSUME NEW i \in signing', i > key_idx'
         PROVE  ~MS!Faulty(i, "no signature")' /\ ~MS!Faulty(i, "no public key")'
    <3>1. i \in 1..MS!n /\ i \in signing
      BY <1>3, <2>1, <2>10
    <3>2. i > k \/ i = k
      <4>1. PICK N \in Nat : N = MS!n
        BY <2>1
      <4>2. PICK l \in 1..N : l = k
        BY <1>1, <4>1
      <4>3. i \in 1..N /\ i > l - 1
        BY <1>3, <2>10, <3>1, <4>1, <4>2
      <4>4. i > l \/ i = l
        BY ONLY N \in Nat, l \in 1..N, <4>3
      <4> QED
        BY <4>2, <4>4
    <3> QED
      BY <1>3, <2>2, <2>5, <3>1, <3>2
  <2>11. MS!BuildInv'
    BY <1>1, <1>3, <2>2, <2>5, <2>7, <2>8, <2>10 DEF MS!BuildInv, Shape
  <2>12. MS!ThresholdUnlocks' /\ MS!NothingLess'
    BY <1>1, <1>3 DEF MS!ThresholdUnlocks, MS!NothingLess
  <2> QED
    BY <2>9, <2>11, <2>12 DEF MS!IInv
<1> QED
  BY <1>1, <1>2, <1>3

\* A flaw that the unlocking script was built with is not a piece that is missing.
LEMMA ScriptReady ==
  ASSUME MS!IInv, MS!Built
  PROVE  MS!IInv'
<1>1. status = "building" /\ key_idx \notin 1..MS!n /\ MS!Stop("running")
  BY DEF MS!Built
<1>2. status' = "running" /\ Same /\ UNCHANGED <<ip, stack, alt, skipping>>
  BY <1>1, StopIs
<1>3. MS!TypeOK' /\ Shape'
  BY <1>2, ShapeKept DEF StatusOK
<1>4. MS!n \in Nat /\ key_idx \in 0..MS!n /\ Len(unlocking) \in Nat /\ signing \subseteq 1..MS!n
  BY MultisigIs DEF MS!IInv, MS!TypeOK
<1>5. key_idx = 0 /\ key_idx + 1 = 1 /\ \A i \in signing : i > key_idx
  BY <1>1, <1>4
<1>6. /\ MS!AnswersFrom(1) /\ threshold \in 1..MS!n /\ Shape
      /\ \A i \in signing : ~MS!Faulty(i, "no signature") /\ ~MS!Faulty(i, "no public key")
      /\ ip = 1 /\ stack = <<>> /\ alt = <<>> /\ skipping = FALSE
  BY <1>1, <1>5 DEF MS!IInv, MS!BuildInv, Shape
<1>7. flaw.what \notin {"no signature", "no public key"}
  <2>1. CASE flaw = MS!NoFlaw
    BY <2>1 DEF MS!NoFlaw
  <2>2. CASE flaw \in [at : signing, what : MS!Flaws]
    <3>1. PICK i \in signing, w \in MS!Flaws : flaw = [at |-> i, what |-> w]
      BY <2>2
    <3>2. flaw.what = w /\ MS!Faulty(i, w)
      BY <3>1 DEF MS!Faulty
    <3> QED
      BY <1>6, <3>1, <3>2
  <2> QED
    BY <1>6, <2>1, <2>2 DEF Shape
<1>8. MS!RunInv'
  <2>1. ip' = 1 /\ <<stack', alt', skipping'>> = <<<<>>, <<>>, FALSE>>
    BY <1>2, <1>6
  <2>2. MS!Left(0) = <<>>
    BY LeftIs
  <2>3. PICK U \in Nat : U = Len(unlocking)
    BY <1>4
  <2>4. 1 \in 1..U + 1 /\ 1 - 1 = 0
    OBVIOUS
  <2>5. RunsAt(MS!n, U, 1, <<<<>>, <<>>, FALSE>>)
    BY <2>2, <2>4 DEF RunsAt
  <2>6. RunsAt(MS!n, U, ip', <<stack', alt', skipping'>>)
    BY <2>1, <2>5
  <2>7. UNCHANGED <<public_keys, threshold, vetted, signing, flaw, unlocking>>
    BY <1>2 DEF Same
  <2> QED
    BY <1>4, <2>3, <2>6, <2>7, RunsOn
<1>9. MS!AnswersFrom(1)' /\ MS!n' = MS!n /\ flaw' = flaw /\ threshold' = threshold
  BY <1>2, <1>6, SameScript DEF Same
<1>10. MS!BuildInv'
  BY <1>2, <1>3, <1>6, <1>7, <1>8, <1>9 DEF MS!BuildInv, Shape
<1>11. MS!ThresholdUnlocks' /\ MS!NothingLess'
  BY <1>2 DEF MS!ThresholdUnlocks, MS!NothingLess
<1> QED
  BY <1>3, <1>10, <1>11 DEF MS!IInv

\* The node goes on, or rejects what was not good.
LEMMA NodeSteps ==
  ASSUME MS!IInv, MS!Execute
  PROVE  MS!IInv'
<1>1. status = "running" /\ ip <= Len(MS!Script)
  BY DEF MS!Execute
<1>2. PICK N \in Nat, U \in Nat : N = MS!n /\ U = Len(unlocking)
  BY MultisigIs DEF MS!IInv
<1>3. /\ MS!TypeOK /\ Row(public_keys) /\ Row(unlocking) /\ OnlyPushes(unlocking)
      /\ signing \subseteq 1..N /\ \A k \in 1..N : public_keys[k] # "nobody"
  BY <1>2, MultisigIs DEF MS!IInv, MS!TypeOK
<1>4. /\ MS!AnswersFrom(1) /\ threshold \in 1..N /\ Shape /\ MS!RunInv
      /\ flaw.what \notin {"no signature", "no public key"}
  BY <1>1, <1>2 DEF MS!IInv, MS!BuildInv, Shape
<1>5. N > 0
  <2>1. PICK m \in 1..N : m = threshold
    BY <1>4
  <2> QED
    BY ONLY N \in Nat, m \in 1..N
<1>6. RunsAt(N, U, ip, <<stack, alt, skipping>>)
  BY <1>2, <1>4, Running
<1>7. unlocking = [i \in 1..U |-> MS!Push(unlocking[i].v)]
  BY <1>2, <1>4 DEF Shape
<1>8. \/ Rejects /\ \E k \in signing : ~MS!Valid(k)
      \/ status' = "running" /\ Same /\ RunsAt(N, U, ip', <<stack', alt', skipping'>>)
  BY <1>2, <1>3, <1>4, <1>5, <1>6, <1>7, NodeRuns
<1>9. CASE Rejects /\ \E k \in signing : ~MS!Valid(k)
  <2>1. status' = "rejected" /\ Same /\ UNCHANGED <<ip, stack, alt, skipping>>
    BY <1>9 DEF Rejects
  <2>2. MS!TypeOK' /\ Shape'
    BY <2>1, ShapeKept DEF StatusOK, MS!Ended
  <2>3. MS!BuildInv'
    BY <2>1, <2>2 DEF MS!BuildInv, Shape
  <2>4. ~(flaw' = MS!NoFlaw /\ vetted')
    BY <1>9, <2>1, FlawlessValid DEF Same
  <2>5. MS!ThresholdUnlocks' /\ MS!NothingLess'
    BY <2>1, <2>4 DEF MS!ThresholdUnlocks, MS!NothingLess
  <2> QED
    BY <2>2, <2>3, <2>5 DEF MS!IInv
<1>10. CASE status' = "running" /\ Same /\ RunsAt(N, U, ip', <<stack', alt', skipping'>>)
  <2>1. /\ public_keys' = public_keys /\ threshold' = threshold /\ vetted' = vetted
        /\ signing' = signing /\ flaw' = flaw /\ key_idx' = key_idx /\ unlocking' = unlocking
        /\ number' = number
    BY <1>10 DEF Same
  <2>2. MS!n' = MS!n /\ MS!Script' = MS!Script /\ MS!AnswersFrom(1)'
    BY <1>4, <2>1, SameScript
  <2>3. MS!RunInv'
    BY <1>2, <1>10, <2>1, RunsOn
  <2>4. ip' = ip + 1
    <3>1. MS!Stop("rejected") \/ ip' = ip + 1
      BY DEF MS!Execute
    <3>2. ~MS!Stop("rejected")
      BY <1>10, StopIs
    <3> QED
      BY <3>1, <3>2
  <2>5. ip' \in 1..Len(MS!Script)' + 1
    <3>1. PICK c \in Nat : c = Len(MS!Script)
      BY <1>3, ScriptLength
    <3>2. PICK p \in 1..c + 1 : p = ip
      BY <1>3, <3>1 DEF MS!TypeOK
    <3>3. p <= c
      BY <1>1, <3>1, <3>2
    <3>4. p + 1 \in 1..c + 1
      BY ONLY c \in Nat, p \in 1..c + 1, <3>3
    <3> QED
      BY <2>2, <2>4, <3>1, <3>2, <3>4
  <2>6. MS!TypeOK'
    BY <1>3, <1>10, <2>1, <2>2, <2>5 DEF MS!TypeOK
  <2>7. MS!BuildInv'
    BY <1>2, <1>4, <1>10, <2>1, <2>2, <2>3 DEF MS!BuildInv, Shape
  <2>8. MS!ThresholdUnlocks' /\ MS!NothingLess'
    BY <1>10 DEF MS!ThresholdUnlocks, MS!NothingLess
  <2> QED
    BY <2>6, <2>7, <2>8 DEF MS!IInv
<1> QED
  BY <1>8, <1>9, <1>10

\* The node looks at what is on the stack at the end of the script.
LEMMA NodeDone ==
  ASSUME MS!IInv, MS!Finish
  PROVE  MS!IInv'
<1>1. status = "running"
  BY DEF MS!Finish
<1>2. PICK N \in Nat, U \in Nat : N = MS!n /\ U = Len(unlocking)
  BY MultisigIs DEF MS!IInv
<1>3. /\ MS!TypeOK /\ Row(public_keys) /\ Row(unlocking) /\ signing \subseteq 1..N
  BY <1>2, MultisigIs DEF MS!IInv, MS!TypeOK
<1>4. /\ threshold \in 1..N /\ Shape /\ MS!RunInv
      /\ flaw.what \notin {"no signature", "no public key"}
  BY <1>1, <1>2 DEF MS!IInv, MS!BuildInv, Shape
<1>5. threshold \in Nat /\ MS!Shifts(threshold)[4] < 256
  BY <1>2, <1>4, MultisigIs DEF MS!IInv
<1>6. RunsAt(N, U, ip, <<stack, alt, skipping>>)
  BY <1>2, <1>4, Running
<1>7. /\ \A i \in signing : MS!Valid(i)
      /\ MS!TooFew(signing) => status' = "rejected"
      /\ ~MS!TooFew(signing) => status' = "unlocked" /\ stack = <<<<"num", 1>>>> /\ alt = <<>>
      /\ UNCHANGED <<public_keys, threshold, vetted, signing, flaw, key_idx, unlocking, number,
                     ip, stack, alt, skipping>>
  BY <1>2, <1>3, <1>5, <1>6, NodeEnds
<1>8. flaw = MS!NoFlaw
  BY <1>4, <1>7, FlawShows DEF Shape
<1>9. status' \in {"rejected", "unlocked"}
  BY <1>7
<1>10. MS!TypeOK' /\ Shape'
  <2>1. Same /\ StatusOK'
    BY <1>7, <1>9 DEF Same, StatusOK, MS!Ended
  <2> QED
    BY <1>7, <2>1, ShapeKept
<1>11. MS!BuildInv'
  BY <1>9, <1>10 DEF MS!BuildInv, Shape
<1>12. MS!TooFew(signing)' <=> MS!TooFew(signing)
  BY <1>7 DEF MS!TooFew
<1>13. MS!ThresholdUnlocks' /\ MS!NothingLess'
  BY <1>7, <1>8, <1>9, <1>12 DEF MS!ThresholdUnlocks, MS!NothingLess
<1> QED
  BY <1>10, <1>11, <1>13 DEF MS!IInv

LEMMA MultisigInit == ASSUME MS!Init PROVE MS!IInv
<1>1. /\ \E c \in 0..MaxKeys : public_keys \in [1..c -> Keys]
      /\ threshold \in 0..MaxKeys + 1 /\ vetted \in Vetted
      /\ signing = {} /\ flaw = MS!NoFlaw /\ key_idx = 0 /\ unlocking = <<>>
      /\ ip = 1 /\ stack = <<>> /\ alt = <<>> /\ skipping = FALSE /\ status = "new"
      /\ number \in Numbers \cup {1}
  BY DEF MS!Init
<1>2. PICK c \in 0..MaxKeys : public_keys \in [1..c -> Keys]
  BY <1>1
<1>3. MaxKeys \in Nat /\ vetted \in BOOLEAN
  BY <1>1, MultisigAssumption DEF MultisigAssumption
<1>4. public_keys \in Seq(Keys) /\ Len(public_keys) = c
  BY <1>2, <1>3
<1>5. MS!n \in Nat /\ MS!n <= MaxKeys /\ Row(public_keys)
  <2>1. c \in Nat /\ c <= MaxKeys
    BY <1>3
  <2> QED
    BY <1>4, <2>1, TypedRow DEF MS!n
<1>6. Len(unlocking) = 0 /\ unlocking = [i \in 1..0 |-> unlocking[i]]
      /\ unlocking = [i \in 1..0 |-> MS!Push(unlocking[i].v)]
  <2>1. 1..0 = {} /\ <<>> = [i \in {} |-> <<>>[i]] /\ <<>> = [i \in {} |-> MS!Push(<<>>[i].v)]
    OBVIOUS
  <2> QED
    BY <1>1, <2>1
<1>7. Shape /\ Row(unlocking)
  BY <1>1, <1>6 DEF Shape, Row
<1>8. ip \in 1..Len(MS!Script) + 1
  <2>1. PICK l \in Nat : l = Len(MS!Script)
    BY <1>5, <1>7, ScriptLength
  <2>2. 1 \in 1..l + 1
    BY ONLY l \in Nat
  <2> QED
    BY <1>1, <2>1, <2>2
<1>9. MS!TypeOK
  <2>1. key_idx \in 0..MS!n
    BY <1>1, <1>5
  <2> QED
    BY <1>1, <1>3, <1>4, <1>5, <1>8, <2>1 DEF MS!TypeOK
<1>10. MS!BuildInv
  BY <1>1, <1>7 DEF MS!BuildInv, Shape
<1>11. MS!ThresholdUnlocks /\ MS!NothingLess
  BY <1>1 DEF MS!ThresholdUnlocks, MS!NothingLess
<1> QED
  BY <1>9, <1>10, <1>11 DEF MS!IInv

MultisigInv == part = "multisig" => MS!IInv

\* build_unlocking_script, to_script_bytes: at each place what any contributions
\* have built, and a node has made of it, is known from the keys that signed.
THEOREM MultisigInvariant == Spec => []MultisigInv
<1>1. Init => MultisigInv
  BY MultisigInit DEF Init, MultisigInv, MS!Init
<1>2. MultisigInv /\ [Next]_vars => MultisigInv'
  <2> SUFFICES ASSUME part = "multisig", MS!IInv, [Next]_vars, part' = "multisig"
               PROVE  MS!IInv'
    BY DEF MultisigInv, Next, vars
  <2>1. CASE MS!Next
    <3>1. CASE MS!New
      BY <3>1, OutputMade
    <3>2. CASE MS!Assemble
      <4>0. PICK S \in SUBSET (1..MS!n) :
              \E w \in {MS!NoFlaw} \cup [at : S, what : MS!Flaws] : MS!Begin(S, w, MS!TooFew(S))
        BY <3>2 DEF MS!Assemble
      <4>1. PICK w \in {MS!NoFlaw} \cup [at : S, what : MS!Flaws] : MS!Begin(S, w, MS!TooFew(S))
        BY <4>0
      <4>2. status = "output" /\ MS!TooFew(S) \in BOOLEAN
        BY <3>2 DEF MS!Assemble, MS!TooFew
      <4> QED
        BY <4>1, <4>2, Begun
    <3>3. CASE MS!AssembleElsewhere
      <4>0. PICK S \in SUBSET (1..MS!n) :
              \E w \in {MS!NoFlaw} \cup [at : S, what : {"other signature"}] : MS!Begin(S, w, FALSE)
        BY <3>3 DEF MS!AssembleElsewhere
      <4>1. PICK w \in {MS!NoFlaw} \cup [at : S, what : {"other signature"}] : MS!Begin(S, w, FALSE)
        BY <4>0
      <4>2. w = MS!NoFlaw \/ w \in [at : S, what : MS!Flaws]
        BY DEF MS!Flaws
      <4>3. status = "output"
        BY <3>3 DEF MS!AssembleElsewhere
      <4> QED
        BY <4>1, <4>2, <4>3, Begun
    <3>4. CASE MS!SignLocally
      <4>1. PICK i \in 0..MS!n :
              \/ i < MS!n /\ MS!Begin({i + 1}, MS!NoFlaw, MS!TooFew({i + 1}))
              \/ MS!Stop("CannotSign")
        BY <3>4 DEF MS!SignLocally
      <4>2. status = "output" /\ MS!TooFew({i + 1}) \in BOOLEAN
        BY <3>4 DEF MS!SignLocally, MS!TooFew
      <4>3. CASE i < MS!n /\ MS!Begin({i + 1}, MS!NoFlaw, MS!TooFew({i + 1}))
        <5>1. MS!n \in Nat
          BY MultisigIs DEF MS!IInv
        <5>2. {i + 1} \subseteq 1..MS!n
          BY <4>3, <5>1
        <5> QED
          BY <4>2, <4>3, <5>2, Begun
      <4>4. CASE MS!Stop("CannotSign")
        BY <4>4, Refused DEF Refusals
      <4> QED
        BY <4>1, <4>3, <4>4
    <3>5. CASE MS!BuildKey
      BY <3>5, KeyBuilt
    <3>6. CASE MS!Built
      BY <3>6, ScriptReady
    <3>7. CASE MS!Execute
      BY <3>7, NodeSteps
    <3>8. CASE MS!Finish
      BY <3>8, NodeDone
    <3> QED
      BY <2>1, <3>1, <3>2, <3>3, <3>4, <3>5, <3>6, <3>7, <3>8 DEF MS!Next
  <2>2. CASE UNCHANGED vars
    <3>1. Same /\ UNCHANGED <<ip, stack, alt, skipping>> /\ status' = status
      BY <2>2 DEF vars, multisig, Same
    <3>2. /\ MS!TypeOK /\ MS!BuildInv /\ MS!ThresholdUnlocks /\ MS!NothingLess
          /\ Row(public_keys) /\ Row(unlocking)
      BY MultisigIs DEF MS!IInv
    <3>3. MS!TypeOK' /\ Shape'
      BY <3>1, <3>2, ShapeKept DEF StatusOK, MS!TypeOK
    <3>4. MS!n' = MS!n /\ \A k : MS!AnswersFrom(k)' <=> MS!AnswersFrom(k)
      BY <3>1, SameScript DEF Same
    <3>5. MS!AnswersFrom(key_idx + 1)' <=> MS!AnswersFrom(key_idx + 1)
      BY <3>1 DEF Same, MS!AnswersFrom, MS!Contribution, MS!SigOf, MS!KeyOf, MS!Faulty, MS!Pushed, MS!n
    <3>6. MS!RunInv' <=> MS!RunInv
      BY <3>1 DEF Same, MS!RunInv, MS!DuringKey, MS!Checked, MS!AtTheEnd, MS!Left, MS!Pushed,
                  MS!Counted, MS!SigOf, MS!KeyOf, MS!Faulty, MS!n, MS!hash160, MS!Valid
    <3>7. \A i, x : MS!Faulty(i, x)' <=> MS!Faulty(i, x)
      BY <3>1 DEF Same, MS!Faulty
    <3>8. MS!BuildInv'
      BY <3>1, <3>2, <3>3, <3>4, <3>5, <3>6, <3>7 DEF MS!BuildInv, Shape, Same
    <3>9. MS!ThresholdUnlocks' /\ MS!NothingLess'
      BY <3>1, <3>2 DEF MS!ThresholdUnlocks, MS!NothingLess, MS!TooFew, Same
    <3> QED
      BY <3>3, <3>8, <3>9 DEF MS!IInv
  <2> QED
    BY <2>1, <2>2 DEF Next
<1> QED
  BY <1>1, <1>2, PTL DEF Spec

\* to_script_bytes, build_unlocking_script: for every m and n, whichever keys have
\* signed, m good contributions spend the output and leave nothing else behind,
\* fewer or faulty ones do not; a node reads the numbers and lengths encoded.
THEOREM MultisigIsSound == Spec => []MultisigSound
<1>1. MultisigInv => MultisigSound
  <2> SUFFICES ASSUME part = "multisig", MS!IInv
               PROVE  /\ MS!TypeOK /\ MS!ThresholdUnlocks /\ MS!NothingLess
                      /\ status = "new" => MS!EncodingsRead
    BY DEF MultisigInv, MultisigSound
  <2>1. number \in Nat /\ MS!Shifts(number)[4] < 256
    <3>1. number \in Numbers \cup {1}
      BY DEF MS!IInv, MS!TypeOK
    <3>2. 1 \in 0..MaxKeys
      BY MultisigAssumption DEF MultisigAssumption
    <3> QED
      BY <3>1, <3>2, MultisigAssumption DEF MultisigAssumption
  <2>2. MS!EncodingsRead
    BY <2>1, NumberRead, LengthRead DEF MS!EncodingsRead
  <2> QED
    BY <2>2 DEF MS!IInv
<1> QED
  BY <1>1, MultisigInvariant, PTL
=============================================================================
