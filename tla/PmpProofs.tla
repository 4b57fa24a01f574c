----------------------------- MODULE PmpProofs -----------------------------
(***************************************************************************)
(* Proofs about Pmp for every number of entries, register width and        *)
(* sequence of CSR writes: a locked entry is frozen for good, and the      *)
(* check of the two ends of an access is the byte-by-byte one.             *)
(***************************************************************************)
EXTENDS Pmp, TLAPS

(* Memory protection starts out well typed.                                *)
LEMMA InitType == Init => TypeOK
<1>1. Off \in Cfg
  BY DEF Off, Cfg, Modes
<1>2. 0 \in Words
  BY SizesAssumption DEF Words
<1>3. QED BY <1>1, <1>2 DEF Init, TypeOK

(* A CSR write keeps the registers well typed.                             *)
LEMMA NextType == TypeOK /\ [Next]_vars => TypeOK'
<1> SUFFICES ASSUME TypeOK, [Next]_vars PROVE TypeOK'
  OBVIOUS
<1>1. ASSUME NEW r \in 0..(NrEntries \div PerReg - 1),
             NEW new \in [0..(PerReg - 1) -> CfgVals], WriteCfg(r, new)
      PROVE  TypeOK'
  <2>1. \A i \in Entries : new[i % PerReg] \in Cfg
    <3>1. \A i \in Entries : i % PerReg \in 0..(PerReg - 1)
      BY SizesAssumption DEF Entries
    <3>2. QED BY <3>1, ValsAssumption
  <2>2. cfg' \in [Entries -> Cfg]
    BY <1>1, <2>1 DEF WriteCfg, TypeOK
  <2>3. QED BY <1>1, <2>2 DEF WriteCfg, TypeOK
<1>2. ASSUME NEW i \in Entries, NEW v \in AddrVals, WriteAddr(i, v)
      PROVE  TypeOK'
  BY <1>2, ValsAssumption DEF WriteAddr, TypeOK
<1>3. CASE UNCHANGED vars
  BY <1>3 DEF vars, TypeOK
<1>4. QED BY <1>1, <1>2, <1>3 DEF Next

(* The registers of every reachable state are well typed.                  *)
THEOREM TypeCorrect == Spec => []TypeOK
BY InitType, NextType, PTL DEF Spec

(* What a region is made of.                                               *)
LEMMA RegionDependsOn ==
    ASSUME NEW i \in Entries, cfg'[i] = cfg[i], addr'[i] = addr[i],
           cfg[i].mode = "tor" /\ i # 0 => addr'[i - 1] = addr[i - 1]
    PROVE  RegionStart(i)' = RegionStart(i) /\ RegionSize(i)' = RegionSize(i)
<1>1. RegionStart(i)' = RegionStart(i)
  BY DEF RegionStart
<1>2. QED BY <1>1 DEF RegionSize

(* A write to an address register passes by a locked entry's registers.    *)
LEMMA WriteAddrSpares ==
    ASSUME TypeOK, NEW i \in Entries, cfg[i].lock,
           NEW j \in Entries, NEW v \in AddrVals, WriteAddr(j, v)
    PROVE  /\ addr'[i] = addr[i]
           /\ cfg[i].mode = "tor" /\ i # 0 => addr'[i - 1] = addr[i - 1]
<1>1. j % PerReg < NrEntries - 1
  BY SizesAssumption DEF Entries
<1>2. addr'[i] = addr[i]
  BY DEF WriteAddr, TypeOK
<1>3. ASSUME cfg[i].mode = "tor", i # 0 PROVE addr'[i - 1] = addr[i - 1]
  <2>1. i - 1 \in Entries
    BY <1>3, SizesAssumption DEF Entries
  <2>2. CASE j = i - 1
    <3>1. j + 1 = i
      BY <2>2 DEF Entries
    <3>2. NextIsLockedTor(j)
      BY <1>1, <1>3, <3>1 DEF NextIsLockedTor
    <3>3. QED BY <3>2 DEF WriteAddr
  <2>3. CASE j # i - 1
    BY <2>1, <2>3 DEF WriteAddr, TypeOK
  <2>4. QED BY <2>2, <2>3
<1>4. QED BY <1>2, <1>3

(* No sequence of CSR writes changes the configuration or the region of a  *)
(* locked entry, the start of a TOR region included.                       *)
THEOREM LockedRegionsFrozen == Spec => LockedRegionFrozen
<1>1. ASSUME TypeOK, Next, NEW i \in Entries, cfg[i].lock
      PROVE  /\ cfg'[i] = cfg[i]
             /\ RegionStart(i)' = RegionStart(i)
             /\ RegionSize(i)' = RegionSize(i)
  <2>1. ASSUME NEW r \in 0..(NrEntries \div PerReg - 1),
               NEW new \in [0..(PerReg - 1) -> CfgVals], WriteCfg(r, new)
        PROVE  cfg'[i] = cfg[i] /\ addr' = addr
    BY <1>1, <2>1 DEF WriteCfg, CfgWritable
  <2>2. ASSUME NEW j \in Entries, NEW v \in AddrVals, WriteAddr(j, v)
        PROVE  /\ cfg'[i] = cfg[i] /\ addr'[i] = addr[i]
               /\ cfg[i].mode = "tor" /\ i # 0 => addr'[i - 1] = addr[i - 1]
    BY <1>1, <2>2, WriteAddrSpares DEF WriteAddr
  <2>3. /\ cfg'[i] = cfg[i] /\ addr'[i] = addr[i]
        /\ cfg[i].mode = "tor" /\ i # 0 => addr'[i - 1] = addr[i - 1]
    BY <1>1, <2>1, <2>2 DEF Next
  <2>4. QED BY <2>3, RegionDependsOn
<1>2. TypeOK /\ [Next]_vars =>
        [\A i \in Entries : cfg[i].lock =>
            /\ cfg'[i] = cfg[i]
            /\ RegionStart(i)' = RegionStart(i)
            /\ RegionSize(i)' = RegionSize(i)]_vars
  BY <1>1
<1>3. QED BY <1>2, TypeCorrect, PTL DEF Spec, LockedRegionFrozen

-----------------------------------------------------------------------------
(* The check, arithmetic: powers of two and the lowest zero bit            *)

(* The powers of two a NAPOT region is made of, one by one.                *)
LEMMA PowerFacts ==
    ASSUME NEW t \in 0..31
    PROVE  2^t \in Nat \ {0} /\ 2^(t + 1) = 2 * 2^t /\ 2^(t + 3) = 8 * 2^t
<1> DEFINE f == [k \in 0..34 |-> 2^k]
<1>1. /\ f[0] = 1 /\ f[1] = 2 /\ f[2] = 4 /\ f[3] = 8
      /\ f[4] = 16 /\ f[5] = 32 /\ f[6] = 64 /\ f[7] = 128
      /\ f[8] = 256 /\ f[9] = 512 /\ f[10] = 1024 /\ f[11] = 2048
      /\ f[12] = 4096 /\ f[13] = 8192 /\ f[14] = 16384 /\ f[15] = 32768
      /\ f[16] = 65536 /\ f[17] = 131072 /\ f[18] = 262144 /\ f[19] = 524288
      /\ f[20] = 1048576 /\ f[21] = 2097152 /\ f[22] = 4194304 /\ f[23] = 8388608
      /\ f[24] = 16777216 /\ f[25] = 33554432 /\ f[26] = 67108864 /\ f[27] = 134217728
      /\ f[28] = 268435456 /\ f[29] = 536870912 /\ f[30] = 1073741824 /\ f[31] = 2147483648
      /\ f[32] = 4294967296 /\ f[33] = 8589934592 /\ f[34] = 17179869184
  OBVIOUS
<1>2. \/ t = 0 \/ t = 1 \/ t = 2 \/ t = 3 \/ t = 4 \/ t = 5 \/ t = 6 \/ t = 7
      \/ t = 8 \/ t = 9 \/ t = 10 \/ t = 11 \/ t = 12 \/ t = 13 \/ t = 14 \/ t = 15
      \/ t = 16 \/ t = 17 \/ t = 18 \/ t = 19 \/ t = 20 \/ t = 21 \/ t = 22 \/ t = 23
      \/ t = 24 \/ t = 25 \/ t = 26 \/ t = 27 \/ t = 28 \/ t = 29 \/ t = 30 \/ t = 31
  OBVIOUS
<1>3. f[t] = 2^t /\ f[t + 1] = 2^(t + 1) /\ f[t + 3] = 2^(t + 3)
  OBVIOUS
<1> HIDE DEF f
<1>4. f[t] \in Nat \ {0} /\ f[t + 1] = 2 * f[t] /\ f[t + 3] = 8 * f[t]
  BY <1>1, <1>2
<1> QED
  BY <1>3, <1>4

(* The low bits of a number, one bit more: if the t lowest are ones then   *)
(* the next one is a zero or a one.                                        *)
LEMMA NextBit ==
    ASSUME NEW q \in Nat \ {0}, NEW a \in Nat, a % q = q - 1
    PROVE  a % (2 * q) = q - 1 \/ a % (2 * q) = 2 * q - 1
<1> DEFINE m == a \div q
<1>1. m \in Nat /\ a = m * q + (q - 1)
  BY SMTT(30)
<1> HIDE DEF m
<1>2. PICK k \in Nat, b \in {0, 1} : m = 2 * k + b
  <2>1. m = 2 * (m \div 2) + (m % 2) /\ m \div 2 \in Nat /\ m % 2 \in {0, 1}
    BY <1>1
  <2> QED
    BY <2>1
<1>3. a = k * (2 * q) + (b * q + q - 1)
  BY <1>1, <1>2, SMTT(30)
<1>4. b * q + q - 1 \in {q - 1, 2 * q - 1}
  BY <1>2
<1>5. \A n, c \in Nat : \A r \in 0..(n - 1) : n > 0 => (c * n + r) % n = r
  BY SMTT(30)
<1>6. 2 * q \in Nat /\ 2 * q > 0 /\ b * q + q - 1 \in 0..(2 * q - 1)
  BY <1>4
<1>7. a % (2 * q) = b * q + q - 1
  <2> HIDE <1>1, <1>4
  <2> QED
    BY <1>3, <1>5, <1>6
<1> QED
  BY <1>4, <1>7

(* A number that is not all ones has a lowest zero bit.                    *)
LEMMA LowOnesFacts ==
    ASSUME XlenMod <= 2^32, NEW a \in Words, a # AllOnes
    PROVE  /\ LowOnes[a] \in 0..31
           /\ a % (2^(LowOnes[a] + 1)) = 2^LowOnes[a] - 1
<1> DEFINE Ones(t) == a % (2^t) = 2^t - 1
<1>1. a \in Nat /\ a < XlenMod /\ XlenMod \in Nat
  BY SizesAssumption DEF Words
<1>2. \E t \in 0..31 : a % (2^(t + 1)) = 2^t - 1
  <2> SUFFICES ASSUME \A t \in 0..31 : a % (2^(t + 1)) # 2^t - 1 PROVE FALSE
    OBVIOUS
  <2>1. Ones(0)
    <3>1. 2^0 = 1
      OBVIOUS
    <3> QED
      BY <1>1, <3>1
  <2>2. ASSUME NEW t \in 0..31, Ones(t) PROVE Ones(t + 1)
    <3>1. 2^t \in Nat \ {0} /\ 2^(t + 1) = 2 * 2^t
      BY PowerFacts
    <3>2. a % (2^t) = 2^t - 1
      BY <2>2
    <3>3. a % (2 * 2^t) = 2^t - 1 \/ a % (2 * 2^t) = 2 * 2^t - 1
      BY <1>1, <3>1, <3>2, NextBit
    <3>4. a % (2^(t + 1)) = 2^(t + 1) - 1
      BY <3>1, <3>3
    <3> QED
      BY <3>4
  <2>3. Ones(32) => a % 4294967296 = 4294967295
    <3>1. 2^32 = 4294967296
      BY SMT
    <3> QED
      BY <3>1, SMT
  <2> HIDE DEF Ones
  <2>4. Ones(4)
    BY <2>1, <2>2
  <2>5. Ones(8)
    BY <2>4, <2>2
  <2>6. Ones(12)
    BY <2>5, <2>2
  <2>7. Ones(16)
    BY <2>6, <2>2
  <2>8. Ones(20)
    BY <2>7, <2>2
  <2>9. Ones(24)
    BY <2>8, <2>2
  <2>10. Ones(28)
    BY <2>9, <2>2
  <2>11. Ones(32)
    BY <2>10, <2>2
  <2>12. a = 4294967295 /\ XlenMod = 4294967296
    <3>1. 2^32 = 4294967296
      BY SMT
    <3> QED
      BY <1>1, <2>3, <2>11, <3>1, SMT
  <2> QED
    BY <1>1, <2>12, SMT DEF AllOnes
<1>3. LowOnes[a] = CHOOSE t \in 0..31 : a % (2^(t + 1)) = 2^t - 1
  BY DEF LowOnes
<1> QED
  BY <1>2, <1>3

-----------------------------------------------------------------------------
(* The check, regions: an interval of words                                *)

(* Quotient and remainder.                                                 *)
LEMMA QuotientRemainder ==
    ASSUME NEW n \in Nat \ {0}, NEW x \in Nat
    PROVE  /\ x \div n \in Nat /\ x % n \in 0..(n - 1)
           /\ x = (x \div n) * n + (x % n)
BY SMTT(30)

(* A quotient is m just from m * n up to the next multiple.                *)
LEMMA QuotientInterval ==
    ASSUME NEW n \in Nat \ {0}, NEW x \in Nat, NEW m \in Nat
    PROVE  x \div n = m <=> m * n <= x /\ x < m * n + n
<1> DEFINE q == x \div n
           r == x % n
<1>1. q \in Nat /\ r \in 0..(n - 1) /\ x = q * n + r
  BY QuotientRemainder
<1> HIDE DEF q, r
<1>2. q = m => m * n <= x /\ x < m * n + n
  BY <1>1
<1>3. q < m => q * n + n <= m * n
  BY <1>1, SMTT(30)
<1>4. q > m => q * n >= m * n + n
  BY <1>1, SMTT(30)
<1>5. q * n \in Nat /\ m * n \in Nat
  BY <1>1, SMTT(30)
<1>6. m * n <= x /\ x < m * n + n => q = m
  BY <1>1, <1>3, <1>4, <1>5
<1> QED
  BY <1>2, <1>6 DEF q

(* A number below the modulus is its own remainder.                        *)
LEMMA SmallRemainder ==
    ASSUME NEW n \in Nat, NEW x \in Nat, x < n
    PROVE  x % n = x
BY SMTT(30)

(* The interval of words from s up to e, in bytes.                         *)
InWords(s, e, b) == 4 * s <= b /\ b < 4 * e

(* What Within and Covers have to say of an entry for the check to be      *)
(* right about it.                                                         *)
IsInterval(i, s, e) ==
    /\ s \in Nat /\ e \in Nat /\ 4 * e < XlenMod
    /\ \A b \in Words : Within(b, i) <=> InWords(s, e, b)
    /\ \A b \in Words : Covers(i, b) <=> InWords(s, e, b)

(* A TOR region goes from the address before it to its own; the size may   *)
(* wrap around, then the region is empty.                                  *)
LEMMA TorInterval ==
    ASSUME TypeOK, RegionsBelowTop, NEW i \in Entries, cfg[i].mode = "tor"
    PROVE  IsInterval(i, IF i = 0 THEN 0 ELSE addr[i - 1], addr[i])
<1> DEFINE s == IF i = 0 THEN 0 ELSE addr[i - 1]
           e == addr[i]
<1>1. XlenMod \in Nat /\ XlenMod > 0
  BY SizesAssumption
<1>2. s \in Nat /\ e \in Nat
  <2>1. i # 0 => i - 1 \in Entries
    BY SizesAssumption DEF Entries
  <2> QED
    BY <1>1, <2>1 DEF TypeOK, Words
<1>3. 4 * s < XlenMod /\ 4 * e < XlenMod
  <2>1. RegionEnd(i) = 4 * addr[i]
    BY DEF RegionEnd
  <2>2. i # 0 => i > 0
    BY DEF Entries
  <2> QED
    BY <1>1, <2>1, <2>2 DEF RegionsBelowTop
<1>4. RegionStart(i) = 4 * s
  <2>1. \A w \in Nat : 4 * w < XlenMod => Shl2(w) = 4 * w
    BY <1>1, SmallRemainder DEF Shl2
  <2>2. RegionStart(i) = IF i = 0 THEN 0 ELSE Shl2(addr[i - 1])
    BY DEF RegionStart
  <2>3. CASE i = 0
    BY <2>2, <2>3
  <2>4. CASE i # 0
    BY <1>2, <1>3, <2>1, <2>2, <2>4
  <2> QED
    BY <2>3, <2>4
<1>5. RegionSize(i) = (4 * e - 4 * s) % XlenMod
  <2>1. Shl2(addr[i]) = 4 * e
    BY <1>1, <1>2, <1>3, SmallRemainder DEF Shl2
  <2>2. RegionSize(i) = (Shl2(addr[i]) - RegionStart(i)) % XlenMod
    BY DEF RegionSize
  <2> QED
    BY <1>4, <2>1, <2>2
<1> HIDE DEF s, e
<1>6. (RegionStart(i) + RegionSize(i)) % XlenMod = 4 * e
  <2>1. CASE s <= e
    <3>1. RegionSize(i) = 4 * e - 4 * s
      <4>1. 4 * e - 4 * s \in Nat /\ 4 * e - 4 * s < XlenMod
        BY <1>1, <1>2, <1>3, <2>1
      <4> QED
        BY <1>1, <1>5, <4>1, SmallRemainder
    <3>2. RegionStart(i) + RegionSize(i) = 4 * e
      BY <1>2, <1>4, <3>1
    <3> QED
      BY <1>1, <1>2, <1>3, <3>2, SmallRemainder
  <2>2. CASE s > e
    <3>1. RegionSize(i) = XlenMod + 4 * e - 4 * s
      BY <1>1, <1>2, <1>3, <1>5, <2>2, SMTT(30)
    <3>2. RegionStart(i) + RegionSize(i) = XlenMod + 4 * e
      BY <1>1, <1>2, <1>4, <3>1
    <3>3. (XlenMod + 4 * e) % XlenMod = 4 * e
      BY <1>1, <1>2, <1>3, SMTT(30)
    <3> QED
      BY <3>2, <3>3
  <2> QED
    BY <1>2, <2>1, <2>2
<1>7. \A b \in Words : Within(b, i) <=> InWords(s, e, b)
  BY <1>4, <1>6 DEF Within, InWords, Words
<1>8. \A b \in Words : Covers(i, b) <=> InWords(s, e, b)
  BY <1>2 DEF Covers, InWords, Words, s, e
<1> QED
  BY <1>2, <1>3, <1>7, <1>8 DEF IsInterval, s, e

(* An NA4 region is one word.                                              *)
LEMMA Na4Interval ==
    ASSUME TypeOK, RegionsBelowTop, NEW i \in Entries, cfg[i].mode = "na4"
    PROVE  IsInterval(i, addr[i], addr[i] + 1)
<1> DEFINE e == addr[i]
<1>1. XlenMod \in Nat /\ XlenMod > 0 /\ e \in Nat
  BY SizesAssumption DEF TypeOK, Words
<1>2. 4 * e + 4 < XlenMod
  <2>1. RegionEnd(i) = 4 * addr[i] + 4
    BY DEF RegionEnd
  <2> QED
    BY <2>1 DEF RegionsBelowTop
<1>3. RegionStart(i) = 4 * e
  <2>1. RegionStart(i) = Shl2(addr[i])
    BY DEF RegionStart
  <2> QED
    BY <1>1, <1>2, <2>1, SmallRemainder DEF Shl2
<1>4. (RegionStart(i) + RegionSize(i)) % XlenMod = 4 * e + 4
  <2>1. RegionSize(i) = 4
    BY DEF RegionSize
  <2> QED
    BY <1>1, <1>2, <1>3, <2>1, SmallRemainder
<1>5. \A b \in Words : Covers(i, b) <=> InWords(e, e + 1, b)
  <2> SUFFICES ASSUME NEW b \in Words PROVE Covers(i, b) <=> InWords(e, e + 1, b)
    OBVIOUS
  <2>1. Covers(i, b) <=> b \div 4 = e
    BY DEF Covers
  <2> HIDE DEF e
  <2> QED
    BY <1>1, <2>1 DEF InWords, Words
<1> HIDE DEF e
<1>6. \A b \in Words : Within(b, i) <=> InWords(e, e + 1, b)
  BY <1>1, <1>3, <1>4 DEF Within, InWords, Words
<1>7. IsInterval(i, e, e + 1)
  BY <1>1, <1>2, <1>5, <1>6 DEF IsInterval
<1> QED
  BY <1>7 DEF e

(* A NAPOT region: its size is 8 times 2 to the number of low ones, and    *)
(* its address is got by clearing them.                                    *)
LEMMA NapotInterval ==
    ASSUME XlenMod <= 2^32, TypeOK, RegionsBelowTop, NEW i \in Entries,
           cfg[i].mode = "napot"
    PROVE  \E s, e : IsInterval(i, s, e)
<1> DEFINE a == addr[i]
           q == 2^LowOnes[a]
           n == 2 * q
           m == a \div n
<1>1. XlenMod \in Nat /\ XlenMod > 0 /\ a \in Words /\ a \in Nat /\ a # AllOnes
  BY SizesAssumption DEF TypeOK, Words, RegionsBelowTop
<1>2. LowOnes[a] \in 0..31 /\ a % (2^(LowOnes[a] + 1)) = 2^LowOnes[a] - 1
  BY <1>1, LowOnesFacts
<1>3. q \in Nat \ {0} /\ 2^(LowOnes[a] + 1) = n /\ 2^(LowOnes[a] + 3) = 8 * q
  BY <1>2, PowerFacts
<1>4. a % n = q - 1
  BY <1>2, <1>3
<1>5. RegionEnd(i) = 4 * (a - (q - 1)) + 8 * q /\ RegionEnd(i) < XlenMod
  <2>1. RegionEnd(i) = 4 * (a - (q - 1)) + 2^(LowOnes[a] + 3)
    BY DEF RegionEnd
  <2> QED
    BY <1>3, <2>1 DEF RegionsBelowTop
<1>6. /\ RegionStart(i) = NapotAddr(a) /\ RegionSize(i) = NapotSize(a)
      /\ NapotSize(a) = (8 * q) % XlenMod
      /\ NapotAddr(a) = Shl2(a - (((NapotSize(a) \div 2) - 1) \div 4))
  BY <1>1, <1>3 DEF RegionStart, RegionSize, NapotAddr, NapotSize
<1>7. \A b \in Words : Covers(i, b) <=> (b \div 4) \div n = m
  BY <1>3 DEF Covers
<1> HIDE DEF a, q
<1>8. n \in Nat \ {0} /\ m \in Nat /\ m * n \in Nat /\ a = m * n + (q - 1)
  <2>1. n \in Nat \ {0}
    BY <1>3
  <2> HIDE DEF n
  <2>2. m \in Nat /\ a = m * n + (a % n)
    BY <1>1, <2>1, QuotientRemainder
  <2> HIDE DEF m
  <2>3. m * n \in Nat
    BY <2>1, <2>2, SMTT(30)
  <2> QED
    BY <1>4, <2>1, <2>2, <2>3
<1> DEFINE s == m * n
           e == s + n
<1>9. s \in Nat /\ a - (q - 1) = s /\ n = 2 * q
  BY <1>1, <1>3, <1>8
<1> HIDE DEF m, n, s
<1>10. e \in Nat /\ 4 * e < XlenMod /\ 8 * q < XlenMod /\ 4 * s < XlenMod
  BY <1>1, <1>3, <1>5, <1>9
<1>11. NapotSize(a) = 8 * q
  BY <1>1, <1>3, <1>6, <1>10, SmallRemainder
<1>12. RegionStart(i) = 4 * s
  <2>1. (((8 * q) \div 2) - 1) \div 4 = q - 1
    BY <1>3
  <2>2. NapotAddr(a) = Shl2(s)
    BY <1>6, <1>9, <1>11, <2>1
  <2> QED
    BY <1>1, <1>6, <1>9, <1>10, <2>2, SmallRemainder DEF Shl2
<1>13. (RegionStart(i) + RegionSize(i)) % XlenMod = 4 * e
  <2>1. RegionStart(i) + RegionSize(i) = 4 * e
    BY <1>3, <1>6, <1>9, <1>11, <1>12
  <2> QED
    BY <1>1, <1>10, <2>1, SmallRemainder
<1>14. \A b \in Words : Within(b, i) <=> InWords(s, e, b)
  BY <1>12, <1>13 DEF Within, InWords, Words
<1>15. \A b \in Words : Covers(i, b) <=> InWords(s, e, b)
  <2> SUFFICES ASSUME NEW b \in Words PROVE Covers(i, b) <=> InWords(s, e, b)
    OBVIOUS
  <2>1. b \in Nat /\ b \div 4 \in Nat
    BY <1>1 DEF Words
  <2>2. (b \div 4) \div n = m <=> s <= b \div 4 /\ b \div 4 < s + n
    BY <1>8, <2>1, QuotientInterval DEF s
  <2>3. (s <= b \div 4 <=> 4 * s <= b) /\ (b \div 4 < e <=> b < 4 * e)
    BY <1>9, <1>10, <2>1
  <2> QED
    BY <1>7, <2>2, <2>3 DEF InWords
<1>16. IsInterval(i, s, e)
  BY <1>9, <1>10, <1>14, <1>15 DEF IsInterval
<1> QED
  BY <1>16

(* Every entry that is not off.                                            *)
LEMMA RegionInterval ==
    ASSUME XlenMod <= 2^32, TypeOK, RegionsBelowTop, NEW i \in Entries,
           cfg[i].mode # "off"
    PROVE  \E s, e : IsInterval(i, s, e)
<1>1. cfg[i].mode \in {"tor", "na4", "napot"}
  BY DEF TypeOK, Cfg, Modes
<1>2. CASE cfg[i].mode = "tor"
  BY <1>2, TorInterval
<1>3. CASE cfg[i].mode = "na4"
  BY <1>3, Na4Interval
<1>4. CASE cfg[i].mode = "napot"
  BY <1>4, NapotInterval
<1> QED
  BY <1>1, <1>2, <1>3, <1>4

-----------------------------------------------------------------------------
(* The check, accesses: the two ends speak for all bytes                   *)

(* An access of at most four bytes, which may wrap around at the top, and  *)
(* an interval of whole words below the top: some byte is inside just if   *)
(* one of the ends is, and all bytes are just if both ends are.            *)
LEMMA EndsDecide ==
    ASSUME NEW s \in Nat, NEW e \in Nat, 4 * e < XlenMod,
           NEW a \in Words, NEW len \in Lens
    PROVE  LET bytes == {(a + k) % XlenMod : k \in 0..(len - 1)}
               end == (a + len - 1) % XlenMod
           IN  /\ bytes \subseteq Words /\ end \in Words
               /\ (\E b \in bytes : InWords(s, e, b))
                     <=> InWords(s, e, a) \/ InWords(s, e, end)
               /\ (\A b \in bytes : InWords(s, e, b))
                     <=> InWords(s, e, a) /\ InWords(s, e, end)
<1> DEFINE At(k) == (a + k) % XlenMod
           In(k) == InWords(s, e, At(k))
<1>1. PICK w \in Nat : XlenMod = 4 * w /\ w > 1
  <2>1. XlenMod \in Nat /\ XlenMod % 4 = 0 /\ XlenMod >= 256
    BY SizesAssumption
  <2>2. XlenMod = 4 * (XlenMod \div 4) /\ XlenMod \div 4 \in Nat /\ XlenMod \div 4 > 1
    BY <2>1
  <2> QED
    BY <2>2
<1>2. a \in Nat /\ a < 4 * w
  BY <1>1 DEF Words
<1>3. len \in {1, 2, 4}
  BY DEF Lens
<1>4. \A k \in 0..3 : At(k) = IF a + k < 4 * w THEN a + k ELSE a + k - 4 * w
  <2> SUFFICES ASSUME NEW k \in 0..3
               PROVE  At(k) = IF a + k < 4 * w THEN a + k ELSE a + k - 4 * w
    OBVIOUS
  <2>1. \A n, x \in Nat : x < n => (n + x) % n = x
    BY SMTT(30)
  <2>2. CASE a + k < 4 * w
    BY <1>1, <1>2, <2>2, SmallRemainder
  <2>3. CASE a + k >= 4 * w
    <3>1. a + k - 4 * w \in Nat /\ a + k - 4 * w < 4 * w
      BY <1>1, <1>2, <2>3
    <3>2. (4 * w + (a + k - 4 * w)) % (4 * w) = a + k - 4 * w
      BY <1>1, <2>1, <3>1
    <3>3. 4 * w + (a + k - 4 * w) = a + k
      BY <1>1, <1>2
    <3> QED
      BY <1>1, <1>2, <2>3, <3>2, <3>3
  <2> QED
    BY <1>1, <1>2, <2>2, <2>3
<1>5. \A k \in 0..3 : At(k) \in Words
  BY <1>1, <1>2, <1>4 DEF Words
<1>6. At(0) = a /\ \A k \in 0..3 : At(k) \in Nat
  BY <1>1, <1>2, <1>4
<1> HIDE DEF At
<1>7. 4 * e < 4 * w
  BY <1>1
<1>8. \A k \in 0..3 : /\ (\E j \in 0..k : In(j)) <=> In(0) \/ In(k)
                      /\ (\A j \in 0..k : In(j)) <=> In(0) /\ In(k)
  <2> SUFFICES ASSUME NEW k \in 0..3, NEW j \in 0..k
               PROVE  (In(j) => In(0) \/ In(k)) /\ (In(0) /\ In(k) => In(j))
    OBVIOUS
  <2>1. /\ At(j) = IF a + j < 4 * w THEN a + j ELSE a + j - 4 * w
        /\ At(k) = IF a + k < 4 * w THEN a + k ELSE a + k - 4 * w
        /\ At(0) = a /\ j \in 0..3
    BY <1>4, <1>6
  <2> QED
    BY <1>1, <1>2, <1>7, <2>1 DEF InWords
<1>9. a + len - 1 = a + (len - 1) /\ len - 1 \in 0..3
  BY <1>2, <1>3
<1>10. {(a + k) % XlenMod : k \in 0..(len - 1)} = {At(k) : k \in 0..(len - 1)}
  BY DEF At
<1>11. (a + len - 1) % XlenMod = At(len - 1)
  BY <1>9 DEF At
<1>12. /\ {At(k) : k \in 0..(len - 1)} \subseteq Words
       /\ (\E b \in {At(k) : k \in 0..(len - 1)} : InWords(s, e, b))
             <=> InWords(s, e, a) \/ InWords(s, e, At(len - 1))
       /\ (\A b \in {At(k) : k \in 0..(len - 1)} : InWords(s, e, b))
             <=> InWords(s, e, a) /\ InWords(s, e, At(len - 1))
  <2>1. \A k \in 0..(len - 1) : k \in 0..3
    BY <1>3
  <2>2. /\ (\E j \in 0..(len - 1) : In(j)) <=> In(0) \/ In(len - 1)
        /\ (\A j \in 0..(len - 1) : In(j)) <=> In(0) /\ In(len - 1)
    BY <1>8, <1>9
  <2> QED
    BY <1>5, <1>6, <2>1, <2>2
<1> QED
  BY <1>5, <1>9, <1>10, <1>11, <1>12

(* Hence for an entry: Within of the ends is Covers of the bytes.          *)
LEMMA EntryBytewise ==
    ASSUME XlenMod <= 2^32, TypeOK, RegionsBelowTop, NEW i \in Entries,
           cfg[i].mode # "off", NEW a \in Words, NEW len \in Lens
    PROVE  LET bytes == {(a + k) % XlenMod : k \in 0..(len - 1)}
               end == (a + len - 1) % XlenMod
           IN  /\ (\E b \in bytes : Covers(i, b)) <=> Within(a, i) \/ Within(end, i)
               /\ (\A b \in bytes : Covers(i, b)) <=> Within(a, i) /\ Within(end, i)
<1> DEFINE bytes == {(a + k) % XlenMod : k \in 0..(len - 1)}
           end == (a + len - 1) % XlenMod
<1>1. PICK s, e : IsInterval(i, s, e)
  BY RegionInterval
<1>2. s \in Nat /\ e \in Nat /\ 4 * e < XlenMod
  BY <1>1 DEF IsInterval
<1>3. /\ bytes \subseteq Words /\ end \in Words
      /\ (\E b \in bytes : InWords(s, e, b)) <=> InWords(s, e, a) \/ InWords(s, e, end)
      /\ (\A b \in bytes : InWords(s, e, b)) <=> InWords(s, e, a) /\ InWords(s, e, end)
  BY <1>2, EndsDecide
<1> HIDE DEF bytes, end
<1>4. /\ \A b \in Words : Within(b, i) <=> InWords(s, e, b)
      /\ \A b \in Words : Covers(i, b) <=> InWords(s, e, b)
  BY <1>1 DEF IsInterval
<1>5. /\ (\E b \in bytes : Covers(i, b)) <=> Within(a, i) \/ Within(end, i)
      /\ (\A b \in bytes : Covers(i, b)) <=> Within(a, i) /\ Within(end, i)
  BY <1>3, <1>4
<1> QED
  BY <1>5 DEF bytes, end

(* The check of pmp_mem_check is the byte-wise one in every state that     *)
(* CSR writes can produce, for every number of entries and all addresses   *)
(* of a 32-bit hart: looking at the two ends, and at start and size        *)
(* modulo 2^32, misses nothing below the top of the address space, once an *)
(* entry is active.                                                        *)
THEOREM CheckAlwaysBytewise ==
    ASSUME XlenMod <= 2^32
    PROVE  Spec => []CheckIsBytewise
<1>1. TypeOK => CheckIsBytewise
  <2> SUFFICES ASSUME TypeOK, RegionsBelowTop,
                      NEW p \in {S, M}, NEW a \in Probes, NEW len \in Lens,
                      NEW t \in Accesses
               PROVE  pmp_mem_check(p, a, len, t) <=> Granted(p, a, len, t)
    BY DEF CheckIsBytewise
  <2> DEFINE bytes == {(a + k) % XlenMod : k \in 0..(len - 1)}
             end == (a + len - 1) % XlenMod
             matching == {i \in Considered(p) : Within(a, i) \/ Within(end, i)}
             touching == {i \in Considered(p) : \E b \in bytes : Covers(i, b)}
  <2>1. ASSUME NEW i \in Considered(p)
        PROVE  /\ (\E b \in bytes : Covers(i, b)) <=> Within(a, i) \/ Within(end, i)
               /\ (\A b \in bytes : Covers(i, b)) <=> Within(a, i) /\ Within(end, i)
    <3>1. i \in Entries /\ cfg[i].mode # "off" /\ a \in Words
      BY ProbesAssumption DEF Considered
    <3> QED
      BY <3>1, EntryBytewise
  <2>2. pmp_mem_check(p, a, len, t) <=>
          IF matching = {} THEN p = M
          ELSE \E i \in matching : /\ \A j \in matching : i <= j
                                   /\ t \in cfg[i].perm
                                   /\ p = M \/ (Within(a, i) /\ Within(end, i))
    BY DEF pmp_mem_check
  <2>3. Granted(p, a, len, t) <=>
          IF touching = {} THEN p = M
          ELSE \E i \in touching : /\ \A j \in touching : i <= j
                                   /\ t \in cfg[i].perm
                                   /\ p = M \/ \A b \in bytes : Covers(i, b)
    BY DEF Granted
  <2>4. matching = touching
    <3> HIDE DEF bytes, end
    <3> QED
      BY <2>1
  <2>5. \A i \in touching :
          (Within(a, i) /\ Within(end, i)) <=> \A b \in bytes : Covers(i, b)
    <3> HIDE DEF bytes, end
    <3> QED
      BY <2>1
  <2> HIDE DEF matching, touching, bytes, end
  <2> QED
    BY <2>2, <2>3, <2>4, <2>5
<1> QED
  BY <1>1, TypeCorrect, PTL

-----------------------------------------------------------------------------
(* Dropped writes                                                          *)

(* A write to an address register other than the last one is dropped only  *)
(* for a lock: pmp_write_csr_addr goes wrong for the last one alone.       *)
DroppedBeforeLast ==
    \A i \in Entries : dropped = i /\ i # NrEntries - 1 =>
        cfg[i].lock \/ (cfg[i + 1].lock /\ cfg[i + 1].mode = "tor")

(* In every reachable state the last dropped write was dropped rightly,    *)
(* unless it was one to the last address register.                         *)
THEOREM DroppedRightlyBeforeLast == Spec => []DroppedBeforeLast
<1>1. Init => DroppedBeforeLast
  BY SizesAssumption DEF Init, DroppedBeforeLast, NoReg, Entries
<1>2. ASSUME DroppedBeforeLast, [Next]_vars PROVE DroppedBeforeLast'
  <2>1. ASSUME NEW r, NEW new, WriteCfg(r, new) PROVE DroppedBeforeLast'
    BY <2>1, SizesAssumption DEF WriteCfg, DroppedBeforeLast, NoReg, Entries
  <2>2. ASSUME NEW i \in Entries, NEW v \in AddrVals, WriteAddr(i, v)
        PROVE  DroppedBeforeLast'
    <3>1. cfg' = cfg
      BY <2>2 DEF WriteAddr
    <3>2. i # NrEntries - 1 => i + 1 \in Entries
      BY SizesAssumption DEF Entries
    <3>3. CASE NextIsLockedTor(i) \/ cfg[i].lock
      <4>1. dropped' = i
        BY <2>2, <3>3 DEF WriteAddr
      <4>2. i # NrEntries - 1 =>
              cfg[i].lock \/ (cfg[i + 1].lock /\ cfg[i + 1].mode = "tor")
        BY <3>2, <3>3 DEF NextIsLockedTor
      <4> QED
        BY <3>1, <4>1, <4>2 DEF DroppedBeforeLast
    <3>4. CASE ~(NextIsLockedTor(i) \/ cfg[i].lock)
      <4>1. dropped' = NoReg
        BY <2>2, <3>4 DEF WriteAddr
      <4> QED
        BY <4>1, SizesAssumption DEF DroppedBeforeLast, NoReg, Entries
    <3> QED
      BY <3>3, <3>4
  <2>3. CASE UNCHANGED vars
    BY <1>2, <2>3 DEF vars, DroppedBeforeLast
  <2> QED
    BY <1>2, <2>1, <2>2, <2>3 DEF Next
<1> QED
  BY <1>1, <1>2, PTL DEF Spec
=============================================================================
