------------------------- MODULE HashtableCacheProofs -------------------------
(***************************************************************************)
(* Theorems about HashtableCache, for any tags, any number of threads,     *)
(* keys, lines and slots of a line.  The tags change nothing of            *)
(* hashtable.c, but for queries of keys whose tag is no char; and such a   *)
(* query goes the way of a query of another key, one with the same hash    *)
(* values that nobody inserts.  So the theorems of HashtableProofs hold of *)
(* the cache-line table, with HashAttempts * readsPerLine for the probes,  *)
(* LinePlace for the slots, and such a shadow for each key; if the lines   *)
(* are whole, so that every probe is in its subtable.                      *)
(***************************************************************************)
EXTENDS HashtableCache, FiniteSetTheorems, WellFoundedInduction, TLAPS

\* Not the second component of a key, by Russell's argument.
Fresh == LET Seconds == {x[2] : x \in Keys \cup {NULL}} IN {x \in Seconds : x \notin x}

\* The key that a query of k looks for if the tag of k is no char.
Shadow(k) == <<k, Fresh>>
Shadows == {Shadow(k) : k \in Keys}
AllKeys == Keys \cup Shadows
AllPlace == [k \in AllKeys |-> IF k \in Keys THEN LinePlace[k] ELSE LinePlace[k[1]]]

\* Thread t queries a key that it cannot recognise.
Wide(t) == op[t] = "query" /\ key[t] \in Keys \ Narrow
ShadowKey == [t \in Threads |-> IF Wide(t) THEN Shadow(key[t]) ELSE key[t]]
ShadowSeen == [t \in Threads |-> IF Wide(t) THEN {0} ELSE seen[t]]

Proofs == INSTANCE HashtableProofs WITH
            Keys <- AllKeys,
            HashAttempts <- HashAttempts * readsPerLine,
            InitSize <- initTable,
            Place <- AllPlace,
            key <- ShadowKey,
            seen <- ShadowSeen
-----------------------------------------------------------------------------
(* The parameters of the instance                                          *)

\* The first subtable, of at least a line, is not empty.
LEMMA FirstSize == initTable \in Nat \ {0}
<1>1. /\ InitSize \in Nat \ {0}
      /\ readsPerLine \in Nat \ {0}
      /\ entPerLine \in Nat \ {0}
  BY LinesAssumption
<1>2. \E size \in {InitSize, readsPerLine, 2 * entPerLine} :
        size >= InitSize /\ size >= readsPerLine /\ size >= 2 * entPerLine
  BY <1>1
<1>3. initTable \in {InitSize, readsPerLine, 2 * entPerLine}
  BY <1>2 DEF initTable
<1> QED
  BY <1>1, <1>3

\* A probe of the one loop belongs to one of the lines.
LEMMA Quotient ==
  ASSUME NEW x \in Nat, NEW m \in Nat \ {0}, NEW n \in Nat \ {0}, x < m * n
  PROVE  x \div n \in 0 .. m - 1
<1> DEFINE q == x \div n
<1>1. q \in Nat
  OBVIOUS
<1>2. q * n <= x
  OBVIOUS
<1> HIDE DEF q
<1>3. CASE q >= m
  <2>1. PICK e \in Nat : q = m + e
    BY <1>1, <1>3
  <2>2. q * n = m * n + e * n
    BY <2>1
  <2>3. e * n >= 0 /\ e * n \in Int /\ m * n \in Int /\ q * n \in Int
    BY <1>1, <2>1
  <2> QED
    BY <1>2, <2>2, <2>3
<1>4. CASE q < m
  BY <1>1, <1>4 DEF q
<1> QED
  BY <1>1, <1>3, <1>4

\* The tag of a key is a number.
LEMMA TagTyped == \A k \in Keys : hashtag[k] \in Int
<1>1. -(2 ^ 15) .. 2 ^ 15 - 1 \subseteq Int
  OBVIOUS
<1> QED
  BY <1>1, HashtableCacheAssumption

\* There is at least one probe.
LEMMA TotalProbes == HashAttempts * readsPerLine \in Nat \ {0}
<1>1. HashAttempts \in Nat \ {0} /\ readsPerLine \in Nat \ {0}
  BY HashtableCacheAssumption, LinesAssumption
<1> QED
  BY <1>1

\* A shadow is no key, and not NULL.
LEMMA ShadowIsNew ==
  \A k \in Keys : Shadow(k) \notin Keys \cup {NULL} /\ Shadow(k)[1] = k
<1> DEFINE Seconds == {x[2] : x \in Keys \cup {NULL}}
<1>1. Fresh \notin Seconds
  BY DEF Fresh
<1>2. ASSUME NEW k \in Keys, Shadow(k) \in Keys \cup {NULL}
      PROVE  FALSE
  <2>1. Shadow(k)[2] \in Seconds
    BY <1>2
  <2>2. Shadow(k)[2] = Fresh
    BY DEF Shadow
  <2> QED
    BY <1>1, <2>1, <2>2
<1>3. \A k \in Keys : Shadow(k)[1] = k
  BY DEF Shadow
<1> QED
  BY <1>2, <1>3

\* The instance of Hashtable satisfies what Hashtable assumes of its constants.
LEMMA TableAssumption == Proofs!HashtableAssumption
<1>1. IsFiniteSet(Keys) /\ Keys # {} /\ NULL \notin Keys
  BY HashtableCacheAssumption
<1> DEFINE f == [k \in Keys |-> Shadow(k)]
<1>7. f \in Surjection(Keys, Shadows)
  BY DEF Shadows, Surjection
<1>2. IsFiniteSet(Shadows)
  <2> HIDE DEF f
  <2> QED
    BY <1>1, <1>7, FS_Surjection
<1>3. IsFiniteSet(AllKeys)
  BY <1>1, <1>2, FS_Union DEF AllKeys
<1>4. Proofs!IsFiniteSet(AllKeys)
  BY <1>3 DEF IsFiniteSet, Proofs!IsFiniteSet
<1>5. NULL \notin AllKeys /\ AllKeys # {}
  BY <1>1, ShadowIsNew DEF AllKeys, Shadows
<1> QED
  BY <1>4, <1>5, FirstSize, TotalProbes
  DEF Proofs!HashtableAssumption, Proofs!Attempts
-----------------------------------------------------------------------------
(* Whole lines                                                             *)

\* A set of numbers up to y has a largest one.
LEMMA Largest ==
  ASSUME NEW y \in Nat, NEW S \in SUBSET (0 .. y), S # {}
  PROVE  \E z \in S : \A w \in S : w <= z
<1> DEFINE T == {y - z : z \in S}
<1>0. \A z \in S : y - z \in Nat
  <2>1. \A z \in S : z \in 0 .. y
    OBVIOUS
  <2> QED
    BY <2>1
<1>1. T \subseteq Nat /\ T # {}
  BY <1>0
<1>2. PICK m \in T : \A n \in T : ~(<<n, m>> \in OpToRel(<, Nat))
  <2> HIDE DEF T
  <2> QED
    BY <1>1, NatLessThanWellFounded, WFMin
<1>3. \A n \in T : m <= n
  <2> HIDE DEF T
  <2>1. \A n \in T : n \in Nat /\ m \in Nat /\ ~(n < m)
    BY <1>1, <1>2 DEF OpToRel
  <2> QED
    BY <2>1
<1>4. PICK z \in S : m = y - z
  OBVIOUS
<1>5. ASSUME NEW w \in S
      PROVE  w <= z
  <2>1. y - w \in T
    OBVIOUS
  <2>2. m <= y - w
    BY <1>3, <2>1
  <2> HIDE DEF T
  <2> QED
    BY <1>4, <2>2
<1> QED
  BY <1>5

\* A masked number is not above its mask.
LEMMA MaskedBound ==
  ASSUME NEW x \in Int, NEW mask \in Nat
  PROVE  Masked(x, mask) \in 0 .. mask
<1> DEFINE both == {z \in 0 .. mask : \A v \in BitValues : Has(z, v) => Has(x, v) /\ Has(mask, v)}
<1>1. \A v \in BitValues : ~Has(0, v)
  <2>1. BitValues \subseteq Nat \ {0}
    BY DEF BitValues
  <2>2. \A v \in Nat \ {0} : (0 \div v) % 2 = 0
    OBVIOUS
  <2> QED
    BY <2>1, <2>2 DEF Has
<1>2. 0 \in both
  BY <1>1
<1>3. PICK z \in both : \A w \in both : w <= z
  <2>1. both \in SUBSET (0 .. mask)
    OBVIOUS
  <2> HIDE DEF both
  <2> QED
    BY <1>2, <2>1, Largest
<1>4. Masked(x, mask) \in both
  BY <1>3 DEF Masked
<1> QED
  BY <1>4

\* A call looks at a slot of its line, whatever its tag.
LEMMA InLineFits ==
  ASSUME NEW tag \in Int, NEW n \in Nat
  PROVE  InLine(tag, n) \in 0 .. readsPerLine - 1
<1>1. readsPerLine \in Nat \ {0}
  BY LinesAssumption
<1>2. tag + (n % readsPerLine) \in Int /\ readsPerLine - 1 \in Nat
  BY <1>1
<1> QED
  BY <1>2, MaskedBound DEF InLine

\* The start of the last line, and with it of every line, has a whole line
\* above it in a subtable of whole lines.
LEMMA LastLine ==
  ASSUME NEW r \in Nat \ {0}, NEW size \in Nat \ {0}, size % r = 0
  PROVE  /\ ((size - 1) \div r) * r \in Nat
         /\ ((size - 1) \div r) * r + r <= size
<1>1. PICK q \in Nat : size = r * q
  OBVIOUS
<1>2. q # 0
  BY <1>1
<1>3. PICK p \in Nat : q = p + 1
  BY <1>2
<1>4. size - 1 = r * p + (r - 1)
  BY <1>1, <1>3
<1>5. (size - 1) \div r = p
  BY <1>4
<1>6. size = p * r + r /\ p * r \in Nat
  BY <1>1, <1>3
<1> QED
  BY <1>5, <1>6

\* A multiple of a multiple is a multiple.
LEMMA MultipleOfMultiple ==
  ASSUME NEW r \in Nat \ {0}, NEW n \in Nat \ {0}, NEW size \in Nat, n % r = 0, size % n = 0
  PROVE  size % r = 0
<1>1. PICK p \in Nat : n = p * r
  OBVIOUS
<1>2. PICK q \in Nat : size = q * n
  OBVIOUS
<1>3. size = (q * p) * r /\ q * p \in Nat
  BY <1>1, <1>2
<1>4. \A w \in Nat : (w * r) % r = 0
  OBVIOUS
<1> QED
  BY <1>3, <1>4

\* If the lines are whole, every probe of every key is in its subtable.
LEMMA WholeLinesFit == WholeLines => Proofs!PlacesFit
<1> SUFFICES ASSUME WholeLines, NEW k \in AllKeys, NEW n \in 0 .. HashAttempts * readsPerLine - 1,
                    NEW size \in Nat \ {0}, size % initTable = 0
             PROVE  AllPlace[k][n][size] \in 0 .. size - 1
  BY DEF Proofs!PlacesFit, Proofs!Attempts
<1> DEFINE r == readsPerLine
<1>1. PICK k1 \in Keys : AllPlace[k] = LinePlace[k1]
  BY ShadowIsNew DEF AllPlace, AllKeys, Shadows
<1>2. /\ HashAttempts \in Nat \ {0} /\ r \in Nat \ {0} /\ r = lineStride
      /\ initTable \in Nat \ {0} /\ initTable % r = 0
  BY HashtableCacheAssumption, LinesAssumption, FirstSize DEF WholeLines
<1>3. n \in Nat /\ n < HashAttempts * r
  BY TotalProbes
<1> DEFINE mask == ((size - 1) \div r) * r
           bucket == Hash[k1][n \div r]
<1>4. mask \in Nat /\ mask + r <= size
  <2>1. size % r = 0
    BY <1>2, MultipleOfMultiple
  <2> QED
    BY <1>2, <2>1, LastLine
<1>5. bucket \in Nat
  <2>1. n \div r \in 0 .. HashAttempts - 1
    BY <1>2, <1>3, Quotient
  <2>2. Hash \in [Keys -> [0 .. HashAttempts - 1 -> Nat]]
    BY HashtableCacheAssumption
  <2> HIDE DEF r
  <2> QED
    BY <2>1, <2>2
<1>6. InLine(hashtag[k1], n) \in 0 .. r - 1
  <2>1. hashtag[k1] \in Int
    BY TagTyped
  <2> QED
    BY <1>3, <2>1, InLineFits
<1>7. AllPlace[k][n][size] = Masked(bucket, mask) + InLine(hashtag[k1], n)
  BY <1>1, <1>2 DEF LinePlace
<1> HIDE DEF mask, bucket, r
<1>8. Masked(bucket, mask) \in 0 .. mask
  <2>1. bucket \in Int
    BY <1>5
  <2> QED
    BY <1>4, <2>1, MaskedBound
<1> QED
  BY <1>2, <1>4, <1>6, <1>7, <1>8

\* Of two powers of two the larger is a multiple of the smaller.
LEMMA PowersDivide == \A x, y \in BitValues : x <= y => y % x = 0
BY DEF BitValues

\* Twice a multiple is a multiple.
LEMMA TwiceMultiple ==
  ASSUME NEW x \in Nat \ {0}, NEW y \in Nat, y % x = 0
  PROVE  (2 * y) % x = 0
<1>1. PICK z \in Nat : y = z * x
  OBVIOUS
<1>2. 2 * y = (2 * z) * x
  BY <1>1
<1>3. \A w \in Nat : (w * x) % x = 0
  OBVIOUS
<1> QED
  BY <1>2, <1>3

\* A power of two is its own stride.
LEMMA StrideOfPower ==
  ASSUME readsPerLine \in BitValues
  PROVE  lineStride = readsPerLine
<1>1. \A v, w \in BitValues : v <= w /\ w < 2 * v => v = w
  BY DEF BitValues
<1>2. readsPerLine <= readsPerLine /\ readsPerLine < 2 * readsPerLine
  BY LinesAssumption
<1>3. /\ lineStride \in BitValues
      /\ lineStride <= readsPerLine /\ readsPerLine < 2 * lineStride
  BY <1>2 DEF lineStride
<1> QED
  BY <1>1, <1>3

\* Lines fill the first subtable if the sizes are powers of two.
LEMMA FirstLines ==
  ASSUME {InitSize, entPerLine, readsPerLine} \subseteq BitValues
  PROVE  initTable % readsPerLine = 0
<1>1. /\ InitSize \in BitValues /\ readsPerLine \in BitValues /\ entPerLine \in BitValues
  OBVIOUS
<1>2. /\ InitSize \in Nat \ {0} /\ readsPerLine \in Nat \ {0} /\ entPerLine \in Nat \ {0}
  BY LinesAssumption
<1>3. \E size \in {InitSize, readsPerLine, 2 * entPerLine} :
        size >= InitSize /\ size >= readsPerLine /\ size >= 2 * entPerLine
  BY <1>2
<1>4. /\ initTable \in {InitSize, readsPerLine, 2 * entPerLine}
      /\ initTable >= readsPerLine
  BY <1>3 DEF initTable
<1>5. CASE initTable \in {InitSize, readsPerLine}
  BY <1>1, <1>2, <1>4, <1>5, PowersDivide
<1>6. CASE initTable = 2 * entPerLine
  <2>1. CASE readsPerLine <= entPerLine
    <3>1. entPerLine % readsPerLine = 0
      BY <1>1, <2>1, PowersDivide
    <3> QED
      BY <1>2, <1>6, <3>1, TwiceMultiple
  <2>2. CASE ~(readsPerLine <= entPerLine)
    <3>1. readsPerLine = 2 * entPerLine
      BY <1>1, <1>4, <1>6, <2>2 DEF BitValues
    <3> QED
      BY <1>2, <1>6, <3>1
  <2> QED
    BY <2>1, <2>2
<1> QED
  BY <1>4, <1>5, <1>6

\* The lines are whole if the slots of a line and of a cache line and the size
\* asked for are powers of two.
THEOREM PowersAreWhole ==
  {InitSize, entPerLine, readsPerLine} \subseteq BitValues => WholeLines
BY FirstLines, StrideOfPower DEF WholeLines
-----------------------------------------------------------------------------
(* The tags                                                                *)

\* The tag of a key is the tag of its entry, so comparing the tags first
\* changes nothing for an insert.
LEMMA LookupIsTables ==
  ASSUME NEW t \in Threads, lookup(t)
  PROVE  Table!lookup(t)
BY DEF lookup, Table!lookup, shared, Table!shared, call, Table!call, locals, Table!locals

\* Nor for a query, if the tag is a char.
LEMMA LookupQueryIsTables ==
  ASSUME NEW t \in Threads, key[t] \in Narrow \cup {NULL}, lookupQuery(t)
  PROVE  Table!lookupQuery(t)
<1>1. ASSUME key[t] \in Narrow
      PROVE  Char(hashtag[key[t]]) = hashtag[key[t]]
  <2>1. hashtag[key[t]] \in -128 .. 127
    BY <1>1 DEF Narrow
  <2> QED
    BY <2>1 DEF Char
<1> DEFINE slot == Table!Probed(t)
           same == hashtag[slot] = Char(hashtag[key[t]]) /\ slot = key[t]
<1>2. slot # NULL => (same <=> slot = key[t])
  BY <1>1
<1> QED
  BY <1>2 DEF lookupQuery, Table!lookupQuery, shared, Table!shared

\* A step of a query that cannot recognise its key.
WideQuery == \E t \in Threads : key[t] \notin Narrow /\ lookupQuery(t) /\ Table!Look

\* Every step of the cache-line table is a step of the table, but for the
\* queries that cannot recognise their keys.
LEMMA StepIsTables ==
  ASSUME NEW t \in Threads, ThreadStep(t), Table!Look
  PROVE  Table!Next \/ WideQuery
<1>1. CASE lookup(t)
  BY <1>1, LookupIsTables DEF Table!Next, Table!ThreadStep, Table!Step
<1>2. CASE lookupQuery(t)
  <2>1. CASE key[t] \in Narrow
    BY <1>2, <2>1, LookupQueryIsTables DEF Table!Next, Table!ThreadStep, Table!Step
  <2>2. CASE key[t] \notin Narrow
    BY <1>2, <2>2 DEF WideQuery
  <2> QED
    BY <2>1, <2>2
<1>3. CASE ~lookup(t) /\ ~lookupQuery(t)
  BY <1>3 DEF ThreadStep, Table!Next, Table!ThreadStep, Table!Step
<1> QED
  BY <1>1, <1>2, <1>3

\* hashtable_cache.c implements hashtable.c, for any tags, any size of a line
\* and any number of lines per subtable, but for the queries of keys whose tags
\* are no chars.
THEOREM Implementation ==
  Spec => ImplementsHashtable
<1>1. Init => Table!Init
  BY DEF Init
<1>2. [Next]_vars => [Table!Next \/ WideQuery]_vars
  BY StepIsTables DEF Next
<1> QED
  BY <1>1, <1>2, PTL DEF Spec, ImplementsHashtable, WideQuery
-----------------------------------------------------------------------------
(* The cache-line table as an instance of hashtable.c with shadows         *)

\* The point a thread is at goes with its call.
CallsTyped ==
  /\ pc \in [Threads -> Table!Points]
  /\ op \in [Threads -> {"none", "insert", "query"}]
  /\ key \in [Threads -> Keys \cup {NULL}]
  /\ \A t \in Threads :
       /\ pc[t] = "idle" <=> op[t] = "none"
       /\ pc[t] \in {"qtable", "qlookup"} <=> op[t] = "query"
       /\ op[t] # "none" => key[t] \in Keys

\* What a call has seen includes what is right now.
SeenNow ==
  /\ seen = [t \in Threads |-> seen[t]]
  /\ \A t \in Threads :
       IF op[t] = "none"
         THEN seen[t] = {}
         ELSE (IF key[t] \in Table!Contents THEN 1 ELSE 0) \in seen[t]

\* No slot has a shadow.
SlotsHoldKeys ==
  \A jj \in DOMAIN TableArray : \A s \in Table!Slots(jj) :
    TableArray[jj].InnerTable[s] \in Keys \cup {NULL}

CInv == CallsTyped /\ SeenNow /\ SlotsHoldKeys /\ Proofs!IInv

\* What a step does to the call of its thread: it starts it, ends it, or goes on.
Starts(t) ==
  /\ op[t] = "none"
  /\ \E o \in {"insert", "query"}, k \in Keys :
       op' = [op EXCEPT ![t] = o] /\ key' = [key EXCEPT ![t] = k]
  /\ ret' = [ret EXCEPT ![t] = 0]
Ends(t) ==
  /\ op[t] # "none"
  /\ op' = [op EXCEPT ![t] = "none"]
  /\ key' = [key EXCEPT ![t] = NULL]
  /\ \E r \in {0, 1} : ret' = [ret EXCEPT ![t] = r]
GoesOn == UNCHANGED <<op, key, ret>>

\* Every step does one of the three, and keeps the types.
LEMMA CallsStep ==
  ASSUME CallsTyped, NEW t \in Threads, ThreadStep(t)
  PROVE  CallsTyped' /\ (Starts(t) \/ Ends(t) \/ GoesOn)
<1> USE DEF CallsTyped, Table!Goto, Table!call, Table!shared, Table!locals, Table!Points
<1>r. ASSUME NEW r \in {0, 1}, Table!Return(t, r), op[t] # "none"
      PROVE  CallsTyped' /\ Ends(t)
  BY <1>r DEF Table!Return, Ends
<1>n. ASSUME NEW again \in {"lookup", "qlookup"}, NEW after \in {"reload", "qtable"}, NEW jj,
             Table!NextAttempt(t, again, after, jj),
             \/ op[t] = "insert" /\ again = "lookup" /\ after = "reload"
             \/ op[t] = "query" /\ again = "qlookup" /\ after = "qtable"
      PROVE  CallsTyped' /\ GoesOn
  BY <1>n DEF Table!NextAttempt, GoesOn
<1>1. CASE Table!CallInsert(t)
  BY <1>1 DEF Table!CallInsert, Starts
<1>2. CASE Table!CallQuery(t)
  BY <1>2 DEF Table!CallQuery, Starts
<1>3. CASE Table!InsertTable(t) \/ Table!ReloadCur(t) \/ Table!addDrop(t) \/ Table!AdvanceCur(t)
  BY <1>3 DEF Table!InsertTable, Table!ReloadCur, Table!addDrop, Table!AdvanceCur, GoesOn
<1>4. CASE lookup(t)
  <2>1. op[t] = "insert"
    BY <1>4 DEF lookup
  <2>2. \/ Table!Goto(t, "claim") /\ UNCHANGED call
        \/ Table!Return(t, 0)
        \/ Table!NextAttempt(t, "lookup", "reload", j[t])
    BY <1>4 DEF lookup
  <2> QED
    BY <2>1, <2>2, <1>r, <1>n DEF call, GoesOn
<1>5. CASE Table!ClaimSlot(t)
  BY <1>5, <1>r DEF Table!ClaimSlot, GoesOn
<1>6. CASE Table!RecheckSlot(t)
  BY <1>6, <1>r, <1>n DEF Table!RecheckSlot
<1>7. CASE Table!QueryTable(t)
  BY <1>7, <1>r DEF Table!QueryTable, GoesOn
<1>8. CASE lookupQuery(t)
  <2>1. op[t] = "query"
    BY <1>8 DEF lookupQuery
  <2>2. \/ Table!Return(t, 0)
        \/ Table!Return(t, 1)
        \/ Table!NextAttempt(t, "qlookup", "qtable", j[t] + 1)
    BY <1>8 DEF lookupQuery
  <2> QED
    BY <2>1, <2>2, <1>r, <1>n
<1> QED
  BY <1>1, <1>2, <1>3, <1>4, <1>5, <1>6, <1>7, <1>8 DEF ThreadStep

\* The shadows of the keys of the calls, after the start and after the end of one.
LEMMA ShadowKeyStep ==
  ASSUME CallsTyped, NEW t \in Threads
  PROVE  /\ GoesOn => ShadowKey' = ShadowKey
         /\ Ends(t) => ShadowKey' = [ShadowKey EXCEPT ![t] = NULL]
         /\ \A k \in Keys : /\ op' = [op EXCEPT ![t] = "insert"]
                            /\ key' = [key EXCEPT ![t] = k]
                            => ShadowKey' = [ShadowKey EXCEPT ![t] = k]
         /\ \A k \in Keys : /\ op' = [op EXCEPT ![t] = "query"]
                            /\ key' = [key EXCEPT ![t] = k]
                            => \E k2 \in AllKeys : ShadowKey' = [ShadowKey EXCEPT ![t] = k2]
<1> USE DEF CallsTyped, ShadowKey, Wide
<1>1. GoesOn => ShadowKey' = ShadowKey
  BY DEF GoesOn
<1>2. Ends(t) => ShadowKey' = [ShadowKey EXCEPT ![t] = NULL]
  BY DEF Ends
<1>3. ASSUME NEW k \in Keys, op' = [op EXCEPT ![t] = "insert"], key' = [key EXCEPT ![t] = k]
      PROVE  ShadowKey' = [ShadowKey EXCEPT ![t] = k]
  BY <1>3
<1>4. ASSUME NEW k \in Keys, op' = [op EXCEPT ![t] = "query"], key' = [key EXCEPT ![t] = k]
      PROVE  \E k2 \in AllKeys : ShadowKey' = [ShadowKey EXCEPT ![t] = k2]
  <2> DEFINE k2 == IF k \in Narrow THEN k ELSE Shadow(k)
  <2>1. k2 \in AllKeys
    BY DEF AllKeys, Shadows
  <2>2. ShadowKey' = [ShadowKey EXCEPT ![t] = k2]
    BY <1>4
  <2> QED
    BY <2>1, <2>2
<1> QED
  BY <1>1, <1>2, <1>3, <1>4

\* A shadow has the slots of its key.
LEMMA SameProbe ==
  ASSUME CallsTyped, NEW t \in Threads, op[t] # "none"
  PROVE  /\ Proofs!Probed(t) = Table!Probed(t)
         /\ Proofs!Bucket(ShadowKey[t], i[t], j[t]) = Table!Bucket(key[t], i[t], j[t])
<1>1. AllPlace[ShadowKey[t]] = LinePlace[key[t]]
  BY ShadowIsNew DEF CallsTyped, ShadowKey, Wide, AllPlace, AllKeys, Shadows
<1> QED
  BY <1>1 DEF Table!Probed, Proofs!Probed, Table!Slot, Proofs!Slot, Table!Bucket, Proofs!Bucket

\* The slot a query looks at is in its subtable, and holds no shadow.
LEMMA ProbedIsKey ==
  ASSUME CInv, NEW t \in Threads, pc[t] = "qlookup"
  PROVE  Table!Probed(t) \in Keys \cup {NULL}
<1>1. Proofs!PlacesFit /\ Proofs!TypeOK /\ Proofs!ThreadInv(t) /\ Proofs!SubtablesInOrder
  BY DEF CInv, Proofs!IInv
<1>2. j[t] \in DOMAIN TableArray /\ ShadowKey[t] \in AllKeys /\ i[t] \in Proofs!Attempts
  BY <1>1
  DEF Proofs!TypeOK, Proofs!TablesTyped, Proofs!LocalsTyped, Proofs!ThreadInv,
      Proofs!SubtablesInOrder
<1>3. Proofs!Bucket(ShadowKey[t], i[t], j[t]) \in Proofs!Slots(j[t])
  BY <1>1, <1>2, TableAssumption, Proofs!BucketInRange
<1>4. op[t] # "none"
  BY DEF CInv, CallsTyped
<1>5. Table!Bucket(key[t], i[t], j[t]) \in Table!Slots(j[t])
  BY <1>3, <1>4, SameProbe DEF CInv, Proofs!Slots, Table!Slots
<1> QED
  BY <1>2, <1>5 DEF CInv, SlotsHoldKeys, Table!Probed, Table!Slot

\* A tag that is no char is changed by the conversion to one.
LEMMA WideTag ==
  ASSUME NEW k \in Keys \ Narrow
  PROVE  hashtag[k] # Char(hashtag[k])
<1>1. hashtag[k] \in Int
  BY TagTyped
<1>2. Char(hashtag[k]) \in -128 .. 127
  BY <1>1 DEF Char
<1> QED
  BY <1>2 DEF Narrow

\* Every step of the cache-line table, the queries of keys with wide tags
\* included, is a step of hashtable.c with shadows.
LEMMA ShadowStep ==
  ASSUME CInv, NEW t \in Threads, ThreadStep(t)
  PROVE  Proofs!ThreadStep(t)
<1> CallsTyped
  BY DEF CInv
<1> USE DEF shared, call, locals, Table!shared, Proofs!shared, Table!call, Proofs!call,
            Table!locals, Proofs!locals, Table!Goto, Proofs!Goto
<1> USE DEF Proofs!ThreadStep, Proofs!Step
<1>c. Starts(t) \/ Ends(t) \/ GoesOn
  BY CallsStep
<1>o. /\ pc[t] = "idle" <=> op[t] = "none"
      /\ pc[t] \in {"qtable", "qlookup"} <=> op[t] = "query"
      /\ op[t] # "none" => key[t] \in Keys
      /\ op[t] \in {"none", "insert", "query"}
  BY DEF CallsTyped
<1>p. op[t] # "none" =>
        /\ Proofs!Probed(t) = Table!Probed(t)
        /\ Proofs!Bucket(ShadowKey[t], i[t], j[t]) = Table!Bucket(key[t], i[t], j[t])
  BY SameProbe
<1>k. op[t] = "insert" => ShadowKey[t] = key[t]
  BY DEF ShadowKey, Wide
<1>g. UNCHANGED <<op, key, ret>> => ShadowKey' = ShadowKey
  BY ShadowKeyStep DEF GoesOn
<1>r. \A r \in {0, 1} : op[t] # "none" /\ Table!Return(t, r) => Proofs!Return(t, r)
  BY ShadowKeyStep DEF Table!Return, Proofs!Return, Ends
<1>n. \A again, after, jj :
        Table!NextAttempt(t, again, after, jj) => Proofs!NextAttempt(t, again, after, jj)
  BY <1>g DEF Table!NextAttempt, Proofs!NextAttempt
<1>1. CASE Table!CallInsert(t)
  <2>1. PICK k \in Keys : key' = [key EXCEPT ![t] = k]
    BY <1>1 DEF Table!CallInsert
  <2>2. ShadowKey' = [ShadowKey EXCEPT ![t] = k] /\ k \in AllKeys
    BY <1>1, <2>1, ShadowKeyStep DEF Table!CallInsert, AllKeys
  <2>3. \E k2 \in AllKeys : ShadowKey' = [ShadowKey EXCEPT ![t] = k2]
    BY <2>2
  <2> QED
    BY <1>1, <2>3 DEF Table!CallInsert, Proofs!CallInsert
<1>2. CASE Table!CallQuery(t)
  <2>1. PICK k \in Keys : key' = [key EXCEPT ![t] = k]
    BY <1>2 DEF Table!CallQuery
  <2>2. \E k2 \in AllKeys : ShadowKey' = [ShadowKey EXCEPT ![t] = k2]
    BY <1>2, <2>1, ShadowKeyStep DEF Table!CallQuery
  <2> QED
    BY <1>2, <2>2 DEF Table!CallQuery, Proofs!CallQuery
<1>3. CASE Table!InsertTable(t)
  BY <1>3, <1>g DEF Table!InsertTable, Proofs!InsertTable
<1>4. CASE lookup(t)
  <2>1. Table!lookup(t) /\ op[t] = "insert"
    BY <1>4, <1>o, LookupIsTables DEF lookup
  <2> QED
    BY <2>1, <1>g, <1>k, <1>p, <1>r, <1>n DEF Table!lookup, Proofs!lookup
<1>5. CASE Table!ClaimSlot(t)
  <2>1. op[t] = "insert"
    BY <1>5, <1>o DEF Table!ClaimSlot
  <2> QED
    BY <2>1, <1>5, <1>g, <1>k, <1>p, <1>r DEF Table!ClaimSlot, Proofs!ClaimSlot
<1>6. CASE Table!RecheckSlot(t)
  <2>1. op[t] = "insert"
    BY <1>6, <1>o DEF Table!RecheckSlot
  <2> QED
    BY <2>1, <1>6, <1>k, <1>p, <1>r, <1>n DEF Table!RecheckSlot, Proofs!RecheckSlot
<1>7. CASE Table!ReloadCur(t)
  BY <1>7, <1>g DEF Table!ReloadCur, Proofs!ReloadCur
<1>8. CASE Table!addDrop(t)
  BY <1>8, <1>g DEF Table!addDrop, Proofs!addDrop, Table!createTable, Proofs!createTable
<1>9. CASE Table!AdvanceCur(t)
  BY <1>9, <1>g DEF Table!AdvanceCur, Proofs!AdvanceCur
<1>10. CASE Table!QueryTable(t)
  <2>1. op[t] # "none"
    BY <1>10, <1>o DEF Table!QueryTable
  <2> QED
    BY <2>1, <1>10, <1>g, <1>r DEF Table!QueryTable, Proofs!QueryTable
<1>11. CASE lookupQuery(t)
  <2>1. op[t] = "query" /\ pc[t] = "qlookup" /\ key[t] \in Keys
    BY <1>11, <1>o DEF lookupQuery
  <2>2. CASE key[t] \in Narrow
    <3>1. Table!lookupQuery(t) /\ ShadowKey[t] = key[t]
      BY <1>11, <2>2, LookupQueryIsTables DEF ShadowKey, Wide
    <3> QED
      BY <2>1, <3>1, <1>p, <1>r, <1>n DEF Table!lookupQuery, Proofs!lookupQuery
  <2>3. CASE key[t] \notin Narrow
    <3>1. hashtag[key[t]] # Char(hashtag[key[t]])
      BY <2>1, <2>3, WideTag
    <3>2. ShadowKey[t] = Shadow(key[t])
      BY <2>1, <2>3 DEF ShadowKey, Wide
    <3>3. Table!Probed(t) # ShadowKey[t]
      BY <2>1, <3>2, ProbedIsKey, ShadowIsNew
    <3>4. /\ UNCHANGED shared
          /\ \/ Table!Probed(t) = NULL /\ Table!Return(t, 0)
             \/ /\ Table!Probed(t) # NULL
                /\ Table!NextAttempt(t, "qlookup", "qtable", j[t] + 1)
      BY <1>11, <3>1 DEF lookupQuery
    <3> QED
      BY <2>1, <3>3, <3>4, <1>p, <1>r, <1>n DEF Proofs!lookupQuery
  <2> QED
    BY <2>2, <2>3
<1> QED
  BY <1>1, <1>2, <1>3, <1>4, <1>5, <1>6, <1>7, <1>8, <1>9, <1>10, <1>11 DEF ThreadStep

\* Only an insert fills a slot, and with its own key.
LEMMA SlotsStep ==
  ASSUME CInv, NEW t \in Threads, ThreadStep(t)
  PROVE  SlotsHoldKeys'
<1> SUFFICES ASSUME NEW jj \in DOMAIN TableArray', NEW s \in Table!Slots(jj)'
             PROVE  TableArray'[jj].InnerTable[s] \in Keys \cup {NULL}
  BY DEF SlotsHoldKeys
<1> CallsTyped /\ SlotsHoldKeys /\ Proofs!TablesTyped
  BY DEF CInv, Proofs!IInv, Proofs!TypeOK
<1>1. CASE Table!ClaimSlot(t)
  <2>1. key[t] \in Keys
    BY <1>1 DEF Table!ClaimSlot, CallsTyped
  <2>2. CASE TableArray' = TableArray
    BY <2>2 DEF SlotsHoldKeys, Table!Slots
  <2>3. CASE TableArray' # TableArray
    <3> DEFINE b == Table!Bucket(key[t], i[t], j[t])
    <3>1. TableArray' = [TableArray EXCEPT ![j[t]].InnerTable[b] = key[t]]
      BY <1>1, <2>3 DEF Table!ClaimSlot
    <3> HIDE DEF b
    <3>2. jj \in DOMAIN TableArray
      BY <3>1
    <3>3. Proofs!IsSubTable(TableArray[jj])
      BY <3>2 DEF Proofs!TablesTyped
    <3>4. CASE jj = j[t]
      <4>1. /\ TableArray'[jj].TableSize = TableArray[jj].TableSize
            /\ TableArray'[jj].InnerTable = [TableArray[jj].InnerTable EXCEPT ![b] = key[t]]
        BY <3>1, <3>2, <3>3, <3>4 DEF Proofs!IsSubTable
      <4>2. s \in Table!Slots(jj)
        BY <4>1 DEF Table!Slots
      <4>3. TableArray[jj].InnerTable[s] \in Keys \cup {NULL}
        BY <3>2, <4>2 DEF SlotsHoldKeys
      <4>4. s \in DOMAIN TableArray[jj].InnerTable
        BY <3>3, <4>2 DEF Proofs!IsSubTable, Table!Slots
      <4> QED
        BY <2>1, <4>1, <4>3, <4>4
    <3>5. CASE jj # j[t]
      <4>1. TableArray'[jj] = TableArray[jj]
        BY <3>1, <3>2, <3>5
      <4> QED
        BY <3>2, <4>1 DEF SlotsHoldKeys, Table!Slots
    <3> QED
      BY <3>4, <3>5
  <2> QED
    BY <2>2, <2>3
<1>2. CASE Table!addDrop(t)
  <2> DEFINE new == Table!createTable(2 * TableArray[LocalCur[t] - 1].TableSize)
  <2>1. \/ TableArray'[jj] = new
        \/ jj \in DOMAIN TableArray /\ TableArray'[jj] = TableArray[jj]
    BY <1>2 DEF Table!addDrop
  <2>2. \A x \in 0 .. new.TableSize - 1 : new.InnerTable[x] = NULL
    BY DEF Table!createTable
  <2> HIDE DEF new
  <2> QED
    BY <2>1, <2>2 DEF SlotsHoldKeys, Table!Slots
<1>3. CASE UNCHANGED TableArray
  BY <1>3 DEF SlotsHoldKeys, Table!Slots
<1> QED
  BY <1>1, <1>2, <1>3
  DEF ThreadStep, Table!CallInsert, Table!CallQuery, Table!InsertTable, lookup, Table!RecheckSlot,
      Table!ReloadCur, Table!AdvanceCur, Table!QueryTable, lookupQuery, shared, Table!shared

\* What a query of a shadow has seen is that it is not there.
LEMMA ShadowLook ==
  ASSUME CInv, NEW t \in Threads, ThreadStep(t), Table!Look
  PROVE  Proofs!Look /\ SeenNow'
<1>1. CallsTyped /\ CallsTyped' /\ (Starts(t) \/ Ends(t) \/ GoesOn)
  BY CallsStep DEF CInv
<1>2. Proofs!Contents' = Table!Contents'
  <2>1. SlotsHoldKeys'
    BY SlotsStep
  <2> QED
    BY <2>1, ShadowIsNew
    DEF SlotsHoldKeys, AllKeys, Shadows, Proofs!Contents, Table!Contents, Proofs!Slots,
        Table!Slots, Proofs!Holds, Table!Holds
<1>3. \A k \in Keys : Shadow(k) \notin Table!Contents'
  BY ShadowIsNew DEF Table!Contents
<1>4. SeenNow'
  BY DEF SeenNow, Table!Look
<1>5. ASSUME NEW u \in Threads
      PROVE  ShadowSeen'[u] =
               IF op'[u] = "none" THEN {}
               ELSE ShadowSeen[u] \cup {IF ShadowKey'[u] \in Proofs!Contents' THEN 1 ELSE 0}
  <2>1. CASE Wide(u)'
    <3>1. ShadowSeen'[u] = {0} /\ op'[u] # "none" /\ ShadowKey'[u] = Shadow(key'[u])
          /\ key'[u] \in Keys
      BY <2>1 DEF ShadowSeen, ShadowKey, Wide
    <3>2. ShadowSeen[u] \in {{0}, {}}
      <4>1. CASE Wide(u)
        BY <4>1 DEF ShadowSeen
      <4>2. CASE op[u] = "none"
        BY <4>2 DEF CInv, SeenNow, ShadowSeen, Wide
      <4>3. CASE op[u] # "none" /\ ~Wide(u)
        BY <1>1, <2>1, <4>3 DEF Starts, Ends, GoesOn, CallsTyped, Wide
      <4> QED
        BY <4>1, <4>2, <4>3
    <3> QED
      BY <1>2, <1>3, <3>1, <3>2
  <2>2. CASE ~Wide(u)'
    <3>1. ShadowSeen'[u] = seen'[u] /\ ShadowKey'[u] = key'[u]
      BY <2>2 DEF ShadowSeen, ShadowKey
    <3>2. seen'[u] = IF op'[u] = "none" THEN {}
                     ELSE seen[u] \cup {IF key'[u] \in Table!Contents' THEN 1 ELSE 0}
      BY DEF Table!Look
    <3>3. CASE op'[u] = "none"
      BY <3>1, <3>2, <3>3
    <3>4. CASE op'[u] # "none"
      <4>1. ~Wide(u)
        BY <1>1, <2>2, <3>4 DEF Starts, Ends, GoesOn, CallsTyped, Wide
      <4>2. ShadowSeen[u] = seen[u]
        BY <4>1 DEF ShadowSeen
      <4> QED
        BY <1>2, <3>1, <3>2, <3>4, <4>2
    <3> QED
      BY <3>3, <3>4
  <2> QED
    BY <2>1, <2>2
<1>6. Proofs!Look
  <2>1. ShadowSeen' = [u \in Threads |-> ShadowSeen'[u]]
    BY DEF ShadowSeen
  <2> QED
    BY <1>5, <2>1 DEF Proofs!Look
<1> QED
  BY <1>4, <1>6

\* initTable makes an empty table, and nobody is in a call.
LEMMA ShadowInit ==
  WholeLines /\ Init => CInv /\ Proofs!Init
<1> SUFFICES ASSUME WholeLines, Init
             PROVE  CInv /\ Proofs!Init
  OBVIOUS
<1> USE DEF Init, Table!Init
<1>1. ShadowKey = [t \in Threads |-> NULL] /\ ShadowSeen = [t \in Threads |-> {}]
  BY DEF ShadowKey, ShadowSeen, Wide
<1>2. Proofs!Init
  BY <1>1 DEF Proofs!Init, Table!createTable, Proofs!createTable
<1>3. Proofs!IInv
  BY <1>2, WholeLinesFit, TableAssumption, Proofs!InitInv
<1>4. CallsTyped /\ SeenNow
  BY DEF CallsTyped, SeenNow, Table!Points
<1>5. SlotsHoldKeys
  BY DEF SlotsHoldKeys, Table!createTable, Table!Slots
<1> QED
  BY <1>2, <1>3, <1>4, <1>5 DEF CInv

\* The invariant is inductive, and every step is one of the instance.
LEMMA ShadowNext ==
  CInv /\ [Next]_vars => CInv' /\ [Proofs!Next]_(Proofs!vars)
<1> SUFFICES ASSUME CInv, [Next]_vars
             PROVE  CInv' /\ [Proofs!Next]_(Proofs!vars)
  OBVIOUS
<1>1. CASE Next
  <2>1. PICK t \in Threads : ThreadStep(t) /\ Table!Look
    BY <1>1 DEF Next
  <2>2. Proofs!ThreadStep(t) /\ Proofs!Look /\ SeenNow'
    BY <2>1, ShadowStep, ShadowLook
  <2>3. Proofs!Next
    BY <2>2 DEF Proofs!Next
  <2>4. Proofs!IInv'
    BY <2>3, TableAssumption, Proofs!StepInv DEF CInv
  <2>5. CallsTyped' /\ SlotsHoldKeys'
    BY <2>1, CallsStep, SlotsStep DEF CInv
  <2> QED
    BY <2>2, <2>3, <2>4, <2>5 DEF CInv
<1>2. CASE UNCHANGED vars
  <2>1. UNCHANGED <<ShadowKey, ShadowSeen>>
    BY <1>2 DEF vars, ShadowKey, ShadowSeen, Wide
  <2>2. UNCHANGED Proofs!vars
    BY <1>2, <2>1 DEF vars, Proofs!vars
  <2>3. Proofs!IInv'
    BY <2>2, TableAssumption, Proofs!StepInv DEF CInv
  <2>4. (CallsTyped /\ SeenNow /\ SlotsHoldKeys)'
    BY <1>2 DEF vars, CInv, CallsTyped, SeenNow, SlotsHoldKeys, Table!Slots, Table!Contents,
                Table!Holds
  <2> QED
    BY <2>2, <2>3, <2>4 DEF CInv
<1> QED
  BY <1>1, <1>2

\* The invariant holds of the cache-line table, which is an instance of hashtable.c.
LEMMA ShadowImplementation ==
  WholeLines /\ Spec => []CInv /\ Proofs!Spec
BY ShadowInit, ShadowNext, PTL DEF Spec, Proofs!Spec
-----------------------------------------------------------------------------
(* What the theorems about hashtable.c say of the cache-line table         *)

\* No key is in the cache-line table twice, however the inserts race, for any
\* number of threads, keys, lines and slots of a line, and any tags.
THEOREM NoDuplicateKeyCorrect ==
  WholeLines /\ Spec => []NoDuplicateKey
<1>1. Proofs!NoDuplicateKey => NoDuplicateKey
  BY DEF NoDuplicateKey, Table!NoDuplicateKey, Proofs!NoDuplicateKey, Table!Holds, Proofs!Holds,
         Table!Slots, Proofs!Slots, AllKeys
<1>2. WholeLines /\ Proofs!Spec => []Proofs!NoDuplicateKey
  BY WholeLinesFit, TableAssumption, Proofs!NoDuplicateKeyCorrect
<1> QED
  BY <1>1, <1>2, ShadowImplementation, PTL

\* A key is on its own path round its lines, with no empty slot before it: a
\* query that meets an empty slot may stop.
THEOREM FirstNullBucketCorrect ==
  WholeLines /\ Spec => []FirstNullBucket
<1>1. Proofs!FirstNullBucket => FirstNullBucket
  <2>1. \A k \in Keys : k \in AllKeys /\ AllPlace[k] = LinePlace[k]
    BY DEF AllPlace, AllKeys
  <2>2. \A k \in Keys : \A n, jj : /\ Table!Bucket(k, n, jj) = Proofs!Bucket(k, n, jj)
                                   /\ Table!Slot(k, n, jj) = Proofs!Slot(k, n, jj)
    BY <2>1 DEF Table!Bucket, Proofs!Bucket, Table!Slot, Proofs!Slot
  <2>3. \A k \in Keys : \A n, jj : Proofs!Passed(k, jj, n) => Table!Passed(k, jj, n)
    BY <2>2 DEF Table!Passed, Proofs!Passed, Table!PassedBelow, Proofs!PassedBelow,
                Table!Attempts, Proofs!Attempts
  <2> QED
    BY <2>1, <2>2, <2>3
    DEF FirstNullBucket, Table!FirstNullBucket, Proofs!FirstNullBucket, Table!Holds, Proofs!Holds,
        Table!Slots, Proofs!Slots, Table!Attempts, Proofs!Attempts
<1>2. WholeLines /\ Proofs!Spec => []Proofs!FirstNullBucket
  BY WholeLinesFit, TableAssumption, Proofs!FirstNullBucketCorrect
<1> QED
  BY <1>1, <1>2, ShadowImplementation, PTL

\* A step of the set with shadows is a step of the set without, or the answer 0
\* to a query of a key with a wide tag.
LEMMA SetStep ==
  ASSUME CInv, CInv', [Next]_vars, [Proofs!Set!Next]_(Proofs!Set!vars)
  PROVE  [Table!Set!Next \/ MissesWideTag]_(Table!Set!vars)
<1>1. Proofs!Contents = Table!Contents /\ Proofs!Contents' = Table!Contents'
  <2>1. SlotsHoldKeys /\ SlotsHoldKeys'
    BY DEF CInv
  <2> QED
    BY <2>1, ShadowIsNew
    DEF SlotsHoldKeys, AllKeys, Shadows, Proofs!Contents, Table!Contents, Proofs!Slots,
        Table!Slots, Proofs!Holds, Table!Holds
<1>2. CallsTyped /\ SeenNow
  BY DEF CInv
<1>3. CASE UNCHANGED vars
  <2>1. UNCHANGED Table!Contents
    BY <1>3 DEF vars, Table!Contents, Table!Slots, Table!Holds
  <2> QED
    BY <1>3, <2>1 DEF vars, Table!Set!vars
<1>4. CASE Next
  <2>1. PICK t \in Threads : ThreadStep(t) /\ Table!Look
    BY <1>4 DEF Next
  <2>2. Starts(t) \/ Ends(t) \/ GoesOn
    BY <1>2, <2>1, CallsStep
  <2>l. Table!Set!Look
    BY <2>1 DEF Table!Set!Look, Table!Look
  <2>s. ASSUME NEW u \in Threads
        PROVE  /\ op'[u] # op[u] => op'[t] # op[t] /\ u = t
    BY <1>2, <2>2 DEF Starts, Ends, GoesOn, CallsTyped
  <2>m. \/ UNCHANGED Proofs!Set!vars
        \/ /\ \E u \in Threads : op'[u] # op[u]
           /\ op[t] = "none" => UNCHANGED Table!Contents
           /\ op[t] # "none" => Proofs!Set!Insert(t) \/ Proofs!Set!Query(t)
    <3> SUFFICES ASSUME Proofs!Set!Next
                 PROVE  /\ \E u \in Threads : op'[u] # op[u]
                        /\ op[t] = "none" => UNCHANGED Table!Contents
                        /\ op[t] # "none" => Proofs!Set!Insert(t) \/ Proofs!Set!Query(t)
      OBVIOUS
    <3>1. PICK u \in Threads : \/ \E o \in {"insert", "query"}, k \in AllKeys :
                                    Proofs!Set!Invoke(u, o, k)
                               \/ Proofs!Set!Insert(u)
                               \/ Proofs!Set!Query(u)
                               \/ Proofs!Set!Delete(u)
      BY DEF Proofs!Set!Next
    <3>2. CASE \E o \in {"insert", "query"}, k \in AllKeys : Proofs!Set!Invoke(u, o, k)
      <4>1. op[u] = "none" /\ op'[u] # op[u] /\ UNCHANGED Proofs!Contents
        BY <1>2, <3>2 DEF Proofs!Set!Invoke, CallsTyped
      <4> QED
        BY <1>1, <2>s, <4>1
    <3>3. CASE Proofs!Set!Insert(u) \/ Proofs!Set!Query(u) \/ Proofs!Set!Delete(u)
      <4>1. op[u] \in {"insert", "query"} /\ op'[u] = "none" /\ ~Proofs!Set!Delete(u)
        BY <1>2, <3>3
        DEF Proofs!Set!Insert, Proofs!Set!Query, Proofs!Set!Delete, Proofs!Set!Complete, CallsTyped
      <4> QED
        BY <2>s, <3>3, <4>1
    <3> QED
      BY <3>1, <3>2, <3>3
  <2>3. CASE GoesOn
    <3>1. UNCHANGED Table!Contents
      BY <1>1, <2>3, <2>m DEF GoesOn, Proofs!Set!vars
    <3>2. UNCHANGED seen
      <4>1. ASSUME NEW u \in Threads
            PROVE  seen'[u] = seen[u]
        BY <1>2, <2>1, <2>3, <3>1 DEF GoesOn, Table!Look, SeenNow
      <4>2. seen' = [u \in Threads |-> seen'[u]] /\ seen = [u \in Threads |-> seen[u]]
        BY <1>2, <2>1 DEF Table!Look, SeenNow
      <4> QED
        BY <4>1, <4>2
    <3> QED
      BY <2>3, <3>1, <3>2 DEF GoesOn, Table!Set!vars
  <2>4. CASE Starts(t)
    <3>1. UNCHANGED Table!Contents
      BY <1>1, <2>4, <2>m DEF Starts, Proofs!Set!vars
    <3> QED
      BY <2>4, <2>l, <3>1 DEF Starts, Table!Set!Next, Table!Set!Invoke
  <2>5. CASE Ends(t)
    <3>1. Proofs!Set!Insert(t) \/ Proofs!Set!Query(t)
      <4>1. op'[t] # op[t]
        BY <1>2, <2>5 DEF Ends, CallsTyped
      <4> QED
        BY <2>5, <2>m, <4>1 DEF Ends, Proofs!Set!vars
    <3>2. \A S, r : Proofs!Set!Complete(t, S, r) => Table!Set!Complete(t, S, r)
      BY <1>1, <2>5, <2>l DEF Proofs!Set!Complete, Table!Set!Complete, Ends
    <3>3. CASE Wide(t)
      <4>1. Proofs!Set!Query(t) /\ ShadowSeen[t] = {0}
        BY <3>1, <3>3 DEF Wide, ShadowSeen, Proofs!Set!Insert
      <4>2. Table!Set!Complete(t, Table!Contents, 0)
        BY <1>1, <3>2, <4>1 DEF Proofs!Set!Query
      <4> QED
        BY <3>3, <4>2 DEF MissesWideTag, Wide
    <3>4. CASE ~Wide(t)
      <4>1. ShadowKey[t] = key[t] /\ ShadowSeen[t] = seen[t]
        BY <3>4 DEF ShadowKey, ShadowSeen
      <4>2. Table!Set!Insert(t) \/ Table!Set!Query(t)
        BY <1>1, <3>1, <3>2, <4>1
        DEF Proofs!Set!Insert, Table!Set!Insert, Proofs!Set!Query, Table!Set!Query
      <4> QED
        BY <4>2 DEF Table!Set!Next
    <3> QED
      BY <3>3, <3>4
  <2> QED
    BY <2>2, <2>3, <2>4, <2>5
<1> QED
  BY <1>3, <1>4

\* insertTable and checkTableQuery of hashtable_cache.c are linearizable, but for
\* queries of keys whose tags are no chars, which return 0.
THEOREM Linearizability ==
  WholeLines /\ Spec => LinearizableButWideTags
<1>1. Init => Table!Set!Init
  <2> SUFFICES ASSUME Init
               PROVE  Table!Set!Init
    OBVIOUS
  <2>1. Table!Contents = {}
    BY HashtableCacheAssumption
    DEF Init, Table!Init, Table!createTable, Table!Contents, Table!Holds, Table!Slots
  <2> QED
    BY <2>1 DEF Init, Table!Init, Table!Set!Init
<1>2. WholeLines /\ Proofs!Spec => Proofs!Linearizable
  BY WholeLinesFit, TableAssumption, Proofs!Linearizability
<1>3. CInv /\ CInv' /\ [Next]_vars /\ [Proofs!Set!Next]_(Proofs!Set!vars)
        => [Table!Set!Next \/ MissesWideTag]_(Table!Set!vars)
  BY SetStep
<1> QED
  BY <1>1, <1>2, <1>3, ShadowImplementation, PTL
  DEF Spec, LinearizableButWideTags, Proofs!Linearizable, Proofs!Set!Spec

\* No call of hashtable_cache.c looks past the end of its subtable, whatever the
\* tags and hash values, for any number of threads, keys and lines, if the lines
\* are whole: addDrop keeps them so.
THEOREM ProbesInTableCorrect ==
  WholeLines /\ Spec => []ProbesInTable
<1>1. CInv => ProbesInTable
  <2> SUFFICES ASSUME CInv, NEW t \in Threads, pc[t] \in {"lookup", "claim", "recheck", "qlookup"}
               PROVE  Table!Bucket(key[t], i[t], j[t]) \in Table!Slots(j[t])
    BY DEF ProbesInTable
  <2>1. Proofs!PlacesFit /\ Proofs!TypeOK /\ Proofs!ThreadInv(t) /\ Proofs!SubtablesInOrder
    BY DEF CInv, Proofs!IInv
  <2>2. op[t] # "none"
    BY DEF CInv, CallsTyped
  <2>3. j[t] \in DOMAIN TableArray /\ ShadowKey[t] \in AllKeys /\ i[t] \in Proofs!Attempts
    BY <2>1
    DEF Proofs!TypeOK, Proofs!TablesTyped, Proofs!LocalsTyped, Proofs!ThreadInv,
        Proofs!SubtablesInOrder, Proofs!InsertPoints, Proofs!QueryPoints
  <2>4. Proofs!Bucket(ShadowKey[t], i[t], j[t]) \in Proofs!Slots(j[t])
    BY <2>1, <2>3, TableAssumption, Proofs!BucketInRange
  <2> QED
    BY <2>2, <2>4, SameProbe DEF CInv, Proofs!Slots, Table!Slots
<1> QED
  BY <1>1, ShadowImplementation, PTL
=============================================================================
