--------------------------- MODULE ChartCache_proofs ---------------------------
(***************************************************************************)
(* The chart cache and the goroutines that use it keep to directories of   *)
(* their own, for any number of goroutines, keys, calls and cleanups.      *)
(***************************************************************************)
EXTENDS ChartCache, FiniteSetTheorems, TLAPS

Works(n) ==
    {Idle} \cup [pc : {"get", "count", "expand", "failed"}, key : Keys]
           \cup [pc : {"set", "mkdir"}, key : Keys, src : 1 .. n]
           \cup [pc : {"templates", "values", "using"}, key : Keys, src : 1 .. n,
                 copy : 1 .. n, names : SUBSET Files]

Dirs == [key : Keys, tpl : {"none", "full", "emptied", "gone"}, val : BOOLEAN]

\* The type invariant without its bounds.
Types ==
    /\ DOMAIN entries \subseteq Keys
    /\ \A k \in DOMAIN entries : entries[k] \in [dir : 1 .. made, expired : BOOLEAN]
    /\ DOMAIN disk \subseteq 1 .. made
    /\ \A d \in DOMAIN disk : disk[d] \in Dirs
    /\ work \in [Workers -> Works(made)]
    /\ cleaning \subseteq 1 .. made
    /\ made \in Nat /\ waiting \in Nat /\ calls \in 0 .. MaxCalls

(***************************************************************************)
(* First the bounds: a call makes at most two directories, the chart it    *)
(* expands and the copy it returns, and starts at most one cleanup. What a *)
(* goroutine may still do is part of the count.                            *)
(***************************************************************************)
InPc(S) == {w \in Workers : work[w].pc \in S}

BeforeCount == {"get", "count"}
BeforeExpand == {"get", "count", "expand"}
BeforeCopy == {"set", "mkdir"}

Finite == /\ IsFiniteSet(InPc(BeforeCount)) /\ IsFiniteSet(InPc(BeforeExpand))
          /\ IsFiniteSet(InPc(BeforeCopy))

Budget ==
    /\ made + 2 * Cardinality(InPc(BeforeExpand)) + Cardinality(InPc(BeforeCopy))
          <= Cardinality(Warm) + 2 * calls
    /\ waiting + Cardinality(InPc(BeforeCount)) <= calls

LEMMA Moves ==
    ASSUME DOMAIN work = Workers, NEW w \in Workers, NEW s, Goto(w, s),
           NEW S, IsFiniteSet(InPc(S))
    PROVE  /\ IsFiniteSet(InPc(S)') /\ Cardinality(InPc(S)) \in Nat
           /\ Cardinality(InPc(S)') = Cardinality(InPc(S))
                 + (IF s.pc \in S THEN 1 ELSE 0) - (IF work[w].pc \in S THEN 1 ELSE 0)
<1>1. InPc(S)' = IF s.pc \in S THEN InPc(S) \cup {w} ELSE InPc(S) \ {w}
  BY DEF InPc, Goto
<1>2. w \in InPc(S) <=> work[w].pc \in S
  BY DEF InPc
<1>3. Cardinality(InPc(S)) \in Nat
  BY FS_CardinalityType
<1>4. /\ IsFiniteSet(InPc(S) \cup {w})
      /\ Cardinality(InPc(S) \cup {w}) = IF w \in InPc(S) THEN Cardinality(InPc(S))
                                         ELSE Cardinality(InPc(S)) + 1
  BY FS_AddElement
<1>5. /\ IsFiniteSet(InPc(S) \ {w})
      /\ Cardinality(InPc(S) \ {w}) = IF w \in InPc(S) THEN Cardinality(InPc(S)) - 1
                                      ELSE Cardinality(InPc(S))
  BY FS_RemoveElement
<1> QED BY <1>1, <1>2, <1>3, <1>4, <1>5

Cost(pc) == IF pc \in BeforeExpand THEN 2 ELSE IF pc \in BeforeCopy THEN 1 ELSE 0
Starts(pc) == IF pc \in BeforeCount THEN 1 ELSE 0

LEMMA BudgetKept ==
    ASSUME Types, Finite, Budget, NEW w \in Workers, NEW s, Goto(w, s),
           made' \in Nat, waiting' \in Nat, calls' \in Nat,
           made' + Cost(s.pc) <= made + Cost(work[w].pc) + 2 * (calls' - calls),
           waiting' + Starts(s.pc) <= waiting + Starts(work[w].pc) + (calls' - calls)
    PROVE  Finite' /\ Budget'
<1>1. DOMAIN work = Workers /\ made \in Nat /\ waiting \in Nat /\ calls \in Nat
  BY CacheAssumption DEF Types
<1>2. Cardinality(Warm) \in Nat
  BY CacheAssumption, FS_CardinalityType
<1> DEFINE Counts(S) == /\ IsFiniteSet(InPc(S)') /\ Cardinality(InPc(S)) \in Nat
                        /\ Cardinality(InPc(S)') = Cardinality(InPc(S))
                             + (IF s.pc \in S THEN 1 ELSE 0) - (IF work[w].pc \in S THEN 1 ELSE 0)
<1>3. Counts(BeforeCount)
  BY <1>1, Moves DEF Finite
<1>4. Counts(BeforeExpand)
  BY <1>1, Moves DEF Finite
<1>5. Counts(BeforeCopy)
  BY <1>1, Moves DEF Finite
<1>6. Finite'
  BY <1>3, <1>4, <1>5 DEF Finite
<1>7. \A pc : ~ (pc \in BeforeExpand /\ pc \in BeforeCopy)
  BY DEF BeforeExpand, BeforeCopy
<1>8. /\ Cost(s.pc) = 2 * (IF s.pc \in BeforeExpand THEN 1 ELSE 0)
                        + (IF s.pc \in BeforeCopy THEN 1 ELSE 0)
      /\ Cost(work[w].pc) = 2 * (IF work[w].pc \in BeforeExpand THEN 1 ELSE 0)
                        + (IF work[w].pc \in BeforeCopy THEN 1 ELSE 0)
  BY <1>7 DEF Cost
<1>9. (waiting + Cardinality(InPc(BeforeCount)) <= calls)'
  BY <1>1, <1>3 DEF Budget, Starts
<1>10. (made + 2 * Cardinality(InPc(BeforeExpand)) + Cardinality(InPc(BeforeCopy))
          <= Cardinality(Warm) + 2 * calls)'
  <2> DEFINE a == IF s.pc \in BeforeExpand THEN 1 ELSE 0
             b == IF work[w].pc \in BeforeExpand THEN 1 ELSE 0
             c == IF s.pc \in BeforeCopy THEN 1 ELSE 0
             d == IF work[w].pc \in BeforeCopy THEN 1 ELSE 0
             E == Cardinality(InPc(BeforeExpand))
             C == Cardinality(InPc(BeforeCopy))
             W == Cardinality(Warm)
             n == made'
             j == calls'
  <2>1. /\ a \in Int /\ b \in Int /\ c \in Int /\ d \in Int /\ E \in Int /\ C \in Int
        /\ W \in Int /\ n \in Int /\ j \in Int /\ made \in Int /\ calls \in Int
    BY <1>1, <1>2, <1>4, <1>5
  <2>2. Cardinality(InPc(BeforeExpand)') = E + a - b /\ Cardinality(InPc(BeforeCopy)') = C + c - d
    BY <1>4, <1>5
  <2>3. n + (2 * a + c) <= made + (2 * b + d) + 2 * (j - calls)
    BY <1>8
  <2>4. made + 2 * E + C <= W + 2 * calls
    BY DEF Budget
  <2>5. n + 2 * (E + a - b) + (C + c - d) <= W + 2 * j
    <3> HIDE DEF a, b, c, d, E, C, W, n, j
    <3> QED BY ONLY <2>1, <2>3, <2>4
  <2> QED BY <2>2, <2>5
<1> QED BY <1>6, <1>9, <1>10 DEF Budget

\* Made directories are only ever added.
LEMMA WorkMoves ==
    ASSUME Types, made' \in Nat, made <= made', NEW w \in Workers, NEW s \in Works(made'),
           Goto(w, s)
    PROVE  /\ work' \in [Workers -> Works(made')]
           /\ work'[w] = s /\ \A v \in Workers \ {w} : work'[v] = work[v]
<1>1. work \in [Workers -> Works(made)] /\ made \in Nat
  BY DEF Types
<1>2. 1 .. made \subseteq 1 .. made'
  BY <1>1
<1>3. Works(made) \subseteq Works(made')
  BY <1>2 DEF Works
<1> QED BY <1>1, <1>3 DEF Goto

-----------------------------------------------------------------------------
(***************************************************************************)
(* Who a directory belongs to. A goroutine owns the chart it has expanded  *)
(* until it is cached, and the copy it makes and uses; it reads the one it *)
(* copies from.                                                            *)
(***************************************************************************)
Owned(w) == IF work[w].pc = "set" THEN {work[w].src}
            ELSE IF work[w].pc \in {"templates", "values", "using"} THEN {work[w].copy}
            ELSE {}
Reads(w) == IF work[w].pc \in {"mkdir", "templates", "values", "using"} THEN {work[w].src}
            ELSE {}

\* The directories of all entries, expired or not, are complete, and the
\* cleanup only removes directories that no entry names any more.
Entries == /\ \A k \in DOMAIN entries :
                 /\ entries[k].dir \in DOMAIN disk /\ disk[entries[k].dir] = Chart(k)
                 /\ entries[k].dir \notin cleaning
           /\ cleaning \subseteq DOMAIN disk

\* An owned directory is not the cache's, and nobody else owns or reads it.
Private(w) == \A d \in Owned(w) :
    /\ d \in DOMAIN disk /\ d \notin cleaning
    /\ \A k \in DOMAIN entries : entries[k].dir # d
    /\ \A v \in Workers : v # w => d \notin Owned(v)
    /\ \A v \in Workers : d \notin Reads(v)

\* What a goroutine has made so far. What it has not found any more was taken
\* away by a cleanup, and does not come back.
Content(w) ==
    /\ work[w].pc = "set" => disk[work[w].src] = Chart(work[w].key)
    /\ \A d \in Reads(w) : d \in DOMAIN disk => disk[d].key = work[w].key
    /\ work[w].pc \in {"templates", "values", "using"} => disk[work[w].copy].key = work[w].key
    /\ work[w].pc \in {"templates", "values"} /\ work[w].names # Files => ~ Whole(work[w].src)
    /\ work[w].pc \in {"values", "using"} /\ disk[work[w].copy].tpl # "full" =>
          ~ Whole(work[w].src)
    /\ work[w].pc = "using" /\ ~ disk[work[w].copy].val => ~ Whole(work[w].src)

CInv == /\ Types /\ Finite /\ Budget /\ Entries
        /\ \A w \in Workers : Private(w) /\ Content(w)

LEMMA ChartFields ==
    \A k : Chart(k).key = k /\ Chart(k).tpl = "full" /\ Chart(k).val = TRUE
BY DEF Chart

LEMMA CInvImplies == CInv => CacheIntact /\ ChartInUse
<1> SUFFICES ASSUME CInv PROVE CacheIntact /\ ChartInUse
  OBVIOUS
<1>1. TypeOK
  <2>1. /\ Cardinality(Warm) \in Nat /\ Cardinality(InPc(BeforeExpand)) \in Nat
        /\ Cardinality(InPc(BeforeCopy)) \in Nat /\ Cardinality(InPc(BeforeCount)) \in Nat
    BY CacheAssumption, FS_CardinalityType DEF CInv, Finite
  <2>2. made <= Cardinality(Warm) + 2 * MaxCalls /\ waiting <= MaxCalls
    BY <2>1, CacheAssumption DEF CInv, Budget, Types
  <2>3. made \in 0 .. Cardinality(Warm) + 2 * MaxCalls /\ waiting \in 0 .. MaxCalls
    BY <2>1, <2>2, CacheAssumption DEF CInv, Types
  <2> QED BY <2>3 DEF CInv, Types, TypeOK, Works, Dirs
<1>2. LiveEntryComplete
  BY DEF CInv, Entries, LiveEntryComplete
<1>3. ChartsPrivate
  BY DEF CInv, Private, Owned, At, ChartsPrivate
<1>4. ChartInUse
  <2> SUFFICES ASSUME NEW w \in Workers, work[w].pc = "using"
               PROVE  LET c == work[w].copy src == work[w].src
                      IN  /\ c \in DOMAIN disk /\ disk[c].key = work[w].key
                          /\ \/ Whole(c)
                             \/ ~ Whole(src) /\ \A k \in DOMAIN entries : entries[k].dir # src
    BY DEF ChartInUse, At
  <2>1. Private(w) /\ Content(w) /\ Entries
    BY DEF CInv
  <2>2. work[w].copy \in DOMAIN disk /\ disk[work[w].copy].key = work[w].key
    BY <2>1 DEF Private, Owned, Content
  <2>3. Whole(work[w].copy) \/ ~ Whole(work[w].src)
    BY <2>1, <2>2 DEF Content, Whole
  <2>4. \A k \in DOMAIN entries : Whole(entries[k].dir)
    BY <2>1, ChartFields DEF Entries, Whole
  <2> QED BY <2>2, <2>3, <2>4
<1> QED BY <1>1, <1>2, <1>3, <1>4 DEF CacheIntact

LEMMA CInit == Init => CInv
<1> SUFFICES ASSUME Init PROVE CInv
  OBVIOUS
<1>1. made = Cardinality(Warm) /\ Cardinality(Warm) \in Nat
  BY CacheAssumption, FS_CardinalityType DEF Init
<1>2. PICK number \in Bijection(Warm, 1 .. made) :
        /\ entries = [k \in Warm |-> [dir |-> number[k], expired |-> FALSE]]
        /\ disk = [d \in 1 .. made |-> Chart(CHOOSE k \in Warm : number[k] = d)]
  BY DEF Init
<1>3. /\ work = [w \in Workers |-> Idle] /\ waiting = 0 /\ cleaning = {} /\ calls = 0
  BY DEF Init
<1>4. /\ number \in [Warm -> 1 .. made]
      /\ \A j, k \in Warm : number[j] = number[k] => j = k
      /\ \A d \in 1 .. made : \E k \in Warm : number[k] = d
  BY <1>2 DEF Bijection, Injection, Surjection, IsInjective
<1>5. \A d \in 1 .. made : (CHOOSE k \in Warm : number[k] = d) \in Warm
  BY <1>4
<1>6. \A k \in Warm : (CHOOSE j \in Warm : number[j] = number[k]) = k
  BY <1>4
<1>7. Types
  <2>1. \A d \in DOMAIN disk : disk[d] \in Dirs
    BY <1>2, <1>5, CacheAssumption DEF Dirs, Chart
  <2>2. \A k \in DOMAIN entries : entries[k] \in [dir : 1 .. made, expired : BOOLEAN]
    BY <1>2, <1>4
  <2>3. work \in [Workers -> Works(made)]
    BY <1>3 DEF Works
  <2> QED BY <1>1, <1>2, <1>3, <2>1, <2>2, <2>3, CacheAssumption DEF Types
<1>8. \A w \in Workers : work[w].pc = "idle"
  BY <1>3 DEF Idle
<1>9. InPc(BeforeCount) = {} /\ InPc(BeforeExpand) = {} /\ InPc(BeforeCopy) = {}
  BY <1>8 DEF InPc, BeforeCount, BeforeExpand, BeforeCopy
<1>10. Finite /\ Budget
  BY <1>1, <1>3, <1>9, FS_EmptySet DEF Finite, Budget
<1>11. Entries
  BY <1>2, <1>3, <1>4, <1>6 DEF Entries
<1>12. \A w \in Workers : Private(w) /\ Content(w)
  BY <1>8 DEF Private, Owned, Content, Reads
<1> QED BY <1>7, <1>10, <1>11, <1>12 DEF CInv

-----------------------------------------------------------------------------
\* The steps of PrepareChart, by what they do to the directories.

LEMMA Others ==
    ASSUME NEW w \in Workers, \A v \in Workers \ {w} : work'[v] = work[v]
    PROVE  \A v \in Workers \ {w} : Owned(v)' = Owned(v) /\ Reads(v)' = Reads(v)
BY DEF Owned, Reads

\* A goroutine that does not move keeps what it has when its own directories are
\* left alone and what it reads is at most taken apart.
LEMMA ContentKept ==
    ASSUME NEW v \in Workers, Content(v), work'[v] = work[v],
           \A e \in Owned(v) : disk'[e] = disk[e],
           \A e \in Reads(v) : e \in DOMAIN disk' =>
              /\ e \in DOMAIN disk /\ disk'[e].key = disk[e].key
              /\ disk'[e].tpl = "full" /\ disk'[e].val => disk[e].tpl = "full" /\ disk[e].val
    PROVE  Content(v)'
<1>1. Owned(v)' = Owned(v) /\ Reads(v)' = Reads(v)
  BY DEF Owned, Reads
<1>2. \A e \in Reads(v) : ~ Whole(e) => ~ Whole(e)'
  BY DEF Whole
<1>3. \A e \in Reads(v) : e \in DOMAIN disk' => disk'[e].key = work[v].key
  BY DEF Content
<1>4. work[v].pc = "set" => disk'[work[v].src] = disk[work[v].src]
  BY DEF Owned
<1>5. work[v].pc \in {"templates", "values", "using"} =>
        work[v].src \in Reads(v) /\ disk'[work[v].copy] = disk[work[v].copy]
  BY DEF Owned, Reads
<1> QED BY <1>1, <1>2, <1>3, <1>4, <1>5 DEF Content

\* A goroutine goes on without touching a directory; it may read one of the cache.
LEMMA CQuiet ==
    ASSUME CInv, NEW w \in Workers, NEW s \in Works(made), Goto(w, s),
           UNCHANGED <<entries, disk, made, cleaning>>,
           waiting' \in Nat, calls' \in 0 .. MaxCalls,
           Cost(s.pc) <= Cost(work[w].pc) + 2 * (calls' - calls),
           waiting' + Starts(s.pc) <= waiting + Starts(work[w].pc) + (calls' - calls),
           \/ s.pc \in {"get", "count", "expand", "failed", "idle"}
           \/ /\ s.pc = "mkdir"
              /\ \E k \in DOMAIN entries : s.src = entries[k].dir /\ s.key = k
    PROVE  CInv'
<1>0. Types /\ Finite /\ Budget /\ Entries /\ \A v \in Workers : Private(v) /\ Content(v)
  BY DEF CInv
<1>1. /\ work' \in [Workers -> Works(made)]
      /\ work'[w] = s /\ \A v \in Workers \ {w} : work'[v] = work[v]
  BY <1>0, WorkMoves DEF Types
<1>2. Types'
  BY <1>0, <1>1 DEF Types
<1>3. Finite' /\ Budget'
  <2>1. /\ Cost(s.pc) \in Nat /\ Cost(work[w].pc) \in Nat /\ made \in Nat /\ calls \in Nat
        /\ calls' \in Nat
    BY <1>0, CacheAssumption DEF Cost, Types
  <2>2. made' + Cost(s.pc) <= made + Cost(work[w].pc) + 2 * (calls' - calls)
    BY <2>1
  <2> QED BY <1>0, <2>1, <2>2, BudgetKept
<1>4. Entries'
  BY <1>0 DEF Entries
<1>5. Owned(w)' = {} /\ \A d \in Reads(w)' : \E k \in DOMAIN entries : d = entries[k].dir
  BY <1>1 DEF Owned, Reads
<1>6. \A v \in Workers \ {w} : Owned(v)' = Owned(v) /\ Reads(v)' = Reads(v)
  BY <1>1, Others
<1>7. ASSUME NEW v \in Workers PROVE Private(v)'
  BY <1>0, <1>5, <1>6 DEF Private
<1>8. ASSUME NEW v \in Workers PROVE Content(v)'
  <2>1. CASE v = w
    <3>1. \A k \in DOMAIN entries : disk[entries[k].dir].key = k
      BY <1>0, ChartFields DEF Entries
    <3>2. \A d \in Reads(w)' : disk[d].key = s.key
      BY <1>1, <3>1 DEF Reads
    <3> QED BY <1>1, <2>1, <3>2 DEF Content
  <2>2. CASE v # w
    <3>1. work'[v] = work[v] /\ Content(v) /\ disk' = disk
      BY <1>0, <1>1, <2>2
    <3> QED BY <3>1, ContentKept
  <2> QED BY <2>1, <2>2
<1> QED BY <1>2, <1>3, <1>4, <1>7, <1>8 DEF CInv

LEMMA CQuietSteps ==
    ASSUME CInv, NEW w \in Workers,
           (\E k \in Keys : Call(w, k)) \/ Get(w) \/ Count(w) \/ Fail(w)
    PROVE  CInv'
<1>0. Types /\ Entries
  BY DEF CInv
<1>1. CASE \E k \in Keys : Call(w, k)
  <2>1. PICK k \in Keys : Call(w, k)
    BY <1>1
  <2>2. [pc |-> "get", key |-> k] \in Works(made)
    BY DEF Works
  <2>3. Cost("get") = 2 /\ Starts("get") = 1 /\ Cost("idle") = 0 /\ Starts("idle") = 0
    BY DEF Cost, Starts, BeforeExpand, BeforeCopy, BeforeCount
  <2>4. calls' = calls + 1 /\ calls' \in 0 .. MaxCalls /\ calls \in Nat /\ waiting \in Nat
    BY <1>0, <2>1, CacheAssumption DEF Call, Types
  <2> QED BY <2>1, <2>2, <2>3, <2>4, CQuiet DEF Call, At
<1>2. CASE Get(w)
  <2>1. work[w].pc = "get" /\ work[w].key \in Keys
    BY <1>0, <1>2 DEF Get, At, Types, Works, Idle
  <2>2. Cost("get") = 2 /\ Cost("count") = 2 /\ Cost("mkdir") = 1
        /\ Starts("get") = 1 /\ Starts("count") = 1 /\ Starts("mkdir") = 0
    BY DEF Cost, Starts, BeforeExpand, BeforeCopy, BeforeCount
  <2>3. calls' = calls /\ waiting' = waiting /\ calls \in 0 .. MaxCalls /\ waiting \in Nat
        /\ calls' \in 0 .. MaxCalls
    BY <1>0, <1>2, CacheAssumption DEF Get, Types
  <2>4. CASE Hit(work[w].key)
    <3> DEFINE s == [pc |-> "mkdir", key |-> work[w].key, src |-> entries[work[w].key].dir]
    <3>1. s \in Works(made) /\ work[w].key \in DOMAIN entries
      BY <1>0, <2>1, <2>4 DEF Works, Types, Hit
    <3>2. Goto(w, s)
      BY <1>2, <2>4 DEF Get
    <3> QED BY <1>2, <2>1, <2>2, <2>3, <3>1, <3>2, CQuiet DEF Get
  <2>5. CASE ~ Hit(work[w].key)
    <3> DEFINE s == [pc |-> "count", key |-> work[w].key]
    <3>1. s \in Works(made)
      BY <2>1 DEF Works
    <3>2. Goto(w, s)
      BY <1>2, <2>5 DEF Get
    <3> QED BY <1>2, <2>1, <2>2, <2>3, <3>1, <3>2, CQuiet DEF Get
  <2> QED BY <2>4, <2>5
<1>3. CASE Count(w)
  <2>1. work[w].pc = "count" /\ work[w].key \in Keys
    BY <1>0, <1>3 DEF Count, At, Types, Works, Idle
  <2>2. Cost("expand") = 2 /\ Cost("count") = 2 /\ Starts("count") = 1 /\ Starts("expand") = 0
    BY DEF Cost, Starts, BeforeExpand, BeforeCopy, BeforeCount
  <2>3. /\ calls' = calls /\ calls \in 0 .. MaxCalls /\ waiting \in Nat
        /\ waiting' \in {waiting, waiting + 1}
    BY <1>0, <1>3, CacheAssumption DEF Count, Types
  <2>4. [pc |-> "expand", key |-> work[w].key] \in Works(made)
    BY <2>1 DEF Works
  <2>5. /\ waiting' \in Nat /\ calls' \in 0 .. MaxCalls /\ calls' - calls = 0
        /\ waiting' <= waiting + 1
    BY <2>3, CacheAssumption
  <2>6. /\ waiting' + 0 <= waiting + 1 + (calls' - calls)
        /\ 2 <= 2 + 2 * (calls' - calls)
    <3> DEFINE z == calls' - calls
               m == waiting'
    <3>1. z = 0 /\ m \in Nat /\ waiting \in Nat /\ m <= waiting + 1
      BY <2>3, <2>5
    <3>2. m + 0 <= waiting + 1 + z /\ 2 <= 2 + 2 * z
      <4> HIDE DEF z, m
      <4> QED BY ONLY <3>1
    <3> QED BY <3>2
  <2> QED BY <1>3, <2>1, <2>2, <2>4, <2>5, <2>6, CQuiet DEF Count
<1>4. CASE Fail(w)
  <2>1. Cost("failed") = 0 /\ Cost("idle") = 0 /\ Starts("failed") = 0 /\ Starts("idle") = 0
    BY DEF Cost, Starts, BeforeExpand, BeforeCopy, BeforeCount
  <2>2. Idle \in Works(made) /\ Idle.pc = "idle"
    BY DEF Works, Idle
  <2>3. calls' = calls /\ waiting' = waiting /\ calls \in 0 .. MaxCalls /\ waiting \in Nat
        /\ calls' \in 0 .. MaxCalls
    BY <1>0, <1>4 DEF Fail, Types
  <2> QED BY <1>4, <2>1, <2>2, <2>3, CacheAssumption, CQuiet DEF Fail, At
<1> QED BY <1>1, <1>2, <1>3, <1>4

\* A goroutine makes a directory of its own, with a name nobody has used.
LEMMA CNewDir ==
    ASSUME CInv, NEW w \in Workers, NEW s \in Works(made + 1), Goto(w, s),
           NEW x \in Dirs, disk' = With(disk, made + 1, x), made' = made + 1,
           UNCHANGED <<entries, cleaning, waiting, calls>>,
           1 + Cost(s.pc) <= Cost(work[w].pc), Starts(s.pc) <= Starts(work[w].pc),
           x.key = s.key,
           \/ s.pc = "set" /\ s.src = made + 1 /\ x = Chart(s.key)
           \/ /\ s.pc = "templates" /\ s.copy = made + 1 /\ Reads(w) = {s.src}
              /\ s.key = work[w].key /\ (s.names # Files => ~ Whole(s.src))
    PROVE  CInv'
<1> DEFINE d == made + 1
<1>0. Types /\ Finite /\ Budget /\ Entries /\ \A v \in Workers : Private(v) /\ Content(v)
  BY DEF CInv
<1>1. made \in Nat /\ made' \in Nat /\ made <= made' /\ waiting \in Nat /\ calls \in Nat
  BY <1>0, CacheAssumption DEF Types
<1>2. /\ work' \in [Workers -> Works(made')]
      /\ work'[w] = s /\ \A v \in Workers \ {w} : work'[v] = work[v]
  BY <1>0, <1>1, WorkMoves
<1>3. /\ DOMAIN disk' = DOMAIN disk \cup {d} /\ disk'[d] = x
      /\ \A e \in DOMAIN disk : e # d /\ disk'[e] = disk[e]
  BY <1>0, <1>1 DEF With, Types
<1>4. Types'
  <2>1. 1 .. made \subseteq 1 .. made' /\ d \in 1 .. made'
    BY <1>1
  <2>2. \A k \in DOMAIN entries : entries[k] \in [dir : 1 .. made', expired : BOOLEAN]
    BY <1>0, <2>1 DEF Types
  <2>3. DOMAIN disk' \subseteq 1 .. made' /\ \A e \in DOMAIN disk' : disk'[e] \in Dirs
    BY <1>0, <1>3, <2>1 DEF Types
  <2> QED BY <1>0, <1>1, <1>2, <2>1, <2>2, <2>3 DEF Types
<1>5. Finite' /\ Budget'
  <2>1. /\ Cost(s.pc) \in Nat /\ Cost(work[w].pc) \in Nat
        /\ Starts(s.pc) \in Nat /\ Starts(work[w].pc) \in Nat
    BY DEF Cost, Starts
  <2>2. /\ made' + Cost(s.pc) <= made + Cost(work[w].pc) + 2 * (calls' - calls)
        /\ waiting' + Starts(s.pc) <= waiting + Starts(work[w].pc) + (calls' - calls)
    BY <1>1, <2>1
  <2> QED BY <1>0, <1>1, <2>2, BudgetKept
<1>6. Entries'
  BY <1>0, <1>3 DEF Entries
<1>7. Owned(w)' = {d} /\ Reads(w)' \subseteq Reads(w)
  BY <1>2 DEF Owned, Reads
<1>8. \A v \in Workers \ {w} : Owned(v)' = Owned(v) /\ Reads(v)' = Reads(v)
  BY <1>2, Others
<1>9. d \notin cleaning /\ \A k \in DOMAIN entries : entries[k].dir # d
  BY <1>0, <1>3 DEF Entries
<1>10. \A v \in Workers : d \notin Owned(v) /\ d \notin Reads(v)
  <2> SUFFICES ASSUME NEW v \in Workers PROVE d \notin Owned(v) /\ d \notin Reads(v)
    OBVIOUS
  <2>1. work[v] \in Works(made) /\ d \notin 1 .. made
    BY <1>0, <1>1 DEF Types
  <2> QED BY <2>1 DEF Works, Owned, Reads, Idle
<1>11. ASSUME NEW v \in Workers PROVE Private(v)'
  <2>1. CASE v = w
    BY <1>3, <1>7, <1>8, <1>9, <1>10, <2>1 DEF Private
  <2>2. CASE v # w
    BY <1>0, <1>3, <1>7, <1>8, <1>10, <2>2 DEF Private
  <2> QED BY <2>1, <2>2
<1>12. \A e : e # d => Whole(e)' = Whole(e)
  BY <1>3 DEF Whole
<1>13. ASSUME NEW v \in Workers PROVE Content(v)'
  <2>0. d \notin Reads(v) /\ Content(v) /\ Owned(v) \subseteq DOMAIN disk
    BY <1>0, <1>10 DEF Private
  <2>1. CASE v = w
    <3>1. CASE s.pc = "set"
      BY <1>2, <1>3, <2>1, <3>1 DEF Content, Reads
    <3>2. CASE s.pc = "templates"
      <4>1. s.src # d /\ Reads(w)' = {s.src} /\ Reads(w) = {s.src} /\ s.copy = d
        BY <1>2, <2>0, <2>1, <3>2 DEF Reads
      <4>2. s.src \in DOMAIN disk' => disk'[s.src].key = s.key
        BY <1>3, <2>0, <2>1, <3>2, <4>1 DEF Content
      <4>3. s.names # Files => ~ Whole(s.src)'
        BY <1>12, <3>2, <4>1
      <4> HIDE DEF d
      <4> QED BY <1>2, <1>3, <2>1, <3>2, <4>1, <4>2, <4>3 DEF Content
    <3> QED BY <3>1, <3>2
  <2>2. CASE v # w
    <3>1. work'[v] = work[v]
      BY <1>2, <2>2
    <3> HIDE DEF d
    <3>2. \A e \in Reads(v) : e \in DOMAIN disk' => e \in DOMAIN disk /\ disk'[e] = disk[e]
      BY <1>3, <2>0
    <3>3. \A e \in Owned(v) : disk'[e] = disk[e]
      BY <1>3, <2>0
    <3> QED BY <2>0, <3>1, <3>2, <3>3, ContentKept
  <2> QED BY <2>1, <2>2
<1> QED BY <1>4, <1>5, <1>6, <1>11, <1>13 DEF CInv

LEMMA CExpand == ASSUME CInv, NEW w \in Workers, Expand(w) PROVE CInv'
<1>0. Types
  BY DEF CInv
<1>1. /\ work[w].pc = "expand" /\ work[w].key \in Keys /\ made \in Nat
      /\ UNCHANGED <<entries, waiting, cleaning, calls>>
      /\ waiting \in Nat /\ calls \in 0 .. MaxCalls
  BY <1>0 DEF Expand, At, Types, Works, Idle
<1>2. /\ Cost("expand") = 2 /\ Cost("set") = 1 /\ Cost("failed") = 0
      /\ Starts("expand") = 0 /\ Starts("set") = 0 /\ Starts("failed") = 0
  BY DEF Cost, Starts, BeforeExpand, BeforeCopy, BeforeCount
<1>3. CASE /\ made' = made + 1 /\ disk' = With(disk, made + 1, Chart(work[w].key))
           /\ Goto(w, [pc |-> "set", key |-> work[w].key, src |-> made + 1])
  <2> DEFINE s == [pc |-> "set", key |-> work[w].key, src |-> made + 1]
  <2>1. s \in Works(made + 1) /\ Chart(work[w].key) \in Dirs
    BY <1>1 DEF Works, Dirs, Chart
  <2>2. Chart(work[w].key).key = work[w].key
    BY DEF Chart
  <2> QED BY <1>1, <1>2, <1>3, <2>1, <2>2, CNewDir
<1>4. CASE Goto(w, [pc |-> "failed", key |-> work[w].key]) /\ UNCHANGED <<disk, made>>
  <2>1. [pc |-> "failed", key |-> work[w].key] \in Works(made)
    BY <1>1 DEF Works
  <2> QED BY <1>1, <1>2, <1>4, <2>1, CQuiet, CacheAssumption
<1> QED BY <1>3, <1>4 DEF Expand

LEMMA CMakeCopyDir == ASSUME CInv, NEW w \in Workers, MakeCopyDir(w) PROVE CInv'
<1>0. Types /\ Content(w)
  BY DEF CInv
<1>1. /\ work[w].pc = "mkdir" /\ work[w].key \in Keys /\ work[w].src \in 1 .. made
      /\ made \in Nat /\ UNCHANGED <<entries, waiting, cleaning, calls>>
      /\ waiting \in Nat /\ calls \in 0 .. MaxCalls
  BY <1>0 DEF MakeCopyDir, At, Types, Works, Idle
<1>2. /\ Cost("mkdir") = 1 /\ Cost("templates") = 0 /\ Cost("failed") = 0
      /\ Starts("mkdir") = 0 /\ Starts("templates") = 0 /\ Starts("failed") = 0
  BY DEF Cost, Starts, BeforeExpand, BeforeCopy, BeforeCount
<1> DEFINE src == work[w].src
           x == [key |-> disk[src].key, tpl |-> "none", val |-> FALSE]
           s == [pc |-> "templates", key |-> work[w].key, src |-> src,
                 copy |-> made + 1, names |-> Listed(src)]
<1>3. CASE src \in DOMAIN disk /\ made' = made + 1 /\ disk' = With(disk, made + 1, x) /\ Goto(w, s)
  <2>1. Reads(w) = {src}
    BY <1>1 DEF Reads
  <2>2. disk[src].key = work[w].key
    BY <1>0, <1>3, <2>1 DEF Content
  <2>3. Listed(src) \in SUBSET Files
    BY DEF Listed
  <2>4. s \in Works(made + 1) /\ x \in Dirs
    BY <1>1, <2>2, <2>3 DEF Works, Dirs
  <2>5. Listed(src) # Files => ~ Whole(src)
    BY DEF Listed, Files, Whole
  <2>6. s.pc = "templates" /\ s.copy = made + 1 /\ s.key = x.key /\ s.src = src
        /\ s.key = work[w].key /\ s.names = Listed(src)
    BY <2>2
  <2> HIDE DEF s, x, src
  <2>7. Reads(w) = {s.src} /\ (s.names # Files => ~ Whole(s.src))
    BY <2>1, <2>5, <2>6
  <2>8. 1 + Cost(s.pc) <= Cost(work[w].pc) /\ Starts(s.pc) <= Starts(work[w].pc)
    BY <1>1, <1>2, <2>6
  <2> QED BY <1>1, <1>3, <2>4, <2>6, <2>7, <2>8, CNewDir
<1>4. CASE Goto(w, [pc |-> "failed", key |-> work[w].key]) /\ UNCHANGED <<disk, made>>
  <2>1. [pc |-> "failed", key |-> work[w].key] \in Works(made)
    BY <1>1 DEF Works
  <2> QED BY <1>1, <1>2, <1>4, <2>1, CQuiet, CacheAssumption
<1> QED BY <1>3, <1>4 DEF MakeCopyDir

\* The expanded chart becomes the cache's own, and the goroutine reads it.
LEMMA CSet == ASSUME CInv, NEW w \in Workers, Set(w) PROVE CInv'
<1> DEFINE k == work[w].key
           d == work[w].src
           s == [pc |-> "mkdir", key |-> k, src |-> d]
<1>0. Types /\ Finite /\ Budget /\ Entries /\ \A v \in Workers : Private(v) /\ Content(v)
  BY DEF CInv
<1>1. /\ work[w].pc = "set" /\ k \in Keys /\ d \in 1 .. made /\ cleaning = {} /\ Goto(w, s)
      /\ UNCHANGED <<disk, made, waiting, cleaning, calls>>
      /\ entries' = With(entries, k, [dir |-> d, expired |-> FALSE])
      /\ made \in Nat /\ waiting \in Nat /\ calls \in Nat
  BY <1>0, CacheAssumption DEF Set, At, Unlocked, Types, Works, Idle
<1>2. s \in Works(made)
  BY <1>1 DEF Works
<1>3. /\ work' \in [Workers -> Works(made)]
      /\ work'[w] = s /\ \A v \in Workers \ {w} : work'[v] = work[v]
  BY <1>0, <1>1, <1>2, WorkMoves
<1>4. /\ DOMAIN entries' = DOMAIN entries \cup {k} /\ entries'[k] = [dir |-> d, expired |-> FALSE]
      /\ \A j \in DOMAIN entries' : j # k => j \in DOMAIN entries /\ entries'[j] = entries[j]
  <2> DEFINE e == [dir |-> d, expired |-> FALSE]
  <2>1. entries' = [y \in DOMAIN entries \cup {k} |-> IF y = k THEN e ELSE entries[y]]
    BY <1>1 DEF With
  <2> HIDE DEF e, k, d
  <2>2. /\ DOMAIN entries' = DOMAIN entries \cup {k} /\ entries'[k] = e
        /\ \A j \in DOMAIN entries' : j # k => j \in DOMAIN entries /\ entries'[j] = entries[j]
    BY <2>1
  <2> QED BY <2>2 DEF e
<1>5. Types'
  <2>1. entries'[k] \in [dir : 1 .. made, expired : BOOLEAN]
    <3> HIDE DEF k, d
    <3>1. [dir |-> d, expired |-> FALSE] \in [dir : 1 .. made, expired : BOOLEAN]
      BY <1>1
    <3> QED BY <1>4, <3>1
  <2>2. \A j \in DOMAIN entries' : entries'[j] \in [dir : 1 .. made, expired : BOOLEAN]
    BY <1>0, <1>4, <2>1 DEF Types
  <2>3. DOMAIN entries' \subseteq Keys
    BY <1>0, <1>1, <1>4 DEF Types
  <2> QED BY <1>0, <1>1, <1>3, <2>2, <2>3 DEF Types
<1>6. Finite' /\ Budget'
  <2>1. Cost("set") = 1 /\ Cost("mkdir") = 1 /\ Starts("set") = 0 /\ Starts("mkdir") = 0
    BY DEF Cost, Starts, BeforeExpand, BeforeCopy, BeforeCount
  <2> QED BY <1>0, <1>1, <2>1, BudgetKept
<1>7. /\ d \in DOMAIN disk /\ disk[d] = Chart(k)
      /\ \A v \in Workers : v # w => d \notin Owned(v)
  BY <1>0, <1>1 DEF Private, Content, Owned
<1>8. Entries'
  <2>1. entries'[k].dir = d /\ cleaning' = {} /\ disk' = disk
    BY <1>1, <1>4
  <2>2. ASSUME NEW j \in DOMAIN entries'
        PROVE  /\ entries'[j].dir \in DOMAIN disk /\ disk[entries'[j].dir] = Chart(j)
    <3>1. CASE j = k
      BY <1>7, <2>1, <3>1
    <3>2. CASE j # k
      BY <1>0, <1>4, <3>2 DEF Entries
    <3> QED BY <3>1, <3>2
  <2> HIDE DEF d, k
  <2> QED BY <2>1, <2>2 DEF Entries
<1>9. Owned(w)' = {} /\ Reads(w)' = {d}
  BY <1>3 DEF Owned, Reads
<1>10. \A v \in Workers \ {w} : Owned(v)' = Owned(v) /\ Reads(v)' = Reads(v)
  BY <1>3, Others
<1>11. ASSUME NEW v \in Workers PROVE Private(v)'
  <2>1. CASE v = w
    BY <1>9, <2>1 DEF Private
  <2>2. CASE v # w
    <3>1. d \notin Owned(v) /\ entries'[k].dir = d /\ Owned(v)' = Owned(v)
      BY <1>4, <1>7, <1>10, <2>2
    <3>2. Private(v) /\ disk' = disk /\ cleaning' = cleaning
      BY <1>0, <1>1
    <3> HIDE DEF k, d, s
    <3>3. ASSUME NEW e \in Owned(v), NEW j \in DOMAIN entries' PROVE entries'[j].dir # e
      <4>1. CASE j = k
        BY <3>1, <4>1
      <4>2. CASE j # k
        BY <1>4, <3>2, <4>2 DEF Private
      <4> QED BY <4>1, <4>2
    <3>4. ASSUME NEW e \in Owned(v), NEW u \in Workers
          PROVE  (u # v => e \notin Owned(u)') /\ e \notin Reads(u)'
      <4>1. CASE u = w
        BY <1>9, <3>1, <4>1
      <4>2. CASE u # w
        BY <1>10, <3>2, <4>2 DEF Private
      <4> QED BY <4>1, <4>2
    <3> QED BY <3>1, <3>2, <3>3, <3>4 DEF Private
  <2> QED BY <2>1, <2>2
<1>12. ASSUME NEW v \in Workers PROVE Content(v)'
  <2>1. CASE v = w
    <3>1. disk'[d].key = k
      BY <1>1, <1>7 DEF Chart
    <3>2. s.pc = "mkdir" /\ s.key = k
      OBVIOUS
    <3> HIDE DEF d, k, s
    <3> QED BY <1>3, <1>9, <2>1, <3>1, <3>2 DEF Content
  <2>2. CASE v # w
    <3>1. work'[v] = work[v] /\ Content(v) /\ disk' = disk
      BY <1>0, <1>1, <1>3, <2>2
    <3> QED BY <3>1, ContentKept
  <2> QED BY <2>1, <2>2
<1> QED BY <1>5, <1>6, <1>8, <1>11, <1>12 DEF CInv

\* A file is copied into the goroutine's own directory.
LEMMA CCopyFile ==
    ASSUME CInv, NEW w \in Workers, work[w].pc \in {"templates", "values"},
           NEW x \in Dirs, DOMAIN disk' = DOMAIN disk, disk'[work[w].copy] = x,
           \A e \in DOMAIN disk : e # work[w].copy => disk'[e] = disk[e],
           x.key = work[w].key, NEW pc, Goto(w, CopyTo(w, pc)),
           UNCHANGED <<entries, made, waiting, cleaning, calls>>,
           \/ /\ pc = "values" /\ work[w].pc = "templates"
              /\ x.tpl # "full" => ~ Whole(work[w].src)
           \/ /\ pc = "using" /\ work[w].pc = "values"
              /\ x.tpl = disk[work[w].copy].tpl /\ (~ x.val => ~ Whole(work[w].src))
    PROVE  CInv'
<1> DEFINE c == work[w].copy
           s == CopyTo(w, pc)
<1>0. Types /\ Finite /\ Budget /\ Entries /\ \A v \in Workers : Private(v) /\ Content(v)
  BY DEF CInv
<1>1. /\ work[w].key \in Keys /\ c \in 1 .. made /\ work[w].src \in 1 .. made
      /\ work[w].names \in SUBSET Files
      /\ made \in Nat /\ waiting \in Nat /\ calls \in Nat
  BY <1>0, CacheAssumption DEF Types, Works, Idle
<1>2. s \in Works(made)
  BY <1>1 DEF Works, CopyTo
<1>3. /\ work' \in [Workers -> Works(made)]
      /\ work'[w] = s /\ \A v \in Workers \ {w} : work'[v] = work[v]
  BY <1>0, <1>1, <1>2, WorkMoves
<1>4. c \in Owned(w) /\ work[w].src \in Reads(w) /\ c \in DOMAIN disk /\ c # work[w].src
  BY <1>0 DEF Private, Owned, Reads
<1>5. DOMAIN disk' = DOMAIN disk /\ disk'[c] = x /\ \A e \in DOMAIN disk : e # c => disk'[e] = disk[e]
  BY <1>4
<1>6. /\ s.pc = pc /\ s.key = work[w].key /\ s.src = work[w].src /\ s.copy = c
      /\ s.names = work[w].names
  BY DEF CopyTo
<1> HIDE DEF s, c
<1>7. Types'
  <2>1. \A e \in DOMAIN disk' : disk'[e] \in Dirs
    BY <1>0, <1>5 DEF Types
  <2> QED BY <1>0, <1>3, <1>5, <2>1 DEF Types
<1>8. Finite' /\ Budget'
  <2>1. /\ Cost(s.pc) = 0 /\ Starts(s.pc) = 0 /\ Cost(work[w].pc) = 0 /\ Starts(work[w].pc) = 0
    BY <1>6 DEF Cost, Starts, BeforeExpand, BeforeCopy, BeforeCount
  <2>2. Goto(w, s)
    BY DEF s
  <2> QED BY <1>0, <1>1, <2>1, <2>2, BudgetKept
<1>9. Entries'
  <2>1. \A k \in DOMAIN entries : entries[k].dir # c
    BY <1>0, <1>4 DEF Private
  <2> QED BY <1>0, <1>5, <2>1 DEF Entries
<1>10. Owned(w)' = {c} /\ Owned(w) = {c} /\ Reads(w)' = Reads(w)
  BY <1>3, <1>6 DEF Owned, Reads, c
<1>11. \A v \in Workers : Owned(v)' = Owned(v) /\ Reads(v)' = Reads(v)
  BY <1>3, <1>10, Others
<1>12. ASSUME NEW v \in Workers PROVE Private(v)'
  BY <1>0, <1>5, <1>11 DEF Private
<1>13. ASSUME NEW v \in Workers PROVE Content(v)'
  <2>1. CASE v = w
    <3>1. /\ work[w].src \in DOMAIN disk => disk'[work[w].src] = disk[work[w].src]
          /\ ~ Whole(work[w].src) => ~ Whole(work[w].src)'
      <4>1. work'[w].src = work[w].src
        BY <1>3, <1>6
      <4>2. work[w].src \in DOMAIN disk => disk'[work[w].src] = disk[work[w].src]
        BY <1>4, <1>5
      <4>3. Whole(work[w].src)' => Whole(work[w].src)
        BY <1>5, <4>1, <4>2 DEF Whole
      <4> QED BY <4>2, <4>3
    <3>2. Content(w) /\ Reads(w) = {work[w].src} /\ Reads(w)' = {work[w].src}
      BY <1>0, <1>10 DEF Reads
    <3>3. \A d \in Reads(w)' : d \in DOMAIN disk' => disk'[d].key = work'[w].key
      BY <1>3, <1>5, <1>6, <3>1, <3>2 DEF Content
    <3>4. work[w].names # Files => ~ Whole(work[w].src)
      BY <3>2 DEF Content
    <3>5. work[w].pc = "values" /\ disk[c].tpl # "full" => ~ Whole(work[w].src)
      BY <3>2 DEF Content, c
    <3> QED BY <1>3, <1>5, <1>6, <2>1, <3>1, <3>3, <3>4, <3>5 DEF Content, c
  <2>2. CASE v # w
    <3>1. c \notin Owned(v) /\ c \notin Reads(v) /\ Owned(v) \subseteq DOMAIN disk
      BY <1>0, <1>4, <2>2 DEF Private
    <3>2. work'[v] = work[v] /\ Content(v)
      BY <1>0, <1>3, <2>2
    <3> QED BY <1>5, <3>1, <3>2, ContentKept
  <2> QED BY <2>1, <2>2
<1> QED BY <1>7, <1>8, <1>9, <1>12, <1>13 DEF CInv

\* A goroutine removes its own copy.
LEMMA CDrop ==
    ASSUME CInv, NEW w \in Workers, work[w].pc \in {"templates", "values", "using"},
           disk' = Without(disk, {work[w].copy}),
           NEW s \in Works(made), s.pc \in {"failed", "idle"}, Goto(w, s),
           UNCHANGED <<entries, made, waiting, cleaning, calls>>
    PROVE  CInv'
<1> DEFINE c == work[w].copy
<1>0. Types /\ Finite /\ Budget /\ Entries /\ \A v \in Workers : Private(v) /\ Content(v)
  BY DEF CInv
<1>1. made \in Nat /\ waiting \in Nat /\ calls \in Nat
  BY <1>0, CacheAssumption DEF Types
<1>2. /\ work' \in [Workers -> Works(made)]
      /\ work'[w] = s /\ \A v \in Workers \ {w} : work'[v] = work[v]
  BY <1>0, <1>1, WorkMoves
<1>3. c \in Owned(w)
  BY DEF Owned
<1>4. DOMAIN disk' = DOMAIN disk \ {c} /\ \A e \in DOMAIN disk' : disk'[e] = disk[e]
  BY DEF Without
<1> HIDE DEF c
<1>5. Types'
  BY <1>0, <1>2, <1>4 DEF Types
<1>6. Finite' /\ Budget'
  <2>1. /\ Cost(s.pc) = 0 /\ Starts(s.pc) = 0 /\ Cost(work[w].pc) = 0 /\ Starts(work[w].pc) = 0
    BY DEF Cost, Starts, BeforeExpand, BeforeCopy, BeforeCount
  <2> QED BY <1>0, <1>1, <2>1, BudgetKept
<1>7. c \notin cleaning /\ \A k \in DOMAIN entries : entries[k].dir # c
  BY <1>0, <1>3 DEF Private
<1>8. Entries'
  BY <1>0, <1>4, <1>7 DEF Entries
<1>9. Owned(w)' = {} /\ Reads(w)' = {}
  BY <1>2 DEF Owned, Reads
<1>10. \A v \in Workers \ {w} : Owned(v)' = Owned(v) /\ Reads(v)' = Reads(v)
  BY <1>2, Others
<1>11. \A v \in Workers \ {w} : c \notin Owned(v) /\ c \notin Reads(v)
  BY <1>0, <1>3 DEF Private
<1>12. ASSUME NEW v \in Workers PROVE Private(v)'
  BY <1>0, <1>4, <1>9, <1>10, <1>11 DEF Private
<1>13. ASSUME NEW v \in Workers PROVE Content(v)'
  <2>1. CASE v = w
    BY <1>2, <1>9, <2>1 DEF Content
  <2>2. CASE v # w
    <3>1. c \notin Owned(v) /\ Owned(v) \subseteq DOMAIN disk
      BY <1>0, <1>11, <2>2 DEF Private
    <3>2. work'[v] = work[v] /\ Content(v)
      BY <1>0, <1>2, <2>2
    <3> QED BY <1>4, <3>1, <3>2, ContentKept
  <2> QED BY <2>1, <2>2
<1> QED BY <1>5, <1>6, <1>8, <1>12, <1>13 DEF CInv

LEMMA CCopySteps ==
    ASSUME CInv, NEW w \in Workers, CopyTemplates(w) \/ CopyValues(w) PROVE CInv'
<1> DEFINE c == work[w].copy
           src == work[w].src
<1>0. Types /\ Private(w) /\ Content(w)
  BY DEF CInv
<1>1. /\ work[w].pc \in {"templates", "values"} /\ work[w].key \in Keys
      /\ UNCHANGED <<entries, made, waiting, cleaning, calls>>
  BY <1>0 DEF CopyTemplates, CopyValues, At, Types, Works, Idle
<1>2. c \in DOMAIN disk /\ disk[c] \in Dirs /\ disk[c].key = work[w].key
  BY <1>0, <1>1 DEF Private, Owned, Content, Types
<1>3. CASE CopyFails(w)
  <2>1. [pc |-> "failed", key |-> work[w].key] \in Works(made)
    BY <1>1 DEF Works
  <2> QED BY <1>1, <1>3, <2>1, CDrop DEF CopyFails
<1>4. CASE /\ work[w].pc = "templates" /\ Goto(w, CopyTo(w, "values"))
           /\ src \in DOMAIN disk /\ disk' = [disk EXCEPT ![c].tpl = disk[src].tpl]
  <2> DEFINE x == [disk[c] EXCEPT !.tpl = disk[src].tpl]
  <2>1. disk[src] \in Dirs
    BY <1>0, <1>4 DEF Types
  <2>2. x \in Dirs /\ x.tpl = disk[src].tpl /\ x.key = disk[c].key
    BY <1>2, <2>1 DEF Dirs
  <2>3. /\ DOMAIN disk' = DOMAIN disk /\ disk'[c] = x
        /\ \A e \in DOMAIN disk : e # c => disk'[e] = disk[e]
    BY <1>2, <1>4
  <2> HIDE DEF x
  <2>4. x.tpl # "full" => ~ Whole(src)
    BY <2>2 DEF Whole
  <2> QED BY <1>1, <1>2, <1>4, <2>2, <2>3, <2>4, CCopyFile
<1>5. CASE /\ work[w].pc = "values" /\ Goto(w, CopyTo(w, "using"))
           /\ disk' = [disk EXCEPT ![c].val = TRUE]
  <2> DEFINE x == [disk[c] EXCEPT !.val = TRUE]
  <2>1. x \in Dirs /\ x.tpl = disk[c].tpl /\ x.key = disk[c].key /\ x.val
    BY <1>2 DEF Dirs
  <2>2. /\ DOMAIN disk' = DOMAIN disk /\ disk'[c] = x
        /\ \A e \in DOMAIN disk : e # c => disk'[e] = disk[e]
    BY <1>2, <1>5
  <2> HIDE DEF x
  <2> QED BY <1>1, <1>2, <1>5, <2>1, <2>2, CCopyFile
<1>6. ASSUME work[w].names # Files, disk' = disk,
             \/ work[w].pc = "templates" /\ Goto(w, CopyTo(w, "values"))
             \/ work[w].pc = "values" /\ Goto(w, CopyTo(w, "using"))
      PROVE  CInv'
  <2>1. ~ Whole(src)
    BY <1>0, <1>1, <1>6 DEF Content
  <2> QED BY <1>1, <1>2, <1>6, <2>1, CCopyFile
<1>7. "templates" \in Files /\ "values.yaml" \in Files
  BY DEF Files
<1> QED BY <1>3, <1>4, <1>5, <1>6, <1>7 DEF CopyTemplates, CopyValues, At

LEMMA CRelease == ASSUME CInv, NEW w \in Workers, Release(w) PROVE CInv'
<1>0. Types
  BY DEF CInv
<1>1. /\ work[w].pc = "using" /\ Goto(w, Idle)
      /\ UNCHANGED <<entries, made, waiting, cleaning, calls>>
      /\ waiting \in Nat /\ calls \in 0 .. MaxCalls
  BY <1>0 DEF Release, At, Types
<1>2. Idle \in Works(made) /\ Idle.pc = "idle"
  BY DEF Works, Idle
<1>3. CASE Debug
  <2>1. Cost("using") = 0 /\ Cost("idle") = 0 /\ Starts("using") = 0 /\ Starts("idle") = 0
    BY DEF Cost, Starts, BeforeExpand, BeforeCopy, BeforeCount
  <2>2. disk' = disk
    BY <1>3 DEF Release
  <2> QED BY <1>1, <1>2, <2>1, <2>2, CacheAssumption, CQuiet
<1>4. CASE ~ Debug
  <2>1. disk' = Without(disk, {work[w].copy})
    BY <1>4 DEF Release
  <2> QED BY <1>1, <1>2, <2>1, CDrop
<1> QED BY <1>3, <1>4

-----------------------------------------------------------------------------
\* Time and the cleanup: no goroutine of PrepareChart moves.

LEMMA BudgetStays ==
    ASSUME Types, Finite, Budget, UNCHANGED <<work, made, calls>>,
           waiting' \in Nat, waiting' <= waiting
    PROVE  Finite' /\ Budget'
<1>1. \A S : InPc(S)' = InPc(S)
  BY DEF InPc
<1>2. Finite'
  BY <1>1 DEF Finite
<1>3. /\ Cardinality(InPc(BeforeCount)) \in Nat /\ waiting \in Nat /\ calls \in Nat
  BY CacheAssumption, FS_CardinalityType DEF Finite, Types
<1>4. waiting' + Cardinality(InPc(BeforeCount)) <= calls
  BY <1>3 DEF Budget
<1> QED BY <1>1, <1>2, <1>4 DEF Budget

LEMMA CExpire == ASSUME CInv, NEW k \in Keys, Expire(k) PROVE CInv'
<1>0. Types /\ Finite /\ Budget /\ Entries /\ \A v \in Workers : Private(v) /\ Content(v)
  BY DEF CInv
<1>1. /\ k \in DOMAIN entries /\ entries' = [entries EXCEPT ![k].expired = TRUE]
      /\ UNCHANGED <<disk, made, work, waiting, cleaning, calls>>
  BY DEF Expire
<1>2. /\ DOMAIN entries' = DOMAIN entries
      /\ \A j \in DOMAIN entries : /\ entries'[j].dir = entries[j].dir
                                   /\ entries'[j] \in [dir : 1 .. made, expired : BOOLEAN]
  <2> DEFINE e == [entries[k] EXCEPT !.expired = TRUE]
  <2>1. entries[k] \in [dir : 1 .. made, expired : BOOLEAN]
    BY <1>0, <1>1 DEF Types
  <2>2. e.dir = entries[k].dir /\ e \in [dir : 1 .. made, expired : BOOLEAN]
    BY <2>1
  <2>3. entries' = [entries EXCEPT ![k] = e]
    BY <1>1
  <2> HIDE DEF e
  <2> QED BY <1>0, <1>1, <2>2, <2>3 DEF Types
<1>3. Types'
  BY <1>0, <1>1, <1>2 DEF Types
<1>4. Finite' /\ Budget'
  <2>1. waiting' \in Nat /\ waiting' <= waiting
    BY <1>0, <1>1 DEF Types
  <2> QED BY <1>0, <1>1, <2>1, BudgetStays
<1>5. Entries'
  BY <1>0, <1>1, <1>2 DEF Entries
<1>6. ASSUME NEW v \in Workers PROVE Private(v)' /\ Content(v)'
  <2>1. Private(v)'
    BY <1>0, <1>1, <1>2 DEF Private, Owned, Reads
  <2>2. Content(v)'
    BY <1>0, <1>1, ContentKept
  <2> QED BY <2>1, <2>2
<1> QED BY <1>3, <1>4, <1>5, <1>6 DEF CInv

\* Two entries never share a directory: the cleanup takes what no entry left
\* behind needs, and what no goroutine owns.
LEMMA CCleanup == ASSUME CInv, Cleanup PROVE CInv'
<1>0. Types /\ Finite /\ Budget /\ Entries /\ \A v \in Workers : Private(v) /\ Content(v)
  BY DEF CInv
<1>1. /\ waiting > 0 /\ waiting' = waiting - 1 /\ entries' = Without(entries, ExpiredKeys)
      /\ cleaning' = {entries[k].dir : k \in ExpiredKeys} \cap DOMAIN disk
      /\ UNCHANGED <<disk, made, work, calls>>
  BY DEF Cleanup
<1>2. /\ DOMAIN entries' = DOMAIN entries \ ExpiredKeys /\ ExpiredKeys \subseteq DOMAIN entries
      /\ \A k \in DOMAIN entries' : entries'[k] = entries[k]
  BY <1>1 DEF Without, ExpiredKeys
<1>3. Types'
  <2>1. cleaning' \subseteq 1 .. made /\ waiting' \in Nat
    BY <1>0, <1>1 DEF Types
  <2> QED BY <1>0, <1>1, <1>2, <2>1 DEF Types
<1>4. Finite' /\ Budget'
  <2>1. waiting' \in Nat /\ waiting' <= waiting
    BY <1>0, <1>1 DEF Types
  <2> QED BY <1>0, <1>1, <2>1, BudgetStays
<1>5. \A j, k \in DOMAIN entries : entries[j].dir = entries[k].dir => j = k
  <2> SUFFICES ASSUME NEW j \in DOMAIN entries, NEW k \in DOMAIN entries,
                      entries[j].dir = entries[k].dir
               PROVE  j = k
    OBVIOUS
  <2>1. Chart(j) = Chart(k)
    BY <1>0 DEF Entries
  <2>2. Chart(j).key = j /\ Chart(k).key = k
    BY DEF Chart
  <2> QED BY <2>1, <2>2
<1>6. Entries'
  BY <1>0, <1>1, <1>2, <1>5 DEF Entries
<1>7. ASSUME NEW v \in Workers PROVE Private(v)'
  <2>1. \A e \in Owned(v) : e \notin cleaning'
    BY <1>0, <1>1, <1>2 DEF Private
  <2> QED BY <1>0, <1>1, <1>2, <2>1 DEF Private, Owned, Reads
<1>8. ASSUME NEW v \in Workers PROVE Content(v)'
  BY <1>0, <1>1, ContentKept
<1> QED BY <1>3, <1>4, <1>6, <1>7, <1>8 DEF CInv

LEMMA CRemove == ASSUME CInv, NEW d \in cleaning, Remove(d) PROVE CInv'
<1>0. Types /\ Finite /\ Budget /\ Entries /\ \A v \in Workers : Private(v) /\ Content(v)
  BY DEF CInv
<1>1. UNCHANGED <<entries, made, work, waiting, calls>>
  BY DEF Remove
<1>2. d \in DOMAIN disk /\ disk[d] \in Dirs
  BY <1>0 DEF Entries, Types
<1>3. /\ DOMAIN disk' \subseteq DOMAIN disk /\ DOMAIN disk \ {d} \subseteq DOMAIN disk'
      /\ \A e \in DOMAIN disk \ {d} : disk'[e] = disk[e]
      /\ d \in DOMAIN disk' =>
            /\ disk'[d] \in Dirs /\ disk'[d].key = disk[d].key
            /\ disk'[d].tpl = "full" /\ disk'[d].val => disk[d].tpl = "full" /\ disk[d].val
      /\ cleaning' \subseteq cleaning /\ cleaning' \subseteq DOMAIN disk'
  <2>1. ASSUME NEW x \in Dirs, disk' = [disk EXCEPT ![d] = x], cleaning' = cleaning,
               x.key = disk[d].key, x.tpl # "full" \/ ~ x.val
        PROVE  <1>3!:
    BY <1>0, <1>2, <2>1 DEF Entries
  <2>2. CASE disk' = [disk EXCEPT ![d].tpl = "emptied"] /\ UNCHANGED cleaning
    <3> DEFINE x == [disk[d] EXCEPT !.tpl = "emptied"]
    <3>1. x \in Dirs /\ x.tpl # "full" /\ x.key = disk[d].key
      BY <1>2 DEF Dirs
    <3>2. disk' = [disk EXCEPT ![d] = x]
      BY <2>2
    <3> HIDE DEF x
    <3> QED BY <2>1, <2>2, <3>1, <3>2
  <2>3. CASE disk' = [disk EXCEPT ![d].tpl = "gone"] /\ UNCHANGED cleaning
    <3> DEFINE x == [disk[d] EXCEPT !.tpl = "gone"]
    <3>1. x \in Dirs /\ x.tpl # "full" /\ x.key = disk[d].key
      BY <1>2 DEF Dirs
    <3>2. disk' = [disk EXCEPT ![d] = x]
      BY <2>3
    <3> HIDE DEF x
    <3> QED BY <2>1, <2>3, <3>1, <3>2
  <2>4. CASE disk' = [disk EXCEPT ![d].val = FALSE] /\ UNCHANGED cleaning
    <3> DEFINE x == [disk[d] EXCEPT !.val = FALSE]
    <3>1. x \in Dirs /\ ~ x.val /\ x.key = disk[d].key
      BY <1>2 DEF Dirs
    <3>2. disk' = [disk EXCEPT ![d] = x]
      BY <2>4
    <3> HIDE DEF x
    <3> QED BY <2>1, <2>4, <3>1, <3>2
  <2>5. CASE disk' = Without(disk, {d}) /\ cleaning' = cleaning \ {d}
    BY <1>0, <2>5 DEF Without, Entries
  <2>6. CASE disk' = disk /\ cleaning' = cleaning \ {d}
    BY <1>0, <1>2, <2>6 DEF Entries
  <2> QED BY <2>2, <2>3, <2>4, <2>5, <2>6 DEF Remove
<1>4. Types'
  <2>1. \A e \in DOMAIN disk' : disk'[e] \in Dirs
    BY <1>0, <1>3 DEF Types
  <2> QED BY <1>0, <1>1, <1>3, <2>1 DEF Types
<1>5. Finite' /\ Budget'
  <2>1. waiting' \in Nat /\ waiting' <= waiting
    BY <1>0, <1>1 DEF Types
  <2> QED BY <1>0, <1>1, <2>1, BudgetStays
<1>6. Entries'
  BY <1>0, <1>1, <1>3 DEF Entries
<1>7. ASSUME NEW v \in Workers PROVE Private(v)'
  <2>1. Owned(v)' = Owned(v) /\ d \notin Owned(v) /\ \A u \in Workers : Reads(u)' = Reads(u)
    BY <1>0, <1>1 DEF Private, Owned, Reads
  <2>2. \A u \in Workers : Owned(u)' = Owned(u)
    BY <1>1 DEF Owned
  <2> QED BY <1>0, <1>1, <1>3, <2>1, <2>2 DEF Private
<1>8. ASSUME NEW v \in Workers PROVE Content(v)'
  <2>1. d \notin Owned(v) /\ Owned(v) \subseteq DOMAIN disk
    BY <1>0 DEF Private
  <2>2. Content(v) /\ work'[v] = work[v]
    BY <1>0, <1>1
  <2>3. \A e \in Owned(v) : disk'[e] = disk[e]
    BY <1>3, <2>1
  <2>4. \A e \in Reads(v) : e \in DOMAIN disk' =>
           /\ e \in DOMAIN disk /\ disk'[e].key = disk[e].key
           /\ disk'[e].tpl = "full" /\ disk'[e].val => disk[e].tpl = "full" /\ disk[e].val
    BY <1>3
  <2> QED BY <2>2, <2>3, <2>4, ContentKept
<1> QED BY <1>4, <1>5, <1>6, <1>7, <1>8 DEF CInv

LEMMA CNext == CInv /\ [Next]_vars => CInv'
<1> SUFFICES ASSUME CInv, [Next]_vars PROVE CInv'
  OBVIOUS
<1>1. CASE UNCHANGED vars
  BY <1>1 DEF vars, CInv, Types, Finite, Budget, InPc, Entries, Private, Owned, Reads, Content,
     Whole
<1>2. ASSUME NEW w \in Workers, (\E k \in Keys : Call(w, k)) \/ Prepare(w) \/ Release(w) \/ Fail(w)
      PROVE  CInv'
  BY <1>2, CQuietSteps, CExpand, CSet, CMakeCopyDir, CCopySteps, CRelease DEF Prepare
<1>3. CASE \E k \in Keys : Expire(k)
  BY <1>3, CExpire
<1>4. CASE \E d \in cleaning : Remove(d)
  BY <1>4, CRemove
<1> QED BY <1>1, <1>2, <1>3, <1>4, CCleanup DEF Next

LEMMA CAlways == Spec => []CInv
BY CInit, CNext, PTL DEF Spec

\* The cache and its users keep to their own directories: a live entry leads to
\* a complete chart (get, set and cleanupExpired), no two goroutines share a
\* copy that createChartCopy made, and the cache never hands out its own.
THEOREM CacheStaysIntact == Spec => []CacheIntact
BY CAlways, CInvImplies, PTL

\* The chart PrepareChart returns is of the key that was asked for. Templates or
\* values.yaml are missing from it only when cleanupExpired had begun to take the
\* directory it was copied from apart, and that directory is no entry's any more.
THEOREM ReturnedChartUsable == Spec => []ChartInUse
BY CAlways, CInvImplies, PTL
=============================================================================
