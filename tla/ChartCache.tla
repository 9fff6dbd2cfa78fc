------------------------------ MODULE ChartCache ------------------------------
(***************************************************************************)
(* Prepared charts on disk: goroutines that share one helm.Client call     *)
(* PrepareChart, which takes a copy of a cached directory or expands the   *)
(* embedded chart, caches the directory and returns a copy of it.          *)
(* cleanupExpired runs in goroutines of its own and holds the lock of the  *)
(* cache, but nobody holds it while a directory is copied.                 *)
(***************************************************************************)
EXTENDS Naturals, FiniteSets, Functions

CONSTANTS
    Workers,    \* goroutines that render or install
    Keys,       \* GenerateKey: the hash of resolved spec, environment and templates
    Every,      \* 10 in the code: a miss starts a cleanup at every tenth entry
    Debug,      \* temporary charts are kept
    Warm,       \* keys that earlier calls have left in the cache
    MaxCalls    \* bound on the calls of PrepareChart

ASSUME CacheAssumption ==
    /\ Every \in Nat \ {0} /\ Debug \in BOOLEAN /\ MaxCalls \in Nat
    /\ Warm \subseteq Keys /\ IsFiniteSet(Warm)

VARIABLES
    entries,    \* key -> [dir, expired]
    disk,       \* directory -> [key, tpl, val]: templates/ and values.yaml in it
    made,       \* directories made so far
    work,       \* the local state of a worker
    waiting,    \* cleanups that wait for the lock
    cleaning,   \* what the cleanup that holds the lock has left to remove
    calls

vars == <<entries, disk, made, work, waiting, cleaning, calls>>

Chart(k) == [key |-> k, tpl |-> "full", val |-> TRUE]
Unlocked == cleaning = {}
Idle == [pc |-> "idle"]

\* What a chart is made of, as far as a copy may miss it.
Files == {"templates", "values.yaml"}
Whole(d) == d \in DOMAIN disk /\ disk[d].tpl = "full" /\ disk[d].val

TypeOK ==
    /\ DOMAIN entries \subseteq Keys
    /\ \A k \in DOMAIN entries : entries[k] \in [dir : 1 .. made, expired : BOOLEAN]
    /\ DOMAIN disk \subseteq 1 .. made
    /\ \A d \in DOMAIN disk :
          disk[d] \in [key : Keys, tpl : {"none", "full", "emptied", "gone"}, val : BOOLEAN]
    /\ made \in 0 .. Cardinality(Warm) + 2 * MaxCalls
    /\ work \in [Workers ->
          {Idle} \cup [pc : {"get", "count", "expand", "failed"}, key : Keys]
                 \cup [pc : {"set", "mkdir"}, key : Keys, src : 1 .. made]
                 \cup [pc : {"templates", "values", "using"}, key : Keys, src : 1 .. made,
                       copy : 1 .. made, names : SUBSET Files]]
    /\ waiting \in 0 .. MaxCalls
    /\ cleaning \subseteq 1 .. made
    /\ calls \in 0 .. MaxCalls

Init ==
    /\ made = Cardinality(Warm)
    /\ \E number \in Bijection(Warm, 1 .. made) :
          /\ entries = [k \in Warm |-> [dir |-> number[k], expired |-> FALSE]]
          /\ disk = [d \in 1 .. made |-> Chart(CHOOSE k \in Warm : number[k] = d)]
    /\ work = [w \in Workers |-> Idle]
    /\ waiting = 0 /\ cleaning = {} /\ calls = 0

At(w, pc) == work[w].pc = pc
Goto(w, s) == work' = [work EXCEPT ![w] = s]
Without(f, S) == [x \in DOMAIN f \ S |-> f[x]]
With(f, x, v) == [y \in DOMAIN f \cup {x} |-> IF y = x THEN v ELSE f[y]]

-----------------------------------------------------------------------------
(* PrepareChart.                                                           *)

\* The context is still good; GenerateKey.
Call(w, k) ==
    /\ At(w, "idle") /\ calls < MaxCalls
    /\ calls' = calls + 1
    /\ Goto(w, [pc |-> "get", key |-> k])
    /\ UNCHANGED <<entries, disk, made, waiting, cleaning>>

\* The entry is there, has not expired, and its directory is on disk.
Hit(k) == k \in DOMAIN entries /\ ~ entries[k].expired /\ entries[k].dir \in DOMAIN disk

\* Mutant: the key leaves out the environment.
MutGet(w) ==
    /\ At(w, "get") /\ Unlocked
    /\ \/ \E k \in Keys : Hit(k) /\ Goto(w, [pc |-> "mkdir", key |-> work[w].key,
                                           src |-> entries[k].dir])
       \/ (\A k \in Keys : ~ Hit(k)) /\ Goto(w, [pc |-> "count", key |-> work[w].key])
    /\ UNCHANGED <<entries, disk, made, waiting, cleaning, calls>>

\* get, under the read lock.
Get(w) ==
    LET k == work[w].key
    IN  /\ At(w, "get") /\ Unlocked
        /\ Goto(w, IF Hit(k) THEN [pc |-> "mkdir", key |-> k, src |-> entries[k].dir]
                   ELSE [pc |-> "count", key |-> k])
        /\ UNCHANGED <<entries, disk, made, waiting, cleaning, calls>>

StartsCleanup(n) == n > 0 /\ n % Every = 0

\* entryCount, under the read lock, and go cleanupExpired.
Count(w) ==
    /\ At(w, "count") /\ Unlocked
    /\ waiting' = IF StartsCleanup(Cardinality(DOMAIN entries)) THEN waiting + 1 ELSE waiting
    /\ Goto(w, [pc |-> "expand", key |-> work[w].key])
    /\ UNCHANGED <<entries, disk, made, cleaning, calls>>

\* Mutant: the directory's name is not a new one.
MutExpand(w) ==
    /\ At(w, "expand")
    /\ disk' = With(disk, made + 1, Chart(work[w].key))
    /\ Goto(w, [pc |-> "set", key |-> work[w].key, src |-> made + 1])
    /\ UNCHANGED <<entries, made, waiting, cleaning, calls>>

\* The expansion of the embedded chart, the sub-charts and values.yaml. A
\* failure leaves a directory behind that nobody looks at any more.
Expand(w) ==
    /\ At(w, "expand")
    /\ \/ /\ made' = made + 1
          /\ disk' = With(disk, made + 1, Chart(work[w].key))
          /\ Goto(w, [pc |-> "set", key |-> work[w].key, src |-> made + 1])
       \/ Goto(w, [pc |-> "failed", key |-> work[w].key]) /\ UNCHANGED <<disk, made>>
    /\ UNCHANGED <<entries, waiting, cleaning, calls>>

\* Mutant: the cache's own directory is handed out.
MutSet(w) ==
    /\ At(w, "set") /\ Unlocked
    /\ entries' = With(entries, work[w].key, [dir |-> work[w].src, expired |-> FALSE])
    /\ Goto(w, [pc |-> "using", key |-> work[w].key, src |-> work[w].src,
                copy |-> work[w].src, names |-> Files])
    /\ UNCHANGED <<disk, made, waiting, cleaning, calls>>

\* set, under the lock.
Set(w) ==
    /\ At(w, "set") /\ Unlocked
    /\ entries' = With(entries, work[w].key, [dir |-> work[w].src, expired |-> FALSE])
    /\ Goto(w, [pc |-> "mkdir", key |-> work[w].key, src |-> work[w].src])
    /\ UNCHANGED <<disk, made, waiting, cleaning, calls>>

-----------------------------------------------------------------------------
(* createChartCopy. filepath.Walk reads the names in the directory once,   *)
(* then takes templates/ and values.yaml in this order. A name it has read *)
(* must still be there; one that was already gone is not missed.           *)

CopyTo(w, pc) == [pc |-> pc, key |-> work[w].key, src |-> work[w].src,
                  copy |-> work[w].copy, names |-> work[w].names]

Listed(d) == {f \in Files : IF f = "templates" THEN disk[d].tpl # "gone" ELSE disk[d].val}

MakeCopyDir(w) ==
    /\ At(w, "mkdir")
    /\ \/ /\ work[w].src \in DOMAIN disk
          /\ made' = made + 1
          /\ disk' = With(disk, made + 1,
                          [key |-> disk[work[w].src].key, tpl |-> "none", val |-> FALSE])
          /\ Goto(w, [pc |-> "templates", key |-> work[w].key, src |-> work[w].src,
                      copy |-> made + 1, names |-> Listed(work[w].src)])
       \/ Goto(w, [pc |-> "failed", key |-> work[w].key]) /\ UNCHANGED <<disk, made>>
    /\ UNCHANGED <<entries, waiting, cleaning, calls>>

\* Mutant: the error of the walk is dropped.
MutCopyFails(w) == Goto(w, CopyTo(w, "using")) /\ UNCHANGED disk

\* The copy fails, for a file that is gone or any other reason, and is removed.
CopyFails(w) ==
    /\ disk' = Without(disk, {work[w].copy})
    /\ Goto(w, [pc |-> "failed", key |-> work[w].key])

\* A directory that is being removed may still be there with nothing in it.
CopyTemplates(w) ==
    LET src == work[w].src
    IN  /\ At(w, "templates")
        /\ \/ /\ "templates" \in work[w].names
              /\ src \in DOMAIN disk /\ disk[src].tpl # "gone"
              /\ disk' = [disk EXCEPT ![work[w].copy].tpl = disk[src].tpl]
              /\ Goto(w, CopyTo(w, "values"))
           \/ /\ "templates" \notin work[w].names
              /\ Goto(w, CopyTo(w, "values")) /\ UNCHANGED disk
           \/ CopyFails(w)
        /\ UNCHANGED <<entries, made, waiting, cleaning, calls>>

CopyValues(w) ==
    LET src == work[w].src
    IN  /\ At(w, "values")
        /\ \/ /\ "values.yaml" \in work[w].names /\ src \in DOMAIN disk /\ disk[src].val
              /\ disk' = [disk EXCEPT ![work[w].copy].val = TRUE]
              /\ Goto(w, CopyTo(w, "using"))
           \/ /\ "values.yaml" \notin work[w].names
              /\ Goto(w, CopyTo(w, "using")) /\ UNCHANGED disk
           \/ CopyFails(w)
        /\ UNCHANGED <<entries, made, waiting, cleaning, calls>>

\* InstallApp and the renders remove the chart they were given, unless debug.
Release(w) ==
    /\ At(w, "using")
    /\ disk' = IF Debug THEN disk ELSE Without(disk, {work[w].copy})
    /\ Goto(w, Idle)
    /\ UNCHANGED <<entries, made, waiting, cleaning, calls>>

Fail(w) ==
    /\ At(w, "failed")
    /\ Goto(w, Idle)
    /\ UNCHANGED <<entries, disk, made, waiting, cleaning, calls>>

-----------------------------------------------------------------------------
(* Time, and cleanupExpired.                                               *)

Expire(k) ==
    /\ k \in DOMAIN entries /\ ~ entries[k].expired
    /\ entries' = [entries EXCEPT ![k].expired = TRUE]
    /\ UNCHANGED <<disk, made, work, waiting, cleaning, calls>>

ExpiredKeys == {k \in DOMAIN entries : entries[k].expired}

\* Mutant: all directories go, not those of the expired entries only.
MutCleanup ==
    /\ waiting > 0 /\ Unlocked
    /\ waiting' = waiting - 1
    /\ cleaning' = {entries[k].dir : k \in DOMAIN entries} \cap DOMAIN disk
    /\ entries' = Without(entries, ExpiredKeys)
    /\ UNCHANGED <<disk, made, work, calls>>

\* The lock is taken; the expired entries go, their directories follow while
\* it is held.
Cleanup ==
    /\ waiting > 0 /\ Unlocked
    /\ waiting' = waiting - 1
    /\ cleaning' = {entries[k].dir : k \in ExpiredKeys} \cap DOMAIN disk
    /\ entries' = Without(entries, ExpiredKeys)
    /\ UNCHANGED <<disk, made, work, calls>>

\* os.RemoveAll, file by file in the order of the file system; when it fails,
\* which is only logged, the rest of the directory stays.
Remove(d) ==
    /\ d \in cleaning
    /\ \/ /\ disk[d].tpl = "full"
          /\ disk' = [disk EXCEPT ![d].tpl = "emptied"]
          /\ UNCHANGED cleaning
       \/ /\ disk[d].tpl = "emptied"
          /\ disk' = [disk EXCEPT ![d].tpl = "gone"]
          /\ UNCHANGED cleaning
       \/ /\ disk[d].val
          /\ disk' = [disk EXCEPT ![d].val = FALSE]
          /\ UNCHANGED cleaning
       \/ /\ disk[d].tpl = "gone" /\ ~ disk[d].val
          /\ disk' = Without(disk, {d})
          /\ cleaning' = cleaning \ {d}
       \/ cleaning' = cleaning \ {d} /\ UNCHANGED disk
    /\ UNCHANGED <<entries, made, work, waiting, calls>>

-----------------------------------------------------------------------------
Prepare(w) ==
    \/ Get(w) \/ Count(w) \/ Expand(w) \/ Set(w)
    \/ MakeCopyDir(w) \/ CopyTemplates(w) \/ CopyValues(w)

Next ==
    \/ \E w \in Workers : (\E k \in Keys : Call(w, k)) \/ Prepare(w) \/ Release(w) \/ Fail(w)
    \/ (\E k \in Keys : Expire(k)) \/ Cleanup \/ (\E d \in cleaning : Remove(d))

Spec == Init /\ [][Next]_vars

-----------------------------------------------------------------------------
(* Properties.                                                             *)

\* A live entry always leads to a complete chart of its key: entries are stored
\* after the last file is written, and nobody but the cleanup, which drops the
\* entry first, removes files from the cache's own directories.
LiveEntryComplete == \A k \in DOMAIN entries :
    ~ entries[k].expired => entries[k].dir \in DOMAIN disk /\ disk[entries[k].dir] = Chart(k)

\* A chart in use is of the key that was asked for, and whole with one
\* exception: templates or values.yaml may be missing from it when a cleanup had
\* begun to take the directory apart that it was copied from. That directory is
\* then no entry's any more, so no later call meets it.
ChartInUse == \A w \in Workers : At(w, "using") =>
    LET c == work[w].copy src == work[w].src
    IN  /\ c \in DOMAIN disk /\ disk[c].key = work[w].key
        /\ \/ Whole(c)
           \/ ~ Whole(src) /\ \A k \in DOMAIN entries : entries[k].dir # src

\* No two workers share a chart and the cache never hands out its own: what a
\* worker removes after use is nobody else's.
ChartsPrivate == \A w \in Workers : At(w, "using") =>
    /\ \A k \in DOMAIN entries : entries[k].dir # work[w].copy
    /\ work[w].copy \notin cleaning
    /\ \A v \in Workers \ {w} : At(v, "using") => work[v].copy # work[w].copy

\* The cache and its users keep to their own directories.
CacheIntact == TypeOK /\ LiveEntryComplete /\ ChartsPrivate
=============================================================================
