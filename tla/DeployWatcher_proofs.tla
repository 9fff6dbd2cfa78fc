-------------------------- MODULE DeployWatcher_proofs --------------------------
(***************************************************************************)
(* What the status view of a deploy shows, for any number of pods and      *)
(* events, any length of the event channel and any count of an event.      *)
(***************************************************************************)
EXTENDS DeployWatcher, FiniteSetTheorems, SequenceTheorems, TLAPS

(***************************************************************************)
(* Events of one UID are taken off the channel in the order of their       *)
(* counts: what is shown is never newer than what is still on its way.     *)
(***************************************************************************)
Ordered ==
    /\ \A i \in DOMAIN ch : ch[i].n <= count[ch[i].uid]
    /\ \A i \in DOMAIN warnings : warnings[i].n <= count[warnings[i].uid]
    /\ \A i, j \in DOMAIN ch : i < j /\ ch[i].uid = ch[j].uid => ch[i].n <= ch[j].n
    /\ \A i \in DOMAIN warnings, j \in DOMAIN ch :
          warnings[i].uid = ch[j].uid => warnings[i].n <= ch[j].n
    /\ pump.st = "send" => pump.ev.n = count[pump.ev.uid]

OneEntry == \A i, j \in DOMAIN warnings : warnings[i].uid = warnings[j].uid => i = j

Latest(u) == [uid |-> u, n |-> count[u]]
Known(e) == \/ \E i \in DOMAIN ch : ch[i] = e
            \/ \E i \in DOMAIN warnings : warnings[i] = e
            \/ pump.st = "send" /\ pump.ev = e
Missed == {u \in Uids : count[u] > 0 /\ ~ Known(Latest(u))}

\* Only the goroutine that stops on a cancellation loses an event, and it holds one.
NotLost == /\ pump.st # "stopped" \/ ~ ctx => Missed = {}
           /\ \E u : Missed \subseteq {u}

\* Run polls only after it has a watch; it ends with every known pod ready, or
\* with a warning; the report follows its end.
Phases ==
    /\ runner = "start" => pump.st = "off"
    /\ runner \in {"start", "noWatch"} => summary = <<>>
    /\ runner = "returned" /\ completion = "none" /\ DOMAIN summary # {} => AllReady(summary)
    /\ report # "none" => runner = "returned"

WInv == TypeOK /\ Ordered /\ OneEntry /\ NotLost /\ Phases

LEMMA WInvImplies == WInv => QuietMeansReady /\ WarningsOnTheWay
<1> SUFFICES ASSUME WInv PROVE QuietMeansReady /\ WarningsOnTheWay
  OBVIOUS
<1>1. QuietMeansReady
  BY DEF WInv, Phases, QuietMeansReady
<1> DEFINE known == {ch[i] : i \in DOMAIN ch} \cup {warnings[i] : i \in DOMAIN warnings}
                    \cup (IF pump.st = "send" THEN {pump.ev} ELSE {})
           missed == {u \in Uids : count[u] > 0 /\ [uid |-> u, n |-> count[u]] \notin known}
<1>2. missed = Missed
  BY DEF Missed, Known, Latest
<1>3. ~ ctx => missed = {}
  BY <1>2 DEF WInv, NotLost
<1>4. Cardinality(missed) <= 1
  <2>1. PICK u : Missed \subseteq {u}
    BY DEF WInv, NotLost
  <2>2. IsFiniteSet({u}) /\ Cardinality({u}) = 1
    BY FS_Singleton
  <2>3. Cardinality(Missed) <= Cardinality({u})
    BY <2>1, <2>2, FS_Subset
  <2> QED BY <1>2, <2>2, <2>3
<1>5. WarningsOnTheWay
  BY <1>3, <1>4 DEF WInv, WarningsOnTheWay
<1> QED BY <1>1, <1>5

LEMMA WInit == Init => WInv
<1> SUFFICES ASSUME Init PROVE WInv
  OBVIOUS
<1>1. ch = <<>> /\ warnings = <<>> /\ summary = <<>> /\ DOMAIN summary = {}
  BY DEF Init
<1>2. TypeOK
  <2>1. count \in [Uids -> 0 .. MaxCount]
    BY WatcherAssumption DEF Init
  <2>2. ch \in Seq(Event) /\ Len(ch) <= Capacity /\ warnings \in Seq(Event)
    BY <1>1, WatcherAssumption
  <2>3. pods \in [Pods -> {"absent", "waiting", "ready"}]
    BY DEF Init
  <2> QED BY <1>1, <2>1, <2>2, <2>3 DEF Init, TypeOK
<1>3. Ordered /\ OneEntry
  BY <1>1 DEF Init, Ordered, OneEntry
<1>4. Missed = {}
  BY DEF Init, Missed
<1>5. NotLost
  BY <1>4 DEF NotLost
<1>6. Phases
  BY <1>1 DEF Init, Phases
<1> QED BY <1>2, <1>3, <1>5, <1>6 DEF WInv

-----------------------------------------------------------------------------
\* trackWarning: the event is in the list, entries of other events are where
\* they were.
LEMMA Tracked ==
    ASSUME NEW ev \in Event, warnings \in Seq(Event), OneEntry,
           warnings' = trackWarning(ev)
    PROVE  /\ warnings' \in Seq(Event) /\ DOMAIN warnings \subseteq DOMAIN warnings'
           /\ \A i \in DOMAIN warnings :
                 warnings'[i] = IF warnings[i].uid = ev.uid THEN ev ELSE warnings[i]
           /\ \A i \in DOMAIN warnings' : i \notin DOMAIN warnings => warnings'[i] = ev
           /\ \E i \in DOMAIN warnings' : warnings'[i] = ev
           /\ OneEntry'
<1>0. Len(warnings) \in Nat /\ DOMAIN warnings = 1 .. Len(warnings)
      /\ \A i \in DOMAIN warnings : warnings[i] \in Event
  OBVIOUS
<1>1. CASE \E i \in DOMAIN warnings : warnings[i].uid = ev.uid
  <2>1. warnings' = [i \in DOMAIN warnings |->
                        IF warnings[i].uid = ev.uid THEN ev ELSE warnings[i]]
    BY <1>1 DEF trackWarning
  <2>2. DOMAIN warnings' = 1 .. Len(warnings) /\ \A i \in DOMAIN warnings' : warnings'[i] \in Event
    BY <1>0, <2>1
  <2>3. warnings' \in Seq(Event)
    BY <1>0, <2>1, <2>2
  <2>4. OneEntry'
    BY <1>0, <2>1 DEF OneEntry
  <2> QED BY <1>1, <2>1, <2>3, <2>4
<1>2. CASE ~ \E i \in DOMAIN warnings : warnings[i].uid = ev.uid
  <2>1. warnings' = Append(warnings, ev)
    BY <1>2 DEF trackWarning
  <2>2. /\ warnings' \in Seq(Event) /\ DOMAIN warnings' = 1 .. Len(warnings) + 1
        /\ warnings'[Len(warnings) + 1] = ev
        /\ \A i \in DOMAIN warnings : warnings'[i] = warnings[i]
    BY <1>0, <2>1
  <2>3. \A i \in DOMAIN warnings' : i \in DOMAIN warnings \/ i = Len(warnings) + 1
    BY <1>0, <2>2
  <2>4. OneEntry'
    BY <1>0, <1>2, <2>2, <2>3 DEF OneEntry
  <2>5. DOMAIN warnings \subseteq DOMAIN warnings' /\ Len(warnings) + 1 \in DOMAIN warnings'
    BY <1>0, <2>2
  <2> QED BY <1>2, <2>2, <2>3, <2>4, <2>5
<1> QED BY <1>1, <1>2

\* Steps that leave the way of the events alone.
LEMMA FlowStays ==
    ASSUME Ordered, OneEntry, NotLost, UNCHANGED <<count, pump, ch, warnings>>,
           ctx => ctx'
    PROVE  Ordered' /\ OneEntry' /\ NotLost'
<1>1. Missed' = Missed
  BY DEF Missed, Known, Latest
<1>2. NotLost'
  BY <1>1 DEF NotLost
<1> QED BY <1>2 DEF Ordered, OneEntry

LEMMA WTakeEvent == ASSUME WInv, TakeEvent PROVE WInv'
<1> DEFINE ev == Head(ch)
<1>0. TypeOK /\ Ordered /\ OneEntry /\ NotLost /\ Phases
  BY DEF WInv
<1>1. /\ runner = "loop" /\ ch # <<>> /\ ch' = Tail(ch) /\ warnings' = trackWarning(ev)
      /\ runner' = "poll"
      /\ UNCHANGED <<helm, ctx, pods, count, pump, summary, pollStale, completion, report>>
  BY DEF TakeEvent, cluster
<1>2. /\ ch \in Seq(Event) /\ Len(ch) \in Nat /\ Len(ch) > 0 /\ DOMAIN ch = 1 .. Len(ch)
      /\ 1 \in DOMAIN ch /\ ev = ch[1] /\ ev \in Event
  BY <1>0, <1>1 DEF TypeOK
<1>3. /\ ch' \in Seq(Event) /\ Len(ch') = Len(ch) - 1 /\ DOMAIN ch' = 1 .. Len(ch) - 1
      /\ \A i \in DOMAIN ch' : i + 1 \in DOMAIN ch /\ ch'[i] = ch[i + 1] /\ 1 < i + 1
  BY <1>1, <1>2
<1> HIDE DEF ev
<1>4. /\ warnings' \in Seq(Event) /\ DOMAIN warnings \subseteq DOMAIN warnings'
      /\ \A i \in DOMAIN warnings :
            warnings'[i] = IF warnings[i].uid = ev.uid THEN ev ELSE warnings[i]
      /\ \A i \in DOMAIN warnings' : i \notin DOMAIN warnings => warnings'[i] = ev
      /\ \E i \in DOMAIN warnings' : warnings'[i] = ev
      /\ OneEntry'
  BY <1>0, <1>1, <1>2, Tracked DEF TypeOK
<1>5. \A i \in DOMAIN warnings' :
         \/ warnings'[i] = ev
         \/ i \in DOMAIN warnings /\ warnings'[i] = warnings[i] /\ warnings[i].uid # ev.uid
  BY <1>4
<1>6. TypeOK'
  BY <1>0, <1>1, <1>2, <1>3, <1>4, WatcherAssumption DEF TypeOK
<1>7. Ordered'
  <2>1. \A i \in DOMAIN ch' : ch'[i].n <= count[ch'[i].uid]
    BY <1>0, <1>3 DEF Ordered
  <2>2. \A i \in DOMAIN warnings' : warnings'[i].n <= count[warnings'[i].uid]
    BY <1>0, <1>2, <1>5 DEF Ordered
  <2>3. \A i, j \in DOMAIN ch' : i < j /\ ch'[i].uid = ch'[j].uid => ch'[i].n <= ch'[j].n
    BY <1>0, <1>2, <1>3 DEF Ordered
  <2>4. \A j \in DOMAIN ch' : ev.uid = ch'[j].uid => ev.n <= ch'[j].n
    BY <1>0, <1>2, <1>3 DEF Ordered
  <2>5. \A i \in DOMAIN warnings', j \in DOMAIN ch' :
           warnings'[i].uid = ch'[j].uid => warnings'[i].n <= ch'[j].n
    BY <1>0, <1>3, <1>5, <2>4 DEF Ordered
  <2> QED BY <1>0, <1>1, <2>1, <2>2, <2>3, <2>5 DEF Ordered
<1>8. Missed' \subseteq Missed
  <2> SUFFICES ASSUME NEW u \in Uids, count[u] > 0, Known(Latest(u)) PROVE Known(Latest(u))'
    BY <1>1 DEF Missed
  <2> DEFINE e == Latest(u)
  <2>1. Latest(u)' = e /\ e.uid = u /\ e.n = count[u]
    BY <1>1 DEF Latest
  <2>2. CASE \E i \in DOMAIN ch : ch[i] = e
    <3>1. PICK i \in DOMAIN ch : ch[i] = e
      BY <2>2
    <3>2. CASE i = 1
      BY <1>2, <1>4, <2>1, <3>1, <3>2 DEF Known
    <3>3. CASE i # 1
      <4>1. i - 1 \in DOMAIN ch' /\ (i - 1) + 1 = i
        BY <1>2, <1>3, <3>3
      <4>2. ch'[i - 1] = e
        BY <1>3, <3>1, <4>1
      <4> QED BY <2>1, <4>1, <4>2 DEF Known
    <3> QED BY <3>2, <3>3
  <2>3. CASE \E i \in DOMAIN warnings : warnings[i] = e
    <3>1. PICK i \in DOMAIN warnings : warnings[i] = e
      BY <2>3
    <3>2. CASE u = ev.uid
      <4>1. count[u] <= ev.n /\ ev.n <= count[u]
        BY <1>0, <1>2, <2>1, <3>1, <3>2 DEF Ordered
      <4>2. ev.n \in Nat /\ count[u] \in Nat
        BY <1>0, <1>2 DEF TypeOK, Event
      <4>3. ev.n = count[u]
        BY <4>1, <4>2
      <4>4. ev = e
        BY <1>2, <3>2, <4>3 DEF Event, Latest
      <4> QED BY <1>4, <2>1, <4>4 DEF Known
    <3>3. CASE u # ev.uid
      <4>1. warnings'[i] = e /\ i \in DOMAIN warnings'
        BY <1>4, <2>1, <3>1, <3>3
      <4> QED BY <2>1, <4>1 DEF Known
    <3> QED BY <3>2, <3>3
  <2>4. CASE pump.st = "send" /\ pump.ev = e
    BY <1>1, <2>1, <2>4 DEF Known
  <2> QED BY <2>2, <2>3, <2>4 DEF Known
<1>9. NotLost'
  BY <1>0, <1>1, <1>8 DEF NotLost
<1>10. Phases'
  BY <1>0, <1>1 DEF Phases
<1> QED BY <1>4, <1>6, <1>7, <1>9, <1>10 DEF WInv

-----------------------------------------------------------------------------
\* The goroutine of WatchDeployEvents.

LEMMA WReceive == ASSUME WInv, NEW u \in Uids, Receive(u) PROVE WInv'
<1> DEFINE ev == [uid |-> u, n |-> count[u] + 1]
<1>0. TypeOK /\ Ordered /\ OneEntry /\ NotLost /\ Phases
  BY DEF WInv
<1>1. /\ pump.st = "recv" /\ count[u] < MaxCount /\ count' = [count EXCEPT ![u] = @ + 1]
      /\ pump' = [st |-> "send", ev |-> ev]
      /\ UNCHANGED <<helm, ctx, pods, ch, runner, warnings, summary, pollStale, completion, report>>
  BY DEF Receive, view
<1>2. count \in [Uids -> 0 .. MaxCount] /\ count[u] \in Nat /\ MaxCount \in Nat
  BY <1>0, WatcherAssumption DEF TypeOK
<1>3. ev \in Event /\ ev.uid = u /\ ev.n = count[u] + 1
  BY <1>1, <1>2 DEF Event
<1>4. /\ count'[u] = count[u] + 1 /\ count' \in [Uids -> 0 .. MaxCount]
      /\ \A v \in Uids : v # u => count'[v] = count[v]
      /\ \A v \in Uids : count[v] <= count'[v] /\ count[v] \in Nat /\ count'[v] \in Nat
  BY <1>1, <1>2
<1> HIDE DEF ev
<1>5. pump'.st = "send" /\ pump'.ev = ev /\ pump' \in [st : {"send"}, ev : Event]
  BY <1>1, <1>3
<1>6. TypeOK'
  BY <1>0, <1>1, <1>4, <1>5 DEF TypeOK
<1>7. Ordered'
  <2>1. \A i \in DOMAIN ch : ch[i] \in Event
    BY <1>0 DEF TypeOK
  <2>2. \A i \in DOMAIN warnings : warnings[i] \in Event
    BY <1>0 DEF TypeOK
  <2>3. \A i \in DOMAIN ch : ch[i].n <= count'[ch[i].uid]
    BY <1>0, <1>4, <2>1 DEF Ordered, Event
  <2>4. \A i \in DOMAIN warnings : warnings[i].n <= count'[warnings[i].uid]
    BY <1>0, <1>4, <2>2 DEF Ordered, Event
  <2> QED BY <1>0, <1>1, <1>3, <1>4, <1>5, <2>3, <2>4 DEF Ordered
<1>8. Missed' = {}
  <2> SUFFICES ASSUME NEW v \in Uids, count'[v] > 0 PROVE Known(Latest(v))'
    BY DEF Missed
  <2>1. CASE v = u
    BY <1>3, <1>4, <1>5, <2>1 DEF Known, Latest, ev
  <2>2. CASE v # u
    <3>1. v \notin Missed /\ Latest(v)' = Latest(v) /\ count[v] > 0
      BY <1>0, <1>1, <1>4, <2>2 DEF NotLost, Latest
    <3> QED BY <1>1, <3>1 DEF Missed, Known
  <2> QED BY <2>1, <2>2
<1>9. NotLost' /\ OneEntry'
  BY <1>0, <1>1, <1>8 DEF NotLost, OneEntry
<1>10. Phases'
  BY <1>0, <1>1 DEF Phases
<1> QED BY <1>6, <1>7, <1>9, <1>10 DEF WInv

LEMMA WSend == ASSUME WInv, Send PROVE WInv'
<1>0. TypeOK /\ Ordered /\ OneEntry /\ NotLost /\ Phases
  BY DEF WInv
<1>1. /\ pump.st = "send" /\ Len(ch) < Capacity /\ ch' = Append(ch, pump.ev)
      /\ pump' = [st |-> "recv"]
      /\ UNCHANGED <<helm, ctx, pods, count, runner, warnings, summary, pollStale, completion, report>>
  BY DEF Send, view, cluster
<1>2. pump.ev \in Event /\ pump'.st = "recv"
  BY <1>0, <1>1 DEF TypeOK
<1>3. /\ ch \in Seq(Event) /\ Len(ch) \in Nat /\ DOMAIN ch = 1 .. Len(ch)
      /\ \A i \in DOMAIN ch : ch[i] \in Event
  BY <1>0 DEF TypeOK
<1>4. /\ ch' \in Seq(Event) /\ Len(ch') = Len(ch) + 1 /\ DOMAIN ch' = 1 .. Len(ch) + 1
      /\ ch'[Len(ch) + 1] = pump.ev /\ \A i \in DOMAIN ch : ch'[i] = ch[i]
  BY <1>1, <1>2, <1>3
<1>5. /\ \A i \in DOMAIN ch' : i \in DOMAIN ch \/ i = Len(ch) + 1
      /\ DOMAIN ch \subseteq DOMAIN ch' /\ Len(ch) + 1 \in DOMAIN ch'
      /\ \A i \in DOMAIN ch : i < Len(ch) + 1
  BY <1>3, <1>4
<1>6. TypeOK'
  <2>1. Len(ch') <= Capacity /\ pump' \in [st : {"off", "recv", "stopped"}]
    BY <1>1, <1>3, <1>4, WatcherAssumption
  <2> QED BY <1>0, <1>1, <1>4, <2>1 DEF TypeOK
<1>7. Ordered'
  <2>1. \A i \in DOMAIN ch' : ch'[i].n <= count[ch'[i].uid]
    <3>1. pump.ev.n = count[pump.ev.uid] /\ pump.ev.n \in Int
      BY <1>0, <1>1, <1>2 DEF Ordered, Event
    <3> QED BY <1>0, <1>4, <1>5, <3>1 DEF Ordered
  <2>2. \A i \in DOMAIN ch : ch[i].uid = pump.ev.uid => ch[i].n <= pump.ev.n
    BY <1>0, <1>1 DEF Ordered
  <2>3. ASSUME NEW i \in DOMAIN ch', NEW j \in DOMAIN ch', i < j, ch'[i].uid = ch'[j].uid
        PROVE  ch'[i].n <= ch'[j].n
    <3>1. i \in DOMAIN ch
      BY <1>3, <1>4, <1>5, <2>3
    <3>2. CASE j = Len(ch) + 1
      BY <1>4, <2>2, <2>3, <3>1, <3>2
    <3>3. CASE j \in DOMAIN ch
      BY <1>0, <1>4, <2>3, <3>1, <3>3 DEF Ordered
    <3> QED BY <1>5, <3>2, <3>3
  <2>4. \A i \in DOMAIN warnings, j \in DOMAIN ch' :
           warnings[i].uid = ch'[j].uid => warnings[i].n <= ch'[j].n
    BY <1>0, <1>1, <1>4, <1>5 DEF Ordered
  <2> QED BY <1>0, <1>1, <1>2, <2>1, <2>3, <2>4 DEF Ordered
<1>8. Missed' = {}
  <2> SUFFICES ASSUME NEW v \in Uids, count[v] > 0 PROVE Known(Latest(v))'
    BY <1>1 DEF Missed
  <2>1. Known(Latest(v)) /\ Latest(v)' = Latest(v)
    BY <1>0, <1>1 DEF NotLost, Missed, Latest
  <2> QED BY <1>1, <1>4, <1>5, <2>1 DEF Known
<1>9. NotLost' /\ OneEntry'
  BY <1>0, <1>1, <1>8 DEF NotLost, OneEntry
<1>10. Phases'
  BY <1>0, <1>1 DEF Phases
<1> QED BY <1>6, <1>7, <1>9, <1>10 DEF WInv

\* The goroutine stops, or Run starts it.
LEMMA WPumpMoves == ASSUME WInv, PumpStops \/ WatchLost \/ RunStart PROVE WInv'
<1>0. TypeOK /\ Ordered /\ OneEntry /\ NotLost /\ Phases
  BY DEF WInv
<1>1. /\ UNCHANGED <<helm, ctx, pods, count, ch, warnings, summary, pollStale, completion, report>>
      /\ \/ pump' = [st |-> "stopped"] /\ pump.st \in {"recv", "send"} /\ UNCHANGED runner
            /\ (pump.st = "send" => ctx)
         \/ pump' = [st |-> "recv"] /\ pump.st = "off" /\ runner' = "loop" /\ runner = "start"
         \/ UNCHANGED pump /\ runner = "start" /\ runner' = "noWatch"
  BY <1>0 DEF PumpStops, WatchLost, RunStart, view, cluster, Phases
<1>2. pump'.st # "send" /\ pump' \in [st : {"off", "recv", "stopped"}]
  BY <1>0, <1>1 DEF Phases, TypeOK
<1>3. TypeOK'
  BY <1>0, <1>1, <1>2 DEF TypeOK
<1>4. Ordered' /\ OneEntry'
  BY <1>0, <1>1, <1>2 DEF Ordered, OneEntry
<1>5. \A u \in Uids : Latest(u)' = Latest(u)
  BY <1>1 DEF Latest
<1>6. NotLost'
  <2>1. CASE pump.st = "send"
    <3>0. pump'.st = "stopped"
      BY <1>0, <1>1, <2>1 DEF Phases
    <3>1. Missed = {}
      BY <1>0, <2>1 DEF NotLost
    <3>2. pump.ev.uid \in Uids
      BY <1>0, <2>1 DEF TypeOK, Event
    <3>3. ASSUME NEW u \in Uids, u # pump.ev.uid, count[u] > 0 PROVE Known(Latest(u))'
      <4>1. Known(Latest(u)) /\ pump.ev # Latest(u)
        BY <3>1, <3>3 DEF Missed, Latest
      <4> QED BY <1>1, <1>5, <4>1 DEF Known
    <3>4. Missed' \subseteq {pump.ev.uid}
      BY <1>1, <3>3 DEF Missed
    <3>5. ctx'
      BY <1>1, <2>1, <3>0
    <3> QED BY <3>0, <3>4, <3>5 DEF NotLost
  <2>2. CASE pump.st # "send"
    <3>1. Missed' = Missed
      BY <1>1, <1>2, <1>5, <2>2 DEF Missed, Known
    <3>2. pump'.st = "stopped" => pump.st # "stopped" \/ pump' = pump
      BY <1>1
    <3>3. pump.st = "stopped" => pump'.st = "stopped"
      BY <1>1
    <3> QED BY <1>0, <1>1, <3>1, <3>2, <3>3 DEF NotLost
  <2> QED BY <2>1, <2>2
<1>7. Phases'
  BY <1>0, <1>1, <1>2 DEF Phases
<1> QED BY <1>3, <1>4, <1>6, <1>7 DEF WInv

-----------------------------------------------------------------------------
\* The rest of the cluster, Helm and Run.

LEMMA PolledTyped == \A c \in DOMAIN Polled : Polled[c].ready \subseteq Polled[c].total
BY DEF Polled

LEMMA WOutside ==
    ASSUME WInv,
           \/ \E p \in Pods, s \in {"absent", "waiting", "ready"} : PodChanges(p, s)
           \/ HelmReturns \/ Interrupt \/ Report
    PROVE  WInv'
<1>0. TypeOK /\ Ordered /\ OneEntry /\ NotLost /\ Phases
  BY DEF WInv
<1>1. /\ UNCHANGED <<count, pump, ch, runner, warnings, summary, pollStale, completion>>
      /\ ctx => ctx'
      /\ report' # "none" => runner = "returned"
      /\ pods' \in [Pods -> {"absent", "waiting", "ready"}]
      /\ helm' \in {"running", "ok", "failed"} /\ ctx' \in BOOLEAN
      /\ report' \in {"none", "deployed", "failed"}
  BY <1>0 DEF PodChanges, HelmReturns, Interrupt, Report, cluster, watch, view, TypeOK, Phases
<1>2. TypeOK'
  BY <1>0, <1>1 DEF TypeOK
<1>3. Ordered' /\ OneEntry' /\ NotLost'
  BY <1>0, <1>1, FlowStays
<1>4. Phases'
  BY <1>0, <1>1 DEF Phases, AllReady
<1> QED BY <1>2, <1>3, <1>4 DEF WInv

\* Run, but for the event it takes off the channel.
RunSteps == \/ NoWatchReturns \/ ChannelClosed \/ Tick \/ Canceled
            \/ PollAndShow \/ FinalPoll \/ FinalTick \/ FinalDeadline

LEMMA WRun == ASSUME WInv, RunSteps PROVE WInv'
<1>0. TypeOK /\ Ordered /\ OneEntry /\ NotLost /\ Phases
  BY DEF WInv
<1>1. UNCHANGED <<helm, ctx, pods, count, pump, ch, warnings, report>>
  BY DEF RunSteps, NoWatchReturns, ChannelClosed, Tick, Canceled, PollAndShow, FinalPoll,
         FinalTick, FinalDeadline, cluster, watch, view
<1>2. Ordered' /\ OneEntry' /\ NotLost'
  BY <1>0, <1>1, FlowStays
<1>3. runner \notin {"start", "returned"} /\ runner' \notin {"start", "noWatch"}
  BY DEF RunSteps, NoWatchReturns, ChannelClosed, Tick, Canceled, PollAndShow, FinalPoll,
         FinalTick, FinalDeadline
<1>4. summary' = summary \/ summary' = Polled
  BY DEF RunSteps, NoWatchReturns, ChannelClosed, Tick, Canceled, PollAndShow, FinalPoll,
         FinalTick, FinalDeadline, view, refreshPodStatus
<1>5. TypeOK'
  <2>1. \A c \in DOMAIN summary' : summary'[c].ready \subseteq summary'[c].total
    BY <1>0, <1>4, PolledTyped DEF TypeOK
  <2>2. /\ runner' \in {"start", "loop", "poll", "closed", "noWatch", "final", "select", "returned"}
        /\ pollStale' \in BOOLEAN /\ completion' \in {"none", "warning"}
    BY <1>0 DEF RunSteps, NoWatchReturns, ChannelClosed, Tick, Canceled, PollAndShow, FinalPoll,
         FinalTick, FinalDeadline, view, refreshPodStatus, TypeOK
  <2> QED BY <1>0, <1>1, <2>1, <2>2 DEF TypeOK
<1>6. runner' = "returned" /\ completion' = "none" /\ DOMAIN summary' # {} => AllReady(summary')
  <2>1. CASE NoWatchReturns
    <3>1. summary' = <<>>
      BY <1>0, <2>1 DEF NoWatchReturns, view, Phases
    <3> QED BY <3>1
  <2>2. CASE FinalPoll
    BY <2>2 DEF FinalPoll
  <2>3. CASE FinalDeadline
    BY <2>3 DEF FinalDeadline
  <2>4. CASE ChannelClosed \/ Tick \/ Canceled \/ PollAndShow \/ FinalTick
    BY <2>4 DEF ChannelClosed, Tick, Canceled, PollAndShow, FinalTick
  <2> QED BY <2>1, <2>2, <2>3, <2>4 DEF RunSteps
<1>7. Phases'
  <2>1. AllReady(summary)' = AllReady(summary')
    BY DEF AllReady
  <2> QED BY <1>0, <1>1, <1>3, <1>6, <2>1 DEF Phases
<1> QED BY <1>2, <1>5, <1>7 DEF WInv

LEMMA WNext == WInv /\ [Next]_vars => WInv'
<1> SUFFICES ASSUME WInv, [Next]_vars PROVE WInv'
  OBVIOUS
<1>1. CASE UNCHANGED vars
  <2>1. TypeOK' /\ Phases'
    BY <1>1 DEF vars, WInv, TypeOK, Phases, AllReady
  <2>2. Ordered' /\ OneEntry' /\ NotLost'
    BY <1>1, FlowStays DEF vars, WInv
  <2> QED BY <2>1, <2>2 DEF WInv
<1>2. CASE \E u \in Uids : Receive(u)
  BY <1>2, WReceive
<1>3. CASE Watcher \/ FinalDeadline
  BY <1>3, WTakeEvent, WPumpMoves, WRun DEF Watcher, RunSteps
<1> QED BY <1>1, <1>2, <1>3, WSend, WPumpMoves, WOutside DEF Next

LEMMA WAlways == Spec => []WInv
BY WInit, WNext, PTL DEF Spec

\* A deploy whose status view ends without the warning of finalRefresh, and had
\* a summary to show, showed every pod it knew of ready.
THEOREM QuietDeploysAreReady == Spec => []QuietMeansReady
BY WAlways, WInvImplies, PTL

\* Until the cancellation no warning is dropped between WatchDeployEvents and
\* trackWarning, however slowly the channel is read: it is in hand, in the
\* channel or in the list. After it the goroutine loses at most the one in
\* hand; what the channel holds stays there, and Run shows none of it.
THEOREM WarningsArrive == Spec => []WarningsOnTheWay
BY WAlways, WInvImplies, PTL

-----------------------------------------------------------------------------
\* The action properties, step by step.

LEMMA WarningsMove ==
    ASSUME WInv, WInv', Next
    PROVE  /\ \A i \in DOMAIN warnings :
                 /\ i \in DOMAIN warnings' /\ warnings'[i].uid = warnings[i].uid
                 /\ warnings'[i].n >= warnings[i].n
           /\ \A i, j \in DOMAIN warnings' : warnings'[i].uid = warnings'[j].uid => i = j
<1>0. TypeOK /\ Ordered /\ OneEntry /\ OneEntry'
  BY DEF WInv
<1>1. \A i \in DOMAIN warnings : warnings[i].n \in Nat
  <2>1. \A i \in DOMAIN warnings : warnings[i] \in Event
    BY <1>0 DEF TypeOK
  <2> QED BY <2>1, WatcherAssumption DEF Event
<1>2. CASE TakeEvent
  <2>1. /\ 1 \in DOMAIN ch /\ Head(ch) = ch[1] /\ Head(ch) \in Event
        /\ warnings' = trackWarning(Head(ch))
    BY <1>0, <1>2 DEF TakeEvent, TypeOK
  <2>2. /\ DOMAIN warnings \subseteq DOMAIN warnings'
        /\ \A i \in DOMAIN warnings :
              warnings'[i] = IF warnings[i].uid = Head(ch).uid THEN Head(ch) ELSE warnings[i]
    BY <1>0, <2>1, Tracked DEF TypeOK
  <2>3. \A i \in DOMAIN warnings :
           warnings[i].uid = Head(ch).uid => warnings[i].n <= Head(ch).n
    BY <1>0, <2>1 DEF Ordered
  <2>4. Head(ch).n \in Nat
    BY <2>1 DEF Event
  <2> DEFINE ev == Head(ch)
  <2> HIDE DEF ev
  <2>5. \A i \in DOMAIN warnings : warnings'[i].uid = warnings[i].uid /\ warnings'[i].n >= warnings[i].n
    BY <1>1, <2>2, <2>3, <2>4 DEF ev
  <2> QED BY <1>0, <2>2, <2>5 DEF OneEntry
<1>3. CASE ~ TakeEvent
  <2>1. UNCHANGED warnings
    BY <1>3 DEF Next, Watcher, PodChanges, HelmReturns, Interrupt, Report, Receive, Send, PumpStops,
       WatchLost, RunStart, NoWatchReturns, ChannelClosed, Tick, Canceled, PollAndShow, FinalPoll,
       FinalTick, FinalDeadline, view
  <2> QED BY <1>0, <1>1, <2>1 DEF OneEntry
<1> QED BY <1>2, <1>3

LEMMA SummaryStays ==
    ASSUME Next, DOMAIN summary # {}, DOMAIN summary' = {}
    PROVE  \A p \in Pods : pods[p] = "absent"
<1>1. summary' = summary \/ summary' = Polled
  BY DEF Next, Watcher, PodChanges, HelmReturns, Interrupt, Report, Receive, Send, PumpStops,
     WatchLost, RunStart, NoWatchReturns, TakeEvent, ChannelClosed, Tick, Canceled, PollAndShow,
     FinalPoll, FinalTick, FinalDeadline, view, refreshPodStatus
<1>2. DOMAIN Polled = {}
  BY <1>1
<1> QED BY <1>2 DEF Polled

LEMMA ReportStands == ASSUME WInv, Next, report # "none" PROVE UNCHANGED view
<1>1. runner = "returned"
  BY DEF WInv, Phases
<1> QED BY <1>1 DEF Next, Watcher, PodChanges, HelmReturns, Interrupt, Report, Receive, Send,
     PumpStops, WatchLost, RunStart, NoWatchReturns, TakeEvent, ChannelClosed, Tick, Canceled,
     PollAndShow, FinalPoll, FinalTick, FinalDeadline, view

\* trackWarning over the channel keeps a warning in its place and only moves it
\* on, refreshPodStatus never loses a status it had, and nothing that the
\* command reports changes after wg.Wait.
THEOREM TheViewMovesOn == Spec => ViewMovesOn
<1>1. WInv /\ WInv' /\ [Next]_vars =>
        [/\ \A i \in DOMAIN warnings :
              /\ i \in DOMAIN warnings' /\ warnings'[i].uid = warnings[i].uid
              /\ warnings'[i].n >= warnings[i].n
         /\ \A i, j \in DOMAIN warnings' : warnings'[i].uid = warnings'[j].uid => i = j]_vars
  BY WarningsMove
<1>2. WInv /\ [Next]_vars => [DOMAIN summary # {} /\ DOMAIN summary' = {} =>
                                \A p \in Pods : pods[p] = "absent"]_vars
  BY SummaryStays
<1>3. WInv /\ [Next]_vars => [report # "none" => UNCHANGED view]_vars
  BY ReportStands
<1> QED BY <1>1, <1>2, <1>3, WAlways, PTL
        DEF Spec, ViewMovesOn, WarningsMoveOn, SummaryKept, ReportIsFinal
=============================================================================
