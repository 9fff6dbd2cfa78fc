----------------------------- MODULE Session_proofs -----------------------------
(***************************************************************************)
(* The commands of a project directory, for any specs, platform files,     *)
(* commands and contexts, and any number of edits and switches.            *)
(***************************************************************************)
EXTENDS Session, TLAPS, FiniteSetTheorems, WellFoundedInduction

-----------------------------------------------------------------------------
(* The platform file. A step that takes a command from write to done is    *)
(* its WriteFile.                                                          *)

LEMMA OnlyWrites ==
    ASSUME NEW p \in DOMAIN proc, [Next]_vars, proc[p].pc = "write", proc'[p].pc = "done"
    PROVE  WriteFile(p)
<1>1. proc' # proc /\ ~ UNCHANGED proc
  OBVIOUS
<1>2. ~ EditFile /\ ~ SwitchContext /\ ~ Terminating /\ ~ UNCHANGED vars
  BY <1>1 DEF EditFile, SwitchContext, Terminating, vars
<1>3. PICK q \in DOMAIN proc :
         \/ ReadPlatform(q) \/ Prepare(q)
         \/ runCrossFile(q) \/ runResolve(q) \/ runManifestOnly(q)
         \/ Target(q) \/ BuildClient(q)
         \/ SaveSpec(q) \/ SeeFile(q) \/ WriteFile(q)
  BY <1>2 DEF Next
<1>4. CASE q = p
  <2>1. \A s \in {"platform", "prepare", "target", "clients", "save", "see"} : ~ At(p, s)
    BY DEF At
  <2> QED BY <1>3, <1>4, <2>1
          DEF ReadPlatform, Prepare, runCrossFile, runResolve, runManifestOnly, Target,
              BuildClient, SaveSpec, SeeFile
<1>5. CASE q # p
  <2>1. \A r : proc' = [proc EXCEPT ![q] = r] => proc'[p] = proc[p]
    BY <1>5
  <2>2. proc'[p] # proc[p]
    OBVIOUS
  <2>3. ~ \E r : proc' = [proc EXCEPT ![q] = r]
    BY <2>1, <2>2
  <2>4. \A code : ~ Fail(q, code)
    BY <2>3 DEF Fail
  <2>5. ~ ReadPlatform(q)
    BY <2>3, <2>4 DEF ReadPlatform
  <2>6. ~ Prepare(q)
    <3> SUFFICES ASSUME Prepare(q) PROVE FALSE
      OBVIOUS
    <3> DEFINE loaded == Load(spec, proc[q].env, proc[q].plat, input.files, input.os)
               resolved == IF loaded = Nil THEN NotResolved ELSE ResolveLoaded(q, loaded)
               code == PrepareCode(q, loaded, resolved)
    <3>1. \/ Fail(q, code)
          \/ \E pc : proc' = [proc EXCEPT ![q].loaded = loaded, ![q].resolved = resolved,
                                          ![q].pc = pc]
      BY DEF Prepare
    <3> HIDE DEF loaded, resolved, code
    <3> QED BY <2>3, <2>4, <3>1
  <2>7. \A r : ~ Report(q, r)
    BY <2>3, <2>4 DEF Report
  <2>8. ~ runCrossFile(q) /\ ~ runResolve(q)
    BY <2>7 DEF runCrossFile, runResolve
  <2>9. ~ runManifestOnly(q)
    BY <2>3, <2>4 DEF runManifestOnly
  <2>10. ~ Target(q)
    BY <2>3 DEF Target
  <2>11. ~ BuildClient(q)
    BY <2>3, <2>4 DEF BuildClient
  <2>12. ~ SaveSpec(q) /\ ~ SeeFile(q)
    BY <2>3, <2>4 DEF SaveSpec, SeeFile
  <2>13. ~ WriteFile(q)
    BY <2>3 DEF WriteFile
  <2> QED BY <1>3, <2>5, <2>6, <2>8, <2>9, <2>10, <2>11, <2>12, <2>13
<1> QED BY <1>4, <1>5

\* The entries that are added have no domain that is a default.
LEMMA NewEntries ==
    ASSUME NEW name
    PROVE  {k \in Keys(newEntry(name).domains) : newEntry(name).domains[k].default} = {}
<1>1. EmptyEntry.domains = Nil
  BY DEF EmptyEntry
<1>2. LocalPlatformEnvironment.domains
        = [public |-> [base |-> <<"127-0-0-1", "nip", "io">>, default |-> FALSE,
                       tls |-> "selfSigned"]]
  BY DEF LocalPlatformEnvironment, LocalDomains, EmptyEntry
<1>3. CASE name = "local"
  <2>1. \A k \in DOMAIN LocalPlatformEnvironment.domains :
           LocalPlatformEnvironment.domains[k].default = FALSE
    BY <1>2
  <2> QED BY <1>3, <2>1 DEF newEntry, Keys
<1>4. CASE name # "local"
  BY <1>1, <1>4 DEF newEntry, Keys
<1> QED BY <1>3, <1>4

LEMMA NoDefaults == Cardinality({}) <= 1
BY FS_EmptySet

\* What validatePlatformConsistency asks of an entry and of a profile.
OneDefault(pe) == Cardinality({k \in Keys(pe.domains) : pe.domains[k].default}) <= 1

EntriesOf(cfg) == {cfg.envs[k] : k \in DOMAIN cfg.envs}

ProfilesOf(cfg) == {cfg.profiles[n] : n \in Keys(cfg.profiles)}

AllDomains(cfg) == UNION {Keys(pe.domains) : pe \in EntriesOf(cfg)}

AllClasses(cfg) == UNION {Keys(pe.classes) : pe \in EntriesOf(cfg)}

NamesOnly(p, domains, classes) ==
    /\ p.allowed # Nil => p.allowed \subseteq domains
    /\ p.storageClass # Unset => p.storageClass \in classes

LEMMA ConsistencyIs ==
    ASSUME NEW cfg
    PROVE  validatePlatformConsistency(cfg) <=>
              /\ \A pe \in EntriesOf(cfg) : OneDefault(pe)
              /\ \A p \in ProfilesOf(cfg) : NamesOnly(p, AllDomains(cfg), AllClasses(cfg))
BY Zenon DEF validatePlatformConsistency, EntriesOf, ProfilesOf, AllDomains, AllClasses,
             OneDefault, NamesOnly

LEMMA NamesMore ==
    ASSUME NEW p, NEW D, NEW C, NEW E, NEW F, D \subseteq E, C \subseteq F, NamesOnly(p, D, C)
    PROVE  NamesOnly(p, E, F)
BY Zenon DEF NamesOnly

\* Adding entries keeps a consistent file consistent: profiles name what some
\* environment defines, and it still does.
LEMMA AddedConsistent ==
    ASSUME NEW cfg, NEW names, validatePlatformConsistency(cfg)
    PROVE  validatePlatformConsistency(addMissing(cfg, names))
<1> DEFINE new == addMissing(cfg, names)
<1>1. new.profiles = cfg.profiles /\ DOMAIN new.envs = DOMAIN cfg.envs \cup names
      /\ \A n \in DOMAIN new.envs :
            new.envs[n] = IF n \in DOMAIN cfg.envs THEN cfg.envs[n] ELSE newEntry(n)
  BY DEF addMissing
<1> HIDE DEF new
<1>2. EntriesOf(cfg) \subseteq EntriesOf(new)
  BY <1>1 DEF EntriesOf
<1>3. \A pe \in EntriesOf(new) : pe \in EntriesOf(cfg) \/ \E n : pe = newEntry(n)
  BY <1>1 DEF EntriesOf
<1>4. AllDomains(cfg) \subseteq AllDomains(new) /\ AllClasses(cfg) \subseteq AllClasses(new)
  BY <1>2 DEF AllDomains, AllClasses
<1>5. ProfilesOf(new) = ProfilesOf(cfg)
  BY <1>1 DEF ProfilesOf
<1>6. \A n : OneDefault(newEntry(n))
  BY NewEntries, NoDefaults DEF OneDefault
<1>7. \A pe \in EntriesOf(new) : OneDefault(pe)
  BY <1>3, <1>6, ConsistencyIs
<1>8. \A p \in ProfilesOf(new) : NamesOnly(p, AllDomains(new), AllClasses(new))
  BY <1>4, <1>5, ConsistencyIs, NamesMore
<1>9. validatePlatformConsistency(new)
  BY <1>7, <1>8, ConsistencyIs
<1> QED BY <1>9 DEF new

LEMMA FreshConsistent ==
    ASSUME NEW names
    PROVE  validatePlatformConsistency(newPlatformEnvironments(names))
<1> DEFINE new == newPlatformEnvironments(names)
           one(pe) == Cardinality({k \in Keys(pe.domains) : pe.domains[k].default}) <= 1
<1>1. new.profiles = Nil /\ \A k \in DOMAIN new.envs : new.envs[k] = newEntry(k)
  BY DEF newPlatformEnvironments
<1>2. \A n : one(newEntry(n))
  BY NewEntries, NoDefaults
<1> HIDE DEF new, one
<1>3. \A k \in DOMAIN new.envs : one(new.envs[k])
  BY <1>1, <1>2
<1>4. Keys(new.profiles) = {}
  BY <1>1 DEF Keys
<1>5. validatePlatformConsistency(new)
  BY <1>3, <1>4 DEF validatePlatformConsistency, one
<1> QED BY <1>5 DEF new

\* A file is written without nulls when every profile lists its domains.
LEMMA WrittenLoads ==
    ASSUME NEW cfg, validatePlatformConsistency(cfg), writePlatformFile(cfg) # Nil,
           \A n \in Keys(cfg.profiles) : cfg.profiles[n].allowed # Nil
    PROVE  LoadPlatform(writePlatformFile(cfg))
<1>1. writePlatformFile(cfg).cfg = cfg
  BY DEF writePlatformFile
<1>2. writePlatformFile(cfg).nulls = {n \in Keys(cfg.profiles) : cfg.profiles[n].allowed = Nil}
  BY DEF writePlatformFile
<1>3. writePlatformFile(cfg).nulls = {}
  BY <1>2
<1> QED BY <1>1, <1>3 DEF LoadPlatform, validatePlatformYAML

\* What is written: nothing, a new file where none was seen, or what was
\* seen with entries added.
LEMMA Written ==
    ASSUME NEW p, WriteFile(p)
    PROVE  \/ file' = file
           \/ /\ proc[p].seen = Nil
              /\ \E names : file' = writePlatformFile(newPlatformEnvironments(names))
              /\ file' # Nil
           \/ /\ proc[p].seen # Nil /\ LoadPlatform(proc[p].seen)
              /\ \E names : file' = writePlatformFile(addMissing(proc[p].seen.cfg, names))
              /\ file' # Nil
<1> DEFINE seen == proc[p].seen
           new == IF proc[p].cmd = "init" THEN EnsurePlatformEnvironments(seen, input.names)
                  ELSE ScaffoldPlatformFile(seen, {"local"})
<1>1. file' = IF new = Nil THEN file ELSE new
  BY DEF WriteFile
<1>2. \/ new = Nil
      \/ seen = Nil /\ \E names : new = writePlatformFile(newPlatformEnvironments(names))
      \/ /\ seen # Nil /\ LoadPlatform(seen)
         /\ \E names : new = writePlatformFile(addMissing(seen.cfg, names))
  BY DEF EnsurePlatformEnvironments, ScaffoldPlatformFile
<1> HIDE DEF new, seen
<1>3. CASE new = Nil
  BY <1>1, <1>3
<1>4. CASE new # Nil
  <2>1. file' = new /\ file' # Nil
    BY <1>1, <1>4
  <2> QED BY <1>2, <1>4, <2>1 DEF seen
<1> QED BY <1>3, <1>4

\* An entry or a profile that was found is kept.
LEMMA WriteKeeps ==
    ASSUME NEW p, WriteFile(p), proc[p].seen = file, file # Nil
    PROVE  /\ file'.cfg.profiles = file.cfg.profiles
           /\ \A e \in DOMAIN file.cfg.envs :
                 e \in DOMAIN file'.cfg.envs /\ file'.cfg.envs[e] = file.cfg.envs[e]
<1>1. CASE file' = file
  BY <1>1
<1>2. CASE file' # file
  <2>1. PICK names : file' = writePlatformFile(addMissing(file.cfg, names))
    BY <1>2, Written
  <2>2. file'.cfg = addMissing(file.cfg, names)
    BY <2>1 DEF writePlatformFile
  <2> QED BY <2>2 DEF addMissing
<1> QED BY <1>1, <1>2

LEMMA WriteLoads ==
    ASSUME NEW p, WriteFile(p), file' # file,
           proc[p].seen = Nil
           \/ /\ LoadPlatform(proc[p].seen)
              /\ \A n \in Keys(proc[p].seen.cfg.profiles) :
                    proc[p].seen.cfg.profiles[n].allowed # Nil
    PROVE  LoadPlatform(file')
<1>1. CASE proc[p].seen = Nil
  <2>1. PICK names : file' = writePlatformFile(newPlatformEnvironments(names))
    BY <1>1, Written
  <2>2. file' # Nil
    BY <1>1, Written
  <2>3. Keys(newPlatformEnvironments(names).profiles) = {}
    BY DEF newPlatformEnvironments, Keys
  <2> QED BY <2>1, <2>2, <2>3, FreshConsistent, WrittenLoads
<1>2. CASE proc[p].seen # Nil
  <2> DEFINE cfg == proc[p].seen.cfg
  <2>1. PICK names : file' = writePlatformFile(addMissing(cfg, names))
    BY <1>2, Written
  <2>2. file' # Nil
    BY <1>2, Written
  <2>3. validatePlatformConsistency(cfg)
    BY <1>2 DEF LoadPlatform
  <2>4. addMissing(cfg, names).profiles = cfg.profiles
    BY DEF addMissing
  <2>5. \A n \in Keys(cfg.profiles) : cfg.profiles[n].allowed # Nil
    BY <1>2
  <2> HIDE DEF cfg
  <2> QED BY <2>1, <2>2, <2>3, <2>4, <2>5, AddedConsistent, WrittenLoads
<1> QED BY <1>1, <1>2

\* init and cluster up keep every entry and profile of a platform file that
\* is still as they saw it when they write (one edited in between is simply
\* overwritten), and a file that loaded when they saw it, with allowedDomains
\* in all of its profiles, loads after they have added to it
\* (EnsurePlatformEnvironments, ScaffoldPlatformFile): for any files, names
\* and interleavings of commands and edits.
THEOREM PlatformFileAlwaysKept == Spec => PlatformFileKept
<1> DEFINE Keeps == \A p \in DOMAIN proc :
              proc[p].pc = "write" /\ proc'[p].pc = "done" /\ proc[p].seen = file /\ file # Nil =>
                 /\ file'.cfg.profiles = file.cfg.profiles
                 /\ \A e \in DOMAIN file.cfg.envs :
                       e \in DOMAIN file'.cfg.envs /\ file'.cfg.envs[e] = file.cfg.envs[e]
           Loads == \A p \in DOMAIN proc :
              /\ proc[p].pc = "write" /\ proc'[p].pc = "done"
              /\ proc[p].seen = Nil
                 \/ /\ LoadPlatform(proc[p].seen)
                    /\ \A n \in Keys(proc[p].seen.cfg.profiles) :
                          proc[p].seen.cfg.profiles[n].allowed # Nil
              /\ file' # file
              => LoadPlatform(file')
<1>1. [Next]_vars => Keeps
  BY OnlyWrites, WriteKeeps
<1>2. [Next]_vars => Loads
  BY OnlyWrites, WriteLoads
<1>3. Spec => [][Keeps]_vars
  <2>1. [Next]_vars => [Keeps]_vars
    BY <1>1
  <2> QED BY <2>1, PTL DEF Spec
<1>4. Spec => [][Loads]_vars
  <2>1. [Next]_vars => [Loads]_vars
    BY <1>2
  <2> QED BY <2>1, PTL DEF Spec
<1> QED BY <1>3, <1>4, PTL DEF PlatformFileKept, EntriesKept, RewriteLoads

-----------------------------------------------------------------------------
(* The cluster a command turns to.                                         *)

\* The context that --context or the platform file of the checks asks for.
Meant(flag, used, env) ==
    IF flag # Unset THEN flag
    ELSE IF platformEnvOf(used, env) = Nil THEN Unset ELSE platformEnvOf(used, env).ctx

SessionFields == {"cmd", "env", "pc", "plat", "used", "ctx", "clients"}

\* What is memoised is what was checked; nothing is built before the target
\* is known, and what is built is for it.
SessionOK(r, flag, pod) ==
    /\ SessionFields \subseteq DOMAIN r
    /\ r.used # Nil => r.plat = r.used
    /\ r.pc \notin {"clients", "done", "failed"} => r.clients = <<>>
    /\ Meant(flag, r.used, r.env) # Unset /\ ~pod =>
          /\ r.clients \in Seq({Meant(flag, r.used, r.env), Nil})
          /\ r.pc = "clients" => r.ctx = Meant(flag, r.used, r.env)

SessionInv == \A p \in DOMAIN proc : SessionOK(proc[p], input.flag, input.inCluster)

LEMMA NoClients == \A S : <<>> \in Seq(S)
OBVIOUS

\* What Target settles on.
TargetContext(flag, plat, env) == IF flag = Unset THEN PlatformEnvContext(plat, env) ELSE flag

\* Target finds the context that was meant, from what is memoised.
LEMMA TargetIsMeant ==
    ASSUME NEW flag, NEW used, NEW plat, NEW env, used # Nil => plat = used,
           Meant(flag, used, env) # Unset
    PROVE  TargetContext(flag, plat, env) = Meant(flag, used, env)
<1> USE DEF TargetContext
<1>1. CASE flag = Unset
  <2>1. platformEnvOf(used, env) # Nil /\ Meant(flag, used, env) = platformEnvOf(used, env).ctx
    BY <1>1 DEF Meant
  <2>2. Matched(used, env)
    BY <2>1 DEF platformEnvOf
  <2>3. used # Nil
    BY <2>2 DEF Matched
  <2>4. plat = used
    BY <2>3
  <2> QED BY <1>1, <2>1, <2>2, <2>4 DEF PlatformEnvContext
<1>2. CASE flag # Unset
  BY <1>2 DEF Meant
<1> QED BY <1>1, <1>2

LEMMA MovesOK ==
    ASSUME NEW r, NEW s, NEW flag, NEW pod, SessionOK(r, flag, pod),
           SessionFields \subseteq DOMAIN s,
           s.env = r.env, s.used = r.used, s.plat = r.plat, s.clients = r.clients,
           s.pc # "clients", s.pc \in {"done", "failed"} \/ r.clients = <<>>
    PROVE  SessionOK(s, flag, pod)
<1>1. r.clients = <<>> => r.clients \in Seq({Meant(flag, r.used, r.env), Nil})
  BY NoClients
<1> QED BY <1>1 DEF SessionOK

\* A step that leaves what is checked here alone.
Moves(q) ==
    \E s : /\ proc' = [proc EXCEPT ![q] = s]
           /\ SessionFields \subseteq DOMAIN s
           /\ s.env = proc[q].env /\ s.used = proc[q].used /\ s.plat = proc[q].plat
           /\ s.clients = proc[q].clients
           /\ s.pc # "clients"
           /\ s.pc \in {"done", "failed"} \/ proc[q].clients = <<>>

LEMMA FailMoves ==
    ASSUME NEW q \in DOMAIN proc, SessionFields \subseteq DOMAIN proc[q], NEW code, Fail(q, code)
    PROVE  Moves(q)
<1> DEFINE s == [proc[q] EXCEPT !.pc = "failed", !.code = code]
<1>1. proc' = [proc EXCEPT ![q] = s]
  BY DEF Fail
<1>2. DOMAIN s = DOMAIN proc[q] /\ s.pc = "failed"
      /\ s.env = proc[q].env /\ s.used = proc[q].used /\ s.plat = proc[q].plat
      /\ s.clients = proc[q].clients
  BY DEF SessionFields
<1> HIDE DEF s
<1> QED BY <1>1, <1>2 DEF Moves

LEMMA StartOK ==
    ASSUME NEW cmd, NEW e, NEW flag, NEW pod
    PROVE  SessionOK(NewSession(cmd, e), flag, pod)
<1> DEFINE r == NewSession(cmd, e)
<1>1. SessionFields \subseteq DOMAIN r /\ r.used = Nil /\ r.clients = <<>>
  BY DEF NewSession, SessionFields
<1>2. r.pc # "clients"
  BY DEF NewSession
<1> HIDE DEF r
<1>3. SessionOK(r, flag, pod)
  BY <1>1, <1>2, NoClients DEF SessionOK
<1> QED BY <1>3 DEF r

\* The steps that neither check, nor target, nor build.
LEMMA OtherMoves ==
    ASSUME NEW q \in DOMAIN proc, SessionFields \subseteq DOMAIN proc[q],
           proc[q].pc \notin {"clients", "done", "failed"} => proc[q].clients = <<>>,
           \/ Prepare(q) \/ runCrossFile(q) \/ runResolve(q) \/ runManifestOnly(q)
           \/ SaveSpec(q) \/ SeeFile(q) \/ WriteFile(q)
    PROVE  Moves(q)
<1> USE DEF SessionFields
<1>1. CASE Prepare(q)
  <2> DEFINE loaded == Load(spec, proc[q].env, proc[q].plat, input.files, input.os)
             resolved == IF loaded = Nil THEN NotResolved ELSE ResolveLoaded(q, loaded)
             code == PrepareCode(q, loaded, resolved)
  <2>1. \/ Fail(q, code)
        \/ \E pc \in {"target", "done"} :
              proc' = [proc EXCEPT ![q].loaded = loaded, ![q].resolved = resolved, ![q].pc = pc]
    BY <1>1 DEF Prepare
  <2>2. proc[q].clients = <<>>
    BY <1>1 DEF Prepare, At
  <2> HIDE DEF loaded, resolved, code
  <2>3. CASE Fail(q, code)
    BY <2>3, FailMoves
  <2>4. ASSUME NEW pc \in {"target", "done"},
               proc' = [proc EXCEPT ![q].loaded = loaded, ![q].resolved = resolved, ![q].pc = pc]
        PROVE  Moves(q)
    <3> DEFINE s == [proc[q] EXCEPT !.loaded = loaded, !.resolved = resolved, !.pc = pc]
    <3>1. proc' = [proc EXCEPT ![q] = s]
      BY <2>4
    <3>2. DOMAIN s = DOMAIN proc[q] /\ s.pc = pc
          /\ s.env = proc[q].env /\ s.used = proc[q].used /\ s.plat = proc[q].plat
          /\ s.clients = proc[q].clients
      OBVIOUS
    <3> HIDE DEF s
    <3> QED BY <2>2, <3>1, <3>2 DEF Moves
  <2> QED BY <2>1, <2>3, <2>4
<1>2. ASSUME NEW r, Report(q, r) PROVE Moves(q)
  <2>1. (\E code : Fail(q, code)) \/ proc' = [proc EXCEPT ![q].resolved = r, ![q].pc = "done"]
    BY <1>2 DEF Report
  <2>2. CASE proc' = [proc EXCEPT ![q].resolved = r, ![q].pc = "done"]
    <3> DEFINE s == [proc[q] EXCEPT !.resolved = r, !.pc = "done"]
    <3>1. proc' = [proc EXCEPT ![q] = s]
      BY <2>2
    <3>2. DOMAIN s = DOMAIN proc[q] /\ s.pc = "done"
          /\ s.env = proc[q].env /\ s.used = proc[q].used /\ s.plat = proc[q].plat
          /\ s.clients = proc[q].clients
      OBVIOUS
    <3> HIDE DEF s
    <3> QED BY <3>1, <3>2 DEF Moves
  <2> QED BY <2>1, <2>2, FailMoves
<1>3. CASE runCrossFile(q) \/ runResolve(q)
  BY <1>2, <1>3 DEF runCrossFile, runResolve
<1>4. CASE runManifestOnly(q)
  <2>1. PICK w : Fail(q, "CROSS_CHECK") \/ proc' = [proc EXCEPT ![q].warned = w, ![q].pc = "done"]
    BY <1>4 DEF runManifestOnly
  <2>2. CASE proc' = [proc EXCEPT ![q].warned = w, ![q].pc = "done"]
    <3> DEFINE s == [proc[q] EXCEPT !.warned = w, !.pc = "done"]
    <3>1. proc' = [proc EXCEPT ![q] = s]
      BY <2>2
    <3>2. DOMAIN s = DOMAIN proc[q] /\ s.pc = "done"
          /\ s.env = proc[q].env /\ s.used = proc[q].used /\ s.plat = proc[q].plat
          /\ s.clients = proc[q].clients
      OBVIOUS
    <3> HIDE DEF s
    <3> QED BY <3>1, <3>2 DEF Moves
  <2> QED BY <2>1, <2>2, FailMoves
<1>5. CASE SaveSpec(q)
  <2>1. PICK v : Fail(q, "WIZARD") \/ proc' = [proc EXCEPT ![q].raw = v, ![q].pc = "see"]
    BY <1>5 DEF SaveSpec
  <2>2. proc[q].clients = <<>>
    BY <1>5 DEF SaveSpec, At
  <2>3. CASE proc' = [proc EXCEPT ![q].raw = v, ![q].pc = "see"]
    <3> DEFINE s == [proc[q] EXCEPT !.raw = v, !.pc = "see"]
    <3>1. proc' = [proc EXCEPT ![q] = s]
      BY <2>3
    <3>2. DOMAIN s = DOMAIN proc[q] /\ s.pc = "see"
          /\ s.env = proc[q].env /\ s.used = proc[q].used /\ s.plat = proc[q].plat
          /\ s.clients = proc[q].clients
      OBVIOUS
    <3> HIDE DEF s
    <3> QED BY <2>2, <3>1, <3>2 DEF Moves
  <2> QED BY <2>1, <2>3, FailMoves
<1>6. CASE SeeFile(q)
  <2>1. Fail(q, "PLATFORM_INVALID") \/ proc' = [proc EXCEPT ![q].seen = file, ![q].pc = "write"]
    BY <1>6 DEF SeeFile
  <2>2. proc[q].clients = <<>>
    BY <1>6 DEF SeeFile, At
  <2>3. CASE proc' = [proc EXCEPT ![q].seen = file, ![q].pc = "write"]
    <3> DEFINE s == [proc[q] EXCEPT !.seen = file, !.pc = "write"]
    <3>1. proc' = [proc EXCEPT ![q] = s]
      BY <2>3
    <3>2. DOMAIN s = DOMAIN proc[q] /\ s.pc = "write"
          /\ s.env = proc[q].env /\ s.used = proc[q].used /\ s.plat = proc[q].plat
          /\ s.clients = proc[q].clients
      OBVIOUS
    <3> HIDE DEF s
    <3> QED BY <2>2, <3>1, <3>2 DEF Moves
  <2> QED BY <2>1, <2>3, FailMoves
<1>7. CASE WriteFile(q)
  <2> DEFINE s == [proc[q] EXCEPT !.pc = "done"]
  <2>1. proc' = [proc EXCEPT ![q] = s]
    BY <1>7 DEF WriteFile
  <2>2. DOMAIN s = DOMAIN proc[q] /\ s.pc = "done"
        /\ s.env = proc[q].env /\ s.used = proc[q].used /\ s.plat = proc[q].plat
        /\ s.clients = proc[q].clients
    OBVIOUS
  <2> HIDE DEF s
  <2> QED BY <2>1, <2>2 DEF Moves
<1> QED BY <1>1, <1>3, <1>4, <1>5, <1>6, <1>7

\* The step of a command, as it leaves it.
LeavesOK(q) == \E s : proc' = [proc EXCEPT ![q] = s] /\ SessionOK(s, input.flag, input.inCluster)

LEMMA ReadOK ==
    ASSUME NEW q \in DOMAIN proc, SessionOK(proc[q], input.flag, input.inCluster), ReadPlatform(q)
    PROVE  LeavesOK(q)
<1>1. SessionFields \subseteq DOMAIN proc[q] /\ proc[q].clients = <<>>
  BY DEF SessionOK, ReadPlatform, At
<1>2. CASE \E code : Fail(q, code)
  BY <1>1, <1>2, FailMoves, MovesOK DEF Moves, LeavesOK
<1>3. CASE ~ \E code : Fail(q, code)
  <2> DEFINE cfg == Platform(q).cfg
             raw == ParseManifest(spec)
             pc == IF proc[q].cmd = "delete" THEN "target" ELSE "prepare"
  <2>1. proc' = [proc EXCEPT ![q].plat = cfg, ![q].used = cfg, ![q].raw = raw, ![q].pc = pc]
    BY <1>3 DEF ReadPlatform
  <2>2. pc \in {"target", "prepare"}
    OBVIOUS
  <2> HIDE DEF cfg, raw, pc
  <2> DEFINE s == [proc[q] EXCEPT !.plat = cfg, !.used = cfg, !.raw = raw, !.pc = pc]
  <2>3. proc' = [proc EXCEPT ![q] = s]
    BY <2>1
  <2>4. DOMAIN s = DOMAIN proc[q] /\ s.pc = pc /\ s.used = cfg /\ s.plat = cfg
        /\ s.clients = <<>>
    BY <1>1 DEF SessionFields
  <2> HIDE DEF s
  <2>5. SessionOK(s, input.flag, input.inCluster)
    BY <1>1, <2>2, <2>4, NoClients DEF SessionOK
  <2> QED BY <2>3, <2>5 DEF LeavesOK
<1> QED BY <1>2, <1>3

LEMMA TargetOK ==
    ASSUME NEW q \in DOMAIN proc, SessionOK(proc[q], input.flag, input.inCluster), Target(q)
    PROVE  LeavesOK(q)
<1> DEFINE r == proc[q]
           plat == IF input.flag = Unset THEN Platform(q).cfg ELSE r.plat
           ctx == TargetContext(input.flag, Platform(q).cfg, r.env)
           s == [r EXCEPT !.plat = plat, !.ctx = ctx, !.pc = "clients"]
<1>1. SessionFields \subseteq DOMAIN r /\ r.clients = <<>> /\ (r.used # Nil => r.plat = r.used)
  BY DEF SessionOK, Target, At
<1>2. proc' = [proc EXCEPT ![q] = s]
  BY DEF Target, TargetContext
<1>3. r.used # Nil => Platform(q).cfg = r.used
  BY <1>1 DEF Platform
<1>4. r.used # Nil => plat = r.used
  BY <1>1, <1>3
<1>5. Meant(input.flag, r.used, r.env) # Unset => ctx = Meant(input.flag, r.used, r.env)
  BY <1>3, TargetIsMeant
<1> HIDE DEF plat, ctx
<1>6. DOMAIN s = DOMAIN r /\ s.pc = "clients" /\ s.used = r.used /\ s.plat = plat
      /\ s.env = r.env /\ s.ctx = ctx /\ s.clients = <<>>
  BY <1>1 DEF SessionFields
<1> HIDE DEF s
<1>7. SessionOK(s, input.flag, input.inCluster)
  BY <1>1, <1>4, <1>5, <1>6, NoClients DEF SessionOK
<1> QED BY <1>2, <1>7 DEF LeavesOK

\* A client that was built before is used again, and a new one is for the
\* context that was settled on.
LEMMA BuildOK ==
    ASSUME NEW q \in DOMAIN proc, SessionOK(proc[q], input.flag, input.inCluster), BuildClient(q)
    PROVE  LeavesOK(q)
<1> DEFINE r == proc[q]
           kind == ClientsOf(r.cmd)[Len(r.clients) + 1].kind
           memo == Memoised(q, kind)
           fresh == ClientContext(kind, r.ctx)
           meant == Meant(input.flag, r.used, r.env)
<1>1. SessionFields \subseteq DOMAIN r /\ r.pc = "clients"
  BY DEF SessionOK, BuildClient, At
<1>2. CASE \E code : Fail(q, code)
  BY <1>1, <1>2, FailMoves, MovesOK DEF Moves, LeavesOK
<1>3. CASE ~ \E code : Fail(q, code)
  <2>1. PICK c \in (IF memo = {} THEN {fresh} ELSE memo) \cup {Nil} : \E pc \in {"clients", "done"} :
           proc' = [proc EXCEPT ![q].clients = Append(@, c), ![q].pc = pc]
    BY <1>3 DEF BuildClient
  <2>2. PICK pc \in {"clients", "done"} :
           proc' = [proc EXCEPT ![q].clients = Append(@, c), ![q].pc = pc]
    BY <2>1
  <2>3. ASSUME meant # Unset, ~input.inCluster
        PROVE  c \in {meant, Nil}
    <3>1. r.ctx = meant /\ r.clients \in Seq({meant, Nil})
      BY <1>1, <2>3 DEF SessionOK
    <3>2. \A i \in DOMAIN r.clients : r.clients[i] \in {meant, Nil}
      <4> HIDE DEF meant, r
      <4> QED BY <3>1
    <3>3. memo \subseteq {meant, Nil}
      <4> HIDE DEF meant, kind
      <4> QED BY <3>2 DEF Memoised
    <3>4. fresh = meant
      BY <2>3, <3>1 DEF ClientContext, kubeconfigContext, cloneWithContext
    <3> HIDE DEF memo, fresh, meant
    <3> QED BY <2>1, <3>3, <3>4
  <2> DEFINE s == [r EXCEPT !.clients = Append(r.clients, c), !.pc = pc]
  <2>4. proc' = [proc EXCEPT ![q] = s]
    BY <2>2
  <2>5. DOMAIN s = DOMAIN r /\ s.pc = pc /\ s.used = r.used /\ s.plat = r.plat
        /\ s.env = r.env /\ s.ctx = r.ctx /\ s.clients = Append(r.clients, c)
    BY <1>1 DEF SessionFields
  <2>6. ASSUME meant # Unset, ~input.inCluster
        PROVE  s.clients \in Seq({meant, Nil}) /\ s.ctx = meant
    <3>1. r.ctx = meant /\ r.clients \in Seq({meant, Nil})
      BY <1>1, <2>6 DEF SessionOK
    <3>2. c \in {meant, Nil}
      BY <2>3, <2>6
    <3>3. Append(r.clients, c) \in Seq({meant, Nil})
      <4> HIDE DEF meant, r
      <4> QED BY <3>1, <3>2
    <3> QED BY <2>5, <3>1, <3>3
  <2>7. r.used # Nil => r.plat = r.used
    BY DEF SessionOK
  <2> HIDE DEF s
  <2>8. SessionOK(s, input.flag, input.inCluster)
    BY <1>1, <2>2, <2>5, <2>6, <2>7 DEF SessionOK
  <2> QED BY <2>4, <2>8 DEF LeavesOK
<1> QED BY <1>2, <1>3

LEMMA SessionInit == Init => SessionInv
BY StartOK DEF Init, SessionInv

LEMMA SessionNext ==
    ASSUME SessionInv, [Next]_vars
    PROVE  SessionInv'
<1>1. CASE UNCHANGED <<proc, input>>
  BY <1>1 DEF SessionInv
<1>2. ASSUME NEW q \in DOMAIN proc, LeavesOK(q), input' = input
      PROVE  SessionInv'
  <2>1. PICK s : proc' = [proc EXCEPT ![q] = s] /\ SessionOK(s, input.flag, input.inCluster)
    BY <1>2 DEF LeavesOK
  <2>2. DOMAIN proc' = DOMAIN proc
        /\ \A p \in DOMAIN proc : proc'[p] = IF p = q THEN s ELSE proc[p]
    BY <2>1
  <2> QED BY <1>2, <2>1, <2>2 DEF SessionInv
<1>3. CASE EditFile \/ SwitchContext \/ Terminating \/ UNCHANGED vars
  BY <1>1, <1>3 DEF EditFile, SwitchContext, Terminating, vars
<1>4. ASSUME NEW q \in DOMAIN proc,
             \/ ReadPlatform(q) \/ Prepare(q)
             \/ runCrossFile(q) \/ runResolve(q) \/ runManifestOnly(q)
             \/ Target(q) \/ BuildClient(q)
             \/ SaveSpec(q) \/ SeeFile(q) \/ WriteFile(q)
      PROVE  SessionInv'
  <2>1. SessionOK(proc[q], input.flag, input.inCluster)
    BY DEF SessionInv
  <2>2. SessionFields \subseteq DOMAIN proc[q]
        /\ (proc[q].pc \notin {"clients", "done", "failed"} => proc[q].clients = <<>>)
    BY <2>1 DEF SessionOK
  <2>3. input' = input
    BY <1>4 DEF ReadPlatform, Prepare, runCrossFile, runResolve, runManifestOnly, Target,
                BuildClient, SaveSpec, SeeFile, WriteFile
  <2>4. CASE ReadPlatform(q) \/ Target(q) \/ BuildClient(q)
    BY <1>2, <2>1, <2>3, <2>4, ReadOK, TargetOK, BuildOK
  <2>5. CASE ~ (ReadPlatform(q) \/ Target(q) \/ BuildClient(q))
    <3>1. Moves(q)
      BY <1>4, <2>2, <2>5, OtherMoves
    <3>2. LeavesOK(q)
      BY <2>1, <3>1, MovesOK DEF Moves, LeavesOK
    <3> QED BY <1>2, <2>3, <3>2
  <2> QED BY <2>4, <2>5
<1> QED BY <1>3, <1>4 DEF Next

\* Outside a pod, every client of a command that has --context, or a context
\* for its environment in the platform file its checks were made with, is for
\* that context (Session.Target, Session.Platform, Cluster.Kubernetes): for
\* any commands and files, and any number of edits of the file and switches
\* of the current context meanwhile. Nothing is said of commands that fall
\* back on the current context.
THEOREM AlwaysRightCluster == Spec => []RightCluster
<1>1. ASSUME SessionInv
      PROVE  RightCluster
  <2>1. ASSUME NEW p \in DOMAIN proc, Meant(input.flag, proc[p].used, proc[p].env) # Unset,
               ~input.inCluster
        PROVE  ToSet(proc[p].clients) \subseteq {Meant(input.flag, proc[p].used, proc[p].env), Nil}
    <3>1. proc[p].clients \in Seq({Meant(input.flag, proc[p].used, proc[p].env), Nil})
      BY <1>1, <2>1 DEF SessionInv, SessionOK
    <3> QED BY <3>1 DEF ToSet
  <2> QED BY <2>1 DEF RightCluster, Meant
<1>2. SessionInv /\ [Next]_vars => SessionInv'
  BY SessionNext
<1> QED BY SessionInit, <1>1, <1>2, PTL DEF Spec

-----------------------------------------------------------------------------
(* Resolving: what a resolution without an error has passed. Errors are    *)
(* taken in the order of the names, so that none is reported means that    *)
(* there is none.                                                          *)

\* A set of numbers has a least one: what stands for induction here.
LEMMA LeastNumber ==
    ASSUME NEW T \in SUBSET Nat, T # {}
    PROVE  \E x \in T : \A y \in T : x <= y
<1>1. PICK x \in T : \A y \in T : ~ (<<y, x>> \in OpToRel(<, Nat))
  BY WFMin, NatLessThanWellFounded
<1>2. \A y \in T : ~ (y < x)
  BY <1>1 DEF OpToRel
<1>3. \A y \in T : y \in Nat /\ x \in Nat
  OBVIOUS
<1> QED BY <1>2, <1>3

LEMMA RankIs ==
    ASSUME NEW n \in ToSet(SortedNames)
    PROVE  Rank(n) \in Nat /\ SortedNames[Rank(n)] = n
<1>1. \E i \in DOMAIN SortedNames : SortedNames[i] = n
  BY DEF ToSet
<1>2. Rank(n) \in DOMAIN SortedNames /\ SortedNames[Rank(n)] = n
  BY <1>1 DEF Rank
<1>3. DOMAIN SortedNames \subseteq Nat
  BY NamesAssumption
<1> QED BY <1>2, <1>3

LEMMA LeastRank ==
    ASSUME NEW T, T \subseteq ToSet(SortedNames), T # {}
    PROVE  \E n \in T : \A m \in T : Rank(n) <= Rank(m)
<1> DEFINE R == {Rank(n) : n \in T}
<1>1. R \in SUBSET Nat /\ R # {}
  BY RankIs
<1>2. PICK x \in R : \A y \in R : x <= y
  BY <1>1, LeastNumber
<1> QED BY <1>2

\* firstError misses no error.
LEMMA FirstErrorSound ==
    ASSUME NEW codes, DOMAIN codes \subseteq ToSet(SortedNames), firstError(codes) = NoCode
    PROVE  \A n \in DOMAIN codes : codes[n] = NoCode
<1> DEFINE failed == {n \in DOMAIN codes : codes[n] # NoCode}
           first == CHOOSE n \in failed : \A m \in failed : Rank(n) <= Rank(m)
<1> SUFFICES ASSUME failed # {} PROVE FALSE
  OBVIOUS
<1>1. \E n \in failed : \A m \in failed : Rank(n) <= Rank(m)
  <2>1. failed \subseteq ToSet(SortedNames)
    OBVIOUS
  <2> HIDE DEF failed
  <2> QED BY <2>1, LeastRank
<1>2. first \in failed
  <2> HIDE DEF failed
  <2> QED BY <1>1
<1>3. firstError(codes) = codes[first]
  BY DEF firstError
<1>4. codes[first] # NoCode
  <2> HIDE DEF first
  <2> QED BY <1>2
<1> QED BY <1>3, <1>4

LEMMA FirstOfTwo ==
    ASSUME NEW a, NEW b, firstCode(a, b) = NoCode
    PROVE  a = NoCode /\ b = NoCode
BY DEF firstCode

LEMMA CodesAreSet ==
    /\ "PLATFORM_NOT_FOUND" # NoCode /\ "PLATFORM_ENV_NOT_FOUND" # NoCode /\ "DOMAIN_GAP" # NoCode
    /\ "INVALID_DNS" # NoCode /\ "FQDN_COLLISION" # NoCode /\ "PROFILE_NOT_FOUND" # NoCode
    /\ "PROFILE_DOMAIN_NOT_ALLOWED" # NoCode /\ "PROFILE_RESOURCE_EXCEEDED" # NoCode
    /\ "PROFILE_STORAGE_CLASS_NOT_FOUND" # NoCode /\ "LOAD" # NoCode
BY Zenon DEF NoCode

\* A resolution that succeeds: every component did, and none collides.
LEMMA ResolveSound ==
    ASSUME NEW s, NEW plat, NEW e, NEW dynamics, DOMAIN s.components \subseteq ToSet(SortedNames),
           Resolve(s, plat, e, dynamics).code = NoCode
    PROVE  LET rcs == resolveComponents(s, plat, e, dynamics)
           IN  /\ Resolve(s, plat, e, dynamics).components = rcs
               /\ plat # Nil => Matched(plat, e)
               /\ \A n \in DOMAIN rcs : rcs[n].code = NoCode /\ ~ Collides(rcs, n)
<1> DEFINE rcs == resolveComponents(s, plat, e, dynamics)
           rts == resolveTasks(s, plat, e)
           codes == [n \in DOMAIN rcs |-> componentCode(rcs, n)]
           env == IF plat # Nil /\ ~ Matched(plat, e) THEN "PLATFORM_ENV_NOT_FOUND" ELSE NoCode
           more == firstError([n \in DOMAIN rts |-> rts[n].code])
           code == firstCode(env, firstCode(firstError(codes), more))
           r == Resolve(s, plat, e, dynamics)
<1>1. r.code = code /\ r.components = IF code = NoCode THEN rcs ELSE <<>>
  BY DEF Resolve, ResolvedSpec, resolveErrors
<1>2. DOMAIN rcs \subseteq ToSet(SortedNames)
  BY DEF resolveComponents
<1>3. DOMAIN codes = DOMAIN rcs /\ \A n \in DOMAIN rcs : codes[n] = componentCode(rcs, n)
  OBVIOUS
<1> HIDE DEF rcs, rts, codes, more, r
<1>4. code = NoCode /\ r.components = rcs
  BY <1>1 DEF r
<1>5. env = NoCode /\ firstError(codes) = NoCode
  <2> HIDE DEF env
  <2> QED BY <1>4, FirstOfTwo
<1>6. plat # Nil => Matched(plat, e)
  BY <1>5, CodesAreSet
<1>7. \A n \in DOMAIN rcs : componentCode(rcs, n) = NoCode
  BY <1>2, <1>3, <1>5, FirstErrorSound
<1>8. \A n \in DOMAIN rcs : rcs[n].code = NoCode /\ ~ Collides(rcs, n)
  BY <1>7, CodesAreSet DEF componentCode
<1> QED BY <1>4, <1>6, <1>8 DEF rcs, r

ProfilesSection(plat) == IF plat = Nil THEN Nil ELSE plat.profiles

NamesOf(c, plat) == ResolveProfileNames(c.profiles, ProfilesSection(plat))

MergedOf(c, plat) == MergeProfiles(NamesOf(c, plat), ProfilesSection(plat))

\* What a component that was resolved without an error carries, and what it
\* has passed.
LEMMA ComponentSound ==
    ASSUME NEW n, NEW c, NEW plat, NEW pe, NEW e, NEW dynamic,
           resolveComponent(n, c, plat, pe, e, dynamic).code = NoCode
    PROVE  LET rc == resolveComponent(n, c, plat, pe, e, dynamic)
               key == domainKeyOf(c, pe)
           IN  /\ rc.key = key
               /\ rc.merged = MergedOf(c, plat)
               /\ rc.host = IF c.expose = Nil THEN <<>> ELSE hostOf(n, c, pe.domains[key])
               /\ rc.warned = staticWarning(c, pe, e, dynamic)
               /\ c.expose # Nil => exposeCode(n, c, pe, dynamic) = NoCode
               /\ MergeCode(NamesOf(c, plat), ProfilesSection(plat)) = NoCode
               /\ validateMergedProfile(c, NamesOf(c, plat), rc.merged, pe, key) = NoCode
<1> DEFINE rc == resolveComponent(n, c, plat, pe, e, dynamic)
           profs == IF plat = Nil THEN Nil ELSE plat.profiles
           names == ResolveProfileNames(c.profiles, profs)
           merged == MergeProfiles(names, profs)
           key == domainKeyOf(c, pe)
           class == storageClassKey(c, merged)
           host == IF c.expose = Nil THEN <<>> ELSE hostOf(n, c, pe.domains[key])
           k1 == IF c.profiles # Nil /\ plat = Nil THEN "PLATFORM_NOT_FOUND" ELSE NoCode
           k2 == ProfileNamesCode(c.profiles, profs)
           k3 == MergeCode(names, profs)
           k4 == IF c.expose = Nil THEN NoCode ELSE exposeCode(n, c, pe, dynamic)
           k5 == validateMergedProfile(c, names, merged, pe, key)
           k6 == applyResolvedStorageClass(c, merged, pe)
           tls == tlsOf(c, pe, key)
           class2 == IF class = Unset THEN Unset ELSE pe.classes[class]
           warned == staticWarning(c, pe, e, dynamic)
           code == firstCode(k1, firstCode(k2, firstCode(k3, firstCode(k4, firstCode(k5, k6)))))
<1>1. rc = IF code # NoCode THEN [code |-> code]
           ELSE [code |-> NoCode, profiles |-> names, merged |-> merged, key |-> key,
                 host |-> host, tls |-> tls, class |-> class2, warned |-> warned]
  BY DEF resolveComponent
<1>2. merged = MergedOf(c, plat) /\ names = NamesOf(c, plat) /\ profs = ProfilesSection(plat)
  BY DEF MergedOf, NamesOf, ProfilesSection
<1>3. k4 = NoCode /\ c.expose # Nil => exposeCode(n, c, pe, dynamic) = NoCode
  OBVIOUS
<1> HIDE DEF k1, k2, k4, k6, names, merged, key, host, tls, class2, warned, rc, profs
<1>4. code = NoCode
  <2>1. code # NoCode => rc.code = code
    <3> HIDE DEF code
    <3> QED BY <1>1
  <2> QED BY <2>1 DEF rc
<1>5. k3 = NoCode /\ k4 = NoCode /\ k5 = NoCode
  <2> HIDE DEF k3, k5
  <2> QED BY <1>4, FirstOfTwo
<1>6. rc.key = key /\ rc.merged = merged /\ rc.host = host /\ rc.warned = warned
  <2> HIDE DEF code
  <2> QED BY <1>1, <1>4
<1> QED BY <1>2, <1>3, <1>5, <1>6 DEF rc, key, host, warned

\* An exposed component has a domain of its environment.
LEMMA ExposedHasDomain ==
    ASSUME NEW n, NEW c, NEW pe, NEW dynamic, exposeCode(n, c, pe, dynamic) = NoCode
    PROVE  pe # Nil /\ domainKeyOf(c, pe) \in Keys(pe.domains)
BY CodesAreSet DEF exposeCode

LEMMA HostNotEmpty ==
    ASSUME NEW n, NEW c, NEW domain, HostOK(domain.base)
    PROVE  hostOf(n, c, domain) # <<>>
<1> DEFINE x == subdomainOf(n, c)
           b == domain.base
           S == ToSet(b) \cup {x}
<1>1. b # <<>> /\ b \in Seq(ToSet(b))
  BY DEF HostOK
<1>2. <<x>> \o b # <<>>
  <2>0. ToSet(b) \subseteq S /\ x \in S
    OBVIOUS
  <2> HIDE DEF x, b, S
  <2>1. <<x>> \in Seq(S) /\ b \in Seq(S) /\ Len(<<x>>) = 1
    BY <1>1, <2>0
  <2>2. Len(<<x>> \o b) = 1 + Len(b) /\ Len(b) \in Nat /\ Len(<<>>) = 0
    BY <2>1
  <2> QED BY <2>2
<1>3. hostOf(n, c, domain) = IF c.expose.apex THEN b ELSE <<x>> \o b
  BY DEF hostOf
<1> HIDE DEF x, b
<1> QED BY <1>1, <1>2, <1>3

\* Hosts that are resolved are not empty, and differ.
LEMMA HostsDiffer ==
    ASSUME NEW s, NEW plat, NEW e, NEW dynamics, DOMAIN s.components \subseteq ToSet(SortedNames),
           PlatformOK(plat), plat # Nil, Resolve(s, plat, e, dynamics).code = NoCode,
           NEW m \in DOMAIN Resolve(s, plat, e, dynamics).components,
           NEW n \in DOMAIN Resolve(s, plat, e, dynamics).components,
           m # n, s.components[m].expose # Nil, s.components[n].expose # Nil
    PROVE  LET rcs == Resolve(s, plat, e, dynamics).components
           IN  rcs[m].host # rcs[n].host
<1> DEFINE rcs == resolveComponents(s, plat, e, dynamics)
           pe == platformEnvOf(plat, e)
<1>1. Resolve(s, plat, e, dynamics).components = rcs /\ Matched(plat, e)
      /\ \A x \in DOMAIN rcs : rcs[x].code = NoCode /\ ~ Collides(rcs, x)
  BY ResolveSound
<1>2. m \in DOMAIN rcs /\ n \in DOMAIN rcs
  BY <1>1
<1>3. \A x \in DOMAIN rcs :
         /\ x \in DOMAIN s.components
         /\ rcs[x] = resolveComponent(x, s.components[x], plat, pe, e, x \in dynamics)
  BY DEF resolveComponents
<1>4. pe = plat.envs[MatchedKey(e, DOMAIN plat.envs)] /\ MatchedKey(e, DOMAIN plat.envs) \in DOMAIN plat.envs
  BY <1>1 DEF platformEnvOf, Matched, matchEnvKey, MatchedKey
<1>5. DomainsOK(pe.domains)
  BY <1>4 DEF PlatformOK
<1> HIDE DEF rcs, pe
<1>6. ASSUME NEW x \in DOMAIN rcs, s.components[x].expose # Nil
      PROVE  rcs[x].host # <<>>
  <2> DEFINE c == s.components[x]
             key == domainKeyOf(c, pe)
  <2>1. rcs[x] = resolveComponent(x, c, plat, pe, e, x \in dynamics) /\ rcs[x].code = NoCode
    BY <1>1, <1>3
  <2>2. /\ rcs[x].host = IF c.expose = Nil THEN <<>> ELSE hostOf(x, c, pe.domains[key])
        /\ c.expose # Nil => exposeCode(x, c, pe, x \in dynamics) = NoCode
    BY <2>1, ComponentSound
  <2>3. c.expose # Nil
    BY <1>6
  <2> HIDE DEF c
  <2>4. key \in Keys(pe.domains)
    BY <2>2, <2>3, ExposedHasDomain
  <2> HIDE DEF key
  <2>5. HostOK(pe.domains[key].base)
    BY <1>5, <2>4 DEF DomainsOK
  <2> QED BY <2>2, <2>3, <2>5, HostNotEmpty
<1>7. Rank(m) \in Nat /\ Rank(n) \in Nat /\ Rank(m) # Rank(n)
  BY <1>2, <1>3, RankIs
<1>8. Rank(m) < Rank(n) \/ Rank(n) < Rank(m)
  BY <1>7
<1>9. rcs[m].host # <<>> /\ rcs[n].host # <<>>
  BY <1>2, <1>6
<1>10. rcs[m].host # rcs[n].host
  BY <1>1, <1>2, <1>8, <1>9 DEF Collides
<1> QED BY <1>1, <1>10

-----------------------------------------------------------------------------
(* Loading keeps what the schema has checked.                              *)

LEMMA ComponentFields ==
    DOMAIN BlankComponent = {"role", "kind", "port", "replicas", "hpa", "disk", "expose", "envs",
                             "profiles", "cpu", "mem", "eph", "preset", "metrics", "ready", "alive",
                             "shutdown", "wellFormed"}
BY DEF BlankComponent

\* Two components with the same resources and profiles.
Alike(d, c) ==
    /\ DOMAIN d = DOMAIN c /\ d.cpu = c.cpu /\ d.mem = c.mem /\ d.eph = c.eph /\ d.preset = c.preset
    /\ d.profiles = c.profiles

LEMMA SameResources ==
    ASSUME NEW c, NEW d, ComponentOK(c), Alike(d, c)
    PROVE  ComponentOK(d)
BY DEF Alike, ComponentOK, ResourcesOK

LEMMA NormalizeOK ==
    ASSUME NEW s, SpecOK(s)
    PROVE  SpecOK(normalizeComponents(s))
<1> DEFINE t == normalizeComponents(s)
           new(c) == IF c.expose # Nil /\ c.expose.off THEN [c EXCEPT !.expose = Nil] ELSE c
<1>1. DOMAIN s = {"components", "tasks", "envs"} /\ DOMAIN s.components \subseteq ToSet(SortedNames)
      /\ \A n \in DOMAIN s.components : ComponentOK(s.components[n])
  BY DEF SpecOK
<1>2. DOMAIN t = DOMAIN s /\ t.components = [n \in DOMAIN s.components |-> new(s.components[n])]
  BY <1>1 DEF normalizeComponents
<1>3. ASSUME NEW c, ComponentOK(c) PROVE ComponentOK(new(c))
  <2>1. Alike(new(c), c)
    BY <1>3, ComponentFields DEF ComponentOK, Alike
  <2> HIDE DEF new
  <2> QED BY <1>3, <2>1, SameResources
<1> HIDE DEF t, new
<1>4. SpecOK(t)
  BY <1>1, <1>2, <1>3 DEF SpecOK
<1> QED BY <1>4 DEF t

LEMMA SubstituteOK ==
    ASSUME NEW s, SpecOK(s), NEW entry, NEW fromFile, NEW fromOS,
           SubstituteVariables(s, entry, fromFile, fromOS) # Nil
    PROVE  SpecOK(SubstituteVariables(s, entry, fromFile, fromOS))
<1> DEFINE t == SubstituteVariables(s, entry, fromFile, fromOS)
           value == IF fromOS # Nil THEN fromOS ELSE IF fromFile # Nil THEN fromFile ELSE entry.var
           new(c) == substituteComponent(c, value)
<1>1. DOMAIN s = {"components", "tasks", "envs"} /\ DOMAIN s.components \subseteq ToSet(SortedNames)
      /\ \A n \in DOMAIN s.components : ComponentOK(s.components[n])
  BY DEF SpecOK
<1> DEFINE uses == \E n \in DOMAIN s.components :
                       LET x == s.components[n].expose IN x # Nil /\ Var \in {x.sub, x.domain}
           done == [s EXCEPT !.components = [n \in DOMAIN s.components |-> new(s.components[n])]]
<1>a. t = IF uses /\ value = Nil THEN Nil ELSE done
  BY DEF SubstituteVariables
<1>2. t = done
  <2> HIDE DEF uses, done
  <2> QED BY <1>a
<1>3. ASSUME NEW c, ComponentOK(c) PROVE ComponentOK(new(c))
  <2>1. Alike(new(c), c)
    BY <1>3, ComponentFields DEF ComponentOK, substituteComponent, Alike
  <2> HIDE DEF new
  <2> QED BY <1>3, <2>1, SameResources
<1> HIDE DEF t, new
<1>4. DOMAIN t = DOMAIN s /\ t.components = [n \in DOMAIN s.components |-> new(s.components[n])]
  BY <1>1, <1>2
<1>5. SpecOK(t)
  BY <1>1, <1>4, <1>3 DEF SpecOK
<1> QED BY <1>5 DEF t

\* Every component has requests of its own.
Funded(s) == \A n \in DOMAIN s.components : ResourcesSet(s.components[n])

LEMMA PresetsAreSet ==
    ASSUME NEW p \in DOMAIN ResourcePresetMappings
    PROVE  /\ ResourcePresetMappings[p].cpu \in Nat \ {0}
           /\ ResourcePresetMappings[p].mem \in Nat \ {0}
           /\ ResourcePresetMappings[p].eph \in Nat \ {0}
BY DEF ResourcePresetMappings

LEMMA PresetOK ==
    ASSUME NEW c, ComponentOK(c)
    PROVE  ComponentOK(applyResourcePreset(c)) /\ ResourcesSet(applyResourcePreset(c))
<1> DEFINE p == orElse(c.preset, Unset, "small")
           req == ResourcePresetMappings[p]
           d == [c EXCEPT !.cpu = req.cpu, !.mem = req.mem, !.eph = req.eph, !.preset = Unset]
<1>1. applyResourcePreset(c) = IF ResourcesSet(c) THEN c ELSE d
  BY DEF applyResourcePreset
<1>2. p \in DOMAIN ResourcePresetMappings
  <2>1. "small" \in DOMAIN ResourcePresetMappings
    BY DEF ResourcePresetMappings
  <2> QED BY <2>1 DEF orElse, ComponentOK, ResourcesOK
<1>3. req.cpu \in Nat \ {0} /\ req.mem \in Nat \ {0} /\ req.eph \in Nat \ {0}
  <2> HIDE DEF p
  <2> QED BY <1>2, PresetsAreSet
<1> HIDE DEF req, p
<1>4. DOMAIN d = DOMAIN BlankComponent /\ d.cpu = req.cpu /\ d.mem = req.mem /\ d.eph = req.eph /\ d.preset = Unset
      /\ d.profiles = c.profiles
  BY ComponentFields DEF ComponentOK
<1> HIDE DEF d
<1>5. ComponentOK(d)
  BY <1>3, <1>4 DEF ComponentOK, ResourcesOK
<1>6. ResourcesSet(d)
  BY <1>3, <1>4, NilAssumption DEF ResourcesSet, quantitySet
<1> QED BY <1>1, <1>5, <1>6

LEMMA DefaultsOK ==
    ASSUME NEW c, ComponentOK(c)
    PROVE  ComponentOK(applyRoleDependentDefaults(SchemaDefaults(c)))
<1> DEFINE d == SchemaDefaults(c)
           b == applyRoleDependentDefaults(d)
<1>1. Alike(d, c)
  BY ComponentFields DEF ComponentOK, SchemaDefaults, Alike
<1> HIDE DEF d
<1>2. ComponentOK(d)
  BY <1>1, SameResources
<1>3. Alike(b, d)
  BY <1>2, ComponentFields DEF ComponentOK, applyRoleDependentDefaults, Alike
<1> HIDE DEF b
<1>4. ComponentOK(b)
  BY <1>2, <1>3, SameResources
<1> QED BY <1>4 DEF b, d

LEMMA DropOK ==
    ASSUME NEW c, ComponentOK(c), NEW explicit
    PROVE  ComponentOK(dropSchemaReplicasDefault(c, explicit))
<1> DEFINE d == dropSchemaReplicasDefault(c, explicit)
<1>1. Alike(d, c)
  BY ComponentFields DEF ComponentOK, dropSchemaReplicasDefault, Alike
<1> HIDE DEF d
<1>2. ComponentOK(d)
  BY <1>1, SameResources
<1> QED BY <1>2 DEF d

LEMMA FillOK ==
    ASSUME NEW s, SpecOK(s)
    PROVE  SpecOK(FillSpecWithDefaults(s)) /\ Funded(FillSpecWithDefaults(s))
<1> DEFINE t == FillSpecWithDefaults(s)
           with(c) == applyRoleDependentDefaults(SchemaDefaults(c))
           new(c) == applyResourcePreset(dropSchemaReplicasDefault(with(c), c.replicas # Nil))
<1>1. DOMAIN s = {"components", "tasks", "envs"} /\ DOMAIN s.components \subseteq ToSet(SortedNames)
      /\ \A n \in DOMAIN s.components : ComponentOK(s.components[n])
  BY DEF SpecOK
<1>2. DOMAIN t = DOMAIN s /\ t.components = [n \in DOMAIN s.components |-> new(s.components[n])]
  BY <1>1 DEF FillSpecWithDefaults
<1>3. ASSUME NEW c, ComponentOK(c) PROVE ComponentOK(new(c)) /\ ResourcesSet(new(c))
  BY <1>3, DefaultsOK, DropOK, PresetOK
<1> HIDE DEF t, new
<1>4. SpecOK(t) /\ Funded(t)
  BY <1>1, <1>2, <1>3 DEF SpecOK, Funded
<1> QED BY <1>4 DEF t

LEMMA LoadOK ==
    ASSUME NEW s, SpecOK(s), NEW e, NEW plat, NEW files, NEW os,
           Load(s, e, plat, files, os) # Nil
    PROVE  SpecOK(Load(s, e, plat, files, os)) /\ Funded(Load(s, e, plat, files, os))
<1> DEFINE name == ResolveEnvironment(s, plat, e)
           entry == IF name \in DOMAIN s.envs THEN s.envs[name] ELSE NoEntry
           env == resolveEnvFile(entry, name, files)
           fromFile == IF env \in DOMAIN files THEN files[env] ELSE Nil
           replaced == SubstituteVariables(s, entry, fromFile, os)
           final == normalizeComponents(replaced)
<1>1. replaced # Nil /\ Load(s, e, plat, files, os) = FillSpecWithDefaults(final)
  BY DEF Load
<1> HIDE DEF entry, fromFile
<1>2. SpecOK(replaced)
  BY <1>1, SubstituteOK
<1> HIDE DEF replaced
<1>3. SpecOK(final)
  BY <1>2, NormalizeOK
<1> QED BY <1>1, <1>3, FillOK

\* What init saves is well-formed too.
LEMMA EssentialsOK ==
    ASSUME NEW a, NEW names,
           ResourcesOK(a, DOMAIN ResourcePresetMappings \cup {"custom"})
    PROVE  ComponentOK(collectComponentEssentials(a, names))
<1> DEFINE c == applyComponentEssentials(a, names)
           preset == IF a.preset = "custom" THEN Unset ELSE a.preset
           d == collectComponentCustomResources(c, a)
<1>1. BlankComponent.cpu = Nil /\ BlankComponent.mem = Nil /\ BlankComponent.eph = Nil /\ BlankComponent.profiles = Nil
  BY DEF BlankComponent
<1>2. DOMAIN c = DOMAIN BlankComponent /\ c.cpu = Nil /\ c.mem = Nil /\ c.eph = Nil /\ c.preset = preset
      /\ c.profiles = Nil
  BY <1>1, ComponentFields DEF applyComponentEssentials
<1>3. preset \in DOMAIN ResourcePresetMappings \cup {Unset}
  BY DEF ResourcesOK
<1> HIDE DEF c, preset
<1>4. DOMAIN d = DOMAIN c /\ d.preset = preset /\ d.profiles = Nil
      /\ d.cpu \in {Nil, a.cpu} /\ d.mem \in {Nil, a.mem} /\ d.eph \in {Nil, a.eph}
  BY <1>2, ComponentFields DEF collectComponentCustomResources
<1> HIDE DEF d
<1>5. ComponentOK(d)
  BY <1>2, <1>3, <1>4 DEF ComponentOK, ResourcesOK
<1> QED BY <1>5 DEF c, d, collectComponentEssentials

LEMMA AdvancedOK ==
    ASSUME NEW c, ComponentOK(c), NEW a, NEW names
    PROVE  ComponentOK(collectComponentAdvancedDetails(c, a, names))
<1> DEFINE d == [c EXCEPT !.kind = a.kind,
                  !.disk = collectComponentPersistence(a),
                  !.replicas = collectComponentReplicas(a),
                  !.expose = collectComponentExposeOptions(@, a),
                  !.metrics = collectComponentMetricsPort(a),
                  !.hpa = collectComponentAutoscaling(a),
                  !.envs = collectComponentEnvironments(a, names)]
           h == collectComponentHealth(d, a)
           x == collectComponentExecHealth(h, a)
<1>1. collectComponentAdvancedDetails(c, a, names) = x
  BY DEF collectComponentAdvancedDetails
<1>2. Alike(d, c)
  BY ComponentFields DEF ComponentOK, Alike
<1> HIDE DEF d
<1>3. ComponentOK(d)
  BY <1>2, SameResources
<1>4. Alike(h, d)
  BY <1>3, ComponentFields DEF ComponentOK, collectComponentHealth, Alike
<1> HIDE DEF h
<1>5. ComponentOK(h)
  BY <1>3, <1>4, SameResources
<1>6. Alike(x, h)
  BY <1>5, ComponentFields DEF ComponentOK, collectComponentExecHealth, Alike
<1> HIDE DEF x
<1> QED BY <1>1, <1>5, <1>6, SameResources

LEMMA SparseOK ==
    ASSUME NEW c, ComponentOK(c)
    PROVE  ComponentOK(omitSchemaDefaults(c))
<1> DEFINE d == omitSchemaDefaults(c)
<1>1. Alike(d, c)
  BY ComponentFields DEF ComponentOK, omitSchemaDefaults, Alike
<1> HIDE DEF d
<1>2. ComponentOK(d)
  BY <1>1, SameResources
<1> QED BY <1>2 DEF d

LEMMA WizardOK ==
    ASSUME NEW answers, NEW names, DOMAIN answers \subseteq ToSet(SortedNames),
           \A n \in DOMAIN answers :
              ResourcesOK(answers[n], DOMAIN ResourcePresetMappings \cup {"custom"})
    PROVE  SpecOK(sparseSpec(collectComponents(answers, names)))
<1> DEFINE s == collectComponents(answers, names)
           t == sparseSpec(s)
<1>1. DOMAIN s = {"components", "tasks", "envs"} /\ DOMAIN s.components = DOMAIN answers
      /\ \A n \in DOMAIN answers : s.components[n] = collectComponentDetails(answers[n], names)
  BY DEF collectComponents
<1>2. \A n \in DOMAIN answers : ComponentOK(collectComponentDetails(answers[n], names))
  BY EssentialsOK, AdvancedOK DEF collectComponentDetails, collectComponentAdvanced
<1> HIDE DEF s
<1>3. DOMAIN t = DOMAIN s /\ DOMAIN t.components = DOMAIN s.components
      /\ \A n \in DOMAIN s.components : t.components[n] = omitSchemaDefaults(s.components[n])
  BY <1>1 DEF sparseSpec
<1> HIDE DEF t
<1>4. SpecOK(t)
  BY <1>1, <1>2, <1>3, SparseOK DEF SpecOK
<1> QED BY <1>4 DEF t, s

-----------------------------------------------------------------------------
(* What is written to the platform file is well-formed as well.            *)

LEMMA TripleOK ==
    ASSUME NEW x, NEW y, NEW z
    PROVE  HostOK(<<x, y, z>>)
<1> DEFINE t == <<x, y, z>>
<1>1. ToSet(t) = {x, y, z}
  BY DEF ToSet
<1>2. t \in Seq({x, y, z}) /\ Len(t) = 3
  OBVIOUS
<1>3. Len(<<>>) = 0
  OBVIOUS
<1> HIDE DEF t
<1>4. t # <<>>
  BY <1>2, <1>3
<1>5. HostOK(t)
  BY <1>1, <1>2, <1>4 DEF HostOK
<1> QED BY <1>5 DEF t

LEMMA NewEntryOK ==
    ASSUME NEW name
    PROVE  DomainsOK(newEntry(name).domains)
<1>1. EmptyEntry.domains = Nil
  BY DEF EmptyEntry
<1>2. LocalPlatformEnvironment.domains
        = [public |-> [base |-> <<"127-0-0-1", "nip", "io">>, default |-> FALSE,
                       tls |-> "selfSigned"]]
  BY DEF LocalPlatformEnvironment, LocalDomains, EmptyEntry
<1>3. "public" # Unset
  BY Zenon DEF Unset
<1>4. HostOK(<<"127-0-0-1", "nip", "io">>)
  BY TripleOK
<1>5. CASE name = "local"
  <2> DEFINE d == LocalPlatformEnvironment.domains
  <2>1. DOMAIN d = {"public"} /\ d["public"].base = <<"127-0-0-1", "nip", "io">>
    BY <1>2
  <2>2. newEntry(name).domains = d
    BY <1>5 DEF newEntry
  <2>3. \A k \in Keys(d) : k = "public"
    BY <2>1 DEF Keys
  <2> HIDE DEF d
  <2> QED BY <1>3, <1>4, <2>1, <2>2, <2>3 DEF DomainsOK
<1>6. CASE name # "local"
  BY <1>1, <1>6 DEF newEntry, Keys, DomainsOK
<1> QED BY <1>5, <1>6

LEMMA AddedOK ==
    ASSUME NEW cfg, NEW names, PlatformOK(cfg)
    PROVE  PlatformOK(addMissing(cfg, names))
<1> DEFINE new == addMissing(cfg, names)
<1>1. new.profiles = cfg.profiles /\ DOMAIN new.envs = DOMAIN cfg.envs \cup names
      /\ \A n \in DOMAIN new.envs :
            new.envs[n] = IF n \in DOMAIN cfg.envs THEN cfg.envs[n] ELSE newEntry(n)
  BY DEF addMissing
<1> HIDE DEF new
<1>2. PlatformOK(new)
  BY <1>1, NewEntryOK DEF PlatformOK
<1> QED BY <1>2 DEF new

LEMMA FreshOK ==
    ASSUME NEW names
    PROVE  PlatformOK(newPlatformEnvironments(names))
<1> DEFINE new == newPlatformEnvironments(names)
<1>1. new.profiles = Nil /\ \A k \in DOMAIN new.envs : new.envs[k] = newEntry(k)
  BY DEF newPlatformEnvironments
<1> HIDE DEF new
<1>2. PlatformOK(new)
  BY <1>1, NewEntryOK DEF PlatformOK, Keys
<1> QED BY <1>2 DEF new

-----------------------------------------------------------------------------
(* What a command keeps of a resolution.                                   *)

\* The components whose subdomain came from a variable.
Dynamics(cmd, raw) == IF cmd = "run" THEN {} ELSE PrescanSubstitutionReport(raw)

ResolutionFields == {"cmd", "env", "pc", "raw", "plat", "used", "loaded", "resolved", "seen"}

\* It was made with the platform file the command keeps, for the spec it
\* loaded if it loads one, and without an error. Nothing is left unresolved
\* that is exposed.
ResolutionOK(r) ==
    /\ ResolutionFields \subseteq DOMAIN r
    /\ r.plat = Nil \/ PlatformOK(r.plat)
    /\ r.seen = Nil \/ PlatformOK(r.seen.cfg)
    /\ r.loaded # Nil => SpecOK(r.loaded) /\ Funded(r.loaded)
    /\ r.pc \in {"platform", "prepare", "save"} => r.loaded = Nil /\ r.resolved = NotResolved
    /\ r.pc = "prepare" => r.used = r.plat /\ SpecOK(r.raw)
    /\ r.loaded # Nil /\ r.cmd # "run" /\ ~ r.resolved.done => ~ HasExposeComponents(r.loaded)
    /\ r.resolved.done =>
          /\ r.plat # Nil /\ r.used = r.plat /\ r.resolved.code = NoCode
          /\ \E s : /\ SpecOK(s) /\ (r.loaded # Nil => s = r.loaded)
                    /\ r.resolved = Resolve(s, r.plat, r.env, Dynamics(r.cmd, r.raw))

FilesOK ==
    /\ input \in Inputs
    /\ SpecOK(spec)
    /\ file = Nil \/ PlatformOK(file.cfg)

ResolutionInv == FilesOK /\ \A p \in DOMAIN proc : ResolutionOK(proc[p])

LEMMA NothingResolved == NotResolved.done = FALSE /\ NotResolved.code = NoCode
BY DEF NotResolved

LEMMA ResolveIsDone ==
    ASSUME NEW s, NEW plat, NEW e, NEW dynamics
    PROVE  Resolve(s, plat, e, dynamics).done = TRUE
BY DEF Resolve, ResolvedSpec

\* A step that changes nothing of this.
Quiet(r, s) ==
    /\ ResolutionFields \subseteq DOMAIN s
    /\ s.cmd = r.cmd /\ s.env = r.env /\ s.raw = r.raw /\ s.plat = r.plat /\ s.used = r.used
    /\ s.loaded = r.loaded /\ s.resolved = r.resolved /\ s.seen = r.seen
    /\ s.pc \notin {"platform", "prepare", "save"}

LEMMA QuietOK ==
    ASSUME NEW r, NEW s, ResolutionOK(r), Quiet(r, s)
    PROVE  ResolutionOK(s)
BY DEF ResolutionOK, Quiet

KeepsResolution(q) == \E s : proc' = [proc EXCEPT ![q] = s] /\ ResolutionOK(s)

LEMMA FailKeeps ==
    ASSUME NEW q \in DOMAIN proc, ResolutionOK(proc[q]), NEW code, Fail(q, code)
    PROVE  KeepsResolution(q)
<1> DEFINE r == proc[q]
           s == [r EXCEPT !.pc = "failed", !.code = code]
<1>1. proc' = [proc EXCEPT ![q] = s]
  BY DEF Fail
<1>2. ResolutionFields \subseteq DOMAIN r
  BY DEF ResolutionOK
<1>3. Quiet(r, s)
  BY <1>2 DEF Quiet, ResolutionFields
<1> HIDE DEF s
<1> QED BY <1>1, <1>3, QuietOK DEF KeepsResolution

LEMMA PlatformIsOK ==
    ASSUME NEW q, FilesOK, ResolutionOK(proc[q])
    PROVE  /\ Platform(q).cfg = Nil \/ PlatformOK(Platform(q).cfg)
           /\ proc[q].plat # Nil => Platform(q).cfg = proc[q].plat
BY DEF FilesOK, ResolutionOK, Platform, LoadPlatform

LEMMA ReadKeeps ==
    ASSUME NEW q \in DOMAIN proc, FilesOK, ResolutionOK(proc[q]), ReadPlatform(q)
    PROVE  KeepsResolution(q)
<1> DEFINE r == proc[q]
           plat == Platform(q).cfg
           raw == ParseManifest(spec)
           pc == IF proc[q].cmd = "delete" THEN "target" ELSE "prepare"
           s == [r EXCEPT !.plat = plat, !.used = plat, !.raw = raw, !.pc = pc]
<1>1. r.pc = "platform"
  BY DEF ReadPlatform, At
<1>2. CASE \E code : Fail(q, code)
  BY <1>2, FailKeeps
<1>3. CASE ~ \E code : Fail(q, code)
  <2>1. proc' = [proc EXCEPT ![q] = s]
    BY <1>3 DEF ReadPlatform
  <2>2. ResolutionFields \subseteq DOMAIN r /\ r.loaded = Nil /\ r.resolved = NotResolved
        /\ (r.seen = Nil \/ PlatformOK(r.seen.cfg))
    BY <1>1 DEF ResolutionOK
  <2>3. plat = Nil \/ PlatformOK(plat)
    BY PlatformIsOK
  <2>4. SpecOK(raw)
    BY NormalizeOK DEF FilesOK, ParseManifest
  <2>p. pc \in {"target", "prepare"}
    OBVIOUS
  <2> HIDE DEF plat, raw, pc
  <2>5. DOMAIN s = DOMAIN r /\ s.plat = plat /\ s.used = plat /\ s.raw = raw /\ s.pc = pc
        /\ s.loaded = r.loaded /\ s.resolved = r.resolved /\ s.seen = r.seen
    BY <2>2 DEF ResolutionFields
  <2> HIDE DEF s, r
  <2>6. ResolutionOK(s)
    BY <2>p, <2>2, <2>3, <2>4, <2>5, NothingResolved DEF ResolutionOK
  <2> QED BY <2>1, <2>6 DEF KeepsResolution
<1> QED BY <1>2, <1>3

LEMMA PrepareKeeps ==
    ASSUME NEW q \in DOMAIN proc, FilesOK, ResolutionOK(proc[q]), Prepare(q)
    PROVE  KeepsResolution(q)
<1> DEFINE r == proc[q]
           loaded == Load(spec, r.env, r.plat, input.files, input.os)
           resolved == IF loaded = Nil THEN NotResolved ELSE ResolveLoaded(q, loaded)
           code == PrepareCode(q, loaded, resolved)
<1>1. r.pc = "prepare"
  BY DEF Prepare, At
<1>2. \/ Fail(q, code)
      \/ /\ code = NoCode
         /\ \E pc \in {"target", "done"} :
               proc' = [proc EXCEPT ![q].loaded = loaded, ![q].resolved = resolved, ![q].pc = pc]
  BY DEF Prepare
<1>3. CASE Fail(q, code)
  BY <1>3, FailKeeps
<1>4. CASE ~ Fail(q, code)
  <2>1. PICK pc \in {"target", "done"} :
           proc' = [proc EXCEPT ![q].loaded = loaded, ![q].resolved = resolved, ![q].pc = pc]
    BY <1>2, <1>4
  <2>2. code = NoCode
    BY <1>2, <1>4
  <2> DEFINE bare == r.cmd # "run" /\ r.plat = Nil /\ HasExposeComponents(loaded)
             rest == CASE r.cmd = "deploy" -> deployCode(q, loaded, resolved)
                       [] r.cmd = "run" -> resolveRunTask(q, loaded, resolved)
                       [] OTHER -> NoCode
  <2>3. code = IF loaded = Nil THEN "LOAD" ELSE IF bare THEN "PLATFORM_NOT_FOUND"
               ELSE firstCode(resolved.code, rest)
    <3> HIDE DEF loaded, resolved
    <3> QED BY DEF PrepareCode
  <2>4. loaded # Nil /\ ~ bare /\ resolved.code = NoCode
    <3> HIDE DEF bare, rest, resolved, loaded, code
    <3> QED BY <2>2, <2>3, CodesAreSet, FirstOfTwo
  <2>5. SpecOK(loaded) /\ Funded(loaded)
    BY <2>4, LoadOK DEF FilesOK
  <2>6. resolved = IF r.plat = Nil THEN NotResolved
                   ELSE Resolve(loaded, r.plat, r.env, Dynamics(r.cmd, r.raw))
    <3> HIDE DEF loaded
    <3> QED BY <2>4 DEF ResolveLoaded, dynamicsOf, Dynamics
  <2>7. ResolutionFields \subseteq DOMAIN r /\ r.used = r.plat
        /\ (r.seen = Nil \/ PlatformOK(r.seen.cfg)) /\ (r.plat = Nil \/ PlatformOK(r.plat))
    BY <1>1 DEF ResolutionOK
  <2>8. r.plat = Nil => ~ resolved.done
    <3> HIDE DEF loaded
    <3> QED BY <2>6, NothingResolved
  <2> HIDE DEF loaded, resolved
  <2> DEFINE s == [r EXCEPT !.loaded = loaded, !.resolved = resolved, !.pc = pc]
  <2>9. proc' = [proc EXCEPT ![q] = s]
    BY <2>1
  <2>10. DOMAIN s = DOMAIN r /\ s.loaded = loaded /\ s.resolved = resolved /\ s.pc = pc
         /\ s.plat = r.plat /\ s.used = r.used /\ s.raw = r.raw /\ s.seen = r.seen
         /\ s.cmd = r.cmd /\ s.env = r.env
    BY <2>7 DEF ResolutionFields
  <2>11. resolved.done => r.plat # Nil /\ resolved = Resolve(loaded, r.plat, r.env, Dynamics(r.cmd, r.raw))
    BY <2>6, <2>8
  <2>12. ~ resolved.done => r.plat = Nil
    BY <2>6, ResolveIsDone
  <2> HIDE DEF s, r
  <2>13. s.resolved.done =>
            /\ s.plat # Nil /\ s.used = s.plat /\ s.resolved.code = NoCode
            /\ SpecOK(s.loaded)
            /\ s.resolved = Resolve(s.loaded, s.plat, s.env, Dynamics(s.cmd, s.raw))
    BY <2>4, <2>5, <2>7, <2>10, <2>11
  <2>14. s.loaded # Nil /\ s.cmd # "run" /\ ~ s.resolved.done => ~ HasExposeComponents(s.loaded)
    BY <2>4, <2>10, <2>12
  <2>15. ResolutionOK(s)
    BY <2>1, <2>5, <2>7, <2>10, <2>13, <2>14 DEF ResolutionOK
  <2> QED BY <2>9, <2>15 DEF KeepsResolution
<1> QED BY <1>3, <1>4

LEMMA ReportKeeps ==
    ASSUME NEW q \in DOMAIN proc, ResolutionOK(proc[q]), proc[q].pc = "prepare",
           Report(q, AsWritten(q))
    PROVE  KeepsResolution(q)
<1> DEFINE r == proc[q]
           res == AsWritten(q)
           s == [r EXCEPT !.resolved = res, !.pc = "done"]
<1>1. res = IF r.plat = Nil THEN NotResolved
            ELSE Resolve(r.raw, r.plat, r.env, Dynamics(r.cmd, r.raw))
  BY DEF AsWritten, ResolveForDisplay, dynamicsOf, Dynamics
<1>2. Fail(q, res.code) \/ (res.code = NoCode /\ proc' = [proc EXCEPT ![q] = s])
  BY DEF Report
<1>3. ResolutionFields \subseteq DOMAIN r /\ r.loaded = Nil /\ r.used = r.plat /\ SpecOK(r.raw)
      /\ (r.seen = Nil \/ PlatformOK(r.seen.cfg)) /\ (r.plat = Nil \/ PlatformOK(r.plat))
  BY DEF ResolutionOK
<1> HIDE DEF res
<1>4. CASE Fail(q, res.code)
  BY <1>4, FailKeeps
<1>5. CASE ~ Fail(q, res.code)
  <2>1. DOMAIN s = DOMAIN r /\ s.resolved = res /\ s.pc = "done" /\ s.loaded = r.loaded
        /\ s.plat = r.plat /\ s.used = r.used /\ s.raw = r.raw /\ s.seen = r.seen
        /\ s.cmd = r.cmd /\ s.env = r.env
    BY <1>3 DEF ResolutionFields
  <2>2. res.done => r.plat # Nil /\ res = Resolve(r.raw, r.plat, r.env, Dynamics(r.cmd, r.raw))
    BY <1>1, NothingResolved
  <2>n. proc' = [proc EXCEPT ![q] = s] /\ res.code = NoCode
    BY <1>2, <1>5
  <2> HIDE DEF s, r
  <2>3. s.resolved.done =>
           /\ s.plat # Nil /\ s.used = s.plat /\ s.resolved.code = NoCode
           /\ SpecOK(s.raw) /\ s.loaded = Nil
           /\ s.resolved = Resolve(s.raw, s.plat, s.env, Dynamics(s.cmd, s.raw))
    BY <1>3, <2>n, <2>1, <2>2
  <2>4. ResolutionOK(s)
    BY <1>3, <2>1, <2>3 DEF ResolutionOK
  <2> QED BY <2>n, <2>4 DEF KeepsResolution
<1> QED BY <1>4, <1>5

LEMMA CheckKeeps ==
    ASSUME NEW q \in DOMAIN proc, ResolutionOK(proc[q]), runManifestOnly(q)
    PROVE  KeepsResolution(q)
<1> DEFINE r == proc[q]
           res == IF r.plat = Nil THEN [problems |-> FALSE, warnings |-> FALSE]
                  ELSE CrossCheckPlatformReferences(r.raw, r.plat)
           s == [r EXCEPT !.warned = res.warnings, !.pc = "done"]
<1>1. Fail(q, "CROSS_CHECK") \/ proc' = [proc EXCEPT ![q] = s]
  BY DEF runManifestOnly
<1>2. ResolutionFields \subseteq DOMAIN r
  BY DEF ResolutionOK
<1> HIDE DEF res
<1>3. Quiet(r, s)
  BY <1>2 DEF Quiet, ResolutionFields
<1> HIDE DEF s
<1> QED BY <1>1, <1>3, QuietOK, FailKeeps DEF KeepsResolution

LEMMA TargetKeeps ==
    ASSUME NEW q \in DOMAIN proc, FilesOK, ResolutionOK(proc[q]), Target(q)
    PROVE  KeepsResolution(q)
<1> DEFINE r == proc[q]
           plat == IF input.flag = Unset THEN Platform(q).cfg ELSE r.plat
           ctx == IF input.flag = Unset THEN PlatformEnvContext(Platform(q).cfg, r.env)
                  ELSE input.flag
           s == [r EXCEPT !.plat = plat, !.ctx = ctx, !.pc = "clients"]
<1>1. proc' = [proc EXCEPT ![q] = s]
  BY DEF Target
<1>2. (plat = Nil \/ PlatformOK(plat)) /\ (r.plat # Nil => plat = r.plat)
  BY PlatformIsOK DEF ResolutionOK
<1>3. ResolutionFields \subseteq DOMAIN r
  BY DEF ResolutionOK
<1> HIDE DEF plat, ctx
<1>4. DOMAIN s = DOMAIN r /\ s.plat = plat /\ s.pc = "clients" /\ s.loaded = r.loaded
      /\ s.resolved = r.resolved /\ s.used = r.used /\ s.raw = r.raw /\ s.seen = r.seen
      /\ s.cmd = r.cmd /\ s.env = r.env
  BY <1>3 DEF ResolutionFields
<1> HIDE DEF s
<1>5. s.resolved.done => s.plat = r.plat
  BY <1>2, <1>4 DEF ResolutionOK
<1>6. ResolutionOK(s)
  BY <1>2, <1>4, <1>5 DEF ResolutionOK
<1> QED BY <1>1, <1>6 DEF KeepsResolution

LEMMA BuildKeeps ==
    ASSUME NEW q \in DOMAIN proc, ResolutionOK(proc[q]), BuildClient(q)
    PROVE  KeepsResolution(q)
<1> DEFINE r == proc[q]
<1>1. CASE \E code : Fail(q, code)
  BY <1>1, FailKeeps
<1>2. CASE ~ \E code : Fail(q, code)
  <2>1. \E c : \E pc \in {"clients", "done"} :
           proc' = [proc EXCEPT ![q].clients = Append(@, c), ![q].pc = pc]
    BY <1>2 DEF BuildClient
  <2>2. PICK c, pc : /\ pc \in {"clients", "done"}
                     /\ proc' = [proc EXCEPT ![q].clients = Append(@, c), ![q].pc = pc]
    BY <2>1
  <2> DEFINE new == Append(r.clients, c)
             s == [r EXCEPT !.clients = new, !.pc = pc]
  <2>3. proc' = [proc EXCEPT ![q] = s]
    BY <2>2
  <2>4. ResolutionFields \subseteq DOMAIN r
    BY DEF ResolutionOK
  <2> HIDE DEF new
  <2>5. Quiet(r, s)
    BY <2>2, <2>4 DEF Quiet, ResolutionFields
  <2> HIDE DEF s
  <2> QED BY <2>3, <2>5, QuietOK DEF KeepsResolution
<1> QED BY <1>1, <1>2

LEMMA SaveKeeps ==
    ASSUME NEW q \in DOMAIN proc, FilesOK, ResolutionOK(proc[q]), SaveSpec(q)
    PROVE  KeepsResolution(q) /\ SpecOK(spec')
<1> DEFINE r == proc[q]
           sparse == buildValidatedSpec(collectComponents(input.answers, input.names))
           s == [r EXCEPT !.raw = sparse, !.pc = "see"]
<1>1. \/ Fail(q, "WIZARD") /\ spec' = spec
      \/ sparse # Nil /\ spec' = sparse /\ proc' = [proc EXCEPT ![q] = s]
  BY DEF SaveSpec
<1>2. /\ DOMAIN input.answers \subseteq ToSet(SortedNames)
      /\ \A n \in DOMAIN input.answers :
            ResourcesOK(input.answers[n], DOMAIN ResourcePresetMappings \cup {"custom"})
  BY InputsAssumption DEF FilesOK, AnswersOK
<1>3. sparse # Nil => SpecOK(sparse)
  BY <1>2, WizardOK DEF buildValidatedSpec
<1>4. ResolutionFields \subseteq DOMAIN r /\ r.pc = "save"
  BY DEF ResolutionOK, SaveSpec, At
<1> HIDE DEF sparse
<1>5. DOMAIN s = DOMAIN r /\ s.plat = r.plat /\ s.pc = "see" /\ s.loaded = r.loaded
      /\ s.resolved = r.resolved /\ s.used = r.used /\ s.raw = sparse /\ s.seen = r.seen
      /\ s.cmd = r.cmd /\ s.env = r.env
  BY <1>4 DEF ResolutionFields
<1> HIDE DEF s
<1>6. ResolutionOK(s)
  BY <1>4, <1>5, NothingResolved DEF ResolutionOK
<1>7. SpecOK(spec)
  BY DEF FilesOK
<1> QED BY <1>1, <1>3, <1>6, <1>7, FailKeeps DEF KeepsResolution

LEMMA SeeKeeps ==
    ASSUME NEW q \in DOMAIN proc, FilesOK, ResolutionOK(proc[q]), SeeFile(q)
    PROVE  KeepsResolution(q)
<1> DEFINE r == proc[q]
           s == [r EXCEPT !.seen = file, !.pc = "write"]
<1>1. Fail(q, "PLATFORM_INVALID") \/ proc' = [proc EXCEPT ![q] = s]
  BY DEF SeeFile
<1>2. ResolutionFields \subseteq DOMAIN r
  BY DEF ResolutionOK
<1>3. DOMAIN s = DOMAIN r /\ s.plat = r.plat /\ s.pc = "write" /\ s.loaded = r.loaded
      /\ s.resolved = r.resolved /\ s.used = r.used /\ s.raw = r.raw /\ s.seen = file
      /\ s.cmd = r.cmd /\ s.env = r.env
  BY <1>2 DEF ResolutionFields
<1> HIDE DEF s
<1>4. ResolutionOK(s)
  BY <1>3 DEF ResolutionOK, FilesOK
<1> QED BY <1>1, <1>4, FailKeeps DEF KeepsResolution

LEMMA WriteKeepsResolution ==
    ASSUME NEW q \in DOMAIN proc, ResolutionOK(proc[q]), WriteFile(q)
    PROVE  KeepsResolution(q)
<1> DEFINE r == proc[q]
           s == [r EXCEPT !.pc = "done"]
<1>1. proc' = [proc EXCEPT ![q] = s]
  BY DEF WriteFile
<1>2. ResolutionFields \subseteq DOMAIN r
  BY DEF ResolutionOK
<1>3. Quiet(r, s)
  BY <1>2 DEF Quiet, ResolutionFields
<1> HIDE DEF s
<1> QED BY <1>1, <1>3, QuietOK DEF KeepsResolution

LEMMA WrittenOK ==
    ASSUME NEW q \in DOMAIN proc, FilesOK, ResolutionOK(proc[q]), WriteFile(q)
    PROVE  file' = Nil \/ PlatformOK(file'.cfg)
<1>1. CASE file' = file
  BY <1>1 DEF FilesOK
<1>2. CASE file' # file /\ proc[q].seen = Nil
  <2>1. PICK names : file' = writePlatformFile(newPlatformEnvironments(names))
    BY <1>2, Written
  <2> QED BY <2>1, FreshOK DEF writePlatformFile
<1>3. CASE file' # file /\ proc[q].seen # Nil
  <2>1. PICK names : file' = writePlatformFile(addMissing(proc[q].seen.cfg, names))
    BY <1>3, Written
  <2>2. PlatformOK(proc[q].seen.cfg)
    BY <1>3 DEF ResolutionOK
  <2> QED BY <2>1, <2>2, AddedOK DEF writePlatformFile
<1> QED BY <1>1, <1>2, <1>3

LEMMA ResolutionInit == Init => ResolutionInv
<1> SUFFICES ASSUME Init PROVE ResolutionInv
  OBVIOUS
<1>1. FilesOK
  BY InputsAssumption DEF Init, FilesOK
<1>2. ASSUME NEW cmd, NEW e PROVE ResolutionOK(NewSession(cmd, e))
  <2> DEFINE r == NewSession(cmd, e)
  <2>1. ResolutionFields \subseteq DOMAIN r /\ r.plat = Nil /\ r.seen = Nil /\ r.loaded = Nil
        /\ r.resolved = NotResolved /\ r.pc # "prepare"
    BY DEF NewSession, ResolutionFields
  <2> HIDE DEF r
  <2>2. ResolutionOK(r)
    BY <2>1, NothingResolved DEF ResolutionOK
  <2> QED BY <2>2 DEF r
<1> QED BY <1>1, <1>2 DEF Init, ResolutionInv

LEMMA ResolutionNext ==
    ASSUME ResolutionInv, [Next]_vars
    PROVE  ResolutionInv'
<1>0. FilesOK /\ \A p \in DOMAIN proc : ResolutionOK(proc[p])
  BY DEF ResolutionInv
<1>1. ASSUME NEW q \in DOMAIN proc, KeepsResolution(q), FilesOK'
      PROVE  ResolutionInv'
  <2>1. PICK s : proc' = [proc EXCEPT ![q] = s] /\ ResolutionOK(s)
    BY <1>1 DEF KeepsResolution
  <2>2. DOMAIN proc' = DOMAIN proc
        /\ \A p \in DOMAIN proc : proc'[p] = IF p = q THEN s ELSE proc[p]
    BY <2>1
  <2> QED BY <1>0, <1>1, <2>1, <2>2 DEF ResolutionInv
<1>2. UNCHANGED <<spec, file, input>> => FilesOK'
  BY <1>0 DEF FilesOK
<1>3. CASE UNCHANGED vars \/ Terminating \/ SwitchContext
  BY <1>0, <1>2, <1>3 DEF vars, Terminating, SwitchContext, ResolutionInv
<1>4. CASE EditFile
  <2>1. file' \in input.versions /\ UNCHANGED <<spec, proc, input>>
    BY <1>4 DEF EditFile
  <2>2. file' = Nil \/ PlatformOK(file'.cfg)
    BY <1>0, <2>1, InputsAssumption DEF FilesOK
  <2> QED BY <1>0, <2>1, <2>2 DEF FilesOK, ResolutionInv
<1>5. ASSUME NEW q \in DOMAIN proc,
             \/ ReadPlatform(q) \/ Prepare(q)
             \/ runCrossFile(q) \/ runResolve(q) \/ runManifestOnly(q)
             \/ Target(q) \/ BuildClient(q)
             \/ SaveSpec(q) \/ SeeFile(q) \/ WriteFile(q)
      PROVE  ResolutionInv'
  <2>1. ResolutionOK(proc[q])
    BY <1>0
  <2>2. CASE ReadPlatform(q)
    BY <1>0, <1>1, <1>2, <2>1, <2>2, ReadKeeps DEF ReadPlatform
  <2>3. CASE Prepare(q)
    <3>1. UNCHANGED <<spec, file, input>>
      BY <2>3 DEF Prepare
    <3> QED BY <1>0, <1>1, <1>2, <2>1, <2>3, <3>1, PrepareKeeps
  <2>4. CASE runCrossFile(q) \/ runResolve(q)
    <3>1. proc[q].pc = "prepare" /\ Report(q, AsWritten(q)) /\ UNCHANGED <<spec, file, input>>
      BY <2>4 DEF runCrossFile, runResolve, At
    <3> QED BY <1>1, <1>2, <2>1, <3>1, ReportKeeps
  <2>5. CASE runManifestOnly(q)
    BY <1>1, <1>2, <2>1, <2>5, CheckKeeps DEF runManifestOnly
  <2>6. CASE Target(q)
    BY <1>0, <1>1, <1>2, <2>1, <2>6, TargetKeeps DEF Target
  <2>7. CASE BuildClient(q)
    BY <1>1, <1>2, <2>1, <2>7, BuildKeeps DEF BuildClient
  <2>8. CASE SaveSpec(q)
    <3>1. UNCHANGED <<file, input>>
      BY <2>8 DEF SaveSpec
    <3>2. KeepsResolution(q) /\ SpecOK(spec')
      BY <1>0, <2>1, <2>8, SaveKeeps
    <3>3. FilesOK'
      BY <1>0, <3>1, <3>2 DEF FilesOK
    <3> QED BY <1>1, <3>2, <3>3
  <2>9. CASE SeeFile(q)
    BY <1>0, <1>1, <1>2, <2>1, <2>9, SeeKeeps DEF SeeFile
  <2>10. CASE WriteFile(q)
    <3>1. UNCHANGED <<spec, input>>
      BY <2>10 DEF WriteFile
    <3>2. file' = Nil \/ PlatformOK(file'.cfg)
      BY <1>0, <2>1, <2>10, WrittenOK
    <3>3. FilesOK'
      BY <1>0, <3>1, <3>2 DEF FilesOK
    <3> QED BY <1>1, <2>1, <2>10, <3>3, WriteKeepsResolution
  <2> QED BY <1>5, <2>2, <2>3, <2>4, <2>5, <2>6, <2>7, <2>8, <2>9, <2>10
<1> QED BY <1>3, <1>4, <1>5 DEF Next

-----------------------------------------------------------------------------
(* Hosts.                                                                  *)

LEMMA IngressHost ==
    ASSUME NEW c, NEW rc, c.expose # Nil
    PROVE  componentValues(c, rc).ingress.host = rc.host
<1>1. ingressValues(rc).host = rc.host
  BY DEF ingressValues
<1>2. componentValues(c, rc).ingress = ingressValues(rc)
  BY DEF componentValues
<1> QED BY <1>1, <1>2

LEMMA HostsUnique ==
    ASSUME ResolutionInv
    PROVE  UniqueHosts
<1> SUFFICES ASSUME NEW p \in DOMAIN proc, Renders(p),
                    NEW m \in DOMAIN ValuesOf(p), NEW n \in DOMAIN ValuesOf(p),
                    ValuesOf(p)[m].ingress # Nil, ValuesOf(p)[n].ingress # Nil, m # n
             PROVE  ValuesOf(p)[m].ingress.host # ValuesOf(p)[n].ingress.host
  BY DEF UniqueHosts
<1> DEFINE r == proc[p]
           s == r.loaded
           rcs == r.resolved.components
<1>1. ResolutionOK(r) /\ r.cmd # "run" /\ s # Nil
  BY DEF ResolutionInv, Renders
<1>2. \A x \in DOMAIN ValuesOf(p) :
         /\ x \in DOMAIN s.components /\ activeIn(r.env, s.components[x].envs)
         /\ ValuesOf(p)[x] = componentValues(s.components[x],
                                IF x \in DOMAIN rcs THEN rcs[x] ELSE ZeroResolved)
  BY DEF ValuesOf, MapSpecToChartValues, activeComponentNames, componentActiveInEnvironment
<1>3. \A x \in DOMAIN ValuesOf(p) : ValuesOf(p)[x].ingress # Nil => s.components[x].expose # Nil
  BY <1>2 DEF componentValues
<1>4. s.components[m].expose # Nil /\ s.components[n].expose # Nil
  BY <1>3
<1>5. HasExposeComponents(s)
  BY <1>2, <1>4 DEF HasExposeComponents
<1>6. r.resolved.done
  BY <1>1, <1>5 DEF ResolutionOK
<1>7. /\ r.plat # Nil /\ PlatformOK(r.plat) /\ r.resolved.code = NoCode /\ SpecOK(s)
      /\ r.resolved = Resolve(s, r.plat, r.env, Dynamics(r.cmd, r.raw))
  BY <1>1, <1>6 DEF ResolutionOK
<1>8. DOMAIN s.components \subseteq ToSet(SortedNames)
  BY <1>7 DEF SpecOK
<1>9. rcs = resolveComponents(s, r.plat, r.env, Dynamics(r.cmd, r.raw))
  BY <1>7, <1>8, ResolveSound
<1>10. m \in DOMAIN rcs /\ n \in DOMAIN rcs
  BY <1>2, <1>9 DEF resolveComponents
<1>11. ValuesOf(p)[m].ingress.host = rcs[m].host /\ ValuesOf(p)[n].ingress.host = rcs[n].host
  BY <1>2, <1>4, <1>10, IngressHost
<1>12. rcs[m].host # rcs[n].host
  BY <1>4, <1>7, <1>8, <1>10, HostsDiffer
<1> QED BY <1>11, <1>12

\* A component of a resolution: what it was put together from.
LEMMA ResolvedFrom ==
    ASSUME NEW r, ResolutionOK(r), r.resolved.done, NEW n \in DOMAIN r.resolved.components
    PROVE  LET rc == r.resolved.components[n]
               pe == platformEnvOf(r.plat, r.env)
           IN  /\ Matched(r.plat, r.env)
               /\ \E c : /\ rc.key = domainKeyOf(c, pe)
                         /\ rc.host = IF c.expose = Nil THEN <<>>
                                      ELSE hostOf(n, c, pe.domains[rc.key])
                         /\ rc.warned = staticWarning(c, pe, r.env, n \in Dynamics(r.cmd, r.raw))
<1> DEFINE dyn == Dynamics(r.cmd, r.raw)
           pe == platformEnvOf(r.plat, r.env)
           rc == r.resolved.components[n]
<1>1. r.plat # Nil /\ r.resolved.code = NoCode
  BY DEF ResolutionOK
<1>2. PICK s : SpecOK(s) /\ r.resolved = Resolve(s, r.plat, r.env, dyn)
  BY DEF ResolutionOK
<1> HIDE DEF dyn
<1>3. DOMAIN s.components \subseteq ToSet(SortedNames)
  BY <1>2 DEF SpecOK
<1> DEFINE rcs == resolveComponents(s, r.plat, r.env, dyn)
<1>4. /\ r.resolved.components = rcs /\ Matched(r.plat, r.env)
      /\ \A x \in DOMAIN rcs : rcs[x].code = NoCode
  BY <1>1, <1>2, <1>3, ResolveSound
<1>5. n \in DOMAIN rcs /\ rc = rcs[n] /\ rc.code = NoCode
  BY <1>4
<1> DEFINE c == s.components[n]
<1>6. rcs[n] = resolveComponent(n, c, r.plat, pe, r.env, n \in dyn)
  BY <1>5 DEF resolveComponents
<1> HIDE DEF pe, rcs
<1>7. /\ rc.key = domainKeyOf(c, pe)
      /\ rc.host = IF c.expose = Nil THEN <<>> ELSE hostOf(n, c, pe.domains[rc.key])
      /\ rc.warned = staticWarning(c, pe, r.env, n \in dyn)
  BY <1>5, <1>6, ComponentSound
<1> HIDE DEF c
<1> QED BY <1>4, <1>7 DEF dyn, pe

LEMMA SharedReported ==
    ASSUME ResolutionInv
    PROVE  SharedHostsReported
<1> SUFFICES ASSUME NEW p \in DOMAIN proc, NEW q \in DOMAIN proc,
                    proc[p].resolved.done, proc[q].resolved.done,
                    proc[p].plat = proc[q].plat, proc[p].plat # Nil,
                    proc[p].env # proc[q].env,
                    MatchedKey(proc[p].env, DOMAIN proc[p].plat.envs)
                       = MatchedKey(proc[q].env, DOMAIN proc[q].plat.envs),
                    NEW n \in DOMAIN proc[p].resolved.components \cap DOMAIN proc[q].resolved.components
             PROVE  LET a == proc[p].resolved.components[n]
                        b == proc[q].resolved.components[n]
                    IN  \/ a.host # b.host \/ a.host = <<>>
                        \/ a.warned \/ b.warned
                        \/ platformEnvOf(proc[p].plat, proc[p].env).static
                        \/ \E k \in {a.key, b.key} :
                              a.host = platformEnvOf(proc[p].plat, proc[p].env).domains[k].base
                        \/ n \in dynamicsOf(p) \cup dynamicsOf(q)
  BY DEF SharedHostsReported
<1> DEFINE a == proc[p].resolved.components[n]
           b == proc[q].resolved.components[n]
           pe == platformEnvOf(proc[p].plat, proc[p].env)
           e == proc[p].env
           f == proc[q].env
           keys == DOMAIN proc[p].plat.envs
<1>1. ResolutionOK(proc[p]) /\ ResolutionOK(proc[q])
  BY DEF ResolutionInv
<1>2. dynamicsOf(p) = Dynamics(proc[p].cmd, proc[p].raw)
      /\ dynamicsOf(q) = Dynamics(proc[q].cmd, proc[q].raw)
  BY DEF dynamicsOf, Dynamics
<1>3. Matched(proc[p].plat, e) /\ Matched(proc[q].plat, f)
  BY <1>1, ResolvedFrom
<1>4. platformEnvOf(proc[q].plat, f) = pe
  BY <1>3 DEF platformEnvOf
<1>5. PICK c : /\ a.key = domainKeyOf(c, pe)
               /\ a.host = IF c.expose = Nil THEN <<>> ELSE hostOf(n, c, pe.domains[a.key])
               /\ a.warned = staticWarning(c, pe, e, n \in dynamicsOf(p))
  BY <1>1, <1>2, ResolvedFrom
<1>6. PICK d : /\ b.key = domainKeyOf(d, pe)
               /\ b.host = IF d.expose = Nil THEN <<>> ELSE hostOf(n, d, pe.domains[b.key])
               /\ b.warned = staticWarning(d, pe, f, n \in dynamicsOf(q))
  BY <1>1, <1>2, <1>4, ResolvedFrom
<1> HIDE DEF a, b, pe
<1>7. SUFFICES ASSUME a.host = b.host, a.host # <<>>, ~ a.warned, ~ b.warned, ~ pe.static,
                      a.host # pe.domains[a.key].base, a.host # pe.domains[b.key].base,
                      n \notin dynamicsOf(p), n \notin dynamicsOf(q)
               PROVE  FALSE
  BY DEF a, b, pe
<1>8. c.expose # Nil /\ a.host = hostOf(n, c, pe.domains[a.key])
      /\ d.expose # Nil /\ b.host = hostOf(n, d, pe.domains[b.key])
  BY <1>5, <1>6, <1>7
<1>9. ~ c.expose.apex /\ ~ d.expose.apex
  BY <1>7, <1>8 DEF hostOf
<1>10. Prefix[e] = e /\ Prefix[f] = f
  BY <1>5, <1>6, <1>7, <1>8, <1>9 DEF staticWarning
<1>11. MatchedKey(e, keys) = e /\ MatchedKey(f, keys) = f
  BY <1>10 DEF MatchedKey
<1> QED BY <1>11

\* No two components of an environment get one host (Resolve's collision
\* check), and instances of an environment that share one are reported
\* (STATIC_WILDCARD_SUBDOMAIN): for any specs, platform files and names, with
\* init, cluster up and the user changing both files meanwhile.
THEOREM AlwaysHostsApart == Spec => []HostsApart
<1>1. ResolutionInv => HostsApart
  BY HostsUnique, SharedReported DEF HostsApart
<1>2. ResolutionInv /\ [Next]_vars => ResolutionInv'
  BY ResolutionNext
<1> QED BY ResolutionInit, <1>1, <1>2, PTL DEF Spec

-----------------------------------------------------------------------------
(* Profiles. The two loops are recursive functions; that there are such    *)
(* functions, and what they give at each index, is shown by considering    *)
(* the least index at which it fails.                                      *)

\* The loop of MergeProfiles.
MergedUpTo(names, profiles) ==
    CHOOSE f : f = [i \in 0 .. Len(names) |->
                      IF i = 0 THEN NoProfile ELSE mergeProfile(f[i - 1], profiles[names[i]])]

LEMMA MergedExists ==
    ASSUME NEW S, NEW names \in Seq(S), NEW profiles
    PROVE  MergedUpTo(names, profiles)
             = [i \in 0 .. Len(names) |->
                  IF i = 0 THEN NoProfile
                  ELSE mergeProfile(MergedUpTo(names, profiles)[i - 1], profiles[names[i]])]
<1> DEFINE Step(g, i) == IF i = 0 THEN NoProfile ELSE mergeProfile(g[i - 1], profiles[names[i]])
           Good(g, m) == g = [i \in 0 .. m |-> g[i]] /\ \A i \in 0 .. m : g[i] = Step(g, i)
           T == {m \in Nat : ~ \E g : Good(g, m)}
<1>1. T = {}
  <2> SUFFICES ASSUME T # {} PROVE FALSE
    OBVIOUS
  <2>1. PICK m \in T : \A y \in T : m <= y
    <3>1. T \in SUBSET Nat
      OBVIOUS
    <3> HIDE DEF T
    <3> QED BY <3>1, LeastNumber
  <2>2. m \in Nat /\ ~ \E g : Good(g, m)
    OBVIOUS
  <2>3. CASE m = 0
    <3> DEFINE g == [i \in 0 .. 0 |-> NoProfile]
    <3>1. g = [i \in 0 .. 0 |-> g[i]] /\ \A i \in 0 .. 0 : i = 0 /\ g[i] = NoProfile
      OBVIOUS
    <3> HIDE DEF g
    <3>2. Good(g, m)
      BY <2>3, <3>1
    <3> QED BY <2>2, <3>2
  <2>4. CASE m # 0
    <3>1. m - 1 \in Nat /\ ~ (m <= m - 1)
      BY <2>2, <2>4
    <3>2. m - 1 \notin T
      <4> HIDE DEF T
      <4> QED BY <2>1, <3>1
    <3>3. PICK g : Good(g, m - 1)
      BY <3>1, <3>2
    <3> DEFINE new == mergeProfile(g[m - 1], profiles[names[m]])
               h == [i \in 0 .. m |-> IF i < m THEN g[i] ELSE new]
    <3>4. h = [i \in 0 .. m |-> h[i]] /\ \A i \in 0 .. m : h[i] = IF i < m THEN g[i] ELSE new
      OBVIOUS
    <3> HIDE DEF h
    <3>5. ASSUME NEW i \in 0 .. m PROVE h[i] = Step(h, i)
      <4>1. i # 0 => i - 1 \in 0 .. m /\ i - 1 < m
        BY <2>2
      <4>2. i # 0 => h[i - 1] = g[i - 1]
        BY <3>4, <4>1
      <4>3. Step(h, i) = Step(g, i)
        BY <4>2
      <4>4. CASE i < m
        <5>1. i \in 0 .. m - 1 /\ h[i] = g[i]
          BY <2>2, <3>4, <4>4
        <5>2. g[i] = Step(g, i)
          <6> HIDE DEF Step
          <6> QED BY <3>3, <5>1
        <5> QED BY <4>3, <5>1, <5>2
      <4>5. CASE ~ (i < m)
        <5>1. i = m /\ h[i] = new
          BY <2>2, <3>4, <4>5
        <5>2. Step(g, m) = new
          BY <2>4
        <5> QED BY <4>3, <5>1, <5>2
      <4> QED BY <4>4, <4>5
    <3>6. Good(h, m)
      <4> HIDE DEF Step
      <4> QED BY <3>4, <3>5
    <3> QED BY <2>2, <3>6
  <2> QED BY <2>3, <2>4
<1>2. Len(names) \in Nat
  OBVIOUS
<1>3. Len(names) \notin T
  <2> HIDE DEF T
  <2> QED BY <1>1
<1>4. PICK g : Good(g, Len(names))
  BY <1>2, <1>3
<1>5. g = [i \in 0 .. Len(names) |->
             IF i = 0 THEN NoProfile ELSE mergeProfile(g[i - 1], profiles[names[i]])]
  <2>1. g = [i \in 0 .. Len(names) |-> g[i]]
    BY <1>4
  <2>2. \A i \in 0 .. Len(names) :
           g[i] = IF i = 0 THEN NoProfile ELSE mergeProfile(g[i - 1], profiles[names[i]])
    BY <1>4
  <2> QED BY <2>1, <2>2
<1> QED BY <1>5 DEF MergedUpTo

\* What a merged profile keeps of one that went into it.
KeepsRules(m, p) ==
    /\ p.maxCpu # 0 => m.maxCpu # 0 /\ m.maxCpu <= p.maxCpu
    /\ p.maxMem # 0 => m.maxMem # 0 /\ m.maxMem <= p.maxMem
    /\ p.allowed # Nil => m.allowed # Nil /\ m.allowed \subseteq p.allowed

LEMMA StricterCeiling ==
    ASSUME NEW a \in Nat, NEW b \in Nat
    PROVE  /\ minQuantity(a, b) \in Nat
           /\ a # 0 => minQuantity(a, b) # 0 /\ minQuantity(a, b) <= a
           /\ b # 0 => minQuantity(a, b) # 0 /\ minQuantity(a, b) <= b
BY DEF minQuantity

LEMMA FewerDomains ==
    ASSUME NEW a, NEW b, a # Nil => \A S \in SUBSET a : S # Nil, b # Nil => \A S \in SUBSET b : S # Nil
    PROVE  LET m == mergeAllowedDomains(a, b)
           IN  /\ m # Nil => \A S \in SUBSET m : S # Nil
               /\ a # Nil => m # Nil /\ m \subseteq a
               /\ b # Nil => m # Nil /\ m \subseteq b
BY DEF mergeAllowedDomains, intersectStrings

LEMMA MergeKeeps ==
    ASSUME NEW m, NEW p, ProfileOK(m), ProfileOK(p)
    PROVE  /\ ProfileOK(mergeProfile(m, p))
           /\ KeepsRules(mergeProfile(m, p), p)
           /\ \A x : x.maxCpu \in Nat /\ x.maxMem \in Nat /\ KeepsRules(m, x)
                        => KeepsRules(mergeProfile(m, p), x)
<1> DEFINE n == mergeProfile(m, p)
<1>1. /\ n.maxCpu = minQuantity(m.maxCpu, p.maxCpu)
      /\ n.maxMem = minQuantity(m.maxMem, p.maxMem)
      /\ n.allowed = mergeAllowedDomains(m.allowed, p.allowed)
  BY DEF mergeProfile
<1>3. m.maxCpu \in Nat /\ m.maxMem \in Nat /\ p.maxCpu \in Nat /\ p.maxMem \in Nat
  BY DEF ProfileOK
<1>4. /\ n.maxCpu \in Nat
      /\ m.maxCpu # 0 => n.maxCpu # 0 /\ n.maxCpu <= m.maxCpu
      /\ p.maxCpu # 0 => n.maxCpu # 0 /\ n.maxCpu <= p.maxCpu
  BY <1>1, <1>3, StricterCeiling
<1>5. /\ n.maxMem \in Nat
      /\ m.maxMem # 0 => n.maxMem # 0 /\ n.maxMem <= m.maxMem
      /\ p.maxMem # 0 => n.maxMem # 0 /\ n.maxMem <= p.maxMem
  BY <1>1, <1>3, StricterCeiling
<1>6. /\ n.allowed # Nil => \A S \in SUBSET n.allowed : S # Nil
      /\ m.allowed # Nil => n.allowed # Nil /\ n.allowed \subseteq m.allowed
      /\ p.allowed # Nil => n.allowed # Nil /\ n.allowed \subseteq p.allowed
  BY <1>1, FewerDomains DEF ProfileOK
<1> HIDE DEF n
<1>7. ProfileOK(n)
  BY <1>4, <1>5, <1>6 DEF ProfileOK
<1>8. KeepsRules(n, p)
  BY <1>4, <1>5, <1>6 DEF KeepsRules
<1>9. ASSUME NEW x, x.maxCpu \in Nat, x.maxMem \in Nat, KeepsRules(m, x)
      PROVE  KeepsRules(n, x)
  BY <1>3, <1>4, <1>5, <1>6, <1>9 DEF KeepsRules
<1> QED BY <1>7, <1>8, <1>9 DEF n

LEMMA NoProfileOK == ProfileOK(NoProfile)
BY DEF ProfileOK, NoProfile

LEMMA MergedKeeps ==
    ASSUME NEW profiles, NEW names \in Seq(DOMAIN profiles),
           \A x \in DOMAIN profiles : ProfileOK(profiles[x])
    PROVE  /\ ProfileOK(MergeProfiles(names, profiles))
           /\ \A j \in 1 .. Len(names) :
                 KeepsRules(MergeProfiles(names, profiles), profiles[names[j]])
<1> DEFINE f == MergedUpTo(names, profiles)
           Good(i) == /\ ProfileOK(f[i])
                      /\ \A j \in 1 .. i : KeepsRules(f[i], profiles[names[j]])
           T == {i \in Nat : i <= Len(names) /\ ~ Good(i)}
<1>1. \A i \in 0 .. Len(names) :
         f[i] = IF i = 0 THEN NoProfile ELSE mergeProfile(f[i - 1], profiles[names[i]])
  <2>1. f = [i \in 0 .. Len(names) |->
               IF i = 0 THEN NoProfile ELSE mergeProfile(f[i - 1], profiles[names[i]])]
    BY MergedExists
  <2> HIDE DEF f
  <2> QED BY <2>1
<1>2. MergeProfiles(names, profiles) = f[Len(names)]
  BY DEF MergeProfiles, MergedUpTo
<1> HIDE DEF f
<1>3. \A j \in 1 .. Len(names) : ProfileOK(profiles[names[j]])
  OBVIOUS
<1>4. T = {}
  <2> SUFFICES ASSUME T # {} PROVE FALSE
    OBVIOUS
  <2>1. PICK i \in T : \A y \in T : i <= y
    <3>1. T \in SUBSET Nat
      OBVIOUS
    <3> HIDE DEF T
    <3> QED BY <3>1, LeastNumber
  <2>2. i \in 0 .. Len(names) /\ ~ Good(i)
    <3> HIDE DEF Good
    <3> QED OBVIOUS
  <2>3. CASE i = 0
    <3>1. f[i] = NoProfile /\ 1 .. i = {}
      BY <1>1, <2>2, <2>3
    <3> QED BY <2>2, <3>1, NoProfileOK
  <2>4. CASE i # 0
    <3> DEFINE p == profiles[names[i]]
    <3>1. i - 1 \in Nat /\ i - 1 <= Len(names) /\ ~ (i <= i - 1) /\ i \in 1 .. Len(names)
      BY <2>2, <2>4
    <3>2. Good(i - 1)
      <4>1. i - 1 \notin T
        <5> HIDE DEF T
        <5> QED BY <2>1, <3>1
      <4> HIDE DEF Good
      <4> QED BY <3>1, <4>1
    <3>3. f[i] = mergeProfile(f[i - 1], p) /\ ProfileOK(p)
      BY <1>1, <1>3, <2>2, <2>4, <3>1
    <3>4. ProfileOK(f[i]) /\ KeepsRules(f[i], p)
      <4> HIDE DEF p
      <4> QED BY <3>2, <3>3, MergeKeeps
    <3>5. ASSUME NEW j \in 1 .. i PROVE KeepsRules(f[i], profiles[names[j]])
      <4>1. CASE j = i
        BY <3>4, <4>1
      <4>2. CASE j # i
        <5> DEFINE x == profiles[names[j]]
        <5>1. j \in 1 .. i - 1 /\ j \in 1 .. Len(names)
          BY <2>2, <4>2
        <5>2. KeepsRules(f[i - 1], x) /\ ProfileOK(x)
          BY <1>3, <3>2, <5>1
        <5> HIDE DEF x, p
        <5>3. x.maxCpu \in Nat /\ x.maxMem \in Nat
          BY <5>2 DEF ProfileOK
        <5>4. KeepsRules(f[i], x)
          BY <3>2, <3>3, <5>2, <5>3, MergeKeeps
        <5> QED BY <5>4 DEF x
      <4> QED BY <4>1, <4>2
    <3> QED BY <2>2, <3>4, <3>5
  <2> QED BY <2>3, <2>4
<1>5. Good(Len(names))
  <2>1. Len(names) \in Nat
    OBVIOUS
  <2>2. Len(names) \notin T
    <3> HIDE DEF T
    <3> QED BY <1>4
  <2> HIDE DEF Good
  <2> QED BY <2>1, <2>2
<1> QED BY <1>2, <1>5

\* The labels m has from those of the first i profiles: each one that such a
\* profile sets is there, with the value of that profile or a later one.
LabelsFrom(m, i, names, profiles) ==
    \A j \in 1 .. i : \A k \in DOMAIN profiles[names[j]].nodeSelector :
        /\ k \in DOMAIN m.nodeSelector
        /\ \E l \in j .. i : /\ k \in DOMAIN profiles[names[l]].nodeSelector
                             /\ m.nodeSelector[k] = profiles[names[l]].nodeSelector[k]

LEMMA LabelsAdded ==
    ASSUME NEW m, NEW i \in Nat \ {0}, NEW names, NEW profiles,
           LabelsFrom(m, i - 1, names, profiles)
    PROVE  LabelsFrom(mergeProfile(m, profiles[names[i]]), i, names, profiles)
<1> DEFINE p == profiles[names[i]]
           n == mergeProfile(m, p)
<1>1. n.nodeSelector = mergeStringMap(m.nodeSelector, p.nodeSelector)
  BY DEF mergeProfile
<1> DEFINE new == n.nodeSelector
           old == m.nodeSelector
           add == p.nodeSelector
<1>2. /\ DOMAIN new = DOMAIN old \cup DOMAIN add
      /\ \A k \in DOMAIN new : new[k] = IF k \in DOMAIN add THEN add[k] ELSE old[k]
  BY <1>1 DEF mergeStringMap
<1> HIDE DEF n, new
<1> SUFFICES ASSUME NEW j \in 1 .. i, NEW k \in DOMAIN profiles[names[j]].nodeSelector
             PROVE  /\ k \in DOMAIN new
                    /\ \E l \in j .. i : /\ k \in DOMAIN profiles[names[l]].nodeSelector
                                         /\ new[k] = profiles[names[l]].nodeSelector[k]
  BY DEF LabelsFrom, n, new
<1>3. CASE k \in DOMAIN add
  <2>1. i \in j .. i
    OBVIOUS
  <2> QED BY <1>2, <1>3, <2>1
<1>4. CASE k \notin DOMAIN add
  <2>1. j # i
    BY <1>4
  <2>2. j \in 1 .. i - 1
    BY <2>1
  <2>3. k \in DOMAIN old
    BY <2>2 DEF LabelsFrom
  <2>4. PICK l \in j .. i - 1 : /\ k \in DOMAIN profiles[names[l]].nodeSelector
                                /\ old[k] = profiles[names[l]].nodeSelector[k]
    BY <2>2 DEF LabelsFrom
  <2>5. l \in j .. i
    OBVIOUS
  <2>6. new[k] = old[k] /\ k \in DOMAIN new
    BY <1>2, <1>4, <2>3
  <2> QED BY <2>4, <2>5, <2>6
<1> QED BY <1>3, <1>4

LEMMA MergedLabels ==
    ASSUME NEW S, NEW names \in Seq(S), NEW profiles
    PROVE  LabelsFrom(MergeProfiles(names, profiles), Len(names), names, profiles)
<1> DEFINE f == MergedUpTo(names, profiles)
           Good(i) == LabelsFrom(f[i], i, names, profiles)
           T == {i \in Nat : i <= Len(names) /\ ~ Good(i)}
<1>1. \A i \in 0 .. Len(names) :
         f[i] = IF i = 0 THEN NoProfile ELSE mergeProfile(f[i - 1], profiles[names[i]])
  <2>1. f = [i \in 0 .. Len(names) |->
               IF i = 0 THEN NoProfile ELSE mergeProfile(f[i - 1], profiles[names[i]])]
    BY MergedExists
  <2> HIDE DEF f
  <2> QED BY <2>1
<1>2. MergeProfiles(names, profiles) = f[Len(names)]
  BY DEF MergeProfiles, MergedUpTo
<1> HIDE DEF f
<1>3. T = {}
  <2> SUFFICES ASSUME T # {} PROVE FALSE
    OBVIOUS
  <2>1. PICK i \in T : \A y \in T : i <= y
    <3>1. T \in SUBSET Nat
      OBVIOUS
    <3> HIDE DEF T
    <3> QED BY <3>1, LeastNumber
  <2>2. i \in 0 .. Len(names) /\ ~ Good(i)
    <3> HIDE DEF Good
    <3> QED OBVIOUS
  <2>3. CASE i = 0
    <3>1. 1 .. i = {}
      BY <2>3
    <3> QED BY <2>2, <3>1 DEF LabelsFrom
  <2>4. CASE i # 0
    <3>1. i - 1 \in Nat /\ i - 1 <= Len(names) /\ ~ (i <= i - 1) /\ i \in Nat \ {0}
      BY <2>2, <2>4
    <3>2. Good(i - 1)
      <4>1. i - 1 \notin T
        <5> HIDE DEF T
        <5> QED BY <2>1, <3>1
      <4> HIDE DEF Good
      <4> QED BY <3>1, <4>1
    <3>3. f[i] = mergeProfile(f[i - 1], profiles[names[i]])
      BY <1>1, <2>2, <2>4
    <3> QED BY <2>2, <3>1, <3>2, <3>3, LabelsAdded
  <2> QED BY <2>3, <2>4
<1>4. Good(Len(names))
  <2>1. Len(names) \in Nat
    OBVIOUS
  <2>2. Len(names) \notin T
    <3> HIDE DEF T
    <3> QED BY <1>3
  <2> HIDE DEF Good
  <2> QED BY <2>1, <2>2
<1> QED BY <1>2, <1>4

\* The loop of ResolveProfileNames.
NamesUpTo(first, names) ==
    CHOOSE f : f = [i \in 0 .. Len(names) |->
                      IF i = 0 THEN first
                      ELSE IF names[i] = "default" THEN f[i - 1] ELSE Append(f[i - 1], names[i])]

LEMMA NamesExist ==
    ASSUME NEW S, NEW names \in Seq(S), NEW first
    PROVE  NamesUpTo(first, names)
             = [i \in 0 .. Len(names) |->
                  IF i = 0 THEN first
                  ELSE IF names[i] = "default" THEN NamesUpTo(first, names)[i - 1]
                  ELSE Append(NamesUpTo(first, names)[i - 1], names[i])]
<1> DEFINE More(s, i) == IF names[i] = "default" THEN s ELSE Append(s, names[i])
           Step(g, i) == IF i = 0 THEN first ELSE More(g[i - 1], i)
           Good(g, m) == g = [i \in 0 .. m |-> g[i]] /\ \A i \in 0 .. m : g[i] = Step(g, i)
           T == {m \in Nat : ~ \E g : Good(g, m)}
<1>1. T = {}
  <2> SUFFICES ASSUME T # {} PROVE FALSE
    OBVIOUS
  <2>1. PICK m \in T : \A y \in T : m <= y
    <3>1. T \in SUBSET Nat
      OBVIOUS
    <3> HIDE DEF T
    <3> QED BY <3>1, LeastNumber
  <2>2. m \in Nat /\ ~ \E g : Good(g, m)
    OBVIOUS
  <2>3. CASE m = 0
    <3> DEFINE g == [i \in 0 .. 0 |-> first]
    <3>1. g = [i \in 0 .. 0 |-> g[i]] /\ \A i \in 0 .. 0 : i = 0 /\ g[i] = first
      OBVIOUS
    <3> HIDE DEF g, More
    <3>2. Good(g, m)
      BY <2>3, <3>1
    <3> QED BY <2>2, <3>2
  <2>4. CASE m # 0
    <3>1. m - 1 \in Nat /\ ~ (m <= m - 1)
      BY <2>2, <2>4
    <3>2. m - 1 \notin T
      <4> HIDE DEF T
      <4> QED BY <2>1, <3>1
    <3>3. PICK g : Good(g, m - 1)
      BY <3>1, <3>2
    <3> DEFINE new == More(g[m - 1], m)
               h == [i \in 0 .. m |-> IF i < m THEN g[i] ELSE new]
    <3>4. h = [i \in 0 .. m |-> h[i]] /\ \A i \in 0 .. m : h[i] = IF i < m THEN g[i] ELSE new
      OBVIOUS
    <3> HIDE DEF h, More
    <3>5. ASSUME NEW i \in 0 .. m PROVE h[i] = Step(h, i)
      <4>1. i # 0 => i - 1 \in 0 .. m /\ i - 1 < m
        BY <2>2
      <4>2. i # 0 => h[i - 1] = g[i - 1]
        BY <3>4, <4>1
      <4>3. Step(h, i) = Step(g, i)
        BY <4>2
      <4>4. CASE i < m
        <5>1. i \in 0 .. m - 1 /\ h[i] = g[i]
          BY <2>2, <3>4, <4>4
        <5>2. g[i] = Step(g, i)
          <6> HIDE DEF Step
          <6> QED BY <3>3, <5>1
        <5> QED BY <4>3, <5>1, <5>2
      <4>5. CASE ~ (i < m)
        <5>1. i = m /\ h[i] = new
          BY <2>2, <3>4, <4>5
        <5>2. Step(g, m) = new
          BY <2>4
        <5> QED BY <4>3, <5>1, <5>2
      <4> QED BY <4>4, <4>5
    <3>6. Good(h, m)
      <4> HIDE DEF Step
      <4> QED BY <3>4, <3>5
    <3> QED BY <2>2, <3>6
  <2> QED BY <2>3, <2>4
<1>2. Len(names) \in Nat
  OBVIOUS
<1>3. Len(names) \notin T
  <2> HIDE DEF T
  <2> QED BY <1>1
<1>4. PICK g : Good(g, Len(names))
  BY <1>2, <1>3
<1>5. g = [i \in 0 .. Len(names) |->
             IF i = 0 THEN first
             ELSE IF names[i] = "default" THEN g[i - 1] ELSE Append(g[i - 1], names[i])]
  <2>1. g = [i \in 0 .. Len(names) |-> g[i]]
    BY <1>4
  <2>2. \A i \in 0 .. Len(names) :
           g[i] = IF i = 0 THEN first
                  ELSE IF names[i] = "default" THEN g[i - 1] ELSE Append(g[i - 1], names[i])
    BY <1>4
  <2> QED BY <2>1, <2>2
<1> QED BY <1>5 DEF NamesUpTo

\* Append keeps what is there and adds one.
LEMMA Appended ==
    ASSUME NEW S, NEW s \in Seq(S), NEW x \in S
    PROVE  Append(s, x) \in Seq(S) /\ ToSet(Append(s, x)) = ToSet(s) \cup {x}
<1> DEFINE t == Append(s, x)
<1>1. t \in Seq(S) /\ Len(t) = Len(s) + 1 /\ DOMAIN s = 1 .. Len(s) /\ DOMAIN t = 1 .. Len(t)
      /\ Len(s) \in Nat
  OBVIOUS
<1>2. t[Len(s) + 1] = x /\ \A i \in 1 .. Len(s) : t[i] = s[i]
  OBVIOUS
<1> HIDE DEF t
<1>3. ToSet(t) \subseteq ToSet(s) \cup {x}
  BY <1>1, <1>2 DEF ToSet
<1>4. ToSet(s) \cup {x} \subseteq ToSet(t)
  BY <1>1, <1>2 DEF ToSet
<1> QED BY <1>1, <1>3, <1>4 DEF t

LEMMA NamesKeep ==
    ASSUME NEW S, NEW first \in Seq(S), NEW names \in Seq(S)
    PROVE  LET all == NamesUpTo(first, names)[Len(names)]
           IN  /\ all \in Seq(S)
               /\ ToSet(first) \subseteq ToSet(all)
               /\ \A x \in ToSet(names) : x = "default" \/ x \in ToSet(all)
<1> DEFINE f == NamesUpTo(first, names)
           Good(i) == /\ f[i] \in Seq(S)
                      /\ ToSet(first) \subseteq ToSet(f[i])
                      /\ \A j \in 1 .. i : names[j] = "default" \/ names[j] \in ToSet(f[i])
           T == {i \in Nat : i <= Len(names) /\ ~ Good(i)}
<1>1. \A i \in 0 .. Len(names) :
         f[i] = IF i = 0 THEN first
                ELSE IF names[i] = "default" THEN f[i - 1] ELSE Append(f[i - 1], names[i])
  <2>1. f = [i \in 0 .. Len(names) |->
               IF i = 0 THEN first
               ELSE IF names[i] = "default" THEN f[i - 1] ELSE Append(f[i - 1], names[i])]
    BY NamesExist
  <2> HIDE DEF f
  <2> QED BY <2>1
<1> HIDE DEF f
<1>2. T = {}
  <2> SUFFICES ASSUME T # {} PROVE FALSE
    OBVIOUS
  <2>1. PICK i \in T : \A y \in T : i <= y
    <3>1. T \in SUBSET Nat
      OBVIOUS
    <3> HIDE DEF T
    <3> QED BY <3>1, LeastNumber
  <2>2. i \in 0 .. Len(names) /\ ~ Good(i)
    <3> HIDE DEF Good
    <3> QED OBVIOUS
  <2>3. CASE i = 0
    <3>1. f[i] = first /\ 1 .. i = {}
      BY <1>1, <2>2, <2>3
    <3> QED BY <2>2, <3>1
  <2>4. CASE i # 0
    <3>1. i - 1 \in Nat /\ i - 1 <= Len(names) /\ ~ (i <= i - 1) /\ i \in 1 .. Len(names)
      BY <2>2, <2>4
    <3>2. Good(i - 1)
      <4>1. i - 1 \notin T
        <5> HIDE DEF T
        <5> QED BY <2>1, <3>1
      <4> HIDE DEF Good
      <4> QED BY <3>1, <4>1
    <3>3. f[i] = IF names[i] = "default" THEN f[i - 1] ELSE Append(f[i - 1], names[i])
      BY <1>1, <2>2, <2>4
    <3>4. names[i] \in S
      BY <3>1
    <3>5. /\ f[i] \in Seq(S) /\ ToSet(f[i - 1]) \subseteq ToSet(f[i])
          /\ names[i] = "default" \/ names[i] \in ToSet(f[i])
      BY <3>2, <3>3, <3>4, Appended
    <3>6. \A j \in 1 .. i : j \in 1 .. i - 1 \/ j = i
      BY <2>2
    <3> QED BY <2>2, <3>2, <3>5, <3>6
  <2> QED BY <2>3, <2>4
<1>3. Good(Len(names))
  <2>1. Len(names) \in Nat
    OBVIOUS
  <2>2. Len(names) \notin T
    <3> HIDE DEF T
    <3> QED BY <1>2
  <2> HIDE DEF Good
  <2> QED BY <2>1, <2>2
<1>4. \A x \in ToSet(names) : \E j \in 1 .. Len(names) : x = names[j]
  BY DEF ToSet
<1> QED BY <1>3, <1>4 DEF f

\* all follows the first i of names: what is before something else in it
\* is the default profile, or comes before it in names too.
Follows(all, i, names) ==
    \A a, b \in 1 .. Len(all) : a < b =>
        /\ all[b] # "default"
        /\ \E y \in 1 .. i : names[y] = all[b]
        /\ \/ all[a] = "default"
           \/ \E x, y \in 1 .. i : x < y /\ names[x] = all[a] /\ names[y] = all[b]

\* ... and each of its names is the default one or among them.
Among(all, i, names) ==
    \A a \in 1 .. Len(all) : all[a] = "default" \/ \E y \in 1 .. i : names[y] = all[a]

LEMMA FollowsMore ==
    ASSUME NEW S, NEW all \in Seq(S), NEW i \in Nat \ {0}, NEW names, names[i] \in S,
           names[i] # "default", Follows(all, i - 1, names), Among(all, i - 1, names)
    PROVE  /\ Follows(Append(all, names[i]), i, names)
           /\ Among(Append(all, names[i]), i, names)
<1> DEFINE new == Append(all, names[i])
<1>1. /\ Len(new) = Len(all) + 1 /\ Len(all) \in Nat
      /\ new[Len(all) + 1] = names[i]
      /\ \A a \in 1 .. Len(all) : new[a] = all[a]
  OBVIOUS
<1> HIDE DEF new
<1>2. \A x \in 1 .. i - 1 : x \in 1 .. i /\ x < i
  OBVIOUS
<1>3. i \in 1 .. i
  OBVIOUS
<1>4. ASSUME NEW a \in 1 .. Len(new)
      PROVE  new[a] = "default" \/ \E y \in 1 .. i : names[y] = new[a]
  <2>1. CASE a = Len(all) + 1
    BY <1>1, <1>3, <2>1
  <2>2. CASE a # Len(all) + 1
    <3>1. a \in 1 .. Len(all)
      BY <1>1, <2>2
    <3> QED BY <1>1, <1>2, <3>1 DEF Among
  <2> QED BY <2>1, <2>2
<1>5. ASSUME NEW a \in 1 .. Len(new), NEW b \in 1 .. Len(new), a < b
      PROVE  /\ new[b] # "default"
             /\ \E y \in 1 .. i : names[y] = new[b]
             /\ \/ new[a] = "default"
                \/ \E x, y \in 1 .. i : x < y /\ names[x] = new[a] /\ names[y] = new[b]
  <2>1. a \in 1 .. Len(all) /\ new[a] = all[a]
    BY <1>1, <1>5
  <2>2. CASE b = Len(all) + 1
    <3>1. new[b] = names[i]
      BY <1>1, <2>2
    <3>2. all[a] = "default" \/ \E x \in 1 .. i - 1 : names[x] = all[a]
      BY <2>1 DEF Among
    <3>3. new[a] = "default" \/ \E x \in 1 .. i : x < i /\ names[x] = new[a]
      BY <1>2, <2>1, <3>2
    <3> QED BY <1>3, <3>1, <3>3
  <2>3. CASE b # Len(all) + 1
    <3>1. b \in 1 .. Len(all) /\ new[b] = all[b]
      BY <1>1, <2>3
    <3>2. /\ all[b] # "default"
          /\ \E y \in 1 .. i - 1 : names[y] = all[b]
          /\ \/ all[a] = "default"
             \/ \E x, y \in 1 .. i - 1 : x < y /\ names[x] = all[a] /\ names[y] = all[b]
      BY <1>5, <2>1, <3>1 DEF Follows
    <3> QED BY <1>2, <2>1, <3>1, <3>2
  <2> QED BY <2>2, <2>3
<1> QED BY <1>4, <1>5 DEF Follows, Among, new

LEMMA NamesInOrder ==
    ASSUME NEW S, NEW first \in Seq(S), NEW names \in Seq(S),
           first = <<>> \/ first = <<"default">>
    PROVE  Follows(NamesUpTo(first, names)[Len(names)], Len(names), names)
<1> DEFINE f == NamesUpTo(first, names)
           Good(i) == f[i] \in Seq(S) /\ Follows(f[i], i, names) /\ Among(f[i], i, names)
           T == {i \in Nat : i <= Len(names) /\ ~ Good(i)}
<1>1. \A i \in 0 .. Len(names) :
         f[i] = IF i = 0 THEN first
                ELSE IF names[i] = "default" THEN f[i - 1] ELSE Append(f[i - 1], names[i])
  <2>1. f = [i \in 0 .. Len(names) |->
               IF i = 0 THEN first
               ELSE IF names[i] = "default" THEN f[i - 1] ELSE Append(f[i - 1], names[i])]
    BY NamesExist
  <2> HIDE DEF f
  <2> QED BY <2>1
<1> HIDE DEF f
<1>2. T = {}
  <2> SUFFICES ASSUME T # {} PROVE FALSE
    OBVIOUS
  <2>1. PICK i \in T : \A y \in T : i <= y
    <3>1. T \in SUBSET Nat
      OBVIOUS
    <3> HIDE DEF T
    <3> QED BY <3>1, LeastNumber
  <2>2. i \in 0 .. Len(names) /\ ~ Good(i)
    <3> HIDE DEF Good
    <3> QED OBVIOUS
  <2>3. CASE i = 0
    <3>1. f[i] = first
      BY <1>1, <2>2, <2>3
    <3>2. \A a \in 1 .. Len(first) : a = 1 /\ first[a] = "default"
      <4>1. CASE first = <<>>
        <5>1. Len(first) = 0
          BY <4>1
        <5> QED BY <5>1
      <4>2. CASE first = <<"default">>
        <5>1. Len(first) = 1 /\ first[1] = "default"
          BY <4>2
        <5>2. \A a \in 1 .. Len(first) : a = 1
          BY <5>1
        <5> QED BY <5>1, <5>2
      <4> QED BY <4>1, <4>2
    <3>3. Follows(first, i, names) /\ Among(first, i, names)
      BY <3>2 DEF Follows, Among
    <3> QED BY <2>2, <3>1, <3>3
  <2>4. CASE i # 0
    <3>1. i - 1 \in Nat /\ i - 1 <= Len(names) /\ ~ (i <= i - 1) /\ i \in 1 .. Len(names)
          /\ i \in Nat \ {0}
      BY <2>2, <2>4
    <3>2. Good(i - 1)
      <4>1. i - 1 \notin T
        <5> HIDE DEF T
        <5> QED BY <2>1, <3>1
      <4> HIDE DEF Good
      <4> QED BY <3>1, <4>1
    <3>3. f[i] = IF names[i] = "default" THEN f[i - 1] ELSE Append(f[i - 1], names[i])
      BY <1>1, <2>2, <2>4
    <3>4. names[i] \in S
      BY <3>1
    <3>5. CASE names[i] = "default"
      <4>1. \A x \in 1 .. i - 1 : x \in 1 .. i
        BY <3>1
      <4> DEFINE all == f[i - 1]
      <4>a. Follows(all, i - 1, names) /\ Among(all, i - 1, names)
        BY <3>2
      <4> HIDE DEF all
      <4>b. Among(all, i, names)
        BY <4>1, <4>a DEF Among
      <4>c. ASSUME NEW a \in 1 .. Len(all), NEW b \in 1 .. Len(all), a < b
            PROVE  /\ all[b] # "default"
                   /\ \E y \in 1 .. i : names[y] = all[b]
                   /\ \/ all[a] = "default"
                      \/ \E x, y \in 1 .. i : x < y /\ names[x] = all[a] /\ names[y] = all[b]
        <5>1. /\ all[b] # "default"
              /\ \E y \in 1 .. i - 1 : names[y] = all[b]
              /\ \/ all[a] = "default"
                 \/ \E x, y \in 1 .. i - 1 : x < y /\ names[x] = all[a] /\ names[y] = all[b]
          BY <4>a, <4>c DEF Follows
        <5> QED BY <4>1, <5>1
      <4>2. Follows(f[i - 1], i, names) /\ Among(f[i - 1], i, names)
        BY <4>b, <4>c DEF Follows, all
      <4> QED BY <2>2, <3>2, <3>3, <3>5, <4>2
    <3>6. CASE names[i] # "default"
      <4>1. Append(f[i - 1], names[i]) \in Seq(S)
        BY <3>2, <3>4
      <4>2. /\ Follows(Append(f[i - 1], names[i]), i, names)
            /\ Among(Append(f[i - 1], names[i]), i, names)
        BY <3>1, <3>2, <3>4, <3>6, FollowsMore
      <4> QED BY <2>2, <3>3, <3>6, <4>1, <4>2
    <3> QED BY <3>5, <3>6
  <2> QED BY <2>3, <2>4
<1>3. Good(Len(names))
  <2>1. Len(names) \in Nat
    OBVIOUS
  <2>2. Len(names) \notin T
    <3> HIDE DEF T
    <3> QED BY <1>2
  <2> HIDE DEF Good
  <2> QED BY <2>1, <2>2
<1> QED BY <1>3 DEF f

\* Every profile that binds a component is among those that are merged.
LEMMA BindingNamed ==
    ASSUME NEW c, NEW profs, profs # Nil,
           c.profiles = Nil \/ c.profiles \in Seq(ToSet(c.profiles)),
           NEW x \in DOMAIN profs,
           x = "default" \/ (c.profiles # Nil /\ x \in ToSet(c.profiles))
    PROVE  LET names == ResolveProfileNames(c.profiles, profs)
           IN  /\ names \in Seq(ToSet(names))
               /\ \E j \in 1 .. Len(names) : names[j] = x
<1> DEFINE first == IF hasDefault(profs) THEN <<"default">> ELSE <<>>
           S == ToSet(c.profiles) \cup {"default"}
           names == ResolveProfileNames(c.profiles, profs)
<1>1. names = IF c.profiles = Nil THEN first ELSE NamesUpTo(first, c.profiles)[Len(c.profiles)]
  BY DEF ResolveProfileNames, NamesUpTo
<1>2. first \in Seq(S)
  <2>1. "default" \in S
    OBVIOUS
  <2> HIDE DEF S
  <2>2. <<"default">> \in Seq(S) /\ <<>> \in Seq(S)
    BY <2>1
  <2> QED BY <2>2
<1>3. x = "default" => x \in ToSet(first)
  BY DEF hasDefault, ToSet
<1> HIDE DEF first, names
<1>4. names \in Seq(S) /\ x \in ToSet(names)
  <2>1. CASE c.profiles = Nil
    BY <1>1, <1>2, <1>3, <2>1
  <2>2. CASE c.profiles # Nil
    <3> DEFINE given == c.profiles
    <3>1. given \in Seq(ToSet(given))
      BY <2>2
    <3>2. given \in Seq(S) /\ "default" \in S
      <4> HIDE DEF given
      <4>1. ToSet(given) \subseteq ToSet(given) \cup {"default"}
        OBVIOUS
      <4>2. given \in Seq(ToSet(given) \cup {"default"})
        BY <3>1, <4>1
      <4> QED BY <4>2 DEF given
    <3>3. names = NamesUpTo(first, given)[Len(given)]
      BY <1>1, <2>2
    <3>4. x = "default" \/ x \in ToSet(given)
      OBVIOUS
    <3> HIDE DEF given, S
    <3> QED BY <1>2, <1>3, <3>2, <3>3, <3>4, NamesKeep
  <2> QED BY <2>1, <2>2
<1> HIDE DEF S
<1>5. names \in Seq(ToSet(names)) /\ DOMAIN names = 1 .. Len(names)
  BY <1>4 DEF ToSet
<1>6. \E j \in 1 .. Len(names) : names[j] = x
  BY <1>4, <1>5 DEF ToSet
<1> QED BY <1>5, <1>6 DEF names

\* Whatever is merged later is listed later, and not the default profile.
LEMMA MergedInOrder ==
    ASSUME NEW c, NEW profs,
           c.profiles = Nil \/ c.profiles \in Seq(ToSet(c.profiles))
    PROVE  LET names == ResolveProfileNames(c.profiles, profs)
           IN  \A a, b \in 1 .. Len(names) : a < b =>
                  /\ c.profiles # Nil /\ names[b] \in ToSet(c.profiles)
                  /\ ListedAfter(c, names[a], names[b])
<1> DEFINE first == IF hasDefault(profs) THEN <<"default">> ELSE <<>>
           S == ToSet(c.profiles) \cup {"default"}
           names == ResolveProfileNames(c.profiles, profs)
<1>1. names = IF c.profiles = Nil THEN first ELSE NamesUpTo(first, c.profiles)[Len(c.profiles)]
  BY DEF ResolveProfileNames, NamesUpTo
<1>2. first \in Seq(S) /\ (first = <<>> \/ first = <<"default">>) /\ ~ (Len(first) > 1)
  <2>1. "default" \in S
    OBVIOUS
  <2> HIDE DEF S
  <2>2. <<"default">> \in Seq(S) /\ <<>> \in Seq(S)
    BY <2>1
  <2>3. Len(<<"default">>) = 1 /\ Len(<<>>) = 0
    OBVIOUS
  <2> QED BY <2>2, <2>3
<1> HIDE DEF first, names
<1> SUFFICES ASSUME NEW a \in 1 .. Len(names), NEW b \in 1 .. Len(names), a < b
             PROVE  /\ c.profiles # Nil /\ names[b] \in ToSet(c.profiles)
                    /\ ListedAfter(c, names[a], names[b])
  BY DEF names
<1>3. c.profiles # Nil
  <2> SUFFICES ASSUME c.profiles = Nil PROVE FALSE
    OBVIOUS
  <2>1. names = first
    BY <1>1
  <2>2. first = <<>> \/ first = <<"default">>
    BY <1>2
  <2>3. Len(first) \in Nat /\ Len(first) <= 1
    BY <1>2, <2>2
  <2> QED BY <2>1, <2>3
<1> DEFINE given == c.profiles
<1>4. given \in Seq(ToSet(given)) /\ DOMAIN given = 1 .. Len(given)
  <2>1. given \in Seq(ToSet(given))
    BY <1>3
  <2> HIDE DEF given
  <2> QED BY <2>1
<1>5. given \in Seq(S)
  <2> HIDE DEF given
  <2>1. given \in Seq(ToSet(given) \cup {"default"})
    BY <1>4
  <2> QED BY <2>1 DEF given
<1>6. names = NamesUpTo(first, given)[Len(given)]
  BY <1>1, <1>3
<1>7. Follows(names, Len(given), given)
  <2> HIDE DEF given, S
  <2> QED BY <1>2, <1>5, <1>6, NamesInOrder
<1> HIDE DEF given, S
<1>8. /\ names[b] # "default"
      /\ \E y \in 1 .. Len(given) : given[y] = names[b]
      /\ \/ names[a] = "default"
         \/ \E x, y \in 1 .. Len(given) : x < y /\ given[x] = names[a] /\ given[y] = names[b]
  BY <1>7 DEF Follows
<1>9. names[b] \in ToSet(given)
  BY <1>4, <1>8 DEF ToSet
<1> QED BY <1>3, <1>4, <1>8, <1>9 DEF ListedAfter, given

\* A component's selector has the labels of each of its profiles.
LEMMA LabelsSelected ==
    ASSUME NEW c, NEW plat, c.profiles = Nil \/ c.profiles \in Seq(ToSet(c.profiles)),
           NEW x \in Binding(c, plat),
           ToSet(ResolveProfileNames(c.profiles, plat.profiles)) \subseteq DOMAIN plat.profiles
    PROVE  SelectsNodes(MergeProfiles(ResolveProfileNames(c.profiles, plat.profiles),
                                      plat.profiles).nodeSelector, c, plat, x)
<1> DEFINE profs == plat.profiles
           names == ResolveProfileNames(c.profiles, profs)
           m == MergeProfiles(names, profs)
<1>1. /\ profs # Nil /\ x \in DOMAIN profs
      /\ x = "default" \/ (c.profiles # Nil /\ x \in ToSet(c.profiles))
  BY DEF Binding, Keys
<1>2. ToSet(names) \subseteq DOMAIN profs
  OBVIOUS
<1>3. \A a, b \in 1 .. Len(names) : a < b =>
         /\ c.profiles # Nil /\ names[b] \in ToSet(c.profiles)
         /\ ListedAfter(c, names[a], names[b])
  BY MergedInOrder
<1> HIDE DEF profs
<1>4. PICK j \in 1 .. Len(names) : names \in Seq(ToSet(names)) /\ names[j] = x
  BY <1>1, BindingNamed
<1> HIDE DEF names
<1>5. LabelsFrom(m, Len(names), names, profs)
  BY <1>4, MergedLabels
<1> HIDE DEF m
<1>6. Len(names) \in Nat /\ DOMAIN names = 1 .. Len(names)
  BY <1>4
<1> SUFFICES ASSUME NEW k \in DOMAIN profs[x].nodeSelector
             PROVE  /\ k \in DOMAIN m.nodeSelector
                    /\ \/ m.nodeSelector[k] = profs[x].nodeSelector[k]
                       \/ \E y \in Binding(c, plat) :
                             /\ ListedAfter(c, x, y)
                             /\ k \in DOMAIN profs[y].nodeSelector
                             /\ m.nodeSelector[k] = profs[y].nodeSelector[k]
  BY DEF SelectsNodes, m, names, profs
<1>7. k \in DOMAIN profs[names[j]].nodeSelector
  BY <1>4
<1>8. k \in DOMAIN m.nodeSelector
  BY <1>5, <1>7 DEF LabelsFrom
<1>9. PICK l \in j .. Len(names) : /\ k \in DOMAIN profs[names[l]].nodeSelector
                                   /\ m.nodeSelector[k] = profs[names[l]].nodeSelector[k]
  BY <1>5, <1>7 DEF LabelsFrom
<1>10. CASE l = j
  BY <1>4, <1>8, <1>9, <1>10
<1>11. CASE l # j
  <2> DEFINE y == names[l]
  <2>1. l \in 1 .. Len(names) /\ j < l
    BY <1>6, <1>11
  <2>2. c.profiles # Nil /\ y \in ToSet(c.profiles) /\ ListedAfter(c, x, y)
    BY <1>3, <1>4, <2>1
  <2>3. y \in DOMAIN profs
    BY <1>2, <1>6, <2>1 DEF ToSet
  <2>4. y \in Binding(c, plat)
    BY <1>1, <2>2, <2>3 DEF Binding, Keys, profs
  <2> QED BY <1>8, <1>9, <2>2, <2>4
<1> QED BY <1>10, <1>11

\* What the checks of a profile that passes leave for the requests of a
\* component that has some.
LEMMA CeilingHolds ==
    ASSUME NEW req, NEW max \in Nat \ {0}, req = Nil \/ req \in Nat, ~ exceeds(req, max)
    PROVE  orElse(req, Nil, 0) <= max
<1>1. max # Nil
  BY NilAssumption
<1>2. CASE req = Nil
  BY <1>2 DEF orElse
<1>3. CASE req # Nil /\ req = 0
  BY <1>3 DEF orElse
<1>4. CASE req # Nil /\ req # 0
  <2>1. req \in Nat /\ ~ (req > max)
    BY <1>1, <1>4 DEF exceeds, quantitySet
  <2> QED BY <1>4, <2>1 DEF orElse
<1> QED BY <1>2, <1>3, <1>4

LEMMA ValidatedProfile ==
    ASSUME NEW c, NEW m, NEW classes, NEW key, ComponentOK(c), ResourcesSet(c),
           m.maxCpu \in Nat, m.maxMem \in Nat,
           ValidateProfile(c, m, classes, key) = NoCode
    PROVE  /\ m.allowed # Nil /\ key # Unset => key \in m.allowed
           /\ m.maxCpu # 0 => requestsOf(c).cpu <= m.maxCpu
           /\ m.maxMem # 0 => requestsOf(c).mem <= m.maxMem
<1>1. /\ ~ (m.allowed # Nil /\ key # Unset /\ key \notin m.allowed)
      /\ checkResourceCeiling(c, m)
  BY CodesAreSet DEF ValidateProfile
<1>2. effectiveResourceRequests(c) = [cpu |-> c.cpu, mem |-> c.mem, eph |-> c.eph]
  BY DEF effectiveResourceRequests
<1>3. ~ exceeds(c.cpu, m.maxCpu) /\ ~ exceeds(c.mem, m.maxMem)
  BY <1>1, <1>2 DEF checkResourceCeiling
<1>4. (c.cpu = Nil \/ c.cpu \in Nat) /\ (c.mem = Nil \/ c.mem \in Nat)
  BY DEF ComponentOK, ResourcesOK
<1>5. requestsOf(c).cpu = orElse(c.cpu, Nil, 0) /\ requestsOf(c).mem = orElse(c.mem, Nil, 0)
  BY DEF requestsOf
<1> QED BY <1>1, <1>3, <1>4, <1>5, CeilingHolds

\* A component that was resolved keeps the rules of each of its profiles.
LEMMA RulesKept ==
    ASSUME NEW n, NEW c, NEW plat, plat # Nil, PlatformOK(plat), NEW e, NEW dynamic,
           Matched(plat, e), ComponentOK(c), ResourcesSet(c),
           resolveComponent(n, c, plat, platformEnvOf(plat, e), e, dynamic).code = NoCode,
           NEW x \in Binding(c, plat)
    PROVE  LET prof == plat.profiles[x]
               rc == resolveComponent(n, c, plat, platformEnvOf(plat, e), e, dynamic)
               v == componentValues(c, rc)
           IN  /\ prof.maxCpu # 0 => v.requests.cpu <= prof.maxCpu
               /\ prof.maxMem # 0 => v.requests.mem <= prof.maxMem
               /\ prof.allowed # Nil /\ v.ingress # Nil => rc.key \in prof.allowed
               /\ SelectsNodes(v.nodeSelector, c, plat, x)
<1> DEFINE pe == platformEnvOf(plat, e)
           rc == resolveComponent(n, c, plat, pe, e, dynamic)
           profs == plat.profiles
           prof == profs[x]
           names == ResolveProfileNames(c.profiles, profs)
           m == MergeProfiles(names, profs)
           v == componentValues(c, rc)
           key == domainKeyOf(c, pe)
<1>1. /\ rc.key = key /\ rc.merged = m
      /\ c.expose # Nil => exposeCode(n, c, pe, dynamic) = NoCode
      /\ MergeCode(names, profs) = NoCode
      /\ validateMergedProfile(c, names, m, pe, key) = NoCode
  <2>1. ProfilesSection(plat) = profs /\ NamesOf(c, plat) = names /\ MergedOf(c, plat) = m
    BY DEF ProfilesSection, NamesOf, MergedOf
  <2>2. rc.code = NoCode
    OBVIOUS
  <2> HIDE DEF pe, profs, names, m, key
  <2> QED BY <2>1, <2>2, ComponentSound DEF key
<1>2. v.requests = requestsOf(c) /\ v.nodeSelector = rc.merged.nodeSelector
      /\ (v.ingress # Nil => c.expose # Nil)
  <2> HIDE DEF rc
  <2> QED BY DEF componentValues, applyMergedProfile
<1>3. /\ profs # Nil /\ x \in DOMAIN profs
      /\ x = "default" \/ (c.profiles # Nil /\ x \in ToSet(c.profiles))
  BY DEF Binding, Keys
<1>4. c.profiles = Nil \/ c.profiles \in Seq(ToSet(c.profiles))
  BY DEF ComponentOK
<1>5. \A y \in DOMAIN profs : ProfileOK(profs[y])
  BY <1>3 DEF PlatformOK, Keys
<1>6. c.expose # Nil => key # Unset
  <2> SUFFICES ASSUME c.expose # Nil PROVE key # Unset
    OBVIOUS
  <2>1. key \in Keys(pe.domains)
    BY <1>1, ExposedHasDomain
  <2>2. DomainsOK(pe.domains)
    BY DEF platformEnvOf, PlatformOK, Matched, matchEnvKey, MatchedKey
  <2> HIDE DEF pe, key
  <2> QED BY <2>1, <2>2 DEF DomainsOK
<1> HIDE DEF pe, rc, profs, v, key
<1>7. PICK j \in 1 .. Len(names) : names \in Seq(ToSet(names)) /\ names[j] = x
  BY <1>3, <1>4, BindingNamed
<1> HIDE DEF names
<1>8. names # <<>> /\ ToSet(names) \subseteq DOMAIN profs
  <2>1. names # <<>>
    BY <1>7
  <2> QED BY <1>1, <2>1, CodesAreSet DEF MergeCode
<1>9. names \in Seq(DOMAIN profs)
  BY <1>7, <1>8
<1>10. KeepsRules(m, prof)
  BY <1>5, <1>7, <1>9, MergedKeeps
<1>11. ProfileOK(m) /\ ProfileOK(prof)
  BY <1>3, <1>5, <1>9, MergedKeeps
<1> HIDE DEF m, prof
<1>12. /\ m.maxCpu \in Nat /\ m.maxMem \in Nat /\ prof.maxCpu \in Nat /\ prof.maxMem \in Nat
  BY <1>11 DEF ProfileOK
<1>13. /\ m.allowed # Nil /\ key # Unset => key \in m.allowed
       /\ m.maxCpu # 0 => requestsOf(c).cpu <= m.maxCpu
       /\ m.maxMem # 0 => requestsOf(c).mem <= m.maxMem
  BY <1>1, <1>8, <1>12, ValidatedProfile DEF validateMergedProfile
<1>14. requestsOf(c).cpu \in Nat /\ requestsOf(c).mem \in Nat
  BY DEF requestsOf, orElse, ComponentOK, ResourcesOK
<1>15. /\ prof.maxCpu # 0 => requestsOf(c).cpu <= prof.maxCpu
       /\ prof.maxMem # 0 => requestsOf(c).mem <= prof.maxMem
  <2> DEFINE cpu == requestsOf(c).cpu
             mem == requestsOf(c).mem
  <2>1. /\ prof.maxCpu # 0 => m.maxCpu # 0 /\ m.maxCpu <= prof.maxCpu
        /\ prof.maxMem # 0 => m.maxMem # 0 /\ m.maxMem <= prof.maxMem
    BY <1>10 DEF KeepsRules
  <2>2. cpu \in Nat /\ mem \in Nat /\ (m.maxCpu # 0 => cpu <= m.maxCpu)
        /\ (m.maxMem # 0 => mem <= m.maxMem)
    BY <1>13, <1>14
  <2> HIDE DEF cpu, mem
  <2>3. (prof.maxCpu # 0 => cpu <= prof.maxCpu) /\ (prof.maxMem # 0 => mem <= prof.maxMem)
    BY <1>12, <2>1, <2>2
  <2> QED BY <2>3 DEF cpu, mem
<1>16. prof.allowed # Nil /\ v.ingress # Nil => rc.key \in prof.allowed
  BY <1>1, <1>2, <1>6, <1>10, <1>13 DEF KeepsRules
<1>17. SelectsNodes(v.nodeSelector, c, plat, x)
  <2>1. SelectsNodes(m.nodeSelector, c, plat, x)
    BY <1>4, <1>8, LabelsSelected DEF m, names, profs
  <2> QED BY <1>1, <1>2, <2>1
<1> QED BY <1>2, <1>15, <1>16, <1>17 DEF prof, profs, rc, pe, v

LEMMA RulesBind ==
    ASSUME ResolutionInv
    PROVE  ProfilesBind
<1> SUFFICES ASSUME NEW p \in DOMAIN proc, Renders(p), proc[p].resolved.done,
                    NEW n \in DOMAIN ValuesOf(p),
                    NEW x \in Binding(proc[p].loaded.components[n], proc[p].used)
             PROVE  LET prof == proc[p].used.profiles[x]
                        v == ValuesOf(p)[n]
                        key == proc[p].resolved.components[n].key
                    IN  /\ prof.maxCpu # 0 => v.requests.cpu <= prof.maxCpu
                        /\ prof.maxMem # 0 => v.requests.mem <= prof.maxMem
                        /\ prof.allowed # Nil /\ v.ingress # Nil => key \in prof.allowed
                        /\ SelectsNodes(v.nodeSelector, proc[p].loaded.components[n],
                                        proc[p].used, x)
  BY DEF ProfilesBind
<1> DEFINE r == proc[p]
           s == r.loaded
           c == s.components[n]
           rcs == r.resolved.components
           dyn == Dynamics(r.cmd, r.raw)
           pe == platformEnvOf(r.plat, r.env)
           d == n \in dyn
           rc == resolveComponent(n, c, r.plat, pe, r.env, d)
<1>1. ResolutionOK(r) /\ s # Nil
  BY DEF ResolutionInv, Renders
<1>2. /\ n \in DOMAIN s.components /\ activeIn(r.env, c.envs)
      /\ ValuesOf(p)[n] = componentValues(c, IF n \in DOMAIN rcs THEN rcs[n] ELSE ZeroResolved)
  BY DEF ValuesOf, MapSpecToChartValues, activeComponentNames, componentActiveInEnvironment
<1>3. /\ r.plat # Nil /\ PlatformOK(r.plat) /\ r.used = r.plat /\ r.resolved.code = NoCode
      /\ SpecOK(s) /\ Funded(s)
      /\ r.resolved = Resolve(s, r.plat, r.env, dyn)
  BY <1>1 DEF ResolutionOK
<1>4. DOMAIN s.components \subseteq ToSet(SortedNames) /\ ComponentOK(c) /\ ResourcesSet(c)
  BY <1>2, <1>3 DEF SpecOK, Funded
<1>5. /\ rcs = resolveComponents(s, r.plat, r.env, dyn) /\ Matched(r.plat, r.env)
      /\ \A y \in DOMAIN rcs : rcs[y].code = NoCode
  BY <1>3, <1>4, ResolveSound
<1>6. n \in DOMAIN rcs /\ rcs[n] = rc
  BY <1>2, <1>5 DEF resolveComponents
<1>7. ValuesOf(p)[n] = componentValues(c, rcs[n]) /\ rcs[n].code = NoCode
  BY <1>2, <1>5, <1>6
<1>8. x \in Binding(c, r.plat)
  BY <1>3
<1> HIDE DEF c, rcs, dyn, d
<1>9. LET prof == r.plat.profiles[x]
          v == componentValues(c, rc)
      IN  /\ prof.maxCpu # 0 => v.requests.cpu <= prof.maxCpu
          /\ prof.maxMem # 0 => v.requests.mem <= prof.maxMem
          /\ prof.allowed # Nil /\ v.ingress # Nil => rc.key \in prof.allowed
          /\ SelectsNodes(v.nodeSelector, c, r.plat, x)
  <2>1. rc.code = NoCode
    BY <1>6, <1>7
  <2> QED BY <1>3, <1>4, <1>5, <1>8, <2>1, RulesKept
<1> HIDE DEF rc
<1> QED BY <1>3, <1>6, <1>7, <1>9 DEF rcs, c

\* A chart that is rendered with a platform file keeps the ceilings and the
\* allowed domains of every profile of the component and selects nodes by
\* every label key of every one of them, with the value of the profile that
\* is listed last among those that set the key (ResolveProfileNames,
\* MergeProfiles and ValidateProfile, after FillSpecWithDefaults): for any
\* specs, any number of profiles in any order, any platform files.
THEOREM ProfilesAlwaysBind == Spec => []ProfilesBind
<1>1. ResolutionInv => ProfilesBind
  BY RulesBind
<1>2. ResolutionInv /\ [Next]_vars => ResolutionInv'
  BY ResolutionNext
<1> QED BY ResolutionInit, <1>1, <1>2, PTL DEF Spec

-----------------------------------------------------------------------------
(* Loading keeps the shape of a spec, and so does init.                    *)

\* Two components with the same blocks.
SameBlocks(d, c) ==
    /\ d.role = c.role /\ d.port = c.port /\ d.replicas = c.replicas /\ d.hpa = c.hpa
    /\ d.metrics = c.metrics /\ d.alive = c.alive /\ d.kind = c.kind /\ d.disk = c.disk

LEMMA SameBlocksOK ==
    ASSUME NEW c, NEW d, BlocksOK(c), SameBlocks(d, c)
    PROVE  BlocksOK(d)
BY DEF SameBlocks, BlocksOK

LEMMA NormalizeShape ==
    ASSUME NEW s, SpecOK(s), ShapeOK(s)
    PROVE  ShapeOK(normalizeComponents(s))
<1> DEFINE t == normalizeComponents(s)
           new(c) == IF c.expose # Nil /\ c.expose.off THEN [c EXCEPT !.expose = Nil] ELSE c
<1>1. DOMAIN s = {"components", "tasks", "envs"}
      /\ \A n \in DOMAIN s.components : ComponentOK(s.components[n])
  BY DEF SpecOK
<1>2. t.tasks = s.tasks /\ t.components = [n \in DOMAIN s.components |-> new(s.components[n])]
  BY <1>1 DEF normalizeComponents
<1>3. ASSUME NEW c, ComponentOK(c), BlocksOK(c) PROVE BlocksOK(new(c))
  <2>1. SameBlocks(new(c), c)
    BY <1>3, ComponentFields DEF ComponentOK, SameBlocks
  <2> HIDE DEF new
  <2> QED BY <1>3, <2>1, SameBlocksOK
<1> HIDE DEF t, new
<1>4. ShapeOK(t)
  BY <1>1, <1>2, <1>3 DEF ShapeOK
<1> QED BY <1>4 DEF t

LEMMA SubstituteShape ==
    ASSUME NEW s, SpecOK(s), ShapeOK(s), NEW entry, NEW fromFile, NEW fromOS,
           SubstituteVariables(s, entry, fromFile, fromOS) # Nil
    PROVE  ShapeOK(SubstituteVariables(s, entry, fromFile, fromOS))
<1> DEFINE t == SubstituteVariables(s, entry, fromFile, fromOS)
           value == IF fromOS # Nil THEN fromOS ELSE IF fromFile # Nil THEN fromFile ELSE entry.var
           new(c) == substituteComponent(c, value)
           uses == \E n \in DOMAIN s.components :
                       LET x == s.components[n].expose IN x # Nil /\ Var \in {x.sub, x.domain}
           done == [s EXCEPT !.components = [n \in DOMAIN s.components |-> new(s.components[n])]]
<1>1. DOMAIN s = {"components", "tasks", "envs"}
      /\ \A n \in DOMAIN s.components : ComponentOK(s.components[n])
  BY DEF SpecOK
<1>2. t = IF uses /\ value = Nil THEN Nil ELSE done
  BY DEF SubstituteVariables
<1>3. t = done
  <2> HIDE DEF uses, done
  <2> QED BY <1>2
<1>4. ASSUME NEW c, ComponentOK(c), BlocksOK(c) PROVE BlocksOK(new(c))
  <2>1. SameBlocks(new(c), c)
    BY <1>4, ComponentFields DEF ComponentOK, substituteComponent, SameBlocks
  <2> HIDE DEF new
  <2> QED BY <1>4, <2>1, SameBlocksOK
<1> HIDE DEF t, new
<1>5. t.tasks = s.tasks /\ t.components = [n \in DOMAIN s.components |-> new(s.components[n])]
  BY <1>1, <1>3
<1>6. ShapeOK(t)
  BY <1>1, <1>4, <1>5 DEF ShapeOK
<1> QED BY <1>6 DEF t

LEMMA EssentialsShape ==
    ASSUME NEW a, NEW names, AnswersOK(a)
    PROVE  BlocksOK(collectComponentEssentials(a, names))
<1> DEFINE c == applyComponentEssentials(a, names)
           d == collectComponentCustomResources(c, a)
<1>1. /\ BlankComponent.replicas = Nil /\ BlankComponent.hpa = Nil
      /\ BlankComponent.metrics = Nil /\ BlankComponent.alive = Nil
  BY DEF BlankComponent
<1>2. /\ DOMAIN c = DOMAIN BlankComponent /\ c.role = a.role
      /\ c.port = IF a.role = "service" THEN a.port ELSE 0
      /\ c.replicas = Nil /\ c.hpa = Nil /\ c.metrics = Nil /\ c.alive = Nil
  BY <1>1, ComponentFields DEF applyComponentEssentials
<1> HIDE DEF c
<1>3. BlocksOK(c)
  BY <1>2 DEF BlocksOK, AnswersOK
<1>4. SameBlocks(d, c)
  BY <1>2, ComponentFields DEF collectComponentCustomResources, SameBlocks
<1> HIDE DEF d
<1>5. BlocksOK(d)
  BY <1>3, <1>4, SameBlocksOK
<1> QED BY <1>5 DEF c, d, collectComponentEssentials

LEMMA AdvancedShape ==
    ASSUME NEW c, ComponentOK(c), BlocksOK(c), NEW a, AnswersOK(a), NEW names
    PROVE  BlocksOK(collectComponentAdvancedDetails(c, a, names))
<1> DEFINE replicas == collectComponentReplicas(a)
           metrics == collectComponentMetricsPort(a)
           hpa == collectComponentAutoscaling(a)
           disk == collectComponentPersistence(a)
           expose == collectComponentExposeOptions(c.expose, a)
           envs == collectComponentEnvironments(a, names)
           d == [c EXCEPT !.kind = a.kind, !.disk = disk, !.replicas = replicas,
                          !.expose = expose, !.metrics = metrics, !.hpa = hpa, !.envs = envs]
           h == collectComponentHealth(d, a)
           x == collectComponentExecHealth(h, a)
<1>1. collectComponentAdvancedDetails(c, a, names) = x
  BY DEF collectComponentAdvancedDetails
<1>2. replicas \in Nat \cup {Nil}
  BY DEF collectComponentReplicas, AnswersOK
<1>3. metrics = Nil \/ metrics \in [off: BOOLEAN, enabled: BOOLEAN \cup {Nil}, port: Nat]
  <2>1. a.metricsPort \in Nat
    BY DEF AnswersOK
  <2> QED BY <2>1 DEF collectComponentMetricsPort
<1>4. hpa = Nil \/ hpa \in Autoscalings(Nat \ {0})
  <2>1. a.scale = Nil \/ (a.scale.min \in Nat \ {0} /\ a.scale.max \in Nat \ {0})
    BY DEF AnswersOK
  <2> QED BY <2>1 DEF collectComponentAutoscaling, Autoscalings
<1>5. DOMAIN c = DOMAIN BlankComponent
  BY DEF ComponentOK
<1> HIDE DEF replicas, metrics, hpa, disk, expose, envs
<1>6. /\ DOMAIN d = DOMAIN c /\ d.role = c.role /\ d.port = c.port /\ d.replicas = replicas
      /\ d.hpa = hpa /\ d.metrics = metrics /\ d.alive = c.alive
  BY <1>5, ComponentFields
<1> HIDE DEF d
<1>7. BlocksOK(d)
  BY <1>2, <1>3, <1>4, <1>6 DEF BlocksOK
<1>8. ASSUME NEW b, DOMAIN b = DOMAIN c, BlocksOK(b), NEW new, NEW alive,
             DOMAIN new = DOMAIN b, new.alive = alive,
             new.role = b.role, new.port = b.port, new.replicas = b.replicas, new.hpa = b.hpa,
             new.metrics = b.metrics,
             alive \in {b.alive} \/ (alive.interval = 0 /\ alive.restart = 0)
      PROVE  BlocksOK(new)
  BY <1>8 DEF BlocksOK
<1>9. BlankAlive.interval = 0 /\ BlankAlive.restart = 0
      /\ \A v : [BlankAlive EXCEPT !.path = v].interval = 0 /\ [BlankAlive EXCEPT !.path = v].restart = 0
                /\ [BlankAlive EXCEPT !.exec = v].interval = 0 /\ [BlankAlive EXCEPT !.exec = v].restart = 0
  BY DEF BlankAlive
<1>10. /\ DOMAIN h = DOMAIN d /\ h.role = d.role /\ h.port = d.port /\ h.replicas = d.replicas
       /\ h.hpa = d.hpa /\ h.metrics = d.metrics
       /\ h.alive = d.alive \/ h.alive = [BlankAlive EXCEPT !.path = a.path]
  BY <1>5, <1>6, ComponentFields DEF collectComponentHealth
<1> HIDE DEF h
<1>11. BlocksOK(h)
  BY <1>6, <1>7, <1>8, <1>9, <1>10
<1>12. /\ DOMAIN x = DOMAIN h /\ x.role = h.role /\ x.port = h.port /\ x.replicas = h.replicas
       /\ x.hpa = h.hpa /\ x.metrics = h.metrics
       /\ x.alive = h.alive \/ x.alive = [BlankAlive EXCEPT !.exec = TRUE]
  BY <1>5, <1>6, <1>10, ComponentFields DEF collectComponentExecHealth
<1> HIDE DEF x
<1>13. BlocksOK(x)
  BY <1>6, <1>8, <1>9, <1>10, <1>11, <1>12
<1> QED BY <1>1, <1>13

LEMMA SparseShape ==
    ASSUME NEW c, ComponentOK(c), BlocksOK(c)
    PROVE  BlocksOK(omitSchemaDefaults(c))
<1> DEFINE d == omitSchemaDefaults(c)
           role == IF c.role = "service" THEN Unset ELSE c.role
           port == IF c.port = DefaultServicePort THEN 0 ELSE c.port
<1>1. /\ d.role = role /\ d.port = port /\ d.replicas = c.replicas /\ d.hpa = c.hpa
      /\ d.metrics = c.metrics /\ d.alive = c.alive
  BY ComponentFields DEF ComponentOK, omitSchemaDefaults
<1>2. role \in {Unset, "service", "worker"} /\ port \in Nat
  BY DEF BlocksOK
<1> HIDE DEF d, role, port
<1>3. BlocksOK(d)
  BY <1>1, <1>2 DEF BlocksOK
<1> QED BY <1>3 DEF d

LEMMA WizardShape ==
    ASSUME NEW answers, NEW names, \A n \in DOMAIN answers : AnswersOK(answers[n])
    PROVE  ShapeOK(sparseSpec(collectComponents(answers, names)))
<1> DEFINE s == collectComponents(answers, names)
           t == sparseSpec(s)
<1>1. /\ DOMAIN s = {"components", "tasks", "envs"} /\ DOMAIN s.components = DOMAIN answers
      /\ s.tasks = <<>>
      /\ \A n \in DOMAIN answers : s.components[n] = collectComponentDetails(answers[n], names)
  BY DEF collectComponents
<1>2. ASSUME NEW n \in DOMAIN answers
      PROVE  /\ ComponentOK(collectComponentDetails(answers[n], names))
             /\ BlocksOK(collectComponentDetails(answers[n], names))
  <2> DEFINE a == answers[n]
             c == collectComponentEssentials(a, names)
  <2>1. AnswersOK(a)
    OBVIOUS
  <2> HIDE DEF a
  <2>2. ResourcesOK(a, DOMAIN ResourcePresetMappings \cup {"custom"})
    BY <2>1 DEF AnswersOK
  <2>3. ComponentOK(c) /\ BlocksOK(c)
    BY <2>1, <2>2, EssentialsOK, EssentialsShape
  <2> HIDE DEF c
  <2>4. ComponentOK(collectComponentAdvancedDetails(c, a, names))
        /\ BlocksOK(collectComponentAdvancedDetails(c, a, names))
    BY <2>1, <2>3, AdvancedOK, AdvancedShape
  <2> QED BY <2>3, <2>4 DEF collectComponentDetails, collectComponentAdvanced, a, c
<1> HIDE DEF s
<1>3. t.tasks = <<>> /\ DOMAIN t.components = DOMAIN s.components
      /\ \A n \in DOMAIN s.components : t.components[n] = omitSchemaDefaults(s.components[n])
  BY <1>1 DEF sparseSpec
<1>4. DOMAIN <<>> = {}
  OBVIOUS
<1> HIDE DEF t
<1>5. ShapeOK(t)
  BY <1>1, <1>2, <1>3, <1>4, SparseShape DEF ShapeOK
<1> QED BY <1>5 DEF t, s

-----------------------------------------------------------------------------
(* What a component that was loaded is: valid, and complete.               *)

Complete(c) ==
    /\ IsService(c) => c.port \in Nat /\ c.port > 0
    /\ IsService(c) \/ (IsWorker(c) /\ c.expose = Nil)
    /\ MetricsEnabled(c.metrics) => c.metrics.port \in Nat /\ c.metrics.port > 0
    /\ c.alive = Nil \/ (c.alive.interval \in Nat /\ c.alive.restart \in Nat)
    /\ Scales(c) => c.hpa \in Autoscalings(Nat) /\ c.hpa.min <= c.hpa.max /\ c.hpa.targets # {}
    /\ c.replicas = Nil <=> Scales(c)
    /\ c.disk # Nil /\ c.kind # "stateful" => c.replicas = 1

Completed(s) == \A n \in DOMAIN s.components : Complete(s.components[n])

LEMMA WordsAreSet ==
    Unset # "worker" /\ Unset # "service" /\ Unset # "stateful" /\ Unset # "stateless"
BY Zenon DEF Unset

\* The defaults of the schema.
LEMMA SchemaComplete ==
    ASSUME NEW c, ComponentOK(c), BlocksOK(c)
    PROVE  LET d == SchemaDefaults(c)
           IN  /\ DOMAIN d = DOMAIN BlankComponent
               /\ d.role \in {"service", "worker"} /\ IsWorker(d) = IsWorker(c)
               /\ (d.kind = "stateful") = (c.kind = "stateful")
               /\ d.replicas = IF c.replicas = Nil THEN 1 ELSE c.replicas
               /\ d.hpa = IF c.hpa = Nil THEN Nil ELSE DefaultAutoscaling(c.hpa)
               /\ d.metrics = IF c.metrics = Nil THEN Nil
                              ELSE DefaultMetrics(c.metrics)
               /\ d.port = c.port /\ d.expose = c.expose /\ d.alive = c.alive /\ d.disk = c.disk
<1> DEFINE d == SchemaDefaults(c)
           hpa == IF c.hpa = Nil THEN Nil ELSE DefaultAutoscaling(c.hpa)
           metrics == IF c.metrics = Nil THEN Nil
                      ELSE DefaultMetrics(c.metrics)
           role == orElse(c.role, Unset, "service")
           kind == orElse(c.kind, Unset, "stateless")
           replicas == orElse(c.replicas, Nil, 1)
<1>1. d = [c EXCEPT !.role = role, !.kind = kind, !.replicas = replicas, !.hpa = hpa,
                    !.metrics = metrics]
  BY DEF SchemaDefaults
<1>2. role \in {"service", "worker"} /\ (role = "worker" <=> c.role = "worker")
  <2>1. c.role \in {Unset, "service", "worker"}
    BY DEF BlocksOK
  <2> QED BY <2>1, WordsAreSet DEF orElse
<1>3. kind = "stateful" <=> c.kind = "stateful"
  BY WordsAreSet DEF orElse
<1>4. replicas = IF c.replicas = Nil THEN 1 ELSE c.replicas
  BY DEF orElse
<1>5. DOMAIN c = DOMAIN BlankComponent
  BY DEF ComponentOK
<1> HIDE DEF hpa, metrics, role, kind, replicas
<1>6. /\ DOMAIN d = DOMAIN c /\ d.role = role /\ d.kind = kind /\ d.replicas = replicas
      /\ d.hpa = hpa /\ d.metrics = metrics
      /\ d.port = c.port /\ d.expose = c.expose /\ d.alive = c.alive /\ d.disk = c.disk
  BY <1>1, <1>5, ComponentFields
<1> HIDE DEF d
<1>7. IsWorker(d) = IsWorker(c)
  BY <1>2, <1>6 DEF IsWorker
<1> QED BY <1>2, <1>3, <1>4, <1>5, <1>6, <1>7 DEF d, hpa, metrics

LEMMA AutoscalingComplete ==
    ASSUME NEW a, a \in Autoscalings(Nat \ {0})
    PROVE  LET b == DefaultAutoscaling(a)
           IN  /\ b \in Autoscalings(Nat) /\ b # Nil /\ b.on = a.on
               /\ b.min = a.min /\ b.max = a.max /\ b.targets # {}
<1> DEFINE b == DefaultAutoscaling(a)
           targets == orElse(a.targets, {}, {"cpu"})
<1>1. a.on \in BOOLEAN /\ a.min \in Nat \ {0} /\ a.max \in Nat \ {0}
      /\ a.targets \in SUBSET {"cpu", "memory"}
  BY DEF Autoscalings
<1>2. targets # {} /\ targets \in SUBSET {"cpu", "memory"}
  BY <1>1 DEF orElse
<1>3. orElse(a.min, 0, 2) = a.min /\ orElse(a.max, 0, 5) = a.max
  BY <1>1 DEF orElse
<1>4. b = [on |-> a.on, min |-> a.min, max |-> a.max, targets |-> targets]
  BY <1>3 DEF DefaultAutoscaling
<1> HIDE DEF targets
<1>5. b \in Autoscalings(Nat) /\ b.on = a.on /\ b.min = a.min /\ b.max = a.max /\ b.targets = targets
  BY <1>1, <1>2, <1>4 DEF Autoscalings
<1> HIDE DEF b
<1>6. b # Nil
  BY <1>5, OmittedAssumption
<1> QED BY <1>2, <1>5, <1>6 DEF b

\* The defaults that depend on the role, and the count that goes.
LEMMA RoleComplete ==
    ASSUME NEW d, DOMAIN d = DOMAIN BlankComponent, NEW explicit \in BOOLEAN
    PROVE  LET b == applyRoleDependentDefaults(d)
               f == dropSchemaReplicasDefault(b, explicit)
               g == applyResourcePreset(f)
               port == IF IsService(d) THEN orElse(d.port, 0, DefaultServicePort) ELSE d.port
           IN  /\ g.role = d.role /\ g.kind = d.kind /\ g.port = port /\ g.hpa = d.hpa
               /\ g.expose = d.expose /\ g.alive = d.alive /\ g.disk = d.disk
               /\ g.replicas = IF ~ explicit /\ Scales(d) THEN Nil ELSE d.replicas
               /\ g.metrics = IF MetricsEnabled(d.metrics) /\ IsService(d) /\ d.metrics.port = 0
                              THEN [d.metrics EXCEPT !.port = port] ELSE d.metrics
<1> DEFINE b == applyRoleDependentDefaults(d)
           f == dropSchemaReplicasDefault(b, explicit)
           g == applyResourcePreset(f)
           port == IF IsService(d) THEN orElse(d.port, 0, DefaultServicePort) ELSE d.port
           shutdown == orElse(d.shutdown, 0, IF IsWorker(d) THEN 60 ELSE 30)
           metrics == IF MetricsEnabled(d.metrics) /\ IsService(d) /\ d.metrics.port = 0
                      THEN [d.metrics EXCEPT !.port = port] ELSE d.metrics
<1>1. b = [d EXCEPT !.shutdown = shutdown, !.port = port, !.metrics = metrics]
  BY DEF applyRoleDependentDefaults
<1> HIDE DEF shutdown, port, metrics
<1>2. /\ DOMAIN b = DOMAIN d /\ b.role = d.role /\ b.kind = d.kind /\ b.port = port /\ b.hpa = d.hpa
      /\ b.expose = d.expose /\ b.alive = d.alive /\ b.disk = d.disk
      /\ b.replicas = d.replicas /\ b.metrics = metrics
  BY <1>1, ComponentFields
<1> HIDE DEF b
<1>3. Scales(b) = Scales(d)
  BY <1>2 DEF Scales
<1>4. /\ DOMAIN f = DOMAIN d /\ f.role = d.role /\ f.kind = d.kind /\ f.port = port /\ f.hpa = d.hpa
      /\ f.expose = d.expose /\ f.alive = d.alive /\ f.disk = d.disk
      /\ f.replicas = (IF ~ explicit /\ Scales(d) THEN Nil ELSE d.replicas) /\ f.metrics = metrics
  BY <1>2, <1>3, ComponentFields DEF dropSchemaReplicasDefault
<1> HIDE DEF f
<1>5. /\ g.role = f.role /\ g.kind = f.kind /\ g.port = f.port /\ g.hpa = f.hpa
      /\ g.expose = f.expose /\ g.alive = f.alive /\ g.disk = f.disk
      /\ g.replicas = f.replicas /\ g.metrics = f.metrics
  BY <1>4, ComponentFields DEF applyResourcePreset
<1> QED BY <1>4, <1>5 DEF b, f, port, metrics

\* A component as the loader fills it in.
Filled(c) ==
    applyResourcePreset(dropSchemaReplicasDefault(applyRoleDependentDefaults(SchemaDefaults(c)),
                                                  c.replicas # Nil))

LEMMA FilledComponents ==
    ASSUME NEW s, SpecOK(s)
    PROVE  LET t == FillSpecWithDefaults(s)
           IN  /\ DOMAIN t.components = DOMAIN s.components
               /\ \A n \in DOMAIN s.components : t.components[n] = Filled(s.components[n])
               /\ DOMAIN t.tasks = DOMAIN s.tasks
               /\ \A n \in DOMAIN s.tasks :
                     t.tasks[n] = resolveTaskPreset(applyTaskDefaults(s.tasks[n]))
<1>1. DOMAIN s = {"components", "tasks", "envs"}
  BY DEF SpecOK
<1> QED BY <1>1 DEF FillSpecWithDefaults, Filled

LEMMA FilledComplete ==
    ASSUME NEW c, ComponentOK(c), BlocksOK(c), ValidComponent(c)
    PROVE  Complete(Filled(c))
<1> DEFINE d == SchemaDefaults(c)
           g == Filled(c)
           explicit == c.replicas # Nil
           port == IF IsService(d) THEN orElse(d.port, 0, DefaultServicePort) ELSE d.port
<1>1. /\ DOMAIN d = DOMAIN BlankComponent
      /\ d.role \in {"service", "worker"} /\ IsWorker(d) = IsWorker(c)
      /\ (d.kind = "stateful") = (c.kind = "stateful")
      /\ d.replicas = IF c.replicas = Nil THEN 1 ELSE c.replicas
      /\ d.hpa = IF c.hpa = Nil THEN Nil ELSE DefaultAutoscaling(c.hpa)
      /\ d.metrics = IF c.metrics = Nil THEN Nil ELSE DefaultMetrics(c.metrics)
      /\ d.port = c.port /\ d.expose = c.expose /\ d.alive = c.alive /\ d.disk = c.disk
  BY SchemaComplete
<1> HIDE DEF d
<1>2. /\ g.role = d.role /\ g.kind = d.kind /\ g.port = port /\ g.hpa = d.hpa
      /\ g.expose = d.expose /\ g.alive = d.alive /\ g.disk = d.disk
      /\ g.replicas = IF c.replicas = Nil /\ Scales(d) THEN Nil ELSE d.replicas
      /\ g.metrics = IF MetricsEnabled(d.metrics) /\ IsService(d) /\ d.metrics.port = 0
                     THEN [d.metrics EXCEPT !.port = port] ELSE d.metrics
  <2>1. explicit \in BOOLEAN /\ (~ explicit <=> c.replicas = Nil)
    OBVIOUS
  <2>2. g = applyResourcePreset(dropSchemaReplicasDefault(applyRoleDependentDefaults(d), explicit))
    BY DEF Filled, d
  <2> HIDE DEF explicit, g
  <2> QED BY <1>1, <2>1, <2>2, RoleComplete
<1> HIDE DEF g
<1>3. port \in Nat /\ (IsService(d) => port > 0)
  <2>1. d.port \in Nat
    BY <1>1 DEF BlocksOK
  <2> QED BY <2>1 DEF orElse, DefaultServicePort
<1> HIDE DEF port
<1>4. IsService(g) => g.port \in Nat /\ g.port > 0
  BY <1>2, <1>3 DEF IsService
<1>5. IsService(g) \/ (IsWorker(g) /\ g.expose = Nil)
  <2>1. IsWorker(c) => c.expose = Nil
    BY DEF ValidComponent, ValidateComponentWorker
  <2> QED BY <1>1, <1>2, <2>1 DEF IsService, IsWorker
<1>6. MetricsEnabled(g.metrics) => g.metrics.port \in Nat /\ g.metrics.port > 0
  <2> SUFFICES ASSUME MetricsEnabled(g.metrics)
               PROVE  g.metrics.port \in Nat /\ g.metrics.port > 0
    OBVIOUS
  <2> DEFINE m == c.metrics
  <2>1. m # Nil /\ d.metrics = DefaultMetrics(m)
    BY <1>1, <1>2 DEF MetricsEnabled
  <2>2. m \in [off: BOOLEAN, enabled: BOOLEAN \cup {Nil}, port: Nat]
    BY <2>1 DEF BlocksOK
  <2>3. DOMAIN d.metrics = DOMAIN m /\ d.metrics.port = m.port /\ d.metrics.off = m.off
        /\ d.metrics.enabled = orElse(m.enabled, Nil, TRUE) /\ m.port \in Nat
        /\ DOMAIN m = {"off", "enabled", "port"}
    BY <2>1, <2>2 DEF DefaultMetrics
  <2>4. CASE MetricsEnabled(d.metrics) /\ IsService(d) /\ d.metrics.port = 0
    <3>1. g.metrics.port = port
      BY <1>2, <2>3, <2>4
    <3> QED BY <1>3, <2>4, <3>1
  <2>5. CASE ~ (MetricsEnabled(d.metrics) /\ IsService(d) /\ d.metrics.port = 0)
    <3>1. g.metrics = d.metrics /\ MetricsEnabled(d.metrics)
      BY <1>2, <2>5
    <3>2. ~ IsService(d) => m.port > 0
      <4>1. ~ IsService(d) => IsWorker(c)
        BY <1>1 DEF IsService, IsWorker
      <4>2. Nil # FALSE
        BY OmittedAssumption
      <4>3. MetricsEnabled(m)
        BY <2>1, <2>3, <3>1, <4>2 DEF MetricsEnabled, orElse
      <4> QED BY <4>1, <4>3 DEF ValidComponent, ValidateComponentMetrics
    <3>3. IsService(d) => m.port # 0
      BY <2>3, <2>5, <3>1
    <3> QED BY <2>3, <3>1, <3>2, <3>3
  <2> QED BY <2>4, <2>5
<1>7. g.alive = Nil \/ (g.alive.interval \in Nat /\ g.alive.restart \in Nat)
  BY <1>1, <1>2 DEF BlocksOK
<1>8. /\ Scales(d) = Scales(c)
      /\ Scales(c) => /\ d.hpa \in Autoscalings(Nat) /\ d.hpa.targets # {}
                      /\ d.hpa.min = c.hpa.min /\ d.hpa.max = c.hpa.max
  <2>1. CASE c.hpa = Nil
    BY <1>1, <2>1 DEF Scales
  <2>2. CASE c.hpa # Nil
    <3>1. c.hpa \in Autoscalings(Nat \ {0}) /\ d.hpa = DefaultAutoscaling(c.hpa)
      BY <1>1, <2>2 DEF BlocksOK
    <3> QED BY <2>2, <3>1, AutoscalingComplete DEF Scales
  <2> QED BY <2>1, <2>2
<1>9. Scales(g) = Scales(c)
  BY <1>2, <1>8 DEF Scales
<1>10. Scales(g) => g.hpa \in Autoscalings(Nat) /\ g.hpa.min <= g.hpa.max /\ g.hpa.targets # {}
  <2>1. Scales(c) => c.hpa.min <= c.hpa.max
    BY DEF ValidComponent, ValidateComponentAutoscaling
  <2> QED BY <1>2, <1>8, <1>9, <2>1
<1>11. g.replicas = Nil <=> Scales(g)
  <2>1. c.replicas # Nil => ~ Scales(c)
    BY DEF ValidComponent, ValidateComponentReplicas
  <2>2. 1 # Nil
    BY NilAssumption
  <2> QED BY <1>1, <1>2, <1>8, <1>9, <2>1, <2>2
<1>12. g.disk # Nil /\ g.kind # "stateful" => g.replicas = 1
  <2> SUFFICES ASSUME g.disk # Nil, g.kind # "stateful" PROVE g.replicas = 1
    OBVIOUS
  <2>1. c.disk # Nil /\ c.kind # "stateful"
    BY <1>1, <1>2
  <2>2. (c.replicas # Nil => c.replicas <= 1) /\ ~ Scales(c)
    BY <2>1 DEF ValidComponent, ValidateComponentPersistence
  <2>3. c.replicas # Nil => c.replicas \in Nat /\ c.replicas >= 1
    BY DEF ValidComponent, ValidateComponentReplicas, BlocksOK
  <2> QED BY <1>1, <1>2, <1>8, <2>2, <2>3
<1>13. Complete(g)
  BY <1>4, <1>5, <1>6, <1>7, <1>10, <1>11, <1>12 DEF Complete
<1> QED BY <1>13 DEF g

LEMMA LoadComplete ==
    ASSUME NEW s, SpecOK(s), ShapeOK(s), NEW e, NEW plat, NEW files, NEW os,
           Load(s, e, plat, files, os) # Nil
    PROVE  /\ Completed(Load(s, e, plat, files, os))
           /\ DOMAIN Load(s, e, plat, files, os).tasks \subseteq ToSet(SortedNames)
<1> DEFINE name == ResolveEnvironment(s, plat, e)
           entry == IF name \in DOMAIN s.envs THEN s.envs[name] ELSE NoEntry
           env == resolveEnvFile(entry, name, files)
           fromFile == IF env \in DOMAIN files THEN files[env] ELSE Nil
           replaced == SubstituteVariables(s, entry, fromFile, os)
           final == normalizeComponents(replaced)
           t == FillSpecWithDefaults(final)
<1>1. replaced # Nil /\ Load(s, e, plat, files, os) = t /\ ValidateSpecComponents(final)
  BY DEF Load
<1> HIDE DEF entry, fromFile
<1>2. SpecOK(replaced) /\ ShapeOK(replaced)
  BY <1>1, SubstituteOK, SubstituteShape
<1> HIDE DEF replaced
<1>3. SpecOK(final) /\ ShapeOK(final)
  BY <1>2, NormalizeOK, NormalizeShape
<1> HIDE DEF final
<1>4. /\ DOMAIN t.components = DOMAIN final.components
      /\ \A n \in DOMAIN final.components : t.components[n] = Filled(final.components[n])
      /\ DOMAIN t.tasks = DOMAIN final.tasks
  BY <1>3, FilledComponents
<1>5. \A n \in DOMAIN final.components : Complete(Filled(final.components[n]))
  BY <1>1, <1>3, FilledComplete DEF SpecOK, ShapeOK, ValidateSpecComponents
<1> HIDE DEF t
<1> QED BY <1>1, <1>3, <1>4, <1>5 DEF Completed, ShapeOK

LEMMA RoundedUp ==
    ASSUME NEW r \in Nat \ {0}, NEW i \in Nat \ {0}
    PROVE  LET q == (r + i - 1) \div i
           IN  q \in Nat \ {0} /\ i * q >= r /\ i * (q - 1) < r
<1> DEFINE a == r + i - 1
           q == a \div i
           x == a % i
<1>1. a \in Nat /\ a >= i
  OBVIOUS
<1>a. a = r + i - 1
  OBVIOUS
<1> HIDE DEF a
<1>2. q \in Int /\ x \in Int /\ a = i * q + x /\ 0 <= x /\ x < i
  BY <1>1
<1> HIDE DEF q, x
<1>4. i * q \in Int /\ i * q > r - 1 /\ i * q <= r + i - 1
  BY <1>a, <1>2
<1>5. q >= 1
  <2> SUFFICES ASSUME q <= 0 PROVE FALSE
    BY <1>2
  <2>1. i * q <= 0
    BY <1>2
  <2> QED BY <1>4, <2>1
<1>6. i * (q - 1) = i * q - i
  BY <1>2
<1>7. q \in Nat \ {0} /\ i * q >= r /\ i * (q - 1) < r
  BY <1>2, <1>4, <1>5, <1>6
<1> QED BY <1>7 DEF q, a

\* What fits into 32 bits is not changed by the conversion.
LEMMA ConversionKeeps ==
    ASSUME NEW n \in Nat, n <= MaxInt32
    PROVE  int32(n) = n
<1> DEFINE top == MaxInt32 + 1
           x == n + MaxInt32 + 1
<1>1. MaxInt32 \in Nat \ {0}
  BY Int32Assumption
<1>2. top \in Nat /\ top > 0 /\ x \in Nat /\ x < 2 * top /\ x = n + top
  BY <1>1
<1>3. int32(n) = (x % (2 * top)) - top
  BY DEF int32
<1> HIDE DEF top, x
<1>4. x % (2 * top) = x
  BY <1>2
<1> QED BY <1>2, <1>3, <1>4

\* The first check from restart on, unless the threshold is at its limit.
WindowKept(b, restart) ==
    /\ b.period * b.threshold >= restart \/ b.threshold = MaxInt32
    /\ b.period * (b.threshold - 1) < restart

LEMMA ClampedWindow ==
    ASSUME NEW r \in Nat \ {0}, NEW i \in Nat \ {0}
    PROVE  LET up == failureThreshold(r, i)
           IN  /\ up \in Nat /\ up <= MaxInt32
               /\ i * up >= r \/ up = MaxInt32
               /\ i * (up - 1) < r
<1> DEFINE q == (r + i - 1) \div i
           up == failureThreshold(r, i)
<1>1. q \in Nat \ {0} /\ i * q >= r /\ i * (q - 1) < r
  BY RoundedUp
<1>2. up = clamped(q)
  BY DEF failureThreshold
<1>3. MaxInt32 \in Nat \ {0}
  BY Int32Assumption
<1> HIDE DEF q, up
<1>4. CASE q <= MaxInt32
  <2>1. up = q
    BY <1>1, <1>2, <1>3, <1>4 DEF clamped
  <2> QED BY <1>1, <1>4, <2>1 DEF up
<1>5. CASE q > MaxInt32
  <2>1. up = MaxInt32
    BY <1>1, <1>2, <1>3, <1>5 DEF clamped
  <2>2. i * (MaxInt32 - 1) <= i * (q - 1)
    <3> DEFINE d == q - MaxInt32
    <3>1. d \in Nat /\ q - 1 = (MaxInt32 - 1) + d
      BY <1>1, <1>3, <1>5
    <3> HIDE DEF d
    <3>2. i * (q - 1) = i * (MaxInt32 - 1) + i * d /\ i * d \in Nat
      BY <1>3, <3>1
    <3>3. i * (MaxInt32 - 1) \in Int
      BY <1>3
    <3> QED BY <3>2, <3>3
  <2>3. i * (MaxInt32 - 1) \in Int /\ i * (q - 1) \in Int
    BY <1>1, <1>3
  <2>4. i * (MaxInt32 - 1) < r
    BY <1>1, <2>2, <2>3
  <2> QED BY <1>3, <2>1, <2>4 DEF up
<1> QED BY <1>1, <1>3, <1>4, <1>5

LEMMA LivenessWindow ==
    ASSUME NEW c, Complete(c)
    PROVE  LET restart == IF c.alive = Nil \/ c.alive.restart = 0
                          THEN DefaultLivenessRestartAfter ELSE c.alive.restart
               interval == IF c.alive = Nil \/ c.alive.interval = 0
                           THEN DefaultLivenessInterval ELSE c.alive.interval
           IN  interval <= MaxInt32 => WindowKept(livenessOf(c), restart)
<1> DEFINE b == livenessOf(c)
           restart == IF c.alive = Nil \/ c.alive.restart = 0
                      THEN DefaultLivenessRestartAfter ELSE c.alive.restart
           interval == IF c.alive = Nil \/ c.alive.interval = 0
                       THEN DefaultLivenessInterval ELSE c.alive.interval
<1>1. restart \in Nat \ {0} /\ interval \in Nat \ {0}
  BY DEF Complete, DefaultLivenessRestartAfter, DefaultLivenessInterval
<1>2. b.period = int32(interval) /\ b.threshold = int32(failureThreshold(restart, interval))
  BY DEF livenessOf, buildLivenessProbe, orElse
<1> HIDE DEF b, restart, interval
<1>3. LET up == failureThreshold(restart, interval)
      IN  /\ up \in Nat /\ up <= MaxInt32
          /\ interval * up >= restart \/ up = MaxInt32
          /\ interval * (up - 1) < restart
  BY <1>1, ClampedWindow
<1>4. ASSUME interval <= MaxInt32 PROVE WindowKept(b, restart)
  <2>1. b.period = interval /\ b.threshold = failureThreshold(restart, interval)
    BY <1>1, <1>2, <1>3, <1>4, ConversionKeeps
  <2> QED BY <1>3, <2>1 DEF WindowKept
<1> QED BY <1>4 DEF b, restart, interval

LEMMA PortsNamed ==
    ASSUME NEW c, Complete(c), NEW rc
    PROVE  LET v == componentValues(c, rc)
           IN  /\ \A x \in DOMAIN v.ports : v.ports[x] > 0
               /\ DOMAIN v.servicePorts \subseteq DOMAIN v.ports
               /\ \A b \in DOMAIN v.probes : v.probes[b].port \in {Nil} \cup DOMAIN v.ports
               /\ v.ingress # Nil => v.service /\ "http" \in DOMAIN v.servicePorts
               /\ v.monitor # Nil =>
                     v.monitor.port \in (IF v.monitor.pod THEN DOMAIN v.ports
                                         ELSE DOMAIN v.servicePorts)
<1> DEFINE v == componentValues(c, rc)
<1>1. /\ v.ports = containerPorts(c) /\ v.servicePorts = servicePorts(c) /\ v.probes = probesOf(c)
      /\ v.ingress # Nil => c.expose # Nil
      /\ v.service = IsService(c) /\ v.monitor = applyMetricsValues(c, rc.merged)
  BY DEF componentValues
<1> HIDE DEF v
<1>2. IsService(c) \/ IsWorker(c)
  BY DEF Complete
<1>w. IsService(c) => ~ IsWorker(c)
  BY DEF IsService, IsWorker
<1>3. /\ DOMAIN containerPorts(c) = containerPortNames(c)
      /\ DOMAIN servicePorts(c) = servicePortNames(c)
      /\ \A x \in containerPortNames(c) :
            containerPorts(c)[x] = CASE x = "identity" -> 9 [] x = "http" -> c.port
                                     [] OTHER -> metricsPortOf(c)
  BY DEF containerPorts, servicePorts
<1>4. MetricsEnabled(c.metrics) =>
         c.metrics.port \in Nat /\ c.metrics.port > 0 /\ metricsPortOf(c) = c.metrics.port
  BY DEF Complete, metricsPortOf
<1>5. \A x \in containerPortNames(c) : containerPorts(c)[x] > 0
  <2>1. CASE IsWorker(c)
    <3>1. \A x \in containerPortNames(c) :
             x = "identity" \/ (x = "metrics" /\ MetricsEnabled(c.metrics))
      BY <2>1 DEF containerPortNames
    <3> QED BY <1>3, <1>4, <3>1
  <2>2. CASE IsService(c)
    <3>1. \A x \in containerPortNames(c) :
             x = "http" \/ (x = "metrics" /\ MetricsEnabled(c.metrics))
      BY <1>w, <2>2 DEF containerPortNames, ownMetricsPort
    <3>2. c.port > 0
      BY <2>2 DEF Complete
    <3> QED BY <1>3, <1>4, <3>1, <3>2
  <2> QED BY <1>2, <2>1, <2>2
<1>6. servicePortNames(c) \subseteq containerPortNames(c)
  BY DEF servicePortNames, containerPortNames
<1>7. IsService(c) => "http" \in servicePortNames(c)
  BY <1>w DEF servicePortNames
<1>8. \A b \in DOMAIN probesOf(c) : probesOf(c)[b].port \in {Nil} \cup containerPortNames(c)
  <2>1. buildStartupProbe.port = "http" /\ buildReadinessProbe.port = "http"
    BY DEF buildStartupProbe, buildReadinessProbe, probeHandler
  <2>2. livenessOf(c).port \in {Nil, "http"} /\ (hasExecAlive(c) => livenessOf(c).port = Nil)
    BY DEF livenessOf, buildLivenessProbe, probeHandler, hasExecAlive, AliveOn
  <2>3. ASSUME NEW b \in DOMAIN buildProbeValues(c)
        PROVE  buildProbeValues(c)[b].port \in {Nil} \cup containerPortNames(c)
    <3>1. b \in probeNames(c) /\ buildProbeValues(c)[b] \in {buildStartupProbe, buildReadinessProbe, livenessOf(c)}
          /\ (b = "liveness" => buildProbeValues(c)[b] = livenessOf(c))
      BY <2>3 DEF buildProbeValues
    <3>2. CASE IsWorker(c)
      <4>1. b = "liveness" /\ hasExecAlive(c)
        BY <3>1, <3>2 DEF probeNames
      <4> QED BY <2>2, <3>1, <4>1
    <3>3. CASE IsService(c)
      <4>1. "http" \in containerPortNames(c)
        BY <1>6, <1>7, <3>3
      <4> QED BY <2>1, <2>2, <3>1, <4>1
    <3> QED BY <1>2, <3>2, <3>3
  <2>4. probesOf(c) = buildProbeValues(c) \/ probesOf(c) = <<>>
    BY DEF probesOf
  <2>5. DOMAIN <<>> = {}
    OBVIOUS
  <2> QED BY <2>3, <2>4, <2>5
<1>9. c.expose # Nil => IsService(c)
  BY DEF Complete
<1>10. v.monitor # Nil => v.monitor.port \in (IF v.monitor.pod THEN containerPortNames(c) ELSE servicePortNames(c))
  <2> SUFFICES ASSUME v.monitor # Nil
               PROVE  v.monitor.port \in (IF v.monitor.pod THEN containerPortNames(c) ELSE servicePortNames(c))
    OBVIOUS
  <2>1. MetricsEnabled(c.metrics) /\ v.monitor.pod = IsWorker(c) /\ v.monitor.port = monitorPort(c)
    BY <1>1 DEF applyMetricsValues
  <2>2. CASE IsWorker(c)
    <3>1. monitorPort(c) = "metrics"
      BY <2>2 DEF monitorPort
    <3>2. "metrics" \in containerPortNames(c)
      BY <1>4, <2>1, <2>2 DEF containerPortNames
    <3> QED BY <2>1, <2>2, <3>1, <3>2
  <2>3. CASE IsService(c)
    <3>1. monitorPort(c) = IF c.metrics.port # c.port THEN "metrics" ELSE "http"
      BY <1>4, <1>w, <2>1, <2>3 DEF monitorPort
    <3>2. c.metrics.port # c.port => "metrics" \in servicePortNames(c)
      BY <1>4, <1>w, <2>1, <2>3 DEF servicePortNames, ownMetricsPort
    <3> QED BY <1>7, <1>w, <2>1, <2>3, <3>1, <3>2
  <2> QED BY <1>2, <2>2, <2>3
<1> QED BY <1>1, <1>3, <1>5, <1>6, <1>7, <1>8, <1>9, <1>10 DEF v

LEMMA ScalerOne ==
    ASSUME NEW c, Complete(c), NEW rc
    PROVE  LET v == componentValues(c, rc)
           IN  /\ (v.replicaCount = Nil) = (v.autoscaling # Nil)
               /\ v.autoscaling # Nil => v.autoscaling.min <= v.autoscaling.max
                                         /\ v.autoscaling.targets # {}
               /\ v.persistence # Nil /\ v.workload = "Deployment" =>
                     v.replicaCount = 1 /\ v.persistence.recreate
<1> DEFINE v == componentValues(c, rc)
<1>1. /\ v.replicaCount = c.replicas
      /\ v.autoscaling = IF Scales(c) THEN buildAutoscalingValues(c.hpa) ELSE Nil
      /\ v.persistence = IF c.disk = Nil THEN Nil ELSE persistenceValues(c, rc)
      /\ v.workload = IF c.kind = "stateful" THEN "StatefulSet" ELSE "Deployment"
  BY DEF componentValues
<1> HIDE DEF v
<1>2. CASE Scales(c)
  <2>1. /\ c.hpa \in Autoscalings(Nat) /\ c.hpa.min <= c.hpa.max /\ c.hpa.targets # {}
        /\ c.replicas = Nil
    BY <1>2 DEF Complete
  <2> DEFINE a == buildAutoscalingValues(c.hpa)
  <2>2. a \in [min: Nat, max: Nat, targets: SUBSET {"cpu", "memory"}]
        /\ a.min = c.hpa.min /\ a.max = c.hpa.max /\ a.targets = c.hpa.targets
    BY <2>1 DEF buildAutoscalingValues, Autoscalings
  <2> HIDE DEF a
  <2>3. a # Nil
    BY <2>2, OmittedAssumption
  <2>4. v.autoscaling = a
    BY <1>1, <1>2 DEF a
  <2>5. c.disk # Nil => c.kind = "stateful"
    BY <2>1, NilAssumption DEF Complete
  <2> QED BY <1>1, <2>1, <2>2, <2>3, <2>4, <2>5 DEF v
<1>3. CASE ~ Scales(c)
  <2>1. c.replicas # Nil /\ v.autoscaling = Nil
    BY <1>1, <1>3 DEF Complete
  <2>2. c.disk # Nil /\ c.kind # "stateful" => c.replicas = 1
    BY DEF Complete
  <2>3. c.kind # "stateful" => persistenceValues(c, rc).recreate
    BY DEF persistenceValues
  <2> QED BY <1>1, <2>1, <2>2, <2>3 DEF v
<1> QED BY <1>2, <1>3

-----------------------------------------------------------------------------
(* Codes.                                                                  *)

LEMMA MoreCodesAreSet ==
    /\ "TIMEOUT" # NoCode /\ "TASK_SKIPPED" # NoCode /\ "CLIENT" # NoCode /\ "WIZARD" # NoCode
    /\ "CROSS_CHECK" # NoCode /\ "PLATFORM_INVALID" # NoCode /\ "PLATFORM_MISSING" # NoCode
    /\ "PROFILE_OPT_OUT_BLOCKED" # NoCode /\ "PROFILE_MONITOR_LABELS_MISSING" # NoCode
    /\ "COMPONENT_STORAGE_CLASS_NOT_FOUND" # NoCode
BY Zenon DEF NoCode

LEMMA FirstCodes ==
    ASSUME NEW a \in Codes, NEW b \in Codes
    PROVE  firstCode(a, b) \in Codes
BY DEF firstCode

LEMMA ProfileCodes ==
    ASSUME NEW names, NEW profiles, NEW t, NEW m, NEW pe, NEW key
    PROVE  /\ ProfileNamesCode(names, profiles) \in Codes
           /\ MergeCode(names, profiles) \in Codes
           /\ validateMergedProfile(t, names, m, pe, key) \in Codes
<1>1. \A classes : ValidateProfile(t, m, classes, key) \in Codes
  BY DEF ValidateProfile, Codes
<1> QED BY <1>1 DEF ProfileNamesCode, MergeCode, validateMergedProfile, Codes

LEMMA ComponentCodes ==
    ASSUME NEW n, NEW c, NEW plat, NEW pe, NEW e, NEW dynamic
    PROVE  resolveComponent(n, c, plat, pe, e, dynamic).code \in Codes
<1> DEFINE profs == IF plat = Nil THEN Nil ELSE plat.profiles
           names == ResolveProfileNames(c.profiles, profs)
           merged == MergeProfiles(names, profs)
           key == domainKeyOf(c, pe)
           class == storageClassKey(c, merged)
           host == IF c.expose = Nil THEN <<>> ELSE hostOf(n, c, pe.domains[key])
           k1 == IF c.profiles # Nil /\ plat = Nil THEN "PLATFORM_NOT_FOUND" ELSE NoCode
           k2 == ProfileNamesCode(c.profiles, profs)
           k3 == MergeCode(names, profs)
           k4 == IF c.expose = Nil THEN NoCode ELSE exposeCode(n, c, pe, dynamic)
           k5 == validateMergedProfile(c, names, merged, pe, key)
           k6 == applyResolvedStorageClass(c, merged, pe)
           tls == tlsOf(c, pe, key)
           class2 == IF class = Unset THEN Unset ELSE pe.classes[class]
           warned == staticWarning(c, pe, e, dynamic)
           code == firstCode(k1, firstCode(k2, firstCode(k3, firstCode(k4, firstCode(k5, k6)))))
           rc == resolveComponent(n, c, plat, pe, e, dynamic)
<1>1. rc = IF code # NoCode THEN [code |-> code]
           ELSE [code |-> NoCode, profiles |-> names, merged |-> merged, key |-> key,
                 host |-> host, tls |-> tls, class |-> class2, warned |-> warned]
  BY DEF resolveComponent
<1>2. k1 \in Codes /\ k4 \in Codes /\ k6 \in Codes
  <2>1. k1 \in Codes
    BY DEF Codes
  <2>2. exposeCode(n, c, pe, dynamic) \in Codes
    BY DEF exposeCode, Codes
  <2>3. NoCode \in Codes
    BY DEF Codes
  <2>4. k6 \in Codes
    BY DEF applyResolvedStorageClass, Codes
  <2> QED BY <2>1, <2>2, <2>3, <2>4
<1>3. k2 \in Codes /\ k3 \in Codes /\ k5 \in Codes
  BY ProfileCodes
<1> HIDE DEF k1, k2, k3, k4, k5, k6, names, merged, key, host, tls, class2, warned, rc
<1>4. code \in Codes
  BY <1>2, <1>3, FirstCodes
<1> HIDE DEF code
<1>5. rc.code = code
  BY <1>1
<1> QED BY <1>4, <1>5 DEF rc

LEMMA TaskCodes ==
    ASSUME NEW t, NEW plat, NEW pe
    PROVE  resolveTask(t, plat, pe).code \in Codes
<1> DEFINE profs == IF plat = Nil THEN Nil ELSE plat.profiles
           names == ResolveProfileNames(t.profiles, profs)
           merged == MergeProfiles(names, profs)
           k1 == IF t.profiles \notin {Nil, <<>>} /\ plat = Nil THEN "PLATFORM_NOT_FOUND" ELSE NoCode
           k2 == ProfileNamesCode(t.profiles, profs)
           k3 == MergeCode(names, profs)
           k4 == validateMergedProfile(requestsOnly(t), names, merged, pe, Unset)
           code == firstCode(k1, firstCode(k2, firstCode(k3, k4)))
           rt == resolveTask(t, plat, pe)
<1>1. rt = IF code # NoCode THEN [code |-> code]
           ELSE [code |-> NoCode, task |-> t, merged |-> merged]
  BY DEF resolveTask
<1>2. k1 \in Codes
  BY DEF Codes
<1>3. k2 \in Codes /\ k3 \in Codes /\ k4 \in Codes
  BY ProfileCodes
<1> HIDE DEF k1, k2, k3, k4, merged, rt
<1>4. code \in Codes
  BY <1>2, <1>3, FirstCodes
<1> HIDE DEF code
<1>5. rt.code = code
  BY <1>1
<1> QED BY <1>4, <1>5 DEF rt

LEMMA FirstErrorCodes ==
    ASSUME NEW codes, DOMAIN codes \subseteq ToSet(SortedNames),
           \A n \in DOMAIN codes : codes[n] \in Codes
    PROVE  firstError(codes) \in Codes
<1> DEFINE failed == {n \in DOMAIN codes : codes[n] # NoCode}
           first == CHOOSE n \in failed : \A m \in failed : Rank(n) <= Rank(m)
<1>1. NoCode \in Codes
  BY DEF Codes
<1>2. firstError(codes) = IF failed = {} THEN NoCode ELSE codes[first]
  BY DEF firstError
<1>3. failed \subseteq DOMAIN codes /\ failed \subseteq ToSet(SortedNames)
  OBVIOUS
<1> HIDE DEF failed
<1>4. failed # {} => first \in failed
  BY <1>3, LeastRank
<1> QED BY <1>1, <1>2, <1>3, <1>4

LEMMA ResolveCodes ==
    ASSUME NEW s, NEW plat, NEW e, NEW dynamics, DOMAIN s.components \subseteq ToSet(SortedNames),
           DOMAIN s.tasks \subseteq ToSet(SortedNames)
    PROVE  Resolve(s, plat, e, dynamics).code \in Codes
<1> DEFINE rcs == resolveComponents(s, plat, e, dynamics)
           rts == resolveTasks(s, plat, e)
           codes == [n \in DOMAIN rcs |-> componentCode(rcs, n)]
           more == [n \in DOMAIN rts |-> rts[n].code]
           env == IF plat # Nil /\ ~ Matched(plat, e) THEN "PLATFORM_ENV_NOT_FOUND" ELSE NoCode
<1>1. Resolve(s, plat, e, dynamics).code = firstCode(env, firstCode(firstError(codes), firstError(more)))
  BY DEF Resolve, ResolvedSpec, resolveErrors
<1>2. env \in Codes
  BY DEF Codes
<1>3. DOMAIN rcs \subseteq ToSet(SortedNames) /\ \A n \in DOMAIN rcs : rcs[n].code \in Codes
  <2>1. \A n \in DOMAIN rcs :
           rcs[n] = resolveComponent(n, s.components[n], plat, platformEnvOf(plat, e), e, n \in dynamics)
    BY DEF resolveComponents
  <2>2. DOMAIN rcs \subseteq DOMAIN s.components
    BY DEF resolveComponents
  <2> HIDE DEF rcs
  <2> QED BY <2>1, <2>2, ComponentCodes
<1>4. DOMAIN rts \subseteq ToSet(SortedNames) /\ \A n \in DOMAIN rts : rts[n].code \in Codes
  <2>1. \A n \in DOMAIN rts : rts[n] = resolveTask(MergedTask(s, n), plat, platformEnvOf(plat, e))
    BY DEF resolveTasks
  <2>2. DOMAIN rts \subseteq DOMAIN s.tasks
    BY DEF resolveTasks
  <2> HIDE DEF rts
  <2> QED BY <2>1, <2>2, TaskCodes
<1> HIDE DEF rcs, rts
<1>5. \A n \in DOMAIN rcs : componentCode(rcs, n) \in Codes
  <2>1. NoCode \in Codes /\ "FQDN_COLLISION" \in Codes
    BY DEF Codes
  <2> QED BY <1>3, <2>1 DEF componentCode
<1>6. firstError(codes) \in Codes
  BY <1>3, <1>5, FirstErrorCodes
<1>7. firstError(more) \in Codes
  BY <1>4, FirstErrorCodes
<1> HIDE DEF codes, more, env
<1> QED BY <1>1, <1>2, <1>6, <1>7, FirstCodes

LEMMA PrepareCodes ==
    ASSUME NEW p, NEW loaded, NEW resolved, resolved.code \in Codes
    PROVE  PrepareCode(p, loaded, resolved) \in Failures
<1> DEFINE bare == proc[p].cmd # "run" /\ proc[p].plat = Nil /\ HasExposeComponents(loaded)
           rest == CASE proc[p].cmd = "deploy" -> deployCode(p, loaded, resolved)
                     [] proc[p].cmd = "run" -> resolveRunTask(p, loaded, resolved)
                     [] OTHER -> NoCode
<1>1. PrepareCode(p, loaded, resolved) =
         IF loaded = Nil THEN "LOAD" ELSE IF bare THEN "PLATFORM_NOT_FOUND"
         ELSE firstCode(resolved.code, rest)
  BY DEF PrepareCode
<1>2. deployCode(p, loaded, resolved) \in Failures
  BY DEF deployCode, Failures, Codes
<1>3. resolveRunTask(p, loaded, resolved) \in Failures
  BY DEF resolveRunTask, Failures, Codes
<1>4. {NoCode, "LOAD", "PLATFORM_NOT_FOUND"} \subseteq Failures /\ Codes \subseteq Failures
  BY DEF Failures, Codes
<1> HIDE DEF bare
<1>5. rest \in Failures
  BY <1>2, <1>3, <1>4
<1> HIDE DEF rest
<1> QED BY <1>1, <1>4, <1>5 DEF firstCode

-----------------------------------------------------------------------------
(* The steps of a command.                                                 *)

CommandFields == {"cmd", "pc", "raw", "loaded", "resolved", "code", "clients"}

\* A command has a code when it failed, room for a client when it is about
\* to build one, and only loads what is valid and complete.
CommandOK(r) ==
    /\ CommandFields \subseteq DOMAIN r
    /\ r.cmd \in Commands /\ r.pc \in Steps /\ r.code \in Failures
    /\ r.code # NoCode <=> r.pc = "failed"
    /\ r.resolved.code = NoCode
    /\ \E S : r.clients \in Seq(S)
    /\ Len(r.clients) <= Len(ClientsOf(r.cmd))
    /\ r.pc \in {"platform", "prepare", "target"} => r.clients = <<>>
    /\ r.pc = "platform" => r.cmd \in Readers
    /\ r.pc = "target" => r.cmd \in Preparers \cup {"delete"} \cup Lenient
    /\ r.pc = "clients" => Len(r.clients) < Len(ClientsOf(r.cmd))
    /\ r.pc = "prepare" => ShapeOK(r.raw)
    /\ r.loaded # Nil => Completed(r.loaded)

CommandInv ==
    /\ ResolutionInv
    /\ ShapeOK(spec)
    /\ \A p \in DOMAIN proc : CommandOK(proc[p])

LEMMA ClientsListed ==
    ASSUME NEW cmd
    PROVE  /\ Len(ClientsOf(cmd)) \in Nat
           /\ cmd \in Preparers \cup {"delete"} \cup Lenient => Len(ClientsOf(cmd)) > 0
<1>1. /\ Len(deployClients) = 4 /\ Len(onlinePlanClients) = 4 /\ Len(offlinePlanClients) = 1
      /\ Len(deleteClients) = 3 /\ Len(statusClients) = 2 /\ Len(listClients) = 1
      /\ Len(logsClients) = 1 /\ Len(runClients) = 1 /\ Len(shellClients) = 3
  BY DEF deployClients, onlinePlanClients, offlinePlanClients, deleteClients, statusClients,
         listClients, logsClients, runClients, shellClients
<1>2. Len(<<>>) = 0
  OBVIOUS
<1> QED BY <1>1, <1>2 DEF ClientsOf, Preparers, Lenient

KeepsCommand(q) == \E s : proc' = [proc EXCEPT ![q] = s] /\ CommandOK(s)

LEMMA FailStays ==
    ASSUME NEW q \in DOMAIN proc, CommandOK(proc[q]), NEW code \in Failures, code # NoCode,
           Fail(q, code)
    PROVE  KeepsCommand(q)
<1> DEFINE r == proc[q]
           s == [r EXCEPT !.pc = "failed", !.code = code]
<1>1. proc' = [proc EXCEPT ![q] = s]
  BY DEF Fail
<1>2. CommandFields \subseteq DOMAIN r
  BY DEF CommandOK
<1>3. /\ DOMAIN s = DOMAIN r /\ s.cmd = r.cmd /\ s.pc = "failed" /\ s.raw = r.raw
      /\ s.loaded = r.loaded /\ s.resolved = r.resolved /\ s.code = code /\ s.clients = r.clients
  BY <1>2 DEF CommandFields
<1>4. "failed" \in Steps
  BY DEF Steps
<1> HIDE DEF s
<1>5. CommandOK(s)
  BY <1>3, <1>4 DEF CommandOK
<1> QED BY <1>1, <1>5 DEF KeepsCommand

LEMMA StepFailures ==
    {"LOAD", "CLIENT", "WIZARD", "CROSS_CHECK", "PLATFORM_INVALID", "PLATFORM_MISSING"} \subseteq Failures
BY DEF Failures

\* A step that does not fail.
GoesOn(r, s) ==
    /\ CommandFields \subseteq DOMAIN s
    /\ s.cmd = r.cmd /\ s.code = r.code /\ s.clients = r.clients
    /\ r.pc # "failed" /\ s.pc \in Steps \ {"failed", "clients", "platform"}
    /\ s.resolved.code = NoCode
    /\ s.pc \in {"prepare", "target"} => r.pc \in {"platform", "prepare"}
    /\ s.pc = "target" => r.cmd \in Preparers \cup {"delete"}
    /\ s.pc = "prepare" => ShapeOK(s.raw)
    /\ s.loaded # Nil => Completed(s.loaded)

LEMMA GoesOnOK ==
    ASSUME NEW r, NEW s, CommandOK(r), GoesOn(r, s)
    PROVE  CommandOK(s)
<1>1. /\ r.cmd \in Commands /\ r.code \in Failures
      /\ r.code # NoCode <=> r.pc = "failed"
      /\ \E S : r.clients \in Seq(S)
      /\ Len(r.clients) <= Len(ClientsOf(r.cmd))
      /\ r.pc \in {"platform", "prepare", "target"} => r.clients = <<>>
  BY DEF CommandOK
<1>2. /\ CommandFields \subseteq DOMAIN s
      /\ s.cmd = r.cmd /\ s.code = r.code /\ s.clients = r.clients
      /\ r.pc # "failed" /\ s.pc \in Steps \ {"failed", "clients", "platform"}
      /\ s.resolved.code = NoCode
      /\ s.pc \in {"prepare", "target"} => r.pc \in {"platform", "prepare"}
      /\ s.pc = "target" => r.cmd \in Preparers \cup {"delete"}
      /\ s.pc = "prepare" => ShapeOK(s.raw)
      /\ s.loaded # Nil => Completed(s.loaded)
  BY DEF GoesOn
<1> QED BY <1>1, <1>2 DEF CommandOK

LEMMA ReadStays ==
    ASSUME NEW q \in DOMAIN proc, FilesOK, ShapeOK(spec), CommandOK(proc[q]),
           ResolutionOK(proc[q]), ReadPlatform(q)
    PROVE  KeepsCommand(q)
<1> DEFINE r == proc[q]
           plat == Platform(q).cfg
           raw == ParseManifest(spec)
           pc == IF proc[q].cmd = "delete" THEN "target" ELSE "prepare"
           s == [r EXCEPT !.plat = plat, !.used = plat, !.raw = raw, !.pc = pc]
<1>1. r.pc = "platform"
  BY DEF ReadPlatform, At
<1>2. \/ Fail(q, "LOAD") \/ Fail(q, "PLATFORM_INVALID") \/ Fail(q, "PLATFORM_MISSING")
      \/ proc' = [proc EXCEPT ![q] = s]
  BY DEF ReadPlatform
<1>3. ShapeOK(raw)
  BY NormalizeShape DEF FilesOK, ParseManifest
<1>4. pc \in {"target", "prepare"} /\ pc \in Steps /\ (pc = "target" => r.cmd = "delete")
  BY DEF Steps
<1> HIDE DEF plat, raw, pc
<1>5. CommandFields \subseteq DOMAIN r /\ ResolutionFields \subseteq DOMAIN r
      /\ r.resolved.code = NoCode /\ (r.loaded # Nil => Completed(r.loaded))
  BY DEF CommandOK, ResolutionOK
<1>6. DOMAIN s = DOMAIN r /\ s.raw = raw /\ s.pc = pc /\ s.cmd = r.cmd /\ s.code = r.code
      /\ s.clients = r.clients /\ s.resolved = r.resolved /\ s.loaded = r.loaded
  BY <1>5 DEF CommandFields, ResolutionFields
<1> HIDE DEF s, r
<1>7. GoesOn(r, s)
  BY <1>1, <1>3, <1>4, <1>5, <1>6 DEF GoesOn
<1>8. CommandOK(s)
  BY <1>7, GoesOnOK DEF r
<1> QED BY <1>2, <1>8, FailStays, StepFailures, CodesAreSet, MoreCodesAreSet DEF KeepsCommand, r

LEMMA PrepareStays ==
    ASSUME NEW q \in DOMAIN proc, FilesOK, ShapeOK(spec), CommandOK(proc[q]), Prepare(q)
    PROVE  KeepsCommand(q)
<1> DEFINE r == proc[q]
           loaded == Load(spec, r.env, r.plat, input.files, input.os)
           resolved == IF loaded = Nil THEN NotResolved ELSE ResolveLoaded(q, loaded)
           code == PrepareCode(q, loaded, resolved)
<1>1. r.pc = "prepare" /\ r.cmd \in Preparers
  BY DEF Prepare, At
<1>2. \/ Fail(q, code) /\ code # NoCode
      \/ /\ code = NoCode
         /\ \E pc \in {"target", "done"} :
               proc' = [proc EXCEPT ![q].loaded = loaded, ![q].resolved = resolved, ![q].pc = pc]
  BY DEF Prepare
<1>3. loaded # Nil => /\ Completed(loaded) /\ DOMAIN loaded.tasks \subseteq ToSet(SortedNames)
                      /\ DOMAIN loaded.components \subseteq ToSet(SortedNames)
  BY LoadComplete, LoadOK DEF FilesOK, SpecOK
<1> HIDE DEF loaded
<1>4. resolved.code \in Codes
  <2>1. NotResolved.code \in Codes
    BY DEF NotResolved, Codes
  <2> QED BY <1>3, <2>1, ResolveCodes DEF ResolveLoaded
<1> HIDE DEF resolved
<1>5. code \in Failures
  BY <1>4, PrepareCodes
<1>6. code = NoCode => resolved.code = NoCode
  <2> DEFINE bare == r.cmd # "run" /\ r.plat = Nil /\ HasExposeComponents(loaded)
             rest == CASE r.cmd = "deploy" -> deployCode(q, loaded, resolved)
                       [] r.cmd = "run" -> resolveRunTask(q, loaded, resolved)
                       [] OTHER -> NoCode
  <2>1. code = IF loaded = Nil THEN "LOAD" ELSE IF bare THEN "PLATFORM_NOT_FOUND"
               ELSE firstCode(resolved.code, rest)
    BY DEF PrepareCode
  <2> HIDE DEF bare, rest, code
  <2> QED BY <2>1, CodesAreSet, FirstOfTwo
<1> HIDE DEF code
<1>7. CASE Fail(q, code) /\ code # NoCode
  BY <1>5, <1>7, FailStays
<1>8. CASE ~ (Fail(q, code) /\ code # NoCode)
  <2>1. PICK pc \in {"target", "done"} :
           proc' = [proc EXCEPT ![q].loaded = loaded, ![q].resolved = resolved, ![q].pc = pc]
    BY <1>2, <1>8
  <2> DEFINE s == [r EXCEPT !.loaded = loaded, !.resolved = resolved, !.pc = pc]
  <2>2. proc' = [proc EXCEPT ![q] = s]
    BY <2>1
  <2>3. CommandFields \subseteq DOMAIN r
    BY DEF CommandOK
  <2>4. DOMAIN s = DOMAIN r /\ s.pc = pc /\ s.cmd = r.cmd /\ s.code = r.code
        /\ s.clients = r.clients /\ s.resolved = resolved /\ s.loaded = loaded
    BY <2>3 DEF CommandFields
  <2>5. pc \in Steps \ {"failed", "clients", "platform", "prepare"}
    BY <2>1 DEF Steps
  <2> HIDE DEF s, r
  <2>6. GoesOn(r, s)
    BY <1>1, <1>2, <1>3, <1>6, <1>8, <2>3, <2>4, <2>5 DEF GoesOn
  <2> QED BY <2>2, <2>6, GoesOnOK DEF KeepsCommand, r
<1> QED BY <1>7, <1>8

LEMMA ReportStays ==
    ASSUME NEW q \in DOMAIN proc, CommandOK(proc[q]), ResolutionOK(proc[q]),
           proc[q].pc = "prepare", Report(q, AsWritten(q))
    PROVE  KeepsCommand(q)
<1> DEFINE r == proc[q]
           res == AsWritten(q)
           s == [r EXCEPT !.resolved = res, !.pc = "done"]
<1>1. (Fail(q, res.code) /\ res.code # NoCode) \/ (res.code = NoCode /\ proc' = [proc EXCEPT ![q] = s])
  BY DEF Report
<1>2. res.code \in Codes
  <2>1. NotResolved.code \in Codes
    BY DEF NotResolved, Codes
  <2>2. DOMAIN r.raw.tasks \subseteq ToSet(SortedNames)
        /\ DOMAIN r.raw.components \subseteq ToSet(SortedNames)
    BY DEF CommandOK, ResolutionOK, ShapeOK, SpecOK
  <2> QED BY <2>1, <2>2, ResolveCodes DEF AsWritten, ResolveForDisplay
<1>3. res.code \in Failures
  BY <1>2 DEF Failures
<1>4. CommandFields \subseteq DOMAIN r /\ (r.loaded # Nil => Completed(r.loaded))
  BY DEF CommandOK
<1> HIDE DEF res
<1>5. DOMAIN s = DOMAIN r /\ s.pc = "done" /\ s.cmd = r.cmd /\ s.code = r.code
      /\ s.clients = r.clients /\ s.resolved = res /\ s.loaded = r.loaded
  BY <1>4 DEF CommandFields
<1>6. "done" \in Steps
  BY DEF Steps
<1> HIDE DEF s
<1>7. res.code = NoCode => GoesOn(r, s)
  BY <1>4, <1>5, <1>6 DEF GoesOn
<1> QED BY <1>1, <1>3, <1>7, GoesOnOK, FailStays DEF KeepsCommand

LEMMA CheckStays ==
    ASSUME NEW q \in DOMAIN proc, CommandOK(proc[q]), ResolutionOK(proc[q]), runManifestOnly(q)
    PROVE  KeepsCommand(q)
<1> DEFINE r == proc[q]
           res == IF r.plat = Nil THEN [problems |-> FALSE, warnings |-> FALSE]
                  ELSE CrossCheckPlatformReferences(r.raw, r.plat)
           s == [r EXCEPT !.warned = res.warnings, !.pc = "done"]
<1>1. Fail(q, "CROSS_CHECK") \/ proc' = [proc EXCEPT ![q] = s]
  BY DEF runManifestOnly
<1>2. r.pc = "prepare"
  BY DEF runManifestOnly, At
<1>3. CommandFields \subseteq DOMAIN r /\ (r.loaded # Nil => Completed(r.loaded))
      /\ r.resolved.code = NoCode
  BY DEF CommandOK
<1> HIDE DEF res
<1>4. DOMAIN s = DOMAIN r /\ s.pc = "done" /\ s.cmd = r.cmd /\ s.code = r.code
      /\ s.clients = r.clients /\ s.resolved = r.resolved /\ s.loaded = r.loaded
  BY <1>3 DEF CommandFields
<1>5. "done" \in Steps
  BY DEF Steps
<1> HIDE DEF s
<1>6. GoesOn(r, s)
  BY <1>2, <1>3, <1>4, <1>5 DEF GoesOn
<1> QED BY <1>1, <1>6, GoesOnOK, FailStays, StepFailures, MoreCodesAreSet DEF KeepsCommand

LEMMA TargetStays ==
    ASSUME NEW q \in DOMAIN proc, CommandOK(proc[q]), Target(q)
    PROVE  KeepsCommand(q)
<1> DEFINE r == proc[q]
           plat == IF input.flag = Unset THEN Platform(q).cfg ELSE r.plat
           ctx == IF input.flag = Unset THEN PlatformEnvContext(Platform(q).cfg, r.env)
                  ELSE input.flag
           s == [r EXCEPT !.plat = plat, !.ctx = ctx, !.pc = "clients"]
<1>1. proc' = [proc EXCEPT ![q] = s] /\ r.pc = "target"
  BY DEF Target, At
<1>2. CommandFields \subseteq DOMAIN r
  BY DEF CommandOK
<1> HIDE DEF plat, ctx
<1>3. DOMAIN s = DOMAIN r /\ s.pc = "clients" /\ s.cmd = r.cmd /\ s.code = r.code
      /\ s.clients = r.clients /\ s.resolved = r.resolved /\ s.loaded = r.loaded
  BY <1>2 DEF CommandFields
<1> HIDE DEF s
<1>4. r.clients = <<>> /\ Len(r.clients) < Len(ClientsOf(r.cmd))
  <2>1. r.clients = <<>> /\ r.cmd \in Preparers \cup {"delete"} \cup Lenient
    BY <1>1 DEF CommandOK
  <2>2. Len(<<>>) = 0
    OBVIOUS
  <2> QED BY <2>1, <2>2, ClientsListed
<1>5. "clients" \in Steps
  BY DEF Steps
<1>6. CommandOK(s)
  BY <1>1, <1>3, <1>4, <1>5 DEF CommandOK
<1> QED BY <1>1, <1>6 DEF KeepsCommand

LEMMA BuildStays ==
    ASSUME NEW q \in DOMAIN proc, CommandOK(proc[q]), BuildClient(q)
    PROVE  KeepsCommand(q)
<1> DEFINE r == proc[q]
           n == Len(ClientsOf(r.cmd))
<1>1. r.pc = "clients" /\ Len(r.clients) < n /\ n \in Nat
  BY ClientsListed DEF BuildClient, At, CommandOK
<1>2. CASE Fail(q, "CLIENT")
  BY <1>2, FailStays, StepFailures, MoreCodesAreSet
<1>3. CASE ~ Fail(q, "CLIENT")
  <2>1. \E c : \E pc \in {"clients", "done"} :
           /\ pc = "clients" => Len(r.clients) + 1 # n
           /\ proc' = [proc EXCEPT ![q].clients = Append(@, c), ![q].pc = pc]
    <3> DEFINE steps == ClientsOf(r.cmd)
               i == Len(r.clients) + 1
               memo == Memoised(q, steps[i].kind)
               fresh == ClientContext(steps[i].kind, r.ctx)
               ends == (IF i = n THEN {"done"} ELSE {"clients"})
                       \cup (IF steps[i].stop THEN {"done"} ELSE {})
    <3>1. \E c : \E pc \in ends :
             proc' = [proc EXCEPT ![q].clients = Append(@, c), ![q].pc = pc]
      BY <1>3 DEF BuildClient
    <3>2. \A pc \in ends : pc \in {"clients", "done"} /\ (pc = "clients" => i # n)
      OBVIOUS
    <3> HIDE DEF ends
    <3> QED BY <3>1, <3>2
  <2>2. PICK c, pc : /\ pc \in {"clients", "done"}
                     /\ pc = "clients" => Len(r.clients) + 1 # n
                     /\ proc' = [proc EXCEPT ![q].clients = Append(@, c), ![q].pc = pc]
    BY <2>1
  <2> DEFINE new == Append(r.clients, c)
             s == [r EXCEPT !.clients = new, !.pc = pc]
  <2>3. proc' = [proc EXCEPT ![q] = s]
    BY <2>2
  <2>4. CommandFields \subseteq DOMAIN r
    BY DEF CommandOK
  <2>5. PICK S : r.clients \in Seq(S)
    BY DEF CommandOK
  <2>6. new \in Seq(S \cup {c}) /\ Len(new) = Len(r.clients) + 1 /\ Len(r.clients) \in Nat
    BY <2>5
  <2> HIDE DEF new
  <2>7. DOMAIN s = DOMAIN r /\ s.pc = pc /\ s.cmd = r.cmd /\ s.code = r.code
        /\ s.clients = new /\ s.resolved = r.resolved /\ s.loaded = r.loaded
    BY <2>4 DEF CommandFields
  <2> HIDE DEF s
  <2>8. pc \in Steps
    BY <2>2 DEF Steps
  <2>9. Len(new) <= n /\ (pc = "clients" => Len(new) < n)
    BY <1>1, <2>2, <2>6
  <2>10. /\ r.cmd \in Commands /\ r.code \in Failures /\ r.code = NoCode
         /\ r.resolved.code = NoCode /\ (r.loaded # Nil => Completed(r.loaded))
    BY <1>1 DEF CommandOK
  <2>11. CommandOK(s)
    BY <2>2, <2>4, <2>6, <2>7, <2>8, <2>9, <2>10 DEF CommandOK
  <2> QED BY <2>3, <2>11 DEF KeepsCommand
<1> QED BY <1>2, <1>3

LEMMA SaveStays ==
    ASSUME NEW q \in DOMAIN proc, FilesOK, ShapeOK(spec), CommandOK(proc[q]), SaveSpec(q)
    PROVE  KeepsCommand(q) /\ ShapeOK(spec')
<1> DEFINE r == proc[q]
           sparse == buildValidatedSpec(collectComponents(input.answers, input.names))
           s == [r EXCEPT !.raw = sparse, !.pc = "see"]
<1>1. \/ Fail(q, "WIZARD") /\ spec' = spec
      \/ sparse # Nil /\ spec' = sparse /\ proc' = [proc EXCEPT ![q] = s]
  BY DEF SaveSpec
<1>2. \A n \in DOMAIN input.answers : AnswersOK(input.answers[n])
  BY InputsAssumption DEF FilesOK
<1>3. sparse # Nil => ShapeOK(sparse)
  BY <1>2, WizardShape DEF buildValidatedSpec
<1>4. CommandFields \subseteq DOMAIN r /\ r.pc = "save" /\ r.resolved.code = NoCode
      /\ (r.loaded # Nil => Completed(r.loaded))
  BY DEF CommandOK, SaveSpec, At
<1> HIDE DEF sparse
<1>5. DOMAIN s = DOMAIN r /\ s.pc = "see" /\ s.cmd = r.cmd /\ s.code = r.code
      /\ s.clients = r.clients /\ s.resolved = r.resolved /\ s.loaded = r.loaded
  BY <1>4 DEF CommandFields
<1>6. "see" \in Steps
  BY DEF Steps
<1> HIDE DEF s
<1>7. GoesOn(r, s)
  BY <1>4, <1>5, <1>6 DEF GoesOn
<1> QED BY <1>1, <1>3, <1>7, GoesOnOK, FailStays, StepFailures, MoreCodesAreSet DEF KeepsCommand

LEMMA SeeStays ==
    ASSUME NEW q \in DOMAIN proc, CommandOK(proc[q]), ResolutionOK(proc[q]), SeeFile(q)
    PROVE  KeepsCommand(q)
<1> DEFINE r == proc[q]
           s == [r EXCEPT !.seen = file, !.pc = "write"]
<1>1. r.pc = "see" /\ (Fail(q, "PLATFORM_INVALID") \/ proc' = [proc EXCEPT ![q] = s])
  BY DEF SeeFile, At
<1>2. CommandFields \subseteq DOMAIN r /\ r.resolved.code = NoCode
      /\ (r.loaded # Nil => Completed(r.loaded))
  BY DEF CommandOK
<1>3. DOMAIN s = DOMAIN r /\ s.pc = "write" /\ s.cmd = r.cmd /\ s.code = r.code
      /\ s.clients = r.clients /\ s.resolved = r.resolved /\ s.loaded = r.loaded
  BY <1>2 DEF CommandFields
<1>4. "write" \in Steps
  BY DEF Steps
<1> HIDE DEF s
<1>5. GoesOn(r, s)
  BY <1>1, <1>2, <1>3, <1>4 DEF GoesOn
<1> QED BY <1>1, <1>5, GoesOnOK, FailStays, StepFailures, MoreCodesAreSet DEF KeepsCommand

LEMMA WriteStays ==
    ASSUME NEW q \in DOMAIN proc, CommandOK(proc[q]), WriteFile(q)
    PROVE  KeepsCommand(q)
<1> DEFINE r == proc[q]
           s == [r EXCEPT !.pc = "done"]
<1>1. r.pc = "write" /\ proc' = [proc EXCEPT ![q] = s]
  BY DEF WriteFile, At
<1>2. CommandFields \subseteq DOMAIN r /\ r.resolved.code = NoCode
      /\ (r.loaded # Nil => Completed(r.loaded))
  BY DEF CommandOK
<1>3. DOMAIN s = DOMAIN r /\ s.pc = "done" /\ s.cmd = r.cmd /\ s.code = r.code
      /\ s.clients = r.clients /\ s.resolved = r.resolved /\ s.loaded = r.loaded
  BY <1>2 DEF CommandFields
<1>4. "done" \in Steps
  BY DEF Steps
<1> HIDE DEF s
<1>5. GoesOn(r, s)
  BY <1>1, <1>2, <1>3, <1>4 DEF GoesOn
<1> QED BY <1>1, <1>5, GoesOnOK DEF KeepsCommand

LEMMA CommandInit == Init => CommandInv
<1> SUFFICES ASSUME Init PROVE CommandInv
  OBVIOUS
<1>1. ResolutionInv
  BY ResolutionInit
<1>2. ShapeOK(spec) /\ \A p \in DOMAIN input.cmd : input.cmd[p] \in Commands
  BY InputsAssumption DEF Init
<1>3. ASSUME NEW cmd \in Commands, NEW e PROVE CommandOK(NewSession(cmd, e))
  <2> DEFINE r == NewSession(cmd, e)
  <2>1. /\ CommandFields \subseteq DOMAIN r /\ r.loaded = Nil /\ r.resolved = NotResolved
        /\ r.code = NoCode /\ r.clients = <<>> /\ r.cmd = cmd
        /\ r.pc \in {"platform", "target", "save", "see"}
        /\ r.pc = "platform" => cmd \in Readers
        /\ r.pc = "target" => cmd \in Lenient
    BY DEF NewSession, CommandFields
  <2>2. NoCode \in Failures
    BY DEF Failures, Codes
  <2>3. r.pc \in Steps
    BY <2>1 DEF Steps
  <2>4. <<>> \in Seq({}) /\ Len(<<>>) = 0
    OBVIOUS
  <2> HIDE DEF r
  <2>5. CommandOK(r)
    BY <2>1, <2>2, <2>3, <2>4, NothingResolved, ClientsListed DEF CommandOK
  <2> QED BY <2>5 DEF r
<1> QED BY <1>1, <1>2, <1>3 DEF Init, CommandInv

LEMMA CommandNext ==
    ASSUME CommandInv, [Next]_vars
    PROVE  CommandInv'
<1>0. /\ ResolutionInv /\ FilesOK /\ ShapeOK(spec) /\ ResolutionInv'
      /\ \A p \in DOMAIN proc : CommandOK(proc[p]) /\ ResolutionOK(proc[p])
  BY ResolutionNext DEF CommandInv, ResolutionInv
<1>1. ASSUME NEW q \in DOMAIN proc, KeepsCommand(q), ShapeOK(spec')
      PROVE  CommandInv'
  <2>1. PICK s : proc' = [proc EXCEPT ![q] = s] /\ CommandOK(s)
    BY <1>1 DEF KeepsCommand
  <2>2. DOMAIN proc' = DOMAIN proc
        /\ \A p \in DOMAIN proc : proc'[p] = IF p = q THEN s ELSE proc[p]
    BY <2>1
  <2> QED BY <1>0, <1>1, <2>1, <2>2 DEF CommandInv
<1>2. UNCHANGED spec => ShapeOK(spec')
  BY <1>0
<1>3. CASE UNCHANGED vars \/ Terminating \/ SwitchContext \/ EditFile
  <2>1. UNCHANGED <<spec, proc>>
    BY <1>3 DEF vars, Terminating, SwitchContext, EditFile
  <2> QED BY <1>0, <2>1 DEF CommandInv
<1>4. ASSUME NEW q \in DOMAIN proc,
             \/ ReadPlatform(q) \/ Prepare(q)
             \/ runCrossFile(q) \/ runResolve(q) \/ runManifestOnly(q)
             \/ Target(q) \/ BuildClient(q)
             \/ SaveSpec(q) \/ SeeFile(q) \/ WriteFile(q)
      PROVE  CommandInv'
  <2>1. CommandOK(proc[q]) /\ ResolutionOK(proc[q])
    BY <1>0
  <2>2. CASE ReadPlatform(q)
    BY <1>0, <1>1, <1>2, <2>1, <2>2, ReadStays DEF ReadPlatform
  <2>3. CASE Prepare(q)
    <3>1. UNCHANGED spec
      BY <2>3 DEF Prepare
    <3> QED BY <1>0, <1>1, <1>2, <2>1, <2>3, <3>1, PrepareStays
  <2>4. CASE runCrossFile(q) \/ runResolve(q)
    <3>1. proc[q].pc = "prepare" /\ Report(q, AsWritten(q)) /\ UNCHANGED spec
      BY <2>4 DEF runCrossFile, runResolve, At
    <3> QED BY <1>1, <1>2, <2>1, <3>1, ReportStays
  <2>5. CASE runManifestOnly(q)
    BY <1>1, <1>2, <2>1, <2>5, CheckStays DEF runManifestOnly
  <2>6. CASE Target(q)
    BY <1>1, <1>2, <2>1, <2>6, TargetStays DEF Target
  <2>7. CASE BuildClient(q)
    <3>1. UNCHANGED spec
      BY <2>7 DEF BuildClient
    <3> QED BY <1>1, <1>2, <2>1, <2>7, <3>1, BuildStays
  <2>8. CASE SaveSpec(q)
    BY <1>0, <1>1, <2>1, <2>8, SaveStays
  <2>9. CASE SeeFile(q)
    BY <1>1, <1>2, <2>1, <2>9, SeeStays DEF SeeFile
  <2>10. CASE WriteFile(q)
    BY <1>1, <1>2, <2>1, <2>10, WriteStays DEF WriteFile
  <2> QED BY <1>4, <2>2, <2>3, <2>4, <2>5, <2>6, <2>7, <2>8, <2>9, <2>10
<1> QED BY <1>3, <1>4 DEF Next

-----------------------------------------------------------------------------
(* What is rendered.                                                       *)

LEMMA CommandsTyped ==
    ASSUME CommandInv
    PROVE  TypeOK
<1> SUFFICES ASSUME NEW p \in DOMAIN proc
             PROVE  /\ proc[p].cmd \in Commands /\ proc[p].pc \in Steps /\ proc[p].code \in Failures
                    /\ (proc[p].code # NoCode) = (proc[p].pc = "failed")
                    /\ proc[p].resolved.code = NoCode
                    /\ Len(proc[p].clients) <= Len(ClientsOf(proc[p].cmd))
  BY DEF TypeOK
<1> QED BY DEF CommandInv, CommandOK

\* The values of a component are made of a complete one.
LEMMA RenderedFrom ==
    ASSUME CommandInv, NEW p \in DOMAIN proc, Renders(p), NEW n \in DOMAIN ValuesOf(p)
    PROVE  LET c == proc[p].loaded.components[n]
           IN  /\ Complete(c)
               /\ \E rc : ValuesOf(p)[n] = componentValues(c, rc)
<1> DEFINE s == proc[p].loaded
<1>1. s # Nil /\ Completed(s)
  BY DEF CommandInv, CommandOK, Renders
<1>2. n \in DOMAIN s.components /\ \E rc : ValuesOf(p)[n] = componentValues(s.components[n], rc)
  BY DEF ValuesOf, MapSpecToChartValues, activeComponentNames
<1> QED BY <1>1, <1>2 DEF Completed

LEMMA PortsExist ==
    ASSUME CommandInv
    PROVE  NamedPortsExist
<1> SUFFICES ASSUME NEW p \in DOMAIN proc, Renders(p), NEW n \in DOMAIN ValuesOf(p)
             PROVE  LET v == ValuesOf(p)[n]
                    IN  /\ \A x \in DOMAIN v.ports : v.ports[x] > 0
                        /\ DOMAIN v.servicePorts \subseteq DOMAIN v.ports
                        /\ \A b \in DOMAIN v.probes : v.probes[b].port \in {Nil} \cup DOMAIN v.ports
                        /\ v.ingress # Nil => v.service /\ "http" \in DOMAIN v.servicePorts
                        /\ v.monitor # Nil =>
                              v.monitor.port \in (IF v.monitor.pod THEN DOMAIN v.ports
                                                  ELSE DOMAIN v.servicePorts)
  BY DEF NamedPortsExist
<1> DEFINE c == proc[p].loaded.components[n]
<1>1. Complete(c)
  BY RenderedFrom
<1>2. PICK rc : ValuesOf(p)[n] = componentValues(c, rc)
  BY RenderedFrom
<1> HIDE DEF c
<1> QED BY <1>1, <1>2, PortsNamed

LEMMA WindowsKept ==
    ASSUME CommandInv
    PROVE  RestartWindowKept
<1> SUFFICES ASSUME NEW p \in DOMAIN proc, Renders(p), NEW n \in DOMAIN ValuesOf(p),
                    "liveness" \in DOMAIN ValuesOf(p)[n].probes
             PROVE  LET b == ValuesOf(p)[n].probes["liveness"]
                        a == proc[p].loaded.components[n].alive
                        restart == IF a = Nil \/ a.restart = 0 THEN DefaultLivenessRestartAfter
                                   ELSE a.restart
                        interval == IF a = Nil \/ a.interval = 0 THEN DefaultLivenessInterval
                                    ELSE a.interval
                    IN  interval <= MaxInt32 => WindowKept(b, restart)
  BY DEF RestartWindowKept, WindowKept
<1> DEFINE c == proc[p].loaded.components[n]
<1>1. Complete(c)
  BY RenderedFrom
<1>2. PICK rc : ValuesOf(p)[n] = componentValues(c, rc)
  BY RenderedFrom
<1>3. componentValues(c, rc).probes = probesOf(c)
  BY DEF componentValues
<1>4. "liveness" \in DOMAIN probesOf(c)
  BY <1>2, <1>3
<1>5. probesOf(c)["liveness"] = livenessOf(c)
  <2>1. DOMAIN <<>> = {}
    OBVIOUS
  <2>2. probesOf(c) = buildProbeValues(c)
    BY <1>4, <2>1 DEF probesOf
  <2> QED BY <1>4, <2>2 DEF buildProbeValues
<1>6. ValuesOf(p)[n].probes["liveness"] = livenessOf(c)
  BY <1>2, <1>3, <1>5
<1> QED BY <1>1, <1>6, LivenessWindow

LEMMA OneScales ==
    ASSUME CommandInv
    PROVE  OneScaler
<1> SUFFICES ASSUME NEW p \in DOMAIN proc, Renders(p), NEW n \in DOMAIN ValuesOf(p)
             PROVE  LET v == ValuesOf(p)[n]
                    IN  /\ (v.replicaCount = Nil) = (v.autoscaling # Nil)
                        /\ v.autoscaling # Nil => v.autoscaling.min <= v.autoscaling.max
                                                  /\ v.autoscaling.targets # {}
                        /\ v.persistence # Nil /\ v.workload = "Deployment" =>
                              v.replicaCount = 1 /\ v.persistence.recreate
  BY DEF OneScaler
<1> DEFINE c == proc[p].loaded.components[n]
<1>1. Complete(c)
  BY RenderedFrom
<1>2. PICK rc : ValuesOf(p)[n] = componentValues(c, rc)
  BY RenderedFrom
<1> HIDE DEF c
<1> QED BY <1>1, <1>2, ScalerOne

LEMMA MonitorsHaveLabels ==
    ASSUME ResolutionInv
    PROVE  MonitorsLabelled
<1> SUFFICES ASSUME NEW p \in DOMAIN proc, Renders(p), proc[p].resolved.done,
                    NEW n \in DOMAIN ValuesOf(p), ValuesOf(p)[n].monitor # Nil
             PROVE  DOMAIN ValuesOf(p)[n].monitor.labels # {}
  BY DEF MonitorsLabelled
<1> DEFINE r == proc[p]
           s == r.loaded
           c == s.components[n]
           rcs == r.resolved.components
           dyn == Dynamics(r.cmd, r.raw)
           pe == platformEnvOf(r.plat, r.env)
           d == n \in dyn
           rc == resolveComponent(n, c, r.plat, pe, r.env, d)
           key == domainKeyOf(c, pe)
<1>1. ResolutionOK(r) /\ s # Nil
  BY DEF ResolutionInv, Renders
<1>2. /\ n \in DOMAIN s.components /\ activeIn(r.env, c.envs)
      /\ ValuesOf(p)[n] = componentValues(c, IF n \in DOMAIN rcs THEN rcs[n] ELSE ZeroResolved)
  BY DEF ValuesOf, MapSpecToChartValues, activeComponentNames, componentActiveInEnvironment
<1>3. /\ r.resolved.code = NoCode /\ SpecOK(s) /\ r.resolved = Resolve(s, r.plat, r.env, dyn)
  BY <1>1 DEF ResolutionOK
<1>4. DOMAIN s.components \subseteq ToSet(SortedNames)
  BY <1>3 DEF SpecOK
<1>5. /\ rcs = resolveComponents(s, r.plat, r.env, dyn)
      /\ \A y \in DOMAIN rcs : rcs[y].code = NoCode
  BY <1>3, <1>4, ResolveSound
<1>6. n \in DOMAIN rcs /\ rcs[n] = rc
  BY <1>2, <1>5 DEF resolveComponents
<1>7. ValuesOf(p)[n] = componentValues(c, rc) /\ rc.code = NoCode
  BY <1>2, <1>5, <1>6
<1> HIDE DEF c, rcs, dyn, d, pe
<1>8. /\ rc.merged = MergedOf(c, r.plat)
      /\ validateMergedProfile(c, NamesOf(c, r.plat), rc.merged, pe, key) = NoCode
  BY <1>7, ComponentSound
<1> HIDE DEF rc, key
<1>9. componentValues(c, rc).monitor = applyMetricsValues(c, rc.merged)
  BY DEF componentValues
<1>10. MetricsEnabled(c.metrics) /\ ValuesOf(p)[n].monitor.labels = rc.merged.labels
  BY <1>7, <1>9 DEF applyMetricsValues, copyMonitorProfile
<1>11. DOMAIN rc.merged.labels # {}
  BY <1>8, <1>10, MoreCodesAreSet, CodesAreSet DEF validateMergedProfile, ValidateProfile
<1> QED BY <1>10, <1>11

\* Every chart that is rendered is consistent: its probes, Services,
\* Ingresses and monitors name ports that exist, its restart windows are the
\* ones asked for unless they reach the largest int32 of checks or the
\* interval itself is beyond it, one thing scales it and, when there is a
\* platform file, its monitors have labels (generate.go, over what Load has
\* validated and filled in): for any specs, platform files and answers to
\* the wizard, and any largest int32.
THEOREM ChartAlwaysSound == Spec => []ChartSound
<1>1. CommandInv => ChartSound
  BY CommandsTyped, PortsExist, WindowsKept, OneScales, MonitorsHaveLabels DEF ChartSound, CommandInv
<1>2. CommandInv /\ [Next]_vars => CommandInv'
  BY CommandNext
<1> QED BY CommandInit, <1>1, <1>2, PTL DEF Spec

-----------------------------------------------------------------------------
(* Filling in the defaults does not change a verdict.                      *)

\* What a resolution reads of a component, and of a task: the two are
\* resolved alike.
SameReading(d, c) ==
    /\ d.envs = c.envs /\ d.profiles = c.profiles /\ d.expose = c.expose /\ d.disk = c.disk
    /\ MetricsEnabled(d.metrics) <=> MetricsEnabled(c.metrics)
    /\ effectiveResourceRequests(d).cpu = effectiveResourceRequests(c).cpu
    /\ effectiveResourceRequests(d).mem = effectiveResourceRequests(c).mem

SameTaskReading(u, t) ==
    /\ u.envs = t.envs /\ u.profiles = t.profiles
    /\ effectiveResourceRequests(u).cpu = effectiveResourceRequests(t).cpu
    /\ effectiveResourceRequests(u).mem = effectiveResourceRequests(t).mem

LEMMA SameProfileVerdict ==
    ASSUME NEW c, NEW d, NEW names, NEW merged, NEW pe, NEW key,
           MetricsEnabled(d.metrics) <=> MetricsEnabled(c.metrics),
           effectiveResourceRequests(d).cpu = effectiveResourceRequests(c).cpu,
           effectiveResourceRequests(d).mem = effectiveResourceRequests(c).mem
    PROVE  validateMergedProfile(d, names, merged, pe, key)
             = validateMergedProfile(c, names, merged, pe, key)
<1>1. checkResourceCeiling(d, merged) <=> checkResourceCeiling(c, merged)
  BY DEF checkResourceCeiling
<1>2. \A classes : ValidateProfile(d, merged, classes, key) = ValidateProfile(c, merged, classes, key)
  BY <1>1 DEF ValidateProfile
<1> QED BY <1>2 DEF validateMergedProfile

LEMMA SameComponentVerdict ==
    ASSUME NEW n, NEW c, NEW d, SameReading(d, c), NEW plat, NEW pe, NEW e, NEW dynamic
    PROVE  resolveComponent(n, d, plat, pe, e, dynamic) = resolveComponent(n, c, plat, pe, e, dynamic)
<1> DEFINE profs == IF plat = Nil THEN Nil ELSE plat.profiles
           names == ResolveProfileNames(c.profiles, profs)
           merged == MergeProfiles(names, profs)
           key == domainKeyOf(c, pe)
           class == storageClassKey(c, merged)
           host == IF c.expose = Nil THEN <<>> ELSE hostOf(n, c, pe.domains[key])
           k1 == IF c.profiles # Nil /\ plat = Nil THEN "PLATFORM_NOT_FOUND" ELSE NoCode
           k2 == ProfileNamesCode(c.profiles, profs)
           k3 == MergeCode(names, profs)
           k4 == IF c.expose = Nil THEN NoCode ELSE exposeCode(n, c, pe, dynamic)
           k5(x) == validateMergedProfile(x, names, merged, pe, key)
           k6 == applyResolvedStorageClass(c, merged, pe)
           tls == tlsOf(c, pe, key)
           class2 == IF class = Unset THEN Unset ELSE pe.classes[class]
           warned == staticWarning(c, pe, e, dynamic)
           code(x) == firstCode(k1, firstCode(k2, firstCode(k3, firstCode(k4, firstCode(k5(x), k6)))))
           result(x) == IF code(x) # NoCode THEN [code |-> code(x)]
                        ELSE [code |-> NoCode, profiles |-> names, merged |-> merged, key |-> key,
                              host |-> host, tls |-> tls, class |-> class2, warned |-> warned]
<1>1. resolveComponent(n, c, plat, pe, e, dynamic) = result(c)
  BY DEF resolveComponent
<1>2. d.profiles = c.profiles /\ d.expose = c.expose /\ d.disk = c.disk
  BY DEF SameReading
<1>3. resolveComponent(n, d, plat, pe, e, dynamic) = result(d)
  <2>1. domainKeyOf(d, pe) = key
    BY <1>2 DEF domainKeyOf
  <2>2. storageClassKey(d, merged) = class
    BY <1>2 DEF storageClassKey
  <2>3. applyResolvedStorageClass(d, merged, pe) = k6
    BY <2>2 DEF applyResolvedStorageClass
  <2>4. \A y : hostOf(n, d, y) = hostOf(n, c, y)
    BY <1>2 DEF hostOf, subdomainOf
  <2>5. exposeCode(n, d, pe, dynamic) = exposeCode(n, c, pe, dynamic)
    BY <1>2, <2>1, <2>4 DEF exposeCode
  <2>6. tlsOf(d, pe, key) = tls
    BY <1>2 DEF tlsOf
  <2>7. staticWarning(d, pe, e, dynamic) = warned
    BY <1>2 DEF staticWarning
  <2> HIDE DEF key, class, tls, warned, k6
  <2> QED BY <1>2, <2>1, <2>2, <2>3, <2>4, <2>5, <2>6, <2>7 DEF resolveComponent
<1>4. k5(d) = k5(c)
  <2> HIDE DEF names, merged, key
  <2> QED BY SameProfileVerdict DEF SameReading
<1>5. result(d) = result(c)
  <2> HIDE DEF k5, k1, k2, k3, k4, k6, names, merged, key, host, tls, class2, warned
  <2> QED BY <1>4
<1> HIDE DEF result
<1> QED BY <1>1, <1>3, <1>5

LEMMA SameTaskVerdict ==
    ASSUME NEW t, NEW u, SameTaskReading(u, t), NEW plat, NEW pe
    PROVE  resolveTask(u, plat, pe).code = resolveTask(t, plat, pe).code
<1> DEFINE profs == IF plat = Nil THEN Nil ELSE plat.profiles
           names == ResolveProfileNames(t.profiles, profs)
           merged == MergeProfiles(names, profs)
           k1 == IF t.profiles \notin {Nil, <<>>} /\ plat = Nil THEN "PLATFORM_NOT_FOUND" ELSE NoCode
           k2 == ProfileNamesCode(t.profiles, profs)
           k3 == MergeCode(names, profs)
           k4(x) == validateMergedProfile(requestsOnly(x), names, merged, pe, Unset)
           code(x) == firstCode(k1, firstCode(k2, firstCode(k3, k4(x))))
           result(x) == IF code(x) # NoCode THEN [code |-> code(x)]
                        ELSE [code |-> NoCode, task |-> x, merged |-> merged]
<1>1. resolveTask(t, plat, pe) = result(t)
  BY DEF resolveTask
<1>2. u.profiles = t.profiles
  BY DEF SameTaskReading
<1>3. resolveTask(u, plat, pe) = result(u)
  BY <1>2 DEF resolveTask
<1>4. k4(u) = k4(t)
  <2>1. /\ effectiveResourceRequests(requestsOnly(u)).cpu = effectiveResourceRequests(requestsOnly(t)).cpu
        /\ effectiveResourceRequests(requestsOnly(u)).mem = effectiveResourceRequests(requestsOnly(t)).mem
    <3>1. \A x : effectiveResourceRequests(requestsOnly(x)) = effectiveResourceRequests(x)
      BY DEF effectiveResourceRequests, requestsOnly, ResourcesSet
    <3> QED BY <3>1 DEF SameTaskReading
  <2>2. MetricsEnabled(requestsOnly(u).metrics) <=> MetricsEnabled(requestsOnly(t).metrics)
    BY DEF requestsOnly
  <2> HIDE DEF names, merged
  <2> QED BY <2>1, <2>2, SameProfileVerdict
<1>5. result(u).code = code(u) /\ result(t).code = code(t)
  <2> HIDE DEF code, merged
  <2> QED OBVIOUS
<1>6. code(u) = code(t)
  BY <1>4
<1> HIDE DEF result, code
<1> QED BY <1>1, <1>3, <1>5, <1>6

\* A preset stands for its requests.
LEMMA PresetRequests ==
    ASSUME NEW t, {"cpu", "mem", "eph", "preset"} \subseteq DOMAIN t,
           t.preset \in DOMAIN ResourcePresetMappings \cup {Unset}
    PROVE  LET u == applyResourcePreset(t)
           IN  /\ ResourcesSet(u)
               /\ u.cpu = effectiveResourceRequests(t).cpu
               /\ u.mem = effectiveResourceRequests(t).mem /\ u.eph = effectiveResourceRequests(t).eph
<1> DEFINE p == IF t.preset = Unset THEN "small" ELSE t.preset
           req == ResourcePresetMappings[p]
           new == [t EXCEPT !.cpu = req.cpu, !.mem = req.mem, !.eph = req.eph, !.preset = Unset]
           u == applyResourcePreset(t)
           eff == effectiveResourceRequests(t)
<1>1. u = IF ResourcesSet(t) THEN t ELSE new
  BY DEF applyResourcePreset, orElse
<1>2. eff = IF ResourcesSet(t) THEN [cpu |-> t.cpu, mem |-> t.mem, eph |-> t.eph] ELSE req
  BY DEF effectiveResourceRequests
<1>3. req.cpu \in Nat \ {0} /\ req.mem \in Nat \ {0} /\ req.eph \in Nat \ {0}
  <2>1. "small" \in DOMAIN ResourcePresetMappings
    BY DEF ResourcePresetMappings
  <2>2. p \in DOMAIN ResourcePresetMappings
    BY <2>1
  <2> HIDE DEF p
  <2> QED BY <2>2, PresetsAreSet
<1> HIDE DEF req
<1>4. new.cpu = req.cpu /\ new.mem = req.mem /\ new.eph = req.eph
  OBVIOUS
<1> HIDE DEF new
<1>5. ResourcesSet(new)
  BY <1>3, <1>4, NilAssumption DEF ResourcesSet, quantitySet
<1> HIDE DEF u, eff
<1>6. CASE ResourcesSet(t)
  BY <1>1, <1>2, <1>6 DEF u, eff
<1>7. CASE ~ ResourcesSet(t)
  BY <1>1, <1>2, <1>4, <1>5, <1>7 DEF u, eff
<1> QED BY <1>6, <1>7

LEMMA RequestsAsGiven ==
    ASSUME NEW t, ResourcesSet(t)
    PROVE  /\ effectiveResourceRequests(t).cpu = t.cpu /\ effectiveResourceRequests(t).mem = t.mem
           /\ effectiveResourceRequests(t).eph = t.eph
BY DEF effectiveResourceRequests

LEMMA SameRequests ==
    ASSUME NEW t, NEW u, u.cpu = t.cpu, u.mem = t.mem, u.eph = t.eph, u.preset = t.preset
    PROVE  /\ effectiveResourceRequests(u) = effectiveResourceRequests(t)
           /\ ResourcesSet(u) <=> ResourcesSet(t)
BY DEF effectiveResourceRequests, ResourcesSet

LEMMA FilledReadsAlike ==
    ASSUME NEW c, ComponentOK(c), BlocksOK(c)
    PROVE  SameReading(Filled(c), c) /\ ResourcesSet(Filled(c))
<1> DEFINE d == SchemaDefaults(c)
           b == applyRoleDependentDefaults(d)
           explicit == c.replicas # Nil
           f == dropSchemaReplicasDefault(b, explicit)
           g == applyResourcePreset(f)
<1>1. g = Filled(c)
  BY DEF Filled
<1>2. /\ DOMAIN c = DOMAIN BlankComponent
      /\ c.preset \in DOMAIN ResourcePresetMappings \cup {Unset}
  BY DEF ComponentOK, ResourcesOK
<1>3. /\ DOMAIN d = DOMAIN BlankComponent
      /\ d.envs = c.envs /\ d.profiles = c.profiles /\ d.expose = c.expose /\ d.disk = c.disk
      /\ d.cpu = c.cpu /\ d.mem = c.mem /\ d.eph = c.eph /\ d.preset = c.preset /\ d.port = c.port
      /\ d.metrics = IF c.metrics = Nil THEN Nil ELSE DefaultMetrics(c.metrics)
  BY <1>2, ComponentFields DEF SchemaDefaults
<1> HIDE DEF d
<1> DEFINE port == IF IsService(d) THEN orElse(d.port, 0, DefaultServicePort) ELSE d.port
<1>4. /\ DOMAIN b = DOMAIN BlankComponent
      /\ b.envs = d.envs /\ b.profiles = d.profiles /\ b.expose = d.expose /\ b.disk = d.disk
      /\ b.cpu = d.cpu /\ b.mem = d.mem /\ b.eph = d.eph /\ b.preset = d.preset
      /\ b.metrics = IF MetricsEnabled(d.metrics) /\ IsService(d) /\ d.metrics.port = 0
                     THEN [d.metrics EXCEPT !.port = port] ELSE d.metrics
  BY <1>3, ComponentFields DEF applyRoleDependentDefaults
<1>p. port \in Nat
  <2>1. d.port \in Nat
    BY <1>3 DEF BlocksOK
  <2> QED BY <2>1 DEF orElse, DefaultServicePort
<1> HIDE DEF b, port, explicit
<1>5. /\ DOMAIN f = DOMAIN BlankComponent
      /\ f.envs = b.envs /\ f.profiles = b.profiles /\ f.expose = b.expose /\ f.disk = b.disk
      /\ f.cpu = b.cpu /\ f.mem = b.mem /\ f.eph = b.eph /\ f.preset = b.preset /\ f.metrics = b.metrics
  BY <1>4, ComponentFields DEF dropSchemaReplicasDefault
<1> HIDE DEF f
<1>6. /\ g.envs = f.envs /\ g.profiles = f.profiles /\ g.expose = f.expose /\ g.disk = f.disk
      /\ g.metrics = f.metrics
  BY <1>5, ComponentFields DEF applyResourcePreset
<1>7. ResourcesSet(g) /\ g.cpu = effectiveResourceRequests(f).cpu
      /\ g.mem = effectiveResourceRequests(f).mem /\ g.eph = effectiveResourceRequests(f).eph
  <2>1. {"cpu", "mem", "eph", "preset"} \subseteq DOMAIN f
        /\ f.preset \in DOMAIN ResourcePresetMappings \cup {Unset}
    BY <1>2, <1>3, <1>4, <1>5, ComponentFields
  <2> QED BY <2>1, PresetRequests
<1> HIDE DEF g
<1>8. effectiveResourceRequests(f) = effectiveResourceRequests(c)
  BY <1>3, <1>4, <1>5, SameRequests
<1>9. MetricsEnabled(g.metrics) <=> MetricsEnabled(c.metrics)
  <2> DEFINE m == c.metrics
             x == d.metrics
             y == [x EXCEPT !.port = port]
  <2>1. CASE m = Nil
    BY <1>3, <1>4, <1>5, <1>6, <2>1 DEF MetricsEnabled
  <2>2. CASE m # Nil
    <3>1. m \in [off: BOOLEAN, enabled: BOOLEAN \cup {Nil}, port: Nat]
      BY <2>2 DEF BlocksOK
    <3>2. x = DefaultMetrics(m)
      BY <1>3, <2>2
    <3>3. DOMAIN x = {"off", "enabled", "port"} /\ x.off = m.off
          /\ x.enabled = orElse(m.enabled, Nil, TRUE)
          /\ x \in [off: BOOLEAN, enabled: BOOLEAN \cup {Nil}, port: Nat]
      BY <3>1, <3>2 DEF DefaultMetrics, orElse
    <3> HIDE DEF x, m
    <3>4. y \in [off: BOOLEAN, enabled: BOOLEAN \cup {Nil}, port: Nat]
          /\ y.off = x.off /\ y.enabled = x.enabled
      BY <1>p, <3>3
    <3> HIDE DEF y
    <3>5. x # Nil /\ y # Nil /\ Nil # FALSE
      BY <3>3, <3>4, OmittedAssumption
    <3>6. MetricsEnabled(x) <=> MetricsEnabled(m)
      BY <2>2, <3>3, <3>5 DEF MetricsEnabled, orElse
    <3>7. MetricsEnabled(y) <=> MetricsEnabled(x)
      BY <3>4, <3>5 DEF MetricsEnabled
    <3>8. g.metrics \in {x, y}
      BY <1>4, <1>5, <1>6 DEF x, y
    <3> QED BY <3>6, <3>7, <3>8 DEF m
  <2> QED BY <2>1, <2>2
<1> QED BY <1>1, <1>3, <1>4, <1>5, <1>6, <1>7, <1>8, <1>9, RequestsAsGiven DEF SameReading

LEMMA NamesNotEmpty ==
    ASSUME NEW s, SpecOK(s)
    PROVE  Unset \notin DOMAIN s.components
BY NamesAssumption DEF SpecOK

\* A task with its defaults: one with requests of its own has them spelled
\* out, one that waits for its component's is left as it is.
LEMMA TaskDefaults ==
    ASSUME NEW t, TaskOK(t)
    PROVE  LET u == resolveTaskPreset(applyTaskDefaults(t))
               waits == t.from # Unset /\ t.preset = Unset /\ ~ ResourcesSet(t)
           IN  /\ DOMAIN u = DOMAIN t
               /\ u.from = t.from /\ u.envs = t.envs /\ u.profiles = t.profiles
               /\ waits => u.cpu = t.cpu /\ u.mem = t.mem /\ u.eph = t.eph /\ u.preset = t.preset
               /\ ~ waits => /\ ResourcesSet(u)
                             /\ u.cpu = effectiveResourceRequests(t).cpu
                             /\ u.mem = effectiveResourceRequests(t).mem /\ u.eph = effectiveResourceRequests(t).eph
<1> DEFINE timeout == IF IsHook(t) THEN orElse(t.timeout, 0, DefaultHookTaskTimeout) ELSE t.timeout
           w == [t EXCEPT !.timeout = timeout]
           a == applyResourcePreset(w)
           waits == t.from # Unset /\ t.preset = Unset /\ ~ ResourcesSet(t)
           u == resolveTaskPreset(w)
<1>1. applyTaskDefaults(t) = w
  BY DEF applyTaskDefaults
<1>2. DOMAIN t = {"from", "on", "envs", "profiles", "cpu", "mem", "eph", "preset", "timeout", "wellFormed"}
      /\ t.preset \in DOMAIN ResourcePresetMappings \cup {Unset}
  BY DEF TaskOK, ResourcesOK
<1> HIDE DEF timeout
<1>3. DOMAIN w = DOMAIN t /\ w.from = t.from /\ w.envs = t.envs /\ w.profiles = t.profiles
      /\ w.cpu = t.cpu /\ w.mem = t.mem /\ w.eph = t.eph /\ w.preset = t.preset
  BY <1>2
<1> HIDE DEF w
<1>4. DOMAIN a = DOMAIN t /\ a.from = t.from /\ a.envs = t.envs /\ a.profiles = t.profiles
  BY <1>2, <1>3 DEF applyResourcePreset
<1>5. ResourcesSet(a) /\ a.cpu = effectiveResourceRequests(w).cpu
      /\ a.mem = effectiveResourceRequests(w).mem /\ a.eph = effectiveResourceRequests(w).eph
  <2>1. {"cpu", "mem", "eph", "preset"} \subseteq DOMAIN w
        /\ w.preset \in DOMAIN ResourcePresetMappings \cup {Unset}
    BY <1>2, <1>3
  <2> QED BY <2>1, PresetRequests
<1> HIDE DEF a
<1>6. effectiveResourceRequests(w) = effectiveResourceRequests(t)
      /\ (ResourcesSet(w) <=> ResourcesSet(t))
  BY <1>3, SameRequests
<1>7. u = IF waits THEN w ELSE a
  BY <1>3, <1>6 DEF resolveTaskPreset, a
<1> HIDE DEF u
<1>8. CASE waits
  BY <1>1, <1>3, <1>7, <1>8 DEF u
<1>9. CASE ~ waits
  BY <1>1, <1>4, <1>5, <1>6, <1>7, <1>9 DEF u
<1> QED BY <1>8, <1>9

\* What a task gets from its component.
LEMMA MergedFields ==
    ASSUME NEW t, {"envs", "profiles", "preset", "cpu", "mem", "eph"} \subseteq DOMAIN t, NEW parent
    PROVE  LET m == MergeFrom(t, parent)
               own == t.preset # Unset \/ ResourcesSet(t)
           IN  /\ m.envs = orElse(t.envs, {}, parent.envs)
               /\ m.profiles = IF t.profiles \in {Nil, <<>>} THEN parent.profiles ELSE t.profiles
               /\ own => m.preset = t.preset /\ m.cpu = t.cpu /\ m.mem = t.mem /\ m.eph = t.eph
               /\ ~ own => /\ m.preset = parent.preset
                           /\ ResourcesSet(parent) => m.cpu = parent.cpu /\ m.mem = parent.mem /\ m.eph = parent.eph
                           /\ ~ ResourcesSet(parent) => m.cpu = t.cpu /\ m.mem = t.mem /\ m.eph = t.eph
<1> DEFINE own == t.preset # Unset \/ ResourcesSet(t)
           envs == orElse(t.envs, {}, parent.envs)
           profiles == IF t.profiles \in {Nil, <<>>} THEN parent.profiles ELSE t.profiles
           preset == IF own THEN t.preset ELSE parent.preset
           cpu == IF ~ own /\ ResourcesSet(parent) THEN parent.cpu ELSE t.cpu
           mem == IF ~ own /\ ResourcesSet(parent) THEN parent.mem ELSE t.mem
           eph == IF ~ own /\ ResourcesSet(parent) THEN parent.eph ELSE t.eph
           m == MergeFrom(t, parent)
<1>1. m = [t EXCEPT !.envs = envs, !.profiles = profiles, !.preset = preset, !.cpu = cpu, !.mem = mem, !.eph = eph]
  BY DEF MergeFrom
<1>2. own => preset = t.preset /\ cpu = t.cpu /\ mem = t.mem /\ eph = t.eph
  OBVIOUS
<1>3. ~ own => /\ preset = parent.preset
               /\ ResourcesSet(parent) => cpu = parent.cpu /\ mem = parent.mem /\ eph = parent.eph
               /\ ~ ResourcesSet(parent) => cpu = t.cpu /\ mem = t.mem /\ eph = t.eph
  OBVIOUS
<1> HIDE DEF preset, cpu, mem, eph, envs, profiles, own, m
<1>4. m.envs = envs /\ m.profiles = profiles /\ m.preset = preset /\ m.cpu = cpu /\ m.mem = mem /\ m.eph = eph
  BY <1>1
<1> QED BY <1>2, <1>3, <1>4 DEF m, own, envs, profiles

LEMMA MergedReadsAlike ==
    ASSUME NEW t, TaskOK(t), t.from # Unset, NEW c, NEW d, SameReading(d, c), ResourcesSet(d)
    PROVE  SameTaskReading(MergeFrom(resolveTaskPreset(applyTaskDefaults(t)), d), MergeFrom(t, c))
<1> DEFINE u == resolveTaskPreset(applyTaskDefaults(t))
           x == MergeFrom(u, d)
           y == MergeFrom(t, c)
           own == t.preset # Unset \/ ResourcesSet(t)
<1>1. {"envs", "profiles", "preset", "cpu", "mem", "eph"} \subseteq DOMAIN t
  BY DEF TaskOK
<1>2. /\ DOMAIN u = DOMAIN t
      /\ u.from = t.from /\ u.envs = t.envs /\ u.profiles = t.profiles
      /\ ~ own => u.cpu = t.cpu /\ u.mem = t.mem /\ u.eph = t.eph /\ u.preset = t.preset
      /\ own => /\ ResourcesSet(u)
                /\ u.cpu = effectiveResourceRequests(t).cpu
                /\ u.mem = effectiveResourceRequests(t).mem /\ u.eph = effectiveResourceRequests(t).eph
  BY TaskDefaults
<1> HIDE DEF u
<1>3. /\ d.envs = c.envs /\ d.profiles = c.profiles
      /\ effectiveResourceRequests(d).cpu = effectiveResourceRequests(c).cpu
      /\ effectiveResourceRequests(d).mem = effectiveResourceRequests(c).mem
  BY DEF SameReading
<1>4. x.envs = y.envs /\ x.profiles = y.profiles
  BY <1>1, <1>2, <1>3, MergedFields
<1>5. CASE own
  <2>1. y.preset = t.preset /\ y.cpu = t.cpu /\ y.mem = t.mem /\ y.eph = t.eph
    BY <1>1, <1>5, MergedFields
  <2>2. x.preset = u.preset /\ x.cpu = u.cpu /\ x.mem = u.mem /\ x.eph = u.eph
    BY <1>1, <1>2, <1>5, MergedFields
  <2> HIDE DEF x, y, own
  <2>3. ResourcesSet(x)
    BY <1>2, <1>5, <2>2, SameRequests
  <2>4. effectiveResourceRequests(y) = effectiveResourceRequests(t)
    BY <2>1, SameRequests
  <2>5. /\ effectiveResourceRequests(x).cpu = u.cpu /\ effectiveResourceRequests(x).mem = u.mem
        /\ effectiveResourceRequests(x).eph = u.eph
    BY <2>2, <2>3, RequestsAsGiven
  <2> QED BY <1>2, <1>4, <1>5, <2>4, <2>5 DEF SameTaskReading, x, y, u
<1>6. CASE ~ own
  <2>1. ~ (u.preset # Unset \/ ResourcesSet(u))
    <3>1. ResourcesSet(u) <=> ResourcesSet(t)
      BY <1>2, <1>6, SameRequests
    <3> QED BY <1>2, <1>6, <3>1
  <2>2. x.cpu = d.cpu /\ x.mem = d.mem /\ x.eph = d.eph /\ x.preset = d.preset
    BY <1>1, <1>2, <2>1, MergedFields
  <2>3. /\ y.preset = c.preset
        /\ ResourcesSet(c) => y.cpu = c.cpu /\ y.mem = c.mem /\ y.eph = c.eph
        /\ ~ ResourcesSet(c) => y.cpu = t.cpu /\ y.mem = t.mem /\ y.eph = t.eph
    BY <1>1, <1>6, MergedFields
  <2>4. ~ ResourcesSet(t)
    BY <1>6
  <2> HIDE DEF x, y, own
  <2>5. effectiveResourceRequests(x) = effectiveResourceRequests(d)
    BY <2>2, SameRequests
  <2>6. effectiveResourceRequests(y) = effectiveResourceRequests(c)
    <3>1. CASE ResourcesSet(c)
      BY <2>3, <3>1, SameRequests
    <3>2. CASE ~ ResourcesSet(c)
      <4>1. ~ ResourcesSet(y)
        BY <2>3, <2>4, <3>2 DEF ResourcesSet
      <4> QED BY <2>3, <3>2, <4>1 DEF effectiveResourceRequests
    <3> QED BY <3>1, <3>2
  <2> QED BY <1>3, <1>4, <2>5, <2>6 DEF SameTaskReading, x, y, u
<1> QED BY <1>5, <1>6

LEMMA TaskReadsAlike ==
    ASSUME NEW s, SpecOK(s), ShapeOK(s), SourceOK(s), NEW n \in DOMAIN s.tasks
    PROVE  SameTaskReading(MergedTask(FillSpecWithDefaults(s), n), MergedTask(s, n))
<1> DEFINE f == FillSpecWithDefaults(s)
           t == s.tasks[n]
           u == resolveTaskPreset(applyTaskDefaults(t))
           waits == t.from # Unset /\ t.preset = Unset /\ ~ ResourcesSet(t)
<1>1. /\ DOMAIN f.components = DOMAIN s.components
      /\ \A m \in DOMAIN s.components : f.components[m] = Filled(s.components[m])
      /\ f.tasks[n] = u
  BY FilledComponents
<1> HIDE DEF f
<1>2. TaskOK(t)
  BY DEF SourceOK
<1>3. u.from = t.from /\ u.envs = t.envs /\ u.profiles = t.profiles
  BY <1>2, TaskDefaults
<1>4. CASE t.from \in DOMAIN s.components
  <2> DEFINE c == s.components[t.from]
             d == Filled(c)
  <2>1. t.from # Unset
    BY <1>4, NamesNotEmpty
  <2>2. SameReading(d, c) /\ ResourcesSet(d)
    BY <1>4, FilledReadsAlike DEF SpecOK, ShapeOK
  <2>3. MergedTask(f, n) = MergeFrom(u, d) /\ MergedTask(s, n) = MergeFrom(t, c)
    BY <1>1, <1>3, <1>4 DEF MergedTask
  <2> HIDE DEF c, d, t
  <2> QED BY <1>2, <2>1, <2>2, <2>3, MergedReadsAlike DEF f
<1>5. CASE t.from \notin DOMAIN s.components
  <2>1. MergedTask(f, n) = u /\ MergedTask(s, n) = t
    BY <1>1, <1>3, <1>5 DEF MergedTask
  <2>2. SameTaskReading(u, t)
    <3>1. CASE waits
      <4>1. u.cpu = t.cpu /\ u.mem = t.mem /\ u.eph = t.eph /\ u.preset = t.preset
        BY <1>2, <3>1, TaskDefaults
      <4> HIDE DEF u, t
      <4> QED BY <1>3, <4>1, SameRequests DEF SameTaskReading
    <3>2. CASE ~ waits
      <4>1. ResourcesSet(u) /\ u.cpu = effectiveResourceRequests(t).cpu
            /\ u.mem = effectiveResourceRequests(t).mem /\ u.eph = effectiveResourceRequests(t).eph
        BY <1>2, <3>2, TaskDefaults
      <4> HIDE DEF u, t
      <4> QED BY <1>3, <4>1, RequestsAsGiven DEF SameTaskReading
    <3> QED BY <3>1, <3>2
  <2> QED BY <2>1, <2>2 DEF f
<1> QED BY <1>4, <1>5

\* The verdict on a spec is the one on the same spec with its defaults.
LEMMA DefaultsKeepVerdict ==
    ASSUME NEW s, SpecOK(s), ShapeOK(s), SourceOK(s), NEW plat, NEW e, NEW dynamics
    PROVE  Resolve(FillSpecWithDefaults(s), plat, e, dynamics).code = Resolve(s, plat, e, dynamics).code
<1> DEFINE f == FillSpecWithDefaults(s)
           pe == platformEnvOf(plat, e)
<1>1. /\ DOMAIN f.components = DOMAIN s.components
      /\ \A n \in DOMAIN s.components : f.components[n] = Filled(s.components[n])
      /\ DOMAIN f.tasks = DOMAIN s.tasks
  BY FilledComponents
<1>2. \A n \in DOMAIN s.components : SameReading(f.components[n], s.components[n])
  BY <1>1, FilledReadsAlike DEF SpecOK, ShapeOK
<1>3. \A n \in DOMAIN s.tasks : SameTaskReading(MergedTask(f, n), MergedTask(s, n))
  BY TaskReadsAlike
<1> HIDE DEF f
<1>4. resolveComponents(f, plat, e, dynamics) = resolveComponents(s, plat, e, dynamics)
  <2>1. {n \in DOMAIN f.components : activeIn(e, f.components[n].envs)}
          = {n \in DOMAIN s.components : activeIn(e, s.components[n].envs)}
    BY <1>1, <1>2 DEF SameReading
  <2>2. ASSUME NEW n \in DOMAIN s.components
        PROVE  resolveComponent(n, f.components[n], plat, pe, e, n \in dynamics)
                 = resolveComponent(n, s.components[n], plat, pe, e, n \in dynamics)
    <3> DEFINE dynamic == n \in dynamics
    <3> HIDE DEF dynamic, pe
    <3>1. resolveComponent(n, f.components[n], plat, pe, e, dynamic)
            = resolveComponent(n, s.components[n], plat, pe, e, dynamic)
      BY <1>2, SameComponentVerdict
    <3> QED BY <3>1 DEF dynamic
  <2> QED BY <2>1, <2>2 DEF resolveComponents
<1> DEFINE rts(x) == resolveTasks(x, plat, e)
           codes(x) == [n \in DOMAIN rts(x) |-> rts(x)[n].code]
<1>5. codes(f) = codes(s)
  <2>1. DOMAIN rts(f) = {n \in DOMAIN s.tasks : activeIn(e, MergedTask(f, n).envs)}
        /\ DOMAIN rts(s) = {n \in DOMAIN s.tasks : activeIn(e, MergedTask(s, n).envs)}
    BY <1>1 DEF resolveTasks
  <2>2. DOMAIN rts(f) = DOMAIN rts(s)
    <3>1. \A n \in DOMAIN s.tasks : MergedTask(f, n).envs = MergedTask(s, n).envs
      BY <1>3 DEF SameTaskReading
    <3> HIDE DEF rts
    <3> QED BY <2>1, <3>1
  <2>3. \A n \in DOMAIN rts(s) : rts(f)[n] = resolveTask(MergedTask(f, n), plat, pe)
                                 /\ rts(s)[n] = resolveTask(MergedTask(s, n), plat, pe)
    BY <2>2 DEF resolveTasks
  <2> HIDE DEF rts, pe
  <2>4. \A n \in DOMAIN rts(s) : rts(f)[n].code = rts(s)[n].code
    BY <1>3, <2>1, <2>3, SameTaskVerdict
  <2> QED BY <2>2, <2>4
<1> DEFINE rcs(x) == resolveComponents(x, plat, e, dynamics)
           env == IF plat # Nil /\ ~ Matched(plat, e) THEN "PLATFORM_ENV_NOT_FOUND" ELSE NoCode
           all(x) == firstCode(env, firstCode(firstError([n \in DOMAIN rcs(x) |-> componentCode(rcs(x), n)]),
                                              firstError(codes(x))))
<1>6. \A x : Resolve(x, plat, e, dynamics).code = all(x)
  BY DEF Resolve, ResolvedSpec, resolveErrors
<1>7. all(f) = all(s)
  <2> HIDE DEF codes, env
  <2> QED BY <1>4, <1>5
<1> HIDE DEF all
<1> QED BY <1>6, <1>7 DEF f

-----------------------------------------------------------------------------
(* Without variables Load completes the spec that ParseManifest gives.     *)

LEMMA ExposeFields == DOMAIN BlankExpose = {"off", "domain", "sub", "apex"}
BY DEF BlankExpose

LEMMA NothingSubstituted ==
    ASSUME NEW x, HasFields(x, BlankExpose), Var \notin {x.sub, x.domain}, NEW value
    PROVE  substituteExpose(x, value) = x
<1>1. substituted(x.sub, value) = x.sub /\ substituted(x.domain, value) = x.domain
  BY DEF substituted
<1> DEFINE y == [x EXCEPT !.sub = x.sub, !.domain = x.domain]
<1>2. substituteExpose(x, value) = y
  BY <1>1 DEF substituteExpose
<1>3. x = [f \in DOMAIN x |-> x[f]]
  BY DEF HasFields
<1>4. y = [f \in DOMAIN x |-> x[f]]
  OBVIOUS
<1> HIDE DEF y
<1> QED BY <1>2, <1>3, <1>4

\* `expose: false` dropped.
Normal(c) == IF c.expose # Nil /\ c.expose.off THEN [c EXCEPT !.expose = Nil] ELSE c

LEMMA NormalComponents ==
    ASSUME NEW s, SpecOK(s)
    PROVE  LET t == normalizeComponents(s)
           IN  /\ t = [s EXCEPT !.components = [n \in DOMAIN s.components |-> Normal(s.components[n])]]
               /\ DOMAIN t = DOMAIN s /\ t.tasks = s.tasks /\ t.envs = s.envs
               /\ t.components = [n \in DOMAIN s.components |-> Normal(s.components[n])]
<1>1. DOMAIN s = {"components", "tasks", "envs"}
  BY DEF SpecOK
<1> QED BY <1>1 DEF normalizeComponents, Normal

LEMMA NormalSubstituted ==
    ASSUME NEW c, ComponentOK(c), HasFields(c, BlankComponent),
           c.expose = Nil \/ HasFields(c.expose, BlankExpose), NEW value,
           LET x == Normal(c).expose IN x = Nil \/ Var \notin {x.sub, x.domain}
    PROVE  Normal(substituteComponent(c, value)) = Normal(c)
<1> DEFINE x == c.expose
           y == substituteExpose(x, value)
           d == [c EXCEPT !.expose = y]
<1>0. DOMAIN c = DOMAIN BlankComponent /\ "expose" \in DOMAIN c
  BY ComponentFields DEF ComponentOK
<1>1. CASE x = Nil
  BY <1>1 DEF substituteComponent
<1>2. CASE x # Nil
  <2>1. substituteComponent(c, value) = d
    BY <1>2 DEF substituteComponent
  <2>2. HasFields(x, BlankExpose)
    BY <1>2
  <2>3. y.off = x.off
    <3>1. "off" \in DOMAIN x
      <4> HIDE DEF x
      <4> QED BY <2>2, ExposeFields DEF HasFields
    <3> HIDE DEF x
    <3> QED BY <3>1 DEF substituteExpose
  <2>4. CASE x.off
    <3>1. Normal(c) = [c EXCEPT !.expose = Nil]
      BY <1>2, <2>4 DEF Normal
    <3> HIDE DEF x, y
    <3>2. d.expose = y
      BY <1>0
    <3>3. [d EXCEPT !.expose = Nil] = [c EXCEPT !.expose = Nil]
      BY <1>0
    <3>4. y = Nil => d = [c EXCEPT !.expose = Nil]
      OBVIOUS
    <3>5. Normal(d) = [c EXCEPT !.expose = Nil]
      <4> HIDE DEF d
      <4> QED BY <2>3, <2>4, <3>2, <3>3, <3>4 DEF Normal
    <3> QED BY <2>1, <3>1, <3>5
  <2>5. CASE ~ x.off
    <3>1. Normal(c) = c
      BY <2>5 DEF Normal
    <3>2. y = x
      <4>1. Var \notin {x.sub, x.domain}
        BY <1>2, <3>1
      <4> HIDE DEF x
      <4> QED BY <2>2, <4>1, NothingSubstituted
    <3>3. d = c
      <4>1. c = [f \in DOMAIN c |-> c[f]]
        BY DEF HasFields
      <4>2. d = [f \in DOMAIN c |-> c[f]]
        BY <3>2
      <4> HIDE DEF d
      <4> QED BY <4>1, <4>2
    <3> QED BY <2>1, <3>3
  <2> QED BY <2>4, <2>5
<1> QED BY <1>1, <1>2
LEMMA NormalFields ==
    ASSUME NEW c, ComponentOK(c), HasFields(c, BlankComponent)
    PROVE  HasFields(Normal(c), BlankComponent)
BY ComponentFields DEF ComponentOK, Normal, HasFields

LEMMA ParsedOK ==
    ASSUME NEW s, SpecOK(s), ShapeOK(s), SourceOK(s)
    PROVE  LET t == ParseManifest(s) IN SpecOK(t) /\ ShapeOK(t) /\ SourceOK(t)
<1> DEFINE t == ParseManifest(s)
<1>1. SpecOK(t) /\ ShapeOK(t)
  BY NormalizeOK, NormalizeShape DEF ParseManifest
<1>2. t.tasks = s.tasks /\ t.components = [n \in DOMAIN s.components |-> Normal(s.components[n])]
  BY NormalComponents DEF ParseManifest
<1> HIDE DEF t
<1>3. ASSUME NEW n \in DOMAIN s.components
      PROVE  LET c == Normal(s.components[n])
             IN  HasFields(c, BlankComponent) /\ (c.expose = Nil \/ HasFields(c.expose, BlankExpose))
  <2> DEFINE c == s.components[n]
  <2>1. ComponentOK(c) /\ HasFields(c, BlankComponent)
        /\ (c.expose = Nil \/ HasFields(c.expose, BlankExpose))
    BY DEF SpecOK, SourceOK
  <2>2. Normal(c).expose \in {Nil, c.expose}
    BY <2>1, ComponentFields DEF ComponentOK, Normal
  <2> HIDE DEF c
  <2> QED BY <2>1, <2>2, NormalFields DEF c
<1>4. SourceOK(t)
  BY <1>2, <1>3 DEF SourceOK
<1> QED BY <1>1, <1>4 DEF t

LEMMA LoadsAsWritten ==
    ASSUME NEW s, SpecOK(s), ShapeOK(s), SourceOK(s), NoVariables(ParseManifest(s)),
           NEW e, NEW plat, NEW files, NEW os, Load(s, e, plat, files, os) # Nil
    PROVE  Load(s, e, plat, files, os) = FillSpecWithDefaults(ParseManifest(s))
<1> DEFINE name == ResolveEnvironment(s, plat, e)
           entry == IF name \in DOMAIN s.envs THEN s.envs[name] ELSE NoEntry
           env == resolveEnvFile(entry, name, files)
           fromFile == IF env \in DOMAIN files THEN files[env] ELSE Nil
           t == SubstituteVariables(s, entry, fromFile, os)
           final == normalizeComponents(t)
<1>1. t # Nil /\ Load(s, e, plat, files, os) = FillSpecWithDefaults(final)
  BY DEF Load
<1> HIDE DEF entry, fromFile
<1>2. SpecOK(t)
  BY <1>1, SubstituteOK
<1> DEFINE value == IF os # Nil THEN os ELSE IF fromFile # Nil THEN fromFile ELSE entry.var
           new(c) == substituteComponent(c, value)
           uses == \E n \in DOMAIN s.components :
                       LET x == s.components[n].expose IN x # Nil /\ Var \in {x.sub, x.domain}
           done == [s EXCEPT !.components = [n \in DOMAIN s.components |-> new(s.components[n])]]
<1>3. t = IF uses /\ value = Nil THEN Nil ELSE done
  BY DEF SubstituteVariables
<1>4. t = done
  <2> HIDE DEF uses, done, t
  <2> QED BY <1>1, <1>3
<1>5. DOMAIN s = {"components", "tasks", "envs"}
      /\ \A n \in DOMAIN s.components : ComponentOK(s.components[n])
  BY DEF SpecOK
<1> HIDE DEF value, new, t
<1>6. t.components = [n \in DOMAIN s.components |-> new(s.components[n])]
  BY <1>4, <1>5
<1> DEFINE a == [n \in DOMAIN t.components |-> Normal(t.components[n])]
           b == [n \in DOMAIN s.components |-> Normal(s.components[n])]
<1>7. final = [t EXCEPT !.components = a]
      /\ ParseManifest(s) = [s EXCEPT !.components = b]
      /\ ParseManifest(s).components = b
  BY <1>2, NormalComponents DEF ParseManifest
<1>8. a = b
  <2>1. ASSUME NEW n \in DOMAIN s.components
        PROVE  Normal(new(s.components[n])) = Normal(s.components[n])
    <3> DEFINE c == s.components[n]
    <3>1. ComponentOK(c) /\ HasFields(c, BlankComponent)
          /\ (c.expose = Nil \/ HasFields(c.expose, BlankExpose))
      BY DEF SpecOK, SourceOK
    <3>2. LET x == Normal(c).expose IN x = Nil \/ Var \notin {x.sub, x.domain}
      BY <1>7 DEF NoVariables
    <3> HIDE DEF c
    <3> QED BY <3>1, <3>2, NormalSubstituted DEF c, new
  <2> QED BY <1>6, <2>1
<1>9. final = ParseManifest(s)
  <2>1. [t EXCEPT !.components = b] = [s EXCEPT !.components = b]
    <3> HIDE DEF b
    <3> QED BY <1>4, <1>5
  <2> HIDE DEF a, b, final
  <2> QED BY <1>7, <1>8, <2>1
<1> QED BY <1>1, <1>9

-----------------------------------------------------------------------------
(* What the check of one file against the other rules out.                 *)

Foreseen == {"DOMAIN_GAP", "PROFILE_NOT_FOUND", "PLATFORM_ENV_NOT_FOUND"}

LEMMA NotForeseen ==
    /\ NoCode \notin Foreseen
    /\ {"PLATFORM_NOT_FOUND", "INVALID_DNS", "FQDN_COLLISION", "PROFILE_OPT_OUT_BLOCKED",
        "PROFILE_DOMAIN_NOT_ALLOWED", "PROFILE_STORAGE_CLASS_NOT_FOUND",
        "COMPONENT_STORAGE_CLASS_NOT_FOUND", "PROFILE_RESOURCE_EXCEEDED",
        "PROFILE_MONITOR_LABELS_MISSING", "LOAD", "TIMEOUT", "TASK_SKIPPED", "CLIENT",
        "PLATFORM_INVALID", "PLATFORM_MISSING"} \cap Foreseen = {}
<1>1. NoCode \notin Foreseen
  BY CodesAreSet, Zenon DEF NoCode, Foreseen
<1> QED BY <1>1 DEF Foreseen

\* Every profile that is named exists.
ProfilesKnown(names, profs) ==
    /\ names = Nil \/ names \in Seq(ToSet(names))
    /\ names \notin {Nil, <<>>} => ToSet(names) \subseteq Keys(profs)

LEMMA ProfilesFound ==
    ASSUME NEW names, NEW profs, ProfilesKnown(names, profs)
    PROVE  /\ ProfileNamesCode(names, profs) \notin Foreseen
           /\ MergeCode(ResolveProfileNames(names, profs), profs) = NoCode
<1> DEFINE S == Keys(profs)
           first == IF hasDefault(profs) THEN <<"default">> ELSE <<>>
           all == ResolveProfileNames(names, profs)
<1>1. names # Nil => names \in Seq(S)
  <2>1. <<>> \in Seq(S)
    OBVIOUS
  <2>2. ASSUME names \notin {Nil, <<>>} PROVE names \in Seq(S)
    <3>1. names \in Seq(ToSet(names)) /\ ToSet(names) \subseteq S
      BY <2>2 DEF ProfilesKnown
    <3> HIDE DEF S
    <3> QED BY <3>1
  <2> QED BY <2>1, <2>2
<1>2. ProfileNamesCode(names, profs) \notin Foreseen
  <2>1. ASSUME names \notin {Nil, <<>>}, profs = Nil PROVE FALSE
    <3>1. names \in Seq(ToSet(names)) /\ ToSet(names) = {}
      BY <2>1 DEF ProfilesKnown, Keys
    <3> QED BY <2>1, <3>1
  <2> QED BY <2>1, NotForeseen DEF ProfileNamesCode
<1>3. first \in Seq(S)
  <2>1. hasDefault(profs) => "default" \in S
    BY DEF hasDefault, Keys
  <2> HIDE DEF S
  <2> QED BY <2>1
<1>4. all = IF names = Nil THEN first ELSE NamesUpTo(first, names)[Len(names)]
  BY DEF ResolveProfileNames, NamesUpTo
<1> HIDE DEF first, S, all
<1>5. all \in Seq(S)
  BY <1>1, <1>3, <1>4, NamesKeep
<1>6. all # <<>> => \A n \in ToSet(all) : n \in DOMAIN profs
  <2>1. ToSet(all) \subseteq S
    BY <1>5 DEF ToSet
  <2>2. S \subseteq DOMAIN profs \/ profs = Nil
    BY DEF S, Keys
  <2>3. profs = Nil => all = <<>>
    <3>1. profs = Nil => S = {}
      BY DEF S, Keys
    <3> QED BY <1>5, <3>1
  <2> QED BY <2>1, <2>2, <2>3
<1>7. MergeCode(all, profs) = NoCode
  BY <1>6 DEF MergeCode
<1> QED BY <1>2, <1>7 DEF all

LEMMA FirstNotForeseen ==
    ASSUME NEW a, NEW b, a \notin Foreseen, b \notin Foreseen
    PROVE  firstCode(a, b) \notin Foreseen
BY DEF firstCode

LEMMA ProfileNotForeseen ==
    ASSUME NEW t, NEW names, NEW m, NEW pe, NEW key
    PROVE  validateMergedProfile(t, names, m, pe, key) \notin Foreseen
<1>1. \A classes : ValidateProfile(t, m, classes, key) \notin Foreseen
  BY NotForeseen DEF ValidateProfile
<1> QED BY <1>1, NotForeseen DEF validateMergedProfile

LEMMA ComponentForeseen ==
    ASSUME NEW n, NEW c, NEW plat, NEW pe, NEW e, NEW dynamic, plat # Nil,
           ProfilesKnown(c.profiles, plat.profiles),
           c.expose # Nil => domainKeyOf(c, pe) \in Keys(pe.domains)
    PROVE  resolveComponent(n, c, plat, pe, e, dynamic).code \notin Foreseen
<1> DEFINE profs == IF plat = Nil THEN Nil ELSE plat.profiles
           names == ResolveProfileNames(c.profiles, profs)
           merged == MergeProfiles(names, profs)
           key == domainKeyOf(c, pe)
           class == storageClassKey(c, merged)
           host == IF c.expose = Nil THEN <<>> ELSE hostOf(n, c, pe.domains[key])
           k1 == IF c.profiles # Nil /\ plat = Nil THEN "PLATFORM_NOT_FOUND" ELSE NoCode
           k2 == ProfileNamesCode(c.profiles, profs)
           k3 == MergeCode(names, profs)
           k4 == IF c.expose = Nil THEN NoCode ELSE exposeCode(n, c, pe, dynamic)
           k5 == validateMergedProfile(c, names, merged, pe, key)
           k6 == applyResolvedStorageClass(c, merged, pe)
           tls == tlsOf(c, pe, key)
           class2 == IF class = Unset THEN Unset ELSE pe.classes[class]
           warned == staticWarning(c, pe, e, dynamic)
           code == firstCode(k1, firstCode(k2, firstCode(k3, firstCode(k4, firstCode(k5, k6)))))
           rc == resolveComponent(n, c, plat, pe, e, dynamic)
<1>1. rc = IF code # NoCode THEN [code |-> code]
           ELSE [code |-> NoCode, profiles |-> names, merged |-> merged, key |-> key,
                 host |-> host, tls |-> tls, class |-> class2, warned |-> warned]
  BY DEF resolveComponent
<1>2. k1 \notin Foreseen
  BY NotForeseen
<1>3. k2 \notin Foreseen /\ k3 \notin Foreseen
  BY ProfilesFound, NotForeseen
<1>4. k4 \notin Foreseen
  <2>1. c.expose # Nil => exposeCode(n, c, pe, dynamic) \notin Foreseen
    BY NotForeseen DEF exposeCode
  <2> QED BY <2>1, NotForeseen
<1>5. k5 \notin Foreseen
  BY ProfileNotForeseen
<1>6. k6 \notin Foreseen
  BY NotForeseen DEF applyResolvedStorageClass
<1> HIDE DEF k1, k2, k3, k4, k5, k6, names, merged, key, host, tls, class2, warned, rc
<1>7. code \notin Foreseen
  BY <1>2, <1>3, <1>4, <1>5, <1>6, FirstNotForeseen
<1> HIDE DEF code
<1>8. rc.code = code
  BY <1>1
<1> QED BY <1>7, <1>8 DEF rc

LEMMA TaskForeseen ==
    ASSUME NEW t, NEW plat, NEW pe, plat # Nil, ProfilesKnown(t.profiles, plat.profiles)
    PROVE  resolveTask(t, plat, pe).code \notin Foreseen
<1> DEFINE profs == IF plat = Nil THEN Nil ELSE plat.profiles
           names == ResolveProfileNames(t.profiles, profs)
           merged == MergeProfiles(names, profs)
           k1 == IF t.profiles \notin {Nil, <<>>} /\ plat = Nil THEN "PLATFORM_NOT_FOUND" ELSE NoCode
           k2 == ProfileNamesCode(t.profiles, profs)
           k3 == MergeCode(names, profs)
           k4 == validateMergedProfile(requestsOnly(t), names, merged, pe, Unset)
           code == firstCode(k1, firstCode(k2, firstCode(k3, k4)))
           rt == resolveTask(t, plat, pe)
<1>1. rt = IF code # NoCode THEN [code |-> code]
           ELSE [code |-> NoCode, task |-> t, merged |-> merged]
  BY DEF resolveTask
<1>2. k1 \notin Foreseen
  BY NotForeseen
<1>3. k2 \notin Foreseen /\ k3 \notin Foreseen
  BY ProfilesFound, NotForeseen
<1>4. k4 \notin Foreseen
  BY ProfileNotForeseen
<1> HIDE DEF k1, k2, k3, k4, merged, rt
<1>5. code \notin Foreseen
  BY <1>2, <1>3, <1>4, FirstNotForeseen
<1> HIDE DEF code
<1>6. rt.code = code
  BY <1>1
<1> QED BY <1>5, <1>6 DEF rt

LEMMA FirstErrorForeseen ==
    ASSUME NEW codes, DOMAIN codes \subseteq ToSet(SortedNames),
           \A n \in DOMAIN codes : codes[n] \notin Foreseen
    PROVE  firstError(codes) \notin Foreseen
<1> DEFINE failed == {n \in DOMAIN codes : codes[n] # NoCode}
           first == CHOOSE n \in failed : \A m \in failed : Rank(n) <= Rank(m)
<1>1. firstError(codes) = IF failed = {} THEN NoCode ELSE codes[first]
  BY DEF firstError
<1>2. failed \subseteq DOMAIN codes /\ failed \subseteq ToSet(SortedNames)
  OBVIOUS
<1> HIDE DEF failed
<1>3. failed # {} => first \in failed
  BY <1>2, LeastRank
<1> QED BY <1>1, <1>2, <1>3, NotForeseen

\* Nothing that the check reports is wrong with the two files.
PassesCheck(s, plat) ==
    LET r == CrossCheckPlatformReferences(s, plat) IN ~ r.problems /\ ~ r.warnings

LEMMA CheckMeans ==
    ASSUME NEW s, NEW plat, PassesCheck(s, plat)
    PROVE  /\ \A n \in DOMAIN s.components : ~ unknownProfiles(s.components[n].profiles, plat)
           /\ \A n \in DOMAIN s.tasks : ~ unknownProfiles(s.tasks[n].profiles, plat)
           /\ \A n \in DOMAIN s.components :
                 s.components[n].expose # Nil /\ s.components[n].expose.domain # Var
                    => domainGaps(s.components[n], plat) = {}
<1> DEFINE comps == {s.components[n] : n \in DOMAIN s.components}
           checked == {c \in comps : c.expose # Nil /\ c.expose.domain # Var}
           nowhere(c) == /\ c.expose.domain # Unset
                         /\ \A k \in DOMAIN plat.envs : c.expose.domain \notin Keys(plat.envs[k].domains)
           problems == \/ \E c \in comps : unknownProfiles(c.profiles, plat)
                       \/ \E n \in DOMAIN s.tasks : unknownProfiles(s.tasks[n].profiles, plat)
                       \/ \E c \in checked : nowhere(c)
           warnings == \/ unknownEnvironmentNames(s, plat)
                       \/ \E c \in checked : domainGaps(c, plat) # {}
           r == CrossCheckPlatformReferences(s, plat)
<1>1. r = [problems |-> problems, warnings |-> warnings]
  BY DEF CrossCheckPlatformReferences
<1>2. ~ problems /\ ~ warnings
  <2> HIDE DEF problems, warnings
  <2> QED BY <1>1 DEF PassesCheck
<1>3. ~ \E c \in comps : unknownProfiles(c.profiles, plat)
  BY <1>2
<1>4. ~ \E n \in DOMAIN s.tasks : unknownProfiles(s.tasks[n].profiles, plat)
  BY <1>2
<1>5. ~ \E c \in checked : domainGaps(c, plat) # {}
  BY <1>2
<1> QED BY <1>3, <1>4, <1>5

LEMMA CheckForeseesCodes ==
    ASSUME NEW s, SpecOK(s), ShapeOK(s), SourceOK(s), NoVariables(s), NEW plat, plat # Nil,
           PassesCheck(s, plat), NEW e, e \in DOMAIN plat.envs, NEW dynamics
    PROVE  Resolve(s, plat, e, dynamics).code \notin Foreseen
<1> DEFINE rcs == resolveComponents(s, plat, e, dynamics)
           rts == resolveTasks(s, plat, e)
           codes == [n \in DOMAIN rcs |-> componentCode(rcs, n)]
           more == [n \in DOMAIN rts |-> rts[n].code]
           env == IF plat # Nil /\ ~ Matched(plat, e) THEN "PLATFORM_ENV_NOT_FOUND" ELSE NoCode
           pe == platformEnvOf(plat, e)
<1>1. Resolve(s, plat, e, dynamics).code = firstCode(env, firstCode(firstError(codes), firstError(more)))
  BY DEF Resolve, ResolvedSpec, resolveErrors
<1>2. Matched(plat, e) /\ pe = plat.envs[e]
  BY DEF Matched, matchEnvKey, MatchedKey, platformEnvOf
<1>3. env \notin Foreseen
  BY <1>2, NotForeseen
<1>4. /\ DOMAIN s.components \subseteq ToSet(SortedNames) /\ DOMAIN s.tasks \subseteq ToSet(SortedNames)
      /\ \A n \in DOMAIN s.components : ComponentOK(s.components[n])
      /\ \A n \in DOMAIN s.tasks : TaskOK(s.tasks[n])
  BY DEF SpecOK, ShapeOK, SourceOK
<1>5. \A n \in DOMAIN s.components : ProfilesKnown(s.components[n].profiles, plat.profiles)
  BY <1>4, CheckMeans DEF ComponentOK, ProfilesKnown, unknownProfiles
<1>6. \A n \in DOMAIN s.tasks : ProfilesKnown(s.tasks[n].profiles, plat.profiles)
  BY <1>4, CheckMeans DEF TaskOK, ProfilesKnown, unknownProfiles
<1>7. \A n \in DOMAIN s.tasks : ProfilesKnown(MergedTask(s, n).profiles, plat.profiles)
  <2> SUFFICES ASSUME NEW n \in DOMAIN s.tasks
               PROVE  ProfilesKnown(MergedTask(s, n).profiles, plat.profiles)
    OBVIOUS
  <2> DEFINE t == s.tasks[n]
             parent == s.components[t.from]
  <2>1. CASE t.from \in DOMAIN s.components
    <3>1. {"envs", "profiles", "preset", "cpu", "mem", "eph"} \subseteq DOMAIN t
      BY <1>4 DEF TaskOK
    <3>2. MergedTask(s, n).profiles \in {parent.profiles, t.profiles}
      <4>1. MergedTask(s, n) = MergeFrom(t, parent)
        BY <2>1 DEF MergedTask
      <4>2. MergeFrom(t, parent).profiles
              = IF t.profiles \in {Nil, <<>>} THEN parent.profiles ELSE t.profiles
        <5> HIDE DEF t, parent
        <5> QED BY <3>1, MergedFields
      <4> QED BY <4>1, <4>2
    <3> QED BY <1>5, <1>6, <2>1, <3>2
  <2>2. CASE t.from \notin DOMAIN s.components
    BY <1>6, <2>2 DEF MergedTask
  <2> QED BY <2>1, <2>2
<1>8. ASSUME NEW n \in DOMAIN s.components, activeIn(e, s.components[n].envs),
             s.components[n].expose # Nil
      PROVE  domainKeyOf(s.components[n], pe) \in Keys(pe.domains)
  <2> DEFINE c == s.components[n]
  <2>1. c.expose.domain # Var
    BY <1>8 DEF NoVariables
  <2>2. e \notin domainGaps(c, plat)
    BY <1>8, <2>1, CheckMeans
  <2> QED BY <1>2, <1>8, <2>2 DEF domainGaps
<1>9. DOMAIN rcs \subseteq ToSet(SortedNames) /\ \A n \in DOMAIN rcs : rcs[n].code \notin Foreseen
  <2>1. \A n \in DOMAIN rcs :
           rcs[n] = resolveComponent(n, s.components[n], plat, pe, e, n \in dynamics)
    BY DEF resolveComponents
  <2>2. \A n \in DOMAIN rcs : n \in DOMAIN s.components /\ activeIn(e, s.components[n].envs)
    BY DEF resolveComponents
  <2> HIDE DEF rcs, pe
  <2>3. ASSUME NEW n \in DOMAIN rcs PROVE rcs[n].code \notin Foreseen
    <3> DEFINE dynamic == n \in dynamics
               c == s.components[n]
    <3>1. rcs[n] = resolveComponent(n, c, plat, pe, e, dynamic)
      BY <2>1
    <3>2. ProfilesKnown(c.profiles, plat.profiles)
          /\ (c.expose # Nil => domainKeyOf(c, pe) \in Keys(pe.domains))
      BY <1>5, <1>8, <2>2
    <3> HIDE DEF dynamic, c
    <3> QED BY <3>1, <3>2, ComponentForeseen
  <2> QED BY <1>4, <2>2, <2>3
<1>10. DOMAIN rts \subseteq ToSet(SortedNames) /\ \A n \in DOMAIN rts : rts[n].code \notin Foreseen
  <2>1. \A n \in DOMAIN rts : rts[n] = resolveTask(MergedTask(s, n), plat, pe)
    BY DEF resolveTasks
  <2>2. DOMAIN rts \subseteq DOMAIN s.tasks
    BY DEF resolveTasks
  <2> HIDE DEF rts, pe
  <2> QED BY <1>4, <1>7, <2>1, <2>2, TaskForeseen
<1> HIDE DEF rcs, rts
<1>11. \A n \in DOMAIN rcs : componentCode(rcs, n) \notin Foreseen
  BY <1>9, NotForeseen DEF componentCode
<1>12. firstError(codes) \notin Foreseen
  BY <1>9, <1>11, FirstErrorForeseen
<1>13. firstError(more) \notin Foreseen
  BY <1>10, FirstErrorForeseen
<1> HIDE DEF codes, more, env
<1> QED BY <1>1, <1>3, <1>12, <1>13, FirstNotForeseen

-----------------------------------------------------------------------------
(* What init saves has the fields of its types as well.                    *)

ExposeOK(c) == c.expose = Nil \/ HasFields(c.expose, BlankExpose)

LEMMA EssentialsExpose ==
    ASSUME NEW a, NEW names
    PROVE  ExposeOK(collectComponentEssentials(a, names))
<1> DEFINE c == applyComponentEssentials(a, names)
           d == collectComponentCustomResources(c, a)
<1>1. DOMAIN c = DOMAIN BlankComponent /\ c.expose \in {Nil, BlankExpose}
  BY ComponentFields DEF applyComponentEssentials
<1> HIDE DEF c
<1>2. d.expose = c.expose
  BY <1>1, ComponentFields DEF collectComponentCustomResources
<1>3. HasFields(BlankExpose, BlankExpose)
  BY DEF BlankExpose, HasFields
<1> HIDE DEF d
<1>4. ExposeOK(d)
  BY <1>1, <1>2, <1>3 DEF ExposeOK
<1> QED BY <1>4 DEF c, d, collectComponentEssentials

LEMMA AdvancedExpose ==
    ASSUME NEW c, ComponentOK(c), ExposeOK(c), NEW a, NEW names
    PROVE  ExposeOK(collectComponentAdvancedDetails(c, a, names))
<1> DEFINE replicas == collectComponentReplicas(a)
           metrics == collectComponentMetricsPort(a)
           hpa == collectComponentAutoscaling(a)
           disk == collectComponentPersistence(a)
           expose == collectComponentExposeOptions(c.expose, a)
           envs == collectComponentEnvironments(a, names)
           d == [c EXCEPT !.kind = a.kind, !.disk = disk, !.replicas = replicas,
                          !.expose = expose, !.metrics = metrics, !.hpa = hpa, !.envs = envs]
           h == collectComponentHealth(d, a)
           x == collectComponentExecHealth(h, a)
<1>1. collectComponentAdvancedDetails(c, a, names) = x
  BY DEF collectComponentAdvancedDetails
<1>2. expose = Nil \/ HasFields(expose, BlankExpose)
  <2> DEFINE old == c.expose
             new == [old EXCEPT !.domain = a.domain, !.sub = a.sub]
  <2>1. expose = IF old = Nil THEN Nil ELSE new
    BY DEF collectComponentExposeOptions
  <2>2. old = Nil \/ DOMAIN old = DOMAIN BlankExpose
    BY DEF ExposeOK, HasFields
  <2> HIDE DEF old
  <2>3. new = [f \in DOMAIN old |-> new[f]]
    OBVIOUS
  <2> HIDE DEF new, expose
  <2> QED BY <2>1, <2>2, <2>3 DEF HasFields
<1>3. DOMAIN c = DOMAIN BlankComponent
  BY DEF ComponentOK
<1> HIDE DEF replicas, metrics, hpa, disk, expose, envs
<1>4. DOMAIN d = DOMAIN c /\ d.expose = expose
  BY <1>3, ComponentFields
<1> HIDE DEF d
<1>5. DOMAIN h = DOMAIN d /\ h.expose = d.expose
  BY <1>3, <1>4, ComponentFields DEF collectComponentHealth
<1> HIDE DEF h
<1>6. x.expose = h.expose
  BY <1>3, <1>4, <1>5, ComponentFields DEF collectComponentExecHealth
<1> HIDE DEF x
<1> QED BY <1>1, <1>2, <1>4, <1>5, <1>6 DEF ExposeOK

LEMMA SparseSource ==
    ASSUME NEW c, ComponentOK(c), ExposeOK(c)
    PROVE  ExposeOK(omitSchemaDefaults(c)) /\ HasFields(omitSchemaDefaults(c), BlankComponent)
<1> DEFINE role == IF c.role = "service" THEN Unset ELSE c.role
           port == IF c.port = DefaultServicePort THEN 0 ELSE c.port
           d == [c EXCEPT !.role = role, !.port = port]
<1>1. omitSchemaDefaults(c) = d
  BY DEF omitSchemaDefaults
<1>2. DOMAIN c = DOMAIN BlankComponent
  BY DEF ComponentOK
<1> HIDE DEF role, port
<1>3. d.expose = c.expose /\ d = [f \in DOMAIN c |-> d[f]]
  BY <1>2, ComponentFields
<1> HIDE DEF d
<1> QED BY <1>1, <1>2, <1>3 DEF ExposeOK, HasFields

LEMMA WizardSource ==
    ASSUME NEW answers, NEW names, \A n \in DOMAIN answers : AnswersOK(answers[n])
    PROVE  SourceOK(sparseSpec(collectComponents(answers, names)))
<1> DEFINE s == collectComponents(answers, names)
           t == sparseSpec(s)
<1>1. /\ DOMAIN s = {"components", "tasks", "envs"} /\ DOMAIN s.components = DOMAIN answers
      /\ s.tasks = <<>>
      /\ \A n \in DOMAIN answers : s.components[n] = collectComponentDetails(answers[n], names)
  BY DEF collectComponents
<1>2. ASSUME NEW n \in DOMAIN answers
      PROVE  /\ ComponentOK(collectComponentDetails(answers[n], names))
             /\ ExposeOK(collectComponentDetails(answers[n], names))
  <2> DEFINE a == answers[n]
             c == collectComponentEssentials(a, names)
  <2>1. AnswersOK(a)
    OBVIOUS
  <2> HIDE DEF a
  <2>2. ResourcesOK(a, DOMAIN ResourcePresetMappings \cup {"custom"})
    BY <2>1 DEF AnswersOK
  <2>3. ComponentOK(c) /\ ExposeOK(c)
    BY <2>2, EssentialsOK, EssentialsExpose
  <2> HIDE DEF c
  <2>4. ComponentOK(collectComponentAdvancedDetails(c, a, names))
        /\ ExposeOK(collectComponentAdvancedDetails(c, a, names))
    BY <2>3, AdvancedOK, AdvancedExpose
  <2> QED BY <2>3, <2>4 DEF collectComponentDetails, collectComponentAdvanced, a, c
<1> HIDE DEF s
<1>3. t.tasks = <<>> /\ DOMAIN t.components = DOMAIN s.components
      /\ \A n \in DOMAIN s.components : t.components[n] = omitSchemaDefaults(s.components[n])
  BY <1>1 DEF sparseSpec
<1>4. DOMAIN <<>> = {}
  OBVIOUS
<1>5. \A n \in DOMAIN t.components :
         ExposeOK(t.components[n]) /\ HasFields(t.components[n], BlankComponent)
  BY <1>1, <1>2, <1>3, SparseSource
<1> HIDE DEF t
<1>6. SourceOK(t)
  BY <1>3, <1>4, <1>5 DEF SourceOK, ExposeOK
<1> QED BY <1>6 DEF t, s

-----------------------------------------------------------------------------
(* Where a verdict comes from.                                             *)

\* The only spec that is ever written.
SavedSpec(x) == buildValidatedSpec(collectComponents(x.answers, x.names))

\* A spec that was on disk when the command loaded it. raw is what the
\* command had parsed before, now is on disk.
WasOnDisk(b, raw, now, saved) ==
    /\ SpecOK(b) /\ ShapeOK(b) /\ SourceOK(b)
    /\ ParseManifest(b) = raw \/ (b = now /\ now = saved)

VerdictOf(r, s) == Resolve(s, r.used, r.env, Dynamics(r.cmd, r.raw)).code

LoadedBy(r, b, x) == Load(b, r.env, r.used, x.files, x.os)

\* The commands whose code is that of a resolution.
Judged(r) ==
    /\ r.cmd \in Preparers /\ r.pc \notin {"platform", "prepare"} /\ r.used # Nil
    /\ \/ r.code \in Foreseen
       \/ r.cmd \in {"plan", "planOffline"} /\ r.raw # Nil /\ r.code \notin {"LOAD", "CLIENT"}

VerdictOK(r, now, x) ==
    /\ "warned" \in DOMAIN r
    /\ r.pc = "platform" => r.raw = Nil
    /\ r.pc = "prepare" => r.raw = ParseManifest(now) \/ now = SavedSpec(x)
    /\ r.pc \in {"save", "see", "write"} => r.cmd \in Writers
    /\ r.cmd \in {"validate", "check"} => r.pc \in {"platform", "prepare", "done", "failed"}
    /\ r.cmd = "validate" /\ r.pc = "prepare" => r.used # Nil
    /\ r.cmd = "validate" /\ r.pc \in {"done", "failed"} /\ r.raw # Nil =>
          r.used # Nil /\ r.code = VerdictOf(r, r.raw)
    /\ r.cmd = "check" /\ r.pc = "done" /\ ~ r.warned /\ r.used # Nil => PassesCheck(r.raw, r.used)
    /\ Judged(r) => \E b : /\ WasOnDisk(b, r.raw, now, SavedSpec(x))
                           /\ LoadedBy(r, b, x) # Nil
                           /\ r.code = VerdictOf(r, LoadedBy(r, b, x))

VerdictInv ==
    /\ CommandInv
    /\ SourceOK(spec)
    /\ \A p \in DOMAIN proc : VerdictOK(proc[p], spec, input)

KeepsVerdict(q) == \E s : proc' = [proc EXCEPT ![q] = s] /\ VerdictOK(s, spec', input)

\* The spec is left alone or replaced by the one that init saves.
LEMMA SpecMoves ==
    ASSUME NEW r, NEW now, NEW x, NEW next, VerdictOK(r, now, x), next = now \/ next = SavedSpec(x)
    PROVE  VerdictOK(r, next, x)
<1>1. \A b : WasOnDisk(b, r.raw, now, SavedSpec(x)) => WasOnDisk(b, r.raw, next, SavedSpec(x))
  BY DEF WasOnDisk
<1> QED BY <1>1 DEF VerdictOK

VerdictFields == {"cmd", "env", "pc", "raw", "plat", "used", "code", "warned", "clients", "ctx",
                  "loaded", "resolved", "seen"}

LEMMA AllFields ==
    ASSUME NEW r, NEW now, NEW x, VerdictOK(r, now, x), CommandOK(r), ResolutionOK(r)
    PROVE  VerdictFields \ {"ctx"} \subseteq DOMAIN r
BY DEF VerdictOK, CommandOK, ResolutionOK, VerdictFields, CommandFields, ResolutionFields

LEMMA WritersOK ==
    ASSUME NEW r, NEW now, NEW x, "warned" \in DOMAIN r, r.cmd \in Writers,
           r.pc \notin {"platform", "prepare"}
    PROVE  VerdictOK(r, now, x)
<1>1. r.cmd \notin {"validate", "check"} /\ r.cmd \notin Preparers
  BY DEF Writers, Preparers
<1> QED BY <1>1 DEF VerdictOK, Judged

\* A step after the verdict.
LEMMA OnwardOK ==
    ASSUME NEW r, NEW s, NEW now, NEW x, VerdictOK(r, now, x), "warned" \in DOMAIN s,
           s.cmd = r.cmd, s.env = r.env, s.raw = r.raw, s.used = r.used, s.code = r.code,
           r.pc \in {"target", "clients"}, s.pc \in {"clients", "done"}
    PROVE  VerdictOK(s, now, x)
<1>1. r.cmd \notin {"validate", "check"}
  BY DEF VerdictOK
<1>2. Judged(s) => Judged(r)
  BY DEF Judged
<1>3. \A b : LoadedBy(s, b, x) = LoadedBy(r, b, x)
  BY DEF LoadedBy
<1>4. \A b : VerdictOf(s, b) = VerdictOf(r, b)
  BY DEF VerdictOf
<1>5. Judged(r) => \E b : /\ WasOnDisk(b, r.raw, now, SavedSpec(x))
                          /\ LoadedBy(r, b, x) # Nil
                          /\ r.code = VerdictOf(r, LoadedBy(r, b, x))
  BY DEF VerdictOK
<1>6. Judged(s) => \E b : /\ WasOnDisk(b, s.raw, now, SavedSpec(x))
                          /\ LoadedBy(s, b, x) # Nil
                          /\ s.code = VerdictOf(s, LoadedBy(s, b, x))
  BY <1>2, <1>3, <1>4, <1>5
<1> QED BY <1>1, <1>6 DEF VerdictOK

\* A failure that is not a verdict.
LEMMA FailedOK ==
    ASSUME NEW q \in DOMAIN proc, NEW code, code \notin Foreseen, Fail(q, code), UNCHANGED spec,
           VerdictOK(proc[q], spec, input), CommandOK(proc[q]), ResolutionOK(proc[q]),
           proc[q].raw = Nil \/ code \in {"LOAD", "CLIENT"} \/ proc[q].cmd \notin {"plan", "planOffline"},
           proc[q].cmd = "validate" => proc[q].raw = Nil
    PROVE  KeepsVerdict(q)
<1> DEFINE r == proc[q]
           s == [r EXCEPT !.pc = "failed", !.code = code]
<1>1. proc' = [proc EXCEPT ![q] = s]
  BY DEF Fail
<1>2. VerdictFields \ {"ctx"} \subseteq DOMAIN r
  BY AllFields
<1>3. DOMAIN s = DOMAIN r /\ s.pc = "failed" /\ s.code = code /\ s.cmd = r.cmd /\ s.raw = r.raw
      /\ s.used = r.used /\ s.env = r.env
  BY <1>2 DEF VerdictFields
<1>4. "warned" \in DOMAIN s
  BY <1>2, <1>3 DEF VerdictFields
<1> HIDE DEF s
<1>5. ~ Judged(s)
  BY <1>3 DEF Judged
<1>6. VerdictOK(s, spec, input)
  BY <1>3, <1>4, <1>5 DEF VerdictOK
<1> QED BY <1>1, <1>6 DEF KeepsVerdict

LEMMA ReadVerdict ==
    ASSUME NEW q \in DOMAIN proc, VerdictOK(proc[q], spec, input), CommandOK(proc[q]),
           ResolutionOK(proc[q]), ReadPlatform(q)
    PROVE  KeepsVerdict(q)
<1> DEFINE r == proc[q]
           plat == Platform(q).cfg
           raw == ParseManifest(spec)
           pc == IF proc[q].cmd = "delete" THEN "target" ELSE "prepare"
           s == [r EXCEPT !.plat = plat, !.used = plat, !.raw = raw, !.pc = pc]
<1>1. r.pc = "platform" /\ UNCHANGED spec
  BY DEF ReadPlatform, At
<1>2. r.raw = Nil
  BY <1>1 DEF VerdictOK
<1>3. \/ Fail(q, "LOAD") \/ Fail(q, "PLATFORM_INVALID") \/ Fail(q, "PLATFORM_MISSING")
      \/ proc' = [proc EXCEPT ![q] = s] /\ (NeedsFile(r.cmd) => plat # Nil)
  BY DEF ReadPlatform
<1>4. CASE Fail(q, "LOAD") \/ Fail(q, "PLATFORM_INVALID") \/ Fail(q, "PLATFORM_MISSING")
  <2>1. "LOAD" \notin Foreseen /\ "PLATFORM_INVALID" \notin Foreseen /\ "PLATFORM_MISSING" \notin Foreseen
    BY NotForeseen
  <2> QED BY <1>1, <1>2, <1>4, <2>1, FailedOK
<1>5. CASE proc' = [proc EXCEPT ![q] = s] /\ (NeedsFile(r.cmd) => plat # Nil)
  <2>1. VerdictFields \ {"ctx"} \subseteq DOMAIN r
    BY AllFields
  <2>2. pc = (IF r.cmd = "delete" THEN "target" ELSE "prepare") /\ (r.cmd = "validate" => plat # Nil)
    BY <1>5 DEF NeedsFile
  <2> HIDE DEF plat, raw, pc
  <2>3. DOMAIN s = DOMAIN r /\ s.pc = pc /\ s.code = r.code /\ s.cmd = r.cmd /\ s.raw = raw
        /\ s.used = plat /\ s.env = r.env /\ "warned" \in DOMAIN s
    BY <2>1 DEF VerdictFields
  <2> HIDE DEF s
  <2>4. ~ Judged(s)
    BY <2>2, <2>3 DEF Judged, Preparers
  <2>5. r.cmd \in Readers
    BY <1>1 DEF CommandOK
  <2>6. VerdictOK(s, spec, input)
    BY <2>2, <2>3, <2>4 DEF VerdictOK, raw
  <2> QED BY <1>1, <1>5, <2>6 DEF KeepsVerdict
<1> QED BY <1>3, <1>4, <1>5

\* The code of deploy, plan and run is the one of the resolution, as far as
\* it is a verdict.
LEMMA PrepareIsVerdict ==
    ASSUME NEW q, NEW loaded, NEW resolved, proc[q].plat # Nil,
           loaded # Nil => resolved = ResolveLoaded(q, loaded),
           LET k == PrepareCode(q, loaded, resolved)
           IN  \/ k \in Foreseen \/ k = NoCode
               \/ proc[q].cmd \in {"plan", "planOffline"} /\ k # "LOAD"
    PROVE  /\ loaded # Nil
           /\ PrepareCode(q, loaded, resolved)
                = Resolve(loaded, proc[q].plat, proc[q].env, Dynamics(proc[q].cmd, proc[q].raw)).code
<1> DEFINE r == proc[q]
           k == PrepareCode(q, loaded, resolved)
           bare == r.cmd # "run" /\ r.plat = Nil /\ HasExposeComponents(loaded)
           rest == CASE r.cmd = "deploy" -> deployCode(q, loaded, resolved)
                     [] r.cmd = "run" -> resolveRunTask(q, loaded, resolved)
                     [] OTHER -> NoCode
<1>1. k = IF loaded = Nil THEN "LOAD" ELSE IF bare THEN "PLATFORM_NOT_FOUND"
          ELSE firstCode(resolved.code, rest)
  BY DEF PrepareCode
<1>2. ~ bare
  OBVIOUS
<1>3. rest \notin Foreseen /\ (r.cmd \in {"plan", "planOffline"} => rest = NoCode)
  <2>1. deployCode(q, loaded, resolved) \notin Foreseen
    BY NotForeseen DEF deployCode
  <2>2. resolveRunTask(q, loaded, resolved) \notin Foreseen
    BY NotForeseen DEF resolveRunTask
  <2> QED BY <2>1, <2>2, NotForeseen
<1> HIDE DEF bare, rest
<1>4. loaded # Nil
  <2>1. "LOAD" \notin Foreseen /\ "LOAD" # NoCode
    BY NotForeseen, CodesAreSet
  <2> HIDE DEF k
  <2> QED BY <1>1, <2>1 DEF k
<1>5. k = firstCode(resolved.code, rest)
  BY <1>1, <1>2, <1>4
<1>6. k = resolved.code
  <2> HIDE DEF k
  <2>1. k \in Foreseen \/ k = NoCode \/ r.cmd \in {"plan", "planOffline"}
    BY DEF k
  <2> QED BY <1>3, <1>5, <2>1 DEF firstCode
<1>7. resolved = Resolve(loaded, r.plat, r.env, Dynamics(r.cmd, r.raw))
  BY <1>4 DEF ResolveLoaded, dynamicsOf, Dynamics
<1> QED BY <1>4, <1>6, <1>7

LEMMA PrepareVerdict ==
    ASSUME NEW q \in DOMAIN proc, VerdictInv, Prepare(q)
    PROVE  KeepsVerdict(q)
<1> DEFINE r == proc[q]
           loaded == Load(spec, r.env, r.plat, input.files, input.os)
           resolved == IF loaded = Nil THEN NotResolved ELSE ResolveLoaded(q, loaded)
           code == PrepareCode(q, loaded, resolved)
<1>1. r.pc = "prepare" /\ r.cmd \in Preparers /\ UNCHANGED spec
  BY DEF Prepare, At
<1>2. \/ Fail(q, code) /\ code # NoCode
      \/ /\ code = NoCode
         /\ \E pc \in {"target", "done"} :
               proc' = [proc EXCEPT ![q].loaded = loaded, ![q].resolved = resolved, ![q].pc = pc]
  BY DEF Prepare
<1>3. /\ SpecOK(spec) /\ ShapeOK(spec) /\ SourceOK(spec)
      /\ VerdictOK(r, spec, input) /\ CommandOK(r) /\ ResolutionOK(r)
  BY DEF VerdictInv, CommandInv, ResolutionInv, FilesOK
<1>4. r.used = r.plat /\ r.code = NoCode
  BY <1>1, <1>3 DEF ResolutionOK, CommandOK
<1>5. VerdictFields \ {"ctx"} \subseteq DOMAIN r
  BY <1>3, AllFields
<1>6. WasOnDisk(spec, r.raw, spec, SavedSpec(input))
  BY <1>1, <1>3 DEF VerdictOK, WasOnDisk
<1>7. r.cmd \notin {"validate", "check"} /\ r.cmd \notin Writers
  BY <1>1 DEF Preparers, Writers
<1>8. ASSUME NEW s, DOMAIN s = DOMAIN r, s.cmd = r.cmd, s.env = r.env, s.raw = r.raw, s.used = r.used,
             s.pc \in {"target", "done", "failed"}, s.code = code
      PROVE  VerdictOK(s, spec, input)
  <2>1. resolved = IF loaded = Nil THEN NotResolved ELSE ResolveLoaded(q, loaded)
    OBVIOUS
  <2> HIDE DEF resolved, code
  <2>2. ASSUME Judged(s)
        PROVE  loaded # Nil /\ code = Resolve(loaded, r.plat, r.env, Dynamics(r.cmd, r.raw)).code
    <3>1. r.plat # Nil
      BY <1>4, <1>8, <2>2 DEF Judged
    <3>2. code \in Foreseen \/ code = NoCode \/ (r.cmd \in {"plan", "planOffline"} /\ code # "LOAD")
      BY <1>8, <2>2 DEF Judged
    <3> HIDE DEF loaded
    <3> QED BY <2>1, <3>1, <3>2, PrepareIsVerdict DEF code
  <2>3. LoadedBy(s, spec, input) = loaded
    BY <1>4, <1>8 DEF LoadedBy
  <2> HIDE DEF loaded
  <2>4. Judged(s) => s.code = VerdictOf(s, loaded)
    BY <1>4, <1>8, <2>2 DEF VerdictOf
  <2>5. Judged(s) => \E b : /\ WasOnDisk(b, s.raw, spec, SavedSpec(input))
                            /\ LoadedBy(s, b, input) # Nil
                            /\ s.code = VerdictOf(s, LoadedBy(s, b, input))
    BY <1>6, <1>8, <2>2, <2>3, <2>4
  <2>6. "warned" \in DOMAIN s
    BY <1>5, <1>8 DEF VerdictFields
  <2> QED BY <1>7, <1>8, <2>5, <2>6 DEF VerdictOK
<1> HIDE DEF code, loaded, resolved
<1>9. CASE Fail(q, code)
  <2> DEFINE s == [r EXCEPT !.pc = "failed", !.code = code]
  <2>1. proc' = [proc EXCEPT ![q] = s]
    BY <1>9 DEF Fail
  <2>2. DOMAIN s = DOMAIN r /\ s.cmd = r.cmd /\ s.env = r.env /\ s.raw = r.raw /\ s.used = r.used
        /\ s.pc = "failed" /\ s.code = code
    BY <1>5 DEF VerdictFields
  <2> HIDE DEF s
  <2> QED BY <1>1, <1>8, <2>1, <2>2 DEF KeepsVerdict
<1>10. CASE ~ Fail(q, code)
  <2>1. PICK pc \in {"target", "done"} :
           proc' = [proc EXCEPT ![q].loaded = loaded, ![q].resolved = resolved, ![q].pc = pc]
    BY <1>2, <1>10
  <2>2. code = NoCode
    BY <1>2, <1>10
  <2> DEFINE s == [r EXCEPT !.loaded = loaded, !.resolved = resolved, !.pc = pc]
  <2>3. proc' = [proc EXCEPT ![q] = s]
    BY <2>1
  <2>4. DOMAIN s = DOMAIN r /\ s.cmd = r.cmd /\ s.env = r.env /\ s.raw = r.raw /\ s.used = r.used
        /\ s.pc = pc /\ s.code = r.code
    BY <1>5 DEF VerdictFields
  <2> HIDE DEF s
  <2> QED BY <1>1, <1>4, <1>8, <2>1, <2>2, <2>3, <2>4 DEF KeepsVerdict
<1> QED BY <1>9, <1>10

LEMMA ReportVerdict ==
    ASSUME NEW q \in DOMAIN proc, VerdictOK(proc[q], spec, input), CommandOK(proc[q]),
           ResolutionOK(proc[q]), proc[q].pc = "prepare", proc[q].cmd \in {"validate", "resolve"},
           Report(q, AsWritten(q)), UNCHANGED spec
    PROVE  KeepsVerdict(q)
<1> DEFINE r == proc[q]
           res == AsWritten(q)
           s == [r EXCEPT !.resolved = res, !.pc = "done"]
           f == [r EXCEPT !.pc = "failed", !.code = res.code]
<1>1. (proc' = [proc EXCEPT ![q] = f]) \/ (res.code = NoCode /\ proc' = [proc EXCEPT ![q] = s])
  BY DEF Report, Fail
<1>2. r.used = r.plat /\ r.code = NoCode /\ (r.cmd = "validate" => r.used # Nil)
  BY DEF ResolutionOK, CommandOK, VerdictOK
<1>3. r.cmd = "validate" => res.code = VerdictOf(r, r.raw)
  BY <1>2 DEF AsWritten, ResolveForDisplay, VerdictOf, dynamicsOf, Dynamics
<1>4. VerdictFields \ {"ctx"} \subseteq DOMAIN r
  BY AllFields
<1> HIDE DEF res
<1>5. ASSUME NEW t, DOMAIN t = DOMAIN r, t.cmd = r.cmd, t.env = r.env, t.raw = r.raw, t.used = r.used,
             t.pc \in {"done", "failed"}, t.code = res.code
      PROVE  VerdictOK(t, spec, input)
  <2>1. t.cmd = "validate" => t.code = VerdictOf(t, t.raw)
    BY <1>3, <1>5 DEF VerdictOf
  <2>2. ~ Judged(t)
    BY <1>5 DEF Judged, Preparers
  <2>3. "warned" \in DOMAIN t /\ t.cmd # "check"
    BY <1>4, <1>5 DEF VerdictFields
  <2> QED BY <1>2, <1>5, <2>1, <2>2, <2>3 DEF VerdictOK
<1>6. DOMAIN s = DOMAIN r /\ s.cmd = r.cmd /\ s.env = r.env /\ s.raw = r.raw /\ s.used = r.used
      /\ s.pc = "done" /\ s.code = r.code
  BY <1>4 DEF VerdictFields
<1>7. DOMAIN f = DOMAIN r /\ f.cmd = r.cmd /\ f.env = r.env /\ f.raw = r.raw /\ f.used = r.used
      /\ f.pc = "failed" /\ f.code = res.code
  BY <1>4 DEF VerdictFields
<1> HIDE DEF s, f
<1>8. CASE proc' = [proc EXCEPT ![q] = f]
  BY <1>5, <1>7, <1>8 DEF KeepsVerdict
<1>9. CASE res.code = NoCode /\ proc' = [proc EXCEPT ![q] = s]
  BY <1>2, <1>5, <1>6, <1>9 DEF KeepsVerdict
<1> QED BY <1>1, <1>8, <1>9

LEMMA CheckVerdict ==
    ASSUME NEW q \in DOMAIN proc, VerdictOK(proc[q], spec, input), CommandOK(proc[q]),
           ResolutionOK(proc[q]), runManifestOnly(q)
    PROVE  KeepsVerdict(q)
<1> DEFINE r == proc[q]
           res == IF r.plat = Nil THEN [problems |-> FALSE, warnings |-> FALSE]
                  ELSE CrossCheckPlatformReferences(r.raw, r.plat)
           s == [r EXCEPT !.warned = res.warnings, !.pc = "done"]
<1>1. r.pc = "prepare" /\ r.cmd = "check" /\ UNCHANGED spec
  BY DEF runManifestOnly, At
<1>2. Fail(q, "CROSS_CHECK") \/ (~ res.problems /\ proc' = [proc EXCEPT ![q] = s])
  BY DEF runManifestOnly
<1>3. CASE Fail(q, "CROSS_CHECK")
  <2>1. "CROSS_CHECK" \notin Foreseen
    BY DEF Foreseen
  <2> QED BY <1>1, <1>3, <2>1, FailedOK
<1>4. CASE ~ res.problems /\ proc' = [proc EXCEPT ![q] = s]
  <2>1. r.used = r.plat
    BY <1>1 DEF ResolutionOK
  <2>2. VerdictFields \ {"ctx"} \subseteq DOMAIN r
    BY AllFields
  <2>3. ~ res.warnings /\ r.used # Nil => PassesCheck(r.raw, r.used)
    BY <1>4, <2>1 DEF PassesCheck
  <2> DEFINE warned == res.warnings
             u == [r EXCEPT !.warned = warned, !.pc = "done"]
  <2>4. u = s
    OBVIOUS
  <2> HIDE DEF res, warned, s
  <2>5. DOMAIN u = DOMAIN r /\ u.cmd = r.cmd /\ u.env = r.env /\ u.raw = r.raw /\ u.used = r.used
        /\ u.pc = "done" /\ u.code = r.code /\ u.warned = warned
    BY <2>2 DEF VerdictFields
  <2>6. "warned" \in DOMAIN u
    BY <2>2, <2>5 DEF VerdictFields
  <2> HIDE DEF u
  <2>7. ~ Judged(u)
    BY <1>1, <2>5 DEF Judged, Preparers
  <2>8. ~ u.warned /\ u.used # Nil => PassesCheck(u.raw, u.used)
    BY <2>3, <2>5 DEF warned
  <2>9. VerdictOK(u, spec, input)
    BY <1>1, <2>5, <2>6, <2>7, <2>8 DEF VerdictOK
  <2> QED BY <1>1, <1>4, <2>4, <2>9 DEF KeepsVerdict
<1> QED BY <1>2, <1>3, <1>4

LEMMA TargetVerdict ==
    ASSUME NEW q \in DOMAIN proc, VerdictOK(proc[q], spec, input), CommandOK(proc[q]),
           ResolutionOK(proc[q]), Target(q)
    PROVE  KeepsVerdict(q)
<1> DEFINE r == proc[q]
           plat == IF input.flag = Unset THEN Platform(q).cfg ELSE r.plat
           ctx == IF input.flag = Unset THEN PlatformEnvContext(Platform(q).cfg, r.env)
                  ELSE input.flag
           s == [r EXCEPT !.plat = plat, !.ctx = ctx, !.pc = "clients"]
<1>1. proc' = [proc EXCEPT ![q] = s] /\ r.pc = "target" /\ UNCHANGED spec
  BY DEF Target, At
<1>2. VerdictFields \ {"ctx"} \subseteq DOMAIN r
  BY AllFields
<1> HIDE DEF plat, ctx
<1>3. DOMAIN s = DOMAIN r /\ s.pc = "clients" /\ s.cmd = r.cmd /\ s.code = r.code
      /\ s.raw = r.raw /\ s.used = r.used /\ s.env = r.env
  BY <1>2 DEF VerdictFields
<1>4. "warned" \in DOMAIN s
  BY <1>2, <1>3 DEF VerdictFields
<1> HIDE DEF s
<1>5. VerdictOK(s, spec, input)
  BY <1>1, <1>3, <1>4, OnwardOK
<1> QED BY <1>1, <1>5 DEF KeepsVerdict

LEMMA BuildVerdict ==
    ASSUME NEW q \in DOMAIN proc, VerdictOK(proc[q], spec, input), CommandOK(proc[q]),
           ResolutionOK(proc[q]), BuildClient(q)
    PROVE  KeepsVerdict(q)
<1> DEFINE r == proc[q]
<1>1. r.pc = "clients" /\ UNCHANGED spec
  BY DEF BuildClient, At
<1>2. CASE Fail(q, "CLIENT")
  <2>1. "CLIENT" \notin Foreseen
    BY NotForeseen
  <2>2. r.cmd # "validate"
    BY <1>1 DEF VerdictOK
  <2> QED BY <1>1, <1>2, <2>1, <2>2, FailedOK
<1>3. CASE ~ Fail(q, "CLIENT")
  <2>1. \E c : \E pc \in {"clients", "done"} :
           proc' = [proc EXCEPT ![q].clients = Append(@, c), ![q].pc = pc]
    <3> DEFINE steps == ClientsOf(r.cmd)
               i == Len(r.clients) + 1
               memo == Memoised(q, steps[i].kind)
               fresh == ClientContext(steps[i].kind, r.ctx)
               ends == (IF i = Len(steps) THEN {"done"} ELSE {"clients"})
                       \cup (IF steps[i].stop THEN {"done"} ELSE {})
    <3>1. \E c : \E pc \in ends :
             proc' = [proc EXCEPT ![q].clients = Append(@, c), ![q].pc = pc]
      BY <1>3 DEF BuildClient
    <3>2. \A pc \in ends : pc \in {"clients", "done"}
      OBVIOUS
    <3> HIDE DEF ends
    <3> QED BY <3>1, <3>2
  <2>2. PICK c, pc : /\ pc \in {"clients", "done"}
                     /\ proc' = [proc EXCEPT ![q].clients = Append(@, c), ![q].pc = pc]
    BY <2>1
  <2> DEFINE new == Append(r.clients, c)
             s == [r EXCEPT !.clients = new, !.pc = pc]
  <2>3. proc' = [proc EXCEPT ![q] = s]
    BY <2>2
  <2>4. VerdictFields \ {"ctx"} \subseteq DOMAIN r
    BY AllFields
  <2> HIDE DEF new
  <2>5. DOMAIN s = DOMAIN r /\ s.pc = pc /\ s.cmd = r.cmd /\ s.code = r.code
        /\ s.raw = r.raw /\ s.used = r.used /\ s.env = r.env
    BY <2>4 DEF VerdictFields
  <2>6. "warned" \in DOMAIN s
    BY <2>4, <2>5 DEF VerdictFields
  <2> HIDE DEF s
  <2>7. VerdictOK(s, spec, input)
    BY <1>1, <2>2, <2>5, <2>6, OnwardOK
  <2> QED BY <1>1, <2>3, <2>7 DEF KeepsVerdict
<1> QED BY <1>2, <1>3

\* A step of init or cluster up: there is no verdict in it.
LEMMA WriterVerdict ==
    ASSUME NEW q \in DOMAIN proc, VerdictOK(proc[q], spec, input), NEW s,
           proc[q].pc \in {"save", "see", "write"}, proc' = [proc EXCEPT ![q] = s],
           DOMAIN s = DOMAIN proc[q], s.cmd = proc[q].cmd, s.pc \in {"see", "write", "done", "failed"}
    PROVE  KeepsVerdict(q)
<1>1. proc[q].cmd \in Writers /\ "warned" \in DOMAIN proc[q]
  BY DEF VerdictOK
<1>2. VerdictOK(s, spec', input)
  BY <1>1, WritersOK
<1> QED BY <1>2 DEF KeepsVerdict

LEMMA WriterFailed ==
    ASSUME NEW q \in DOMAIN proc, VerdictOK(proc[q], spec, input), CommandOK(proc[q]),
           proc[q].pc \in {"save", "see", "write"}, NEW code, Fail(q, code)
    PROVE  KeepsVerdict(q)
<1> DEFINE r == proc[q]
           s == [r EXCEPT !.pc = "failed", !.code = code]
<1>1. proc' = [proc EXCEPT ![q] = s]
  BY DEF Fail
<1>2. {"pc", "cmd"} \subseteq DOMAIN r
  BY DEF CommandOK, CommandFields
<1>3. DOMAIN s = DOMAIN r /\ s.cmd = r.cmd /\ s.pc = "failed"
  BY <1>2
<1> HIDE DEF s
<1>4. r.cmd \in Writers /\ "warned" \in DOMAIN r
  BY DEF VerdictOK
<1>5. VerdictOK(s, spec', input)
  BY <1>3, <1>4, WritersOK
<1> QED BY <1>1, <1>5 DEF KeepsVerdict

LEMMA SaveVerdict ==
    ASSUME NEW q \in DOMAIN proc, VerdictOK(proc[q], spec, input), CommandOK(proc[q]),
           FilesOK, SourceOK(spec), SaveSpec(q)
    PROVE  /\ KeepsVerdict(q)
           /\ SourceOK(spec') /\ (spec' = spec \/ spec' = SavedSpec(input))
<1> DEFINE r == proc[q]
           sparse == buildValidatedSpec(collectComponents(input.answers, input.names))
           s == [r EXCEPT !.raw = sparse, !.pc = "see"]
<1>1. \/ Fail(q, "WIZARD") /\ spec' = spec
      \/ sparse # Nil /\ spec' = sparse /\ proc' = [proc EXCEPT ![q] = s]
  BY DEF SaveSpec
<1>2. r.pc = "save"
  BY DEF SaveSpec, At
<1>3. \A n \in DOMAIN input.answers : AnswersOK(input.answers[n])
  BY InputsAssumption DEF FilesOK
<1>4. sparse # Nil => SourceOK(sparse)
  BY <1>3, WizardSource DEF buildValidatedSpec
<1>5. sparse = SavedSpec(input)
  BY DEF SavedSpec
<1>6. {"pc", "cmd", "raw"} \subseteq DOMAIN r
  BY DEF CommandOK, CommandFields
<1> HIDE DEF sparse
<1>7. DOMAIN s = DOMAIN r /\ s.pc = "see" /\ s.cmd = r.cmd
  BY <1>6
<1> HIDE DEF s
<1>8. KeepsVerdict(q)
  BY <1>1, <1>2, <1>7, WriterVerdict, WriterFailed
<1> QED BY <1>1, <1>4, <1>5, <1>8

LEMMA SeeVerdict ==
    ASSUME NEW q \in DOMAIN proc, VerdictOK(proc[q], spec, input), CommandOK(proc[q]), SeeFile(q)
    PROVE  KeepsVerdict(q)
<1> DEFINE r == proc[q]
           s == [r EXCEPT !.seen = file, !.pc = "write"]
<1>1. r.pc = "see" /\ (Fail(q, "PLATFORM_INVALID") \/ proc' = [proc EXCEPT ![q] = s])
  BY DEF SeeFile, At
<1>2. {"pc", "cmd"} \subseteq DOMAIN r
  BY DEF CommandOK, CommandFields
<1>3. DOMAIN s = DOMAIN r /\ s.pc = "write" /\ s.cmd = r.cmd
  BY <1>2
<1> HIDE DEF s
<1> QED BY <1>1, <1>3, WriterVerdict, WriterFailed

LEMMA WriteVerdict ==
    ASSUME NEW q \in DOMAIN proc, VerdictOK(proc[q], spec, input), CommandOK(proc[q]), WriteFile(q)
    PROVE  KeepsVerdict(q)
<1> DEFINE r == proc[q]
           s == [r EXCEPT !.pc = "done"]
<1>1. r.pc = "write" /\ proc' = [proc EXCEPT ![q] = s]
  BY DEF WriteFile, At
<1>2. {"pc", "cmd"} \subseteq DOMAIN r
  BY DEF CommandOK, CommandFields
<1>3. DOMAIN s = DOMAIN r /\ s.pc = "done" /\ s.cmd = r.cmd
  BY <1>2
<1> HIDE DEF s
<1>4. r.cmd \in Writers /\ "warned" \in DOMAIN r
  BY <1>1 DEF VerdictOK
<1>5. VerdictOK(s, spec', input)
  BY <1>3, <1>4, WritersOK
<1> QED BY <1>1, <1>5 DEF KeepsVerdict

LEMMA VerdictInit == Init => VerdictInv
<1> SUFFICES ASSUME Init PROVE VerdictInv
  OBVIOUS
<1>1. CommandInv
  BY CommandInit
<1>2. SourceOK(spec) /\ \A p \in DOMAIN input.cmd : input.cmd[p] \in Commands
  BY InputsAssumption DEF Init
<1>3. ASSUME NEW cmd \in Commands, NEW e, NEW now, NEW x
      PROVE  VerdictOK(NewSession(cmd, e), now, x)
  <2> DEFINE r == NewSession(cmd, e)
  <2>1. /\ "warned" \in DOMAIN r /\ r.raw = Nil /\ r.used = Nil /\ r.cmd = cmd
        /\ r.pc \in {"platform", "target", "save", "see"}
        /\ r.pc = "target" => cmd \in Lenient
        /\ cmd \in Readers => r.pc = "platform"
        /\ r.pc \in {"save", "see"} => cmd \notin Readers \cup Lenient
    BY DEF NewSession
  <2>2. cmd \in {"validate", "check"} => cmd \in Readers
    BY DEF Readers
  <2>3. r.pc \in {"save", "see"} => cmd \in Writers
    BY <2>1 DEF Commands
  <2> HIDE DEF r
  <2>4. ~ Judged(r)
    BY <2>1 DEF Judged
  <2>5. VerdictOK(r, now, x)
    BY <2>1, <2>2, <2>3, <2>4 DEF VerdictOK
  <2> QED BY <2>5 DEF r
<1> QED BY <1>1, <1>2, <1>3 DEF Init, VerdictInv

LEMMA VerdictNext ==
    ASSUME VerdictInv, [Next]_vars
    PROVE  VerdictInv'
<1>0. /\ CommandInv /\ CommandInv' /\ FilesOK /\ SourceOK(spec)
      /\ \A p \in DOMAIN proc : VerdictOK(proc[p], spec, input) /\ CommandOK(proc[p]) /\ ResolutionOK(proc[p])
  BY CommandNext DEF VerdictInv, CommandInv, ResolutionInv
<1>1. ASSUME NEW q \in DOMAIN proc, KeepsVerdict(q), SourceOK(spec'), input' = input,
             spec' = spec \/ spec' = SavedSpec(input)
      PROVE  VerdictInv'
  <2>1. PICK s : proc' = [proc EXCEPT ![q] = s] /\ VerdictOK(s, spec', input)
    BY <1>1 DEF KeepsVerdict
  <2>2. DOMAIN proc' = DOMAIN proc
        /\ \A p \in DOMAIN proc : proc'[p] = IF p = q THEN s ELSE proc[p]
    BY <2>1
  <2>3. \A p \in DOMAIN proc : VerdictOK(proc[p], spec', input)
    BY <1>0, <1>1, SpecMoves
  <2>4. \A p \in DOMAIN proc' : VerdictOK(proc'[p], spec', input')
    BY <1>1, <2>1, <2>2, <2>3
  <2> QED BY <1>0, <1>1, <2>4 DEF VerdictInv
<1>2. ASSUME NEW q \in DOMAIN proc, KeepsVerdict(q), UNCHANGED <<spec, input>>
      PROVE  VerdictInv'
  BY <1>0, <1>1, <1>2
<1>3. CASE UNCHANGED vars \/ Terminating \/ SwitchContext \/ EditFile
  <2>1. UNCHANGED <<spec, proc, input>>
    BY <1>3 DEF vars, Terminating, SwitchContext, EditFile
  <2> QED BY <1>0, <2>1 DEF VerdictInv
<1>4. ASSUME NEW q \in DOMAIN proc,
             \/ ReadPlatform(q) \/ Prepare(q)
             \/ runCrossFile(q) \/ runResolve(q) \/ runManifestOnly(q)
             \/ Target(q) \/ BuildClient(q)
             \/ SaveSpec(q) \/ SeeFile(q) \/ WriteFile(q)
      PROVE  VerdictInv'
  <2>1. VerdictOK(proc[q], spec, input) /\ CommandOK(proc[q]) /\ ResolutionOK(proc[q])
    BY <1>0
  <2>2. CASE ReadPlatform(q)
    <3>1. UNCHANGED <<spec, input>>
      BY <2>2 DEF ReadPlatform
    <3> QED BY <1>2, <2>1, <2>2, <3>1, ReadVerdict
  <2>3. CASE Prepare(q)
    <3>1. UNCHANGED <<spec, input>>
      BY <2>3 DEF Prepare
    <3> QED BY <1>2, <2>3, <3>1, PrepareVerdict
  <2>4. CASE runCrossFile(q) \/ runResolve(q)
    <3>1. /\ proc[q].pc = "prepare" /\ proc[q].cmd \in {"validate", "resolve"}
          /\ Report(q, AsWritten(q)) /\ UNCHANGED <<spec, input>>
      BY <2>4 DEF runCrossFile, runResolve, At
    <3> QED BY <1>2, <2>1, <3>1, ReportVerdict
  <2>5. CASE runManifestOnly(q)
    <3>1. UNCHANGED <<spec, input>>
      BY <2>5 DEF runManifestOnly
    <3> QED BY <1>2, <2>1, <2>5, <3>1, CheckVerdict
  <2>6. CASE Target(q)
    <3>1. UNCHANGED <<spec, input>>
      BY <2>6 DEF Target
    <3> QED BY <1>2, <2>1, <2>6, <3>1, TargetVerdict
  <2>7. CASE BuildClient(q)
    <3>1. UNCHANGED <<spec, input>>
      BY <2>7 DEF BuildClient
    <3> QED BY <1>2, <2>1, <2>7, <3>1, BuildVerdict
  <2>8. CASE SaveSpec(q)
    <3>1. input' = input
      BY <2>8 DEF SaveSpec
    <3> QED BY <1>0, <1>1, <2>1, <2>8, <3>1, SaveVerdict
  <2>9. CASE SeeFile(q)
    <3>1. UNCHANGED <<spec, input>>
      BY <2>9 DEF SeeFile
    <3> QED BY <1>2, <2>1, <2>9, <3>1, SeeVerdict
  <2>10. CASE WriteFile(q)
    <3>1. UNCHANGED <<spec, input>>
      BY <2>10 DEF WriteFile
    <3> QED BY <1>2, <2>1, <2>10, <3>1, WriteVerdict
  <2> QED BY <1>4, <2>2, <2>3, <2>4, <2>5, <2>6, <2>7, <2>8, <2>9, <2>10
<1> QED BY <1>3, <1>4 DEF Next

-----------------------------------------------------------------------------
(* The two verdicts.                                                       *)

\* What a preparer has found out is what the spec as written comes to.
LEMMA JudgedAsWritten ==
    ASSUME NEW d, VerdictOK(d, spec, input), Judged(d), d.raw = ParseManifest(spec),
           NoVariables(d.raw)
    PROVE  /\ SpecOK(d.raw) /\ ShapeOK(d.raw) /\ SourceOK(d.raw)
           /\ d.code = VerdictOf(d, d.raw)
<1>1. PICK b : /\ WasOnDisk(b, d.raw, spec, SavedSpec(input))
               /\ LoadedBy(d, b, input) # Nil
               /\ d.code = VerdictOf(d, LoadedBy(d, b, input))
  BY DEF VerdictOK
<1>2. SpecOK(b) /\ ShapeOK(b) /\ SourceOK(b) /\ ParseManifest(b) = d.raw
  BY <1>1 DEF WasOnDisk
<1>3. SpecOK(d.raw) /\ ShapeOK(d.raw) /\ SourceOK(d.raw)
  BY <1>2, ParsedOK
<1>4. LoadedBy(d, b, input) = FillSpecWithDefaults(d.raw)
  BY <1>1, <1>2, LoadsAsWritten DEF LoadedBy
<1>5. VerdictOf(d, FillSpecWithDefaults(d.raw)) = VerdictOf(d, d.raw)
  BY <1>3, DefaultsKeepVerdict DEF VerdictOf
<1> QED BY <1>1, <1>3, <1>4, <1>5

LEMMA ValidateAgrees ==
    ASSUME VerdictInv
    PROVE  ValidateAgreesWithDeploy
<1> SUFFICES ASSUME NEW v \in DOMAIN proc, NEW d \in DOMAIN proc,
                    proc[v].cmd = "validate", proc[d].cmd \in {"plan", "planOffline"},
                    Ended(v), proc[d].pc \notin {"platform", "prepare"},
                    proc[v].env = proc[d].env, proc[v].used = proc[d].used,
                    proc[v].raw = proc[d].raw, proc[v].raw # Nil, proc[v].raw = ParseManifest(spec),
                    NoVariables(proc[v].raw), proc[d].code \notin {"LOAD", "CLIENT"}
             PROVE  proc[v].code = proc[d].code
  BY DEF ValidateAgreesWithDeploy
<1> DEFINE a == proc[v]
           b == proc[d]
<1>1. VerdictOK(a, spec, input) /\ VerdictOK(b, spec, input)
  BY DEF VerdictInv
<1>2. a.used # Nil /\ a.code = VerdictOf(a, a.raw)
  BY <1>1 DEF VerdictOK, Ended
<1>3. Judged(b)
  BY <1>2 DEF Judged, Preparers
<1>4. b.code = VerdictOf(b, b.raw)
  BY <1>1, <1>3, JudgedAsWritten
<1>5. Dynamics(a.cmd, a.raw) = Dynamics(b.cmd, b.raw)
  BY DEF Dynamics
<1> QED BY <1>2, <1>4, <1>5 DEF VerdictOf

LEMMA CheckAgrees ==
    ASSUME VerdictInv
    PROVE  CheckForesees
<1> SUFFICES ASSUME NEW v \in DOMAIN proc, NEW d \in DOMAIN proc,
                    proc[v].cmd = "check", proc[v].pc = "done", ~ proc[v].warned,
                    proc[d].cmd \in Preparers,
                    proc[v].used = proc[d].used, proc[v].used # Nil,
                    proc[v].raw = proc[d].raw, proc[v].raw = ParseManifest(spec),
                    NoVariables(proc[v].raw), proc[d].env \in DOMAIN proc[v].used.envs,
                    proc[d].code \in {"DOMAIN_GAP", "PROFILE_NOT_FOUND", "PLATFORM_ENV_NOT_FOUND"}
             PROVE  FALSE
  BY DEF CheckForesees
<1> DEFINE a == proc[v]
           b == proc[d]
<1>1. VerdictOK(a, spec, input) /\ VerdictOK(b, spec, input) /\ CommandOK(b)
  BY DEF VerdictInv, CommandInv
<1>2. b.code \in Foreseen
  BY DEF Foreseen
<1>3. b.pc = "failed"
  BY <1>1, <1>2, NotForeseen DEF CommandOK
<1>4. Judged(b)
  BY <1>2, <1>3 DEF Judged
<1>5. /\ SpecOK(b.raw) /\ ShapeOK(b.raw) /\ SourceOK(b.raw)
      /\ b.code = VerdictOf(b, b.raw)
  BY <1>1, <1>4, JudgedAsWritten
<1>6. PassesCheck(b.raw, b.used)
  BY <1>1 DEF VerdictOK
<1>7. VerdictOf(b, b.raw) \notin Foreseen
  BY <1>5, <1>6, CheckForeseesCodes DEF VerdictOf
<1> QED BY <1>2, <1>5, <1>7

\* For every spec without variables that Load accepts, for every platform
\* file and however the commands interleave with edits and with init:
\* `validate <env>`, which resolves the spec as it is written, and plan,
\* which loads it again, fills in the defaults and resolves that, end with
\* the same code as long as plan gets its client; and what `validate` lets
\* pass without a warning does not stop at a missing domain, profile or
\* environment later on. (Specs that Load refuses: CheckedSpecLoads.)
THEOREM VerdictsAlwaysAgree == Spec => []VerdictsAgree
<1>1. Init => VerdictInv
  BY VerdictInit
<1>2. VerdictInv /\ [Next]_vars => VerdictInv'
  BY VerdictNext
<1>3. VerdictInv => VerdictsAgree
  BY ValidateAgrees, CheckAgrees DEF VerdictsAgree
<1> QED BY <1>1, <1>2, <1>3, PTL DEF Spec

-----------------------------------------------------------------------------
(* What the answers of the wizard make.                                    *)

\* A component of the wizard: no profiles, no storage class of its own, a
\* preset or quantities.
Made(c) ==
    /\ c.role \in {"service", "worker"}
    /\ c.role = "worker" => c.port = 0
    /\ c.profiles = Nil
    /\ c.expose = Nil \/ (~ c.expose.off /\ ~ c.expose.apex)
    /\ c.disk = Nil \/ c.disk.class = Unset
    /\ ResourcesSet(c) => c.preset = Unset

LEMMA EssentialsMade ==
    ASSUME NEW a, AnswersOK(a), NEW names
    PROVE  Made(collectComponentEssentials(a, names))
<1> DEFINE port == IF a.role = "service" THEN a.port ELSE 0
           expose == IF askExpose(a, names) /\ a.expose THEN BlankExpose ELSE Nil
           preset == IF a.preset = "custom" THEN Unset ELSE a.preset
           c == [BlankComponent EXCEPT !.role = a.role, !.port = port, !.expose = expose,
                                       !.preset = preset]
           d == [c EXCEPT !.cpu = a.cpu, !.mem = a.mem, !.eph = a.eph]
           e == IF a.preset = "custom" THEN d ELSE c
<1>1. collectComponentEssentials(a, names) = e
  BY DEF collectComponentEssentials, collectComponentCustomResources, applyComponentEssentials
<1>2. a.role \in {"service", "worker"} /\ (a.role = "worker" => port = 0)
  BY DEF AnswersOK
<1>3. expose = Nil \/ (~ expose.off /\ ~ expose.apex)
  BY DEF BlankExpose
<1>4. a.preset = "custom" => preset = Unset
  OBVIOUS
<1>5. BlankComponent.profiles = Nil /\ BlankComponent.disk = Nil
      /\ BlankComponent.cpu = Nil /\ BlankComponent.mem = Nil /\ BlankComponent.eph = Nil
  BY DEF BlankComponent
<1> HIDE DEF port, expose, preset
<1>6. /\ DOMAIN c = DOMAIN BlankComponent /\ c.role = a.role /\ c.port = port /\ c.expose = expose
      /\ c.preset = preset /\ c.profiles = Nil /\ c.disk = Nil /\ c.cpu = Nil /\ c.mem = Nil /\ c.eph = Nil
  BY <1>5, ComponentFields
<1> HIDE DEF c
<1>7. /\ d.role = c.role /\ d.port = c.port /\ d.expose = c.expose
      /\ d.preset = c.preset /\ d.profiles = c.profiles /\ d.disk = c.disk
  BY <1>6, ComponentFields
<1> HIDE DEF d
<1>8. ~ ResourcesSet(c)
  BY <1>6 DEF ResourcesSet, quantitySet
<1>9. Made(c)
  BY <1>2, <1>3, <1>6, <1>8 DEF Made
<1>10. a.preset = "custom" => Made(d)
  BY <1>2, <1>3, <1>4, <1>6, <1>7 DEF Made
<1> QED BY <1>1, <1>9, <1>10

LEMMA AdvancedMade ==
    ASSUME NEW c, ComponentOK(c), ExposeOK(c), Made(c), NEW a, NEW names
    PROVE  Made(collectComponentAdvancedDetails(c, a, names))
<1> DEFINE replicas == collectComponentReplicas(a)
           metrics == collectComponentMetricsPort(a)
           hpa == collectComponentAutoscaling(a)
           disk == collectComponentPersistence(a)
           expose == collectComponentExposeOptions(c.expose, a)
           envs == collectComponentEnvironments(a, names)
           d == [c EXCEPT !.kind = a.kind, !.disk = disk, !.replicas = replicas,
                          !.expose = expose, !.metrics = metrics, !.hpa = hpa, !.envs = envs]
           h == collectComponentHealth(d, a)
           x == collectComponentExecHealth(h, a)
<1>1. collectComponentAdvancedDetails(c, a, names) = x
  BY DEF collectComponentAdvancedDetails
<1>2. expose = Nil \/ (~ expose.off /\ ~ expose.apex)
  <2> DEFINE old == c.expose
             new == [old EXCEPT !.domain = a.domain, !.sub = a.sub]
  <2>1. expose = IF old = Nil THEN Nil ELSE new
    BY DEF collectComponentExposeOptions
  <2>2. old = Nil \/ (DOMAIN old = DOMAIN BlankExpose /\ ~ old.off /\ ~ old.apex)
    BY DEF ExposeOK, HasFields, Made
  <2> HIDE DEF old
  <2>3. old = Nil \/ (~ new.off /\ ~ new.apex)
    BY <2>2, ExposeFields
  <2> HIDE DEF new, expose
  <2> QED BY <2>1, <2>3
<1>3. DOMAIN c = DOMAIN BlankComponent
  BY DEF ComponentOK
<1>4. disk = Nil \/ disk.class = Unset
  BY DEF collectComponentPersistence
<1> HIDE DEF replicas, metrics, hpa, disk, expose, envs
<1>5. /\ DOMAIN d = DOMAIN c /\ d.expose = expose /\ d.disk = disk /\ d.role = c.role
      /\ d.port = c.port /\ d.profiles = c.profiles /\ d.preset = c.preset /\ d.cpu = c.cpu /\ d.mem = c.mem /\ d.eph = c.eph
  BY <1>3, ComponentFields
<1> HIDE DEF d
<1>6. /\ DOMAIN h = DOMAIN d /\ h.expose = d.expose /\ h.disk = d.disk /\ h.role = d.role
      /\ h.port = d.port /\ h.profiles = d.profiles /\ h.preset = d.preset /\ h.cpu = d.cpu /\ h.mem = d.mem /\ h.eph = d.eph
  BY <1>3, <1>5, ComponentFields DEF collectComponentHealth
<1> HIDE DEF h
<1>7. /\ x.expose = h.expose /\ x.disk = h.disk /\ x.role = h.role
      /\ x.port = h.port /\ x.profiles = h.profiles /\ x.preset = h.preset /\ x.cpu = h.cpu /\ x.mem = h.mem /\ x.eph = h.eph
  BY <1>3, <1>5, <1>6, ComponentFields DEF collectComponentExecHealth
<1> HIDE DEF x
<1>8. ResourcesSet(x) => x.preset = Unset
  <2>1. ResourcesSet(x) <=> ResourcesSet(c)
    BY <1>5, <1>6, <1>7 DEF ResourcesSet
  <2> QED BY <1>5, <1>6, <1>7, <2>1 DEF Made
<1>9. Made(x)
  BY <1>2, <1>4, <1>5, <1>6, <1>7, <1>8 DEF Made
<1> QED BY <1>1, <1>9

\* What is left out of the file comes back with the defaults.
LEMMA FilledSparse ==
    ASSUME NEW c, ComponentOK(c), Made(c)
    PROVE  Filled(omitSchemaDefaults(c)) = Filled(c)
<1> DEFINE role == IF c.role = "service" THEN Unset ELSE c.role
           port == IF c.port = DefaultServicePort THEN 0 ELSE c.port
           o == [c EXCEPT !.role = role, !.port = port]
           d == SchemaDefaults(c)
           x == SchemaDefaults(o)
<1>1. omitSchemaDefaults(c) = o
  BY DEF omitSchemaDefaults
<1>2. DOMAIN c = DOMAIN BlankComponent
  BY DEF ComponentOK
<1>3. orElse(role, Unset, "service") = c.role /\ orElse(c.role, Unset, "service") = c.role
  BY WordsAreSet DEF orElse, Made
<1>4. IF c.role = "service" THEN orElse(port, 0, DefaultServicePort) = orElse(c.port, 0, DefaultServicePort)
      ELSE port = c.port
  BY DEF orElse, DefaultServicePort, Made
<1> HIDE DEF role, port
<1>5. /\ DOMAIN o = DOMAIN c /\ o.role = role /\ o.port = port
      /\ \A f \in DOMAIN c \ {"role", "port"} : o[f] = c[f]
  BY <1>2, ComponentFields
<1>6. /\ o.kind = c.kind /\ o.replicas = c.replicas /\ o.hpa = c.hpa /\ o.metrics = c.metrics
  BY <1>2, <1>5, ComponentFields
<1> DEFINE kind == orElse(c.kind, Unset, "stateless")
           replicas == orElse(c.replicas, Nil, 1)
           hpa == IF c.hpa = Nil THEN Nil ELSE DefaultAutoscaling(c.hpa)
           metrics == IF c.metrics = Nil THEN Nil ELSE DefaultMetrics(c.metrics)
<1>7. /\ d = [c EXCEPT !.role = c.role, !.kind = kind, !.replicas = replicas, !.hpa = hpa, !.metrics = metrics]
      /\ x = [o EXCEPT !.role = c.role, !.kind = kind, !.replicas = replicas, !.hpa = hpa, !.metrics = metrics]
  <2> HIDE DEF o
  <2> QED BY <1>3, <1>5, <1>6 DEF SchemaDefaults
<1> HIDE DEF o, kind, replicas, hpa, metrics, d, x
<1>8. /\ DOMAIN d = DOMAIN c /\ DOMAIN x = DOMAIN c /\ d.role = c.role /\ x.role = c.role
      /\ d.port = c.port /\ x.port = port
      /\ \A f \in DOMAIN c \ {"port"} : x[f] = d[f]
  BY <1>2, <1>5, <1>7, ComponentFields
<1>9. x.shutdown = d.shutdown /\ x.metrics = d.metrics
  BY <1>2, <1>8, ComponentFields
<1>10. applyRoleDependentDefaults(x) = applyRoleDependentDefaults(d)
  <2> DEFINE p == IF IsService(d) THEN orElse(d.port, 0, DefaultServicePort) ELSE d.port
             s == orElse(d.shutdown, 0, IF IsWorker(d) THEN 60 ELSE 30)
             m == IF MetricsEnabled(d.metrics) /\ IsService(d) /\ d.metrics.port = 0
                  THEN [d.metrics EXCEPT !.port = p] ELSE d.metrics
             b == [d EXCEPT !.shutdown = s, !.port = p, !.metrics = m]
             y == [x EXCEPT !.shutdown = s, !.port = p, !.metrics = m]
  <2>1. (IsService(x) <=> IsService(d)) /\ (IsWorker(x) <=> IsWorker(d)) /\ (IsService(d) <=> c.role = "service")
    BY <1>8 DEF IsService, IsWorker
  <2>2. p = IF IsService(x) THEN orElse(x.port, 0, DefaultServicePort) ELSE x.port
    BY <1>4, <1>8, <2>1
  <2>3. s = orElse(x.shutdown, 0, IF IsWorker(x) THEN 60 ELSE 30)
    BY <1>9, <2>1
  <2>4. applyRoleDependentDefaults(d) = b
    BY DEF applyRoleDependentDefaults
  <2>5. m = IF MetricsEnabled(x.metrics) /\ IsService(x) /\ x.metrics.port = 0
            THEN [x.metrics EXCEPT !.port = p] ELSE x.metrics
    BY <1>9, <2>1
  <2> HIDE DEF p, s, m
  <2>6. applyRoleDependentDefaults(x) = y
    BY <2>2, <2>3, <2>5 DEF applyRoleDependentDefaults
  <2>7. y = b
    <3>1. y = [f \in DOMAIN c |-> y[f]] /\ b = [f \in DOMAIN c |-> b[f]]
      BY <1>8
    <3>2. \A f \in DOMAIN c : y[f] = b[f]
      BY <1>8
    <3> HIDE DEF y, b
    <3> QED BY <3>1, <3>2
  <2> QED BY <2>4, <2>6, <2>7
<1>11. Filled(o) = Filled(c)
  <2>1. Filled(c) = applyResourcePreset(dropSchemaReplicasDefault(applyRoleDependentDefaults(d), c.replicas # Nil))
    BY DEF Filled, d
  <2>2. Filled(o) = applyResourcePreset(dropSchemaReplicasDefault(applyRoleDependentDefaults(x), c.replicas # Nil))
    BY <1>6 DEF Filled, x
  <2> QED BY <1>10, <2>1, <2>2
<1> QED BY <1>1, <1>11

LEMMA FilledKeeps ==
    ASSUME NEW c, ComponentOK(c)
    PROVE  Filled(c).ready = c.ready /\ Filled(c).wellFormed = c.wellFormed
<1> DEFINE d == SchemaDefaults(c)
           b == applyRoleDependentDefaults(d)
           explicit == c.replicas # Nil
           f == dropSchemaReplicasDefault(b, explicit)
           g == applyResourcePreset(f)
<1>1. g = Filled(c)
  BY DEF Filled
<1>2. DOMAIN c = DOMAIN BlankComponent
  BY DEF ComponentOK
<1>3. DOMAIN d = DOMAIN BlankComponent /\ d.ready = c.ready /\ d.wellFormed = c.wellFormed
  BY <1>2, ComponentFields DEF SchemaDefaults
<1> HIDE DEF d
<1>4. DOMAIN b = DOMAIN BlankComponent /\ b.ready = c.ready /\ b.wellFormed = c.wellFormed
  BY <1>3, ComponentFields DEF applyRoleDependentDefaults
<1> HIDE DEF b, explicit
<1>5. DOMAIN f = DOMAIN BlankComponent /\ f.ready = c.ready /\ f.wellFormed = c.wellFormed
  BY <1>4, ComponentFields DEF dropSchemaReplicasDefault
<1> HIDE DEF f
<1>6. g.ready = c.ready /\ g.wellFormed = c.wellFormed
  BY <1>5, ComponentFields DEF applyResourcePreset
<1> QED BY <1>1, <1>6

\* Defaults do not make a component valid, but for its resources.
LEMMA FilledValid ==
    ASSUME NEW c, ComponentOK(c), BlocksOK(c), validateResources(c), ValidComponent(Filled(c))
    PROVE  ValidComponent(c)
<1> DEFINE d == SchemaDefaults(c)
           g == Filled(c)
           explicit == c.replicas # Nil
           port == IF IsService(d) THEN orElse(d.port, 0, DefaultServicePort) ELSE d.port
<1>1. /\ DOMAIN d = DOMAIN BlankComponent
      /\ d.role \in {"service", "worker"} /\ IsWorker(d) = IsWorker(c)
      /\ (d.kind = "stateful") = (c.kind = "stateful")
      /\ d.replicas = IF c.replicas = Nil THEN 1 ELSE c.replicas
      /\ d.hpa = IF c.hpa = Nil THEN Nil ELSE DefaultAutoscaling(c.hpa)
      /\ d.metrics = IF c.metrics = Nil THEN Nil ELSE DefaultMetrics(c.metrics)
      /\ d.port = c.port /\ d.expose = c.expose /\ d.alive = c.alive /\ d.disk = c.disk
  BY SchemaComplete
<1> HIDE DEF d
<1>2. /\ g.role = d.role /\ g.kind = d.kind /\ g.port = port /\ g.hpa = d.hpa
      /\ g.expose = d.expose /\ g.alive = d.alive /\ g.disk = d.disk
      /\ g.replicas = IF c.replicas = Nil /\ Scales(d) THEN Nil ELSE d.replicas
      /\ g.metrics = IF MetricsEnabled(d.metrics) /\ IsService(d) /\ d.metrics.port = 0
                     THEN [d.metrics EXCEPT !.port = port] ELSE d.metrics
  <2>1. explicit \in BOOLEAN /\ (~ explicit <=> c.replicas = Nil)
    OBVIOUS
  <2>2. g = applyResourcePreset(dropSchemaReplicasDefault(applyRoleDependentDefaults(d), explicit))
    BY DEF Filled, d
  <2> HIDE DEF explicit, g
  <2> QED BY <1>1, <2>1, <2>2, RoleComplete
<1>3. g.ready = c.ready /\ g.wellFormed = c.wellFormed
      /\ (MetricsEnabled(g.metrics) <=> MetricsEnabled(c.metrics))
  BY FilledKeeps, FilledReadsAlike DEF SameReading
<1>4. /\ g.wellFormed /\ ValidateComponentAutoscaling(g) /\ ValidateComponentPersistence(g)
      /\ ValidateComponentReplicas(g) /\ ValidateComponentWorker(g)
      /\ ValidateComponentHealth(g) /\ ValidateComponentMetrics(g) /\ ValidateComponentExpose(g)
  BY DEF ValidComponent
<1> HIDE DEF g, port
<1>5. /\ Scales(g) <=> Scales(c)
      /\ Scales(c) => g.hpa.min = c.hpa.min /\ g.hpa.max = c.hpa.max
  <2>1. CASE c.hpa = Nil
    BY <1>1, <1>2, <2>1 DEF Scales
  <2>2. CASE c.hpa # Nil
    <3>1. c.hpa \in Autoscalings(Nat \ {0}) /\ g.hpa = DefaultAutoscaling(c.hpa)
      BY <1>1, <1>2, <2>2 DEF BlocksOK
    <3> QED BY <2>2, <3>1, AutoscalingComplete DEF Scales
  <2> QED BY <2>1, <2>2
<1>6. ValidateComponentAutoscaling(c)
  BY <1>4, <1>5 DEF ValidateComponentAutoscaling
<1>7. c.replicas # Nil => g.replicas = c.replicas
  BY <1>1, <1>2
<1>8. ValidateComponentPersistence(c)
  BY <1>1, <1>2, <1>4, <1>5, <1>7 DEF ValidateComponentPersistence
<1>9. ValidateComponentReplicas(c)
  BY <1>4, <1>5, <1>7 DEF ValidateComponentReplicas
<1>10. IsWorker(c) => IsWorker(g) /\ ~ IsService(d)
  BY <1>1, <1>2 DEF IsWorker, IsService
<1>11. g.alive = c.alive /\ g.expose = c.expose
  BY <1>1, <1>2
<1>12. ValidateComponentWorker(c)
  <2>1. IsWorker(c) => g.port = c.port
    BY <1>1, <1>2, <1>10 DEF port
  <2> QED BY <1>3, <1>4, <1>10, <1>11, <2>1 DEF ValidateComponentWorker, AliveOn
<1>13. ValidateComponentHealth(c)
  BY <1>4, <1>11 DEF ValidateComponentHealth, AliveOn
<1>14. ValidateComponentMetrics(c)
  <2> SUFFICES ASSUME MetricsEnabled(c.metrics), IsWorker(c) PROVE c.metrics.port > 0
    BY DEF ValidateComponentMetrics
  <2> DEFINE m == c.metrics
  <2>1. m # Nil /\ m \in [off: BOOLEAN, enabled: BOOLEAN \cup {Nil}, port: Nat]
    BY DEF MetricsEnabled, BlocksOK
  <2>2. g.metrics = DefaultMetrics(m)
    BY <1>1, <1>2, <1>10, <2>1
  <2>3. g.metrics.port = m.port
    <3> HIDE DEF m
    <3> QED BY <2>1, <2>2 DEF DefaultMetrics
  <2> QED BY <1>3, <1>4, <1>10, <2>3 DEF ValidateComponentMetrics
<1>15. ValidateComponentExpose(c)
  BY <1>4, <1>11 DEF ValidateComponentExpose
<1> QED BY <1>3, <1>4, <1>6, <1>8, <1>9, <1>12, <1>13, <1>14, <1>15 DEF ValidComponent

LEMMA SubstitutesNothing ==
    ASSUME NEW c, HasFields(c, BlankComponent), ExposeOK(c),
           c.expose = Nil \/ Var \notin {c.expose.sub, c.expose.domain}, NEW value
    PROVE  substituteComponent(c, value) = c
<1> DEFINE x == c.expose
           y == substituteExpose(x, value)
<1>1. CASE x = Nil
  BY <1>1 DEF substituteComponent
<1>2. CASE x # Nil
  <2>1. substituteComponent(c, value) = [c EXCEPT !.expose = y]
    BY <1>2 DEF substituteComponent
  <2>2. y = x
    <3>1. HasFields(x, BlankExpose) /\ Var \notin {x.sub, x.domain}
      BY <1>2 DEF ExposeOK
    <3> HIDE DEF x
    <3> QED BY <3>1, NothingSubstituted
  <2>3. c = [f \in DOMAIN c |-> c[f]]
    BY DEF HasFields
  <2>4. [c EXCEPT !.expose = x] = [f \in DOMAIN c |-> c[f]]
    OBVIOUS
  <2> HIDE DEF x, y
  <2> QED BY <2>1, <2>2, <2>3, <2>4
<1> QED BY <1>1, <1>2

\* A spec without overrides, variables and switched off blocks loads to
\* itself with the defaults filled in.
LEMMA LoadsPlain ==
    ASSUME NEW s, s # Nil, SpecOK(s), ShapeOK(s), SourceOK(s), s.envs = <<>>,
           s = [f \in DOMAIN s |-> s[f]], s.components = [n \in DOMAIN s.components |-> s.components[n]],
           \A n \in DOMAIN s.components :
              LET x == s.components[n].expose
              IN  x = Nil \/ (~ x.off /\ Var \notin {x.sub, x.domain}),
           ValidateSpecComponents(s), ValidateSpecTasks(s),
           NEW e, NEW plat, NEW files, NEW os, ResolveEnvironment(s, plat, e) # Nil
    PROVE  Load(s, e, plat, files, os) = FillSpecWithDefaults(s)
<1> DEFINE name == ResolveEnvironment(s, plat, e)
           entry == IF name \in DOMAIN s.envs THEN s.envs[name] ELSE NoEntry
           env == resolveEnvFile(entry, name, files)
           fromFile == IF env \in DOMAIN files THEN files[env] ELSE Nil
           t == SubstituteVariables(s, entry, fromFile, os)
           final == normalizeComponents(t)
<1>1. Load(s, e, plat, files, os) =
        IF name = Nil THEN Nil
        ELSE IF entry.envFile # Unset /\ env \notin DOMAIN files THEN Nil
        ELSE IF t = Nil THEN Nil
        ELSE IF ValidateSpecComponents(final) /\ ValidateSpecTasks(final)
             THEN FillSpecWithDefaults(final) ELSE Nil
  BY DEF Load
<1>2. DOMAIN <<>> = {}
  OBVIOUS
<1>3. entry = NoEntry
  BY <1>2
<1>4. entry.envFile = Unset
  BY <1>3 DEF NoEntry
<1> HIDE DEF entry, fromFile
<1> DEFINE value == IF os # Nil THEN os ELSE IF fromFile # Nil THEN fromFile ELSE entry.var
           uses == \E n \in DOMAIN s.components :
                       LET x == s.components[n].expose IN x # Nil /\ Var \in {x.sub, x.domain}
           done == [s EXCEPT !.components =
                      [n \in DOMAIN s.components |-> substituteComponent(s.components[n], value)]]
<1>5. t = IF uses /\ value = Nil THEN Nil ELSE done
  BY DEF SubstituteVariables
<1>6. ~ uses
  OBVIOUS
<1> HIDE DEF value, uses, t, name, env
<1>7. DOMAIN s = {"components", "tasks", "envs"}
  BY DEF SpecOK
<1>8. [s EXCEPT !.components = s.components] = s
  <2>1. [s EXCEPT !.components = s.components] = [f \in DOMAIN s |-> s[f]]
    BY <1>7
  <2> QED BY <2>1
<1>9. t = s
  <2>1. \A n \in DOMAIN s.components : substituteComponent(s.components[n], value) = s.components[n]
    BY SubstitutesNothing DEF SourceOK, ExposeOK
  <2>2. [n \in DOMAIN s.components |-> substituteComponent(s.components[n], value)] = s.components
    BY <2>1
  <2> QED BY <1>5, <1>6, <1>8, <2>2
<1>10. normalizeComponents(s) = s
  <2>1. \A n \in DOMAIN s.components : Normal(s.components[n]) = s.components[n]
    BY DEF Normal
  <2>2. [n \in DOMAIN s.components |-> Normal(s.components[n])] = s.components
    BY <2>1
  <2>3. normalizeComponents(s)
          = [s EXCEPT !.components = [n \in DOMAIN s.components |-> Normal(s.components[n])]]
    BY NormalComponents
  <2> QED BY <1>8, <2>2, <2>3
<1>11. final = s
  BY <1>9, <1>10
<1>12. name # Nil
  BY DEF name
<1> HIDE DEF final
<1> QED BY <1>1, <1>4, <1>9, <1>11, <1>12

\* What init saves of the answers w.
SavedFrom(w, s) ==
    /\ s # Nil /\ SpecOK(s) /\ ShapeOK(s) /\ SourceOK(s) /\ s.envs = <<>> /\ s.tasks = <<>>
    /\ s = [f \in DOMAIN s |-> s[f]]
    /\ s.components = [n \in DOMAIN s.components |-> s.components[n]]
    /\ FillSpecWithDefaults(s) = FillSpecWithDefaults(w)
    /\ EmptyResources(s) <=> EmptyResources(w)
    /\ \A n \in DOMAIN s.components :
          LET c == s.components[n]
          IN  /\ c.profiles = Nil
              /\ c.disk = Nil \/ c.disk.class = Unset
              /\ c.expose = Nil \/ (~ c.expose.off /\ ~ c.expose.apex /\ Var \notin {c.expose.sub, c.expose.domain})
              /\ ResourcesSet(c) => c.preset = Unset
              /\ ValidComponent(Filled(c))

LEMMA SparseFields ==
    ASSUME NEW c, ComponentOK(c)
    PROVE  LET o == omitSchemaDefaults(c)
           IN  /\ o.profiles = c.profiles /\ o.disk = c.disk /\ o.expose = c.expose
               /\ o.cpu = c.cpu /\ o.mem = c.mem /\ o.eph = c.eph /\ o.preset = c.preset
BY ComponentFields DEF ComponentOK, omitSchemaDefaults

LEMMA WizardSaves ==
    ASSUME NEW answers, NEW names, DOMAIN answers \subseteq ToSet(SortedNames),
           \A n \in DOMAIN answers : AnswersOK(answers[n]),
           buildValidatedSpec(collectComponents(answers, names)) # Nil
    PROVE  SavedFrom(collectComponents(answers, names),
                     buildValidatedSpec(collectComponents(answers, names)))
<1> DEFINE w == collectComponents(answers, names)
           s == sparseSpec(w)
           made(n) == collectComponentDetails(answers[n], names)
           omitted(n) == omitSchemaDefaults(made(n))
<1>1. /\ s = buildValidatedSpec(w) /\ ValidateSpec(FillSpecWithDefaults(s))
      /\ ValidateSpecComponents(FillSpecWithDefaults(s))
  BY DEF buildValidatedSpec
<1>2. SpecOK(s) /\ ShapeOK(s) /\ SourceOK(s)
  <2>1. \A n \in DOMAIN answers : ResourcesOK(answers[n], DOMAIN ResourcePresetMappings \cup {"custom"})
    BY DEF AnswersOK
  <2> QED BY <2>1, WizardOK, WizardShape, WizardSource
<1>3. w = [components |-> [n \in DOMAIN answers |-> made(n)], tasks |-> <<>>, envs |-> <<>>]
  BY DEF collectComponents
<1>4. ASSUME NEW n \in DOMAIN answers
      PROVE  ComponentOK(made(n)) /\ Made(made(n))
  <2> DEFINE a == answers[n]
             c == collectComponentEssentials(a, names)
  <2>1. AnswersOK(a)
    OBVIOUS
  <2> HIDE DEF a
  <2>2. ResourcesOK(a, DOMAIN ResourcePresetMappings \cup {"custom"})
    BY <2>1 DEF AnswersOK
  <2>3. ComponentOK(c) /\ ExposeOK(c) /\ Made(c)
    BY <2>1, <2>2, EssentialsOK, EssentialsExpose, EssentialsMade
  <2> HIDE DEF c
  <2>4. ComponentOK(collectComponentAdvancedDetails(c, a, names))
        /\ Made(collectComponentAdvancedDetails(c, a, names))
    BY <2>3, AdvancedOK, AdvancedMade
  <2> QED BY <2>3, <2>4 DEF collectComponentDetails, collectComponentAdvanced, a, c
<1> HIDE DEF made
<1>5. /\ w.components = [n \in DOMAIN answers |-> made(n)] /\ w.tasks = <<>> /\ w.envs = <<>>
      /\ DOMAIN w = {"components", "tasks", "envs"}
  BY <1>3
<1>6. /\ s = [f \in DOMAIN s |-> s[f]] /\ s.envs = <<>> /\ s.tasks = <<>>
      /\ s.components = [n \in DOMAIN answers |-> omitted(n)]
  <2> HIDE DEF w
  <2>1. s = [w EXCEPT !.components = [n \in DOMAIN answers |-> omitted(n)]]
    BY <1>5 DEF sparseSpec
  <2> HIDE DEF s
  <2> QED BY <1>5, <2>1
<1>7. s.components = [n \in DOMAIN s.components |-> s.components[n]] /\ DOMAIN s.components = DOMAIN answers
  <2> HIDE DEF s, omitted
  <2> QED BY <1>6
<1>8. \A n \in DOMAIN answers : Filled(omitted(n)) = Filled(made(n))
  BY <1>4, FilledSparse
<1>9. FillSpecWithDefaults(s) = FillSpecWithDefaults(w)
  <2> DEFINE cs(t) == [n \in DOMAIN t.components |-> Filled(t.components[n])]
             ts(t) == [n \in DOMAIN t.tasks |-> resolveTaskPreset(applyTaskDefaults(t.tasks[n]))]
  <2>1. /\ FillSpecWithDefaults(s) = [s EXCEPT !.components = cs(s), !.tasks = ts(s)]
        /\ FillSpecWithDefaults(w) = [w EXCEPT !.components = cs(w), !.tasks = ts(w)]
    BY DEF FillSpecWithDefaults, Filled
  <2>2. cs(s) = cs(w)
    <3> HIDE DEF s, w, omitted
    <3> QED BY <1>5, <1>6, <1>8
  <2>3. ts(s) = ts(w)
    <3> HIDE DEF s, w
    <3> QED BY <1>5, <1>6
  <2> HIDE DEF cs, ts
  <2>4. s = [w EXCEPT !.components = s.components]
    <3>1. s = [w EXCEPT !.components = [n \in DOMAIN answers |-> omitted(n)]]
      <4> HIDE DEF w
      <4> QED BY <1>5 DEF sparseSpec
    <3> HIDE DEF s, w, omitted
    <3> QED BY <1>6, <3>1
  <2>5. \A x, a, b : [[w EXCEPT !.components = x] EXCEPT !.components = a, !.tasks = b]
                       = [w EXCEPT !.components = a, !.tasks = b]
    <3> HIDE DEF w
    <3> QED BY <1>5
  <2> HIDE DEF s, w
  <2> QED BY <2>1, <2>2, <2>3, <2>4, <2>5
<1>10. ASSUME NEW n \in DOMAIN answers
       PROVE  LET o == omitted(n)
                  c == made(n)
              IN  /\ o.profiles = c.profiles /\ o.disk = c.disk /\ o.expose = c.expose
                  /\ o.cpu = c.cpu /\ o.mem = c.mem /\ o.eph = c.eph /\ o.preset = c.preset
  BY <1>4, SparseFields
<1> HIDE DEF omitted
<1>11. \A n \in DOMAIN answers : ResourcesSet(omitted(n)) <=> ResourcesSet(made(n))
  BY <1>10 DEF ResourcesSet
<1>12. EmptyResources(s) <=> EmptyResources(w)
  <2> HIDE DEF s, w
  <2> QED BY <1>5, <1>6, <1>10, <1>11 DEF EmptyResources, ResourcesPresent
<1> HIDE DEF s, w
<1>13. ASSUME NEW n \in DOMAIN s.components
       PROVE  LET c == s.components[n]
              IN  /\ c.profiles = Nil
                  /\ c.disk = Nil \/ c.disk.class = Unset
                  /\ c.expose = Nil \/ (~ c.expose.off /\ ~ c.expose.apex /\ Var \notin {c.expose.sub, c.expose.domain})
                  /\ ResourcesSet(c) => c.preset = Unset
                  /\ ValidComponent(Filled(c))
  <2> DEFINE c == s.components[n]
             f == FillSpecWithDefaults(s)
  <2>1. n \in DOMAIN answers /\ c = omitted(n)
    BY <1>6, <1>7
  <2>2. /\ made(n).profiles = Nil
        /\ made(n).expose = Nil \/ (~ made(n).expose.off /\ ~ made(n).expose.apex)
        /\ made(n).disk = Nil \/ made(n).disk.class = Unset
        /\ ResourcesSet(made(n)) => made(n).preset = Unset
    BY <1>4, <2>1 DEF Made
  <2>3. n \in DOMAIN f.components /\ f.components[n] = Filled(c)
    BY <1>2, FilledComponents
  <2>4. ComponentOK(c) /\ BlocksOK(c)
    BY <1>2 DEF SpecOK, ShapeOK
  <2>5. Filled(c).expose = c.expose
    BY <2>4, FilledReadsAlike DEF SameReading
  <2> HIDE DEF f
  <2>6. c.expose = Nil \/ Var \notin {c.expose.sub, c.expose.domain}
    BY <1>1, <2>3, <2>5 DEF ValidateSpec, f
  <2>7. ValidComponent(Filled(c))
    BY <1>1, <2>3 DEF ValidateSpecComponents, f
  <2> HIDE DEF c
  <2> QED BY <1>10, <1>11, <2>1, <2>2, <2>6, <2>7 DEF c
<1>14. s # Nil
  BY <1>1 DEF w
<1>15. SavedFrom(w, s)
  BY <1>2, <1>6, <1>7, <1>9, <1>12, <1>13, <1>14 DEF SavedFrom
<1> QED BY <1>1, <1>15 DEF w

\* It loads, in an environment that is known.
LEMMA SavedLoads ==
    ASSUME NEW w, NEW s, SavedFrom(w, s), ~ EmptyResources(s),
           NEW e, NEW plat, NEW files, NEW os, ResolveEnvironment(s, plat, e) # Nil
    PROVE  Load(s, e, plat, files, os) = FillSpecWithDefaults(s)
<1>1. ValidateSpecTasks(s)
  <2>1. DOMAIN s.tasks = {}
    BY DEF SavedFrom
  <2> QED BY <2>1 DEF ValidateSpecTasks
<1>2. ASSUME NEW n \in DOMAIN s.components PROVE ValidComponent(s.components[n])
  <2> DEFINE c == s.components[n]
  <2>1. ComponentOK(c) /\ BlocksOK(c)
    BY DEF SavedFrom, SpecOK, ShapeOK
  <2>2. (ResourcesSet(c) => c.preset = Unset) /\ ValidComponent(Filled(c))
    BY DEF SavedFrom
  <2>3. ResourcesSet(c) \/ (c.cpu = Nil /\ c.mem = Nil /\ c.eph = Nil)
    BY DEF EmptyResources, ResourcesPresent
  <2> HIDE DEF c
  <2>4. validateResources(c)
    BY <2>2, <2>3 DEF validateResources, ResourcesPresent
  <2>5. ValidComponent(c)
    BY <2>1, <2>2, <2>4, FilledValid
  <2> QED BY <2>5 DEF c
<1>3. ValidateSpecComponents(s)
  BY <1>2 DEF ValidateSpecComponents
<1>4. \A n \in DOMAIN s.components :
         LET x == s.components[n].expose
         IN  x = Nil \/ (~ x.off /\ Var \notin {x.sub, x.domain})
  BY DEF SavedFrom
<1>5. /\ s # Nil /\ SpecOK(s) /\ ShapeOK(s) /\ SourceOK(s) /\ s.envs = <<>>
      /\ s = [f \in DOMAIN s |-> s[f]]
      /\ s.components = [n \in DOMAIN s.components |-> s.components[n]]
  BY DEF SavedFrom
<1> QED BY <1>1, <1>3, <1>4, <1>5, LoadsPlain

\* Merging no profiles gives the empty one.
LEMMA NothingMerged ==
    ASSUME NEW profiles
    PROVE  MergeProfiles(<<>>, profiles) = NoProfile
<1> DEFINE f == MergedUpTo(<<>>, profiles)
<1>1. Len(<<>>) = 0
  OBVIOUS
<1>2. MergeProfiles(<<>>, profiles) = f[0]
  BY <1>1 DEF MergeProfiles, MergedUpTo
<1>3. f = [i \in 0 .. Len(<<>>) |->
             IF i = 0 THEN NoProfile ELSE mergeProfile(f[i - 1], profiles[<<>>[i]])]
  <2>1. <<>> \in Seq({})
    OBVIOUS
  <2> QED BY <2>1, MergedExists
<1> HIDE DEF f
<1>4. f[0] = NoProfile
  BY <1>1, <1>3
<1> QED BY <1>2, <1>4

\* Without profiles, metrics and a storage class only the expose block can
\* be wrong with a component.
LEMMA PlainResolves ==
    ASSUME NEW n, NEW c, NEW plat, NEW pe, NEW e, NEW dynamic,
           plat # Nil, plat.profiles = Nil, c.profiles = Nil, c.metrics = Nil,
           c.disk = Nil \/ c.disk.class = Unset,
           c.expose # Nil => exposeCode(n, c, pe, dynamic) = NoCode
    PROVE  resolveComponent(n, c, plat, pe, e, dynamic).code = NoCode
<1> DEFINE profs == IF plat = Nil THEN Nil ELSE plat.profiles
           names == ResolveProfileNames(c.profiles, profs)
           merged == MergeProfiles(names, profs)
           key == domainKeyOf(c, pe)
           class == storageClassKey(c, merged)
           host == IF c.expose = Nil THEN <<>> ELSE hostOf(n, c, pe.domains[key])
           k1 == IF c.profiles # Nil /\ plat = Nil THEN "PLATFORM_NOT_FOUND" ELSE NoCode
           k2 == ProfileNamesCode(c.profiles, profs)
           k3 == MergeCode(names, profs)
           k4 == IF c.expose = Nil THEN NoCode ELSE exposeCode(n, c, pe, dynamic)
           k5 == validateMergedProfile(c, names, merged, pe, key)
           k6 == applyResolvedStorageClass(c, merged, pe)
           tls == tlsOf(c, pe, key)
           class2 == IF class = Unset THEN Unset ELSE pe.classes[class]
           warned == staticWarning(c, pe, e, dynamic)
           code == firstCode(k1, firstCode(k2, firstCode(k3, firstCode(k4, firstCode(k5, k6)))))
           rc == resolveComponent(n, c, plat, pe, e, dynamic)
<1>1. rc = IF code # NoCode THEN [code |-> code]
           ELSE [code |-> NoCode, profiles |-> names, merged |-> merged, key |-> key,
                 host |-> host, tls |-> tls, class |-> class2, warned |-> warned]
  BY DEF resolveComponent
<1>2. names = <<>>
  BY DEF ResolveProfileNames, hasDefault
<1>3. merged = NoProfile /\ NoProfile.storageClass = Unset
  BY <1>2, NothingMerged DEF NoProfile
<1>4. k1 = NoCode /\ k2 = NoCode
  BY DEF ProfileNamesCode
<1>5. k3 = NoCode /\ k4 = NoCode
  BY <1>2 DEF MergeCode
<1>6. k5 = NoCode
  BY <1>2 DEF validateMergedProfile, MetricsEnabled
<1>7. k6 = NoCode
  <2>1. class = Unset
    BY <1>3 DEF storageClassKey
  <2> QED BY <2>1 DEF applyResolvedStorageClass
<1> HIDE DEF k1, k2, k3, k4, k5, k6, names, merged, key, host, tls, class2, warned, rc
<1>8. code = NoCode
  BY <1>4, <1>5, <1>6, <1>7 DEF firstCode
<1> HIDE DEF code
<1> QED BY <1>1, <1>8 DEF rc

\* The names of the environments, as the scaffold lists them.
LEMMA Scaffolded ==
    ASSUME NEW names
    PROVE  LET cfg == newPlatformEnvironments(names)
           IN  /\ cfg.profiles = Nil /\ DOMAIN cfg.envs = names
               /\ \A n \in names : cfg.envs[n] = newEntry(n)
               /\ writePlatformFile(cfg).cfg = cfg
BY DEF newPlatformEnvironments, writePlatformFile

LEMMA LocalDomain ==
    /\ LocalPlatformEnvironment.domains = LocalDomains
    /\ Keys(LocalPlatformEnvironment.domains) = {"public"}
    /\ defaultDomainKey(LocalPlatformEnvironment) = "public"
<1>1. LocalPlatformEnvironment.domains = LocalDomains /\ LocalDomains # Nil
  BY ScaffoldAssumption DEF LocalPlatformEnvironment, EmptyEntry
<1>2. LocalPlatformEnvironment.domains
        = [public |-> [base |-> <<"127-0-0-1", "nip", "io">>, default |-> FALSE,
                       tls |-> "selfSigned"]]
  BY DEF LocalPlatformEnvironment, LocalDomains, EmptyEntry
<1>3. Keys(LocalPlatformEnvironment.domains) = {"public"}
  BY <1>1, <1>2 DEF Keys
<1>4. Cardinality({"public"}) = 1
  BY FS_Singleton
<1>5. {"public"} # {} /\ (CHOOSE k \in {"public"} : TRUE) = "public"
  OBVIOUS
<1>6. defaultDomainKey(LocalPlatformEnvironment) = "public"
  BY <1>3, <1>4, <1>5 DEF defaultDomainKey
<1> QED BY <1>1, <1>3, <1>6

LEMMA Prepended ==
    ASSUME NEW S, NEW b \in Seq(S), NEW x
    PROVE  /\ ToSet(<<x>> \o b) \subseteq {x} \cup ToSet(b)
           /\ (<<x>> \o b)[1] = x
<1> DEFINE h == <<x>> \o b
           T == S \cup {x}
<1>1. <<x>> \in Seq(T) /\ b \in Seq(T) /\ Len(<<x>>) = 1 /\ Len(b) \in Nat
  OBVIOUS
<1>2. Len(h) = 1 + Len(b) /\ h \in Seq(T) /\ DOMAIN h = 1 .. Len(h)
  BY <1>1
<1>3. \A i \in 1 .. Len(h) : h[i] = IF i <= 1 THEN x ELSE b[i - 1]
  BY <1>1
<1> HIDE DEF h
<1>4. h[1] = x
  BY <1>1, <1>2, <1>3
<1>5. ASSUME NEW i \in DOMAIN h PROVE h[i] \in {x} \cup ToSet(b)
  <2>1. CASE i <= 1
    BY <1>2, <1>3, <2>1
  <2>2. CASE ~ (i <= 1)
    <3>1. i - 1 \in DOMAIN b /\ h[i] = b[i - 1]
      BY <1>1, <1>2, <1>3, <2>2
    <3> QED BY <3>1 DEF ToSet
  <2> QED BY <2>1, <2>2
<1>6. ToSet(h) = {h[i] : i \in DOMAIN h}
  BY DEF ToSet
<1> QED BY <1>4, <1>5, <1>6 DEF h

\* What is asked of a component for the scaffolded platform file to do.
Answered(n, c) ==
    /\ c.profiles = Nil /\ c.metrics = Nil
    /\ c.disk = Nil \/ c.disk.class = Unset
    /\ c.expose # Nil => /\ ~ c.expose.apex /\ c.expose.domain \in {Unset, "public"}
                         /\ subdomainOf(n, c) \notin BadLabels

LocalBase == LocalDomains["public"].base

LEMMA LocalBaseIs == LocalBase \in Seq(ToSet(LocalBase))
<1>1. LocalBase = <<"127-0-0-1", "nip", "io">>
  BY DEF LocalBase, LocalDomains
<1> DEFINE b == <<"127-0-0-1", "nip", "io">>
<1>2. b \in Seq(ToSet(b))
  BY DEF ToSet
<1> QED BY <1>1, <1>2

\* In the local environment an exposed component gets its host.
LEMMA LocalExposed ==
    ASSUME NEW n, NEW c, Answered(n, c), c.expose # Nil, NEW dynamic
    PROVE  LET pe == LocalPlatformEnvironment
           IN  /\ exposeCode(n, c, pe, dynamic) = NoCode
               /\ hostOf(n, c, pe.domains[domainKeyOf(c, pe)]) = <<subdomainOf(n, c)>> \o LocalBase
<1> DEFINE pe == LocalPlatformEnvironment
           key == domainKeyOf(c, pe)
           host == hostOf(n, c, pe.domains[key])
<1>1. pe # Nil /\ pe.domains = LocalDomains /\ validHost(LocalBase)
  BY ScaffoldAssumption, LocalDomain DEF LocalBase
<1>2. Keys(pe.domains) = {"public"} /\ defaultDomainKey(pe) = "public"
  BY LocalDomain
<1>3. key = "public"
  BY <1>2 DEF domainKeyOf, Answered
<1>4. host = <<subdomainOf(n, c)>> \o LocalBase
  BY <1>1, <1>3 DEF hostOf, LocalBase, Answered
<1>5. validHost(host)
  <2>1. ToSet(host) \subseteq {subdomainOf(n, c)} \cup ToSet(LocalBase)
    BY <1>4, LocalBaseIs, Prepended
  <2> HIDE DEF host
  <2> QED BY <1>1, <2>1 DEF validHost, Answered
<1>6. exposeCode(n, c, pe, dynamic) = NoCode
  BY <1>1, <1>2, <1>3, <1>5 DEF exposeCode
<1> QED BY <1>4, <1>6

\* The answers resolve in every environment without a warning.
LEMMA AnsweredResolves ==
    ASSUME NEW s, NEW names, NEW e \in names, newPlatformEnvironments(names) # Nil,
           s.tasks = <<>>, DOMAIN s.components \subseteq ToSet(SortedNames),
           \A n \in DOMAIN s.components : Answered(n, s.components[n]),
           ~ BadHosts(s),
           e \notin warnExposeWithoutDomains(s, names, newPlatformEnvironments(names))
    PROVE  Resolve(s, newPlatformEnvironments(names), e, {}).code = NoCode
<1> DEFINE cfg == newPlatformEnvironments(names)
           rcs == resolveComponents(s, cfg, e, {})
           rts == resolveTasks(s, cfg, e)
           codes == [n \in DOMAIN rcs |-> componentCode(rcs, n)]
           more == [n \in DOMAIN rts |-> rts[n].code]
           env == IF cfg # Nil /\ ~ Matched(cfg, e) THEN "PLATFORM_ENV_NOT_FOUND" ELSE NoCode
           pe == platformEnvOf(cfg, e)
<1>1. Resolve(s, cfg, e, {}).code = firstCode(env, firstCode(firstError(codes), firstError(more)))
  BY DEF Resolve, ResolvedSpec, resolveErrors
<1>2. cfg.profiles = Nil /\ DOMAIN cfg.envs = names /\ cfg.envs[e] = newEntry(e)
  BY Scaffolded
<1>3. e \notin warnExposeWithoutDomains(s, names, cfg) /\ cfg # Nil
  OBVIOUS
<1>4. \A n \in DOMAIN rcs :
         /\ n \in DOMAIN s.components
         /\ rcs[n] = resolveComponent(n, s.components[n], cfg, pe, e, n \in {})
  BY DEF resolveComponents
<1> HIDE DEF cfg
<1>5. Matched(cfg, e) /\ pe = newEntry(e)
  BY <1>2, <1>3 DEF Matched, matchEnvKey, MatchedKey, platformEnvOf
<1>6. ASSUME NEW n \in DOMAIN s.components, s.components[n].expose # Nil
      PROVE  pe = LocalPlatformEnvironment
  <2>1. CASE e = "local"
    BY <1>5, <2>1 DEF newEntry
  <2>2. CASE e # "local"
    <3>1. cfg.envs[e].domains = Nil
      BY <1>2, <2>2 DEF newEntry, EmptyEntry
    <3>2. e \in warnExposeWithoutDomains(s, names, cfg)
      BY <1>6, <2>2, <3>1 DEF warnExposeWithoutDomains
    <3> QED BY <1>3, <3>2
  <2> QED BY <2>1, <2>2
<1>7. \A n \in DOMAIN rcs : rcs[n].code = NoCode
  <2> SUFFICES ASSUME NEW n \in DOMAIN rcs PROVE rcs[n].code = NoCode
    OBVIOUS
  <2> DEFINE c == s.components[n]
             dynamic == n \in {}
  <2>1. n \in DOMAIN s.components /\ rcs[n] = resolveComponent(n, c, cfg, pe, e, dynamic)
    BY <1>4
  <2>2. Answered(n, c)
    BY <2>1
  <2> HIDE DEF rcs, pe
  <2>3. c.expose # Nil => pe = LocalPlatformEnvironment
    BY <1>6, <2>1
  <2> HIDE DEF c, dynamic
  <2>4. c.expose # Nil => exposeCode(n, c, pe, dynamic) = NoCode
    BY <2>2, <2>3, LocalExposed
  <2>5. resolveComponent(n, c, cfg, pe, e, dynamic).code = NoCode
    BY <1>2, <1>3, <2>2, <2>4, PlainResolves DEF Answered
  <2> QED BY <2>1, <2>5
<1>8. \A n \in DOMAIN rcs :
         LET c == s.components[n]
         IN  rcs[n].host = IF c.expose = Nil THEN <<>> ELSE <<subdomainOf(n, c)>> \o LocalBase
  <2> SUFFICES ASSUME NEW n \in DOMAIN rcs
               PROVE  LET c == s.components[n]
                      IN  rcs[n].host = IF c.expose = Nil THEN <<>>
                                        ELSE <<subdomainOf(n, c)>> \o LocalBase
    OBVIOUS
  <2> DEFINE c == s.components[n]
             dynamic == n \in {}
  <2>1. n \in DOMAIN s.components /\ rcs[n] = resolveComponent(n, c, cfg, pe, e, dynamic)
    BY <1>4
  <2>2. Answered(n, c) /\ rcs[n].code = NoCode
    BY <1>7, <2>1
  <2> HIDE DEF rcs, pe
  <2>3. c.expose # Nil => pe = LocalPlatformEnvironment
    BY <1>6, <2>1
  <2> HIDE DEF dynamic
  <2>4. rcs[n].host = IF c.expose = Nil THEN <<>>
                      ELSE hostOf(n, c, pe.domains[domainKeyOf(c, pe)])
    <3> HIDE DEF c
    <3> QED BY <2>1, <2>2, ComponentSound
  <2>5. c.expose # Nil => hostOf(n, c, pe.domains[domainKeyOf(c, pe)])
                            = <<subdomainOf(n, c)>> \o LocalBase
    <3> HIDE DEF c
    <3> QED BY <2>2, <2>3, LocalExposed
  <2> QED BY <2>4, <2>5
<1>9. \A n \in DOMAIN rcs : ~ Collides(rcs, n)
  <2> SUFFICES ASSUME NEW n \in DOMAIN rcs, rcs[n].host # <<>>, NEW m \in DOMAIN rcs,
                      Rank(m) < Rank(n), rcs[m].host = rcs[n].host
               PROVE  FALSE
    BY DEF Collides
  <2>1. m \in DOMAIN s.components /\ n \in DOMAIN s.components
    BY <1>4
  <2> HIDE DEF rcs
  <2> DEFINE x == subdomainOf(m, s.components[m])
             y == subdomainOf(n, s.components[n])
  <2>2. s.components[m].expose # Nil /\ s.components[n].expose # Nil
    BY <1>8
  <2>3. <<x>> \o LocalBase = <<y>> \o LocalBase
    BY <1>8, <2>2
  <2>4. m # n
    <3>1. Rank(m) \in Nat
      BY <2>1, RankIs
    <3> QED BY <3>1
  <2>5. x # y
    BY <2>1, <2>2, <2>4 DEF BadHosts
  <2>6. (<<x>> \o LocalBase)[1] = x /\ (<<y>> \o LocalBase)[1] = y
    BY LocalBaseIs, Prepended
  <2> QED BY <2>3, <2>5, <2>6
<1>10. firstError(codes) = NoCode
  <2>1. \A n \in DOMAIN codes : codes[n] = NoCode
    BY <1>7, <1>9 DEF componentCode
  <2> HIDE DEF codes
  <2> QED BY <2>1 DEF firstError
<1>11. firstError(more) = NoCode
  <2>1. DOMAIN s.tasks = {}
    OBVIOUS
  <2>2. DOMAIN rts = {}
    BY <2>1 DEF resolveTasks
  <2>3. DOMAIN more = {}
    BY <2>2
  <2> HIDE DEF more
  <2> QED BY <2>3 DEF firstError
<1>12. env = NoCode
  BY <1>5
<1> HIDE DEF codes, more, env
<1> QED BY <1>1, <1>10, <1>11, <1>12 DEF firstCode, cfg

-----------------------------------------------------------------------------
(* The steps of init.                                                      *)

\* What init carries is what it saved, from the save on.
InitOK(r, x) ==
    /\ {"cmd", "pc", "raw"} \subseteq DOMAIN r
    /\ r.cmd = "init" => /\ r.pc \in {"save", "see", "write", "done", "failed"}
                         /\ r.raw \in {Nil, SavedSpec(x)}
                         /\ r.pc \in {"see", "write", "done"} => r.raw # Nil

InitInv == input \in Inputs /\ \A p \in DOMAIN proc : InitOK(proc[p], input)

KeepsInit(q) == \E s : proc' = [proc EXCEPT ![q] = s] /\ InitOK(s, input)

LEMMA FailInit ==
    ASSUME NEW q \in DOMAIN proc, InitOK(proc[q], input), NEW code, Fail(q, code)
    PROVE  KeepsInit(q)
<1> DEFINE r == proc[q]
           s == [r EXCEPT !.pc = "failed", !.code = code]
<1>1. proc' = [proc EXCEPT ![q] = s]
  BY DEF Fail
<1>2. DOMAIN s = DOMAIN r /\ s.pc = "failed" /\ s.cmd = r.cmd /\ s.raw = r.raw
  BY DEF InitOK
<1> HIDE DEF s
<1>3. InitOK(s, input)
  BY <1>2 DEF InitOK
<1> QED BY <1>1, <1>3 DEF KeepsInit

\* The steps of the other commands.
LEMMA OthersInit ==
    ASSUME NEW q \in DOMAIN proc, InitOK(proc[q], input),
           \/ ReadPlatform(q) \/ Prepare(q)
           \/ runCrossFile(q) \/ runResolve(q) \/ runManifestOnly(q)
           \/ Target(q) \/ BuildClient(q)
    PROVE  KeepsInit(q)
<1> DEFINE r == proc[q]
<1>1. {"cmd", "pc", "raw"} \subseteq DOMAIN r /\ r.cmd # "init"
  <2>1. r.pc \in {"platform", "prepare", "target", "clients"}
    BY DEF ReadPlatform, Prepare, runCrossFile, runResolve, runManifestOnly, Target, BuildClient, At
  <2> QED BY <2>1 DEF InitOK
<1>2. ASSUME NEW s, proc' = [proc EXCEPT ![q] = s], DOMAIN s = DOMAIN r, s.cmd = r.cmd
      PROVE  KeepsInit(q)
  BY <1>1, <1>2 DEF KeepsInit, InitOK
<1>3. CASE ReadPlatform(q)
  <2> DEFINE plat == Platform(q).cfg
             raw == ParseManifest(spec)
             pc == IF proc[q].cmd = "delete" THEN "target" ELSE "prepare"
             s == [r EXCEPT !.plat = plat, !.used = plat, !.raw = raw, !.pc = pc]
  <2>1. (\E code : Fail(q, code)) \/ proc' = [proc EXCEPT ![q] = s]
    BY <1>3 DEF ReadPlatform
  <2>2. DOMAIN s = DOMAIN r /\ s.cmd = r.cmd
    BY <1>1
  <2> HIDE DEF s
  <2> QED BY <1>2, <2>1, <2>2, FailInit
<1>4. CASE Prepare(q)
  <2> DEFINE loaded == Load(spec, proc[q].env, proc[q].plat, input.files, input.os)
             resolved == IF loaded = Nil THEN NotResolved ELSE ResolveLoaded(q, loaded)
             s(pc) == [r EXCEPT !.loaded = loaded, !.resolved = resolved, !.pc = pc]
  <2>1. (\E code : Fail(q, code)) \/ (\E pc : proc' = [proc EXCEPT ![q] = s(pc)])
    BY <1>4 DEF Prepare
  <2>2. \A pc : DOMAIN s(pc) = DOMAIN r /\ s(pc).cmd = r.cmd
    BY <1>1
  <2> HIDE DEF s
  <2> QED BY <1>2, <2>1, <2>2, FailInit
<1>5. CASE runCrossFile(q) \/ runResolve(q)
  <2> DEFINE resolved == AsWritten(q)
             s == [r EXCEPT !.resolved = resolved, !.pc = "done"]
  <2>1. (\E code : Fail(q, code)) \/ proc' = [proc EXCEPT ![q] = s]
    BY <1>5 DEF runCrossFile, runResolve, Report
  <2>2. DOMAIN s = DOMAIN r /\ s.cmd = r.cmd
    BY <1>1
  <2> HIDE DEF s
  <2> QED BY <1>2, <2>1, <2>2, FailInit
<1>6. CASE runManifestOnly(q)
  <2> DEFINE c == IF proc[q].plat = Nil THEN [problems |-> FALSE, warnings |-> FALSE]
                  ELSE CrossCheckPlatformReferences(proc[q].raw, proc[q].plat)
             warned == c.warnings
             s == [r EXCEPT !.warned = warned, !.pc = "done"]
  <2>1. (\E code : Fail(q, code)) \/ proc' = [proc EXCEPT ![q] = s]
    BY <1>6 DEF runManifestOnly
  <2> HIDE DEF warned
  <2>2. DOMAIN s = DOMAIN r /\ s.cmd = r.cmd
    BY <1>1
  <2> HIDE DEF s
  <2> QED BY <1>2, <2>1, <2>2, FailInit
<1>7. CASE Target(q)
  <2> DEFINE plat == IF input.flag = Unset THEN Platform(q).cfg ELSE r.plat
             ctx == TargetContext(input.flag, Platform(q).cfg, r.env)
             s == [r EXCEPT !.plat = plat, !.ctx = ctx, !.pc = "clients"]
  <2>1. proc' = [proc EXCEPT ![q] = s]
    BY <1>7 DEF Target, TargetContext
  <2> HIDE DEF plat, ctx
  <2>2. DOMAIN s = DOMAIN r /\ s.cmd = r.cmd
    BY <1>1
  <2> HIDE DEF s
  <2> QED BY <1>2, <2>1, <2>2
<1>8. CASE BuildClient(q)
  <2>1. CASE Fail(q, "CLIENT")
    BY <2>1, FailInit
  <2>2. CASE ~ Fail(q, "CLIENT")
    <3>1. \E c : \E pc : proc' = [proc EXCEPT ![q].clients = Append(@, c), ![q].pc = pc]
      <4> DEFINE steps == ClientsOf(r.cmd)
                 i == Len(r.clients) + 1
                 ends == (IF i = Len(steps) THEN {"done"} ELSE {"clients"})
                         \cup (IF steps[i].stop THEN {"done"} ELSE {})
      <4>1. \E c : \E pc \in ends :
               proc' = [proc EXCEPT ![q].clients = Append(@, c), ![q].pc = pc]
        BY <1>8, <2>2 DEF BuildClient
      <4> QED BY <4>1
    <3>2. PICK c, pc : proc' = [proc EXCEPT ![q].clients = Append(@, c), ![q].pc = pc]
      BY <3>1
    <3> DEFINE new == Append(r.clients, c)
               s == [r EXCEPT !.clients = new, !.pc = pc]
    <3>3. proc' = [proc EXCEPT ![q] = s]
      BY <3>2
    <3> HIDE DEF new
    <3>4. DOMAIN s = DOMAIN r /\ s.cmd = r.cmd
      BY <1>1
    <3> HIDE DEF s
    <3> QED BY <1>2, <3>3, <3>4
  <2> QED BY <2>1, <2>2
<1> QED BY <1>3, <1>4, <1>5, <1>6, <1>7, <1>8

LEMMA SaveInit ==
    ASSUME NEW q \in DOMAIN proc, InitOK(proc[q], input), SaveSpec(q)
    PROVE  KeepsInit(q)
<1> DEFINE r == proc[q]
           sparse == buildValidatedSpec(collectComponents(input.answers, input.names))
           s == [r EXCEPT !.raw = sparse, !.pc = "see"]
<1>1. Fail(q, "WIZARD") \/ (sparse # Nil /\ proc' = [proc EXCEPT ![q] = s])
  BY DEF SaveSpec
<1>2. sparse = SavedSpec(input)
  BY DEF SavedSpec
<1> HIDE DEF sparse
<1>3. DOMAIN s = DOMAIN r /\ s.pc = "see" /\ s.cmd = r.cmd /\ s.raw = sparse
  BY DEF InitOK
<1> HIDE DEF s
<1>4. sparse # Nil => InitOK(s, input)
  BY <1>2, <1>3 DEF InitOK
<1> QED BY <1>1, <1>4, FailInit DEF KeepsInit

LEMMA SeeInit ==
    ASSUME NEW q \in DOMAIN proc, InitOK(proc[q], input), SeeFile(q) \/ WriteFile(q)
    PROVE  KeepsInit(q)
<1> DEFINE r == proc[q]
           s == [r EXCEPT !.seen = file, !.pc = "write"]
           t == [r EXCEPT !.pc = "done"]
<1>1. \/ Fail(q, "PLATFORM_INVALID")
      \/ r.pc \in {"see", "write"} /\ \E u \in {s, t} : proc' = [proc EXCEPT ![q] = u]
  BY DEF SeeFile, WriteFile, At
<1>2. \A u \in {s, t} : /\ DOMAIN u = DOMAIN r /\ u.pc \in {"write", "done"}
                        /\ u.cmd = r.cmd /\ u.raw = r.raw
  BY DEF InitOK
<1> HIDE DEF s, t
<1>3. r.pc \in {"see", "write"} => \A u \in {s, t} : InitOK(u, input)
  BY <1>2 DEF InitOK
<1> QED BY <1>1, <1>3, FailInit DEF KeepsInit

LEMMA InitInit == Init => InitInv
<1> SUFFICES ASSUME Init PROVE InitInv
  OBVIOUS
<1>1. ASSUME NEW cmd, NEW e PROVE InitOK(NewSession(cmd, e), input)
  <2>1. /\ {"cmd", "pc", "raw"} \subseteq DOMAIN NewSession(cmd, e)
        /\ NewSession(cmd, e).cmd = cmd /\ NewSession(cmd, e).raw = Nil
        /\ cmd = "init" => NewSession(cmd, e).pc = "save"
    BY DEF NewSession, Readers, Preparers, Lenient
  <2> QED BY <2>1 DEF InitOK
<1> QED BY <1>1 DEF Init, InitInv

LEMMA InitNext ==
    ASSUME InitInv, [Next]_vars
    PROVE  InitInv'
<1>0. input \in Inputs /\ \A p \in DOMAIN proc : InitOK(proc[p], input)
  BY DEF InitInv
<1>1. ASSUME NEW q \in DOMAIN proc, KeepsInit(q), input' = input
      PROVE  InitInv'
  <2>1. PICK s : proc' = [proc EXCEPT ![q] = s] /\ InitOK(s, input)
    BY <1>1 DEF KeepsInit
  <2>2. DOMAIN proc' = DOMAIN proc
        /\ \A p \in DOMAIN proc : proc'[p] = IF p = q THEN s ELSE proc[p]
    BY <2>1
  <2> QED BY <1>0, <1>1, <2>1, <2>2 DEF InitInv
<1>2. CASE UNCHANGED vars \/ Terminating \/ SwitchContext \/ EditFile
  <2>1. UNCHANGED <<proc, input>>
    BY <1>2 DEF vars, Terminating, SwitchContext, EditFile
  <2> QED BY <1>0, <2>1 DEF InitInv
<1>3. ASSUME NEW q \in DOMAIN proc,
             \/ ReadPlatform(q) \/ Prepare(q)
             \/ runCrossFile(q) \/ runResolve(q) \/ runManifestOnly(q)
             \/ Target(q) \/ BuildClient(q)
             \/ SaveSpec(q) \/ SeeFile(q) \/ WriteFile(q)
      PROVE  InitInv'
  <2>1. input' = input
    BY <1>3 DEF ReadPlatform, Prepare, runCrossFile, runResolve, runManifestOnly, Target,
                BuildClient, SaveSpec, SeeFile, WriteFile
  <2>2. KeepsInit(q)
    BY <1>0, <1>3, OthersInit, SaveInit, SeeInit
  <2> QED BY <1>1, <2>1, <2>2
<1> QED BY <1>2, <1>3 DEF Next

-----------------------------------------------------------------------------
(* What init has saved.                                                    *)

\* The scaffolded platform file lists the environment, the spec none.
LEMMA AskedFor ==
    ASSUME NEW s, s.envs = <<>>, NEW names, Nil \notin names, NEW e \in names,
           newPlatformEnvironments(names) # Nil
    PROVE  /\ ResolveEnvironment(s, Nil, e) # Nil
           /\ ResolveEnvironment(s, newPlatformEnvironments(names), e) # Nil
<1> DEFINE cfg == newPlatformEnvironments(names)
<1>1. DOMAIN s.envs = {} /\ e # Nil
  OBVIOUS
<1>2. DOMAIN cfg.envs = names /\ cfg # Nil
  BY Scaffolded
<1>3. ResolveEnvironment(s, Nil, e) = e
  BY <1>1 DEF ResolveEnvironment, environmentRegistry, matchEnvKey
<1> HIDE DEF cfg
<1>4. ResolveEnvironment(s, cfg, e) = e
  BY <1>1, <1>2 DEF ResolveEnvironment, environmentRegistry, matchEnvKey, MatchedKey
<1> QED BY <1>1, <1>3, <1>4 DEF cfg

LEMMA InitSaved ==
    ASSUME InitInv, NEW p \in DOMAIN proc, proc[p].cmd = "init", proc[p].raw # Nil
    PROVE  SavedFrom(collectComponents(input.answers, input.names), proc[p].raw)
<1>1. proc[p].raw = SavedSpec(input) /\ input \in Inputs
  BY DEF InitInv, InitOK
<1>2. DOMAIN input.answers \subseteq ToSet(SortedNames)
      /\ \A n \in DOMAIN input.answers : AnswersOK(input.answers[n])
  BY <1>1, InputsAssumption
<1> QED BY <1>1, <1>2, WizardSaves DEF SavedSpec

LEMMA SavedAlwaysLoads ==
    ASSUME InitInv
    PROVE  SavedSpecLoads
<1> DEFINE w == collectComponents(input.answers, input.names)
<1> SUFFICES ASSUME NEW p \in DOMAIN proc, proc[p].cmd = "init", proc[p].raw # Nil,
                    ~ EmptyResources(w), NEW e \in input.names
             PROVE  Load(proc[p].raw, e, Nil, input.files, input.os) = FillSpecWithDefaults(w)
  BY DEF SavedSpecLoads
<1> DEFINE s == proc[p].raw
<1>1. SavedFrom(w, s)
  BY InitSaved
<1>2. Nil \notin input.names /\ newPlatformEnvironments(input.names) # Nil
  BY ScaffoldAssumption DEF InitInv
<1> HIDE DEF w, s
<1>3. s.envs = <<>> /\ ~ EmptyResources(s) /\ FillSpecWithDefaults(s) = FillSpecWithDefaults(w)
  BY <1>1 DEF SavedFrom
<1>4. ResolveEnvironment(s, Nil, e) # Nil
  BY <1>2, <1>3, AskedFor
<1>5. Load(s, e, Nil, input.files, input.os) = FillSpecWithDefaults(s)
  BY <1>1, <1>3, <1>4, SavedLoads
<1> QED BY <1>3, <1>5 DEF s, w

LEMMA SavedAlwaysResolves ==
    ASSUME InitInv
    PROVE  InitThenResolve
<1> SUFFICES ASSUME NEW p \in DOMAIN proc
             PROVE  LET s == proc[p].raw
                        cfg == writePlatformFile(newPlatformEnvironments(input.names)).cfg
                        own == \E n \in DOMAIN s.components :
                                  LET x == s.components[n].expose
                                  IN  x # Nil /\ x.domain \notin {Unset, "public"}
                        metrics == \E n \in DOMAIN s.components : s.components[n].metrics # Nil
                    IN  /\ proc[p].cmd = "init" /\ proc[p].pc = "done" /\ proc[p].seen = Nil
                        /\ ~ EmptyResources(s) /\ ~ BadHosts(s) /\ ~ own /\ ~ metrics
                        => \A e \in input.names \ warnExposeWithoutDomains(s, input.names, cfg) :
                              Resolve(Load(s, e, cfg, input.files, input.os), cfg, e, {}).code = NoCode
  BY DEF InitThenResolve
<1> DEFINE s == proc[p].raw
           cfg == newPlatformEnvironments(input.names)
<1>1. writePlatformFile(cfg).cfg = cfg
  BY Scaffolded
<1>2. ASSUME proc[p].cmd = "init", proc[p].pc = "done", ~ EmptyResources(s), ~ BadHosts(s),
             \A n \in DOMAIN s.components :
                LET x == s.components[n].expose IN x = Nil \/ x.domain \in {Unset, "public"},
             \A n \in DOMAIN s.components : s.components[n].metrics = Nil,
             NEW e \in input.names, e \notin warnExposeWithoutDomains(s, input.names, cfg)
      PROVE  Resolve(Load(s, e, cfg, input.files, input.os), cfg, e, {}).code = NoCode
  <2>1. SavedFrom(collectComponents(input.answers, input.names), s)
    BY <1>2, InitSaved DEF InitInv, InitOK
  <2>2. Nil \notin input.names /\ cfg # Nil
    BY ScaffoldAssumption DEF InitInv
  <2>3. SpecOK(s) /\ ShapeOK(s) /\ SourceOK(s) /\ s.envs = <<>> /\ s.tasks = <<>>
    BY <2>1 DEF SavedFrom
  <2>4. \A n \in DOMAIN s.components : Answered(n, s.components[n])
    <3> SUFFICES ASSUME NEW n \in DOMAIN s.components PROVE Answered(n, s.components[n])
      OBVIOUS
    <3> DEFINE c == s.components[n]
    <3>1. /\ c.profiles = Nil /\ (c.disk = Nil \/ c.disk.class = Unset)
          /\ c.expose = Nil \/ ~ c.expose.apex
      BY <2>1 DEF SavedFrom
    <3>2. c.expose # Nil => subdomainOf(n, c) \notin BadLabels
      BY <1>2 DEF BadHosts
    <3>3. c.metrics = Nil /\ (c.expose = Nil \/ c.expose.domain \in {Unset, "public"})
      BY <1>2
    <3> QED BY <3>1, <3>2, <3>3 DEF Answered
  <2> HIDE DEF s
  <2>5. ResolveEnvironment(s, cfg, e) # Nil
    BY <1>2, <2>2, <2>3, AskedFor
  <2>6. Load(s, e, cfg, input.files, input.os) = FillSpecWithDefaults(s)
    <3> HIDE DEF cfg
    <3> QED BY <1>2, <2>1, <2>5, SavedLoads
  <2>7. Resolve(FillSpecWithDefaults(s), cfg, e, {}).code = Resolve(s, cfg, e, {}).code
    BY <2>3, DefaultsKeepVerdict
  <2>8. Resolve(s, cfg, e, {}).code = NoCode
    BY <1>2, <2>2, <2>3, <2>4, AnsweredResolves DEF SpecOK
  <2> QED BY <2>6, <2>7, <2>8
<1> QED BY <1>1, <1>2

\* What init has saved can be used, whatever the answers: although the file
\* leaves out what the schema fills in, and is not what was validated, it
\* loads in every environment asked for to what the answers mean with the
\* defaults filled in; and with the platform file init writes into an empty
\* directory every environment resolves that it did not warn about. The
\* exceptions are those the property names: an empty resources block, a
\* domain of the user's own, hosts that cannot be, metrics without labels.
THEOREM InitAlwaysRoundTrips == Spec => []InitRoundTrip
<1>1. Init => InitInv
  BY InitInit
<1>2. InitInv /\ [Next]_vars => InitInv'
  BY InitNext
<1>3. InitInv => InitRoundTrip
  BY SavedAlwaysLoads, SavedAlwaysResolves DEF InitRoundTrip
<1> QED BY <1>1, <1>2, <1>3, PTL DEF Spec
=============================================================================
