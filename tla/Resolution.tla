------------------------------- MODULE Resolution -------------------------------
(***************************************************************************)
(* From the spec file and the platform file to what one environment gets:  *)
(* internal/spec/loader.go (Load) and resolve.go (Resolve).                *)
(*                                                                         *)
(* Spec       [components, tasks, envs]; envs gives per key the envFile    *)
(*            and the variable of an override block                        *)
(* Platform   Nil without a file, else [profiles, envs]; an entry is       *)
(*            [ctx, domains, classes, static], a domain                    *)
(*            [base, default, tls]                                         *)
(* Host       a sequence of labels                                         *)
(*                                                                         *)
(* One variable, written Var in a subdomain or domain key, stands for all. *)
(* Messages and the provenance of fields are left out; an error is its     *)
(* code, "" for none.                                                      *)
(***************************************************************************)
EXTENDS Components, EnvKeys

CONSTANTS
    SortedNames,   \* the names of components and tasks in alphabetical order
    BadLabels,     \* labels that are not valid in DNS
    Sanitized      \* .env.<suffix>, with the suffix of sanitizeEnvName

ASSUME NamesAssumption == SortedNames \in Seq(STRING) /\ Unset \notin ToSet(SortedNames)

Var == "${VAR}"

NoEntry == [envFile |-> Unset, var |-> Nil]

firstCode(a, b) == IF a # NoCode THEN a ELSE b

\* The keys of a map that may be nil.
Keys(m) == IF m = Nil THEN {} ELSE DOMAIN m

activeIn(e, envs) == envs = {} \/ matchEnvKey(e, envs)

-----------------------------------------------------------------------------
\* `expose: false` is dropped.
normalizeComponents(s) ==
    [s EXCEPT !.components =
        [n \in DOMAIN @ |-> IF @[n].expose # Nil /\ @[n].expose.off
                            THEN [@[n] EXCEPT !.expose = Nil] ELSE @[n]]]

environmentRegistry(s, plat) == IF plat # Nil THEN DOMAIN plat.envs ELSE DOMAIN s.envs

\* The name that selects the overrides and the env file; Nil is an error.
\* The registry's key replaces the name before the spec's own keys are tried.
ResolveEnvironment(s, plat, e) ==
    LET registry == environmentRegistry(s, plat)
        name == IF registry = {} THEN e ELSE MatchedKey(e, registry)
    IN  IF registry # {} /\ ~matchEnvKey(e, registry) THEN Nil
        ELSE IF matchEnvKey(name, DOMAIN s.envs) THEN MatchedKey(name, DOMAIN s.envs)
        ELSE name

inDeployahDir(file) == ".deployah/" \o file

\* files: the variable each env file on disk sets (Nil: not this one). The
\* first candidate that exists; an explicit envFile has no alternative.
resolveEnvFile(entry, name, files) ==
    LET candidates == <<Sanitized[name], inDeployahDir(Sanitized[name]),
                        ".env", inDeployahDir(".env")>>
        found == {i \in DOMAIN candidates : candidates[i] \in DOMAIN files}
    IN  IF entry.envFile # Unset THEN entry.envFile
        ELSE IF found = {} THEN Unset ELSE candidates[Min(found)]

substituted(v, value) == IF v = Var THEN value ELSE v

substituteExpose(x, value) ==
    [x EXCEPT !.sub = substituted(@, value), !.domain = substituted(@, value)]

substituteComponent(c, value) ==
    IF c.expose = Nil THEN c ELSE [c EXCEPT !.expose = substituteExpose(@, value)]

\* The value of the variable: process environment over env file over entry.
\* A variable nobody sets is an error (external: fluxcd/pkg/envsubst).
SubstituteVariables(s, entry, fromFile, fromOS) ==
    LET value == IF fromOS # Nil THEN fromOS
                 ELSE IF fromFile # Nil THEN fromFile ELSE entry.var
        uses == \E n \in DOMAIN s.components :
                   LET x == s.components[n].expose
                   IN  x # Nil /\ Var \in {x.sub, x.domain}
    IN  IF uses /\ value = Nil THEN Nil
        ELSE [s EXCEPT !.components = [n \in DOMAIN @ |-> substituteComponent(@[n], value)]]

PrescanSubstitutionReport(s) ==
    {n \in DOMAIN s.components : s.components[n].expose # Nil
                                 /\ s.components[n].expose.sub = Var}

\* Nil is an error.
Load(s, e, plat, files, os) ==
    LET name == ResolveEnvironment(s, plat, e)
        entry == IF name \in DOMAIN s.envs THEN s.envs[name] ELSE NoEntry
        file == resolveEnvFile(entry, name, files)
        replaced == SubstituteVariables(s, entry,
                       IF file \in DOMAIN files THEN files[file] ELSE Nil, os)
        final == normalizeComponents(replaced)
    IN  IF name = Nil THEN Nil
        ELSE IF entry.envFile # Unset /\ file \notin DOMAIN files THEN Nil
        ELSE IF replaced = Nil THEN Nil
        ELSE IF ValidateSpecComponents(final) /\ ValidateSpecTasks(final)
             THEN FillSpecWithDefaults(final) ELSE Nil

\* apiVersion and environments are valid in the specs considered here.
ParseManifest(s) == normalizeComponents(s)

-----------------------------------------------------------------------------
\* "" when the environment has no default.
defaultDomainKey(pe) ==
    LET keys == Keys(pe.domains)
        chosen == IF Cardinality(keys) = 1 THEN keys ELSE {k \in keys : pe.domains[k].default}
    IN  IF chosen = {} THEN Unset ELSE CHOOSE k \in chosen : TRUE

domainKeyOf(c, pe) ==
    IF c.expose = Nil THEN Unset
    ELSE IF c.expose.domain # Unset THEN c.expose.domain ELSE defaultDomainKey(pe)

subdomainOf(n, c) == IF c.expose.sub # Nil THEN c.expose.sub ELSE n

hostOf(n, c, domain) ==
    IF c.expose.apex THEN domain.base ELSE <<subdomainOf(n, c)>> \o domain.base

validHost(h) == ToSet(h) \cap BadLabels = {}

\* The expose block alone: domain, then host.
exposeCode(n, c, pe, dynamic) ==
    LET key == domainKeyOf(c, pe)
    IN  IF pe = Nil THEN "PLATFORM_NOT_FOUND"
        ELSE IF key \notin Keys(pe.domains) THEN "DOMAIN_GAP"
        ELSE IF ~validHost(hostOf(n, c, pe.domains[key])) /\ (c.expose.apex \/ ~dynamic)
        THEN "INVALID_DNS" ELSE NoCode

\* Mutant: without a profile there is nothing to check.
MutValidateMergedProfile(c, names, merged, pe, key) ==
    IF names = <<>> THEN NoCode
    ELSE ValidateProfile(c, merged, IF pe = Nil \/ pe.classes = Nil THEN <<>> ELSE pe.classes, key)

\* A nil profile is one of no names. Merging none gives the empty profile,
\* and nothing but this operator tells the two apart.
validateMergedProfile(c, names, merged, pe, key) ==
    IF names # <<>>
    THEN ValidateProfile(c, merged, IF pe = Nil \/ pe.classes = Nil THEN <<>> ELSE pe.classes, key)
    ELSE IF MetricsEnabled(c.metrics) THEN "PROFILE_MONITOR_LABELS_MISSING" ELSE NoCode

\* The logical key: the component's before the profile's.
storageClassKey(c, merged) ==
    IF c.disk # Nil /\ c.disk.class # Unset THEN c.disk.class
    ELSE merged.storageClass

applyResolvedStorageClass(c, merged, pe) ==
    LET key == storageClassKey(c, merged)
    IN  IF key # Unset /\ (pe = Nil \/ key \notin Keys(pe.classes))
        THEN "COMPONENT_STORAGE_CLASS_NOT_FOUND" ELSE NoCode

\* Mutant: only a subdomain that the spec writes out is reported.
MutStaticWarning(c, pe, e, dynamic) ==
    c.expose # Nil /\ c.expose.sub # Nil /\ ~dynamic /\ Prefix[e] # e /\ ~pe.static

\* STATIC_WILDCARD_SUBDOMAIN: the instances of the environment share a host.
staticWarning(c, pe, e, dynamic) ==
    c.expose # Nil /\ ~c.expose.apex /\ ~dynamic /\ Prefix[e] # e /\ ~pe.static

tlsOf(c, pe, key) == IF c.expose = Nil THEN Nil ELSE pe.domains[key].tls

\* dynamic: the subdomain came from a variable. A record with an error
\* carries nothing else.
resolveComponent(n, c, plat, pe, e, dynamic) ==
    LET profs == IF plat = Nil THEN Nil ELSE plat.profiles
        names == ResolveProfileNames(c.profiles, profs)
        merged == MergeProfiles(names, profs)
        key == domainKeyOf(c, pe)
        class == storageClassKey(c, merged)
        code == firstCode(IF c.profiles # Nil /\ plat = Nil THEN "PLATFORM_NOT_FOUND" ELSE NoCode,
                firstCode(ProfileNamesCode(c.profiles, profs),
                firstCode(MergeCode(names, profs),
                firstCode(IF c.expose = Nil THEN NoCode ELSE exposeCode(n, c, pe, dynamic),
                firstCode(validateMergedProfile(c, names, merged, pe, key),
                          applyResolvedStorageClass(c, merged, pe))))))
    IN  IF code # NoCode THEN [code |-> code]
        ELSE [code |-> NoCode, profiles |-> names, merged |-> merged, key |-> key,
              host |-> IF c.expose = Nil THEN <<>> ELSE hostOf(n, c, pe.domains[key]),
              tls |-> tlsOf(c, pe, key),
              class |-> IF class = Unset THEN Unset ELSE pe.classes[class],
              warned |-> staticWarning(c, pe, e, dynamic)]

\* What a profile is asked about a task: it has no metrics.
requestsOnly(t) ==
    [cpu |-> t.cpu, mem |-> t.mem, eph |-> t.eph, preset |-> t.preset, metrics |-> Nil]

\* Tasks take the domain-free part of the same path. `profiles: []` on a
\* task is only an opt-out when there is a platform file.
resolveTask(t, plat, pe) ==
    LET profs == IF plat = Nil THEN Nil ELSE plat.profiles
        names == ResolveProfileNames(t.profiles, profs)
        merged == MergeProfiles(names, profs)
        code == firstCode(IF t.profiles \notin {Nil, <<>>} /\ plat = Nil
                          THEN "PLATFORM_NOT_FOUND" ELSE NoCode,
                firstCode(ProfileNamesCode(t.profiles, profs),
                firstCode(MergeCode(names, profs),
                          validateMergedProfile(requestsOnly(t), names, merged, pe, Unset))))
    IN  IF code # NoCode THEN [code |-> code] ELSE [code |-> NoCode, task |-> t, merged |-> merged]

Matched(plat, e) == plat # Nil /\ matchEnvKey(e, DOMAIN plat.envs)

platformEnvOf(plat, e) ==
    IF Matched(plat, e) THEN plat.envs[MatchedKey(e, DOMAIN plat.envs)] ELSE Nil

\* Components and tasks are taken in the order of their names.
Rank(n) == CHOOSE i \in DOMAIN SortedNames : SortedNames[i] = n

\* Mutant: hostnames are compared per domain.
MutCollides(rcs, n) ==
    \E m \in DOMAIN rcs : /\ Rank(m) < Rank(n) /\ rcs[m].code = NoCode
                         /\ rcs[m].host = rcs[n].host /\ rcs[m].key = rcs[n].key

\* An earlier component has the host.
Collides(rcs, n) ==
    /\ rcs[n].host # <<>>
    /\ \E m \in DOMAIN rcs : /\ Rank(m) < Rank(n) /\ rcs[m].code = NoCode
                            /\ rcs[m].host = rcs[n].host

componentCode(rcs, n) ==
    IF rcs[n].code # NoCode THEN rcs[n].code
    ELSE IF Collides(rcs, n) THEN "FQDN_COLLISION" ELSE NoCode

\* The first error ends the loop.
firstError(codes) ==
    LET failed == {n \in DOMAIN codes : codes[n] # NoCode}
    IN  IF failed = {} THEN NoCode
        ELSE codes[CHOOSE n \in failed : \A m \in failed : Rank(n) <= Rank(m)]

resolveComponents(s, plat, e, dynamics) ==
    [n \in {x \in DOMAIN s.components : activeIn(e, s.components[x].envs)} |->
        resolveComponent(n, s.components[n], plat, platformEnvOf(plat, e), e, n \in dynamics)]

resolveTasks(s, plat, e) ==
    [n \in {x \in DOMAIN s.tasks : activeIn(e, MergedTask(s, x).envs)} |->
        resolveTask(MergedTask(s, n), plat, platformEnvOf(plat, e))]

\* Nothing has been resolved: there is no platform file.
NotResolved == [done |-> FALSE, code |-> NoCode, components |-> <<>>, tasks |-> <<>>]

\* Components before tasks.
resolveErrors(rcs, rts) ==
    firstCode(firstError([n \in DOMAIN rcs |-> componentCode(rcs, n)]),
              firstError([n \in DOMAIN rts |-> rts[n].code]))

\* With an error there is nothing but its code.
ResolvedSpec(code, rcs, rts) ==
    [done |-> TRUE, code |-> code,
     components |-> IF code = NoCode THEN rcs ELSE <<>>,
     tasks |-> IF code = NoCode THEN rts ELSE <<>>]

Resolve(s, plat, e, dynamics) ==
    LET rcs == resolveComponents(s, plat, e, dynamics)
        rts == resolveTasks(s, plat, e)
    IN  ResolvedSpec(firstCode(IF plat # Nil /\ ~Matched(plat, e)
                               THEN "PLATFORM_ENV_NOT_FOUND" ELSE NoCode,
                               resolveErrors(rcs, rts)), rcs, rts)

\* `deployah resolve`: no file is a report, not an error.
ResolveForDisplay(s, plat, e, dynamics) ==
    IF plat = Nil THEN NotResolved
    ELSE Resolve(s, plat, e, dynamics)

PlatformEnvContext(plat, e) == IF Matched(plat, e) THEN platformEnvOf(plat, e).ctx ELSE Unset

\* Without resolution every task of the environment, merged.
EffectiveTasks(s, e, resolved) ==
    IF resolved.done THEN [n \in DOMAIN resolved.tasks |-> resolved.tasks[n].task]
    ELSE [n \in {x \in DOMAIN s.tasks : activeIn(e, MergedTask(s, x).envs)} |-> MergedTask(s, n)]

-----------------------------------------------------------------------------
\* Are there entries that name no environment of the platform file?
unknownEnvironmentNames(s, plat) ==
    LET named == DOMAIN s.envs
                 \cup UNION {s.components[n].envs : n \in DOMAIN s.components}
                 \cup UNION {s.tasks[n].envs : n \in DOMAIN s.tasks}
    IN  \E e \in named : ~matchEnvKey(e, DOMAIN plat.envs)

unknownProfiles(names, plat) ==
    names \notin {Nil, <<>>} /\ ~(ToSet(names) \subseteq Keys(plat.profiles))

\* Mutant: environments are not looked at one by one.
MutDomainGaps(c, plat) == {}

\* The environments of the file in which the component's domain is missing.
domainGaps(c, plat) ==
    {k \in DOMAIN plat.envs :
        /\ activeIn(k, c.envs)
        /\ domainKeyOf(c, plat.envs[k]) \notin Keys(plat.envs[k].domains)}

CrossCheckPlatformReferences(s, plat) ==
    LET comps == {s.components[n] : n \in DOMAIN s.components}
        checked == {c \in comps : c.expose # Nil /\ c.expose.domain # Var}
        nowhere(c) == /\ c.expose.domain # Unset
                      /\ \A k \in DOMAIN plat.envs : c.expose.domain \notin Keys(plat.envs[k].domains)
    IN  [problems |-> \/ \E c \in comps : unknownProfiles(c.profiles, plat)
                      \/ \E n \in DOMAIN s.tasks : unknownProfiles(s.tasks[n].profiles, plat)
                      \/ \E c \in checked : nowhere(c),
         warnings |-> \/ unknownEnvironmentNames(s, plat)
                      \/ \E c \in checked : domainGaps(c, plat) # {}]
=============================================================================
