------------------------------- MODULE Alerts -------------------------------
(***************************************************************************)
(* The registry of the alerts (backend/services/alerts.py): at every round *)
(* of the collector the rules are evaluated on the snapshot just taken,    *)
(* the registry remembers since when each alert has been there, waits, and *)
(* leaves out what is silenced.  The configuration is read again from the  *)
(* file when the file has changed (live_alerts_config); the page silences  *)
(* an alert through routers/alerts.py.                                     *)
(*                                                                         *)
(* What goes wrong is chosen once for a behaviour (alWorld) and comes and  *)
(* goes from round to round.  The list is a set: its order and its counts  *)
(* are left out, and so is the level a configuration may impose.           *)
(***************************************************************************)
EXTENDS AlertRules

CONSTANTS
    AlWorlds,    \* what may be reported: snapshots with something wrong, by name
    AlQuiet,     \* a snapshot with nothing wrong
    AlWait,      \* how long each kind of wait is
    AlBreaks,    \* rules that may raise
    AlForget,    \* FINESTRA_OBLIO
    AlEdits,     \* configurations the owner may write by hand
    AlSilences,  \* what a request may silence: [rule, subject], subject "" for all
    AlRequests,  \* the requests to silence
    AlMaxTime,   \* bound on the clock
    AlMaxRounds, \* bound on the rounds of a run of the process
    AlMaxWrites  \* bound on the changes of the file

\* The collector has its section in every snapshot; the waits are lengths.
ASSUME AlSnapshots ==
    "sources" \in DOMAIN AlQuiet /\ \A w \in DOMAIN AlWorlds : "sources" \in DOMAIN AlWorlds[w]
ASSUME AlLengths ==
    AlForget \in Nat /\ AlWait \in [{"0", "60", "120", "300"} -> Nat]

VARIABLES
    alWorld,   \* what goes wrong in this behaviour, by name
    alNow,     \* the clock
    alSource,  \* sources["docker"], as _sorgente_ok and _sorgente_ko leave it
    alFile,    \* config.yaml: the section, its mtime, whether it can be read
    alGen,     \* generazione(): the saves of this process
    alCache,   \* _cache of live_alerts_config
    alBoot,    \* settings.alerts, the configuration of the start
    alPrimo,   \* _primo: when each known alert was first seen
    alVisto,   \* _visto: when it was last seen
    alList,    \* snapshot["alerts"]
    alRequest, \* the requests to silence
    alAnswered,\* history: the silences answered with success and not withdrawn since
    alRounds,  \* history: the rounds of this run, with what they saw
    alWrites   \* history: the changes of the file

alRegistry == <<alPrimo, alVisto, alList>>
alConfig == <<alFile, alGen, alBoot>>
alVars == <<alWorld, alNow, alSource, alConfig, alCache, alRegistry, alRequest,
            alAnswered, alRounds, alWrites>>

-----------------------------------------------------------------------------
\* A section of the configuration: `off` and `on` are the rules an override switches,
\* `waits` the lengths it imposes.
NoConfig == [enabled |-> TRUE, off |-> {}, on |-> {}, waits |-> <<>>, silenced |-> {}]

\* What the file may hold: the edits, and the silences over them.
AlConfigs ==
    LET written == AlEdits \cup {NoConfig} IN
    [enabled : BOOLEAN, off : {c.off : c \in written}, on : {c.on : c \in written},
     waits : {c.waits : c \in written}, silenced : SUBSET AlSilences]

ASSUME AlEditsOfConfigs ==
    /\ AlEdits \subseteq AlConfigs
    /\ \A c \in AlEdits : \A key \in DOMAIN c.waits : c.waits[key] \in Nat

NoCache == [mtime |-> 0, gen |-> -1, cfg |-> NoConfig]

SourceUp(t) == [name |-> "docker", ok |-> TRUE, ts |-> t, since |-> 0, fails |-> 0]

AlInit ==
    /\ alWorld \in DOMAIN AlWorlds
    /\ alNow = 1
    /\ alSource = SourceUp(0)
    /\ alFile = [cfg |-> NoConfig, mtime |-> 0, readable |-> TRUE]
    /\ alGen = 0
    /\ alCache = NoCache
    /\ alBoot = NoConfig
    /\ alPrimo = <<>>
    /\ alVisto = <<>>
    /\ alList = {}
    /\ alRequest = [r \in AlRequests |-> [at |-> "idle"]]
    /\ alAnswered = {}
    /\ alRounds = <<>>
    /\ alWrites = 0

AlTick ==
    /\ alNow < AlMaxTime
    /\ alNow' = alNow + 1
    /\ UNCHANGED <<alWorld, alSource, alConfig, alCache, alRegistry, alRequest,
                   alAnswered, alRounds, alWrites>>

-----------------------------------------------------------------------------
\* _sorgente_ko: `since` and `fails` go on from a failure before this one.
SourceDown(s) ==
    [s EXCEPT !.ok = FALSE,
              !.since = IF s.since # 0 THEN s.since ELSE alNow,
              !.fails = s.fails + 1]

\* Slip: only the mtime tells whether the file has changed.
CacheFreshSlip == alCache.gen >= 0 /\ alCache.mtime = alFile.mtime

\* The cache is good while neither the mtime nor the count of the saves has moved.
CacheFresh == /\ alCache.gen >= 0
              /\ alCache.mtime = alFile.mtime
              /\ alCache.gen = alGen

\* live_alerts_config: the cache, the file, or what the process started with.
LiveConfig ==
    IF ~ alFile.readable THEN alBoot
    ELSE IF CacheFresh THEN alCache.cfg
    ELSE alFile.cfg

CacheAfter ==
    IF alFile.readable /\ ~ CacheFresh
    THEN [mtime |-> alFile.mtime, gen |-> alGen, cfg |-> alFile.cfg]
    ELSE alCache

Abilitata(cfg, rule) == (rule.on \/ rule.key \in cfg.on) /\ rule.key \notin cfg.off

Attesa(cfg, rule) ==
    IF rule.key \in DOMAIN cfg.waits THEN cfg.waits[rule.key] ELSE AlWait[rule.min]

\* A silence without a subject is about the whole rule.
Zittito(cfg, a) ==
    \E s \in cfg.silenced : s.rule = a.rule /\ s.subject \in {"", a.subject}

IdOf(a) == <<a.rule, a.subject>>

\* What the enabled rules make, in the order of the catalogue; of two alerts with one
\* identity the first stays.  A rule that raises makes nothing.
Visti(cfg, snap, broken) ==
    LET made == [i \in DOMAIN CATALOGO |->
            IF Abilitata(cfg, CATALOGO[i]) /\ CATALOGO[i].key \notin broken
            THEN Prodotti(CATALOGO[i].key, snap, alNow)
            ELSE <<>>]
        places == UNION {{i} \X DOMAIN made[i] : i \in DOMAIN made}
        Before(p, q) == p[1] < q[1] \/ (p[1] = q[1] /\ p[2] < q[2])
        Made(p) == made[p[1]][p[2]]
    IN  {Made(p) : p \in {q \in places :
            \A e \in places : Before(e, q) => IdOf(Made(e)) # IdOf(Made(q))}}

-----------------------------------------------------------------------------
\* Slip: what is not there now is forgotten at once.
ScordatiSlip(ids) == DOMAIN alVisto \ ids

\* _scorda: what is not there now and was last seen longer ago than the window.
Scordati(ids) == {id \in DOMAIN alVisto \ ids : alNow - alVisto[id] > AlForget}

\* _primo.setdefault, after _scorda.
Primo(cfg, seen, ids) ==
    LET kept == DOMAIN alPrimo \ Scordati(ids) IN
    [id \in kept \cup ids |-> IF id \in kept THEN alPrimo[id] ELSE alNow]

\* Slip: the time of the last sight is never forgotten.
VistoSlip(ids) ==
    [id \in DOMAIN alVisto \cup ids |-> IF id \in ids THEN alNow ELSE alVisto[id]]

\* _visto: every alert that is there now was seen now, silenced or not.
Visto(ids) ==
    [id \in (DOMAIN alVisto \ Scordati(ids)) \cup ids |->
        IF id \in ids THEN alNow ELSE alVisto[id]]

\* Of the alerts there are, those that are not silenced and have lasted long enough;
\* a beginning that the rule declares comes before the first sight.
Fuori(cfg, seen, primo) ==
    LET Since(a) == IF a.since # 0 THEN a.since ELSE primo[IdOf(a)]
        Rings(a) == /\ ~ Zittito(cfg, a)
                    /\ alNow - Since(a) >= Attesa(cfg, Rule(a.rule))
    IN  {[a EXCEPT !.since = Since(a)] : a \in {x \in seen : Rings(x)}}

\* AlertRegistry.build.  Switched off, it forgets everything.
Build(snap, broken) ==
    LET cfg == LiveConfig
        seen == Visti(cfg, snap, broken)
        ids == {IdOf(a) : a \in seen}
        primo == Primo(cfg, seen, ids)
    IN  /\ alCache' = CacheAfter
        /\ IF cfg.enabled
           THEN /\ alPrimo' = primo
                /\ alVisto' = Visto(ids)
                /\ alList' = Fuori(cfg, seen, primo)
           ELSE /\ alPrimo' = <<>>
                /\ alVisto' = <<>>
                /\ alList' = {}
        /\ alRounds' = Append(alRounds,
              [t |-> alNow, on |-> cfg.enabled, down |-> ~ alSource'.ok,
               seen |-> IF cfg.enabled THEN seen ELSE {},
               file |-> IF alFile.readable THEN alFile.cfg ELSE alBoot])

\* A round of the collector: the sources answer or do not, then _aggiorna_alert.
Round ==
    \E wrong \in BOOLEAN : \E broken \in SUBSET IF wrong THEN AlBreaks ELSE {} :
        LET base == IF wrong THEN AlWorlds[alWorld] ELSE AlQuiet
            source == IF wrong /\ AlWorlds[alWorld].sourceDown
                      THEN SourceDown(alSource) ELSE SourceUp(alNow)
        IN  /\ Len(alRounds) < AlMaxRounds
            /\ alRounds # <<>> => alRounds[Len(alRounds)].t < alNow
            /\ alSource' = source
            /\ Build([base EXCEPT !.sources = <<source>>], broken)
            /\ UNCHANGED <<alWorld, alNow, alConfig, alRequest, alAnswered, alWrites>>

-----------------------------------------------------------------------------
\* The owner edits the file by hand; a typing error makes it unreadable.  Two writes
\* of the file in one tick of its clock can only be two saves of the process.
EditFile ==
    \E cfg \in AlEdits \cup {alFile.cfg} : \E readable \in BOOLEAN :
        /\ IF cfg = alFile.cfg THEN readable # alFile.readable ELSE readable
        /\ alFile.mtime < alNow
        /\ alWrites < AlMaxWrites
        /\ alWrites' = alWrites + 1
        /\ alFile' = [cfg |-> cfg, mtime |-> alNow, readable |-> readable]
        /\ alAnswered' = alAnswered \cap cfg.silenced
        /\ UNCHANGED <<alWorld, alNow, alSource, alGen, alBoot, alCache, alRegistry,
                       alRequest, alRounds>>

\* POST /silence: the list is read at once, and saved by a worker thread.
SilenceRead(r) ==
    \E s \in AlSilences :
        /\ alRequest[r].at = "idle"
        /\ alFile.readable
        /\ IF s \in alFile.cfg.silenced
           THEN alAnswered' = alAnswered \cup {s} /\ UNCHANGED alRequest
           ELSE /\ alRequest' = [alRequest EXCEPT ![r] =
                        [at |-> "saving", what |-> s, list |-> alFile.cfg.silenced \cup {s}]]
                /\ UNCHANGED alAnswered
        /\ UNCHANGED <<alWorld, alNow, alSource, alConfig, alCache, alRegistry, alRounds,
                       alWrites>>

\* save_section("alerts_silenced", list): the list replaces the one of the file.  When
\* the file cannot be parsed the request fails.
SilenceSave(r) ==
    /\ alRequest[r].at = "saving"
    /\ alRequest' = [alRequest EXCEPT ![r] = [at |-> "idle"]]
    /\ IF alFile.readable
       THEN /\ alWrites < AlMaxWrites
            /\ alWrites' = alWrites + 1
            /\ alFile' = [alFile EXCEPT !.cfg.silenced = alRequest[r].list, !.mtime = alNow]
            /\ alGen' = alGen + 1
            /\ alAnswered' = alAnswered \cup {alRequest[r].what}
       ELSE UNCHANGED <<alFile, alGen, alAnswered, alWrites>>
    /\ UNCHANGED <<alWorld, alNow, alSource, alBoot, alCache, alRegistry, alRounds>>

\* The process starts again: its memory is gone, the file is what it starts with.
AlRestart ==
    /\ alFile.readable
    /\ alRounds # <<>>
    /\ alBoot' = alFile.cfg
    /\ alGen' = 0
    /\ alCache' = NoCache
    /\ alSource' = SourceUp(0)
    /\ alPrimo' = <<>>
    /\ alVisto' = <<>>
    /\ alList' = {}
    /\ alRequest' = [r \in AlRequests |-> [at |-> "idle"]]
    /\ alRounds' = <<>>
    /\ UNCHANGED <<alWorld, alNow, alFile, alAnswered, alWrites>>

AlNext ==
    \/ AlTick
    \/ Round
    \/ EditFile
    \/ \E r \in AlRequests : SilenceRead(r) \/ SilenceSave(r)
    \/ AlRestart

AlSpec == AlInit /\ [][AlNext]_alVars

-----------------------------------------------------------------------------
Silences == SUBSET AlSilences

AlTypeOK ==
    /\ alWorld \in DOMAIN AlWorlds
    /\ alNow \in 1 .. AlMaxTime
    /\ alSource.fails \in 0 .. AlMaxRounds
    /\ alFile.cfg.silenced \in Silences
    /\ alFile.mtime \in 0 .. AlMaxTime
    /\ alGen \in Nat
    /\ alCache.gen \in -1 .. alGen
    /\ DOMAIN alPrimo = DOMAIN alVisto
    /\ \A id \in DOMAIN alPrimo : alPrimo[id] <= alVisto[id] /\ alVisto[id] <= alNow
    /\ \A r \in AlRequests : alRequest[r].at \in {"idle", "saving"}
    /\ alAnswered \in Silences
    /\ Len(alRounds) <= AlMaxRounds
    /\ alWrites \in 0 .. AlMaxWrites

\* The identities a round saw.
SeenAt(k) == {IdOf(a) : a \in alRounds[k].seen}

\* The rounds of the run with this alert.
Sightings(id) == {k \in DOMAIN alRounds : id \in SeenAt(k)}

\* A round broke the episode that round k is in: the registry was off, or the alert was
\* not there and had not been for longer than the window.
Broken(id, j) ==
    \/ ~ alRounds[j].on
    \/ /\ id \notin SeenAt(j)
       /\ \A k \in Sightings(id) : k < j => alRounds[j].t - alRounds[k].t > AlForget

\* The round in which the episode that is on now began.
Began(id) ==
    CHOOSE k \in Sightings(id) :
        /\ \A j \in k .. Len(alRounds) : ~ Broken(id, j)
        /\ \A i \in Sightings(id) :
            i < k => \E j \in i .. k : Broken(id, j)

\* `since` is when the episode began: an absence shorter than the window, a silence, a
\* change of text or of the level, a configuration read again do not move it; a longer
\* absence and a registry switched off do.  (AlertRegistry.build and _scorda; for a
\* source, _sorgente_ko: the first of the failures in a row.)
SinceIsEpisode ==
    \A a \in alList :
        \/ a.rule = "wireguard.relay_giu"
        \/ /\ a.rule = "collector.sorgente_giu"
           /\ \E k \in DOMAIN alRounds :
                /\ a.since = alRounds[k].t
                /\ \A j \in k .. Len(alRounds) : alRounds[j].down
                /\ k > 1 => ~ alRounds[k - 1].down
        \/ a.since = alRounds[Began(IdOf(a))].t

LastRound == alRounds[Len(alRounds)]

\* What was there in every round of the wait, and longer, rings, and so does what is
\* declared to have begun that long ago; what the file says to leave out does not, from
\* the first round after a save on.  (build, live_alerts_config and its two counters,
\* _attesa, _zittito.)
ListedRight ==
    alRounds # <<>> =>
        /\ \A a \in alList :
            /\ ~ Zittito(LastRound.file, a)
            /\ Abilitata(LastRound.file, Rule(a.rule))
            /\ LastRound.file.enabled
        /\ \A a \in LastRound.seen :
            LET wait == Attesa(LastRound.file, Rule(a.rule))
                long == {k \in Sightings(IdOf(a)) : LastRound.t - alRounds[k].t >= wait} IN
            /\ ~ Zittito(LastRound.file, a)
            /\ \/ a.since # 0 /\ LastRound.t - a.since >= wait
               \/ a.since = 0 /\ \E k \in long : \A j \in k .. Len(alRounds) :
                                               j \in Sightings(IdOf(a))
            => \E b \in alList : IdOf(b) = IdOf(a)

\* A silence that was answered with success is in the file until it is withdrawn.
\* (silence_alert: its comment gives the loss of an edit as the reason it exists.)
SilenceKept == alFile.readable => alAnswered \subseteq alFile.cfg.silenced
=============================================================================
