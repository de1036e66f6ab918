--------------------------- MODULE IngestorProcess ---------------------------
(***************************************************************************)
(* One process from its entry point to its exit (run.py): configuration    *)
(* (core/config.py), the ingestor's universe and wiring (marketdata/       *)
(* runtime.py), the dependency probes, of the ingestor's preflight and of  *)
(* the API's /ops/ready (observability/readiness.py, api/health.py), the   *)
(* resolver and the first chains (providers/upstox/provider.py), and the   *)
(* signals that stop it.  A step ends at an await; up to the first probe   *)
(* there is none, and no signal handler either.                            *)
(*                                                                         *)
(* What streams while it collects is FeedLifecycle's.                      *)
(***************************************************************************)
EXTENDS Naturals, Sequences, FiniteSets, SequencesExt

CONSTANTS
    VendorKeys,     \* the keys the provider knows instruments by
    Shards,         \* the lists of (vendor key, instrument id) a document may hold
    MaxChains       \* bound: expiries of a document

ASSUME ProcessAssumption == (\A s \in Shards : s \in Seq(VendorKeys \X Nat)) /\ MaxChains \in Nat

VARIABLES
    args,           \* the command line: [role, check]
    settings,       \* the environment it is launched in
    universe,       \* the document that describes the shard, once read
    stage,          \* where the process is
    code,           \* its exit code; 1 is a traceback
    reported,       \* what a refusal named
    results,        \* the probes made so far, in order
    answer,         \* what /ops/ready said last
    resolver,       \* InstrumentResolver._by_key
    subscribed,        \* the instruments of the capacity plan
    pending,        \* chains not yet anchored
    saved,          \* instruments with an observation in the store
    session,        \* the feed session: "none", "open", "closed"
    collecting,     \* CanonicalCollector._running
    told            \* the stage at which shutdown ran, or "never"

processVars == <<args, settings, universe, stage, code, reported, results, answer, resolver,
                 subscribed, pending, saved, session, collecting, told>>

Secret == {"none", "placeholder", "short", "real"}

(* Both secrets are read the same way: only one takes every form here.     *)
Environments ==
    [app_env : {"production", "development", "other"}, role : {"all", "ingestor", "other"},
     database : {"none", "sqlite", "postgres"}, session_key : Secret, token_key : {"none", "real"},
     origins : BOOLEAN, debug : BOOLEAN]

(* _require_secret.                                                        *)
Unfit(secret) == secret # "real"

\* Mutant: the first problem only.
FirstProblem(s) ==
    IF s.app_env = "other" THEN {"APP_ENV"}
    ELSE IF s.role = "other" THEN {"ROLE"}
    ELSE IF s.database = "none" THEN {"DATABASE_URL"}
    ELSE IF Unfit(s.session_key) THEN {"SESSION_SECRET_KEY"}
    ELSE {}

(* load_settings: everything that is wrong, together.                      *)
Problems(s) ==
    LET live == s.app_env = "production"
    IN  {p \in {"APP_ENV"} : s.app_env = "other"}
        \cup {p \in {"ROLE"} : s.role = "other"}
        \cup {p \in {"DATABASE_URL"} : s.database = "none" \/ (live /\ s.database = "sqlite")}
        \cup {p \in {"SESSION_SECRET_KEY"} : Unfit(s.session_key)}
        \cup {p \in {"TOKEN_ENCRYPTION_KEY"} : Unfit(s.token_key)}
        \cup {p \in {"ALLOWED_ORIGINS"} : live /\ ~s.origins}
        \cup {p \in {"DEBUG"} : live /\ s.debug}

Role == IF args.role = "all" THEN settings.role ELSE args.role

(* The document: absent, refused as a whole, a field that is not what its  *)
(* conversion expects, or a list of (vendor key, instrument id) with the   *)
(* number of expiries bound.                                               *)
Document(kind, entries, chains) == [kind |-> kind, entries |-> entries, chains |-> chains]

Documents ==
    {Document(kind, <<>>, 0) : kind \in {"absent", "malformed", "unconvertible"}}
    \cup {Document("whole", entries, chains) : entries \in Shards, chains \in 0 .. MaxChains}

CommandLines == [role : {"api", "ingestor", "processor", "all"}, check : BOOLEAN]

ProcessInit ==
    /\ args = [role |-> "none", check |-> FALSE]
    /\ settings = [role |-> "none"]
    /\ universe = Document("unread", <<>>, 0)
    /\ stage = "down"
    /\ code = 0
    /\ reported = {}
    /\ results = <<>>
    /\ answer = "none"
    /\ resolver = [key \in VendorKeys |-> <<>>]
    /\ subscribed = {}
    /\ pending = 0
    /\ saved = {}
    /\ session = "none"
    /\ collecting = FALSE
    /\ told = "never"

End(exit, named) ==
    /\ stage' = "ended"
    /\ code' = exit
    /\ reported' = named
    /\ UNCHANGED <<args, settings, universe, results, answer, resolver, subscribed, pending, saved,
                   session, collecting, told>>

MoveTo(next) ==
    /\ stage' = next
    /\ UNCHANGED <<args, settings, code, reported, answer, resolver, subscribed, pending, saved,
                   session, collecting, told>>
-----------------------------------------------------------------------------
Launch(line, environment) ==
    /\ stage = "down"
    /\ args' = line
    /\ settings' = environment
    /\ stage' = "booting"
    /\ UNCHANGED <<universe, code, reported, results, answer, resolver, subscribed, pending, saved,
                   session, collecting, told>>

(* main: configuration first, and every problem of it.                     *)
RefuseSettings ==
    /\ stage = "booting"
    /\ Problems(settings) # {}
    /\ End(2, Problems(settings))

CheckOnly ==
    /\ stage = "booting"
    /\ Problems(settings) = {}
    /\ args.check
    /\ End(0, {})

NoRuntime ==
    /\ stage = "booting"
    /\ Problems(settings) = {}
    /\ ~args.check
    /\ Role \notin {"api", "ingestor"}
    /\ End(4, {"role"})

Dispatch ==
    /\ stage = "booting"
    /\ Problems(settings) = {}
    /\ ~args.check
    /\ Role \in {"api", "ingestor"}
    /\ MoveTo(IF Role = "api" THEN "serving" ELSE "reading")
    /\ UNCHANGED <<universe, results>>

(* A field that cannot be converted is not a configuration error.          *)
RefuseUniverse(document) ==
    /\ stage = "reading"
    /\ document.kind # "whole"
    /\ End(IF document.kind = "unconvertible" THEN 1 ELSE 2, {"universe"})

ReadUniverse(document) ==
    /\ stage = "reading"
    /\ document.kind = "whole"
    /\ universe' = document
    /\ MoveTo("wiring")
    /\ UNCHANGED results

RefuseWiring(missing) ==
    /\ stage = "wiring"
    /\ End(CASE missing = "package" -> 3 [] missing = "token" -> 2 [] missing = "decoder" -> 7,
           {missing})

Wire ==
    /\ stage = "wiring"
    /\ MoveTo("probing")
    /\ UNCHANGED <<universe, results>>

(* A request to /ops/ready.                                                *)
AskReady ==
    /\ stage = "serving"
    /\ MoveTo("probing")
    /\ results' = <<>>
    /\ UNCHANGED universe

(* The packages that tell the roles apart.                                 *)
Requirements == [all |-> {"fastapi", "redis"}, ingestor |-> {"websockets", "redis"}]

(* The API probes the role of its settings, whatever the command line says.*)
ProbedRole == IF Role = "api" THEN settings.role ELSE Role

RuntimeReady(installed) ==
    ProbedRole \in DOMAIN Requirements /\ Requirements[ProbedRole] \subseteq installed

ProbeNames == IF Role = "api" THEN <<"postgres", "redis", "runtime_dependencies">>
              ELSE <<"runtime_dependencies", "postgres", "redis">>

(* The next probe, in turn; each ends by its timeout, and none raises.     *)
Probe(ok) ==
    /\ stage = "probing"
    /\ Len(results) < Len(ProbeNames)
    /\ results' = Append(results, ok)
    /\ MoveTo("probing")
    /\ UNCHANGED universe

(* The runtime probe looks for packages, the others ask their server.      *)
ProbeOutcomes ==
    IF Len(results) < Len(ProbeNames) /\ ProbeNames[Len(results) + 1] = "runtime_dependencies"
    THEN {RuntimeReady(installed) : installed \in SUBSET UNION Range(Requirements)}
    ELSE BOOLEAN

Probed == stage = "probing" /\ Len(results) = Len(ProbeNames)
Failed == {ProbeNames[n] : n \in {m \in DOMAIN results : ~results[m]}}

AnswerReady ==
    /\ Probed
    /\ Role = "api"
    /\ answer' = IF Failed = {} THEN "ready" ELSE "unready"
    /\ stage' = "serving"
    /\ UNCHANGED <<args, settings, universe, code, reported, results, resolver, subscribed, pending,
                   saved, session, collecting, told>>

(* preflight raises before anything is built that shutdown would close.    *)
RefusePreflight ==
    /\ Probed
    /\ Role = "ingestor"
    /\ Failed # {}
    /\ End(6, Failed)
-----------------------------------------------------------------------------
Open == 0

(* Registering a key again ends the mapping in force from then on.         *)
Register(windows, id, at) ==
    Append([n \in DOMAIN windows |->
              IF windows[n].to = Open /\ windows[n].from < at THEN [windows[n] EXCEPT !.to = at]
              ELSE windows[n]],
           [from |-> at, to |-> Open, id |-> id])

InForce(windows, at) ==
    {n \in DOMAIN windows :
        windows[n].from <= at /\ (windows[n].to = Open \/ at < windows[n].to)}

\* Mutant: the oldest mapping that applies.
ResolveOldest(windows, at) ==
    {windows[n].id : n \in {m \in InForce(windows, at) : \A k \in InForce(windows, at) : m <= k}}

(* The newest mapping in force at an instant, if there is any.             *)
Resolve(windows, at) ==
    {windows[n].id : n \in {m \in InForce(windows, at) : \A k \in InForce(windows, at) : k <= m}}

Now == 1

Bind(mappings, entry) == [mappings EXCEPT ![entry[1]] = Register(@, entry[2], Now)]

(* bind registers the entries one after the other.                         *)
Bound ==
    LET entries == universe.entries
        after[n \in 0 .. Len(entries)] ==
            IF n = 0 THEN resolver
            ELSE Bind(after[n - 1], entries[n])
    IN  after[Len(entries)]

Listed == {universe.entries[n][2] : n \in DOMAIN universe.entries}

(* The planner finds no way to fit the shard, and nothing catches it.      *)
RefuseCapacity ==
    /\ Probed
    /\ Role = "ingestor"
    /\ Failed = {}
    /\ End(1, {"capacity"})

(* bind and plan; then the session is opened, before the first fetch.      *)
StartIngestor ==
    /\ Probed
    /\ Role = "ingestor"
    /\ Failed = {}
    /\ resolver' = Bound
    /\ subscribed' = Listed
    /\ session' = "open"
    /\ pending' = universe.chains
    /\ stage' = "anchoring"
    /\ UNCHANGED <<args, settings, universe, code, reported, results, answer, saved, collecting,
                   told>>

(* The observations a response is turned into: legs whose key resolves to  *)
(* no instrument are dropped.                                              *)
Normalised(keys) == UNION {Resolve(resolver[key], Now) : key \in keys}

(* A fetch that fails is logged, and the next chain is fetched.            *)
AnchorFetchFails ==
    /\ stage = "anchoring"
    /\ pending > 0
    /\ pending' = pending - 1
    /\ UNCHANGED <<args, settings, universe, stage, code, reported, results, answer, resolver,
                   subscribed, saved, session, collecting, told>>

AnchorChain(keys) ==
    /\ stage = "anchoring"
    /\ pending > 0
    /\ saved' = saved \cup Normalised(keys)
    /\ pending' = pending - 1
    /\ UNCHANGED <<args, settings, universe, stage, code, reported, results, answer, resolver,
                   subscribed, session, collecting, told>>

(* Storing a chain is outside the try, and outside the finally of run.     *)
AnchorStoreFails(keys) ==
    /\ stage = "anchoring"
    /\ pending > 0
    /\ Normalised(keys) # {}
    /\ End(1, {"store"})

(* CanonicalCollector.run starts whatever shutdown has said before.        *)
StartCollecting ==
    /\ stage = "anchoring"
    /\ pending = 0
    /\ collecting' = TRUE
    /\ stage' = "collecting"
    /\ UNCHANGED <<args, settings, universe, code, reported, results, answer, resolver, subscribed,
                   pending, saved, session, told>>

Collect(key) ==
    /\ stage = "collecting"
    /\ saved' = saved \cup Normalised({key})
    /\ UNCHANGED <<args, settings, universe, stage, code, reported, results, answer, resolver,
                   subscribed, pending, session, collecting, told>>

(* A gap of the feed has a chain fetched again, the way it was anchored.   *)
RecoverChain(keys) ==
    /\ stage = "collecting"
    /\ universe.chains > 0
    /\ saved' = saved \cup Normalised(keys)
    /\ UNCHANGED <<args, settings, universe, stage, code, reported, results, answer, resolver,
                   subscribed, pending, session, collecting, told>>

(* Round the loop, after a sleep or a stream that ended: the finally has   *)
(* nothing left to do, since only shutdown clears the flag.                *)
LeaveLoop ==
    /\ stage = "collecting"
    /\ ~collecting
    /\ End(0, {})

\* Mutant: the session is closed and the collector is not told.
SignalSessionOnly ==
    /\ Role = "ingestor"
    /\ stage \in {"probing", "anchoring", "collecting"}
    /\ told = "never"
    /\ told' = stage
    /\ session' = IF session = "open" THEN "closed" ELSE session
    /\ UNCHANGED <<args, settings, universe, stage, code, reported, results, answer, resolver,
                   subscribed, pending, saved, collecting>>

\* Mutant: the collector is told and the session left as it is.
SignalCollectorOnly ==
    /\ Role = "ingestor"
    /\ stage \in {"probing", "anchoring", "collecting"}
    /\ told = "never"
    /\ told' = stage
    /\ collecting' = FALSE
    /\ UNCHANGED <<args, settings, universe, stage, code, reported, results, answer, resolver,
                   subscribed, pending, saved, session>>

(* SIGTERM or SIGINT: shutdown, which does its work once.                  *)
SignalArrives ==
    /\ Role = "ingestor"
    /\ stage \in {"probing", "anchoring", "collecting"}
    /\ told = "never"
    /\ told' = stage
    /\ collecting' = FALSE
    /\ session' = IF session = "open" THEN "closed" ELSE session
    /\ UNCHANGED <<args, settings, universe, stage, code, reported, results, answer, resolver,
                   subscribed, pending, saved>>

ProcessNext ==
    \/ \E line \in CommandLines, environment \in Environments : Launch(line, environment)
    \/ RefuseSettings
    \/ CheckOnly
    \/ NoRuntime
    \/ Dispatch
    \/ \E document \in Documents : RefuseUniverse(document) \/ ReadUniverse(document)
    \/ \E missing \in {"package", "token", "decoder"} : RefuseWiring(missing)
    \/ Wire
    \/ AskReady
    \/ \E ok \in ProbeOutcomes : Probe(ok)
    \/ AnswerReady
    \/ RefusePreflight
    \/ RefuseCapacity
    \/ StartIngestor
    \/ AnchorFetchFails
    \/ \E keys \in SUBSET VendorKeys : AnchorChain(keys) \/ AnchorStoreFails(keys) \/ RecoverChain(keys)
    \/ StartCollecting
    \/ \E key \in VendorKeys : Collect(key)
    \/ LeaveLoop
    \/ SignalArrives

(* Each probe ends by its timeout, and each turn of the loop by its sleep. *)
ProcessFairness ==
    /\ WF_processVars((\E ok \in ProbeOutcomes : Probe(ok)) \/ AnswerReady \/ RefusePreflight
                        \/ RefuseCapacity \/ StartIngestor)
    /\ WF_processVars(LeaveLoop)

ProcessSpec == ProcessInit /\ [][ProcessNext]_processVars /\ ProcessFairness
-----------------------------------------------------------------------------
Working == stage \in {"anchoring", "collecting"}

(* A start is refused for all its reasons, or has none: no process works   *)
(* with a setting, a probe or a universe it should have refused, and a     *)
(* refusal names every setting and every probe that is wrong.              *)
StartsAreEarned ==
    /\ (Working \/ answer # "none") => Problems(settings) = {}
    /\ Working => (Failed = {} /\ Len(results) = 3 /\ universe.kind = "whole")
    /\ code = 6 => Len(results) = 3
    /\ (stage = "ended" /\ code = 2) =>
          \/ /\ (settings.session_key # "real" <=> "SESSION_SECRET_KEY" \in reported)
             /\ (settings.token_key = "none" <=> "TOKEN_ENCRYPTION_KEY" \in reported)
             /\ (settings.app_env = "production" /\ settings.debug) <=> "DEBUG" \in reported
          \/ Problems(settings) = {}

(* What is stored is the instrument the last entry of a key names, which   *)
(* the capacity plan counted; with no key twice, every id of the plan can  *)
(* be resolved.                                                            *)
StoresWhatItPlanned ==
    LET entries == universe.entries
        last == {entries[n][2] : n \in {m \in DOMAIN entries :
                    \A k \in DOMAIN entries : entries[k][1] = entries[m][1] => k <= m}}
    IN  /\ saved \subseteq last \cap subscribed
        /\ (Working /\ Cardinality({entries[n][1] : n \in DOMAIN entries}) = Len(entries)) =>
              Normalised(VendorKeys) = subscribed

(* A process that has ended left no feed session open, but where the store *)
(* failed before it collected; it ends well only when it was told while it *)
(* collected (told before that, it goes on for good).                      *)
SessionsAreClosed ==
    stage = "ended" =>
        /\ session = "open" => (code = 1 /\ told # "anchoring")
        /\ (code = 0 /\ session # "none") => (session = "closed" /\ told = "collecting")

(* From entry point to exit, a process of this system is accountable.      *)
StartsAndStops == StartsAreEarned /\ StoresWhatItPlanned /\ SessionsAreClosed

(* Probing ends, and a process that is told to stop while it collects does.*)
ProcessesGetOn ==
    /\ (stage = "probing") ~> (stage # "probing")
    /\ (told = "collecting") ~> (stage = "ended")
=============================================================================
