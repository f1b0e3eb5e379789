------------------------------ MODULE Installer ------------------------------
(***************************************************************************)
(* The installer: the wizard's handlers (cmd/installer/handlers.go), its   *)
(* shared WizardState (state.go), the background install and update jobs   *)
(* (handlers.go, deploy.go) and what they leave behind: config and share   *)
(* files, containers, and the master and derived keys in the parties'      *)
(* databases, from which a running party derives keys of its own.          *)
(*                                                                         *)
(* A handler's critical section under WizardState.mu is one step. stuck    *)
(* says that mu is held and will never be released; every step that locks  *)
(* mu, which every log line of a job does, then waits forever.             *)
(*                                                                         *)
(* A key pair is named by its mnemonic and a dealing by its number: two    *)
(* dealings of one mnemonic have the same public keys and shares that do   *)
(* not fit together. Both servers of a remote install are one site, named  *)
(* by the host that is configured for Party B.                             *)
(***************************************************************************)
EXTENDS Naturals, Sequences, FiniteSets

CONSTANTS
    Mnemonic, Host, Port,  \* what the user enters or is given
    DefaultPort,   \* what GetTransportPort makes of "not set" (443)
    LocalPort,     \* what Party B's container publishes on this machine (9000)
    NoProcesses,   \* CRYPTO_CLAW_NO_PROCESSES is set: a local install starts nothing
    OldMnemonic, OldSites,  \* the mnemonic and the sites of an earlier install
    Modes,         \* the values of LocalMode the user picks
    MaxEdits,      \* bound: wizard requests that change the settings
    MaxDeploys, MaxUpdates,   \* bounds: POST /api/deploy and /api/update
    MaxDerives,    \* bound: keys that running parties derive
    Watched,       \* a browser opens the log stream
    ToolsMayFail,  \* docker, ssh, postgres and files may report an error
    SilentFail,    \* ... also where the code does not look at it, or goes on
    None

Party == {"a", "b"}
Curve == {"ecdsa", "eddsa"}

ASSUME InstallerAssumption ==
    /\ None \notin Mnemonic \cup Host \cup Port \cup Party \cup Curve
    /\ {"local", "loopback"} \cap (Host \cup {None}) = {}
    /\ {DefaultPort, LocalPort} \subseteq Port /\ NoProcesses \in BOOLEAN
    /\ OldMnemonic \in Mnemonic /\ OldSites \subseteq Host \cup {"local"}
    /\ Modes \subseteq BOOLEAN
    /\ {MaxEdits, MaxDeploys, MaxUpdates, MaxDerives} \subseteq Nat
    /\ {Watched, ToolsMayFail, SilentFail} \subseteq BOOLEAN

Job   == {"deploy", "update"}
Site  == {"local"} \cup Host   \* where a pair of parties is installed

VARIABLES
    step, done, failed,  \* WizardState: Step, DeployDone, DeployFailed
    logs,                \* some DeployLogs are waiting to be drained
    stuck,               \* mu is held by a goroutine that waits for mu
    settings,            \* servers, port, LLM and Telegram choices
    mnemonic, pub,       \* Mnemonic; the public keys shown, by curve
    share,               \* by curve, the dealing of ShareA/B and EdShareA/B
    cert,                \* host names in Party B's certificate
    primes,              \* the background generation of safe primes
    verifying,           \* the bot of the TelegramVerify under way
    stream,              \* GET /api/deploy/logs
    job,                 \* the two background jobs: the call each is to make, ...
    imports,             \* importSharesToDB by party: the call it is to make
    dealt,               \* history: the mnemonic of every dealing
    files, container,    \* by site and party: files written, container
    published,           \* by site: the port of Party B's container
    master, derived,     \* by site and party: the databases
    deriving,            \* by site and party: a Derive between read and write
    edits, started, derives,  \* counters for the bounds
    outcome,             \* history: how the latest install ended, and where
    touched,             \* history: settings edited since the install began
    skipped,             \* history: the curves it left out an import of
    raced                \* history: a party was up while its shares changed, or an
                         \* error of the clearing was not looked at

uiVars   == <<step, done, failed, logs>>
keyVars  == <<mnemonic, pub, share, dealt>>
siteVars == <<files, container, published, master, derived, deriving>>
histVars == <<outcome, touched, skipped, raced>>
cntVars  == <<edits, started, derives>>
vars == <<uiVars, stuck, settings, keyVars, cert, primes, verifying, stream, job, imports,
          siteVars, histVars, cntVars>>

\* A call is what is done and for which party or curve it is done.
Just(op) == <<op, None>>
Idle == Just("idle")
NoFiles == [shares |-> [c \in Curve |-> 0], conf |-> None]
OldFiles(s) == [shares |-> [c \in Curve |-> 1],
                conf |-> [port |-> DefaultPort, peer |-> s, ai |-> FALSE]]
\* What an earlier run of the installer left at site s: x, or nothing yet, y.
Left(s, x, y) == [p \in Party |-> IF s \in OldSites THEN x ELSE y]

Init ==
    /\ step = "welcome" /\ done = FALSE /\ failed = FALSE /\ logs = FALSE
    /\ stuck = FALSE /\ primes = "running"
    /\ settings = [local |-> FALSE, port |-> None, host |-> None,
                   llm |-> FALSE, disableAI |-> FALSE, bot |-> None, user |-> None]
    /\ mnemonic = None /\ pub = [c \in Curve |-> None] /\ share = [c \in Curve |-> 0]
    /\ cert = {} /\ verifying = None /\ stream = FALSE
    /\ job = [w \in Job |-> [at |-> Idle, mn |-> None, local |-> FALSE, site |-> None,
                             conf |-> None]]
    /\ imports = [p \in Party |-> Idle]
    /\ dealt = <<OldMnemonic>>
    /\ files = [s \in Site |-> Left(s, OldFiles(s), NoFiles)]
    /\ container = [s \in Site |-> Left(s, "up", "none")]
    /\ published = [s \in Site |-> IF s \notin OldSites THEN None
                                   ELSE IF s = "local" THEN LocalPort ELSE DefaultPort]
    /\ master = [s \in Site |-> Left(s, [c \in Curve |-> 1], [c \in Curve |-> 0])]
    /\ derived = [s \in Site |-> Left(s, [c \in Curve |-> OldMnemonic], [c \in Curve |-> None])]
    /\ deriving = [s \in Site |-> [p \in Party |-> <<>>]]
    /\ edits = 0 /\ started = [w \in Job |-> 0] /\ derives = 0
    /\ outcome = [ok |-> FALSE, site |-> None] /\ touched = FALSE
    /\ skipped = {} /\ raced = FALSE

-----------------------------------------------------------------------------
(* The wizard's handlers.                                                  *)

\* A request that edits the settings and moves the wizard to step s.
Edit(s) ==
    /\ ~stuck /\ edits < MaxEdits
    /\ edits' = edits + 1
    /\ step' = s
    /\ touched' = (touched \/ (s = "servers" /\ job["deploy"].at # Idle))
    /\ UNCHANGED <<done, failed, logs, stuck, share, dealt, cert, primes, stream, job, imports,
                   siteVars, started, derives, outcome, skipped, raced>>

\* Mutant of GetTransportPort: no default.
GetTransportPortRaw == settings.port

\* GetTransportPort: the default stands in for a port that is not set.
GetTransportPort == IF settings.port = None THEN DefaultPort ELSE settings.port

\* POST /api/servers/save: in local mode the servers of the request are ignored.
ServersSave(l, h, p) ==
    /\ Edit("servers")
    /\ settings' = [settings EXCEPT !.local = l, !.port = p,
                                    !.host = IF l THEN "loopback" ELSE h]
    /\ UNCHANGED <<mnemonic, pub, verifying>>

\* POST /api/localhost/setup leaves the transport port as it is.
LocalhostSetup ==
    /\ Edit("servers") /\ TRUE \in Modes
    /\ settings' = [settings EXCEPT !.local = TRUE, !.host = "loopback"]
    /\ UNCHANGED <<mnemonic, pub, verifying>>

\* POST /api/llm/save does not take back an earlier skip.
LLMSave ==
    /\ Edit("llm")
    /\ settings' = [settings EXCEPT !.llm = TRUE]
    /\ UNCHANGED <<mnemonic, pub, verifying>>

LLMSkip ==
    /\ Edit("llm")
    /\ settings' = [settings EXCEPT !.llm = FALSE, !.disableAI = TRUE]
    /\ UNCHANGED <<mnemonic, pub, verifying>>

\* POST /api/telegram/save: the token was checked with getMe.
TelegramSave(b) ==
    /\ Edit("telegram")
    /\ settings' = [settings EXCEPT !.bot = b]
    /\ UNCHANGED <<mnemonic, pub, verifying>>

\* POST /api/telegram/verify reads the token ...
TelegramVerify ==
    /\ ~stuck /\ settings.bot # None /\ verifying = None
    /\ verifying' = settings.bot
    /\ UNCHANGED <<uiVars, stuck, settings, keyVars, cert, primes, stream, job, imports,
                   siteVars, histVars, cntVars>>

\* ... and stores whoever wrote to that bot, or gives up after 60 seconds.
TelegramVerified ==
    /\ verifying # None
    /\ verifying' = None
    /\ \/ /\ ~stuck
          /\ settings' = [settings EXCEPT !.user = verifying]
       \/ UNCHANGED settings
    /\ UNCHANGED <<uiVars, stuck, keyVars, cert, primes, stream, job, imports, siteVars,
                   histVars, cntVars>>

\* POST /api/install/prepare: a fresh mnemonic ...
InstallPrepare(m) ==
    /\ Edit("prepared") /\ m \notin {mnemonic, OldMnemonic}
    /\ mnemonic' = m /\ pub' = [c \in Curve |-> m]
    /\ UNCHANGED <<settings, verifying>>

\* ... or, with /api/install/restore, the user's own.
InstallRestore(m) ==
    /\ Edit("prepared")
    /\ mnemonic' = m /\ pub' = [c \in Curve |-> m]
    /\ UNCHANGED <<settings, verifying>>

-----------------------------------------------------------------------------
(* Jobs. Every call of a job logs, so none is made while mu is stuck. The   *)
(* operators here say which call comes after the call at.                  *)

\* The goroutine of handleDeploy, up to the deployment itself.
Install(at) ==
    CASE at = Just("derive")       -> Just("primes")
      [] at = Just("deal")         -> <<"keys", "ecdsa">>
      [] at = <<"keys", "ecdsa">>  -> <<"keys", "eddsa">>
      [] at = <<"keys", "eddsa">>  -> Just("certs")
      [] at = Just("certs")        -> Just("target")
      [] OTHER                     -> Just("deal")   \* the primes are there

\* Building the images, starting and verifying both parties: Party B first, as
\* it listens.
Launch(at) ==
    CASE at = Just("build")        -> <<"start", "b">>
      [] at = <<"start", "b">>     -> <<"start", "a">>
      [] at = <<"start", "a">>     -> <<"verify", "b">>
      [] at = <<"verify", "b">>    -> <<"verify", "a">>
      [] OTHER                     -> Just("succeed")

DeployLocal(at) ==
    CASE at[1] = "shares"          -> <<"conf", at[2]>>
      [] at = <<"conf", "a">>      -> <<"shares", "b">>
      [] at = <<"conf", "b">>      -> Just(IF NoProcesses THEN "succeed" ELSE "docker")
      [] at = Just("docker")       -> Just("kill")
      [] at = Just("kill")         -> Just("postgres")
      [] at = Just("postgres")     -> Just("import")
      [] at = Just("import")       -> Just("importing")
      [] at = Just("importing")    -> Just("build")
      [] OTHER                     -> Launch(at)

\* DeployParty for one party, after deployRemote has connected to its server.
DeployParty(at) ==
    CASE at[1] = "connect"         -> <<"docker", at[2]>>
      [] at[1] = "docker"          -> <<"postgres", at[2]>>
      [] at[1] = "postgres"        -> <<"conf", at[2]>>
      [] at[1] = "conf"            -> <<"pull", at[2]>>
      [] at[1] = "pull"            -> <<"stop", at[2]>>
      [] at[1] = "stop"            -> <<"start", at[2]>>
      [] OTHER                     -> <<"verify", at[2]>>
DeployRemote(at) ==
    CASE at = <<"verify", "b">>    -> <<"connect", "a">>
      [] at = <<"verify", "a">>    -> Just("upload")
      [] at = Just("upload")       -> Just("import")
      [] at = Just("import")       -> Just("importing")
      [] at = Just("importing")    -> Just("succeed")
      [] OTHER                     -> DeployParty(at)

UpdateLocal(at) ==
    CASE at = Just("exists")       -> Just("kill")
      [] at = Just("kill")         -> Just("build")
      [] OTHER                     -> Launch(at)

Installing == {"derive", "primes", "wait", "deal", "keys", "certs"}
Following(w) ==
    LET at == job[w].at IN
    IF w = "update" THEN UpdateLocal(at)
    ELSE IF at[1] \in Installing THEN Install(at)
    ELSE IF job[w].local THEN DeployLocal(at) ELSE DeployRemote(at)

\* POST /api/deploy: done, failed and logs are reset even when there is no
\* mnemonic and the request ends there. A second deploy gets a 409.
HandleDeploy ==
    /\ ~stuck /\ job["deploy"].at = Idle /\ started["deploy"] < MaxDeploys
    /\ started' = [started EXCEPT !["deploy"] = @ + 1]
    /\ done' = FALSE /\ failed' = FALSE /\ logs' = FALSE /\ step' = "deploying"
    /\ \/ /\ mnemonic = None
          /\ UNCHANGED <<job, touched, skipped, outcome>>
       \/ /\ mnemonic # None
          /\ job' = [job EXCEPT !["deploy"] = [at |-> Just("derive"), mn |-> mnemonic,
                                               local |-> settings.local, site |-> None,
                                               conf |-> None]]
          /\ touched' = FALSE /\ skipped' = {}
          /\ outcome' = [ok |-> FALSE, site |-> None]
    /\ UNCHANGED <<stuck, settings, keyVars, cert, primes, verifying, stream, imports,
                   siteVars, raced, edits, derives>>

\* POST /api/update, which has a lock of its own.
HandleUpdate ==
    /\ ~stuck /\ job["update"].at = Idle /\ started["update"] < MaxUpdates
    /\ started' = [started EXCEPT !["update"] = @ + 1]
    /\ done' = FALSE /\ failed' = FALSE /\ logs' = FALSE /\ step' = "deploying"
    /\ job' = [job EXCEPT !["update"] =
                  [at |-> IF settings.local THEN Just("exists") ELSE Just("fail"),
                   mn |-> None, local |-> settings.local, site |-> "local", conf |-> None]]
    /\ UNCHANGED <<stuck, settings, keyVars, cert, primes, verifying, stream, imports,
                   siteVars, histVars, edits, derives>>

\* Job w makes the call; it logs, and goes on to another.
Doing(w, at) == ~stuck /\ job[w].at = at
Goes(w, at) == logs' = TRUE /\ job' = [job EXCEPT ![w] = [@ EXCEPT !.at = at]]

\* The call succeeds or, when tools may fail, the job ends with an error.
GoesOn(w) == Goes(w, Following(w))
CallFails(w, end) == ToolsMayFail /\ Goes(w, Just(end))

\* What a job's call leaves alone besides the data it works on.
jobFrame == <<step, done, failed, stuck, settings, mnemonic, primes, verifying, stream,
              outcome, touched, skipped, cntVars>>

\* DeriveKeysFromMnemonic.
DeriveKeys ==
    /\ Doing("deploy", Just("derive"))
    /\ GoesOn("deploy")
    /\ UNCHANGED <<jobFrame, pub, share, dealt, cert, imports, siteVars, raced>>

\* The two generators of StartPreParamGeneration end; their error stays.
PrimesEnd ==
    /\ primes = "running" /\ ~stuck
    /\ primes' \in {"ready"} \cup IF ToolsMayFail THEN {"failed"} ELSE {}
    /\ UNCHANGED <<uiVars, stuck, settings, keyVars, cert, verifying, stream, job, imports,
                   siteVars, histVars, cntVars>>

\* WaitPreParams: the primes are there already ...
PrimesReady ==
    /\ Doing("deploy", Just("primes")) /\ primes = "ready"
    /\ GoesOn("deploy")
    /\ UNCHANGED <<jobFrame, pub, share, dealt, cert, imports, siteVars, raced>>

\* ... or it waits for the channel ...
AwaitPrimes ==
    /\ Doing("deploy", Just("primes")) /\ primes # "ready"
    /\ Goes("deploy", Just("wait"))
    /\ UNCHANGED <<jobFrame, pub, share, dealt, cert, imports, siteVars, raced>>

\* ... with a line in the log every 15 seconds ...
WaitTick ==
    /\ Doing("deploy", Just("wait")) /\ primes = "running"
    /\ logs' = TRUE
    /\ UNCHANGED <<jobFrame, job, pub, share, dealt, cert, imports, siteVars, raced>>

\* Mutant of WokenByPrimes: an error wakes nobody.
WokenByPrimesOnly ==
    /\ Doing("deploy", Just("wait")) /\ primes = "ready"
    /\ stuck' = TRUE
    /\ UNCHANGED <<uiVars, settings, keyVars, primes, verifying, stream, cert, job,
                   imports, siteVars, histVars, cntVars>>

\* ... and then, with mu held until it returns, either returns the error or
\* logs, for which it locks mu again.
WokenByPrimes ==
    /\ Doing("deploy", Just("wait")) /\ primes # "running"
    /\ \/ /\ primes = "failed"
          /\ Goes("deploy", Just("abort"))
          /\ UNCHANGED stuck
       \/ /\ primes = "ready"
          /\ stuck' = TRUE
          /\ UNCHANGED <<job, logs>>
    /\ UNCHANGED <<step, done, failed, settings, keyVars, primes, verifying, stream, cert,
                   imports, siteVars, histVars, cntVars>>

\* DealerSetupECDSA and DealerSetupEdDSA split the keys with fresh randomness.
Deal ==
    /\ Doing("deploy", Just("deal"))
    /\ \/ /\ GoesOn("deploy")
          /\ dealt' = Append(dealt, job["deploy"].mn)
       \/ /\ CallFails("deploy", "abort")
          /\ UNCHANGED dealt
    /\ UNCHANGED <<jobFrame, pub, share, cert, imports, siteVars, raced>>

\* SetECDSAKeys and SetEdDSAKeys also replace the public key that is shown.
SetKeys(c) ==
    /\ Doing("deploy", <<"keys", c>>)
    /\ GoesOn("deploy")
    /\ share' = [share EXCEPT ![c] = Len(dealt)]
    /\ pub' = [pub EXCEPT ![c] = job["deploy"].mn]
    /\ UNCHANGED <<jobFrame, dealt, cert, imports, siteVars, raced>>

\* Mutant of MakeCerts: the name containers use is left out.
MakeCertsNoDocker ==
    /\ Doing("deploy", Just("certs"))
    /\ GoesOn("deploy")
    /\ cert' = {settings.host}
    /\ UNCHANGED <<jobFrame, pub, share, dealt, imports, siteVars, raced>>

\* GenerateCerts for the hosts configured now; "local" is host.docker.internal.
MakeCerts ==
    /\ Doing("deploy", Just("certs"))
    /\ \/ /\ GoesOn("deploy")
          /\ cert' = {settings.host} \cup IF job["deploy"].local THEN {"local"} ELSE {}
       \/ /\ CallFails("deploy", "abort")
          /\ UNCHANGED cert
    /\ UNCHANGED <<jobFrame, pub, share, dealt, imports, siteVars, raced>>

\* The install goes to this machine or to the servers configured now.
ChooseTarget ==
    /\ Doing("deploy", Just("target"))
    /\ LET s == IF job["deploy"].local THEN "local" ELSE settings.host
           known == job["deploy"].local \/ settings.host \in Host
       IN  /\ logs' = TRUE
           /\ job' = [job EXCEPT !["deploy"] =
                 [@ EXCEPT !.site = IF known THEN s ELSE None,
                           !.at = IF ~known THEN Just("fail")
                                  ELSE IF s = "local" THEN <<"shares", "a">>
                                  ELSE <<"connect", "b">>]]
    /\ UNCHANGED <<jobFrame, pub, share, dealt, cert, imports, siteVars, raced>>

\* A call that prepares a machine changes nothing the properties look at: the
\* job goes on, or it fails.
MayFail(w, op) ==
    /\ Doing(w, op)
    /\ GoesOn(w) \/ CallFails(w, "fail")
    /\ UNCHANGED <<jobFrame, pub, share, dealt, cert, imports, siteVars, raced>>

LookForDocker           == MayFail("deploy", Just("docker"))
EnsureDocker(p)         == MayFail("deploy", <<"docker", p>>)
EnsureLocalPostgres     == MayFail("deploy", Just("postgres"))
EnsureRemotePostgres(p) == MayFail("deploy", <<"postgres", p>>)
BuildFromSource(p)      == MayFail("deploy", <<"pull", p>>)
DockerBuild(w)       == MayFail(w, Just("build"))
UploadKeyShares      == MayFail("deploy", Just("upload"))

\* UpdateLocal needs the config files of an earlier install.
CheckInstalled ==
    /\ Doing("update", Just("exists"))
    /\ Goes("update", IF \A p \in Party : files["local"][p].conf # None
                      THEN Following("update") ELSE Just("fail"))
    /\ UNCHANGED <<jobFrame, pub, share, dealt, cert, imports, siteVars, raced>>

\* writeKeyShares.
WriteShares(p) ==
    LET s == job["deploy"].site IN
    /\ Doing("deploy", <<"shares", p>>)
    /\ \/ /\ GoesOn("deploy")
          /\ files' = [files EXCEPT ![s][p].shares = share]
       \/ /\ CallFails("deploy", "fail")
          /\ UNCHANGED files
    /\ UNCHANGED <<jobFrame, pub, share, dealt, cert, imports, container, published, master,
                   derived, deriving, raced>>

\* buildLocalDockerConfig and buildPartyConfig read the settings as they are
\* now, without the lock. peer is the host Party A dials.
Conf(l) == [port |-> GetTransportPort,
            peer |-> IF l THEN "local"
                     ELSE IF settings.local THEN "loopback" ELSE settings.host,
            ai   |-> settings.llm /\ ~settings.disableAI]

\* Remotely, SSHConnect and buildPartyConfig come before everything else that
\* is done for the party.
Connect(p) ==
    /\ Doing("deploy", <<"connect", p>>)
    /\ \/ /\ job' = [job EXCEPT !["deploy"] = [@ EXCEPT !.at = Following("deploy"),
                                                      !.conf = Conf(FALSE)]]
          /\ logs' = TRUE
       \/ CallFails("deploy", "fail")
    /\ UNCHANGED <<jobFrame, pub, share, dealt, cert, imports, siteVars, raced>>

WriteConf(p) ==
    LET s == job["deploy"].site IN
    /\ Doing("deploy", <<"conf", p>>)
    /\ \/ /\ logs' = TRUE
          /\ job' = [job EXCEPT !["deploy"] = [@ EXCEPT !.at = Following("deploy"),
                                                      !.conf = None]]
          /\ files' = [files EXCEPT ![s][p].conf =
                          IF job["deploy"].local THEN Conf(TRUE) ELSE job["deploy"].conf]
       \/ /\ CallFails("deploy", "fail")
          /\ UNCHANGED files
    /\ UNCHANGED <<jobFrame, pub, share, dealt, cert, imports, container, published, master,
                   derived, deriving, raced>>

-----------------------------------------------------------------------------
(* Containers. A process that dies takes a Derive under way with it.        *)

\* killExistingParties, or docker stop and rm of one container: errors are
\* not looked at.
Stop(w, ps) ==
    LET s == job[w].site IN
    /\ GoesOn(w)
    /\ \/ /\ container' = [container EXCEPT ![s] =
                              [p \in Party |-> IF p \in ps THEN "none" ELSE @[p]]]
          /\ deriving' = [deriving EXCEPT ![s] =
                              [p \in Party |-> IF p \in ps THEN <<>> ELSE @[p]]]
       \/ /\ SilentFail
          /\ UNCHANGED <<container, deriving>>
    /\ UNCHANGED <<jobFrame, pub, share, dealt, cert, imports, files, published, master, derived,
                   raced>>

KillExisting(w) == Doing(w, Just("kill")) /\ Stop(w, Party)
StopOld(p)      == Doing("deploy", <<"stop", p>>) /\ Stop("deploy", {p})

\* The port that docker run publishes for Party B: a fixed one on this machine,
\* the one its config listens on elsewhere.
Published(s) == IF s = "local" THEN LocalPort ELSE files[s]["b"].conf.port

\* docker run fails on a container that exists; the party may exit at once.
StartContainer(w, p) ==
    LET s == job[w].site IN
    /\ Doing(w, <<"start", p>>)
    /\ \/ /\ container[s][p] = "none"
          /\ GoesOn(w)
          /\ \E st \in {"up"} \cup IF ToolsMayFail THEN {"exited"} ELSE {} :
                container' = [container EXCEPT ![s][p] = st]
          /\ published' = IF p = "b" THEN [published EXCEPT ![s] = Published(s)]
                                     ELSE published
       \/ /\ container[s][p] # "none" \/ ToolsMayFail
          /\ Goes(w, Just("fail"))
          /\ UNCHANGED <<container, published>>
    /\ raced' = (raced \/ \E q \in Party : imports[q] # Idle)
    /\ UNCHANGED <<jobFrame, pub, share, dealt, cert, imports, files, master, derived,
                   deriving>>

\* docker inspect.
Verify(w, p) ==
    /\ Doing(w, <<"verify", p>>)
    /\ \/ /\ container[job[w].site][p] = "up"
          /\ GoesOn(w)
       \/ /\ container[job[w].site][p] # "up"
          /\ Goes(w, Just("fail"))
    /\ UNCHANGED <<jobFrame, pub, share, dealt, cert, imports, siteVars, raced>>

-----------------------------------------------------------------------------
(* importSharesToDB, one after the other locally and at once remotely.      *)

\* The call of an import after the call at; Party B's is locally the second.
FirstImport(p) ==
    IF job["deploy"].local /\ p = "b" THEN Just("after") ELSE <<"clear", "ecdsa">>
ImportShares(at) ==
    CASE at[1] = "clear"         -> <<"save", at[2]>>
      [] at = <<"save", "ecdsa">> -> <<"clear", "eddsa">>
      [] OTHER                   -> Just("ok")

StartImport ==
    /\ Doing("deploy", Just("import"))
    /\ GoesOn("deploy")
    /\ imports' = [p \in Party |-> FirstImport(p)]
    /\ UNCHANGED <<jobFrame, pub, share, dealt, cert, siteVars, raced>>

Importing(p, at) == ~stuck /\ imports[p] = at
ImportGoes(p, at) == imports' = [imports EXCEPT ![p] = at] /\ UNCHANGED <<logs, job>>
ImportGoesOn(p) == ImportGoes(p, ImportShares(imports[p]))
Ended == {Just("ok"), Just("error")}

\* The share a party is to be given: from the file locally, from the wizard's
\* state remotely.
NewShare(p, c) == IF job["deploy"].local THEN files["local"][p].shares[c] ELSE share[c]

\* Mutant of ImportClear: the clear is forgotten.
ImportClearForgotten(p, c) ==
    /\ Importing(p, <<"clear", c>>)
    /\ ImportGoesOn(p)
    /\ raced' = (raced \/ container[job["deploy"].site][p] = "up")
    /\ UNCHANGED <<jobFrame, pub, share, dealt, cert, siteVars>>

\* A master share with another public key is there: every derived key is
\* deleted. An error of the read means "no share", one of the delete nothing;
\* one of the connection or of the parser, before both, ends the import.
ImportClear(p, c) ==
    LET s == job["deploy"].site
        old == master[s][p][c]
        changed == old # 0 /\ dealt[old] # dealt[NewShare(p, c)]
    IN
    /\ Importing(p, <<"clear", c>>)
    /\ \/ /\ changed
          /\ ImportGoesOn(p)
          /\ derived' = [derived EXCEPT ![s][p] = [d \in Curve |-> None]]
          /\ raced' = (raced \/ container[s][p] = "up")
       \/ /\ SilentFail \/ ~changed
          /\ ImportGoesOn(p)
          /\ raced' = (raced \/ container[s][p] = "up" \/ changed)
          /\ UNCHANGED derived
       \/ /\ ToolsMayFail
          /\ ImportGoes(p, Just("error"))
          /\ UNCHANGED <<derived, raced>>
    /\ UNCHANGED <<jobFrame, pub, share, dealt, cert, files, container, published, master,
                   deriving>>

\* A share file that cannot be read is taken for one that is not there, and
\* the import goes on as if there were nothing to do. The files of a remote
\* import are written just before, and nobody looks at the errors of that.
ImportSkip(p, c) ==
    /\ Importing(p, <<"clear", c>>) /\ SilentFail
    /\ ImportGoes(p, ImportShares(<<"save", c>>))
    /\ skipped' = skipped \cup {c}
    /\ UNCHANGED <<step, done, failed, stuck, settings, keyVars, cert, primes, verifying, stream,
                   siteVars, outcome, touched, raced, cntVars>>

\* SaveMasterShare.
ImportSave(p, c) ==
    LET s == job["deploy"].site IN
    /\ Importing(p, <<"save", c>>)
    /\ \/ /\ ImportGoesOn(p)
          /\ master' = [master EXCEPT ![s][p][c] = NewShare(p, c)]
       \/ /\ ToolsMayFail
          /\ ImportGoes(p, Just("error"))
          /\ UNCHANGED master
    /\ raced' = (raced \/ container[s][p] = "up")
    /\ UNCHANGED <<jobFrame, pub, share, dealt, cert, files, container, published, derived,
                   deriving>>

\* Locally Party A's error ends the loop before Party B's import.
NextImport ==
    /\ Importing("b", Just("after")) /\ imports["a"] \in Ended
    /\ ImportGoes("b", IF imports["a"] = Just("ok") THEN <<"clear", "ecdsa">> ELSE Just("error"))
    /\ UNCHANGED <<jobFrame, pub, share, dealt, cert, siteVars, raced>>

\* Mutant of EndImport: only the error of Party A is looked at.
EndImportOneError ==
    /\ Doing("deploy", Just("importing"))
    /\ \A p \in Party : imports[p] \in Ended
    /\ Goes("deploy", IF imports["a"] = Just("error") THEN Just("fail") ELSE Following("deploy"))
    /\ imports' = [p \in Party |-> Idle]
    /\ UNCHANGED <<jobFrame, pub, share, dealt, cert, siteVars, raced>>

\* Both imports have ended, and an error of either is the deploy's.
EndImport ==
    /\ Doing("deploy", Just("importing"))
    /\ \A p \in Party : imports[p] \in Ended
    /\ Goes("deploy", IF \E p \in Party : imports[p] = Just("error")
                      THEN Just("fail") ELSE Following("deploy"))
    /\ imports' = [p \in Party |-> Idle]
    /\ UNCHANGED <<jobFrame, pub, share, dealt, cert, siteVars, raced>>

-----------------------------------------------------------------------------
(* The end of a job, and the stream that reports it.                       *)

\* An install that fails before its deploy phase sets no step.
Abort ==
    /\ Doing("deploy", Just("abort"))
    /\ job' = [job EXCEPT !["deploy"] = [@ EXCEPT !.at = Idle]]
    /\ done' = TRUE /\ failed' = TRUE
    /\ UNCHANGED <<step, logs, stuck, settings, keyVars, cert, primes, verifying, stream,
                   imports, siteVars, histVars, cntVars>>

\* Mutant of Conclude: a failure is not reported.
ConcludeSilently(w, end) ==
    /\ Doing(w, Just(end))
    /\ job' = [job EXCEPT ![w] = [@ EXCEPT !.at = Just("lastLog")]]
    /\ done' = (end = "succeed")
    /\ UNCHANGED <<step, failed, logs, stuck, settings, keyVars, cert, primes, verifying,
                   stream, imports, siteVars, histVars, cntVars>>

Conclude(w, end) ==
    /\ Doing(w, Just(end))
    /\ job' = [job EXCEPT ![w] = [@ EXCEPT !.at = Just("lastLog")]]
    /\ done' = TRUE /\ failed' = (end = "fail")
    /\ step' = IF end = "succeed" THEN "done" ELSE "deploying"
    /\ outcome' = IF w = "deploy" THEN [ok |-> end = "succeed", site |-> job[w].site]
                                  ELSE outcome
    /\ UNCHANGED <<logs, stuck, settings, keyVars, cert, primes, verifying, stream, imports,
                   siteVars, touched, skipped, raced, cntVars>>

\* The last line is logged after done was set.
LastLog(w) ==
    /\ Doing(w, Just("lastLog"))
    /\ Goes(w, Idle)
    /\ UNCHANGED <<jobFrame, pub, share, dealt, cert, imports, siteVars, raced>>

\* GET /api/deploy/logs: the log lines are drained at every tick, and the
\* stream ends at the first tick that finds none and done set.
OpenStream ==
    /\ Watched /\ ~stream
    /\ stream' = TRUE
    /\ UNCHANGED <<uiVars, stuck, settings, keyVars, cert, primes, verifying, job, imports,
                   siteVars, histVars, cntVars>>

StreamTick ==
    /\ stream /\ ~stuck
    /\ logs \/ done
    /\ logs' = FALSE
    /\ stream' = logs
    /\ UNCHANGED <<step, done, failed, stuck, settings, keyVars, cert, primes, verifying, job,
                   imports, siteVars, histVars, cntVars>>

-----------------------------------------------------------------------------
(* A running party derives a key: it reads the master share and saves the   *)
(* derived key in a second call. Party A asks Party B after its own save.  *)

DeriveRead(s, p, c) ==
    /\ container[s][p] = "up" /\ deriving[s][p] = <<>> /\ derives < MaxDerives
    /\ master[s][p][c] # 0
    /\ p = "b" => derived[s]["a"][c] # None
    /\ deriving' = [deriving EXCEPT ![s][p] = <<c, dealt[master[s][p][c]]>>]
    /\ derives' = derives + 1
    /\ UNCHANGED <<uiVars, stuck, settings, keyVars, cert, primes, verifying, stream, job,
                   imports, files, container, published, master, derived, histVars, edits, started>>

DeriveSave(s, p) ==
    /\ deriving[s][p] # <<>>
    /\ derived' = [derived EXCEPT ![s][p][deriving[s][p][1]] = deriving[s][p][2]]
    /\ deriving' = [deriving EXCEPT ![s][p] = <<>>]
    /\ UNCHANGED <<uiVars, stuck, settings, keyVars, cert, primes, verifying, stream, job,
                   imports, files, container, published, master, histVars, cntVars>>

-----------------------------------------------------------------------------

Requests ==
    \/ \E l \in Modes, h \in Host, p \in Port : ServersSave(l, h, p)
    \/ LocalhostSetup \/ LLMSave \/ LLMSkip
    \/ \E b \in {"bot"} : TelegramSave(b)
    \/ TelegramVerify \/ TelegramVerified
    \/ \E m \in Mnemonic : InstallPrepare(m) \/ InstallRestore(m)
    \/ HandleDeploy \/ HandleUpdate \/ OpenStream

InstallStep ==
    \/ DeriveKeys \/ PrimesReady \/ AwaitPrimes \/ WaitTick
    \/ WokenByPrimes \/ Deal
    \/ \E c \in Curve : SetKeys(c)
    \/ MakeCerts \/ ChooseTarget \/ StartImport \/ EndImport \/ Abort
    \/ LookForDocker \/ EnsureLocalPostgres \/ UploadKeyShares
    \/ \E p \in Party : \/ WriteShares(p) \/ Connect(p) \/ EnsureDocker(p)
                        \/ EnsureRemotePostgres(p) \/ WriteConf(p)
                        \/ BuildFromSource(p) \/ StopOld(p)

JobStep(w) ==
    \/ DockerBuild(w) \/ KillExisting(w) \/ LastLog(w)
    \/ \E p \in Party : StartContainer(w, p) \/ Verify(w, p)
    \/ \E end \in {"succeed", "fail"} : Conclude(w, end)

ImportStep ==
    \/ NextImport
    \/ \E p \in Party, c \in Curve : ImportClear(p, c) \/ ImportSkip(p, c) \/ ImportSave(p, c)

PartyStep ==
    \E s \in Site, p \in Party : DeriveSave(s, p) \/ \E c \in Curve : DeriveRead(s, p, c)

Next ==
    \/ Requests \/ PrimesEnd \/ InstallStep \/ ImportStep \/ StreamTick \/ PartyStep
    \/ CheckInstalled \/ \E w \in Job : JobStep(w)

\* Goroutines and timers run; users and clients need not.
Fairness ==
    /\ WF_vars(PrimesEnd) /\ WF_vars(StreamTick)
    /\ WF_vars(InstallStep \/ ImportStep \/ JobStep("deploy"))
    /\ WF_vars(CheckInstalled \/ JobStep("update"))

Spec == Init /\ [][Next]_vars /\ Fairness

-----------------------------------------------------------------------------
(* Properties.                                                             *)

Conf0 == [port : Port, peer : Host \cup {"local", "loopback", None}, ai : BOOLEAN]

\* Type invariant of the wizard's state, the jobs and the sites.
ITypeOK ==
    /\ step \in {"welcome", "servers", "prepared", "llm", "telegram", "deploying", "done"}
    /\ {done, failed, logs, stuck, stream, touched, raced} \subseteq BOOLEAN
    /\ settings.port \in Port \cup {None} /\ settings.host \in Host \cup {"loopback", None}
    /\ mnemonic \in Mnemonic \cup {None} /\ pub \in [Curve -> Mnemonic \cup {None}]
    /\ dealt \in Seq(Mnemonic) /\ share \in [Curve -> 0..Len(dealt)]
    /\ \A s \in Site, p \in Party :
          /\ files[s][p].conf \in Conf0 \cup {None}
          /\ container[s][p] \in {"none", "up", "exited"}
          /\ master[s][p] \in [Curve -> 0..Len(dealt)]
          /\ derived[s][p] \in [Curve -> Mnemonic \cup {None}]
    /\ skipped \subseteq Curve
    /\ \A w \in Job : job[w].local \in BOOLEAN /\ job[w].conf \in Conf0 \cup {None}

\* The latest install ended well and was more than the writing of configs.
Installed == outcome.ok /\ ~(NoProcesses /\ outcome.site = "local")

\* An install that ended well left both databases with the two shares of one
\* dealing of the mnemonic it was started with, on every curve of which it
\* skipped no import, whatever failed before, was restored, or was updated
\* meanwhile (handleDeploy, importSharesToDB).
SharesFit ==
    Installed =>
        LET m == master[outcome.site] IN
        \A c \in Curve : c \notin skipped =>
            /\ m["a"][c] = m["b"][c] /\ m["a"][c] # 0
            /\ dealt[m["a"][c]] = job["deploy"].mn

\* An install that ended well left both databases with shares that fit. Not so
\* when a share file could not be read (importSharesToDB).
SharesAlwaysFit ==
    Installed => \A c \in Curve : master[outcome.site]["a"][c] = master[outcome.site]["b"][c]

\* After an install that ended well, during which the servers were not edited,
\* Party A dials the port Party B listens on, by a name that Party B's
\* certificate carries; and that port is published, remotely always, on this
\* machine when it is the one that docker run is given (GenerateCerts,
\* buildPartyConfig, buildLocalDockerConfig, DeployParty, DeployLocal).
PartiesCanConnect ==
    Installed /\ ~touched =>
        LET dialled == files[outcome.site]["a"].conf.port IN
        /\ files[outcome.site]["a"].conf.peer \in cert
        /\ files[outcome.site]["b"].conf.port = dialled
        /\ outcome.site # "local" \/ dialled = LocalPort => published[outcome.site] = dialled

\* "Party A connects to Party B via host network" (buildLocalDockerConfig):
\* after a local install that ended well the port Party A dials is published.
LocalPortIsPublished ==
    Installed /\ ~touched /\ outcome.site = "local" =>
        published["local"] = files["local"]["a"].conf.port

\* A key that was derived from a former master key survives an import only if
\* its party was up meanwhile, or the clearing failed and nobody looked
\* (importSharesToDB, killExistingParties).
StaleOnlyIfRaced ==
    raced \/ \A s \in Site, p \in Party, c \in Curve :
                 derived[s][p][c] # None => derived[s][p][c] = dealt[master[s][p][c]]

\* "If master keys change, all derived keys are cleared to prevent address
\* mismatches" (importSharesToDB): a derived key belongs to the master key.
DerivedMatchesMaster ==
    \A s \in Site, p \in Party, c \in Curve :
        derived[s][p][c] # None => derived[s][p][c] = dealt[master[s][p][c]]

\* An install ends, and so does an update, unless WaitPreParams has locked the
\* wizard for good.
JobsEnd ==
    \A w \in Job : job[w].at # Idle ~> (job[w].at = Idle \/ stuck)

\* "Log AFTER releasing the lock to avoid deadlock" (handleDeploy): a deploy
\* that was started ends.
DeployEnds == job["deploy"].at # Idle ~> job["deploy"].at = Idle

\* A log stream that is open while a job runs is closed by the server, unless
\* the wizard is locked or a deploy request that found no mnemonic has reset
\* the flag it waits for (handleDeployLogs, handleDeploy).
StreamEnds ==
    LET Over(w) == job[w].at \in {Idle, Just("lastLog")} IN
    \A w \in Job : (stream /\ ~Over(w)) ~>
        (~stream \/ stuck \/ (~done /\ mnemonic = None /\ \A v \in Job : Over(v)))
=============================================================================
