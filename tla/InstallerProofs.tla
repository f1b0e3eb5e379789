---------------------------- MODULE InstallerProofs ----------------------------
(***************************************************************************)
(* The installer, proved for any mnemonics, hosts, ports, earlier installs *)
(* and bounds, with failing tools and edits at any time: what an install   *)
(* that ends well leaves behind. The invariant says what holds when the    *)
(* install is about to make a certain call (Facts), and what holds always. *)
(***************************************************************************)
EXTENDS Installer, SequenceTheorems, TLAPS

Now == job["deploy"].at

\* The calls of an install once its site is chosen.
Placed == {"shares", "conf", "docker", "kill", "postgres", "import", "importing", "build",
           "start", "verify", "connect", "pull", "stop", "upload", "succeed"}
Keyed  == Placed \cup {"certs", "target"}
LocalOnly == ({"shares"} \X Party)
             \cup {Just("docker"), Just("kill"), Just("postgres"), Just("build")}
RemoteOnly == ({"connect", "docker", "postgres", "pull", "stop"} \X Party) \cup {Just("upload")}

(***************************************************************************)
(* What holds when the install is about to make the call at.               *)
(***************************************************************************)
\* The shares in the wizard's state are those of the last dealing.
KeyFacts(at) ==
    /\ at[1] \in Keyed \cup {"keys"} => dealt[Len(dealt)] = job["deploy"].mn
    /\ at[1] \in Keyed \/ at = <<"keys", "eddsa">> => share["ecdsa"] = Len(dealt)
    /\ at[1] \in Keyed => share["eddsa"] = Len(dealt)

SiteFacts(at) ==
    /\ at[1] \in Placed => /\ job["deploy"].site \in Site
                           /\ job["deploy"].local => job["deploy"].site = "local"
    /\ at \in LocalOnly => job["deploy"].local
    /\ at \in RemoteOnly => ~job["deploy"].local

\* Share files are written locally, Party A's first.
SharesWritten(p, at) ==
    IF p = "a" THEN at # <<"shares", "a">> ELSE at[1] # "shares" /\ at # <<"conf", "a">>
FileFacts(at) ==
    job["deploy"].local /\ at[1] \in Placed => \A p \in Party : SharesWritten(p, at) =>
        \A c \in Curve : files["local"][p].shares[c] = share[c]

\* Locally Party A's config comes first, remotely Party B's.
ConfWritten(p, at) ==
    IF job["deploy"].local
    THEN at[1] \notin {"shares", "conf"} \/ (p = "a" /\ at[2] = "b")
    ELSE \/ at[1] \in {"upload", "import", "importing", "succeed"}
         \/ p = "b" /\ at[2] = "a"
         \/ p = at[2] /\ at[1] \in {"pull", "stop", "start", "verify"}
Dialled == IF job["deploy"].local THEN "local" ELSE settings.host
Suits(conf) == conf.port = GetTransportPort /\ conf.peer = Dialled
ConfFacts(at) ==
    ~touched =>
        /\ at # Idle => (job["deploy"].local <=> settings.local)
        /\ at[1] \in Placed \cup {"target"} => Dialled \in cert
        /\ at \in {"docker", "postgres", "conf"} \X Party /\ ~job["deploy"].local =>
             Suits(job["deploy"].conf)
        /\ at[1] \in Placed => \A p \in Party : ConfWritten(p, at) =>
             Suits(files[job["deploy"].site][p].conf)

\* The imports run while the install waits for them; what they saved is there.
Given(p, c) == c \in skipped \/ master[job["deploy"].site][p][c] = share[c]
ConfigOnly == NoProcesses /\ job["deploy"].local
Imported(at) ==
    \/ at[1] = "build" \/ (at[1] = "succeed" /\ ~ConfigOnly)
    \/ job["deploy"].local /\ at[1] \in {"start", "verify"}
ImportFacts(at) ==
    \A p \in Party :
        /\ imports[p] # Idle <=> at = Just("importing")
        /\ imports[p] \in {<<"clear", "eddsa">>, <<"save", "eddsa">>, Just("ok")} =>
             Given(p, "ecdsa")
        /\ imports[p] = Just("ok") => Given(p, "eddsa")
        /\ Imported(at) => \A c \in Curve : Given(p, c)

\* Party B's container is started after its config is written.
Started(at) ==
    IF job["deploy"].local
    THEN \/ at \in {<<"start", "a">>, <<"verify", "a">>, <<"verify", "b">>}
         \/ at = Just("succeed") /\ ~ConfigOnly
    ELSE \/ at[1] \in {"upload", "import", "importing", "succeed"}
         \/ at = <<"verify", "b">> \/ at \in Placed \X {"a"}
PublishFacts(at) ==
    Started(at) => published[job["deploy"].site] = Published(job["deploy"].site)

BaseFacts(at) ==
    KeyFacts(at) /\ SiteFacts(at) /\ FileFacts(at) /\ ConfFacts(at) /\ ImportFacts(at)
Facts(at) == BaseFacts(at) /\ PublishFacts(at)

(***************************************************************************)
(* What holds at any time.                                                 *)
(***************************************************************************)
UiInv ==
    /\ step \in {"welcome", "servers", "prepared", "llm", "telegram", "deploying", "done"}
    /\ {done, failed, logs, stuck, stream, touched, raced} \subseteq BOOLEAN
    /\ skipped \subseteq Curve

SettingsInv ==
    /\ DOMAIN settings = {"local", "port", "host", "llm", "disableAI", "bot", "user"}
    /\ settings.local \in BOOLEAN
    /\ settings.port \in Port \cup {None} /\ settings.host \in Host \cup {"loopback", None}

KeyInv ==
    /\ mnemonic \in Mnemonic \cup {None} /\ pub \in [Curve -> Mnemonic \cup {None}]
    /\ dealt \in Seq(Mnemonic) /\ Len(dealt) > 0 /\ share \in [Curve -> 0..Len(dealt)]

ImportsInv ==
    /\ DOMAIN imports = Party
    /\ \A p \in Party : imports[p] \in {Idle, Just("after"), Just("ok"), Just("error")}
                                         \cup ({"clear", "save"} \X Curve)

JobInv ==
    /\ DOMAIN job = Job
    /\ \A w \in Job : /\ DOMAIN job[w] = {"at", "mn", "local", "site", "conf"}
                      /\ job[w].local \in BOOLEAN /\ job[w].conf \in Conf0 \cup {None}
    /\ Now # Idle => job["deploy"].mn \in Mnemonic
    /\ job["update"].at # Idle => job["update"].site = "local"
    /\ ImportsInv

FileType == [shares : [Curve -> 0..Len(dealt)], conf : Conf0 \cup {None}]
SiteInv ==
    /\ files \in [Site -> [Party -> FileType]]
    /\ container \in [Site -> [Party -> {"none", "up", "exited"}]]
    /\ DOMAIN published = Site
    /\ master \in [Site -> [Party -> [Curve -> 0..Len(dealt)]]]
    /\ derived \in [Site -> [Party -> [Curve -> Mnemonic \cup {None}]]]
    /\ deriving \in [Site -> [Party -> {<<>>} \cup (Curve \X Mnemonic)]]

\* A process that is gone derives nothing.
LiveInv ==
    \A s \in Site, p \in Party : deriving[s][p] # <<>> => container[s][p] = "up"

OutcomeInv ==
    outcome.ok => /\ outcome.site \in Site /\ Now \in {Idle, Just("lastLog")}
                  /\ SharesFit /\ PartiesCanConnect

\* Unless a party was up during an import: its keys are of its master key, also
\* the one being derived, and during an import they will be.
Kept(s, p) ==
    /\ \A c \in Curve : derived[s][p][c] # None =>
         master[s][p][c] # 0 /\ derived[s][p][c] = dealt[master[s][p][c]]
    /\ deriving[s][p] # <<>> =>
         LET c == deriving[s][p][1] IN
         master[s][p][c] # 0 /\ deriving[s][p][2] = dealt[master[s][p][c]]
Replaced(p) ==
    \A c \in Curve : imports[p] = <<"save", c>> =>
        LET s == job["deploy"].site IN
        /\ container[s][p] # "up"
        /\ derived[s][p][c] # None => derived[s][p][c] = dealt[share[c]]
StaleInv ==
    raced \/ (/\ \A s \in Site, p \in Party : Kept(s, p)
              /\ \A p \in Party : Replaced(p))

IInv ==
    /\ UiInv /\ SettingsInv /\ KeyInv /\ JobInv /\ SiteInv
    /\ LiveInv /\ OutcomeInv /\ StaleInv /\ Facts(Now)

-----------------------------------------------------------------------------
(* Calls.                                                                  *)

\* None is no party and no curve.
LEMMA NoneIsNone == None \notin Party /\ None \notin Curve
  BY InstallerAssumption

\* The job of w goes to the call at and keeps the rest.
LEMMA JobMoved ==
  ASSUME JobInv, NEW w \in Job, NEW at, job' = [job EXCEPT ![w] = [@ EXCEPT !.at = at]]
  PROVE  /\ DOMAIN job' = Job /\ DOMAIN job'[w] = DOMAIN job[w] /\ job'[w].at = at
         /\ job'[w].mn = job[w].mn /\ job'[w].local = job[w].local
         /\ job'[w].site = job[w].site /\ job'[w].conf = job[w].conf
         /\ \A v \in Job : v # w => job'[v] = job[v]
  BY DEF JobInv

\* Both jobs keep their shape then.
LEMMA JobInvMoved ==
  ASSUME JobInv, NEW w \in Job, NEW at, job' = [job EXCEPT ![w] = [@ EXCEPT !.at = at]],
         job[w].at # Idle, ImportsInv'
  PROVE  JobInv'
<1>1. /\ DOMAIN job' = Job /\ DOMAIN job'[w] = DOMAIN job[w] /\ job'[w].at = at
      /\ job'[w].mn = job[w].mn /\ job'[w].local = job[w].local
      /\ job'[w].site = job[w].site /\ job'[w].conf = job[w].conf
      /\ \A v \in Job : v # w => job'[v] = job[v]
  BY JobMoved
<1>2. CASE w = "deploy"
  BY <1>1, <1>2 DEF JobInv, Now, Job, Conf0
<1>3. CASE w = "update"
  BY <1>1, <1>3 DEF JobInv, Now, Job, Conf0
<1> QED
  BY <1>2, <1>3 DEF Job

\* The deploy job but for its next call.
SameDeploy ==
    /\ job'["deploy"].mn = job["deploy"].mn /\ job'["deploy"].local = job["deploy"].local
    /\ job'["deploy"].site = job["deploy"].site /\ job'["deploy"].conf = job["deploy"].conf

\* Which variables the parts of the invariant are about.
LEMMA StaleFrame ==
  ASSUME StaleInv, job'["deploy"].site = job["deploy"].site,
         UNCHANGED <<raced, derived, master, dealt, deriving, imports, container, share>>
  PROVE  StaleInv'
<1>1. ASSUME NEW s \in Site, NEW p \in Party, Kept(s, p) PROVE Kept(s, p)'
  BY <1>1 DEF Kept
<1>2. ASSUME NEW p \in Party, Replaced(p) PROVE Replaced(p)'
  BY <1>2 DEF Replaced
<1> QED
  BY <1>1, <1>2 DEF StaleInv

SameServers ==
    /\ settings'.local = settings.local
    /\ settings'.port = settings.port /\ settings'.host = settings.host
LEMMA BaseFrame ==
  ASSUME NEW at, BaseFacts(at), SameDeploy, touched => touched',
         SameServers \/ touched' \/ at = Idle,
         UNCHANGED <<dealt, share, files, cert, imports, master, skipped>>
  PROVE  BaseFacts(at)'
<1>1. KeyFacts(at)' /\ SiteFacts(at)' /\ FileFacts(at)'
  BY DEF SameDeploy, BaseFacts, KeyFacts, SiteFacts, FileFacts, SharesWritten
<1>2. ConfFacts(at)'
  <2>1. CASE SameServers
    BY <2>1 DEF SameDeploy, SameServers, BaseFacts, ConfFacts, ConfWritten, Dialled, Suits,
                GetTransportPort
  <2>2. CASE touched'
    BY <2>2 DEF ConfFacts
  <2>3. CASE at = Idle
    BY <2>3, NoneIsNone DEF ConfFacts, Idle, Just, Placed
  <2> QED
    BY <2>1, <2>2, <2>3
<1>3. ImportFacts(at)'
  BY DEF SameDeploy, BaseFacts, ImportFacts, Imported, Given, ConfigOnly
<1> QED
  BY <1>1, <1>2, <1>3 DEF BaseFacts

\* A port that is published stays, or is the one the latest start published.
LEMMA PublishFrame ==
  ASSUME NEW at, PublishFacts(at), SameDeploy, files' = files,
         LET s == job["deploy"].site IN published'[s] = published[s] \/ published'[s] = Published(s)
  PROVE  PublishFacts(at)'
  BY DEF PublishFacts, Started, Published, SameDeploy, ConfigOnly

LEMMA FactsFrame ==
  ASSUME NEW at, Facts(at), SameDeploy, touched => touched',
         SameServers \/ touched' \/ at = Idle,
         UNCHANGED <<dealt, share, files, cert, imports, master, published, skipped>>
  PROVE  Facts(at)'
<1>1. BaseFacts(at)'
  BY BaseFrame DEF Facts
<1>2. PublishFacts(at)'
  BY PublishFrame DEF Facts
<1> QED
  BY <1>1, <1>2 DEF Facts

LEMMA OutcomeFrame ==
  ASSUME OutcomeInv, outcome.ok => Now' \in {Idle, Just("lastLog")},
         job'["deploy"].mn = job["deploy"].mn, touched => touched',
         UNCHANGED <<outcome, master, dealt, files, cert, skipped>>,
         \A s \in Site : published'[s] = published[s] \/ published'[s] = Published(s)
  PROVE  OutcomeInv'
  BY DEF OutcomeInv, SharesFit, PartiesCanConnect, Installed, Published

\* A job goes on to another call; the facts of an install hold for it.
LEMMA StartedSite ==
  ASSUME Facts(Now), Started(Now)
  PROVE  job["deploy"].site \in Site
  BY DEF Facts, BaseFacts, SiteFacts, Started, Placed, Just

LEMMA JobGoes ==
  ASSUME IInv, NEW w \in Job, NEW at, Goes(w, at), job[w].at # Idle,
         w = "deploy" =>
             BaseFacts(at) /\ PublishFacts(at)' /\ (Now = Just("lastLog") => at = Idle),
         \A s \in Site : published'[s] = published[s] \/ published'[s] = Published(s),
         UNCHANGED <<jobFrame, pub, share, dealt, cert, imports, files, master, derived>>,
         raced' \in BOOLEAN, SiteInv', LiveInv', StaleInv'
  PROVE  IInv'
<1>1. /\ DOMAIN job' = Job /\ DOMAIN job'[w] = DOMAIN job[w] /\ job'[w].at = at
      /\ job'[w].mn = job[w].mn /\ job'[w].local = job[w].local
      /\ job'[w].site = job[w].site /\ job'[w].conf = job[w].conf
      /\ \A v \in Job : v # w => job'[v] = job[v]
  BY JobMoved DEF Goes, IInv
<1>2. SameDeploy
  BY <1>1 DEF SameDeploy, Job
<1>3. Now' = IF w = "deploy" THEN at ELSE Now
  BY <1>1 DEF Now, Job
<1>4. JobInv'
  <2>1. ImportsInv'
    BY DEF IInv, JobInv, ImportsInv
  <2> QED
    BY <2>1, JobInvMoved DEF Goes, IInv
<1>5. UiInv' /\ SettingsInv' /\ KeyInv'
  BY DEF IInv, jobFrame, Goes, UiInv, SettingsInv, KeyInv
<1>6. OutcomeInv'
  <2>1. outcome.ok => Now' \in {Idle, Just("lastLog")}
    BY <1>3 DEF IInv, OutcomeInv, Now
  <2> QED
    BY <1>2, <2>1, OutcomeFrame DEF IInv, jobFrame, SameDeploy
<1>7. Facts(Now)'
  <2>1. SameServers
    BY DEF SameServers, jobFrame
  <2>2. CASE w = "deploy"
    <3>1. BaseFacts(at)'
      BY <1>2, <2>1, <2>2, BaseFrame DEF jobFrame
    <3> QED
      BY <1>3, <2>2, <3>1 DEF Facts
  <2>3. CASE w # "deploy"
    <3>1. BaseFacts(Now)' /\ Now' = Now
      BY <1>2, <1>3, <2>1, <2>3, BaseFrame DEF jobFrame, IInv, Facts
    <3>2. PublishFacts(Now)'
      <4>1. CASE Started(Now)
        <5>1. job["deploy"].site \in Site
          BY <4>1, StartedSite DEF IInv
        <5> QED
          BY <1>2, <3>1, <5>1, PublishFrame DEF IInv, Facts
      <4>2. CASE ~Started(Now)
        BY <1>2, <3>1, <4>2 DEF PublishFacts, Started, SameDeploy, ConfigOnly
      <4> QED
        BY <4>1, <4>2
    <3> QED
      BY <3>1, <3>2 DEF Facts
  <2> QED
    BY <2>2, <2>3
<1> QED
  BY <1>4, <1>5, <1>6, <1>7 DEF IInv

\* ... and nothing else changes.
LEMMA Forward ==
  ASSUME IInv, NEW w \in Job, NEW at, Goes(w, at), job[w].at # Idle,
         w = "deploy" => Facts(at) /\ (Now = Just("lastLog") => at = Idle),
         UNCHANGED <<jobFrame, pub, share, dealt, cert, imports, siteVars, raced>>
  PROVE  IInv'
<1>1. SiteInv' /\ LiveInv' /\ raced' \in BOOLEAN
  BY DEF IInv, siteVars, SiteInv, LiveInv, FileType, Conf0, UiInv
<1>2. job'["deploy"].site = job["deploy"].site
  BY JobMoved DEF Goes, Job, IInv
<1>3. StaleInv'
  BY <1>2, StaleFrame DEF IInv, siteVars
<1>4. w = "deploy" => PublishFacts(at)'
  <2>1. SameDeploy
    BY JobMoved DEF Goes, Job, IInv, SameDeploy
  <2> QED
    BY <2>1, PublishFrame DEF siteVars, Facts
<1> QED
  BY <1>1, <1>3, <1>4, JobGoes DEF siteVars, Facts

\* An error: nothing is known of an install that failed.
LEMMA NoFacts ==
  ASSUME NEW op \in {"fail", "abort", "lastLog"}, ConfFacts(Now), Now # Idle,
         \A p \in Party : imports[p] = Idle
  PROVE  Facts(Just(op))
<1>1. Just(op)[1] = op /\ Just(op)[2] = None /\ Just(op) # Idle /\ Just(op) # Just("importing")
  BY DEF Just, Idle
<1>2. Just(op) \notin LocalOnly /\ Just(op) \notin RemoteOnly
  BY NoneIsNone DEF LocalOnly, RemoteOnly, Just
<1> HIDE DEF Just, Idle
<1>3. KeyFacts(Just(op)) /\ SiteFacts(Just(op)) /\ FileFacts(Just(op))
  BY <1>1, <1>2 DEF KeyFacts, SiteFacts, FileFacts, Keyed, Placed
<1>4. ConfFacts(Just(op))
  BY <1>1, NoneIsNone DEF ConfFacts, Placed
<1>5. ImportFacts(Just(op))
  <2>1. Idle # Just("ok") /\ Idle \notin {<<"clear", "eddsa">>, <<"save", "eddsa">>}
    BY DEF Idle, Just
  <2> QED
    BY <1>1, <2>1 DEF ImportFacts, Imported
<1>6. PublishFacts(Just(op))
  <2>1. Just(op) \notin Placed \X {"a"}
    BY <1>1, NoneIsNone DEF Placed, Party
  <2> QED
    BY <1>1, <2>1, NoneIsNone DEF PublishFacts, Started, Just, Party
<1> QED
  BY <1>3, <1>4, <1>5, <1>6 DEF Facts, BaseFacts

LEMMA Fails ==
  ASSUME IInv, NEW w \in Job, NEW end \in {"fail", "abort"}, Goes(w, Just(end)),
         job[w].at # Idle, w = "deploy" => Now \notin {Just("lastLog"), Just("importing")},
         UNCHANGED <<jobFrame, pub, share, dealt, cert, imports, siteVars, raced>>
  PROVE  IInv'
<1>1. w = "deploy" => \A p \in Party : imports[p] = Idle
  BY DEF IInv, Facts, BaseFacts, ImportFacts
<1>2. w = "deploy" => Facts(Just(end))
  BY <1>1, NoFacts DEF IInv, Facts, BaseFacts, Now
<1> QED
  BY <1>2, Forward

-----------------------------------------------------------------------------
(* Requests and timers.                                                    *)

\* A step beside the jobs.
LEMMA Beside ==
  ASSUME IInv, UiInv', SettingsInv', KeyInv', SameServers \/ touched' \/ Now = Idle,
         touched => touched',
         UNCHANGED <<share, dealt, cert, job, imports, siteVars, outcome, skipped, raced>>
  PROVE  IInv'
<1>1. JobInv' /\ SiteInv' /\ LiveInv'
  BY DEF IInv, siteVars, SiteInv, LiveInv, JobInv, ImportsInv, Now,
         FileType, Conf0
<1>2. OutcomeInv'
  BY OutcomeFrame DEF IInv, OutcomeInv, Now, siteVars
<1>3. StaleInv'
  BY StaleFrame DEF IInv, siteVars
<1>4. Facts(Now)' 
  <2>1. SameDeploy /\ Now' = Now
    BY DEF SameDeploy, Now
  <2> QED
    BY <2>1, FactsFrame DEF IInv, siteVars
<1> QED
  BY <1>1, <1>2, <1>3, <1>4 DEF IInv

\* A request that changes settings, servers only with touched set.
LEMMA EditKeeps ==
  ASSUME IInv, NEW s \in {"servers", "prepared", "llm", "telegram"}, Edit(s), KeyInv',
         SettingsInv', s = "servers" \/ SameServers
  PROVE  IInv'
<1>1. UiInv' /\ (touched => touched')
  BY DEF IInv, Edit, UiInv
<1>2. SameServers \/ touched' \/ Now = Idle
  BY DEF Edit, Now
<1> QED
  BY <1>1, <1>2, Beside DEF Edit

LEMMA ServersSaveKeeps ==
  ASSUME IInv, NEW l \in Modes, NEW h \in Host, NEW p \in Port, ServersSave(l, h, p)
  PROVE  IInv'
<1>1. KeyInv' /\ SettingsInv'
  BY InstallerAssumption DEF IInv, ServersSave, Edit, KeyInv, SettingsInv
<1> QED
  BY <1>1, EditKeeps DEF ServersSave

LEMMA LocalhostSetupKeeps ==
  ASSUME IInv, LocalhostSetup
  PROVE  IInv'
<1>1. KeyInv' /\ SettingsInv'
  BY DEF IInv, LocalhostSetup, Edit, KeyInv, SettingsInv
<1> QED
  BY <1>1, EditKeeps DEF LocalhostSetup

\* What the LLM and Telegram are set to is nothing to the servers.
LEMMA ChoiceKeeps ==
  ASSUME IInv, LLMSave \/ LLMSkip \/ \E b \in {"bot"} : TelegramSave(b)
  PROVE  IInv'
<1>1. CASE LLMSave
  <2>1. KeyInv' /\ SettingsInv' /\ SameServers
    BY <1>1 DEF IInv, LLMSave, Edit, KeyInv, SettingsInv, SameServers
  <2> QED
    BY <1>1, <2>1, EditKeeps DEF LLMSave
<1>2. CASE LLMSkip
  <2>1. KeyInv' /\ SettingsInv' /\ SameServers
    BY <1>2 DEF IInv, LLMSkip, Edit, KeyInv, SettingsInv, SameServers
  <2> QED
    BY <1>2, <2>1, EditKeeps DEF LLMSkip
<1>3. CASE TelegramSave("bot")
  <2>1. KeyInv' /\ SettingsInv' /\ SameServers
    BY <1>3 DEF IInv, TelegramSave, Edit, KeyInv, SettingsInv, SameServers
  <2> QED
    BY <1>3, <2>1, EditKeeps DEF TelegramSave
<1> QED
  BY <1>1, <1>2, <1>3

LEMMA MnemonicKeeps ==
  ASSUME IInv, NEW m \in Mnemonic, InstallPrepare(m) \/ InstallRestore(m)
  PROVE  IInv'
<1>1. KeyInv' /\ SettingsInv' /\ SameServers /\ Edit("prepared")
  BY DEF IInv, InstallPrepare, InstallRestore, Edit, KeyInv, SettingsInv, SameServers
<1> QED
  BY <1>1, EditKeeps

\* The verification of the bot, the primes and the stream.
LEMMA TimersKeep ==
  ASSUME IInv, TelegramVerify \/ TelegramVerified \/ PrimesEnd \/ OpenStream \/ StreamTick
                 \/ WaitTick
  PROVE  IInv'
<1>1. CASE TelegramVerify \/ PrimesEnd \/ OpenStream \/ StreamTick \/ WaitTick
  <2>1. UiInv' /\ SettingsInv' /\ KeyInv' /\ SameServers /\ touched' = touched
    BY <1>1 DEF TelegramVerify, PrimesEnd, OpenStream, StreamTick, WaitTick, IInv, UiInv,
             SettingsInv, KeyInv, SameServers, uiVars, keyVars, histVars, jobFrame
  <2> QED
    BY <1>1, <2>1, Beside DEF TelegramVerify, PrimesEnd, OpenStream, StreamTick, WaitTick,
             keyVars, histVars, jobFrame
<1>2. CASE TelegramVerified
  <2>1. SettingsInv' /\ SameServers
    BY <1>2 DEF TelegramVerified, IInv, SettingsInv, SameServers
  <2>2. UiInv' /\ KeyInv' /\ touched' = touched
    BY <1>2 DEF TelegramVerified, IInv, UiInv, KeyInv, uiVars, keyVars, histVars
  <2> QED
    BY <1>2, <2>1, <2>2, Beside DEF TelegramVerified, keyVars, histVars
<1> QED
  BY <1>1, <1>2
\* POST /api/deploy: nothing is known of the install that begins but its mode.
LEMMA HandleDeployKeeps ==
  ASSUME IInv, HandleDeploy
  PROVE  IInv'
<1>1. UiInv' /\ SettingsInv' /\ KeyInv' /\ SameServers
  BY DEF HandleDeploy, IInv, UiInv, SettingsInv, KeyInv, SameServers, keyVars
<1>2. CASE mnemonic = None
  BY <1>1, <1>2, Beside DEF HandleDeploy, keyVars
<1>3. CASE mnemonic # None
  <2>1. /\ DOMAIN job' = Job /\ job'["update"] = job["update"]
        /\ job'["deploy"] = [at |-> Just("derive"), mn |-> mnemonic, local |-> settings.local,
                             site |-> None, conf |-> None]
    BY <1>3 DEF HandleDeploy, IInv, JobInv, Job
  <2>2. touched' = FALSE /\ outcome' = [ok |-> FALSE, site |-> None] /\ Now = Idle
        /\ UNCHANGED <<settings, keyVars, cert, imports, siteVars, raced>>
    BY <1>3 DEF HandleDeploy, Now
  <2>3. JobInv'
    BY <1>3, <2>1, <2>2 DEF IInv, JobInv, ImportsInv, Job, Now, SettingsInv, KeyInv, Conf0
  <2>4. SiteInv' /\ LiveInv'
    BY <2>2 DEF IInv, siteVars, keyVars, SiteInv, LiveInv, FileType, Conf0
  <2>5. OutcomeInv'
    BY <2>2 DEF OutcomeInv
  <2>6. \A p \in Party : imports[p] = Idle
    BY <2>2, NoneIsNone DEF IInv, Facts, BaseFacts, ImportFacts, Idle, Just
  <2>7. StaleInv'
    <3>1. ASSUME NEW s \in Site, NEW p \in Party, Kept(s, p) PROVE Kept(s, p)'
      BY <2>2, <3>1 DEF Kept, siteVars, keyVars
    <3>2. \A p \in Party : Replaced(p)'
      BY <2>2, <2>6 DEF Replaced, Idle, Just
    <3> QED
      BY <2>2, <3>1, <3>2 DEF IInv, StaleInv
  <2>8. Facts(Now)'
    <3>1. Now' = Just("derive") /\ job'["deploy"].local = settings.local
      BY <2>1 DEF Now
    <3>2. Just("derive") \notin LocalOnly \cup RemoteOnly
      BY NoneIsNone DEF LocalOnly, RemoteOnly, Just
    <3>3. KeyFacts(Now)' /\ SiteFacts(Now)' /\ FileFacts(Now)'
      BY <3>1, <3>2 DEF KeyFacts, SiteFacts, FileFacts, Just, Keyed, Placed
    <3>4. ConfFacts(Now)'
      BY <2>2, <3>1, NoneIsNone DEF ConfFacts, Just, Placed
    <3>5. ImportFacts(Now)'
      BY <2>2, <2>6, <3>1 DEF ImportFacts, Imported, Just, Idle
    <3>6. PublishFacts(Now)'
      BY <3>1, NoneIsNone DEF PublishFacts, Started, Placed, Just
    <3> QED
      BY <3>3, <3>4, <3>5, <3>6 DEF Facts, BaseFacts
  <2> QED
    BY <1>1, <2>3, <2>4, <2>5, <2>7, <2>8 DEF IInv
<1> QED
  BY <1>2, <1>3

LEMMA HandleUpdateKeeps ==
  ASSUME IInv, HandleUpdate
  PROVE  IInv'
<1>1. UiInv' /\ SettingsInv' /\ KeyInv' /\ SameServers
  BY DEF HandleUpdate, IInv, UiInv, SettingsInv, KeyInv, SameServers, keyVars, histVars
<1>2. /\ DOMAIN job' = Job /\ job'["deploy"] = job["deploy"]
      /\ job'["update"] = [at |-> IF settings.local THEN Just("exists") ELSE Just("fail"),
                           mn |-> None, local |-> settings.local, site |-> "local",
                           conf |-> None]
  BY DEF HandleUpdate, IInv, JobInv, Job
<1>3. UNCHANGED <<settings, keyVars, cert, imports, siteVars, histVars>> /\ SameDeploy
      /\ Now' = Now
  BY <1>2 DEF HandleUpdate, SameDeploy, Now
<1>4. JobInv'
  BY <1>2, <1>3 DEF IInv, JobInv, ImportsInv, Job, Now, SettingsInv, Conf0
<1>5. SiteInv' /\ LiveInv'
  BY <1>3 DEF IInv, siteVars, keyVars, SiteInv, LiveInv, FileType, Conf0
<1>6. OutcomeInv'
  BY <1>3, OutcomeFrame DEF IInv, OutcomeInv, siteVars, keyVars, histVars, SameDeploy
<1>7. StaleInv'
  BY <1>3, StaleFrame DEF IInv, siteVars, keyVars, histVars, SameDeploy
<1>8. Facts(Now)'
  BY <1>1, <1>3, FactsFrame DEF IInv, siteVars, keyVars, histVars
<1> QED
  BY <1>1, <1>4, <1>5, <1>6, <1>7, <1>8 DEF IInv

-----------------------------------------------------------------------------
(* Calls that move the install along and change nothing else.              *)

\* The facts of the next call follow from those of this one.
LEMMA KeysNext ==
  ASSUME Facts(Now), Now \in {Just("derive"), Just("primes"), Just("wait")}
  PROVE  /\ Following("deploy") \in {Just("primes"), Just("deal")}
         /\ \A op \in {"primes", "wait", "deal"} : Facts(Just(op))
<1>1. Following("deploy") \in {Just("primes"), Just("deal")}
  BY NoneIsNone DEF Now, Following, Just, Installing, Install
<1>2. ASSUME NEW op \in {"primes", "wait", "deal"} PROVE Facts(Just(op))
  BY NoneIsNone DEF Facts, BaseFacts, KeyFacts, SiteFacts, FileFacts, ConfFacts, ImportFacts, Imported, PublishFacts, Started,
     LocalOnly, RemoteOnly, Keyed, Placed, Just, Idle
<1> QED
  BY <1>1, <1>2

LEMMA PrepareNext ==
  ASSUME Facts(Now), NEW p \in Party, JobInv,
         Now \in {Just("docker"), Just("postgres"), Just("build"), Just("upload"), <<"docker", p>>,
                  <<"postgres", p>>, <<"pull", p>>}
  PROVE  Facts(Following("deploy"))
<1>1. CASE Now = Just("docker")
  <2>1. Following("deploy") = Just("kill")
    BY <1>1, NoneIsNone DEF Facts, BaseFacts, SiteFacts, LocalOnly, Now, Following, Just, DeployLocal,
       Installing
  <2>2. Facts(Just("kill"))
    BY <1>1, NoneIsNone DEF Facts, BaseFacts, KeyFacts, SiteFacts, FileFacts, ConfFacts, ImportFacts,
       Imported, PublishFacts, Started, LocalOnly, RemoteOnly, Keyed, Placed, Just, Idle, SharesWritten, ConfWritten
  <2> QED
    BY <2>1, <2>2
<1>2. CASE Now = Just("postgres")
  <2>1. Following("deploy") = Just("import")
    BY <1>2, NoneIsNone DEF Facts, BaseFacts, SiteFacts, LocalOnly, Now, Following, Just, DeployLocal,
       Installing
  <2>2. Facts(Just("import"))
    BY <1>2, NoneIsNone DEF Facts, BaseFacts, KeyFacts, SiteFacts, FileFacts, ConfFacts, ImportFacts,
       Imported, PublishFacts, Started, LocalOnly, RemoteOnly, Keyed, Placed, Just, Idle, SharesWritten, ConfWritten
  <2> QED
    BY <2>1, <2>2
<1>3. CASE Now = Just("build")
  <2>1. Following("deploy") = <<"start", "b">>
    BY <1>3, NoneIsNone DEF Facts, BaseFacts, SiteFacts, LocalOnly, Now, Following, Just, DeployLocal,
       Installing, Launch
  <2>2. Facts(<<"start", "b">>)
    BY <1>3, NoneIsNone DEF Facts, BaseFacts, KeyFacts, SiteFacts, FileFacts, ConfFacts, ImportFacts,
       Imported, PublishFacts, Started, LocalOnly, RemoteOnly, Keyed, Placed, Just, Idle, SharesWritten, ConfWritten
  <2> QED
    BY <2>1, <2>2
<1>4. CASE Now = Just("upload")
  <2>1. Following("deploy") = Just("import")
    BY <1>4, NoneIsNone DEF Facts, BaseFacts, SiteFacts, RemoteOnly, Now, Following, Just, DeployRemote,
       Installing
  <2>2. Facts(Just("import"))
    BY <1>4, NoneIsNone DEF Facts, BaseFacts, KeyFacts, SiteFacts, FileFacts, ConfFacts, ImportFacts,
       Imported, PublishFacts, Started, LocalOnly, RemoteOnly, Keyed, Placed, Just, Idle, SharesWritten, ConfWritten
  <2> QED
    BY <2>1, <2>2
<1>5. CASE Now \in {<<"docker", p>>, <<"postgres", p>>, <<"pull", p>>}
  <2>1. ~job["deploy"].local
    BY <1>5 DEF Facts, BaseFacts, SiteFacts, RemoteOnly
  <2>2. Following("deploy") = IF Now = <<"docker", p>> THEN <<"postgres", p>>
                              ELSE IF Now = <<"postgres", p>> THEN <<"conf", p>>
                              ELSE <<"stop", p>>
    BY <1>5, <2>1, NoneIsNone DEF Now, Following, Just, DeployRemote, DeployParty, Installing
  <2>3. CASE Now = <<"docker", p>>
    <3>1. Facts(<<"postgres", p>>)
      BY <2>1, <2>3, NoneIsNone DEF Facts, BaseFacts, KeyFacts, SiteFacts, FileFacts, ConfFacts, ImportFacts,
         Imported, PublishFacts, Started, LocalOnly, RemoteOnly, Keyed, Placed, Just, Idle, ConfWritten
    <3> QED
      BY <2>2, <2>3, <3>1
  <2>4. CASE Now = <<"postgres", p>>
    <3>1. Facts(<<"conf", p>>)
      BY <2>1, <2>4, NoneIsNone DEF Facts, BaseFacts, KeyFacts, SiteFacts, FileFacts, ConfFacts, ImportFacts,
         Imported, PublishFacts, Started, LocalOnly, RemoteOnly, Keyed, Placed, Just, Idle, ConfWritten
    <3> QED
      BY <2>2, <2>4, <3>1
  <2>5. CASE Now = <<"pull", p>>
    <3>1. Facts(<<"stop", p>>)
      BY <2>1, <2>5, NoneIsNone DEF Facts, BaseFacts, KeyFacts, SiteFacts, FileFacts, ConfFacts, ImportFacts,
         Imported, PublishFacts, Started, LocalOnly, RemoteOnly, Keyed, Placed, Just, Idle, ConfWritten
    <3> QED
      BY <2>2, <2>5, <3>1
  <2> QED
    BY <1>5, <2>3, <2>4, <2>5
<1> QED
  BY <1>1, <1>2, <1>3, <1>4, <1>5
LEMMA VerifyNext ==
  ASSUME Facts(Now), JobInv, NEW p \in Party, Now = <<"verify", p>>
  PROVE  Facts(Following("deploy"))
<1>1. CASE job["deploy"].local /\ p = "b"
  <2>1. Following("deploy") = <<"verify", "a">>
    BY <1>1, NoneIsNone DEF Now, Following, Just, DeployLocal, Installing, Launch
  <2>2. Facts(<<"verify", "a">>)
    BY <1>1, NoneIsNone DEF Facts, BaseFacts, KeyFacts, SiteFacts, FileFacts, ConfFacts, ImportFacts,
       Imported, PublishFacts, Started, LocalOnly, RemoteOnly, Keyed, Placed, Just, Idle, SharesWritten, ConfWritten
  <2> QED
    BY <2>1, <2>2
<1>2. CASE job["deploy"].local /\ p = "a"
  <2>1. Following("deploy") = Just("succeed")
    BY <1>2, NoneIsNone DEF Now, Following, Just, DeployLocal, Installing, Launch
  <2>2. Facts(Just("succeed"))
    BY <1>2, NoneIsNone DEF Facts, BaseFacts, KeyFacts, SiteFacts, FileFacts, ConfFacts, ImportFacts,
       Imported, PublishFacts, Started, LocalOnly, RemoteOnly, Keyed, Placed, Just, Idle, SharesWritten, ConfWritten
  <2> QED
    BY <2>1, <2>2
<1>3. CASE ~job["deploy"].local /\ p = "b"
  <2>1. Following("deploy") = <<"connect", "a">>
    BY <1>3, NoneIsNone DEF Now, Following, Just, DeployRemote, Installing
  <2>2. Facts(<<"connect", "a">>)
    BY <1>3, NoneIsNone DEF Facts, BaseFacts, KeyFacts, SiteFacts, FileFacts, ConfFacts, ImportFacts,
       Imported, PublishFacts, Started, LocalOnly, RemoteOnly, Keyed, Placed, Just, Idle, ConfWritten, Party
  <2> QED
    BY <2>1, <2>2
<1>4. CASE ~job["deploy"].local /\ p = "a"
  <2>1. Following("deploy") = Just("upload")
    BY <1>4, NoneIsNone DEF Now, Following, Just, DeployRemote, Installing
  <2>2. Facts(Just("upload"))
    BY <1>4, NoneIsNone DEF Facts, BaseFacts, KeyFacts, SiteFacts, FileFacts, ConfFacts, ImportFacts,
       Imported, PublishFacts, Started, LocalOnly, RemoteOnly, Keyed, Placed, Just, Idle, ConfWritten, Party
  <2> QED
    BY <2>1, <2>2
<1> QED
  BY <1>1, <1>2, <1>3, <1>4 DEF Party

\* Keys, primes and the waiting for them; a job that waits for mu stays put.
LEMMA KeyStepsKeep ==
  ASSUME IInv, DeriveKeys \/ PrimesReady \/ AwaitPrimes \/ WokenByPrimes
  PROVE  IInv'
<1>1. CASE DeriveKeys \/ PrimesReady
  <2>1. Now \in {Just("derive"), Just("primes")} /\ Now # Idle /\ Now # Just("lastLog")
    BY <1>1 DEF DeriveKeys, PrimesReady, Doing, Now, Just, Idle
  <2>2. Facts(Following("deploy"))
    BY <2>1, KeysNext DEF IInv
  <2> QED
    BY <1>1, <2>1, <2>2, Forward DEF DeriveKeys, PrimesReady, GoesOn, Job, Now
<1>2. CASE AwaitPrimes
  <2>1. Now = Just("primes") /\ Now # Idle /\ Now # Just("lastLog")
    BY <1>2 DEF AwaitPrimes, Doing, Now, Just, Idle
  <2>2. Facts(Just("wait"))
    BY <2>1, KeysNext DEF IInv
  <2> QED
    BY <1>2, <2>1, <2>2, Forward DEF AwaitPrimes, Job, Now
<1>3. CASE WokenByPrimes
  <2>1. Now = Just("wait") /\ Now \notin {Idle, Just("lastLog"), Just("importing")}
    BY <1>3 DEF WokenByPrimes, Doing, Now, Just, Idle
  <2>2. CASE primes = "failed"
    <3>1. Goes("deploy", Just("abort")) /\ stuck' = stuck
      BY <1>3, <2>2 DEF WokenByPrimes
    <3>2. UNCHANGED <<jobFrame, pub, share, dealt, cert, imports, siteVars, raced>>
      BY <1>3, <3>1 DEF WokenByPrimes, jobFrame, keyVars, histVars
    <3> QED
      BY <2>1, <3>1, <3>2, Fails DEF Job, Now
  <2>3. CASE primes = "ready"
    <3>1. stuck' = TRUE /\ UNCHANGED <<job, logs>>
      BY <1>3, <2>3 DEF WokenByPrimes
    <3>2. UiInv' /\ SettingsInv' /\ KeyInv' /\ SameServers
      BY <1>3, <3>1 DEF WokenByPrimes, IInv, UiInv, SettingsInv, KeyInv, SameServers, keyVars,
                        histVars
    <3> QED
      BY <1>3, <3>1, <3>2, Beside DEF WokenByPrimes, keyVars, histVars
  <2> QED
    BY <1>3, <2>2, <2>3 DEF WokenByPrimes
<1> QED
  BY <1>1, <1>2, <1>3

LEMMA MayFailKeeps ==
  ASSUME IInv, NEW w \in Job, NEW op, MayFail(w, op),
         op \notin {Idle, Just("lastLog"), Just("importing")},
         w = "deploy" => Facts(Following("deploy"))
  PROVE  IInv'
<1>1. job[w].at = op
  BY DEF MayFail, Doing
<1>2. CASE GoesOn(w)
  BY <1>1, <1>2, Forward DEF MayFail, GoesOn, Now
<1>3. CASE CallFails(w, "fail")
  BY <1>1, <1>3, Fails DEF MayFail, CallFails, Now
<1> QED
  BY <1>2, <1>3 DEF MayFail

LEMMA PrepareKeeps ==
  ASSUME IInv, NEW p \in Party,
         LookForDocker \/ EnsureLocalPostgres \/ UploadKeyShares \/ EnsureDocker(p)
           \/ EnsureRemotePostgres(p) \/ BuildFromSource(p)
  PROVE  IInv'
<1>1. PICK op \in {Just("docker"), Just("postgres"), Just("upload"), <<"docker", p>>,
                   <<"postgres", p>>, <<"pull", p>>} : MayFail("deploy", op)
  BY DEF LookForDocker, EnsureLocalPostgres, UploadKeyShares, EnsureDocker,
         EnsureRemotePostgres, BuildFromSource
<1>2. op \notin {Idle, Just("lastLog"), Just("importing")}
  BY DEF Just, Idle
<1>3. Facts(Following("deploy"))
  BY <1>1, PrepareNext DEF MayFail, Doing, Now, IInv
<1> QED
  BY <1>1, <1>2, <1>3, MayFailKeeps DEF Job

LEMMA DockerBuildKeeps ==
  ASSUME IInv, NEW w \in Job, DockerBuild(w)
  PROVE  IInv'
<1>1. Just("build") \notin {Idle, Just("lastLog"), Just("importing")}
  BY DEF Just, Idle
<1>2. w = "deploy" => Facts(Following("deploy"))
  BY PrepareNext DEF DockerBuild, MayFail, Doing, Now, IInv, Party
<1> QED
  BY <1>1, <1>2, MayFailKeeps DEF DockerBuild

LEMMA CheckInstalledKeeps ==
  ASSUME IInv, CheckInstalled
  PROVE  IInv'
<1>1. Just("exists") # Idle
  BY DEF Just, Idle
<1> QED
  BY <1>1, Forward DEF CheckInstalled, Doing, Job

LEMMA VerifyKeeps ==
  ASSUME IInv, NEW w \in Job, NEW p \in Party, Verify(w, p)
  PROVE  IInv'
<1>1. <<"verify", p>> \notin {Idle, Just("lastLog"), Just("importing")}
  BY DEF Just, Idle
<1>2. job[w].at = <<"verify", p>>
  BY DEF Verify, Doing
<1>3. CASE GoesOn(w)
  <2>1. w = "deploy" => Facts(Following("deploy"))
    BY <1>2, VerifyNext DEF Now, IInv
  <2> QED
    BY <1>1, <1>2, <1>3, <2>1, Forward DEF Verify, GoesOn, Now
<1>4. CASE Goes(w, Just("fail"))
  BY <1>1, <1>2, <1>4, Fails DEF Verify, Now
<1> QED
  BY <1>3, <1>4 DEF Verify

LEMMA LastLogKeeps ==
  ASSUME IInv, NEW w \in Job, LastLog(w)
  PROVE  IInv'
<1>1. Just("lastLog") # Idle
  BY DEF Just, Idle
<1>2. w = "deploy" => Facts(Idle)
  <2>1. SUFFICES ASSUME w = "deploy", Now = Just("lastLog") PROVE Facts(Idle)
    BY DEF LastLog, Doing, Now
  <2> QED
    BY <2>1, NoneIsNone DEF IInv, Facts, BaseFacts, KeyFacts, SiteFacts, FileFacts, ConfFacts, ImportFacts,
       Imported, PublishFacts, Started, LocalOnly, RemoteOnly, Keyed, Placed, Just, Idle
<1> QED
  BY <1>1, <1>2, Forward DEF LastLog, Doing
-----------------------------------------------------------------------------
(* Keys, certificates and the target.                                      *)

\* A dealing is a new one, so every share that is in use stays what it was.
LEMMA Dealing ==
  ASSUME KeyInv, NEW m \in Mnemonic, dealt' = Append(dealt, m), Len(dealt) \in Nat
  PROVE  /\ dealt' \in Seq(Mnemonic) /\ Len(dealt') = Len(dealt) + 1
         /\ dealt'[Len(dealt')] = m
         /\ \A i \in 0 .. Len(dealt) : i \in 0 .. Len(dealt') /\ (i # 0 => dealt'[i] = dealt[i])
<1>1. /\ dealt' \in Seq(Mnemonic) /\ Len(dealt') = Len(dealt) + 1
      /\ \A i \in 1 .. Len(dealt) : dealt'[i] = dealt[i]
      /\ dealt'[Len(dealt) + 1] = m
  BY AppendProperties DEF KeyInv
<1> QED
  BY <1>1

LEMMA Widened ==
  ASSUME NEW S, NEW T, S \subseteq T
  PROVE  [Site -> [Party -> S]] \subseteq [Site -> [Party -> T]]
  OBVIOUS

LEMMA DealKeeps ==
  ASSUME IInv, Deal
  PROVE  IInv'
<1>1. Now = Just("deal") /\ Now \notin {Idle, Just("lastLog"), Just("importing")}
  BY DEF Deal, Doing, Now, Just, Idle
<1>2. CASE CallFails("deploy", "abort") /\ UNCHANGED dealt
  BY <1>1, <1>2, Fails DEF Deal, CallFails, Job, Now
<1>3. CASE GoesOn("deploy") /\ dealt' = Append(dealt, job["deploy"].mn)
  <2>1. job["deploy"].mn \in Mnemonic
    BY <1>1 DEF IInv, JobInv
  <2>2. Len(dealt) \in Nat
    BY LenProperties DEF IInv, KeyInv
  <2>3. /\ dealt' \in Seq(Mnemonic) /\ Len(dealt') = Len(dealt) + 1
        /\ dealt'[Len(dealt')] = job["deploy"].mn
        /\ \A i \in 0 .. Len(dealt) : i \in 0 .. Len(dealt') /\ (i # 0 => dealt'[i] = dealt[i])
    BY <1>3, <2>1, <2>2, Dealing DEF IInv
  <2>4. Following("deploy") = <<"keys", "ecdsa">>
    BY <1>1, NoneIsNone DEF Now, Following, Just, Installing, Install
  <2>5. Now' = <<"keys", "ecdsa">> /\ SameDeploy
    BY <1>3, <2>4, JobMoved DEF GoesOn, Goes, Job, IInv, SameDeploy, Now
  <2>6. JobInv'
    <3>1. ImportsInv'
      BY DEF IInv, JobInv, ImportsInv, Deal
    <3> QED
      BY <1>1, <1>3, <3>1, JobInvMoved DEF GoesOn, Goes, Job, IInv, Now
  <2>7. UiInv' /\ SettingsInv' /\ KeyInv'
    BY <1>3, <2>2, <2>3 DEF IInv, Deal, GoesOn, Goes, jobFrame, UiInv, SettingsInv, KeyInv
  <2>8. UNCHANGED <<imports, share, siteVars, raced, touched, settings, outcome, cert>>
    BY DEF Deal, jobFrame
  <2>9. SiteInv' /\ LiveInv'
    <3>1. [Curve -> 0 .. Len(dealt)] \subseteq [Curve -> 0 .. Len(dealt')]
      BY <2>3
    <3>2. FileType \subseteq FileType'
      BY <3>1 DEF FileType, Conf0
    <3>3. files' \in [Site -> [Party -> FileType']]
      BY <2>8, <3>2 DEF IInv, SiteInv, siteVars
    <3>4. master' \in [Site -> [Party -> [Curve -> 0 .. Len(dealt')]]]
      BY <2>8, <3>1, Widened DEF IInv, SiteInv, siteVars
    <3> QED
      BY <2>8, <3>3, <3>4 DEF IInv, SiteInv, siteVars, LiveInv
  <2>10. \A p \in Party : imports[p] = Idle
    BY <1>1 DEF IInv, Facts, BaseFacts, ImportFacts
  <2>11. StaleInv'
    <3>1. ASSUME NEW s \in Site, NEW p \in Party, Kept(s, p) PROVE Kept(s, p)'
      <4>1. \A c \in Curve : master[s][p][c] \in 0 .. Len(dealt)
        BY DEF IInv, SiteInv
      <4>2. deriving[s][p] # <<>> => deriving[s][p][1] \in Curve
        BY DEF IInv, SiteInv
      <4> QED
        BY <2>3, <2>8, <3>1, <4>1, <4>2 DEF Kept, siteVars
    <3>2. \A p \in Party : Replaced(p)'
      BY <2>8, <2>10 DEF Replaced, Idle, Just
    <3> QED
      BY <2>8, <3>1, <3>2 DEF IInv, StaleInv
  <2>12. Facts(Now)'
    <3>1. KeyFacts(Now)'
      BY <2>3, <2>5 DEF SameDeploy, KeyFacts, Keyed, Placed
    <3>2. SiteFacts(Now)' /\ FileFacts(Now)'
      BY <2>5 DEF SiteFacts, FileFacts, Placed, LocalOnly, RemoteOnly, Just
    <3>3. ConfFacts(Now)'
      BY <1>1, <2>5, <2>8 DEF IInv, Facts, BaseFacts, ConfFacts, Placed, SameDeploy
    <3>4. ImportFacts(Now)'
      BY <2>5, <2>8, <2>10 DEF ImportFacts, Imported, Just, Idle
    <3>5. PublishFacts(Now)'
      BY <2>5, NoneIsNone DEF PublishFacts, Started, Placed, Just, Party
    <3> QED
      BY <3>1, <3>2, <3>3, <3>4, <3>5 DEF Facts, BaseFacts
  <2>13. OutcomeInv'
    BY <1>1, <2>8 DEF IInv, OutcomeInv
  <2> QED
    BY <2>6, <2>7, <2>9, <2>11, <2>12, <2>13 DEF IInv
<1> QED
  BY <1>2, <1>3 DEF Deal

LEMMA SetKeysKeeps ==
  ASSUME IInv, NEW c \in Curve, SetKeys(c)
  PROVE  IInv'
<1>1. Now = <<"keys", c>> /\ Now \notin {Idle, Just("lastLog"), Just("importing")}
  BY DEF SetKeys, Doing, Now, Just, Idle
<1>2. /\ GoesOn("deploy") /\ share' = [share EXCEPT ![c] = Len(dealt)]
      /\ pub' = [pub EXCEPT ![c] = job["deploy"].mn]
      /\ UNCHANGED <<dealt, imports, siteVars, raced, touched, settings, outcome, cert>>
  BY DEF SetKeys, jobFrame
<1>3. job["deploy"].mn \in Mnemonic /\ Len(dealt) \in Nat
  BY <1>1, LenProperties DEF IInv, JobInv, KeyInv
<1>4. Following("deploy") = IF c = "ecdsa" THEN <<"keys", "eddsa">> ELSE Just("certs")
  BY <1>1, NoneIsNone DEF Now, Following, Just, Installing, Install, Curve
<1>5. Now' = Following("deploy") /\ SameDeploy
  BY <1>2, JobMoved DEF GoesOn, Goes, Job, IInv, SameDeploy, Now
<1>6. JobInv'
  <2>1. ImportsInv'
    BY <1>2 DEF IInv, JobInv, ImportsInv
  <2> QED
    BY <1>1, <1>2, <2>1, JobInvMoved DEF GoesOn, Goes, Job, IInv, Now
<1>7. UiInv' /\ SettingsInv'
  BY <1>2 DEF IInv, SetKeys, GoesOn, Goes, jobFrame, UiInv, SettingsInv
<1>8. KeyInv'
  BY <1>2, <1>3 DEF IInv, KeyInv, SetKeys, jobFrame
<1>9. SiteInv' /\ LiveInv'
  BY <1>2 DEF IInv, SiteInv, LiveInv, siteVars, FileType, Conf0
<1>10. \A p \in Party : imports[p] = Idle
  BY <1>1 DEF IInv, Facts, BaseFacts, ImportFacts
<1>11. StaleInv'
  <2>1. ASSUME NEW s \in Site, NEW p \in Party, Kept(s, p) PROVE Kept(s, p)'
    BY <1>2, <2>1 DEF Kept, siteVars
  <2>2. \A p \in Party : Replaced(p)'
    BY <1>2, <1>10 DEF Replaced, Idle, Just
  <2> QED
    BY <1>2, <2>1, <2>2 DEF IInv, StaleInv
<1>12. Facts(Now)'
  <2>1. KeyFacts(Now)'
    <3>1. dealt'[Len(dealt')] = job'["deploy"].mn
      BY <1>1, <1>2, <1>5 DEF IInv, Facts, BaseFacts, KeyFacts, SameDeploy
    <3>2. share'[c] = Len(dealt')
      BY <1>2 DEF IInv, KeyInv
    <3>3. c = "eddsa" => share'["ecdsa"] = Len(dealt')
      BY <1>1, <1>2 DEF IInv, Facts, BaseFacts, KeyFacts, KeyInv, Curve
    <3> QED
      BY <1>4, <1>5, <3>1, <3>2, <3>3 DEF KeyFacts, Keyed, Placed, Curve, Just
  <2>2. SiteFacts(Now)' /\ FileFacts(Now)'
    BY <1>4, <1>5, NoneIsNone DEF SiteFacts, FileFacts, Placed, LocalOnly, RemoteOnly, Just
  <2>3. ConfFacts(Now)'
    BY <1>1, <1>2, <1>4, <1>5, NoneIsNone DEF IInv, Facts, BaseFacts, ConfFacts, Placed, SameDeploy, Just,
       Idle
  <2>4. ImportFacts(Now)'
    BY <1>2, <1>4, <1>5, <1>10 DEF ImportFacts, Imported, Just, Idle
  <2>5. PublishFacts(Now)'
    BY <1>4, <1>5, NoneIsNone DEF PublishFacts, Started, Placed, Just, Party
  <2> QED
    BY <2>1, <2>2, <2>3, <2>4, <2>5 DEF Facts, BaseFacts
<1>13. OutcomeInv'
  BY <1>1, <1>2 DEF IInv, OutcomeInv
<1> QED
  BY <1>6, <1>7, <1>8, <1>9, <1>11, <1>12, <1>13 DEF IInv

\* The certificate carries the name Party A dials, unless the servers are edited.
LEMMA MakeCertsKeeps ==
  ASSUME IInv, MakeCerts
  PROVE  IInv'
<1>1. Now = Just("certs") /\ Now \notin {Idle, Just("lastLog"), Just("importing")}
  BY DEF MakeCerts, Doing, Now, Just, Idle
<1>2. CASE CallFails("deploy", "abort") /\ UNCHANGED cert
  BY <1>1, <1>2, Fails DEF MakeCerts, CallFails, Job, Now
<1>3. CASE GoesOn("deploy")
             /\ cert' = {settings.host} \cup IF job["deploy"].local THEN {"local"} ELSE {}
  <2>1. UNCHANGED <<share, dealt, imports, siteVars, raced, touched, settings, outcome>>
    BY DEF MakeCerts, jobFrame
  <2>2. Following("deploy") = Just("target")
    BY <1>1, NoneIsNone DEF Now, Following, Just, Installing, Install
  <2>3. Now' = Just("target") /\ SameDeploy
    BY <1>3, <2>2, JobMoved DEF GoesOn, Goes, Job, IInv, SameDeploy, Now
  <2>4. JobInv'
    <3>1. ImportsInv'
      BY <2>1 DEF IInv, JobInv, ImportsInv
    <3> QED
      BY <1>1, <1>3, <3>1, JobInvMoved DEF GoesOn, Goes, Job, IInv, Now
  <2>5. UiInv' /\ SettingsInv' /\ KeyInv'
    BY <1>3 DEF IInv, MakeCerts, GoesOn, Goes, jobFrame, UiInv, SettingsInv, KeyInv
  <2>6. SiteInv' /\ LiveInv'
    BY <2>1 DEF IInv, SiteInv, LiveInv, siteVars, FileType, Conf0
  <2>7. StaleInv'
    BY <2>1, <2>3, StaleFrame DEF IInv, siteVars, SameDeploy
  <2>8. Facts(Now)'
    <3>1. KeyFacts(Now)' /\ SiteFacts(Now)' /\ FileFacts(Now)'
      BY <1>1, <2>1, <2>3, NoneIsNone DEF IInv, Facts, BaseFacts, KeyFacts, SiteFacts, FileFacts, Keyed,
         Placed, LocalOnly, RemoteOnly, Just, SameDeploy
    <3>2. Dialled' \in cert'
      BY <1>3, <2>1, <2>3 DEF Dialled, SameDeploy
    <3>3. ConfFacts(Now)'
      BY <1>1, <2>1, <2>3, <3>2, NoneIsNone DEF IInv, Facts, BaseFacts, ConfFacts, Placed, SameDeploy, Just,
         Idle
    <3>4. ImportFacts(Now)'
      BY <1>1, <2>1, <2>3 DEF IInv, Facts, BaseFacts, ImportFacts, Imported, Just, Idle
    <3>5. PublishFacts(Now)'
      BY <2>3, NoneIsNone DEF PublishFacts, Started, Placed, Just, Party
    <3> QED
      BY <3>1, <3>3, <3>4, <3>5 DEF Facts, BaseFacts
  <2>9. OutcomeInv'
    BY <1>1, <2>1 DEF IInv, OutcomeInv
  <2> QED
    BY <2>4, <2>5, <2>6, <2>7, <2>8, <2>9 DEF IInv
<1> QED
  BY <1>2, <1>3 DEF MakeCerts
\* The site is this machine exactly if the install is local.
LEMMA ChooseTargetKeeps ==
  ASSUME IInv, ChooseTarget
  PROVE  IInv'
<1> DEFINE known == job["deploy"].local \/ settings.host \in Host
           site  == IF job["deploy"].local THEN "local" ELSE settings.host
<1>1. Now = Just("target") /\ Now \notin {Idle, Just("lastLog"), Just("importing")}
  BY DEF ChooseTarget, Doing, Now, Just, Idle
<1>2. UNCHANGED <<share, dealt, imports, siteVars, raced, touched, settings, outcome, cert>>
  BY DEF ChooseTarget, jobFrame
<1>3. known => (site = "local" <=> job["deploy"].local)
  BY InstallerAssumption
<1>4. /\ DOMAIN job' = Job /\ job'["update"] = job["update"]
      /\ DOMAIN job'["deploy"] = DOMAIN job["deploy"]
      /\ job'["deploy"].site = (IF known THEN site ELSE None)
      /\ Now' = IF ~known THEN Just("fail")
                ELSE IF site = "local" THEN <<"shares", "a">> ELSE <<"connect", "b">>
      /\ job'["deploy"].mn = job["deploy"].mn /\ job'["deploy"].local = job["deploy"].local
      /\ job'["deploy"].conf = job["deploy"].conf
  BY DEF ChooseTarget, Now, Job, IInv, JobInv
<1>5. job["deploy"].local \in BOOLEAN
  BY DEF IInv, JobInv, Job
<1> HIDE DEF known, site
<1>6. JobInv'
  BY <1>1, <1>2, <1>4 DEF IInv, JobInv, ImportsInv, Job, Now, Conf0
<1>7. UiInv' /\ SettingsInv' /\ KeyInv'
  BY DEF IInv, ChooseTarget, jobFrame, UiInv, SettingsInv, KeyInv
<1>8. SiteInv' /\ LiveInv'
  BY <1>2 DEF IInv, SiteInv, LiveInv, siteVars, FileType, Conf0
<1>9. \A p \in Party : imports[p] = Idle
  BY <1>1 DEF IInv, Facts, BaseFacts, ImportFacts
<1>10. StaleInv'
  <2>1. ASSUME NEW s \in Site, NEW p \in Party, Kept(s, p) PROVE Kept(s, p)'
    BY <1>2, <2>1 DEF Kept, siteVars
  <2>2. \A p \in Party : Replaced(p)'
    BY <1>2, <1>9 DEF Replaced, Idle, Just
  <2> QED
    BY <1>2, <2>1, <2>2 DEF IInv, StaleInv
<1>11. Facts(Now)'
  <2>1. Now' \in {Just("fail"), <<"shares", "a">>, <<"connect", "b">>}
    BY <1>4
  <2>2. KeyFacts(Now)'
    BY <1>1, <1>2, <1>4, <2>1 DEF IInv, Facts, BaseFacts, KeyFacts, Keyed, Placed, Just
  <2>3. SiteFacts(Now)'
    <3>1. CASE ~known
      BY <1>4, <3>1, NoneIsNone DEF SiteFacts, Placed, LocalOnly, RemoteOnly, Just
    <3>2. CASE known /\ job["deploy"].local
      BY <1>3, <1>4, <3>2, NoneIsNone DEF SiteFacts, Placed, LocalOnly, RemoteOnly, Just, Site,
         site
    <3>3. CASE known /\ ~job["deploy"].local
      BY <1>3, <1>4, <3>3, NoneIsNone DEF SiteFacts, Placed, LocalOnly, RemoteOnly, Just, Site,
         site, known
    <3> QED
      BY <3>1, <3>2, <3>3
  <2>4. FileFacts(Now)'
    BY <1>3, <1>4, <2>1 DEF FileFacts, SharesWritten, Placed, Just, Party
  <2>5. ConfFacts(Now)'
    BY <1>1, <1>2, <1>3, <1>4, <1>5, <2>1, NoneIsNone DEF IInv, Facts, BaseFacts, ConfFacts, ConfWritten,
       Placed, Just, Idle, Dialled, Party
  <2>6. ImportFacts(Now)'
    BY <1>2, <1>9, <2>1 DEF ImportFacts, Imported, Just, Idle
  <2>7. PublishFacts(Now)'
    BY <1>3, <1>4, <2>1, NoneIsNone DEF PublishFacts, Started, Placed, Just, Party
  <2> QED
    BY <2>2, <2>3, <2>4, <2>5, <2>6, <2>7 DEF Facts, BaseFacts
<1>12. OutcomeInv'
  BY <1>1, <1>2 DEF IInv, OutcomeInv
<1> QED
  BY <1>6, <1>7, <1>8, <1>10, <1>11, <1>12 DEF IInv

-----------------------------------------------------------------------------
(* Share and config files.                                                 *)

\* What one party has at one site is replaced.
LEMMA OneSet ==
  ASSUME NEW T, NEW f \in [Site -> [Party -> T]], NEW s \in Site, NEW p \in Party, NEW x \in T
  PROVE  /\ [f EXCEPT ![s][p] = x] \in [Site -> [Party -> T]]
         /\ [f EXCEPT ![s][p] = x][s][p] = x
         /\ \A t \in Site, q \in Party : t # s \/ q # p => [f EXCEPT ![s][p] = x][t][q] = f[t][q]
  OBVIOUS

LEMMA FileSet ==
  ASSUME NEW r \in FileType, NEW x \in [Curve -> 0..Len(dealt)], NEW y \in Conf0 \cup {None}
  PROVE  [r EXCEPT !.shares = x] \in FileType /\ [r EXCEPT !.conf = y] \in FileType
  BY DEF FileType

LEMMA WriteSharesKeeps ==
  ASSUME IInv, NEW p \in Party, WriteShares(p)
  PROVE  IInv'
<1>1. Now = <<"shares", p>> /\ Now \notin {Idle, Just("lastLog"), Just("importing")}
  BY DEF WriteShares, Doing, Now, Just, Idle
<1>2. CASE CallFails("deploy", "fail") /\ UNCHANGED files
  BY <1>1, <1>2, Fails DEF WriteShares, CallFails, Job, Now, siteVars
<1>3. CASE GoesOn("deploy") /\ files' = [files EXCEPT ![job["deploy"].site][p].shares = share]
  <2>1. job["deploy"].local /\ job["deploy"].site = "local" /\ "local" \in Site
    BY <1>1, NoneIsNone DEF IInv, Facts, BaseFacts, SiteFacts, LocalOnly, Placed, Site
  <2>2. /\ files'["local"][p].shares = share
        /\ files'["local"][p].conf = files["local"][p].conf
        /\ \A t \in Site, q \in Party : t # "local" \/ q # p => files'[t][q] = files[t][q]
    BY <1>3, <2>1 DEF IInv, SiteInv, FileType
  <2>3. files' \in [Site -> [Party -> FileType]]
    <3>1. [files["local"][p] EXCEPT !.shares = share] \in FileType
      <4>1. files["local"][p] \in FileType
        BY <2>1 DEF IInv, SiteInv
      <4> QED
        BY <4>1, FileSet DEF IInv, KeyInv
    <3>2. files' = [files EXCEPT !["local"][p] = [files["local"][p] EXCEPT !.shares = share]]
      BY <1>3, <2>1
    <3> QED
      BY <2>1, <3>1, <3>2, OneSet DEF IInv, SiteInv
  <2>4. UNCHANGED <<share, dealt, imports, container, published, master, derived, deriving, raced,
                    touched, settings, outcome, cert>>
    BY DEF WriteShares, jobFrame
  <2>5. Following("deploy") = <<"conf", p>>
    BY <1>1, <2>1, NoneIsNone DEF Now, Following, Just, Installing, DeployLocal
  <2>6. Now' = <<"conf", p>> /\ SameDeploy
    BY <1>3, <2>5, JobMoved DEF GoesOn, Goes, Job, IInv, SameDeploy, Now
  <2>7. JobInv'
    <3>1. ImportsInv'
      BY <2>4 DEF IInv, JobInv, ImportsInv
    <3> QED
      BY <1>1, <1>3, <3>1, JobInvMoved DEF GoesOn, Goes, Job, IInv, Now
  <2>8. UiInv' /\ SettingsInv' /\ KeyInv'
    BY <1>3 DEF IInv, WriteShares, GoesOn, Goes, jobFrame, UiInv, SettingsInv, KeyInv
  <2>9. SiteInv' /\ LiveInv'
    BY <2>3, <2>4 DEF IInv, SiteInv, LiveInv, FileType, Conf0
  <2>10. StaleInv'
    BY <2>4, <2>6, StaleFrame DEF IInv, SameDeploy
  <2>11. Facts(Now)'
    <3>1. KeyFacts(Now)' /\ SiteFacts(Now)'
      BY <1>1, <2>1, <2>4, <2>6, NoneIsNone DEF IInv, Facts, BaseFacts, KeyFacts, SiteFacts, Keyed, Placed,
         LocalOnly, RemoteOnly, Just, SameDeploy
    <3>2. FileFacts(Now)'
      BY <1>1, <2>1, <2>2, <2>4, <2>6 DEF IInv, Facts, BaseFacts, FileFacts, SharesWritten, Placed,
         SameDeploy, Party
    <3>3. ConfFacts(Now)'
      BY <1>1, <2>1, <2>2, <2>4, <2>6 DEF IInv, Facts, BaseFacts, ConfFacts, ConfWritten, Placed, Idle, Just,
         SameDeploy, Party, Dialled, Suits, GetTransportPort
    <3>4. ImportFacts(Now)'
      BY <1>1, <2>4, <2>6 DEF IInv, Facts, BaseFacts, ImportFacts, Imported, Just, Idle, SameDeploy
    <3>5. PublishFacts(Now)'
      BY <2>1, <2>6 DEF PublishFacts, Started, Just, SameDeploy
    <3> QED
      BY <3>1, <3>2, <3>3, <3>4, <3>5 DEF Facts, BaseFacts
  <2>12. OutcomeInv'
    BY <1>1, <2>4 DEF IInv, OutcomeInv
  <2> QED
    BY <2>7, <2>8, <2>9, <2>10, <2>11, <2>12 DEF IInv
<1> QED
  BY <1>2, <1>3 DEF WriteShares
\* The config as the settings are now suits an install whose servers were not
\* edited.
LEMMA ConfSuits ==
  ASSUME IInv, NEW l \in BOOLEAN
  PROVE  /\ Conf(l) \in Conf0
         /\ ~touched /\ Now # Idle /\ (l <=> job["deploy"].local) => Suits(Conf(l))
<1>1. GetTransportPort \in Port
  BY InstallerAssumption DEF GetTransportPort, IInv, SettingsInv
<1>2. Conf(l) \in Conf0
  BY <1>1 DEF Conf, Conf0, IInv, SettingsInv
<1>3. ASSUME ~touched, Now # Idle, l <=> job["deploy"].local PROVE Suits(Conf(l))
  BY <1>3 DEF Suits, Conf, Dialled, IInv, Facts, BaseFacts, ConfFacts
<1> QED
  BY <1>2, <1>3

LEMMA ConnectKeeps ==
  ASSUME IInv, NEW p \in Party, Connect(p)
  PROVE  IInv'
<1>1. Now = <<"connect", p>> /\ Now \notin {Idle, Just("lastLog"), Just("importing")}
  BY DEF Connect, Doing, Now, Just, Idle
<1>2. CASE CallFails("deploy", "fail")
  BY <1>1, <1>2, Fails DEF Connect, CallFails, Job, Now
<1>3. CASE /\ job' = [job EXCEPT !["deploy"] = [@ EXCEPT !.at = Following("deploy"),
                                                        !.conf = Conf(FALSE)]]
           /\ logs' = TRUE
  <2>1. ~job["deploy"].local
    BY <1>1 DEF IInv, Facts, BaseFacts, SiteFacts, RemoteOnly
  <2>2. UNCHANGED <<share, dealt, imports, siteVars, raced, touched, settings, outcome, cert>>
    BY DEF Connect, jobFrame
  <2>3. Following("deploy") = <<"docker", p>>
    BY <1>1, <2>1, NoneIsNone DEF Now, Following, Just, Installing, DeployRemote, DeployParty
  <2>4. /\ DOMAIN job' = Job /\ job'["update"] = job["update"]
        /\ DOMAIN job'["deploy"] = DOMAIN job["deploy"]
        /\ job'["deploy"].site = job["deploy"].site
        /\ Now' = <<"docker", p>> /\ job'["deploy"].conf = Conf(FALSE)
        /\ job'["deploy"].mn = job["deploy"].mn /\ job'["deploy"].local = job["deploy"].local
    BY <1>3, <2>3 DEF Now, Job, IInv, JobInv
  <2>5. Conf(FALSE) \in Conf0 /\ (~touched => Suits(Conf(FALSE)))
    BY <1>1, <2>1, ConfSuits
  <2>6. JobInv'
    BY <1>1, <2>2, <2>4, <2>5 DEF IInv, JobInv, ImportsInv, Job, Now, Conf0
  <2>7. UiInv' /\ SettingsInv' /\ KeyInv'
    BY <1>3 DEF IInv, Connect, jobFrame, UiInv, SettingsInv, KeyInv
  <2>8. SiteInv' /\ LiveInv'
    BY <2>2 DEF IInv, SiteInv, LiveInv, siteVars, FileType, Conf0
  <2>9. StaleInv'
    BY <2>2, <2>4, StaleFrame DEF IInv, siteVars
  <2>10. Facts(Now)'
    <3>1. KeyFacts(Now)' /\ SiteFacts(Now)' /\ FileFacts(Now)'
      BY <1>1, <2>1, <2>2, <2>4, NoneIsNone DEF IInv, Facts, BaseFacts, KeyFacts, SiteFacts, FileFacts,
         Keyed, Placed, LocalOnly, RemoteOnly, Just
    <3>2. ConfFacts(Now)'
      <4>1. Dialled' = Dialled /\ GetTransportPort' = GetTransportPort
        BY <2>2, <2>4 DEF Dialled, GetTransportPort
      <4> QED
        BY <1>1, <2>1, <2>2, <2>4, <2>5, <4>1 DEF IInv, Facts, BaseFacts, ConfFacts, ConfWritten, Placed,
           Idle, Just, Suits, siteVars, Party
    <3>3. ImportFacts(Now)'
      BY <1>1, <2>1, <2>2, <2>4 DEF IInv, Facts, BaseFacts, ImportFacts, Imported, Just, Idle, siteVars
    <3>4. PublishFacts(Now)'
      BY <1>1, <2>1, <2>2, <2>4, NoneIsNone DEF IInv, Facts, PublishFacts, Started, Published, Placed,
         Just, Party, siteVars
    <3> QED
      BY <3>1, <3>2, <3>3, <3>4 DEF Facts, BaseFacts
  <2>11. OutcomeInv'
    BY <1>1, <2>2 DEF IInv, OutcomeInv
  <2> QED
    BY <2>6, <2>7, <2>8, <2>9, <2>10, <2>11 DEF IInv
<1> QED
  BY <1>2, <1>3 DEF Connect

LEMMA WriteConfKeeps ==
  ASSUME IInv, NEW p \in Party, WriteConf(p)
  PROVE  IInv'
<1> DEFINE s == job["deploy"].site
           new == IF job["deploy"].local THEN Conf(TRUE) ELSE job["deploy"].conf
<1>1. Now = <<"conf", p>> /\ Now \notin {Idle, Just("lastLog"), Just("importing")}
  BY DEF WriteConf, Doing, Now, Just, Idle
<1>2. CASE CallFails("deploy", "fail") /\ UNCHANGED files
  BY <1>1, <1>2, Fails DEF WriteConf, CallFails, Job, Now, siteVars
<1>3. CASE /\ logs' = TRUE
           /\ job' = [job EXCEPT !["deploy"] = [@ EXCEPT !.at = Following("deploy"), !.conf = None]]
           /\ files' = [files EXCEPT ![s][p].conf = new]
  <2>1. s \in Site /\ job["deploy"].local \in BOOLEAN /\ (job["deploy"].local => s = "local")
    BY <1>1 DEF IInv, Facts, BaseFacts, SiteFacts, Placed, JobInv, Job
  <2>2. UNCHANGED <<share, dealt, imports, container, published, master, derived, deriving,
                    raced, touched, settings, outcome, cert>>
    BY DEF WriteConf, jobFrame
  <2>3. new \in Conf0 \cup {None} /\ (~touched => Suits(new))
    <3>1. CASE job["deploy"].local
      BY <1>1, <3>1, ConfSuits
    <3>2. CASE ~job["deploy"].local
      BY <1>1, <3>2 DEF IInv, JobInv, Job, Facts, BaseFacts, ConfFacts
    <3> QED
      BY <3>1, <3>2
  <2> HIDE DEF new
  <2>4. /\ files'[s][p].shares = files[s][p].shares /\ files'[s][p].conf = new
        /\ \A t \in Site, q \in Party : t # s \/ q # p => files'[t][q] = files[t][q]
    BY <1>3, <2>1 DEF IInv, SiteInv, FileType
  <2>5. files' \in [Site -> [Party -> FileType]]
    <3>1. [files[s][p] EXCEPT !.conf = new] \in FileType
      <4>1. files[s][p] \in FileType
        BY <2>1 DEF IInv, SiteInv
      <4> QED
        BY <2>3, <4>1, FileSet DEF IInv, KeyInv
    <3>2. files' = [files EXCEPT ![s][p] = [files[s][p] EXCEPT !.conf = new]]
      BY <1>3, <2>1
    <3> QED
      BY <2>1, <3>1, <3>2, OneSet DEF IInv, SiteInv
  <2>6. Following("deploy") = IF ~job["deploy"].local THEN <<"pull", p>>
                              ELSE IF p = "a" THEN <<"shares", "b">>
                              ELSE Just(IF NoProcesses THEN "succeed" ELSE "docker")
    BY <1>1, NoneIsNone DEF Now, Following, Just, Installing, DeployRemote, DeployParty,
       DeployLocal, Party
  <2>7. /\ DOMAIN job' = Job /\ job'["update"] = job["update"]
        /\ DOMAIN job'["deploy"] = DOMAIN job["deploy"]
        /\ job'["deploy"].site = s
        /\ Now' = Following("deploy") /\ job'["deploy"].conf = None
        /\ job'["deploy"].mn = job["deploy"].mn /\ job'["deploy"].local = job["deploy"].local
    BY <1>3 DEF Now, Job, IInv, JobInv
  <2>8. JobInv'
    BY <1>1, <2>2, <2>7 DEF IInv, JobInv, ImportsInv, Job, Now, Conf0
  <2>9. UiInv' /\ SettingsInv' /\ KeyInv'
    BY <1>3 DEF IInv, WriteConf, jobFrame, UiInv, SettingsInv, KeyInv
  <2>10. SiteInv' /\ LiveInv'
    BY <2>2, <2>5 DEF IInv, SiteInv, LiveInv, FileType, Conf0
  <2>11. StaleInv'
    BY <2>2, <2>7, StaleFrame DEF IInv
  <2>12. Facts(Now)'
    <3>1. Now' \in {<<"pull", p>>, <<"shares", "b">>, Just("docker"), Just("succeed")}
          /\ (Now' = Just("succeed") => ConfigOnly')
      BY <2>6, <2>7, NoneIsNone DEF ConfigOnly, Just
    <3>2. KeyFacts(Now)'
      BY <1>1, <2>2, <2>7, <3>1 DEF IInv, Facts, BaseFacts, KeyFacts, Keyed, Placed, Just
    <3>3. SiteFacts(Now)'
      BY <2>1, <2>6, <2>7, NoneIsNone DEF SiteFacts, Placed, LocalOnly, RemoteOnly, Just, Party
    <3>4. FileFacts(Now)'
      BY <1>1, <2>1, <2>2, <2>4, <2>6, <2>7 DEF IInv, Facts, BaseFacts, FileFacts, SharesWritten, Placed,
         Party,
         Just, Site
    <3>5. ConfFacts(Now)'
      <4>1. Dialled' = Dialled /\ GetTransportPort' = GetTransportPort
        BY <2>2, <2>7 DEF Dialled, GetTransportPort
      <4>2. CASE ~job["deploy"].local
        BY SMTT(60), <1>1, <2>1, <2>2, <2>3, <2>4, <2>6, <2>7, <4>1, <4>2 DEF IInv, Facts, BaseFacts, ConfFacts,
           ConfWritten, Placed, Idle, Just, Suits, Party
      <4>3. CASE job["deploy"].local
        BY SMTT(60), <1>1, <2>1, <2>2, <2>3, <2>4, <2>6, <2>7, <4>1, <4>3, NoneIsNone DEF IInv, Facts, BaseFacts,
           ConfFacts, ConfWritten, Placed, Idle, Just, Suits, Party
      <4> QED
        BY <4>2, <4>3
    <3>6. ImportFacts(Now)'
      BY <1>1, <2>2, <2>7, <3>1 DEF IInv, Facts, BaseFacts, ImportFacts, Imported, Just, Idle
    <3>7. PublishFacts(Now)'
      <4>1. CASE job["deploy"].local
        BY <2>6, <2>7, <3>1, <4>1, NoneIsNone DEF PublishFacts, Started, Just
      <4>2. CASE ~job["deploy"].local /\ p = "b"
        BY <2>6, <2>7, <4>2, NoneIsNone DEF PublishFacts, Started, Just, Placed, Party
      <4>3. CASE ~job["deploy"].local /\ p = "a"
        <5>1. published[s] = Published(s)
          BY <1>1, <4>3 DEF IInv, Facts, PublishFacts, Started, Placed
        <5>2. files'[s]["b"] = files[s]["b"]
          BY <2>1, <2>4, <4>3 DEF Party
        <5>3. Published(s)' = Published(s)
          <6>1. ASSUME NEW t, t = s PROVE Published(t)' = Published(t)
            BY <5>2, <6>1 DEF Published
          <6>2. PICK t : t = s
            OBVIOUS
          <6>3. job'["deploy"].site = t
            BY <2>7, <6>2
          <6> QED
            BY <6>1, <6>2, <6>3
        <5> QED
          BY <2>2, <2>7, <5>1, <5>3 DEF PublishFacts
      <4> QED
        BY <4>1, <4>2, <4>3 DEF Party
    <3> QED
      BY <3>2, <3>3, <3>4, <3>5, <3>6, <3>7 DEF Facts, BaseFacts
  <2>13. OutcomeInv'
    BY <1>1, <2>2 DEF IInv, OutcomeInv
  <2> QED
    BY <2>8, <2>9, <2>10, <2>11, <2>12, <2>13 DEF IInv
<1> QED
  BY <1>2, <1>3 DEF WriteConf
-----------------------------------------------------------------------------
(* Containers.                                                             *)

LEMMA StopNext ==
  ASSUME Facts(Now), JobInv, NEW p \in Party, Now \in {Just("kill"), <<"stop", p>>}
  PROVE  Facts(Following("deploy"))
<1>1. CASE Now = Just("kill")
  <2>1. Following("deploy") = Just("postgres")
    BY <1>1, NoneIsNone DEF Facts, BaseFacts, SiteFacts, LocalOnly, Now, Following, Just, DeployLocal,
       Installing
  <2>2. Facts(Just("postgres"))
    BY <1>1, NoneIsNone DEF Facts, BaseFacts, KeyFacts, SiteFacts, FileFacts, ConfFacts, ImportFacts,
       Imported, PublishFacts, Started, LocalOnly, RemoteOnly, Keyed, Placed, Just, Idle, SharesWritten, ConfWritten
  <2> QED
    BY <2>1, <2>2
<1>2. CASE Now = <<"stop", p>>
  <2>1. ~job["deploy"].local
    BY <1>2 DEF Facts, BaseFacts, SiteFacts, RemoteOnly
  <2>2. Following("deploy") = <<"start", p>>
    BY <1>2, <2>1, NoneIsNone DEF Now, Following, Just, DeployRemote, DeployParty, Installing
  <2>3. Facts(<<"start", p>>)
    BY <1>2, <2>1, NoneIsNone DEF Facts, BaseFacts, KeyFacts, SiteFacts, FileFacts, ConfFacts, ImportFacts,
       Imported, PublishFacts, Started, LocalOnly, RemoteOnly, Keyed, Placed, Just, Idle, ConfWritten
  <2> QED
    BY <2>2, <2>3
<1> QED
  BY <1>1, <1>2

LEMMA StartNext ==
  ASSUME Facts(Now), JobInv, NEW p \in Party, Now = <<"start", p>>
  PROVE  /\ BaseFacts(Following("deploy"))
         /\ p = "a" /\ Started(Following("deploy")) => Started(Now)
<1>1. CASE job["deploy"].local /\ p = "b"
  <2>1. Following("deploy") = <<"start", "a">>
    BY <1>1, NoneIsNone DEF Now, Following, Just, DeployLocal, Installing, Launch
  <2>2. BaseFacts(<<"start", "a">>)
    BY <1>1, NoneIsNone DEF Facts, BaseFacts, KeyFacts, SiteFacts, FileFacts, ConfFacts, ImportFacts,
       Imported, PublishFacts, Started, LocalOnly, RemoteOnly, Keyed, Placed, Just, Idle, SharesWritten, ConfWritten
  <2>3. p = "a" => Started(Now)
    BY <1>1, NoneIsNone DEF Started, Placed, Just
  <2> QED
    BY <2>1, <2>2, <2>3
<1>2. CASE job["deploy"].local /\ p = "a"
  <2>1. Following("deploy") = <<"verify", "b">>
    BY <1>2, NoneIsNone DEF Now, Following, Just, DeployLocal, Installing, Launch
  <2>2. BaseFacts(<<"verify", "b">>)
    BY <1>2, NoneIsNone DEF Facts, BaseFacts, KeyFacts, SiteFacts, FileFacts, ConfFacts, ImportFacts,
       Imported, PublishFacts, Started, LocalOnly, RemoteOnly, Keyed, Placed, Just, Idle, SharesWritten, ConfWritten
  <2>3. p = "a" => Started(Now)
    BY <1>2, NoneIsNone DEF Started, Placed, Just
  <2> QED
    BY <2>1, <2>2, <2>3
<1>3. CASE ~job["deploy"].local
  <2>1. Following("deploy") = <<"verify", p>>
    BY <1>3, NoneIsNone DEF Now, Following, Just, DeployRemote, DeployParty, Installing
  <2>2. BaseFacts(<<"verify", p>>)
    BY <1>3, NoneIsNone DEF Facts, BaseFacts, KeyFacts, SiteFacts, FileFacts, ConfFacts, ImportFacts,
       Imported, PublishFacts, Started, LocalOnly, RemoteOnly, Keyed, Placed, Just, Idle, ConfWritten
  <2>3. p = "a" => Started(Now)
    BY <1>3, NoneIsNone DEF Started, Placed, Just
  <2> QED
    BY <2>1, <2>2, <2>3
<1> QED
  BY <1>1, <1>2, <1>3 DEF Party

\* A job that stops or starts containers has a site.
LEMMA JobSite ==
  ASSUME IInv, NEW w \in Job, job[w].at # Idle, w = "deploy" => Now[1] \in Placed
  PROVE  job[w].site \in Site
  BY DEF IInv, Facts, BaseFacts, SiteFacts, JobInv, Job, Now, Site

\* Stopping parties never harms: their processes end with what they derive.
LEMMA StopKeeps ==
  ASSUME IInv, NEW w \in Job, NEW ps \in SUBSET Party, Stop(w, ps),
         job[w].at \notin {Idle, Just("lastLog")}, job[w].site \in Site,
         w = "deploy" => Facts(Following("deploy"))
  PROVE  IInv'
<1> DEFINE s == job[w].site
<1>1. /\ GoesOn(w)
      /\ UNCHANGED <<jobFrame, pub, share, dealt, cert, imports, files, published, master, derived,
                   raced>>
  BY DEF Stop
<1>2. job'["deploy"].site = job["deploy"].site
  BY <1>1, JobMoved DEF GoesOn, Goes, Job, IInv
<1>3. raced' \in BOOLEAN
  BY <1>1 DEF IInv, UiInv
<1>7. PICK at : at = Following(w)
  OBVIOUS
<1>8. Goes(w, at) /\ (w = "deploy" => BaseFacts(at) /\ PublishFacts(at))
  BY <1>1, <1>7 DEF GoesOn, Facts
<1>6. w = "deploy" => PublishFacts(at)'
  <2>1. SameDeploy
    BY <1>8, JobMoved DEF Goes, Job, IInv, SameDeploy
  <2> QED
    BY <1>1, <1>8, <2>1, PublishFrame
<1>4. CASE UNCHANGED <<container, deriving>>
  <2>1. SiteInv' /\ LiveInv'
    BY <1>1, <1>4 DEF IInv, SiteInv, LiveInv, FileType, Conf0
  <2>2. StaleInv'
    BY <1>1, <1>2, <1>4, StaleFrame DEF IInv
  <2> QED
    BY <1>1, <1>3, <1>6, <1>8, <2>1, <2>2, JobGoes DEF Now
<1>5. CASE /\ container' = [container EXCEPT ![s] =
                              [p \in Party |-> IF p \in ps THEN "none" ELSE @[p]]]
           /\ deriving' = [deriving EXCEPT ![s] =
                              [p \in Party |-> IF p \in ps THEN <<>> ELSE @[p]]]
  <2>1. \A t \in Site, p \in Party :
          /\ container'[t][p] = IF t = s /\ p \in ps THEN "none" ELSE container[t][p]
          /\ deriving'[t][p] = IF t = s /\ p \in ps THEN <<>> ELSE deriving[t][p]
    BY <1>5 DEF IInv, SiteInv
  <2>2. container' \in [Site -> [Party -> {"none", "up", "exited"}]]
    BY <1>5 DEF IInv, SiteInv
  <2>3. deriving' \in [Site -> [Party -> {<<>>} \cup (Curve \X Mnemonic)]]
    <3>1. [p \in Party |-> IF p \in ps THEN <<>> ELSE deriving[s][p]]
            \in [Party -> {<<>>} \cup (Curve \X Mnemonic)]
      BY DEF IInv, SiteInv
    <3> QED
      BY <1>5, <3>1 DEF IInv, SiteInv
  <2>4. SiteInv'
    BY <1>1, <2>2, <2>3 DEF IInv, SiteInv, FileType, Conf0
  <2>5. LiveInv'
    BY <2>1 DEF IInv, LiveInv
  <2>6. StaleInv'
    <3>1. ASSUME NEW t \in Site, NEW p \in Party, Kept(t, p) PROVE Kept(t, p)'
      BY <1>1, <2>1, <3>1 DEF Kept
    <3>2. ASSUME NEW p \in Party, Replaced(p) PROVE Replaced(p)'
      <4>1. ASSUME NEW c \in Curve, imports[p] = <<"save", c>>
            PROVE  job["deploy"].site \in Site
        BY <4>1 DEF IInv, Facts, BaseFacts, ImportFacts, SiteFacts, Just, Idle, Placed
      <4> QED
        BY <1>1, <1>2, <2>1, <3>2, <4>1 DEF Replaced
    <3> QED
      BY <1>1, <3>1, <3>2 DEF IInv, StaleInv
  <2> QED
    BY <1>1, <1>3, <1>6, <1>8, <2>4, <2>5, <2>6, JobGoes DEF Now
<1> QED
  BY <1>4, <1>5 DEF Stop

LEMMA StopsKeep ==
  ASSUME IInv, (\E w \in Job : KillExisting(w)) \/ (\E p \in Party : StopOld(p))
  PROVE  IInv'
<1>1. CASE \E w \in Job : KillExisting(w)
  <2>1. PICK w \in Job : KillExisting(w)
    BY <1>1
  <2>2. job[w].at = Just("kill") /\ Just("kill") \notin {Idle, Just("lastLog")} /\ Stop(w, Party)
        /\ Just("kill")[1] \in Placed
    BY <2>1 DEF KillExisting, Doing, Just, Idle, Placed
  <2>3. job[w].site \in Site
    BY <2>2, JobSite DEF Now
  <2>4. w = "deploy" => Facts(Following("deploy"))
    BY <2>2, StopNext DEF Now, IInv, Party
  <2> QED
    BY <2>2, <2>3, <2>4, StopKeeps
<1>2. CASE \E p \in Party : StopOld(p)
  <2>1. PICK p \in Party : StopOld(p)
    BY <1>2
  <2>2. Now = <<"stop", p>> /\ Now \notin {Idle, Just("lastLog")} /\ Stop("deploy", {p})
        /\ Now[1] \in Placed
    BY <2>1 DEF StopOld, Doing, Just, Idle, Placed, Now
  <2>3. job["deploy"].site \in Site
    BY <2>2, JobSite DEF Now, Job
  <2>4. Facts(Following("deploy"))
    BY <2>2, StopNext DEF IInv
  <2> QED
    BY <2>2, <2>3, <2>4, StopKeeps DEF Now, Job
<1> QED
  BY <1>1, <1>2

\* A party that starts while shares are imported is a race.
LEMMA StartContainerKeeps ==
  ASSUME IInv, NEW w \in Job, NEW p \in Party, StartContainer(w, p)
  PROVE  IInv'
<1> DEFINE s == job[w].site
<1>1. job[w].at = <<"start", p>> /\ s \in Site
      /\ <<"start", p>> \notin {Idle, Just("lastLog"), Just("importing")}
  <2>1. job[w].at = <<"start", p>>
        /\ <<"start", p>> \notin {Idle, Just("lastLog"), Just("importing")}
    BY DEF StartContainer, Doing, Just, Idle
  <2> QED
    <3>1. <<"start", p>>[1] \in Placed
      BY DEF Placed
    <3> QED
      BY <2>1, <3>1, JobSite DEF Now
<1>2. /\ UNCHANGED <<jobFrame, pub, share, dealt, cert, imports, files, master, derived, deriving>>
      /\ raced' = (raced \/ \E q \in Party : imports[q] # Idle)
  BY DEF StartContainer
<1>3. raced' \in BOOLEAN
  BY <1>2
<1>9. /\ \A t \in Site : published'[t] = published[t] \/ published'[t] = Published(t)
      /\ p = "b" => UNCHANGED published \/ published'[s] = Published(s)
      /\ DOMAIN published' = Site
      /\ p = "a" => UNCHANGED published
  BY <1>1 DEF StartContainer, IInv, SiteInv
<1>4. PICK at : Goes(w, at) /\ (w = "deploy" => BaseFacts(at) /\ PublishFacts(at)')
  <2>1. CASE GoesOn(w) /\ (p = "b" => published'[s] = Published(s))
    <3>3. PICK at : at = Following(w)
      OBVIOUS
    <3>1. w = "deploy" => BaseFacts(at) /\ (p = "a" /\ Started(at) => Started(Now))
      BY <1>1, <3>3, StartNext DEF Now, IInv
    <3>4. Goes(w, at)
      BY <2>1, <3>3 DEF GoesOn
    <3>2. ASSUME w = "deploy" PROVE PublishFacts(at)'
      <4>2. SameDeploy
        BY <3>4, JobMoved DEF Goes, Job, IInv, SameDeploy
      <4>5. job'["deploy"].site = s /\ \A t \in Site : Published(t)' = Published(t)
        BY <1>2, <3>2, <4>2 DEF SameDeploy, Published
      <4>3. CASE p = "b"
        BY <1>1, <2>1, <4>3, <4>5 DEF PublishFacts
      <4>4. CASE p = "a"
        <5>1. Started(at)' => Started(at)
          BY <4>2 DEF Started, SameDeploy, ConfigOnly
        <5>2. Started(at)' => published[s] = Published(s)
          BY <3>1, <3>2, <4>4, <5>1 DEF IInv, Facts, PublishFacts
        <5> QED
          BY <1>1, <1>9, <4>4, <4>5, <5>2 DEF PublishFacts
      <4> QED
        BY <4>3, <4>4 DEF Party
    <3> QED
      BY <3>1, <3>2, <3>4
  <2>2. CASE Goes(w, Just("fail")) /\ UNCHANGED published
    <3>1. w = "deploy" => Facts(Just("fail"))
      <4>1. w = "deploy" => \A q \in Party : imports[q] = Idle
        BY <1>1 DEF IInv, Facts, BaseFacts, ImportFacts, Now
      <4> QED
        BY <1>1, <4>1, NoFacts DEF IInv, Facts, BaseFacts, Now
    <3>2. w = "deploy" => PublishFacts(Just("fail"))'
      <4>1. SameDeploy
        BY <2>2, JobMoved DEF Goes, Job, IInv, SameDeploy
      <4> QED
        BY <1>2, <2>2, <3>1, <4>1, PublishFrame DEF Facts
    <3> QED
      BY <2>2, <3>1, <3>2 DEF Facts
  <2> QED
    BY <1>1, <2>1, <2>2 DEF StartContainer, IInv, SiteInv
<1>5. job'["deploy"].site = job["deploy"].site
  BY <1>4, JobMoved DEF Goes, Job, IInv
<1>6. \/ UNCHANGED container
      \/ /\ container[s][p] = "none"
         /\ \E st \in {"up", "exited"} : container' = [container EXCEPT ![s][p] = st]
  BY DEF StartContainer
<1>7. SiteInv' /\ LiveInv'
  <2>1. CASE UNCHANGED container
    BY <1>2, <1>9, <2>1 DEF IInv, SiteInv, LiveInv, FileType, Conf0
  <2>2. ASSUME container[s][p] = "none", NEW st \in {"up", "exited"},
               container' = [container EXCEPT ![s][p] = st]
        PROVE  SiteInv' /\ LiveInv'
    <3>1. /\ container' \in [Site -> [Party -> {"none", "up", "exited"}]]
          /\ \A t \in Site, q \in Party : t # s \/ q # p => container'[t][q] = container[t][q]
      BY <1>1, <2>2, OneSet DEF IInv, SiteInv
    <3>2. deriving[s][p] = <<>>
      BY <1>1, <2>2 DEF IInv, LiveInv
    <3>3. SiteInv'
      BY <1>2, <1>9, <3>1 DEF IInv, SiteInv, FileType, Conf0
    <3>4. LiveInv'
      BY <1>2, <3>1, <3>2 DEF IInv, LiveInv
    <3> QED
      BY <3>3, <3>4
  <2> QED
    BY <1>6, <2>1, <2>2
<1>8. StaleInv'
  <2>1. ASSUME NEW t \in Site, NEW q \in Party, Kept(t, q) PROVE Kept(t, q)'
    BY <1>2, <2>1 DEF Kept
  <2>2. ASSUME ~raced', NEW q \in Party PROVE Replaced(q)'
    <3>1. imports'[q] = Idle
      BY <1>2, <2>2
    <3> QED
      BY <3>1 DEF Replaced, Idle, Just
  <2> QED
    BY <1>2, <2>1, <2>2 DEF IInv, StaleInv
<1> QED
  BY <1>1, <1>2, <1>3, <1>4, <1>7, <1>8, <1>9, JobGoes DEF Now
-----------------------------------------------------------------------------
(* Imports.                                                                *)

\* While a party's shares are imported the install waits at a known site, and
\* the share the party is to be given is the last one dealt.
LEMMA ImportingFacts ==
  ASSUME IInv, NEW p \in Party, imports[p] # Idle
  PROVE  /\ Now = Just("importing") /\ Now \notin {Idle, Just("lastLog")}
         /\ job["deploy"].site \in Site
         /\ \A c \in Curve : NewShare(p, c) = share[c] /\ share[c] = Len(dealt)
<1>1. Now = Just("importing") /\ Now \notin {Idle, Just("lastLog")} /\ Now[1] = "importing"
  BY DEF IInv, Facts, BaseFacts, ImportFacts, Just, Idle
<1>2. job["deploy"].site \in Site
  BY <1>1 DEF IInv, Facts, BaseFacts, SiteFacts, Placed
<1>3. \A c \in Curve : share[c] = Len(dealt)
  BY <1>1 DEF IInv, Facts, BaseFacts, KeyFacts, Keyed, Placed, Curve
<1>4. SharesWritten("a", Now) /\ SharesWritten("b", Now)
  BY <1>1 DEF SharesWritten, Just
<1>5. \A c \in Curve : NewShare(p, c) = share[c]
  BY <1>1, <1>4 DEF IInv, Facts, BaseFacts, FileFacts, Placed, NewShare, Party
<1> QED
  BY <1>1, <1>2, <1>3, <1>5

LEMMA StartImportKeeps ==
  ASSUME IInv, StartImport
  PROVE  IInv'
<1>1. Now = Just("import") /\ Now \notin {Idle, Just("lastLog"), Just("importing")}
  BY DEF StartImport, Doing, Now, Just, Idle
<1>2. /\ GoesOn("deploy") /\ imports' = [p \in Party |-> FirstImport(p)]
      /\ UNCHANGED <<share, dealt, siteVars, raced, touched, settings, outcome, cert>>
  BY DEF StartImport, jobFrame
<1>3. \A p \in Party : imports'[p] \in {Just("after"), <<"clear", "ecdsa">>}
  BY <1>2 DEF FirstImport
<1>4. ImportsInv'
  BY <1>2, <1>3 DEF ImportsInv, Curve
<1>5. Following("deploy") = Just("importing")
  BY <1>1, NoneIsNone DEF Now, Following, Just, Installing, DeployLocal, DeployRemote
<1>6. Now' = Just("importing") /\ SameDeploy
  BY <1>2, <1>5, JobMoved DEF GoesOn, Goes, Job, IInv, SameDeploy, Now
<1>7. JobInv'
  BY <1>1, <1>2, <1>4, JobInvMoved DEF GoesOn, Goes, Job, IInv, Now
<1>8. UiInv' /\ SettingsInv' /\ KeyInv'
  BY <1>2 DEF IInv, StartImport, GoesOn, Goes, jobFrame, UiInv, SettingsInv, KeyInv
<1>9. SiteInv' /\ LiveInv'
  BY <1>2 DEF IInv, SiteInv, LiveInv, siteVars, FileType, Conf0
<1>10. StaleInv'
  <2>1. ASSUME NEW s \in Site, NEW p \in Party, Kept(s, p) PROVE Kept(s, p)'
    BY <1>2, <2>1 DEF Kept, siteVars
  <2>2. \A p \in Party : Replaced(p)'
    BY <1>3 DEF Replaced, Just
  <2> QED
    BY <1>2, <2>1, <2>2 DEF IInv, StaleInv
<1>11. Facts(Now)'
  <2>1. KeyFacts(Now)' /\ SiteFacts(Now)'
    BY <1>1, <1>2, <1>6, NoneIsNone DEF IInv, Facts, BaseFacts, KeyFacts, SiteFacts, Keyed, Placed,
       LocalOnly, RemoteOnly, Just, SameDeploy
  <2>2. FileFacts(Now)'
    BY <1>1, <1>2, <1>6, NoneIsNone DEF IInv, Facts, BaseFacts, FileFacts, SharesWritten, Placed, Just,
       SameDeploy, siteVars
  <2>3. ConfFacts(Now)'
    <3>1. Dialled' = Dialled /\ GetTransportPort' = GetTransportPort
      BY <1>2, <1>6 DEF Dialled, GetTransportPort, SameDeploy
    <3> QED
      BY <1>1, <1>2, <1>6, <3>1, NoneIsNone DEF IInv, Facts, BaseFacts, ConfFacts, ConfWritten, Placed,
         Just, Idle, Suits, SameDeploy, siteVars
  <2>4. ImportFacts(Now)'
    BY <1>3, <1>6 DEF ImportFacts, Imported, Just, Idle
  <2>5. PublishFacts(Now)'
    BY <1>1, <1>2, <1>6, NoneIsNone DEF IInv, Facts, PublishFacts, Started, Published, Placed, Just,
       SameDeploy, siteVars
  <2> QED
    BY <2>1, <2>2, <2>3, <2>4, <2>5 DEF Facts, BaseFacts
<1>12. OutcomeInv'
  BY <1>1, <1>2 DEF IInv, OutcomeInv
<1> QED
  BY <1>7, <1>8, <1>9, <1>10, <1>11, <1>12 DEF IInv

\* An import goes on to the call at.
LEMMA ImportMoves ==
  ASSUME IInv, NEW p \in Party, imports[p] # Idle, NEW at, ImportGoes(p, at),
         at \in {Just("ok"), Just("error")} \cup ({"clear", "save"} \X Curve),
         UNCHANGED <<step, done, failed, stuck, settings, mnemonic, stream, outcome, touched, pub,
                     share, dealt, cert, files, container, published, deriving>>,
         skipped \subseteq skipped', skipped' \subseteq Curve,
         raced' \in BOOLEAN, SiteInv', StaleInv',
         \A q \in Party : q # p =>
             master'[job["deploy"].site][q] = master[job["deploy"].site][q],
         at \in {<<"clear", "eddsa">>, <<"save", "eddsa">>, Just("ok")} =>
             "ecdsa" \in skipped' \/ master'[job["deploy"].site][p]["ecdsa"] = share["ecdsa"],
         at = Just("ok") =>
             "eddsa" \in skipped' \/ master'[job["deploy"].site][p]["eddsa"] = share["eddsa"]
  PROVE  IInv'
<1>1. Now = Just("importing") /\ Now \notin {Idle, Just("lastLog")}
  BY ImportingFacts
<1>2. /\ UNCHANGED <<logs, job>> /\ DOMAIN imports' = Party /\ imports'[p] = at
      /\ \A q \in Party : q # p => imports'[q] = imports[q]
  BY DEF ImportGoes, IInv, JobInv, ImportsInv
<1>3. at # Idle
  BY DEF Idle, Just
<1>4. JobInv'
  BY <1>2 DEF IInv, JobInv, ImportsInv, Now, Conf0
<1>5. UiInv' /\ SettingsInv' /\ KeyInv' /\ LiveInv'
  BY <1>2 DEF IInv, UiInv, SettingsInv, KeyInv, LiveInv
<1>6. OutcomeInv'
  BY <1>1 DEF IInv, OutcomeInv
<1>7. Facts(Now)'
  <2>1. KeyFacts(Now)' /\ SiteFacts(Now)' /\ FileFacts(Now)'
    BY <1>2 DEF IInv, Facts, BaseFacts, KeyFacts, SiteFacts, FileFacts, SharesWritten, Now
  <2>2. ConfFacts(Now)'
    BY <1>2 DEF IInv, Facts, BaseFacts, ConfFacts, ConfWritten, Now, Dialled, Suits, GetTransportPort
  <2>3. ImportFacts(Now)'
    <3>1. ~Imported(Now)'
      BY <1>1, <1>2 DEF Imported, Now, Just
    <3>2. Now' = Just("importing") /\ job' = job
      BY <1>1, <1>2 DEF Now
    <3>3. ASSUME NEW q \in Party
          PROVE  /\ imports'[q] # Idle
                 /\ imports'[q] \in {<<"clear", "eddsa">>, <<"save", "eddsa">>, Just("ok")} =>
                      Given(q, "ecdsa")'
                 /\ imports'[q] = Just("ok") => Given(q, "eddsa")'
      <4>1. CASE q = p
        BY <1>2, <1>3, <4>1 DEF Given
      <4>2. CASE q # p
        BY <1>1, <1>2, <4>2 DEF IInv, Facts, BaseFacts, ImportFacts, Given
      <4> QED
        BY <4>1, <4>2
    <3> QED
      BY <3>1, <3>2, <3>3 DEF ImportFacts
  <2>4. PublishFacts(Now)'
    <3>1. PublishFacts(Now)
      BY DEF IInv, Facts
    <3>2. Now' = Now /\ SameDeploy
      BY <1>2 DEF Now, SameDeploy
    <3> QED
      BY <3>1, <3>2, PublishFrame
  <2> QED
    BY <2>1, <2>2, <2>3, <2>4 DEF Facts, BaseFacts
<1> QED
  BY <1>4, <1>5, <1>6, <1>7 DEF IInv

\* Derived keys of another master key are deleted before the share is saved.
LEMMA ImportClearKeeps ==
  ASSUME IInv, NEW p \in Party, NEW c \in Curve, ImportClear(p, c)
  PROVE  IInv'
<1> DEFINE s == job["deploy"].site
           old == master[s][p][c]
           changed == old # 0 /\ dealt[old] # dealt[NewShare(p, c)]
<1>1. imports[p] = <<"clear", c>> /\ imports[p] # Idle
  BY DEF ImportClear, Importing, Idle, Just
<1>2. s \in Site /\ NewShare(p, c) = share[c]
  BY <1>1, ImportingFacts
<1>3. ImportShares(imports[p]) = <<"save", c>>
  BY <1>1 DEF ImportShares
<1>4. /\ UNCHANGED <<jobFrame, pub, share, dealt, cert, files, container, published, master,
                     deriving>>
  BY DEF ImportClear
<1>13. PICK at \in {Just("error"), <<"save", c>>} :
         /\ ImportGoes(p, at) /\ raced' \in BOOLEAN /\ (raced => raced')
         /\ container[s][p] = "up" /\ at # Just("error") => raced'
         /\ \/ changed /\ derived' = [derived EXCEPT ![s][p] = [d \in Curve |-> None]]
            \/ (raced' \/ ~changed) /\ UNCHANGED derived
            \/ at = Just("error") /\ UNCHANGED derived
  <2>1. raced \in BOOLEAN
    BY DEF IInv, UiInv
  <2>2. CASE /\ changed /\ ImportGoes(p, <<"save", c>>)
             /\ derived' = [derived EXCEPT ![s][p] = [d \in Curve |-> None]]
             /\ raced' = (raced \/ container[s][p] = "up")
    BY <2>1, <2>2
  <2>3. CASE /\ ImportGoes(p, <<"save", c>>) /\ UNCHANGED derived
             /\ raced' = (raced \/ container[s][p] = "up" \/ changed)
    BY <2>1, <2>3
  <2>4. CASE ImportGoes(p, Just("error")) /\ UNCHANGED <<derived, raced>>
    BY <2>1, <2>4
  <2> QED
    BY <1>3, <2>2, <2>3, <2>4 DEF ImportClear, ImportGoesOn
<1>5. /\ imports'[p] = at /\ job' = job
      /\ \A q \in Party : q # p => imports'[q] = imports[q]
  BY <1>13 DEF ImportGoes, IInv, JobInv, ImportsInv
<1>6. /\ derived' \in [Site -> [Party -> [Curve -> Mnemonic \cup {None}]]]
      /\ \A t \in Site, q \in Party : t # s \/ q # p => derived'[t][q] = derived[t][q]
      /\ \/ changed /\ \A d \in Curve : derived'[s][p][d] = None
         \/ (raced' \/ ~changed \/ at = Just("error")) /\ UNCHANGED derived
  <2>1. CASE (raced' \/ ~changed \/ at = Just("error")) /\ UNCHANGED derived
    BY <2>1 DEF IInv, SiteInv
  <2>2. CASE changed /\ derived' = [derived EXCEPT ![s][p] = [d \in Curve |-> None]]
    <3>1. [d \in Curve |-> None] \in [Curve -> Mnemonic \cup {None}]
      OBVIOUS
    <3>2. derived \in [Site -> [Party -> [Curve -> Mnemonic \cup {None}]]]
      BY DEF IInv, SiteInv
    <3> QED
      BY SMTT(30), <1>2, <2>2, <3>1, <3>2, OneSet
  <2> QED
    BY <1>13, <2>1, <2>2
<1>7. SiteInv'
  BY <1>4, <1>6 DEF IInv, SiteInv, FileType, Conf0
<1>8. StaleInv'
  <2>1. SUFFICES ASSUME ~raced'
                 PROVE  (\A t \in Site, q \in Party : Kept(t, q)') /\ \A q \in Party : Replaced(q)'
    BY DEF StaleInv
  <2>2. /\ at # Just("error") => container[s][p] # "up"
        /\ (\A t \in Site, q \in Party : Kept(t, q))
        /\ \A q \in Party : Replaced(q)
    BY <1>13, <2>1 DEF IInv, StaleInv
  <2>3. ASSUME NEW t \in Site, NEW q \in Party PROVE Kept(t, q)'
    <3>1. Kept(t, q)
      BY <2>2
    <3>2. derived'[t][q] = derived[t][q] \/ \A d \in Curve : derived'[t][q][d] = None
      BY <1>6
    <3> QED
      BY <1>4, <3>1, <3>2 DEF Kept
  <2>4. ASSUME NEW q \in Party PROVE Replaced(q)'
    <3>1. CASE q # p
      <4>1. Replaced(q) /\ derived'[s][q] = derived[s][q]
        BY <1>2, <1>6, <2>2, <3>1
      <4> QED
        BY <1>4, <1>5, <3>1, <4>1 DEF Replaced
    <3>3. CASE q = p /\ at = Just("error")
      <4>1. \A d \in Curve : imports'[q] # <<"save", d>>
        BY <1>5, <3>3 DEF Just
      <4> QED
        BY <4>1 DEF Replaced
    <3>2. CASE q = p /\ at # Just("error")
      <4>1. derived'[s][p][c] # None => derived'[s][p][c] = dealt[share[c]]
        <5>1. CASE UNCHANGED derived
          <6>1. Kept(s, p) /\ (derived[s][p][c] # None => ~changed)
            BY <1>2, <1>6, <2>1, <2>2, <3>2, <5>1
          <6> QED
            BY <1>2, <5>1, <6>1 DEF Kept
        <5>2. CASE \A d \in Curve : derived'[s][p][d] = None
          BY <5>2
        <5> QED
          BY <1>6, <5>1, <5>2
      <4>2. ASSUME NEW d \in Curve, imports'[p] = <<"save", d>> PROVE d = c
        BY <1>5, <1>13, <3>2, <4>2
      <4>3. job'["deploy"].site = s /\ container'[s][p] # "up" /\ share' = share /\ dealt' = dealt
        BY <1>4, <1>5, <2>2, <3>2
      <4>4. SUFFICES ASSUME NEW d \in Curve, imports'[p] = <<"save", d>>
                     PROVE  derived'[s][p][d] # None => derived'[s][p][d] = dealt[share[d]]
        BY <3>2, <4>3 DEF Replaced
      <4> QED
        BY <4>1, <4>2, <4>4
    <3> QED
      BY <3>1, <3>2, <3>3
  <2> QED
    BY <2>3, <2>4
<1>9. "ecdsa" \in skipped \/ at # <<"save", "eddsa">> \/ master[s][p]["ecdsa"] = share["ecdsa"]
  BY <1>1, <1>13 DEF IInv, Facts, BaseFacts, ImportFacts, Given, Just
<1>10. at \in {<<"clear", "eddsa">>, <<"save", "eddsa">>, Just("ok")} => at = <<"save", "eddsa">>
  BY <1>13 DEF Just
<1>11. at \in {Just("ok"), Just("error")} \cup ({"clear", "save"} \X Curve) /\ at # Just("ok")
  BY <1>13 DEF Just
<1>12. skipped' = skipped /\ skipped \subseteq Curve
  BY <1>4 DEF jobFrame, IInv, UiInv
<1> QED
  BY <1>1, <1>4, <1>7, <1>8, <1>9, <1>10, <1>11, <1>12, <1>13, ImportMoves DEF jobFrame

\* An import that is skipped leaves the database as it is.
LEMMA ImportSkipKeeps ==
  ASSUME IInv, NEW p \in Party, NEW c \in Curve, ImportSkip(p, c)
  PROVE  IInv'
<1> DEFINE s == job["deploy"].site
           at == ImportShares(<<"save", c>>)
<1>1. imports[p] = <<"clear", c>> /\ imports[p] # Idle
  BY DEF ImportSkip, Importing, Idle, Just
<1>2. /\ ImportGoes(p, at) /\ skipped' = skipped \cup {c} /\ skipped' \subseteq Curve
      /\ UNCHANGED <<step, done, failed, stuck, settings, mnemonic, stream, outcome, touched, pub,
                     share, dealt, cert, siteVars, raced>>
  BY DEF ImportSkip, IInv, UiInv, keyVars
<1>3. at = IF c = "ecdsa" THEN <<"clear", "eddsa">> ELSE Just("ok")
  BY DEF ImportShares, Curve
<1> HIDE DEF at
<1>4. /\ imports'[p] = at /\ job' = job
      /\ \A q \in Party : q # p => imports'[q] = imports[q]
  BY <1>2 DEF ImportGoes, IInv, JobInv, ImportsInv
<1>5. SiteInv' /\ raced' \in BOOLEAN
  BY <1>2 DEF IInv, SiteInv, siteVars, FileType, Conf0, UiInv
<1>6. StaleInv'
  <2>1. ASSUME NEW t \in Site, NEW q \in Party, Kept(t, q) PROVE Kept(t, q)'
    BY <1>2, <2>1 DEF Kept, siteVars
  <2>2. ASSUME NEW q \in Party, Replaced(q) PROVE Replaced(q)'
    <3>1. CASE q = p
      <4>1. \A d \in Curve : imports'[q] # <<"save", d>>
        BY <1>3, <1>4, <3>1 DEF Just
      <4> QED
        BY <4>1 DEF Replaced
    <3>2. CASE q # p
      BY <1>2, <1>4, <2>2, <3>2 DEF Replaced, siteVars
    <3> QED
      BY <3>1, <3>2
  <2> QED
    BY <1>2, <2>1, <2>2 DEF IInv, StaleInv
<1>7. at \in {Just("ok"), Just("error")} \cup ({"clear", "save"} \X Curve)
  BY <1>3 DEF Curve
<1>8. at \in {<<"clear", "eddsa">>, <<"save", "eddsa">>, Just("ok")} =>
        "ecdsa" \in skipped' \/ master'[s][p]["ecdsa"] = share["ecdsa"]
  <2>1. CASE c = "ecdsa"
    BY <1>2, <2>1
  <2>2. CASE c = "eddsa"
    BY <1>1, <1>2, <2>2 DEF IInv, Facts, BaseFacts, ImportFacts, Given, siteVars
  <2> QED
    BY <2>1, <2>2 DEF Curve
<1>9. at = Just("ok") => "eddsa" \in skipped'
  BY <1>2, <1>3 DEF Just, Curve
<1> QED
  BY <1>1, <1>2, <1>5, <1>6, <1>7, <1>8, <1>9, ImportMoves DEF siteVars

\* A key that is kept belongs to the share that is saved.
LEMMA ImportSaveKeeps ==
  ASSUME IInv, NEW p \in Party, NEW c \in Curve, ImportSave(p, c)
  PROVE  IInv'
<1> DEFINE s == job["deploy"].site
<1>1. imports[p] = <<"save", c>> /\ imports[p] # Idle
  BY DEF ImportSave, Importing, Idle, Just
<1>2. s \in Site /\ NewShare(p, c) = share[c] /\ share[c] = Len(dealt)
  BY <1>1, ImportingFacts
<1>3. /\ UNCHANGED <<jobFrame, pub, share, dealt, cert, files, container, published, derived,
                     deriving>>
      /\ raced' = (raced \/ container[s][p] = "up") /\ raced' \in BOOLEAN
  BY DEF ImportSave
<1>4. share[c] \in 0 .. Len(dealt) /\ share[c] # 0
  BY <1>2 DEF IInv, KeyInv
<1>5. PICK at \in {Just("error"), ImportShares(imports[p])} :
         /\ ImportGoes(p, at)
         /\ \/ at = Just("error") /\ UNCHANGED master
            \/ at = ImportShares(imports[p]) /\ master' = [master EXCEPT ![s][p][c] = share[c]]
  BY <1>2 DEF ImportSave, ImportGoesOn
<1>6. ImportShares(imports[p]) = IF c = "ecdsa" THEN <<"clear", "eddsa">> ELSE Just("ok")
  BY <1>1 DEF ImportShares, Curve
<1>7. /\ imports'[p] = at /\ job' = job
      /\ \A q \in Party : q # p => imports'[q] = imports[q]
  BY <1>5 DEF ImportGoes, IInv, JobInv, ImportsInv
<1>8. \A q \in Party : q = p => \A d \in Curve : imports'[q] # <<"save", d>>
  BY <1>5, <1>6, <1>7 DEF Just
<1>9. /\ master' \in [Site -> [Party -> [Curve -> 0 .. Len(dealt)]]]
      /\ \A t \in Site, q \in Party : t # s \/ q # p => master'[t][q] = master[t][q]
      /\ \A d \in Curve : d # c => master'[s][p][d] = master[s][p][d]
      /\ at # Just("error") => master'[s][p][c] = share[c]
      /\ at = Just("error") => master' = master
  <2>1. master \in [Site -> [Party -> [Curve -> 0 .. Len(dealt)]]]
    BY DEF IInv, SiteInv
  <2>2. CASE at = Just("error") /\ UNCHANGED master
    BY <2>1, <2>2
  <2>3. CASE at = ImportShares(imports[p]) /\ master' = [master EXCEPT ![s][p][c] = share[c]]
    <3>1. at # Just("error")
      BY <1>6, <2>3 DEF Just
    <3>2. master' = [master EXCEPT ![s][p] = [master[s][p] EXCEPT ![c] = share[c]]]
      BY <1>2, <2>3
    <3>3. master[s][p] \in [Curve -> 0 .. Len(dealt)]
      BY <1>2, <2>1
    <3>4. /\ [master[s][p] EXCEPT ![c] = share[c]] \in [Curve -> 0 .. Len(dealt)]
          /\ [master[s][p] EXCEPT ![c] = share[c]][c] = share[c]
          /\ \A d \in Curve : d # c => [master[s][p] EXCEPT ![c] = share[c]][d] = master[s][p][d]
      BY <1>4, <3>3
    <3> QED
      BY <1>2, <2>1, <3>1, <3>2, <3>4, OneSet
  <2> QED
    BY <1>5, <2>2, <2>3
<1>10. SiteInv'
  BY <1>3, <1>9 DEF IInv, SiteInv, FileType, Conf0
<1>11. StaleInv'
  <2>1. SUFFICES ASSUME ~raced'
                 PROVE  (\A t \in Site, q \in Party : Kept(t, q)') /\ \A q \in Party : Replaced(q)'
    BY DEF StaleInv
  <2>2. /\ container[s][p] # "up" /\ (\A t \in Site, q \in Party : Kept(t, q))
        /\ \A q \in Party : Replaced(q)
    BY <1>3, <2>1 DEF IInv, StaleInv
  <2>3. ASSUME NEW t \in Site, NEW q \in Party PROVE Kept(t, q)'
    <3>1. Kept(t, q)
      BY <2>2
    <3>2. CASE (t # s \/ q # p) \/ at = Just("error")
      <4>1. master'[t][q] = master[t][q]
        BY <1>9, <3>2
      <4> QED
        BY <1>3, <3>1, <4>1 DEF Kept
    <3>3. CASE t = s /\ q = p /\ at # Just("error")
      <4>1. deriving[s][p] = <<>>
        BY <1>2, <2>2 DEF IInv, LiveInv
      <4>2. derived[s][p][c] # None => derived[s][p][c] = dealt[share[c]]
        BY <1>1, <2>2 DEF Replaced
      <4>3. ASSUME NEW d \in Curve, derived[s][p][d] # None
            PROVE  master'[s][p][d] # 0 /\ derived[s][p][d] = dealt[master'[s][p][d]]
        <5>1. CASE d = c
          BY <1>4, <1>9, <3>3, <4>2, <4>3, <5>1
        <5>2. CASE d # c
          <6>1. master'[s][p][d] = master[s][p][d]
            BY <1>9, <4>3, <5>2
          <6>2. Kept(s, p)
            BY <3>1, <3>3
          <6> QED
            BY <4>3, <6>1, <6>2 DEF Kept
        <5> QED
          BY <5>1, <5>2
      <4> QED
        BY <1>3, <3>3, <4>1, <4>3 DEF Kept
    <3> QED
      BY <3>2, <3>3
  <2>4. ASSUME NEW q \in Party PROVE Replaced(q)'
    <3>1. CASE q = p
      BY <1>8, <3>1 DEF Replaced
    <3>2. CASE q # p
      <4>1. Replaced(q)
        BY <2>2
      <4> QED
        BY <1>3, <1>7, <3>2, <4>1 DEF Replaced
    <3> QED
      BY <3>1, <3>2
  <2> QED
    BY <2>3, <2>4
<1>12. at \in {Just("ok"), Just("error")} \cup ({"clear", "save"} \X Curve)
  BY <1>5, <1>6 DEF Curve
<1>13. at \in {<<"clear", "eddsa">>, <<"save", "eddsa">>, Just("ok")} =>
         "ecdsa" \in skipped' \/ master'[s][p]["ecdsa"] = share["ecdsa"]
  <2>1. SUFFICES ASSUME at # Just("error")
                 PROVE  "ecdsa" \in skipped' \/ master'[s][p]["ecdsa"] = share["ecdsa"]
    BY DEF Just
  <2>2. CASE c = "ecdsa"
    BY <1>9, <2>1, <2>2
  <2>3. CASE c = "eddsa"
    <3>1. "ecdsa" \in skipped \/ master[s][p]["ecdsa"] = share["ecdsa"]
      BY <1>1, <2>3 DEF IInv, Facts, BaseFacts, ImportFacts, Given
    <3> QED
      BY <1>3, <1>9, <2>3, <3>1 DEF Curve, jobFrame
  <2> QED
    BY <2>2, <2>3 DEF Curve
<1>14. at = Just("ok") => master'[s][p]["eddsa"] = share["eddsa"]
  BY <1>5, <1>6, <1>9 DEF Just, Curve
<1>15. \A q \in Party : q # p => master'[s][q] = master[s][q]
  BY <1>2, <1>9
<1>16. skipped' = skipped /\ skipped \subseteq Curve
  BY <1>3 DEF jobFrame, IInv, UiInv
<1> QED
  BY <1>1, <1>3, <1>5, <1>10, <1>11, <1>12, <1>13, <1>14, <1>15, <1>16, ImportMoves DEF jobFrame

LEMMA NextImportKeeps ==
  ASSUME IInv, NextImport
  PROVE  IInv'
<1> DEFINE at == IF imports["a"] = Just("ok") THEN <<"clear", "ecdsa">> ELSE Just("error")
<1>1. /\ imports["b"] = Just("after") /\ imports["b"] # Idle /\ ImportGoes("b", at)
      /\ UNCHANGED <<jobFrame, pub, share, dealt, cert, siteVars, raced>>
  BY DEF NextImport, Importing, Idle, Just
<1>2. /\ imports'["b"] = at /\ job' = job /\ imports'["a"] = imports["a"]
  BY <1>1 DEF ImportGoes, IInv, JobInv, ImportsInv, Party
<1>3. /\ at \in {Just("ok"), Just("error")} \cup ({"clear", "save"} \X Curve)
      /\ at \notin {<<"clear", "eddsa">>, <<"save", "eddsa">>, Just("ok")}
      /\ \A c \in Curve : at # <<"save", c>>
  BY DEF Just, Curve
<1> HIDE DEF at
<1>4. SiteInv' /\ raced' \in BOOLEAN
  BY <1>1 DEF IInv, SiteInv, siteVars, FileType, Conf0, UiInv
<1>5. StaleInv'
  <2>1. ASSUME NEW s \in Site, NEW p \in Party, Kept(s, p) PROVE Kept(s, p)'
    BY <1>1, <2>1 DEF Kept, siteVars
  <2>2. ASSUME Replaced("a") PROVE Replaced("a")'
    BY <1>1, <1>2, <2>2 DEF Replaced, siteVars
  <2>3. Replaced("b")'
    BY <1>2, <1>3 DEF Replaced
  <2> QED
    BY <1>1, <2>1, <2>2, <2>3 DEF IInv, StaleInv, Party
<1>6. "b" \in Party
  BY DEF Party
<1>7. at # Just("ok")
  BY <1>3
<1>8. skipped' = skipped /\ skipped \subseteq Curve
  BY <1>1 DEF jobFrame, IInv, UiInv
<1> QED
  BY <1>1, <1>3, <1>4, <1>5, <1>6, <1>7, <1>8, ImportMoves DEF siteVars, jobFrame
\* Both databases have the shares when both imports ended well.
LEMMA EndImportKeeps ==
  ASSUME IInv, EndImport
  PROVE  IInv'
<1> DEFINE at == IF \E p \in Party : imports[p] = Just("error")
                 THEN Just("fail") ELSE Following("deploy")
<1>1. Now = Just("importing") /\ Now \notin {Idle, Just("lastLog")}
  BY DEF EndImport, Doing, Now, Just, Idle
<1>2. /\ Goes("deploy", at) /\ imports' = [p \in Party |-> Idle]
      /\ UNCHANGED <<share, dealt, siteVars, raced, touched, skipped, settings, outcome, cert>>
  BY DEF EndImport, jobFrame
<1>3. at # Just("fail") => \A p \in Party : imports[p] = Just("ok")
  BY DEF EndImport, Ended, Just
<1>4. Following("deploy") = IF job["deploy"].local THEN Just("build") ELSE Just("succeed")
  BY <1>1, NoneIsNone DEF Now, Following, Just, Installing, DeployLocal, DeployRemote
<1>5. at = Just("fail") \/ at = IF job["deploy"].local THEN Just("build") ELSE Just("succeed")
  BY <1>4
<1> HIDE DEF at
<1>6. ImportsInv' /\ \A p \in Party : imports'[p] = Idle
  BY <1>2 DEF ImportsInv
<1>7. Now' = at /\ SameDeploy
  BY <1>2, JobMoved DEF Goes, Job, IInv, SameDeploy, Now
<1>8. JobInv'
  BY <1>1, <1>2, <1>6, JobInvMoved DEF Goes, Job, IInv, Now
<1>9. UiInv' /\ SettingsInv' /\ KeyInv'
  BY <1>2 DEF IInv, EndImport, Goes, jobFrame, UiInv, SettingsInv, KeyInv
<1>10. SiteInv' /\ LiveInv'
  BY <1>2 DEF IInv, SiteInv, LiveInv, siteVars, FileType, Conf0
<1>11. StaleInv'
  <2>1. ASSUME NEW s \in Site, NEW p \in Party, Kept(s, p) PROVE Kept(s, p)'
    BY <1>2, <2>1 DEF Kept, siteVars
  <2>2. \A p \in Party : Replaced(p)'
    BY <1>6 DEF Replaced, Just, Idle
  <2> QED
    BY <1>2, <2>1, <2>2 DEF IInv, StaleInv
<1>12. Facts(Now)'
  <2>1. Now' \in {Just("fail"), Just("build"), Just("succeed")}
    BY <1>5, <1>7
  <2>2. KeyFacts(Now)'
    BY <1>1, <1>2, <1>7, <2>1 DEF IInv, Facts, BaseFacts, KeyFacts, Keyed, Placed, Just, SameDeploy
  <2>3. SiteFacts(Now)'
    <3>1. Now' = Just("build") => job["deploy"].local
      BY <1>5, <1>7 DEF Just
    <3> QED
      BY <1>1, <1>2, <1>7, <2>1, <3>1, NoneIsNone DEF IInv, Facts, BaseFacts, SiteFacts, Placed, LocalOnly,
         RemoteOnly, Just, SameDeploy
  <2>4. FileFacts(Now)'
    BY <1>1, <1>2, <1>7, <2>1, NoneIsNone DEF IInv, Facts, BaseFacts, FileFacts, SharesWritten, Placed, Just,
       SameDeploy, siteVars
  <2>5. ConfFacts(Now)'
    <3>1. Dialled' = Dialled /\ GetTransportPort' = GetTransportPort
      BY <1>2, <1>7 DEF Dialled, GetTransportPort, SameDeploy
    <3>2. CASE Now' = Just("fail")
      BY <1>1, <1>2, <1>7, <3>2, NoneIsNone DEF IInv, Facts, BaseFacts, ConfFacts, Placed, Just, Idle,
         SameDeploy
    <3>3. CASE Now' \in {Just("build"), Just("succeed")}
      <4>1. \A p \in Party : ConfWritten(p, Now)
        BY <1>1 DEF ConfWritten, Just
      <4> QED
        BY <1>1, <1>2, <1>7, <3>1, <3>3, <4>1, NoneIsNone DEF IInv, Facts, BaseFacts, ConfFacts, Placed,
           Just, Idle, Suits, SameDeploy, siteVars
    <3> QED
      BY <2>1, <3>2, <3>3
  <2>6. ImportFacts(Now)'
    <3>1. CASE at = Just("fail")
      BY <1>6, <1>7, <3>1 DEF ImportFacts, Imported, Just, Idle
    <3>2. CASE at # Just("fail")
      <4>1. \A p \in Party : Given(p, "ecdsa") /\ Given(p, "eddsa")
        BY <1>3, <3>2 DEF IInv, Facts, BaseFacts, ImportFacts
      <4>2. \A p \in Party, c \in Curve : Given(p, c)'
        BY <1>2, <1>7, <4>1 DEF siteVars, SameDeploy, Curve, Given
      <4>3. Now' # Just("importing")
        BY <2>1 DEF Just
      <4>4. Idle \notin {<<"clear", "eddsa">>, <<"save", "eddsa">>, Just("ok")}
        BY DEF Just, Idle
      <4> QED
        BY <1>6, <4>2, <4>3, <4>4 DEF ImportFacts
    <3> QED
      BY <3>1, <3>2
  <2>7. PublishFacts(Now)'
    BY <1>1, <1>2, <1>5, <1>7, NoneIsNone DEF IInv, Facts, PublishFacts, Started, Published, Placed,
       Just, SameDeploy, siteVars
  <2> QED
    BY <2>2, <2>3, <2>4, <2>5, <2>6, <2>7 DEF Facts, BaseFacts
<1>13. OutcomeInv'
  BY <1>1, <1>2 DEF IInv, OutcomeInv
<1> QED
  BY <1>8, <1>9, <1>10, <1>11, <1>12, <1>13 DEF IInv

-----------------------------------------------------------------------------
(* The end of a job.                                                       *)

LEMMA AbortKeeps ==
  ASSUME IInv, Abort
  PROVE  IInv'
<1>1. Now = Just("abort") /\ Now \notin {Idle, Just("lastLog"), Just("importing")}
  BY DEF Abort, Doing, Now, Just, Idle
<1>2. UNCHANGED <<settings, keyVars, cert, imports, siteVars, histVars>>
  BY DEF Abort
<1>3. Now' = Idle /\ SameDeploy
  BY JobMoved DEF Abort, Job, IInv, SameDeploy, Now
<1>4. JobInv'
  <2>1. ImportsInv'
    BY <1>2 DEF IInv, JobInv, ImportsInv
  <2> QED
    BY <1>1, <2>1, JobInvMoved DEF Abort, Job, IInv, Now
<1>5. UiInv' /\ SettingsInv' /\ KeyInv'
  BY DEF IInv, Abort, UiInv, SettingsInv, KeyInv, keyVars, histVars
<1>6. SiteInv' /\ LiveInv'
  BY <1>2 DEF IInv, SiteInv, LiveInv, siteVars, keyVars, FileType, Conf0
<1>7. OutcomeInv'
  BY <1>1, <1>2 DEF IInv, OutcomeInv, histVars
<1>8. StaleInv'
  BY <1>2, <1>3, StaleFrame DEF IInv, siteVars, keyVars, histVars, SameDeploy
<1>9. Facts(Now)'
  <2>1. Facts(Idle)
    BY <1>1, NoneIsNone DEF IInv, Facts, BaseFacts, KeyFacts, SiteFacts, FileFacts, ConfFacts, ImportFacts,
       Imported, PublishFacts, Started, LocalOnly, RemoteOnly, Keyed, Placed, Just, Idle
  <2>2. Facts(Idle)'
    BY <1>2, <1>3, <2>1, FactsFrame DEF siteVars, keyVars, histVars
  <2> QED
    BY <1>3, <2>2 DEF Facts, BaseFacts, Idle, Just
<1> QED
  BY <1>4, <1>5, <1>6, <1>7, <1>8, <1>9 DEF IInv

\* What is known when an install ends well is what was promised.
LEMMA Succeeded ==
  ASSUME IInv, Now = Just("succeed")
  PROVE  /\ job["deploy"].site \in Site
         /\ ~ConfigOnly => \A c \in Curve \ skipped, p \in Party :
              master[job["deploy"].site][p][c] = Len(dealt)
         /\ ~ConfigOnly => published[job["deploy"].site] = Published(job["deploy"].site)
         /\ Len(dealt) # 0 /\ dealt[Len(dealt)] = job["deploy"].mn
         /\ ~touched => Dialled \in cert
         /\ ~touched => \A p \in Party : Suits(files[job["deploy"].site][p].conf)
<1>1. Now[1] = "succeed" /\ Now[2] = None /\ Now # Idle
  BY DEF Just, Idle
<1>2. job["deploy"].site \in Site /\ Len(dealt) # 0 /\ dealt[Len(dealt)] = job["deploy"].mn
  BY <1>1, LenProperties DEF IInv, Facts, BaseFacts, SiteFacts, KeyFacts, Placed, Keyed, KeyInv
<1>3. ~ConfigOnly => \A c \in Curve \ skipped, p \in Party :
        master[job["deploy"].site][p][c] = Len(dealt)
  BY <1>1 DEF IInv, Facts, BaseFacts, KeyFacts, ImportFacts, Imported, Given,
     Placed, Keyed, Curve
<1>4. \A p \in Party : ConfWritten(p, Now)
  BY <1>1 DEF ConfWritten
<1>5. ~touched => Dialled \in cert
  BY <1>1 DEF IInv, Facts, BaseFacts, ConfFacts, Placed
<1>6. ~touched => \A p \in Party : Suits(files[job["deploy"].site][p].conf)
  BY <1>1, <1>4 DEF IInv, Facts, BaseFacts, ConfFacts, Placed
<1>7. ~ConfigOnly => published[job["deploy"].site] = Published(job["deploy"].site)
  BY <1>1 DEF IInv, Facts, PublishFacts, Started
<1> QED
  BY <1>2, <1>3, <1>5, <1>6, <1>7

LEMMA ConcludeKeeps ==
  ASSUME IInv, NEW w \in Job, NEW end \in {"succeed", "fail"}, Conclude(w, end)
  PROVE  IInv'
<1>1. job[w].at = Just(end) /\ job[w].at \notin {Idle, Just("lastLog"), Just("importing")}
  BY DEF Conclude, Doing, Just, Idle
<1>2. UNCHANGED <<settings, keyVars, cert, imports, siteVars, touched, skipped, raced>>
  BY DEF Conclude
<1>3. SameDeploy /\ Now' = IF w = "deploy" THEN Just("lastLog") ELSE Now
  BY ZenonT(30), JobMoved DEF Conclude, Job, IInv, SameDeploy, Now
<1>4. JobInv'
  <2>1. ImportsInv'
    BY <1>2 DEF IInv, JobInv, ImportsInv
  <2> QED
    BY <1>1, <2>1, JobInvMoved DEF Conclude, IInv
<1>5. UiInv' /\ SettingsInv' /\ KeyInv'
  BY DEF IInv, Conclude, UiInv, SettingsInv, KeyInv, keyVars
<1>6. SiteInv' /\ LiveInv'
  BY <1>2 DEF IInv, SiteInv, LiveInv, siteVars, keyVars, FileType, Conf0
<1>7. StaleInv'
  BY <1>2, <1>3, StaleFrame DEF IInv, siteVars, keyVars, SameDeploy
<1>8. Facts(Now)'
  <2>1. SameServers
    BY <1>2 DEF SameServers
  <2>2. CASE w = "deploy"
    <3>1. \A p \in Party : imports[p] = Idle
      BY <1>1, <2>2 DEF IInv, Facts, BaseFacts, ImportFacts, Now
    <3>2. Facts(Just("lastLog"))
      BY <1>1, <2>2, <3>1, NoFacts DEF IInv, Facts, BaseFacts, Now
    <3>3. Facts(Just("lastLog"))'
      BY <1>2, <1>3, <2>1, <3>2, FactsFrame DEF siteVars, keyVars
    <3> QED
      BY <1>3, <2>2, <3>3 DEF Facts, BaseFacts, Just
  <2>3. CASE w # "deploy"
    BY <1>2, <1>3, <2>1, <2>3, FactsFrame DEF IInv, siteVars, keyVars
  <2> QED
    BY <2>2, <2>3
<1>9. OutcomeInv'
  <2>1. CASE w # "deploy"
    <3>1. outcome' = outcome
      BY <2>1 DEF Conclude
    <3> QED
      BY <1>2, <1>3, <2>1, <3>1, OutcomeFrame DEF IInv, OutcomeInv, siteVars, keyVars, SameDeploy
  <2>2. CASE w = "deploy" /\ end = "fail"
    <3>1. outcome'.ok = FALSE
      BY <2>2 DEF Conclude
    <3> QED
      BY <3>1 DEF OutcomeInv
  <2>3. CASE w = "deploy" /\ end = "succeed"
    <3> DEFINE s == job["deploy"].site
    <3>1. outcome' = [ok |-> TRUE, site |-> s] /\ Now' = Just("lastLog")
      BY <1>3, <2>3 DEF Conclude
    <3>2. /\ s \in Site
          /\ ~ConfigOnly => \A c \in Curve \ skipped, p \in Party : master[s][p][c] = Len(dealt)
          /\ ~ConfigOnly => published[s] = Published(s)
          /\ Len(dealt) # 0 /\ dealt[Len(dealt)] = job["deploy"].mn
          /\ ~touched => Dialled \in cert
          /\ ~touched => \A p \in Party : Suits(files[s][p].conf)
      BY <1>1, <2>3, Succeeded DEF Now
    <3>5. Installed' => ~ConfigOnly
      BY <1>1, <2>3, <3>1 DEF IInv, Facts, BaseFacts, SiteFacts, Placed, Just, Now, Installed,
         ConfigOnly
    <3> HIDE DEF s
    <3>3. SharesFit'
      BY <1>2, <1>3, <3>1, <3>2, <3>5 DEF SharesFit, siteVars, keyVars, SameDeploy, Party
    <3>4. PartiesCanConnect'
      BY <1>2, <3>1, <3>2, <3>5 DEF PartiesCanConnect, Published, Suits, siteVars, Party
    <3> QED
      BY <3>1, <3>2, <3>3, <3>4 DEF OutcomeInv
  <2> QED
    BY <2>1, <2>2, <2>3
<1> QED
  BY <1>4, <1>5, <1>6, <1>7, <1>8, <1>9 DEF IInv
-----------------------------------------------------------------------------
(* A running party derives a key.                                          *)

\* A step of a party changes its derived keys and what it is deriving only.
LEMMA PartyStepKeeps ==
  ASSUME IInv, SiteInv', LiveInv', StaleInv',
         UNCHANGED <<uiVars, stuck, settings, keyVars, cert, stream, job, imports, files,
                     container, published, master, histVars>>
  PROVE  IInv'
<1>1. UiInv' /\ SettingsInv' /\ KeyInv'
  BY DEF IInv, UiInv, SettingsInv, KeyInv, uiVars, keyVars, histVars
<1>2. JobInv'
  BY DEF IInv, JobInv, ImportsInv, Now, Conf0
<1>3. OutcomeInv'
  BY OutcomeFrame DEF IInv, OutcomeInv, Now, keyVars, histVars
<1>4. Facts(Now)'
  <2>1. SameDeploy /\ Now' = Now /\ SameServers
    BY DEF SameDeploy, Now, SameServers
  <2> QED
    BY <2>1, FactsFrame DEF IInv, keyVars, histVars
<1> QED
  BY <1>1, <1>2, <1>3, <1>4 DEF IInv

LEMMA DeriveReadKeeps ==
  ASSUME IInv, NEW s \in Site, NEW p \in Party, NEW c \in Curve, DeriveRead(s, p, c)
  PROVE  IInv'
<1>1. /\ container[s][p] = "up" /\ master[s][p][c] # 0
      /\ deriving' = [deriving EXCEPT ![s][p] = <<c, dealt[master[s][p][c]]>>]
      /\ UNCHANGED <<uiVars, stuck, settings, keyVars, cert, stream, job, imports, files,
                     container, published, master, derived, histVars>>
  BY DEF DeriveRead
<1>2. dealt[master[s][p][c]] \in Mnemonic
  <2>1. master[s][p][c] \in 0 .. Len(dealt)
    BY DEF IInv, SiteInv
  <2>2. Len(dealt) \in Nat /\ dealt \in [1 .. Len(dealt) -> Mnemonic]
    BY LenProperties DEF IInv, KeyInv
  <2>3. master[s][p][c] \in 1 .. Len(dealt)
    BY <1>1, <2>1, <2>2
  <2> QED
    BY <2>2, <2>3
<1>3. /\ deriving' \in [Site -> [Party -> {<<>>} \cup (Curve \X Mnemonic)]]
      /\ deriving'[s][p] = <<c, dealt[master[s][p][c]]>>
      /\ \A t \in Site, q \in Party : t # s \/ q # p => deriving'[t][q] = deriving[t][q]
  <2>1. <<c, dealt[master[s][p][c]]>> \in {<<>>} \cup (Curve \X Mnemonic)
    BY <1>2
  <2>2. deriving \in [Site -> [Party -> {<<>>} \cup (Curve \X Mnemonic)]]
    BY DEF IInv, SiteInv
  <2> QED
    BY <1>1, <2>1, <2>2, OneSet
<1>4. SiteInv'
  BY <1>1, <1>3 DEF IInv, SiteInv, keyVars, FileType, Conf0
<1>5. LiveInv'
  BY <1>1, <1>3 DEF IInv, LiveInv
<1>6. StaleInv'
  <2>1. ASSUME NEW t \in Site, NEW q \in Party, Kept(t, q) PROVE Kept(t, q)'
    <3>1. CASE t = s /\ q = p
      BY ZenonT(30), <1>1, <1>3, <2>1, <3>1 DEF Kept, keyVars
    <3>2. CASE t # s \/ q # p
      <4>1. deriving'[t][q] = deriving[t][q]
        BY <1>3, <3>2
      <4> QED
        BY <1>1, <2>1, <4>1 DEF Kept, keyVars
    <3> QED
      BY <3>1, <3>2
  <2>2. ASSUME NEW q \in Party, Replaced(q) PROVE Replaced(q)'
    BY <1>1, <2>2 DEF Replaced, keyVars
  <2> QED
    BY <1>1, <2>1, <2>2 DEF IInv, StaleInv, histVars
<1> QED
  BY <1>1, <1>4, <1>5, <1>6, PartyStepKeeps

\* A key is saved by a process that is up, so not while its share is saved,
\* unless there was a race.
LEMMA DeriveSaveKeeps ==
  ASSUME IInv, NEW s \in Site, NEW p \in Party, DeriveSave(s, p)
  PROVE  IInv'
<1> DEFINE c == deriving[s][p][1]
           m == deriving[s][p][2]
<1>1. /\ deriving[s][p] # <<>>
      /\ derived' = [derived EXCEPT ![s][p][c] = m]
      /\ deriving' = [deriving EXCEPT ![s][p] = <<>>]
      /\ UNCHANGED <<uiVars, stuck, settings, keyVars, cert, stream, job, imports, files,
                     container, published, master, histVars>>
  BY DEF DeriveSave
<1>2. c \in Curve /\ m \in Mnemonic /\ container[s][p] = "up"
  BY <1>1 DEF IInv, SiteInv, LiveInv
<1>3. Kept(s, p) => master[s][p][c] # 0 /\ m = dealt[master[s][p][c]]
  BY <1>1 DEF Kept
<1> HIDE DEF c, m
<1>4. /\ deriving' \in [Site -> [Party -> {<<>>} \cup (Curve \X Mnemonic)]]
      /\ deriving'[s][p] = <<>>
      /\ \A t \in Site, q \in Party : t # s \/ q # p => deriving'[t][q] = deriving[t][q]
  <2>1. deriving \in [Site -> [Party -> {<<>>} \cup (Curve \X Mnemonic)]]
    BY DEF IInv, SiteInv
  <2> QED
    BY <1>1, <2>1, OneSet
<1>5. /\ derived' \in [Site -> [Party -> [Curve -> Mnemonic \cup {None}]]]
      /\ derived'[s][p][c] = m
      /\ \A d \in Curve : d # c => derived'[s][p][d] = derived[s][p][d]
      /\ \A t \in Site, q \in Party : t # s \/ q # p => derived'[t][q] = derived[t][q]
  <2>1. derived \in [Site -> [Party -> [Curve -> Mnemonic \cup {None}]]]
    BY DEF IInv, SiteInv
  <2>2. derived' = [derived EXCEPT ![s][p] = [derived[s][p] EXCEPT ![c] = m]]
    BY <1>1
  <2>3. derived[s][p] \in [Curve -> Mnemonic \cup {None}]
    BY <2>1
  <2>4. /\ [derived[s][p] EXCEPT ![c] = m] \in [Curve -> Mnemonic \cup {None}]
        /\ [derived[s][p] EXCEPT ![c] = m][c] = m
        /\ \A d \in Curve : d # c => [derived[s][p] EXCEPT ![c] = m][d] = derived[s][p][d]
    BY <1>2, <2>3
  <2> QED
    BY <2>1, <2>2, <2>4, OneSet
<1>6. SiteInv'
  BY <1>1, <1>4, <1>5 DEF IInv, SiteInv, keyVars, FileType, Conf0
<1>7. LiveInv'
  BY <1>1, <1>4 DEF IInv, LiveInv
<1>8. StaleInv'
  <2>1. ASSUME NEW t \in Site, NEW q \in Party, Kept(t, q) PROVE Kept(t, q)'
    <3>1. CASE t = s /\ q = p
      <4>1. ASSUME NEW d \in Curve, derived'[s][p][d] # None
            PROVE  master[s][p][d] # 0 /\ derived'[s][p][d] = dealt[master[s][p][d]]
        <5>1. CASE d = c
          BY <1>3, <1>5, <2>1, <3>1, <5>1
        <5>2. CASE d # c
          BY SMTT(30), <1>5, <2>1, <3>1, <4>1, <5>2 DEF Kept
        <5> QED
          BY <5>1, <5>2
      <4> QED
        BY <1>1, <1>4, <3>1, <4>1 DEF Kept, keyVars
    <3>2. CASE t # s \/ q # p
      <4>1. deriving'[t][q] = deriving[t][q] /\ derived'[t][q] = derived[t][q]
        BY <1>4, <1>5, <3>2
      <4> QED
        BY <1>1, <2>1, <4>1 DEF Kept, keyVars
    <3> QED
      BY <3>1, <3>2
  <2>2. ASSUME NEW q \in Party, Replaced(q) PROVE Replaced(q)'
    <3> DEFINE site == job["deploy"].site
    <3>1. SUFFICES ASSUME NEW d \in Curve, imports[q] = <<"save", d>>
                   PROVE  /\ container[site][q] # "up"
                          /\ derived'[site][q][d] # None =>
                               derived'[site][q][d] = dealt[share[d]]
      BY <1>1 DEF Replaced, keyVars
    <3>2. site \in Site
      <4>1. imports[q] # Idle
        BY <3>1 DEF Idle, Just
      <4> QED
        BY <4>1, ImportingFacts
    <3>3. container[site][q] # "up"
      BY <2>2, <3>1 DEF Replaced
    <3>4. derived'[site][q] = derived[site][q]
      BY <1>2, <1>5, <3>2, <3>3
    <3> QED
      BY <2>2, <3>1, <3>3, <3>4 DEF Replaced
  <2> QED
    BY <1>1, <2>1, <2>2 DEF IInv, StaleInv, histVars
<1> QED
  BY <1>1, <1>6, <1>7, <1>8, PartyStepKeeps

-----------------------------------------------------------------------------
(* The theorems.                                                           *)

LEMMA InitIInv == Init => IInv
<1> SUFFICES ASSUME Init PROVE IInv
  OBVIOUS
<1>1. /\ OldMnemonic \in Mnemonic /\ DefaultPort \in Port
      /\ dealt = <<OldMnemonic>> /\ Len(dealt) = 1 /\ dealt[1] = OldMnemonic
  BY InstallerAssumption DEF Init
<1>2. dealt \in Seq(Mnemonic)
  BY <1>1
<1>3. UiInv /\ SettingsInv
  BY DEF Init, UiInv, SettingsInv
<1>4. KeyInv
  BY <1>1, <1>2 DEF Init, KeyInv
<1>5. \A p \in Party : imports[p] = Idle
  BY DEF Init
<1>6. Now = Idle
  BY DEF Init, Now, Job
<1>7. JobInv
  BY <1>5, <1>6 DEF Init, JobInv, ImportsInv, Job
<1>8. SiteInv
  <2>1. ASSUME NEW s \in Site PROVE OldFiles(s) \in FileType
    <3>1. [port |-> DefaultPort, peer |-> s, ai |-> FALSE] \in Conf0
      BY <1>1 DEF Conf0, Site
    <3> QED
      BY <1>1, <3>1 DEF OldFiles, FileType
  <2>2. NoFiles \in FileType
    BY <1>1 DEF NoFiles, FileType
  <2>3. files \in [Site -> [Party -> FileType]]
    BY <2>1, <2>2 DEF Init, Left
  <2>4. container \in [Site -> [Party -> {"none", "up", "exited"}]]
    BY DEF Init, Left
  <2>5. master \in [Site -> [Party -> [Curve -> 0..Len(dealt)]]]
    <3>1. [c \in Curve |-> 1] \in [Curve -> 0..Len(dealt)]
          /\ [c \in Curve |-> 0] \in [Curve -> 0..Len(dealt)]
      BY <1>1
    <3> QED
      BY <3>1 DEF Init, Left
  <2>6. derived \in [Site -> [Party -> [Curve -> Mnemonic \cup {None}]]]
    <3>1. [c \in Curve |-> OldMnemonic] \in [Curve -> Mnemonic \cup {None}]
          /\ [c \in Curve |-> None] \in [Curve -> Mnemonic \cup {None}]
      BY <1>1
    <3> QED
      BY <3>1 DEF Init, Left
  <2>7. deriving \in [Site -> [Party -> {<<>>} \cup (Curve \X Mnemonic)]]
    BY DEF Init
  <2>8. DOMAIN published = Site
    BY DEF Init
  <2> QED
    BY <2>3, <2>4, <2>5, <2>6, <2>7, <2>8 DEF SiteInv
<1>9. LiveInv
  BY DEF Init, LiveInv
<1>10. OutcomeInv
  BY DEF Init, OutcomeInv
<1>11. StaleInv
  <2>1. ASSUME NEW s \in Site, NEW p \in Party PROVE Kept(s, p)
    <3>1. deriving[s][p] = <<>>
      BY DEF Init
    <3>2. CASE s \in OldSites
      <4>1. ASSUME NEW c \in Curve
            PROVE  master[s][p][c] = 1 /\ derived[s][p][c] = OldMnemonic
        BY <3>2 DEF Init, Left
      <4> QED
        BY <1>1, <3>1, <4>1 DEF Kept
    <3>3. CASE s \notin OldSites
      <4>1. ASSUME NEW c \in Curve PROVE derived[s][p][c] = None
        BY <3>3 DEF Init, Left
      <4> QED
        BY <3>1, <4>1 DEF Kept
    <3> QED
      BY <3>2, <3>3
  <2>2. \A p \in Party : Replaced(p)
    BY <1>5 DEF Replaced, Idle, Just
  <2> QED
    BY <2>1, <2>2 DEF StaleInv
<1>12. Facts(Idle)
  BY <1>5, NoneIsNone DEF Facts, BaseFacts, KeyFacts, SiteFacts, FileFacts, ConfFacts, ImportFacts,
     Imported, PublishFacts, Started, LocalOnly, RemoteOnly, Keyed, Placed, Just, Idle
<1> QED
  BY <1>3, <1>4, <1>6, <1>7, <1>8, <1>9, <1>10, <1>11, <1>12 DEF IInv

LEMMA NextIInv == IInv /\ [Next]_vars => IInv'
<1> SUFFICES ASSUME IInv, [Next]_vars PROVE IInv'
  OBVIOUS
<1>1. CASE Requests
  BY <1>1, ServersSaveKeeps, LocalhostSetupKeeps, ChoiceKeeps, TimersKeep, MnemonicKeeps,
     HandleDeployKeeps, HandleUpdateKeeps DEF Requests
<1>2. CASE PrimesEnd \/ StreamTick
  BY <1>2, TimersKeep
<1>3. CASE InstallStep
  <2>1. CASE DeriveKeys \/ PrimesReady \/ AwaitPrimes \/ WaitTick \/ WokenByPrimes \/ Deal
               \/ \E c \in Curve : SetKeys(c)
    BY <2>1, KeyStepsKeep, TimersKeep, DealKeeps, SetKeysKeeps
  <2>2. CASE MakeCerts \/ ChooseTarget \/ StartImport \/ EndImport \/ Abort
    BY <2>2, MakeCertsKeeps, ChooseTargetKeeps, StartImportKeeps, EndImportKeeps, AbortKeeps
  <2>3. CASE LookForDocker \/ EnsureLocalPostgres \/ UploadKeyShares
    <3>1. "a" \in Party
      BY DEF Party
    <3> QED
      BY <2>3, <3>1, PrepareKeeps
  <2>4. ASSUME NEW p \in Party,
               WriteShares(p) \/ Connect(p) \/ EnsureDocker(p) \/ EnsureRemotePostgres(p)
                 \/ WriteConf(p) \/ BuildFromSource(p) \/ StopOld(p)
        PROVE  IInv'
    BY <2>4, WriteSharesKeeps, ConnectKeeps, PrepareKeeps, WriteConfKeeps, StopsKeep
  <2> QED
    BY <1>3, <2>1, <2>2, <2>3, <2>4 DEF InstallStep
<1>4. CASE ImportStep
  BY <1>4, NextImportKeeps, ImportClearKeeps, ImportSkipKeeps, ImportSaveKeeps DEF ImportStep
<1>5. CASE PartyStep
  BY <1>5, DeriveReadKeeps, DeriveSaveKeeps DEF PartyStep
<1>6. CASE CheckInstalled
  BY <1>6, CheckInstalledKeeps
<1>7. ASSUME NEW w \in Job, JobStep(w) PROVE IInv'
  BY <1>7, DockerBuildKeeps, StopsKeep, LastLogKeeps, StartContainerKeeps, VerifyKeeps,
     ConcludeKeeps DEF JobStep
<1>8. CASE UNCHANGED vars
  <2>1. UNCHANGED <<uiVars, stuck, settings, keyVars, cert, stream, job, imports, siteVars,
                    histVars>>
    BY <1>8 DEF vars
  <2>2. UiInv' /\ SettingsInv' /\ KeyInv' /\ SameServers
    BY <2>1 DEF IInv, UiInv, SettingsInv, KeyInv, SameServers, uiVars, keyVars, histVars
  <2> QED
    BY <2>1, <2>2, Beside DEF keyVars, histVars
<1> QED
  BY <1>1, <1>2, <1>3, <1>4, <1>5, <1>6, <1>7, <1>8 DEF Next

\* IInv is an invariant of the installer, whatever is edited, fails or runs at
\* the same time: at every call of an install what the calls before it have
\* established still holds.
THEOREM InstallerInductive == Spec => []IInv
  BY InitIInv, NextIInv, PTL DEF Spec

\* The type invariant of the wizard's state, the jobs and the sites.
THEOREM InstallerTypeCorrect == Spec => []ITypeOK
<1>1. IInv => ITypeOK
  BY DEF IInv, UiInv, SettingsInv, KeyInv, JobInv, SiteInv, FileType, ITypeOK
<1> QED
  BY <1>1, InstallerInductive, PTL

\* An install that ended well left both databases with the two shares of one
\* dealing of its mnemonic, on both curves (handleDeploy, importSharesToDB).
THEOREM SharesFitProved == Spec => []SharesFit
<1>1. IInv => SharesFit
  BY DEF IInv, OutcomeInv, SharesFit, Installed
<1> QED
  BY <1>1, InstallerInductive, PTL

\* After an install that ended well with the servers as they were at its
\* start, Party A can connect to Party B (GenerateCerts, buildPartyConfig,
\* buildLocalDockerConfig).
THEOREM CanConnect == Spec => []PartiesCanConnect
<1>1. IInv => PartiesCanConnect
  BY DEF IInv, OutcomeInv, PartiesCanConnect, Installed
<1> QED
  BY <1>1, InstallerInductive, PTL

\* A stale derived key takes a party that was up during the import, or a
\* clearing whose error nobody looked at (importSharesToDB,
\* killExistingParties).
THEOREM StaleRaced == Spec => []StaleOnlyIfRaced
<1>1. IInv => StaleOnlyIfRaced
  BY DEF IInv, StaleInv, Kept, StaleOnlyIfRaced
<1> QED
  BY <1>1, InstallerInductive, PTL
=============================================================================
