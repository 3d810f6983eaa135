------------------------------- MODULE Startup -------------------------------
(***************************************************************************)
(* From the command line to a configuration: which file is read            *)
(* (cmd/base.go), what the ATK_ variables of the environment change in it  *)
(* (env_provider), and what is patched afterwards (config/base.go).        *)
(*                                                                         *)
(* A path is a directory and a name.  The options are named by their paths *)
(* in the file; a scalar is a string, "" its zero value, a list a function *)
(* on 0..n.                                                                *)
(***************************************************************************)
EXTENDS Integers, Sequences, FiniteSets, SequencesExt

CONSTANTS
    Machines,    \* the machines to consider
    RandomKeys,  \* the keys that are drawn, in this order
    MaxStarts    \* bound on starts of the program

Scalars == {"app_key", "site_default", "timezone", "locale", "cache.type", "captcha.action_limit",
            "captcha.always", "captcha.action_timeout", "captcha.action_reset",
            "captcha.captcha_type", "notify", "notify.noise_mode", "notify.notify_subject",
            "notify.email", "notify.email.mail_subject", "admin_notify.noise_mode",
            "admin_notify.notify_subject", "admin_notify.email", "admin_notify.email.mail_subject",
            "email.mail_subject", "email.mail_subject_to_admin", "moderator.pending_default",
            "img_upload.path", "http.body_limit", "http.proxy_header", "auth.enabled",
            "auth.callback", "ip_region.enabled", "ip_region.db_path", "ip_region.precision"}
Lists == {"trusted_domains", "allow_origins"}
Records == {"admin_users"}
Options == Scalars \cup Lists \cup Records
NoOptions == [o \in Options |-> IF o \in Scalars THEN "" ELSE <<>>]

(* Where configuration files may be; "here" is the directory the program   *)
(* is called in, "data" the shared data directory, "work" an explicit one. *)
Places == {"here", "data", "work", "config", "etc"}
          \X {"artalk.yml", "data/artalk.yml", "custom.yml"}
NoFile == <<"", "">>

(* What does not change from start to start: the files, whether ./data and *)
(* the region database exist, the flags and whether they come before the   *)
(* flags of the command, the contents of the files, the environment.       *)
(* A start draws two keys at most.                                         *)
Variable == [option : Options, numbers : Seq(Nat), field : STRING, words : Seq(STRING) \ {<<>>}]
ASSUME StartupAssumption ==
    /\ MaxStarts \in Nat
    /\ RandomKeys \in Seq(STRING \ {"", " "}) /\ Len(RandomKeys) > 2 * MaxStarts
    /\ \A m \in Machines :
          /\ m.files \subseteq Places /\ DOMAIN m.content \subseteq Options
          /\ m.config \in {"", "relative", "absolute"}
          /\ {m.dataHere, m.database, m.workdir, m.first, m.han} \subseteq BOOLEAN
          /\ m.environ \in Seq(Variable)

VARIABLES
    machine,  \* the machine
    files,    \* the files there are now
    start,    \* step of the program
    cwd,      \* its working directory
    cfgFile,  \* ArtalkCmd.cfgFile: <<dir, name>>; dir "" for a relative path
    workDir,  \* ArtalkCmd.workDir
    loaded,   \* the file that was read
    config,   \* Config
    drawn,    \* random keys drawn so far
    genKey,   \* app_key of the generated file
    signers      \* history: for every start, app_key and what was set for it

startVars == <<machine, files, start, cwd, cfgFile, workDir, loaded, config, drawn, genKey,
               signers>>

-----------------------------------------------------------------------------
(* The environment: a variable is an option, the numbers in its name, the  *)
(* field of a record, and a value, split at its blanks.                    *)
Known(v) ==
    CASE v.option \in Scalars -> v.numbers = <<>>
      [] v.option \in Lists -> Len(v.numbers) <= 1
      [] OTHER -> Len(v.numbers) = 1

(* What a variable sets: the element that its name gives, every word of it *)
(* in turn; one element per word; the field of a record; the scalar.       *)
Assigned(v) ==
    IF ~ Known(v) THEN <<>>
    ELSE
    CASE v.option \in Scalars -> [p \in {<<v.option>>} |-> v.words[1]]
      [] v.option \in Records -> [p \in {<<v.option, v.numbers[1], v.field>>} |-> v.words[1]]
      [] v.option \in Lists /\ v.numbers # <<>> ->
            [p \in {<<v.option, v.numbers[1]>>} |-> Last(v.words)]
      [] OTHER -> [p \in {<<v.option, i - 1>> : i \in DOMAIN v.words} |-> v.words[p[2] + 1]]

(* The variables in the order of os.Environ: the last one wins.            *)
Setting(environ, x) == {i \in DOMAIN environ : x \in DOMAIN Assigned(environ[i])}
Read(environ) ==
    [x \in UNION {DOMAIN Assigned(environ[i]) : i \in DOMAIN environ} |->
       LET last == CHOOSE i \in Setting(environ, x) : \A j \in Setting(environ, x) : j <= i
       IN Assigned(environ[last])[x]]

(* NumberKeysMapToSlice: a list up to its greatest number, with zero       *)
(* values where no number was given.                                       *)
Unflatten(flat, o) ==
    IF o \in Scalars THEN flat[<<o>>]
    ELSE LET numbers == {p[2] : p \in {q \in DOMAIN flat : q[1] = o}}
             size == CHOOSE n \in numbers : \A m \in numbers : m <= n
             Fields(n) == {p[3] : p \in {q \in DOMAIN flat : q[1] = o /\ q[2] = n}}
         IN [n \in 0..size |->
               IF o \in Records THEN [f \in Fields(n) |-> flat[<<o, n, f>>]]
               ELSE IF <<o, n>> \in DOMAIN flat THEN flat[<<o, n>>] ELSE ""]

(* A list of the environment replaces the list of the file.                *)
Loaded(file, environ) ==
    LET flat == Read(environ)
        named == {p[1] : p \in DOMAIN flat}
    IN [o \in Options |-> IF o \in named THEN Unflatten(flat, o)
                          ELSE IF o \in DOMAIN file THEN file[o] ELSE NoOptions[o]]

-----------------------------------------------------------------------------
(* The patches.                                                            *)
Blank(s) == s \in {"", " "}
Or(c, o, v) == IF c[o] = NoOptions[o] THEN [c EXCEPT ![o] = v] ELSE c
OrTrim(c, o, v) == IF Blank(c[o]) THEN [c EXCEPT ![o] = v] ELSE c

Replaced == {<<"admin_notify.noise_mode", "notify.noise_mode">>,
          <<"admin_notify.notify_subject", "notify.notify_subject">>,
          <<"admin_notify.email", "notify.email">>,
          <<"admin_notify.email.mail_subject", "notify.email.mail_subject">>}
ReplacedBy(o) == CHOOSE s \in Options : <<o, s>> \in Replaced

(* A section notify replaces admin_notify as a whole.                      *)
historyPatch(c) ==
    LET reset == Or(c, "captcha.action_reset", c["captcha.action_timeout"])
        trusted == Or(reset, "trusted_domains", c["allow_origins"])
        section == IF c["notify"] = "" THEN trusted
                   ELSE [o \in Options |-> IF \E s \in Options : <<o, s>> \in Replaced
                                           THEN c[ReplacedBy(o)] ELSE trusted[o]]
        email == Or(section, "admin_notify.email", "true")
    IN IF c["email.mail_subject_to_admin"] = "" THEN email
       ELSE [email EXCEPT !["admin_notify.email.mail_subject"] = c["email.mail_subject_to_admin"]]

(* A header for proxies that is set is kept, blank too.                    *)
normalPatch(c, key) ==
    LET basic == OrTrim(OrTrim(OrTrim(c, "app_key", key), "timezone", "Local"),
                        "site_default", "Default Site")
        cached == Or(basic, "cache.type", "builtin")
        captcha == IF c["captcha.action_limit"] # "" THEN cached
                   ELSE [cached EXCEPT !["captcha.always"] = "true"]
        subject == Or(captcha, "admin_notify.email.mail_subject",
                      IF c["admin_notify.notify_subject"] # "" THEN c["admin_notify.notify_subject"]
                      ELSE c["email.mail_subject"])
        noise == IF c["moderator.pending_default"] = "" THEN subject
                 ELSE [subject EXCEPT !["admin_notify.noise_mode"] = "true"]
        http == Or(Or(Or(OrTrim(noise, "captcha.captcha_type", "image"),
                         "img_upload.path", "./data/artalk-img/"),
                      "http.body_limit", "100"), "http.proxy_header", "X-Forwarded-For")
    IN IF c["auth.enabled"] = "" THEN http ELSE OrTrim(http, "auth.callback", "localhost")

(* Languages and regions take their case; en with a region becomes en,     *)
(* unless it is written with capitals.                                     *)
Cased(l) == CASE l \in {"zh", "zh-cn"} -> "zh-CN"
              [] l = "en-us" -> "en"
              [] l = "EN-us" -> "en-US"
              [] OTHER -> l
i18nPatch(c, han) ==
    [c EXCEPT !["locale"] = IF @ = "" THEN (IF han THEN "zh-CN" ELSE "en") ELSE Cased(@)]

ipRegionPatch(c, there) ==
    IF c["ip_region.enabled"] = "" THEN c
    ELSE [Or(Or(c, "ip_region.db_path", "./data/ip2region.xdb"), "ip_region.precision", "province")
            EXCEPT !["ip_region.enabled"] = IF there THEN @ ELSE ""]

(* NewFromFile: a value that is no number where one is wanted is an error, *)
(* and so is one that is no truth value, or a word in place of a section.  *)
Numbers == {"captcha.action_limit", "captcha.action_timeout", "captcha.action_reset",
            "http.body_limit"}
Switches == {"captcha.always", "notify.noise_mode", "admin_notify.noise_mode",
             "moderator.pending_default", "auth.enabled", "ip_region.enabled"}
Sections == {"notify", "notify.email", "admin_notify.email"}
Decodes(c) ==
    /\ \A o \in Numbers : c[o] \notin {"word", " "}
    /\ \A o \in Switches \cup Sections : c[o] \in {"", "true"}
NewFromFile(file, environ, key) ==
    ipRegionPatch(i18nPatch(normalPatch(historyPatch(Loaded(file, environ)), key), machine.han),
                  machine.database)

-----------------------------------------------------------------------------
StartupInit ==
    /\ machine \in Machines /\ files = machine.files
    /\ start = "off" /\ cwd = "here" /\ cfgFile = NoFile /\ workDir = "" /\ loaded = NoFile
    /\ config = NoOptions /\ drawn = 0 /\ genKey = "" /\ signers = <<>>

Flag == CASE machine.config = "" -> NoFile
          [] machine.config = "relative" -> <<"", "custom.yml">>
          [] OTHER -> <<"work", "custom.yml">>

(* RetrieveConfigFile: the first of the working directory, its directory   *)
(* data, the user's and the system's configuration.                        *)
Lookup(dir) == <<<<dir, "artalk.yml">>, <<dir, "data/artalk.yml">>, <<"config", "artalk.yml">>,
                 <<"etc", "artalk.yml">>>>
Retrieve(dir) ==
    LET there == {i \in 1..4 : Lookup(dir)[i] \in files}
    IN IF there = {} THEN NoFile ELSE Lookup(dir)[CHOOSE i \in there : \A j \in there : i <= j]
RetrieveConfigFile == Retrieve(cwd)
Within(dir, file) == IF file # NoFile /\ file[1] = "" THEN <<dir, file[2]>> ELSE file

(* eagerParseFlags stops at the first flag it does not know.               *)
Eager ==
    /\ start = "off" /\ Len(signers) < MaxStarts
    /\ start' = "resolve" /\ cwd' = "here"
    /\ cfgFile' = IF machine.first THEN Flag ELSE NoFile
    /\ workDir' = IF machine.first /\ machine.workdir THEN "work" ELSE ""
    /\ UNCHANGED <<machine, files, loaded, config, drawn, genKey, signers>>

resolveConfigFileBeforeDataDir_Skip ==
    /\ start = "resolve" /\ start' = "dataDir"
    /\ UNCHANGED <<machine, files, cwd, cfgFile, workDir, loaded, config, drawn, genKey, signers>>
resolveConfigFileBeforeDataDir ==
    /\ start = "resolve"
    /\ start' = "dataDir"
    /\ cfgFile' = IF workDir # "" THEN cfgFile
                  ELSE IF cfgFile = NoFile THEN RetrieveConfigFile ELSE Within(cwd, cfgFile)
    /\ UNCHANGED <<machine, files, cwd, workDir, loaded, config, drawn, genKey, signers>>

initDataDir ==
    /\ start = "dataDir"
    /\ start' = "execute"
    /\ workDir' = IF workDir = "" /\ ~ machine.dataHere THEN "data" ELSE workDir
    /\ cwd' = IF workDir' = "" THEN cwd ELSE workDir'
    /\ UNCHANGED <<machine, files, cfgFile, loaded, config, drawn, genKey, signers>>

(* Execute parses the flags again, into the same variables.                *)
Execute ==
    /\ start = "execute"
    /\ start' = "config"
    /\ cfgFile' = IF Flag # NoFile THEN Flag ELSE cfgFile
    /\ UNCHANGED <<machine, files, cwd, workDir, loaded, config, drawn, genKey, signers>>

(* getConfig generates a file, with a random app_key, when there is none,  *)
(* and reads it; a file that is missing ends the program, like one that    *)
(* does not decode.                                                        *)
Key(n) == RandomKeys[n]
Generated == <<"config", "artalk.yml">>
Content(f, key) ==
    IF f # Generated \/ key = "" THEN machine.content
    ELSE [o \in DOMAIN machine.content \cup {"app_key"} |->
            IF o = "app_key" THEN key ELSE machine.content[o]]
getConfig ==
    LET found == IF cfgFile = NoFile THEN RetrieveConfigFile ELSE Within(cwd, cfgFile)
        new == found = NoFile
        key == IF new THEN Key(drawn + 1) ELSE genKey
        f == IF new THEN Generated ELSE found
        n == IF new THEN drawn + 1 ELSE drawn
        c == Content(f, key)
    IN /\ start = "config"
       /\ cfgFile' = f /\ files' = IF new THEN files \cup {f} ELSE files
       /\ genKey' = key
       /\ IF f \in files' /\ Decodes(Loaded(c, machine.environ))
          THEN /\ start' = "ready" /\ loaded' = f
               /\ config' = NewFromFile(c, machine.environ, Key(n + 1))
               /\ drawn' = IF config'["app_key"] = Key(n + 1) THEN n + 1 ELSE n
               /\ signers' = Append(signers, [key |-> config'["app_key"],
                                         set |-> Loaded(c, machine.environ)["app_key"]])
          ELSE /\ start' = "failed" /\ drawn' = n /\ UNCHANGED <<loaded, config, signers>>
       /\ UNCHANGED <<machine, cwd, workDir>>

(* The program ends and may be started again.                              *)
Ends ==
    /\ start = "ready"
    /\ start' = "off" /\ cfgFile' = NoFile /\ workDir' = "" /\ loaded' = NoFile
    /\ config' = NoOptions
    /\ UNCHANGED <<machine, files, cwd, drawn, genKey, signers>>

StartupNext == \/ Eager \/ resolveConfigFileBeforeDataDir \/ initDataDir \/ Execute \/ getConfig
               \/ Ends
StartupSpec == StartupInit /\ [][StartupNext]_startVars

-----------------------------------------------------------------------------
(* The states of the module.                                               *)
StartupTypeOK ==
    /\ files \subseteq Places
    /\ start \in {"off", "resolve", "dataDir", "execute", "config", "ready", "failed"}
    /\ cwd \in {"here", "data", "work"} /\ workDir \in {"", "data", "work"}
    /\ loaded \in Places \cup {NoFile}
    /\ drawn \in 0..(2 * MaxStarts) /\ Len(signers) <= MaxStarts

(* The file that is read is the first that the directory of the caller     *)
(* offers, although the program leaves that directory before it reads; an  *)
(* explicit work directory takes its place (cmd/base.go:71-107).  Flags    *)
(* behind those of a command are not seen in time.                         *)
FoundHere ==
    start = "ready" /\ machine.config = "" =>
        LET dir == IF machine.first /\ machine.workdir THEN "work" ELSE "here"
        IN Retrieve(dir) # NoFile => loaded = Retrieve(dir)

(* The variables of the environment count whatever their order, if no two  *)
(* of them set the same element.                                           *)
Apart(e) == \A i, j \in DOMAIN e : i # j =>
                DOMAIN Assigned(e[i]) \cap DOMAIN Assigned(e[j]) = {}
OrderFree ==
    start = "off" /\ Apart(machine.environ) =>
        Read(Reverse(machine.environ)) = Read(machine.environ)

(* What the environment sets survives all patches, except that the section *)
(* notify replaces admin_notify, that mail_subject_to_admin replaces its   *)
(* subject, that holding all comments implies noise mode, and that an      *)
(* address database that is missing switches regions off.                  *)
Superseded(c) ==
    (IF c["notify"] = "" THEN {} ELSE {o \in Options : \E s \in Options : <<o, s>> \in Replaced})
    \cup (IF c["email.mail_subject_to_admin"] = "" THEN {} ELSE {"admin_notify.email.mail_subject"})
    \cup (IF c["moderator.pending_default"] = "" THEN {} ELSE {"admin_notify.noise_mode"})
    \cup {"locale", "ip_region.enabled", "captcha.always"}
EnvironWins ==
    start = "ready" =>
        \A p \in DOMAIN Read(machine.environ) :
            p[1] \notin Superseded(config) /\ p[1] \in Scalars =>
                Blank(Read(machine.environ)[p]) \/ config[p[1]] = Read(machine.environ)[p]

(* The patched configuration is one the services can work with: a key, a   *)
(* site, a cache and a kind of captcha; a captcha always where no action   *)
(* is free of it; and administrators hear of every comment that waits.     *)
Usable ==
    start = "ready" =>
        /\ \A o \in {"app_key", "site_default", "timezone", "captcha.captcha_type"} :
              ~ Blank(config[o])
        /\ \A o \in {"locale", "cache.type", "http.body_limit", "admin_notify.email"} :
              config[o] # ""
        /\ config["captcha.action_limit"] = "" => config["captcha.always"] = "true"
        /\ config["moderator.pending_default"] # "" => config["admin_notify.noise_mode"] = "true"
        /\ config["captcha.action_timeout"] # "" => config["captcha.action_reset"] # ""
        /\ config["email.mail_subject"] # "" => config["admin_notify.email.mail_subject"] # ""

(* A login outlives a restart: the key that signs tokens is the same at    *)
(* every start, unless the file and the environment leave it blank; the    *)
(* key of a generated file is kept in that file.                           *)
KeyKept ==
    /\ \A i, j \in DOMAIN signers :
          signers[i].key # signers[j].key => Blank(signers[i].set) \/ Blank(signers[j].set)
    /\ genKey # "" /\ (\A v \in ToSet(machine.environ) : v.option # "app_key") =>
          \A i \in DOMAIN signers : signers[i].key = genKey

(* What a start of the program leaves is sound.                            *)
StartupSound ==
    StartupTypeOK /\ FoundHere /\ OrderFree /\ EnvironWins /\ Usable /\ KeyKept

(* A relative path is resolved in the directory the program is called in   *)
(* ("Resolve config from the invocation directory before an implicit       *)
(* data-dir chdir", cmd/base.go:71).                                       *)
RelativeHere ==
    start \in {"ready", "failed"} /\ machine.config = "relative"
    /\ machine.first /\ ~ machine.workdir =>
        cfgFile[1] = "here"
=============================================================================
