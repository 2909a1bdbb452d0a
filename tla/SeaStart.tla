------------------------------ MODULE SeaStart ------------------------------
(***************************************************************************)
(* The start and the end of the program (src/main.c, main) with its        *)
(* configuration (src/core/sea_config.c): the command line, the file .env, *)
(* config.json and the environment are put together, the parts of the      *)
(* program are brought up as far as they come, and taken down again.       *)
(*                                                                         *)
(* A key or a token is known by the provider it is for and by where it     *)
(* came from.  The strings of a configuration are of any length, so that   *)
(* any of them may find no room in the arena while others do.              *)
(***************************************************************************)
EXTENDS Integers, Sequences, FiniteSets, SequencesExt

CONSTANTS
  Remote,        \* providers with a key, each with its own environment variable
  FirstProvider, \* the one parse_provider takes for a name it does not know
  MaxFallbacks,  \* SEA_MAX_FALLBACKS
  ConfigFiles    \* what config.json may say

Local == "local"
NoName == ""
Unheard == "unheard"          \* a name parse_provider does not know
ProviderNames == Remote \union {Local, NoName, Unheard}

(* What config.json says of a provider: its name, and whether there are a  *)
(* key, a URL and a model of its own.                                      *)
ConfigEntries == [provider : ProviderNames, key : BOOLEAN, url : BOOLEAN, model : BOOLEAN]

ASSUME StartAssumption ==
  /\ FirstProvider \in Remote /\ {Local, NoName, Unheard} \intersect Remote = {}
  /\ MaxFallbacks \in Nat
  /\ ConfigFiles \subseteq [token : BOOLEAN, primary : ConfigEntries, fallbacks : Seq(ConfigEntries)]

VARIABLES
  mainAt,   \* how far main has come
  options,  \* the command line: a token, a mesh role, --doctor
  environ,  \* the environment, one variable per remote provider and the token's
  config,   \* SeaConfig: its token and its providers, the primary one first
  said,     \* history: what config.json said of each of them, and what of it found no room
  tgToken,  \* tg_token
  agentCfg, \* s_agent_cfg: the provider in use first, then the fallbacks
  report,   \* what --doctor says of the token and of the key
  alive,    \* the parts that have been brought up and not taken down
  opened    \* the database could be opened

startVars == <<mainAt, options, environ, config, said, tgToken, agentCfg, report,
               alive, opened>>

TokenVar == "TELEGRAM_BOT_TOKEN"
Variables == Remote \union {TokenVar}

(* A setting: what it is for and where it came from. *)
Setting(for, from) == [for |-> for, from |-> from]
Unset == Setting(NoName, "unset")
Blank == Setting(NoName, "blank")
Says(s) == s \notin {Unset, Blank}

NoEntry == [provider |-> NoName, key |-> FALSE, url |-> FALSE, model |-> FALSE]
NoConfig == [token |-> Unset,
             entries |-> <<[provider |-> NoName, key |-> Unset, url |-> FALSE, model |-> FALSE]>>]
NothingSaid == <<[entry |-> NoEntry, lost |-> {}]>>
NoReport == [token |-> FALSE, key |-> FALSE]

StartInit ==
  /\ mainAt = "args" /\ options = [token |-> FALSE, mesh |-> FALSE, doctor |-> FALSE]
  /\ environ = [v \in Variables |-> Unset]
  /\ config = NoConfig /\ said = NothingSaid /\ tgToken = Unset /\ agentCfg = <<>> /\ report = NoReport
  /\ alive = {} /\ opened = FALSE

-----------------------------------------------------------------------------
(* Where the settings come from.                                           *)

(* The loop over argv, in an environment that is as it is. *)
ReadsOptions ==
  /\ mainAt = "args"
  /\ mainAt' = "dotenv"
  /\ options' \in [token : BOOLEAN, mesh : BOOLEAN, doctor : BOOLEAN]
  /\ \E given \in [Variables -> {"unset", "blank", "env"}] :
       environ' = [v \in Variables |-> IF given[v] = "env" THEN Setting(v, "env")
                                       ELSE Setting(NoName, given[v])]
  /\ UNCHANGED <<config, said, tgToken, agentCfg, report, alive, opened>>

(* load_dotenv: setenv without overwriting, so a variable that is there    *)
(* stays, even an empty one.                                               *)
LoadsDotenv ==
  /\ mainAt = "dotenv"
  /\ mainAt' = "config"
  /\ \E named \in SUBSET Variables :
       environ' = [v \in Variables |-> IF v \in named /\ environ[v] = Unset
                                       THEN Setting(v, ".env") ELSE environ[v]]
  /\ UNCHANGED <<options, config, said, tgToken, agentCfg, report, alive, opened>>

(* parse_provider *)
Provider(name) == IF name \in Remote \union {Local} THEN name ELSE FirstProvider

(* The primary provider, and as many fallbacks as are looked at. *)
EntriesOf(file) ==
  LET count == IF Len(file.fallbacks) < MaxFallbacks THEN Len(file.fallbacks) ELSE MaxFallbacks
  IN  [i \in 1..count + 1 |-> IF i = 1 THEN file.primary ELSE file.fallbacks[i - 1]]

(* The strings of a configuration that are there, each copied by itself.   *)
StringsOf(file) ==
  {s \in {"provider", "key", "url", "model"} \X DOMAIN EntriesOf(file) :
     LET entry == EntriesOf(file)[s[2]] IN
     CASE s[1] = "provider" -> entry.provider # NoName
       [] s[1] = "key" -> entry.key
       [] s[1] = "url" -> entry.url
       [] s[1] = "model" -> entry.model}
    \union (IF file.token THEN {<<"token", 0>>} ELSE {})

(* What a key in an entry of that name is for: parse_provider takes no     *)
(* name for the first provider.                                            *)
Addressee(name) == IF name = NoName THEN FirstProvider ELSE name

(* What is left of an entry when these strings found no room. *)
Kept(entry, lost) ==
  [provider |-> IF "provider" \in lost THEN NoName ELSE entry.provider,
   key |-> IF entry.key /\ "key" \notin lost THEN Setting(Addressee(entry.provider), "config") ELSE Unset,
   url |-> entry.url /\ "url" \notin lost,
   model |-> entry.model /\ "model" \notin lost]

LostOf(lost, i) == {string[1] : string \in {s \in lost : s[2] = i}}

Loaded(file, lost) ==
  [token |-> IF file.token /\ <<"token", 0>> \notin lost THEN Setting(TokenVar, "config") ELSE Unset,
   entries |-> [i \in DOMAIN EntriesOf(file) |-> Kept(EntriesOf(file)[i], LostOf(lost, i))]]

(* sea_config_load.  A file that is missing, empty, too large, no object   *)
(* of JSON, or too large for the arena with its parse tree, is none.       *)
LoadsConfig ==
  /\ mainAt = "config"
  /\ mainAt' = IF options.doctor THEN "doctor" ELSE "settle"
  /\ \/ config' = NoConfig /\ said' = NothingSaid
     \/ \E file \in ConfigFiles : \E lost \in SUBSET StringsOf(file) :
          /\ config' = Loaded(file, lost)
          /\ said' = [i \in DOMAIN EntriesOf(file) |->
                       [entry |-> EntriesOf(file)[i], lost |-> LostOf(lost, i)]]
  /\ UNCHANGED <<options, environ, tgToken, agentCfg, report, alive, opened>>

(* --doctor prints what it finds, opens and closes the database, and ends. *)
Doctor ==
  /\ mainAt = "doctor"
  /\ mainAt' = "reported"
  /\ report' = [token |-> Says(config.token) \/ Says(environ[TokenVar]), key |-> Says(config.entries[1].key)]
  /\ UNCHANGED <<options, environ, config, said, tgToken, agentCfg, alive, opened>>

-----------------------------------------------------------------------------
(* What is made of them.                                                   *)

Configured(value, variable) == IF ~Says(value) /\ Says(environ[variable])
                               THEN environ[variable] ELSE value

(* The command line, then config.json, then the environment.  main leaves  *)
(* when it does not get its two arenas.                                    *)
Settles ==
  /\ mainAt = "settle"
  /\ tgToken' = IF options.token THEN Setting(TokenVar, "option")
              ELSE Configured(config.token, TokenVar)
  /\ \/ mainAt' = "database" /\ alive' = {"config", "session", "request"}
     \/ mainAt' = "failed" /\ alive' = {"config"}
  /\ UNCHANGED <<options, environ, config, said, agentCfg, report, opened>>

(* sea_db_open: without a database the program goes on. *)
OpensDatabase ==
  /\ mainAt = "database"
  /\ mainAt' = "agent"
  /\ opened' \in BOOLEAN
  /\ alive' = IF opened' THEN alive \union {"database"} ELSE alive
  /\ UNCHANGED <<options, environ, config, said, tgToken, agentCfg, report>>

(* Mutant: the variable of the first provider serves them all. *)
PrimaryKeyOfFirst(entry) ==
  IF Provider(entry.provider) = Local THEN entry.key ELSE Configured(entry.key, FirstProvider)

PrimaryKey(entry) ==
  IF Provider(entry.provider) = Local THEN entry.key
  ELSE Configured(entry.key, Provider(entry.provider))

(* A fallback takes its variable as it is, empty or not there at all. *)
FallbackKey(entry) ==
  IF Says(entry.key) \/ Provider(entry.provider) = Local THEN entry.key
  ELSE environ[Provider(entry.provider)]

(* Without a URL or a model of its own, an entry is for the provider's     *)
(* usual ones (sea_agent_defaults).                                        *)
SetsUpAgent ==
  /\ mainAt = "agent"
  /\ mainAt' = "services"
  /\ agentCfg' = [i \in DOMAIN config.entries |->
       LET entry == config.entries[i] IN
       [provider |-> Provider(entry.provider), url |-> entry.url, model |-> entry.model,
        key |-> IF i = 1 THEN PrimaryKey(entry) ELSE FallbackKey(entry)]]
  /\ UNCHANGED <<options, environ, config, said, tgToken, report, alive, opened>>

-----------------------------------------------------------------------------
(* Up and down.                                                            *)

(* The order in which the end of main takes down what is there. *)
TakenDown == <<"mesh", "usage", "recall", "cron", "memory", "skills", "database",
               "request", "session", "config">>

(* Those that write to the database, or hold it. *)
Depositors == {"mesh", "usage", "recall", "cron"}

Wanted ==
  (Range(TakenDown) \ {"database", "request", "session", "config"})
  \ ((IF options.mesh THEN {} ELSE {"mesh"}) \union (IF opened THEN {} ELSE {"recall"}))

(* A part that cannot be brought up is done without; the recall index is   *)
(* not tried without a database.  The configuration and the environment    *)
(* are not looked at again, and are forgotten here.                        *)
BringsUp ==
  /\ mainAt = "services"
  /\ mainAt' = "running"
  /\ \E lost \in {{}} \union {{part} : part \in Wanted} : alive' = (alive \union Wanted) \ lost
  /\ config' = NoConfig /\ said' = NothingSaid /\ environ' = [v \in Variables |-> Unset]
  /\ UNCHANGED <<options, tgToken, agentCfg, report, opened>>

(* A signal, /quit, the end of input, or a mode that cannot begin. *)
Leaves ==
  /\ mainAt = "running"
  /\ mainAt' = "cleanup"
  /\ UNCHANGED <<options, environ, config, said, tgToken, agentCfg, report, alive, opened>>

TakesDown ==
  /\ mainAt = "cleanup" /\ alive # {}
  /\ alive' = alive \ {TakenDown[SelectInSeq(TakenDown, LAMBDA part : part \in alive)]}
  /\ UNCHANGED <<mainAt, options, environ, config, said, tgToken, agentCfg, report, opened>>

Ends ==
  /\ mainAt = "cleanup" /\ alive = {}
  /\ mainAt' = "ended"
  /\ UNCHANGED <<options, environ, config, said, tgToken, agentCfg, report, alive, opened>>

StartNext ==
  \/ ReadsOptions \/ LoadsDotenv \/ LoadsConfig \/ Doctor
  \/ Settles \/ OpensDatabase \/ SetsUpAgent \/ BringsUp \/ Leaves \/ TakesDown \/ Ends

StartSpec == StartInit /\ [][StartNext]_startVars

-----------------------------------------------------------------------------
(* A key, from config.json or from the environment, and a model are used   *)
(* with the provider they are for, at the URL the file has for them,       *)
(* whatever else of the file was lost; the loss of its own URL sends them  *)
(* to the provider's usual one, and a name that is lost or not known sends *)
(* what is for its provider to the first one, but nothing else sends       *)
(* anything astray.  No provider that has a key in the environment is used *)
(* without one.                                                            *)
KeysFit ==
  mainAt = "services" =>
    \A i \in DOMAIN agentCfg :
      LET use == agentCfg[i]
          entry == said[i].entry
          lost == said[i].lost
      IN  /\ Says(use.key) \/ use.model =>
               \/ /\ use.provider = Addressee(entry.provider)
                  /\ Says(use.key) => use.key.for = use.provider
                  /\ use.url # entry.url => "url" \in lost /\ entry.url
               \/ ("provider" \in lost \/ entry.provider = Unheard) /\ use.provider = FirstProvider
          /\ use.provider \in Remote /\ Says(environ[use.provider]) => Says(use.key)

(* --doctor finds a token when a start without --telegram would, and a key *)
(* only if the agent would have one.                                       *)
DoctorRight ==
  mainAt = "reported" =>
    /\ report.token <=> Says(Configured(config.token, TokenVar))
    /\ report.key => Says(PrimaryKey(config.entries[1]))

(* Whatever part could not be brought up, the database closes after        *)
(* everything that writes to it, and nothing is left at the end.           *)
DatabaseOutlives ==
  /\ opened /\ Depositors \intersect alive # {} => "database" \in alive
  /\ mainAt = "ended" => alive = {}

(* A start is right in all three. *)
WellStarted == KeysFit /\ DoctorRight /\ DatabaseOutlives

(* docs/FAQ.md:186: "Environment variables always take precedence over     *)
(* config.json for API keys."                                              *)
EnvironmentPrecedes ==
  mainAt = "services" =>
    \A i \in DOMAIN agentCfg :
      LET use == agentCfg[i] IN
      use.provider \in Remote /\ Says(environ[use.provider]) => use.key = environ[use.provider]
=============================================================================
