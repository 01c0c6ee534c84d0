------------------------------- MODULE Setup -------------------------------
(* hermes memory setup lumberroom (wizard.py: post_setup) and the commands  *)
(* hermes lumberroom login, status and import-builtin (cli.py), which run   *)
(* the browser sign-in and the import at one terminal, next to Hermes       *)
(* sessions of the same profile and the dashboard panel.                    *)
(*                                                                          *)
(* A prompt is a value of ask; the line the user types goes to the prompt   *)
(* or to a reader an ended sign-in left blocked on the same terminal. A     *)
(* command is a process: when it ends its threads and its listener end too. *)
(* The deployment and credential questions are one prompt, and a command    *)
(* can be interrupted wherever it waits. Outside the plugin: Hermes, whose  *)
(* save_config replaces config.yaml in one step.                            *)
EXTENDS SignIn, Import, Tools

CONSTANTS
  NoChoice,
  Blocks0      \* the blocks config.yaml may hold before the first command

ASSUME SetupAssumption == Blocks0 \subseteq Blocks /\ NoChoice \notin Blocks

VARIABLES
  ask,        \* "shell" between commands, a prompt ("deployment", "secret", "login",
              \* "review", "check", "import"), or "signing", "saving", "importing"
  choice,     \* the block setup will write, NoChoice under the other commands
  held,       \* the config dict Hermes handed to setup
  secret,     \* .env holds the token setup asked for
  agreed,     \* history: the live check of this setup printed what status prints
  consent,    \* history: the user asked for dreaming review
  lost,       \* history: lines typed at a prompt that a reader took
  scene       \* bound: what happens next to the prompts, see Scenes

past == <<secret, consent, scene>>
wizard == <<ask, choice, held, agreed, lost, past>>
vars == <<wizard, signIn, imports, tools>>

(* A sign-in, an import and the sessions of a profile share nothing but     *)
(* config.yaml, which setup writes when neither of the first two is under   *)
(* way: one behaviour has sign-ins, or imports, or sessions and the panel,  *)
(* which alone look at dreaming_review.                                     *)
Scenes == {"sign-in", "import", "sessions"}

Init ==
  /\ SignInInit /\ ImportInit
  /\ config \in [builtin : BOOLEAN, block : Blocks0]
  /\ provider = [p \in Providers |-> NewProvider] /\ cache = NoListing
  /\ ask = "shell" /\ choice = NoChoice /\ held = config /\ secret = FALSE
  /\ agreed = TRUE /\ consent = config.block.review /\ lost = 0
  /\ scene \in Scenes /\ (consent => scene = "sessions")

---------------------------------------------------------------------------
(* post_setup starts with the config Hermes loaded. (Bound: after an import *)
(* only imports follow.)                                                    *)
StartSetup ==
  /\ ask = "shell" /\ run = 0
  /\ ask' = "deployment" /\ held' = config /\ choice' = DefaultBlock
  /\ UNCHANGED <<agreed, lost, past, signIn, imports, tools>>

(* The questions before the review: the credential of the chosen mode. *)
Credential(auth) == IF auth = "token" THEN "secret" ELSE "login"

(* Only the hosted path asks about dreaming review. *)
AfterCredential == IF choice.hosted THEN "review" ELSE "saving"

(* Mutant: the answers go on unparsed. *)
AnswerDeploymentUnparsed(hosted, auth, parses) ==
  /\ ask = "deployment" /\ (hosted => parses)
  /\ choice' = [DefaultBlock EXCEPT !.ok = parses, !.hosted = hosted, !.auth = auth]
  /\ ask' = Credential(auth)
  /\ UNCHANGED <<held, agreed, lost, past, signIn, imports, tools>>

(* The deployment, and the credential or the URL and mode; answers that do  *)
(* not parse are asked for again.                                           *)
AnswerDeployment(hosted, auth, parses) ==
  /\ ask = "deployment" /\ (hosted => parses) /\ parses
  /\ choice' = [DefaultBlock EXCEPT !.ok = parses, !.hosted = hosted, !.auth = auth]
  /\ ask' = Credential(auth)
  /\ UNCHANGED <<held, agreed, lost, past, signIn, imports, tools>>

(* save_env_value, before config.yaml is written. *)
AnswerSecret ==
  /\ ask = "secret" /\ secret' = TRUE /\ ask' = AfterCredential
  /\ UNCHANGED <<choice, held, agreed, lost, consent, scene, signIn, imports, tools>>

AnswerLogin(yes) ==
  /\ ask = "login" /\ (yes => scene = "sign-in")
  /\ IF yes THEN ask' = "signing" /\ flow' = "authorizing"
     ELSE ask' = AfterCredential /\ flow' = flow
  /\ UNCHANGED <<choice, held, agreed, lost, past, round, listener, reader, stopped,
                 results, taken, signed, imports, tools>>

(* The process of the command ends. *)
Exit ==
  /\ ask' = "shell" /\ choice' = NoChoice /\ agreed' = TRUE /\ lost' = 0
  /\ held' = config /\ SignInGone /\ ImportGone
  /\ UNCHANGED <<past, tools>>

(* Mutant: setup takes a failed login for a declined one. *)
LoginEndsAnyway ==
  /\ ask = "signing" /\ flow \in {"in", "failed"}
  /\ \/ /\ choice # NoChoice /\ ask' = AfterCredential
        /\ UNCHANGED <<choice, held, agreed, lost, past, signIn, imports, tools>>
     \/ choice = NoChoice /\ Exit

(* login returned, or LoginFailed went through post_setup to Hermes. *)
LoginEnds ==
  /\ ask = "signing"
  /\ \/ /\ flow = "in" /\ choice # NoChoice /\ ask' = AfterCredential
        /\ UNCHANGED <<choice, held, agreed, lost, past, signIn, imports, tools>>
     \/ (flow = "failed" \/ (flow = "in" /\ choice = NoChoice)) /\ Exit

AnswerReview(yes) ==
  /\ ask = "review" /\ (yes => scene = "sessions") /\ ask' = "saving"
  /\ choice' = [choice EXCEPT !.review = yes] /\ consent' = (consent \/ yes)
  /\ UNCHANGED <<held, agreed, lost, secret, scene, signIn, imports, tools>>

(* Mutant: the answer to the review question is not looked at. *)
MergedAlways(block, values) ==
  [block EXCEPT !.ok = values.ok, !.hosted = values.hosted, !.auth = values.auth, !.review = TRUE]

(* write_section: a key that is not written keeps what it held, and         *)
(* dreaming_review is written only for a yes.  `ok` is about base_url and   *)
(* auth alone, which are always written; a kept key may not parse either.   *)
Merged(block, values) ==
  [block EXCEPT !.ok = values.ok, !.hosted = values.hosted, !.auth = values.auth,
                !.review = @ \/ values.review]

(* apply_builtin_off and the one save_config, of the dict held all along. *)
Save ==
  /\ ask = "saving" /\ ask' = "check"
  /\ config' = [builtin |-> FALSE, block |-> Merged(held.block, choice)]
  /\ UNCHANGED <<choice, held, agreed, lost, past, signIn, imports, provider, cache>>

(* run_live_check: one tools/list, and the lines it prints. *)
LiveCheck(cfg, answer) ==
  [hosted |-> cfg.hosted, auth |-> cfg.auth, builtin |-> config.builtin,
   credential |-> IF cfg.auth = "token" THEN secret ELSE signed,
   reachable |-> answer # NoListing, review |-> ReviewStatus(cfg, answer)]

(* The live check of setup goes by the config parsed from its first answers, *)
(* which carries nothing else of the block; status, by the block it wrote.   *)
AnswerCheck(answer) ==
  /\ ask = "check" /\ ask' = "import"
  /\ agreed' = (LiveCheck([DefaultBlock EXCEPT !.hosted = choice.hosted, !.auth = choice.auth],
                          answer)
                = LiveCheck(Merged(held.block, choice), answer))
  /\ UNCHANGED <<choice, held, lost, past, signIn, imports, tools>>

SkipCheck ==
  /\ ask = "check" /\ ask' = "import"
  /\ UNCHANGED <<choice, held, agreed, lost, past, signIn, imports, tools>>

(* The import question, asked when the files hold entries; what is imported *)
(* is what the files hold when import_builtin reads them again.             *)
AnswerImport(entries) ==
  /\ ask = "import" /\ scene = "import" /\ ask' = "importing" /\ ReadEntries(entries)
  /\ UNCHANGED <<choice, held, agreed, lost, past, signIn, tools>>

(* import-builtin, stopped by a base_url or auth that does not parse. *)
CliImport(entries) ==
  /\ ask = "shell" /\ config.block.ok /\ scene = "import"
  /\ ask' = "importing" /\ ReadEntries(entries)
  /\ UNCHANGED <<choice, held, agreed, lost, past, signIn, tools>>

(* login, refused in token mode. *)
CliLogin ==
  /\ ask = "shell" /\ config.block.ok /\ config.block.auth = "oauth"
  /\ scene = "sign-in"
  /\ ask' = "signing" /\ flow' = "authorizing"
  /\ UNCHANGED <<choice, held, agreed, lost, past, round, listener, reader, stopped,
                 results, taken, signed, imports, tools>>

(* The command is over: the import was reported or failed, or the last      *)
(* question was answered no, or the user interrupts it.                     *)
Ends == ask # "shell" /\ Exit

(* A line typed while the sign-in waits is for a reader; one typed at a     *)
(* prompt, where only readers of ended attempts are left, is not.           *)
Paste(r, page) ==
  /\ ask = "signing" /\ Reads(r, page)
  /\ UNCHANGED <<wizard, imports, tools>>

LineTaken(r) ==
  /\ ask \in {"review", "check", "import"} /\ Reads(r, Stray) /\ lost' = lost + 1
  /\ UNCHANGED <<ask, choice, held, agreed, past, imports, tools>>

(* save_values: the panel's base_url and auth go in, parsed or not. *)
PanelSaves(values) ==
  /\ scene = "sessions"
  /\ config' = [config EXCEPT !.block = Merged(@, [values EXCEPT !.review = FALSE])]
  /\ UNCHANGED <<wizard, signIn, imports, provider, cache>>

Next ==
  \/ StartSetup \/ AnswerSecret \/ LoginEnds \/ Save \/ SkipCheck \/ CliLogin \/ Ends
  \/ \E hosted \in BOOLEAN, auth \in {"token", "oauth"}, parses \in BOOLEAN :
       AnswerDeployment(hosted, auth, parses)
  \/ \E yes \in BOOLEAN : AnswerLogin(yes) \/ AnswerReview(yes)
  \/ \E l \in Listings \cup {NoListing} : AnswerCheck(l)
  \/ \E entries \in SUBSET Entries : AnswerImport(entries) \/ CliImport(entries)
  \/ \E r \in Attempts : LineTaken(r) \/ (\E page \in Pages : Paste(r, page))
  \/ \E values \in Blocks0 : PanelSaves(values)
  \/ SignInStep /\ UNCHANGED <<wizard, imports, tools>>
  \/ ImportStep /\ UNCHANGED <<wizard, signIn, tools>>
  \/ ToolsStep /\ scene = "sessions" /\ UNCHANGED <<wizard, signIn, imports>>

Spec == Init /\ [][Next]_vars

---------------------------------------------------------------------------
TypeOK ==
  /\ SignInTypeOK /\ ImportTypeOK /\ ToolsTypeOK
  /\ ask \in {"shell", "deployment", "secret", "login", "review", "check", "import",
              "signing", "saving", "importing"}
  /\ choice \in Blocks \cup {NoChoice} /\ past \in BOOLEAN \X BOOLEAN \X Scenes /\ agreed \in BOOLEAN

(* The step that turns the built-in store off leaves a base_url and an auth *)
(* that parse, whatever was answered, interrupted or saved by the panel     *)
(* meanwhile ("a bad URL or auth mode must never leave the profile          *)
(* half-written").                                                          *)
NeverHalfWritten ==
  [][config.builtin /\ ~config'.builtin => config'.block.ok]_vars

(* Setup writes config.yaml only with its credential step behind it: the    *)
(* token is in .env, or the login succeeded or was declined.                *)
CredentialFirst ==
  ask \in {"check", "import"} =>
    IF choice.auth = "token" THEN secret ELSE flow \in {"none", "in"} /\ (flow = "in" => signed)

(* A review tool reaches the engine only after the user asked for dreaming  *)
(* review, whatever tools the allowlist names, the cache holds or the       *)
(* engine lists.                                                            *)
ReviewConsented ==
  \A p \in Providers : Callable(p) \cap ReviewTools # {} => consent

(* A sign-in that is over takes no more than one line from the prompts that *)
(* follow, for each of its readers.                                         *)
OneLineEach == lost <= Cardinality(stopped)

(* The live check of setup says what status says ("so the two never drift"). *)
ChecksAgree == agreed

---------------------------------------------------------------------------
(* The loop and the listener run, and the engine answers or times out;      *)
(* nothing is asked of the user, the browser or a silent connection.        *)
SignInFairness ==
  /\ WF_vars(Redirect /\ UNCHANGED <<wizard, imports, tools>>)
  /\ WF_vars(Callback /\ UNCHANGED <<wizard, imports, tools>>)
  /\ WF_vars(Joined /\ UNCHANGED <<wizard, imports, tools>>)
  /\ WF_vars(Exchange /\ UNCHANGED <<wizard, imports, tools>>)
  /\ WF_vars((\E r \in Attempts : Serves(r)) /\ UNCHANGED <<wizard, imports, tools>>)
  /\ WF_vars(LoginEnds)

FairSpec == Spec /\ SignInFairness

(* A login that started ends, with a pair or with a failure.                *)
LoginSettles == ask = "signing" ~> ask # "signing"
============================================================================
