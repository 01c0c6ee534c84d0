----------------------------- MODULE SetupProofs -----------------------------
(* What setup, the browser sign-in, the import and the offered tools        *)
(* guarantee for any number of authorizations, addresses, entries, runs and *)
(* providers, and whatever config.yaml and the engine's listings hold.      *)
EXTENDS Setup, ImportProofs, SequenceTheorems

---------------------------------------------------------------------------
(* The browser sign-in. *)

(* No sign-in has begun in this process. *)
NoSignIn ==
  /\ flow = "none" /\ round = 0 /\ stopped = {}
  /\ \A r \in Attempts : listener[r] = "none" /\ reader[r] = "none"

(* A reader reads, and a listener listens, for the attempt that waits, or was *)
(* told to stop; an open listener is closed before the attempt is over.       *)
AttemptInv ==
  /\ flow \in {"waiting", "joining", "exchanging"} => round # 0
  /\ flow = "waiting" => round \notin stopped
  /\ \A r \in Attempts :
       /\ reader[r] = "reading" \/ listener[r] \in {"open", "held"} =>
            r \in stopped \/ (r = round /\ flow = "waiting")
       /\ listener[r] = "open" => r = round /\ flow \in {"waiting", "joining"}
  /\ flow = "in" => signed

BrowserInv == SignInTypeOK /\ AttemptInv /\ StillListening

(* A login begins; then the loop, the listener, the browser and the terminal. *)
Begins ==
  /\ NoSignIn /\ flow' = "authorizing"
  /\ UNCHANGED <<round, listener, reader, stopped, results, taken, signed>>

BrowserMove ==
  \/ SignInStep \/ SignInGone \/ UNCHANGED signIn \/ Begins
  \/ \E r \in Attempts, page \in Pages : Reads(r, page)

LEMMA RoundTypes ==
  ASSUME SignInTypeOK
  PROVE  /\ round \in Nat /\ MaxRounds \in Nat /\ MaxResults \in Nat /\ 0 \notin Attempts
         /\ round # 0 => round \in Attempts
         /\ round < MaxRounds => round + 1 \in Attempts
         /\ \A r \in stopped : r \in Attempts /\ r <= round
BY SignInAssumption DEF SignInTypeOK, Attempts

(* A page adds nothing to the queue, or one address. *)
LEMMA Delivers ==
  ASSUME SignInTypeOK, NEW page \in Pages, Len(results) < MaxResults
  PROVE  /\ results \o Delivered(page) \in Seq(Addresses) /\ Len(results \o Delivered(page)) <= MaxResults
         /\ results \o Delivered(page) = <<>> => results = <<>> /\ Delivered(page) = <<>>
         /\ results \o <<>> = results
<1>1. results \in Seq(Addresses) /\ MaxResults \in Nat
  BY SignInAssumption DEF SignInTypeOK
<1>2. CASE page.kind = "stray"
  <2>1. Delivered(page) = <<>>
    BY <1>2 DEF Delivered
  <2> QED
    BY <1>1, <2>1, ConcatEmptySeq
<1>3. CASE page.kind # "stray"
  <2>1. Delivered(page) = <<page>> /\ page \in Addresses
    BY <1>3 DEF Delivered, Pages, Stray
  <2>2. <<page>> \in Seq(Addresses) /\ Len(<<page>>) = 1 /\ <<page>> # <<>>
    BY <2>1
  <2>3. Len(results) \in Nat
    BY <1>1
  <2> QED
    BY <1>1, <2>1, <2>2, <2>3, ConcatProperties, ConcatEqualIffEmpty, ConcatEmptySeq
<1> QED
  BY <1>2, <1>3

LEMMA BrowserNext == BrowserInv /\ BrowserMove => BrowserInv'
<1> SUFFICES ASSUME BrowserInv, BrowserMove PROVE BrowserInv'
  OBVIOUS
<1>a. SignInTypeOK /\ AttemptInv /\ StillListening
  BY DEF BrowserInv
<1>b. /\ flow \in {"none", "authorizing", "waiting", "joining", "exchanging", "in", "failed"}
      /\ round \in 0..MaxRounds /\ stopped \subseteq 1..round /\ signed \in BOOLEAN
      /\ listener \in [Attempts -> {"none", "open", "held", "closed"}]
      /\ reader \in [Attempts -> {"none", "reading", "over", "gone"}]
      /\ results \in Seq(Addresses) /\ Len(results) <= MaxResults
      /\ taken \in Addresses \cup {Stray, Failure}
  BY <1>a DEF SignInTypeOK
<1>c. /\ round \in Nat /\ MaxRounds \in Nat /\ MaxResults \in Nat /\ 0 \notin Attempts
      /\ round # 0 => round \in Attempts
      /\ round < MaxRounds => round + 1 \in Attempts
      /\ \A r \in stopped : r \in Attempts /\ r <= round
  BY <1>a, RoundTypes
<1>1. CASE Redirect
  <2>1. /\ flow = "authorizing" /\ round < MaxRounds /\ flow' = "waiting" /\ round' = round + 1
        /\ results' = <<>> /\ UNCHANGED <<stopped, taken, signed>>
        /\ reader' = [reader EXCEPT ![round + 1] = "reading"]
        /\ \E l \in {"open", "none"} : listener' = [listener EXCEPT ![round + 1] = l]
    BY <1>1 DEF Redirect
  <2>2. SignInTypeOK'
    BY <1>b, <1>c, <2>1 DEF SignInTypeOK
  <2>3. AttemptInv'
    BY <1>a, <1>b, <1>c, <2>1 DEF AttemptInv
  <2>4. StillListening'
    BY <1>b, <1>c, <2>1 DEF StillListening
  <2> QED
    BY <2>2, <2>3, <2>4 DEF BrowserInv
<1>2. ASSUME NEW r \in Attempts, Silent(r) \/ Serves(r)
      PROVE  BrowserInv'
  <2>1. /\ UNCHANGED <<flow, round, reader, stopped, results, taken, signed>>
        /\ \E l \in {"open", "held", "closed"} :
             /\ listener' = [listener EXCEPT ![r] = l]
             /\ listener[r] \in {"open", "held"}
             /\ l = "open" => r \notin stopped
    BY <1>2 DEF Silent, Serves
  <2>2. SignInTypeOK'
    BY <1>b, <2>1 DEF SignInTypeOK
  <2>3. AttemptInv'
    BY <1>a, <1>b, <2>1 DEF AttemptInv
  <2>4. StillListening'
    BY <1>a, <2>1 DEF StillListening
  <2> QED
    BY <2>2, <2>3, <2>4 DEF BrowserInv
<1>3. ASSUME NEW r \in Attempts, ReadFails(r)
      PROVE  BrowserInv'
  <2>1. /\ UNCHANGED <<flow, round, listener, stopped, results, taken, signed>>
        /\ reader' = [reader EXCEPT ![r] = "gone"]
    BY <1>3 DEF ReadFails
  <2>2. SignInTypeOK'
    BY <1>b, <2>1 DEF SignInTypeOK
  <2>3. AttemptInv'
    BY <1>a, <1>b, <2>1 DEF AttemptInv
  <2>4. StillListening'
    BY <1>a, <1>b, <2>1 DEF StillListening
  <2> QED
    BY <2>2, <2>3, <2>4 DEF BrowserInv
<1>4. ASSUME NEW r \in Attempts, NEW page \in Pages, Arrives(r, page)
      PROVE  BrowserInv'
  <2>1. /\ UNCHANGED <<flow, round, listener, reader, stopped, taken, signed>>
        /\ Len(results) < MaxResults /\ results' \in {results, results \o Delivered(page)}
    BY <1>4 DEF Arrives
  <2>2. SignInTypeOK'
    BY <1>a, <1>b, <2>1, Delivers DEF SignInTypeOK
  <2>3. AttemptInv'
    BY <1>a, <2>1 DEF AttemptInv
  <2>4. StillListening'
    BY <1>a, <2>1, Delivers DEF StillListening
  <2> QED
    BY <2>2, <2>3, <2>4 DEF BrowserInv
<1>5. ASSUME NEW r \in Attempts, NEW page \in Pages, Reads(r, page)
      PROVE  BrowserInv'
  <2>1. /\ UNCHANGED <<flow, round, listener, stopped, taken, signed>>
        /\ reader[r] = "reading" /\ Len(results) < MaxResults
    BY <1>5 DEF Reads
  <2>2. \/ r \in stopped /\ results' = results \o <<>> /\ reader' = [reader EXCEPT ![r] = "over"]
        \/ /\ r \notin stopped /\ results' = results \o Delivered(page)
           /\ \/ Delivered(page) = <<>> /\ reader' = reader
              \/ Delivered(page) # <<>> /\ reader' = [reader EXCEPT ![r] = "over"]
    BY <1>5 DEF Reads
  <2>3. SignInTypeOK'
    BY <1>a, <1>b, <2>1, <2>2, Delivers DEF SignInTypeOK
  <2>4. AttemptInv'
    BY <1>a, <1>b, <2>1, <2>2 DEF AttemptInv
  <2>5. StillListening'
    BY <1>a, <1>b, <1>c, <2>1, <2>2, Delivers DEF StillListening, AttemptInv
  <2> QED
    BY <2>3, <2>4, <2>5 DEF BrowserInv
<1>6. CASE Callback
  <2>1. /\ flow = "waiting" /\ flow' = "joining" /\ stopped' = stopped \cup {round}
        /\ UNCHANGED <<round, listener, reader, signed>>
    BY <1>6 DEF Callback
  <2>2. taken' \in Addresses \cup {Failure} /\ results' \in Seq(Addresses) /\ Len(results') <= MaxResults
    <3>1. CASE results = <<>>
      BY <1>6, <1>b, <3>1 DEF Callback
    <3>2. CASE results # <<>>
      <4>1. Len(results) \in Nat /\ Head(results) \in Addresses /\ Tail(results) \in Seq(Addresses)
            /\ Len(Tail(results)) = Len(results) - 1
        BY <1>b, <3>2, HeadTailProperties
      <4> QED
        BY <1>6, <1>b, <1>c, <3>2, <4>1 DEF Callback
    <3> QED
      BY <3>1, <3>2
  <2>3. round \in 1..round
    BY <1>a, <1>c, <2>1 DEF AttemptInv
  <2>4. SignInTypeOK'
    BY <1>b, <2>1, <2>2, <2>3 DEF SignInTypeOK
  <2>5. AttemptInv'
    BY <1>a, <2>1 DEF AttemptInv
  <2>6. StillListening'
    BY <2>1 DEF StillListening
  <2> QED
    BY <2>4, <2>5, <2>6 DEF BrowserInv
<1>7. CASE Joined
  <2>1. /\ flow = "joining" /\ listener[round] # "open" /\ flow' \in {"exchanging", "failed"}
        /\ UNCHANGED <<round, listener, reader, stopped, results, taken, signed>>
    BY <1>7 DEF Joined
  <2>2. SignInTypeOK'
    BY <1>b, <2>1 DEF SignInTypeOK
  <2>3. AttemptInv'
    BY <1>a, <2>1 DEF AttemptInv
  <2>4. StillListening'
    BY <2>1 DEF StillListening
  <2> QED
    BY <2>2, <2>3, <2>4 DEF BrowserInv
<1>8. CASE Exchange
  <2>1. /\ flow = "exchanging" /\ flow' \in {"in", "failed", "authorizing"}
        /\ signed' \in BOOLEAN /\ (flow' = "in" => signed')
        /\ UNCHANGED <<round, listener, reader, stopped, results, taken>>
    BY <1>8, <1>b DEF Exchange
  <2>2. SignInTypeOK'
    BY <1>b, <2>1 DEF SignInTypeOK
  <2>3. AttemptInv'
    BY <1>a, <2>1 DEF AttemptInv
  <2>4. StillListening'
    BY <2>1 DEF StillListening
  <2> QED
    BY <2>2, <2>3, <2>4 DEF BrowserInv
<1>9. CASE SignInGone
  <2>1. /\ flow' = "none" /\ round' = 0 /\ listener' = [r \in Attempts |-> "none"]
        /\ reader' = [r \in Attempts |-> "none"] /\ stopped' = {} /\ results' = <<>>
        /\ taken' = Stray /\ signed' = signed
    BY <1>9 DEF SignInGone
  <2>2. SignInTypeOK'
    BY <1>b, <1>c, <2>1 DEF SignInTypeOK
  <2>3. AttemptInv' /\ StillListening'
    BY <2>1 DEF AttemptInv, StillListening
  <2> QED
    BY <2>2, <2>3 DEF BrowserInv
<1>10. CASE Begins \/ UNCHANGED signIn
  <2>1. /\ UNCHANGED <<round, listener, reader, stopped, results, taken, signed>>
        /\ UNCHANGED flow \/ (NoSignIn /\ flow' = "authorizing")
    BY <1>10 DEF Begins, signIn
  <2>2. SignInTypeOK'
    BY <1>b, <2>1 DEF SignInTypeOK
  <2>3. AttemptInv' /\ StillListening'
    BY <1>a, <2>1 DEF AttemptInv, StillListening, NoSignIn
  <2> QED
    BY <2>2, <2>3 DEF BrowserInv
<1> QED
  BY <1>1, <1>2, <1>3, <1>4, <1>5, <1>6, <1>7, <1>8, <1>9, <1>10 DEF BrowserMove, SignInStep

LEMMA BrowserInitially == SignInInit => BrowserInv
<1> SUFFICES ASSUME SignInInit PROVE BrowserInv
  OBVIOUS
<1>1. <<>> \in Seq(Addresses) /\ Len(<<>>) = 0
  BY EmptySeq
<1>2. SignInTypeOK
  <2>1. results \in Seq(Addresses) /\ Len(results) <= MaxResults /\ round \in 0..MaxRounds
    BY <1>1, SignInAssumption DEF SignInInit
  <2>2. /\ listener \in [Attempts -> {"none", "open", "held", "closed"}]
        /\ reader \in [Attempts -> {"none", "reading", "over", "gone"}]
    BY DEF SignInInit
  <2> QED
    BY <2>1, <2>2 DEF SignInInit, SignInTypeOK
<1> QED
  BY <1>2 DEF SignInInit, BrowserInv, AttemptInv, StillListening

(* Before a login the sign-in takes no step; around a prompt it keeps what it ended with. *)
LEMMA SignInAtRest ==
  ASSUME SignInStep
  PROVE  ~NoSignIn /\ (flow \in {"none", "in"} => UNCHANGED <<flow, signed>>)
<1>1. flow \in {"none", "in"} =>
        \E r \in Attempts : Silent(r) \/ Serves(r) \/ ReadFails(r) \/ (\E page \in Pages : Arrives(r, page))
  BY DEF SignInStep, Redirect, Callback, Joined, Exchange
<1>2. ASSUME NEW r \in Attempts, Silent(r) \/ Serves(r) \/ ReadFails(r) \/ (\E page \in Pages : Arrives(r, page))
      PROVE  ~NoSignIn /\ UNCHANGED <<flow, signed>>
  BY <1>2 DEF Silent, Serves, ReadFails, Arrives, NoSignIn
<1> QED
  BY <1>1, <1>2 DEF NoSignIn

(* The readers that took their last line after they were told to stop. *)
Over == {r \in stopped : reader[r] = "over"}

LEMMA OverGrows ==
  ASSUME BrowserInv, SignInStep \/ UNCHANGED signIn \/ Begins
  PROVE  Over \subseteq Over'
<1> SUFFICES ASSUME NEW r \in stopped, reader[r] = "over"
             PROVE  r \in stopped' /\ reader'[r] = "over"
  BY DEF Over
<1>a. /\ reader \in [Attempts -> {"none", "reading", "over", "gone"}]
      /\ round \in Nat /\ r \in Attempts /\ r <= round
  BY RoundTypes DEF BrowserInv, SignInTypeOK
<1>1. CASE Redirect
  BY <1>1, <1>a DEF Redirect, Attempts
<1>2. CASE \E s \in Attempts : ReadFails(s)
  BY <1>2, <1>a DEF ReadFails
<1>3. CASE UNCHANGED <<reader, stopped>>
  BY <1>3
<1>4. CASE Callback
  BY <1>4 DEF Callback
<1> QED
  BY <1>1, <1>2, <1>3, <1>4
     DEF SignInStep, Joined, Exchange, Silent, Serves, Arrives, Begins, signIn

---------------------------------------------------------------------------
(* The offered tools. *)

OfferedInv == ToolsTypeOK /\ OfferedIsRouted

(* The states a provider may be in. *)
ProviderStates ==
  [status : {"new", "inert", "refused", "ready"}, frozen : BOOLEAN, cfg : Blocks,
   candidate : SUBSET Snapshot, indexed : SUBSET Snapshot, live : Listings \cup {NoListing}]

LEMMA BlockTypes ==
  /\ DefaultBlock \in Blocks /\ ~DefaultBlock.review
  /\ \A b \in Blocks : b.allow \subseteq Snapshot /\ b.review \in BOOLEAN /\ b.ok \in BOOLEAN
  /\ NewProvider \in ProviderStates
BY DEF Blocks, DefaultBlock, DefaultTools, Snapshot, NewProvider, ProviderStates

LEMMA CandidateTypes ==
  ASSUME ToolsTypeOK, NEW cfg \in Blocks
  PROVE  Candidate(cfg) \in SUBSET Snapshot /\ (~cfg.review => Candidate(cfg) \cap ReviewTools = {})
BY BlockTypes DEF Candidate, Snapshot

LEMMA FrozenTypes ==
  ASSUME ToolsTypeOK, NEW p \in Providers
  PROVE  /\ Frozen(p) \in ProviderStates /\ Frozen(p).frozen
         /\ provider[p].frozen => Frozen(p) = provider[p]
         /\ Frozen(p).candidate \in {provider[p].candidate, Candidate(config.block)}
<1>1. provider[p] \in ProviderStates /\ config.block \in Blocks
  BY DEF ToolsTypeOK, ProviderStates
<1>2. Candidate(config.block) \in SUBSET Snapshot
  BY <1>1, CandidateTypes
<1> QED
  BY <1>1, <1>2 DEF Frozen, ProviderStates

LEMMA SchemasInSnapshot ==
  ASSUME NEW x \in ProviderStates
  PROVE  Schemas(x) \in SUBSET Snapshot
BY DEF Schemas, ProviderStates

(* One provider of the tools steps; the candidate set of any provider stays, *)
(* empties, or is the one the config and the cache give.                     *)
LEMMA ToolsNext ==
  ASSUME OfferedInv, ToolsStep
  PROVE  /\ OfferedInv' /\ config' = config
         /\ \A p \in Providers :
              provider'[p].candidate \in {provider[p].candidate, {}, Candidate(config.block)}
<1>a. /\ config \in [builtin : BOOLEAN, block : Blocks]
      /\ provider \in [Providers -> ProviderStates] /\ cache \in Listings \cup {NoListing}
      /\ \A p \in Providers : provider[p].frozen => Schemas(provider[p]) \subseteq provider[p].indexed
  BY DEF OfferedInv, ToolsTypeOK, OfferedIsRouted, ProviderStates
(* What is left to show of a step: the new state of its provider. *)
<1>b. ASSUME NEW p \in Providers, NEW x \in ProviderStates, provider' = [provider EXCEPT ![p] = x],
             config' = config, cache' \in Listings \cup {NoListing},
             x.frozen => Schemas(x) \subseteq x.indexed,
             x.candidate \in {provider[p].candidate, {}, Candidate(config.block)}
      PROVE  /\ OfferedInv' /\ config' = config
             /\ \A q \in Providers :
                  provider'[q].candidate \in {provider[q].candidate, {}, Candidate(config.block)}
  <2>1. provider' \in [Providers -> ProviderStates] /\ provider'[p] = x
        /\ \A q \in Providers : q # p => provider'[q] = provider[q]
    BY <1>a, <1>b
  <2>2. ToolsTypeOK'
    BY <1>a, <1>b, <2>1 DEF ToolsTypeOK, ProviderStates
  <2>3. ASSUME NEW q \in Providers, provider'[q].frozen
        PROVE  Schemas(provider'[q]) \subseteq provider'[q].indexed
    <3>1. CASE q = p
      BY <1>b, <2>1, <2>3, <3>1
    <3>2. CASE q # p
      BY <1>a, <2>1, <2>3, <3>2
    <3> QED
      BY <3>1, <3>2
  <2>4. OfferedIsRouted'
    BY <2>3 DEF OfferedIsRouted, Schemas
  <2> QED
    BY <1>b, <2>1, <2>2, <2>4 DEF OfferedInv
<1>1. PICK p \in Providers : Index(p) \/ EndSession(p) \/ (\E l \in Listings \cup {NoListing} : Initialize(p, l))
  BY DEF ToolsStep
<1>2. /\ Frozen(p) \in ProviderStates /\ Frozen(p).frozen /\ provider[p] \in ProviderStates
      /\ provider[p].frozen => Frozen(p) = provider[p]
      /\ Frozen(p).candidate \in {provider[p].candidate, Candidate(config.block)}
  BY <1>a, FrozenTypes DEF OfferedInv
<1>3. CASE Index(p)
  <2> DEFINE x == [Frozen(p) EXCEPT !.indexed = Schemas(Frozen(p))]
  <2>1. Schemas(Frozen(p)) \in SUBSET Snapshot
    BY <1>2, SchemasInSnapshot
  <2>2. /\ x \in ProviderStates /\ x.indexed = Schemas(Frozen(p)) /\ x.candidate = Frozen(p).candidate
        /\ x.status = Frozen(p).status /\ x.live = Frozen(p).live
    BY <1>2, <2>1 DEF ProviderStates
  <2>3. Schemas(x) = x.indexed
    BY <2>2 DEF Schemas
  <2> HIDE DEF x
  <2>4. provider' = [provider EXCEPT ![p] = x] /\ config' = config /\ cache' = cache
    BY <1>3 DEF Index, x
  <2> QED
    BY <1>2, <1>a, <1>b, <2>2, <2>3, <2>4
<1>4. CASE EndSession(p)
  <2>1. NewProvider \in ProviderStates /\ ~NewProvider.frozen /\ NewProvider.candidate = {}
    BY BlockTypes DEF NewProvider
  <2> QED
    BY <1>4, <1>a, <1>b, <2>1 DEF EndSession
<1>5. ASSUME NEW l \in Listings \cup {NoListing}, Initialize(p, l)
      PROVE  /\ OfferedInv' /\ config' = config
             /\ \A q \in Providers :
                  provider'[q].candidate \in {provider[q].candidate, {}, Candidate(config.block)}
  <2>1. /\ provider[p].frozen /\ provider[p].status = "new" /\ Frozen(p) = provider[p]
        /\ config' = config /\ cache' \in Listings \cup {NoListing}
    BY <1>5, <1>2, <1>a DEF Initialize
  <2>2. Schemas(provider[p]) = provider[p].candidate /\ provider[p].candidate \subseteq provider[p].indexed
    BY <1>a, <2>1 DEF Schemas
  <2>3. CASE \E status \in {"inert", "refused"} : provider' = [provider EXCEPT ![p] = [Frozen(p) EXCEPT !.status = status]]
    <3>1. PICK status \in {"inert", "refused"} : provider' = [provider EXCEPT ![p] = [Frozen(p) EXCEPT !.status = status]]
      BY <2>3
    <3> DEFINE x == [provider[p] EXCEPT !.status = status]
    <3>2. /\ x \in ProviderStates /\ x.status \in {"inert", "refused"} /\ x.candidate = provider[p].candidate
      BY <1>2 DEF ProviderStates
    <3>3. Schemas(x) = {}
      BY <3>2 DEF Schemas
    <3> HIDE DEF x
    <3>4. provider' = [provider EXCEPT ![p] = x]
      BY <3>1, <2>1 DEF x
    <3> QED
      BY <1>b, <2>1, <3>2, <3>3, <3>4
  <2>4. CASE provider' = [provider EXCEPT ![p] = [Frozen(p) EXCEPT !.status = "ready", !.live = l]]
    <3> DEFINE x == [provider[p] EXCEPT !.status = "ready", !.live = l]
    <3>2. /\ x \in ProviderStates /\ x.status = "ready" /\ x.candidate = provider[p].candidate
          /\ x.indexed = provider[p].indexed
      BY <1>2 DEF ProviderStates
    <3>3. Schemas(x) \subseteq x.candidate
      BY <3>2 DEF Schemas
    <3> HIDE DEF x
    <3>4. provider' = [provider EXCEPT ![p] = x]
      BY <2>4, <2>1 DEF x
    <3> QED
      BY <1>b, <2>1, <2>2, <3>2, <3>3, <3>4
  <2> QED
    BY <1>5, <2>3, <2>4 DEF Initialize
<1> QED
  BY <1>1, <1>3, <1>4, <1>5

---------------------------------------------------------------------------
(* The commands. *)

(* The questions whose answers setup holds already, and those after the credential. *)
Answered == {"secret", "login", "review", "saving", "check", "import"}
Credentialed == {"review", "saving", "check", "import"}

WizardTypes ==
  /\ ask \in {"shell", "deployment", "secret", "login", "review", "check", "import",
              "signing", "saving", "importing"}
  /\ choice \in Blocks \cup {NoChoice} /\ held \in [builtin : BOOLEAN, block : Blocks]
  /\ secret \in BOOLEAN /\ consent \in BOOLEAN /\ agreed \in BOOLEAN /\ scene \in Scenes

(* What setup has behind it at each of its questions; a login begins once. *)
PromptInv ==
  /\ ask \in {"shell", "deployment", "secret", "login"} => NoSignIn
  /\ ask = "shell" => choice = NoChoice
  /\ ask \in Answered => choice # NoChoice /\ choice.ok
  /\ ask = "login" \/ (ask = "signing" /\ choice # NoChoice) => choice.ok /\ choice.auth = "oauth"
  /\ ask \in Credentialed =>
       /\ flow \in {"none", "in"}
       /\ choice.auth = "token" => secret

(* Without the user's yes, dreaming review is nowhere. *)
ConsentInv ==
  ~consent =>
    /\ ~config.block.review /\ ~held.block.review
    /\ choice # NoChoice => ~choice.review
    /\ \A p \in Providers : provider[p].candidate \cap ReviewTools = {}

LinesInv == lost \in Nat /\ lost <= Cardinality(Over)

WizardInv == WizardTypes /\ PromptInv /\ ConsentInv /\ LinesInv

SetupInv == BrowserInv /\ ImportInv /\ OfferedInv /\ WizardInv

LEMMA MergedTypes ==
  ASSUME NEW block \in Blocks, NEW values \in Blocks
  PROVE  /\ Merged(block, values) \in Blocks
         /\ Merged(block, values).ok = values.ok
         /\ Merged(block, values).review = (block.review \/ values.review)
BY DEF Merged, Blocks

(* The steps of setup seen from the browser, the import and the tools. *)
LEMMA PartsNext ==
  ASSUME SetupInv, Next \/ UNCHANGED vars
  PROVE  BrowserInv' /\ ImportInv' /\ OfferedInv'
<1>1. BrowserMove
  <2>1. CASE UNCHANGED signIn \/ SignInStep \/ Exit
    BY <2>1 DEF BrowserMove, Exit
  <2>2. ASSUME NEW yes \in BOOLEAN, AnswerLogin(yes)
        PROVE  BrowserMove
    BY <2>2 DEF AnswerLogin, BrowserMove, Begins, SetupInv, WizardInv, PromptInv, signIn
  <2>3. CASE CliLogin
    BY <2>3 DEF CliLogin, BrowserMove, Begins, SetupInv, WizardInv, PromptInv
  <2>4. ASSUME NEW r \in Attempts, LineTaken(r) \/ (\E page \in Pages : Paste(r, page))
        PROVE  BrowserMove
    <3>1. Stray \in Pages
      BY DEF Pages
    <3> QED
      BY <2>4, <3>1 DEF LineTaken, Paste, BrowserMove
  <2> QED
    BY <2>1, <2>2, <2>3, <2>4
       DEF Next, vars, StartSetup, AnswerSecret, LoginEnds, Save, SkipCheck, Ends, AnswerDeployment,
           AnswerReview, AnswerCheck, AnswerImport, CliImport, PanelSaves
<1>2. ImportMove
  <2>1. CASE UNCHANGED imports \/ ImportStep \/ Exit
    BY <2>1 DEF ImportMove, Exit
  <2>2. ASSUME NEW entries \in SUBSET Entries, AnswerImport(entries) \/ CliImport(entries)
        PROVE  ImportMove
    BY <2>2 DEF AnswerImport, CliImport, ImportMove
  <2> QED
    BY <2>1, <2>2
       DEF Next, vars, StartSetup, AnswerSecret, LoginEnds, Save, SkipCheck, CliLogin, Ends,
           AnswerDeployment, AnswerLogin, AnswerReview, AnswerCheck, LineTaken, Paste, PanelSaves
<1>3. OfferedInv'
  <2>1. ASSUME UNCHANGED <<provider, cache>>, config' \in [builtin : BOOLEAN, block : Blocks]
        PROVE  OfferedInv'
    BY <2>1 DEF SetupInv, OfferedInv, ToolsTypeOK, OfferedIsRouted, Schemas
  <2>a. config \in [builtin : BOOLEAN, block : Blocks]
    BY DEF SetupInv, OfferedInv, ToolsTypeOK
  <2>2. CASE UNCHANGED tools
    BY <2>1, <2>2, <2>a DEF tools
  <2>3. CASE ToolsStep
    BY <2>3, ToolsNext DEF SetupInv
  <2>4. CASE Save
    <3>1. Merged(held.block, choice) \in Blocks
      BY <2>4, MergedTypes DEF Save, SetupInv, WizardInv, WizardTypes, PromptInv, Answered
    <3> QED
      BY <2>1, <2>4, <3>1 DEF Save
  <2>5. ASSUME NEW values \in Blocks0, PanelSaves(values)
        PROVE  OfferedInv'
    <3>1. [values EXCEPT !.review = FALSE] \in Blocks
      BY SetupAssumption DEF Blocks
    <3>2. Merged(config.block, [values EXCEPT !.review = FALSE]) \in Blocks
      BY <2>a, <3>1, MergedTypes
    <3> QED
      BY <2>1, <2>5, <2>a, <3>2 DEF PanelSaves
  <2> QED
    BY <2>2, <2>3, <2>4, <2>5
       DEF Next, vars, StartSetup, AnswerSecret, LoginEnds, SkipCheck, CliLogin, Ends, Exit,
           AnswerDeployment, AnswerLogin, AnswerReview, AnswerCheck, AnswerImport, CliImport,
           LineTaken, Paste
<1> QED
  BY <1>1, <1>2, <1>3, BrowserNext, ImportNext DEF SetupInv

LEMMA WizardTypesNext ==
  ASSUME SetupInv, Next \/ UNCHANGED vars
  PROVE  WizardTypes'
<1>a. /\ WizardTypes /\ PromptInv /\ DefaultBlock \in Blocks
      /\ config \in [builtin : BOOLEAN, block : Blocks]
  BY BlockTypes DEF SetupInv, WizardInv, OfferedInv, ToolsTypeOK
<1>b. choice \in Blocks => AfterCredential \in {"review", "saving"}
  BY DEF AfterCredential
<1>1. CASE UNCHANGED wizard
  BY <1>1, <1>a DEF wizard, past, WizardTypes
<1>2. CASE StartSetup \/ AnswerSecret \/ Save \/ SkipCheck \/ CliLogin
  BY <1>2, <1>a, <1>b DEF StartSetup, AnswerSecret, AfterCredential, Save, SkipCheck, CliLogin, WizardTypes, past
<1>3. CASE Exit
  BY <1>3, <1>a DEF Exit, WizardTypes, past
<1>4. CASE LoginEnds
  BY <1>3, <1>4, <1>a DEF LoginEnds, AfterCredential, WizardTypes, past
<1>5. ASSUME NEW hosted \in BOOLEAN, NEW auth \in {"token", "oauth"}, NEW parses \in BOOLEAN,
             AnswerDeployment(hosted, auth, parses)
      PROVE  WizardTypes'
  <2>1. choice' \in Blocks
    BY <1>5, <1>a DEF AnswerDeployment, Blocks
  <2> QED
    BY <1>5, <1>a, <2>1 DEF AnswerDeployment, Credential, WizardTypes, past
<1>6. ASSUME NEW yes \in BOOLEAN, AnswerLogin(yes) \/ AnswerReview(yes)
      PROVE  WizardTypes'
  <2>1. CASE AnswerLogin(yes)
    BY <1>a, <2>1 DEF AnswerLogin, AfterCredential, WizardTypes, past
  <2>2. CASE AnswerReview(yes)
    <3>1. choice \in Blocks
      BY <1>a, <2>2 DEF AnswerReview, PromptInv, Answered, WizardTypes
    <3>2. [choice EXCEPT !.review = yes] \in Blocks
      BY <3>1 DEF Blocks
    <3> QED
      BY <1>a, <2>2, <3>2 DEF AnswerReview, WizardTypes
  <2> QED
    BY <1>6, <2>1, <2>2
<1>7. ASSUME NEW l, AnswerCheck(l)
      PROVE  WizardTypes'
  BY <1>7, <1>a DEF AnswerCheck, WizardTypes, past
<1>8. ASSUME NEW entries, AnswerImport(entries) \/ CliImport(entries)
      PROVE  WizardTypes'
  BY <1>8, <1>a DEF AnswerImport, CliImport, WizardTypes, past
<1>9. ASSUME NEW r \in Attempts, LineTaken(r)
      PROVE  WizardTypes'
  BY <1>9, <1>a DEF LineTaken, WizardTypes, past
<1> QED
  BY <1>1, <1>2, <1>3, <1>4, <1>5, <1>6, <1>7, <1>8, <1>9 DEF Next, vars, Ends, Paste, PanelSaves

LEMMA PromptsNext ==
  ASSUME SetupInv, Next \/ UNCHANGED vars
  PROVE  PromptInv'
<1>a. WizardTypes /\ PromptInv /\ DefaultBlock \in Blocks /\ NoChoice \notin Blocks
  BY BlockTypes, SetupAssumption DEF SetupInv, WizardInv
<1>1. CASE UNCHANGED <<wizard, signIn>>
  BY <1>1, <1>a DEF wizard, past, signIn, PromptInv, NoSignIn, Answered, Credentialed
<1>2. CASE StartSetup \/ AnswerSecret \/ Save \/ SkipCheck
  <2>1. CASE StartSetup
    BY <1>a, <2>1 DEF StartSetup, PromptInv, NoSignIn, Answered, Credentialed, signIn
  <2>2. CASE AnswerSecret
    BY <1>a, <2>2 DEF AnswerSecret, AfterCredential, PromptInv, NoSignIn, Answered, Credentialed, signIn
  <2>3. CASE Save \/ SkipCheck
    BY <1>a, <2>3 DEF Save, SkipCheck, PromptInv, Answered, Credentialed, signIn, past
  <2> QED
    BY <1>2, <2>1, <2>2, <2>3
<1>3. CASE Exit
  BY <1>3, <1>a DEF Exit, SignInGone, PromptInv, NoSignIn, Answered, Credentialed
<1>4. CASE LoginEnds
  <2>1. CASE /\ ask = "signing" /\ flow = "in" /\ choice # NoChoice /\ ask' = AfterCredential
             /\ UNCHANGED <<choice, held, agreed, lost, past, signIn, imports, tools>>
    BY <1>a, <2>1 DEF AfterCredential, PromptInv, Answered, Credentialed, signIn
  <2> QED
    BY <1>3, <1>4, <2>1 DEF LoginEnds
<1>5. CASE CliLogin
  BY <1>5, <1>a DEF CliLogin, PromptInv, Answered, Credentialed
<1>6. ASSUME NEW hosted \in BOOLEAN, NEW auth \in {"token", "oauth"}, NEW parses \in BOOLEAN,
             AnswerDeployment(hosted, auth, parses)
      PROVE  PromptInv'
  <2>1. choice' \in Blocks /\ choice'.ok /\ choice'.auth = auth
    BY <1>6, <1>a DEF AnswerDeployment, Blocks
  <2> QED
    BY <1>6, <1>a, <2>1
       DEF AnswerDeployment, Credential, PromptInv, NoSignIn, Answered, Credentialed, signIn
<1>7. ASSUME NEW yes \in BOOLEAN, AnswerLogin(yes) \/ AnswerReview(yes)
      PROVE  PromptInv'
  <2>1. CASE AnswerLogin(yes)
    BY <1>a, <2>1 DEF AnswerLogin, AfterCredential, PromptInv, NoSignIn, Answered, Credentialed, past
  <2>2. CASE AnswerReview(yes)
    <3>1. choice \in Blocks /\ choice.ok
      BY <1>a, <2>2 DEF AnswerReview, PromptInv, Answered, WizardTypes
    <3>2. choice' \in Blocks /\ choice'.ok /\ choice'.auth = choice.auth
      BY <2>2, <3>1 DEF AnswerReview, Blocks
    <3> QED
      BY <1>a, <2>2, <3>2 DEF AnswerReview, PromptInv, Answered, Credentialed, signIn
  <2> QED
    BY <1>7, <2>1, <2>2
<1>8. ASSUME NEW l, AnswerCheck(l)
      PROVE  PromptInv'
  BY <1>8, <1>a DEF AnswerCheck, PromptInv, Answered, Credentialed, signIn, past
<1>9. ASSUME NEW entries, AnswerImport(entries) \/ CliImport(entries)
      PROVE  PromptInv'
  BY <1>9, <1>a DEF AnswerImport, CliImport, PromptInv, Answered, Credentialed
<1>10. ASSUME NEW r \in Attempts, LineTaken(r)
       PROVE  PromptInv'
  BY <1>10, <1>a DEF LineTaken, Reads, PromptInv, Answered, Credentialed, past
<1>11. CASE ask = "signing" /\ UNCHANGED wizard
  BY <1>11, <1>a DEF wizard, past, PromptInv, Answered, Credentialed
<1>12. CASE SignInStep /\ UNCHANGED wizard
  <2>1. ask \notin {"shell", "deployment", "secret", "login"}
        /\ (flow \in {"none", "in"} => flow' = flow)
    BY <1>12, <1>a, SignInAtRest DEF PromptInv
  <2> QED
    BY <1>12, <1>a, <2>1 DEF wizard, past, PromptInv, Answered, Credentialed
<1> QED
  BY <1>1, <1>2, <1>3, <1>4, <1>5, <1>6, <1>7, <1>8, <1>9, <1>10, <1>11, <1>12
     DEF Next, vars, Ends, Paste, PanelSaves

LEMMA ConsentNext ==
  ASSUME SetupInv, Next \/ UNCHANGED vars
  PROVE  ConsentInv'
<1>a. /\ WizardTypes /\ PromptInv /\ ConsentInv /\ ToolsTypeOK /\ DefaultBlock \in Blocks
      /\ ~DefaultBlock.review /\ NoChoice \notin Blocks
      /\ config \in [builtin : BOOLEAN, block : Blocks]
  BY BlockTypes, SetupAssumption DEF SetupInv, WizardInv, OfferedInv, ToolsTypeOK
<1>1. CASE UNCHANGED <<wizard, tools>>
  BY <1>1, <1>a DEF wizard, past, tools, ConsentInv
<1>2. CASE UNCHANGED <<choice, held, consent, tools>>
  BY <1>2, <1>a DEF tools, ConsentInv
<1>3. CASE StartSetup
  BY <1>3, <1>a DEF StartSetup, tools, past, ConsentInv
<1>4. CASE Exit
  BY <1>4, <1>a DEF Exit, tools, past, ConsentInv
<1>5. ASSUME NEW hosted \in BOOLEAN, NEW auth \in {"token", "oauth"}, NEW parses \in BOOLEAN,
             AnswerDeployment(hosted, auth, parses)
      PROVE  ConsentInv'
  <2>1. ~choice'.review
    BY <1>5, <1>a DEF AnswerDeployment, Blocks
  <2> QED
    BY <1>5, <1>a, <2>1 DEF AnswerDeployment, tools, past, ConsentInv
<1>6. ASSUME NEW yes \in BOOLEAN, AnswerReview(yes)
      PROVE  ConsentInv'
  <2>1. choice \in Blocks
    BY <1>a, <1>6 DEF AnswerReview, PromptInv, Answered, WizardTypes
  <2>2. choice'.review = yes /\ consent' = (consent \/ yes) /\ UNCHANGED <<held, tools>>
    BY <1>6, <2>1 DEF AnswerReview, Blocks
  <2> QED
    BY <1>a, <2>2 DEF tools, ConsentInv
<1>7. CASE Save
  <2>1. choice \in Blocks /\ held.block \in Blocks /\ choice # NoChoice
    BY <1>a, <1>7 DEF Save, PromptInv, Answered, WizardTypes
  <2>2. /\ config'.block.review = (held.block.review \/ choice.review)
        /\ UNCHANGED <<choice, held, consent, provider>>
    BY <1>7, <2>1, MergedTypes DEF Save, past
  <2> QED
    BY <1>a, <2>1, <2>2 DEF ConsentInv
<1>8. ASSUME NEW values \in Blocks0, PanelSaves(values)
      PROVE  ConsentInv'
  <2>1. [values EXCEPT !.review = FALSE] \in Blocks /\ ~[values EXCEPT !.review = FALSE].review
    BY SetupAssumption DEF Blocks
  <2>2. Merged(config.block, [values EXCEPT !.review = FALSE]).review = config.block.review
    BY <1>a, <2>1, MergedTypes DEF Blocks
  <2>3. config'.block.review = config.block.review /\ UNCHANGED <<choice, held, consent, provider>>
    BY <1>a, <1>8, <2>2 DEF PanelSaves, wizard, past
  <2> QED
    BY <1>a, <2>3 DEF ConsentInv
<1>9. CASE ToolsStep /\ UNCHANGED wizard
  <2>1. config' = config /\ \A p \in Providers :
          provider'[p].candidate \in {provider[p].candidate, {}, Candidate(config.block)}
    BY <1>9, ToolsNext DEF SetupInv
  <2>2. ~config.block.review => Candidate(config.block) \cap ReviewTools = {}
    BY <1>a, CandidateTypes
  <2> QED
    BY <1>a, <1>9, <2>1, <2>2 DEF wizard, past, ConsentInv
<1> QED
  BY <1>1, <1>2, <1>3, <1>4, <1>5, <1>6, <1>7, <1>8, <1>9
     DEF Next, vars, past, AnswerSecret, AnswerLogin, LoginEnds, SkipCheck, CliLogin, Ends, AnswerCheck,
         AnswerImport, CliImport, LineTaken, Paste

LEMMA LinesNext ==
  ASSUME SetupInv, Next \/ UNCHANGED vars
  PROVE  LinesInv'
<1>a. WizardTypes /\ PromptInv /\ LinesInv /\ SignInTypeOK /\ AttemptInv
  BY DEF SetupInv, WizardInv, BrowserInv
<1>b. IsFiniteSet(Over) /\ IsFiniteSet(Over')
  <2>1. SignInTypeOK'
    BY PartsNext DEF BrowserInv
  <2>2. IsFiniteSet(1..MaxRounds)
    BY FS_Interval, SignInAssumption
  <2>3. stopped \in SUBSET (1..MaxRounds)
    BY <1>a, SignInAssumption DEF SignInTypeOK
  <2>4. stopped' \in SUBSET (1..MaxRounds)
    BY <2>1, SignInAssumption DEF SignInTypeOK
  <2>5. Over \in SUBSET (1..MaxRounds) /\ Over' \in SUBSET (1..MaxRounds)
    BY <2>3, <2>4 DEF Over
  <2> QED
    BY <2>2, <2>5, FS_Subset
<1>c. Cardinality(Over) \in Nat /\ Cardinality(Over') \in Nat
  BY <1>b, FS_CardinalityType
<1>1. CASE lost' = lost /\ Over \subseteq Over'
  BY <1>1, <1>a, <1>b, <1>c, FS_Subset DEF LinesInv
<1>2. CASE Exit
  BY <1>2, <1>c DEF Exit, LinesInv
<1>3. ASSUME NEW r \in Attempts, LineTaken(r)
      PROVE  LinesInv'
  <2>1. flow \in {"none", "in"} /\ reader[r] = "reading" /\ lost' = lost + 1
    BY <1>3, <1>a DEF LineTaken, Reads, PromptInv, Credentialed
  <2>2. r \in stopped
    BY <1>a, <2>1 DEF AttemptInv
  <2>3. reader' = [reader EXCEPT ![r] = "over"] /\ stopped' = stopped
    BY <1>3, <2>2 DEF LineTaken, Reads
  <2>4. Over' = Over \cup {r} /\ r \notin Over
    BY <1>a, <2>1, <2>2, <2>3 DEF Over, SignInTypeOK
  <2> QED
    BY <1>a, <1>b, <1>c, <2>1, <2>4, FS_AddElement DEF LinesInv
<1>4. ASSUME NEW r \in Attempts, NEW page \in Pages, Paste(r, page)
      PROVE  lost' = lost /\ Over \subseteq Over'
  BY <1>4, <1>a DEF Paste, Reads, wizard, Over, SignInTypeOK
<1>5. CASE lost' = lost /\ (SignInStep \/ UNCHANGED signIn \/ Begins)
  BY <1>1, <1>5, OverGrows DEF SetupInv
<1>6. CASE CliLogin \/ (\E yes \in BOOLEAN : AnswerLogin(yes))
  <2>1. lost' = lost /\ (UNCHANGED signIn \/ Begins)
    BY <1>6, <1>a DEF CliLogin, AnswerLogin, Begins, PromptInv, signIn
  <2> QED
    BY <1>5, <2>1
<1> QED
  BY <1>1, <1>2, <1>3, <1>4, <1>5, <1>6
     DEF Next, vars, wizard, StartSetup, AnswerSecret, LoginEnds, Save, SkipCheck, Ends, AnswerDeployment,
         AnswerReview, AnswerCheck, AnswerImport, CliImport, PanelSaves

LEMMA SetupInitially == Init => SetupInv
<1> SUFFICES ASSUME Init PROVE SetupInv
  OBVIOUS
<1>1. BrowserInv /\ ImportInv
  BY BrowserInitially, ImportInitially DEF Init
<1>2. config \in [builtin : BOOLEAN, block : Blocks] /\ provider = [p \in Providers |-> NewProvider]
  BY SetupAssumption DEF Init
<1>3. OfferedInv
  <2>1. provider \in [Providers -> ProviderStates]
    BY <1>2, BlockTypes
  <2>2. ~NewProvider.frozen
    BY DEF NewProvider
  <2> QED
    BY <1>2, <2>1, <2>2 DEF Init, OfferedInv, ToolsTypeOK, OfferedIsRouted, ProviderStates
<1>4. WizardTypes
  <2>1. config.block.review \in BOOLEAN
    BY <1>2, BlockTypes
  <2> QED
    BY <1>2, <2>1 DEF Init, WizardTypes
<1>5. PromptInv
  BY DEF Init, SignInInit, PromptInv, NoSignIn, Answered, Credentialed
<1>6. ConsentInv
  <2>1. NewProvider.candidate = {}
    BY DEF NewProvider
  <2> QED
    BY <1>2, <2>1 DEF Init, ConsentInv
<1>7. LinesInv
  <2>1. Over = {}
    BY DEF Init, SignInInit, Over
  <2> QED
    BY <2>1, FS_EmptySet DEF Init, LinesInv
<1> QED
  BY <1>1, <1>3, <1>4, <1>5, <1>6, <1>7 DEF SetupInv, WizardInv

---------------------------------------------------------------------------
(* The invariant of setup: for every number of authorizations, addresses,   *)
(* entries, batches, runs and providers, every config.yaml and listing.     *)
THEOREM SetupKeeps == Spec => []SetupInv
<1>1. SetupInv /\ [Next]_vars => SetupInv'
  BY PartsNext, WizardTypesNext, PromptsNext, ConsentNext, LinesNext DEF SetupInv, WizardInv
<1> QED
  BY <1>1, SetupInitially, PTL DEF Spec

(* Every state of the commands, the sign-in, the import and the sessions is *)
(* well formed (wizard.py, cli.py, auth.py, provider.py).                   *)
THEOREM SetupTypes == Spec => []TypeOK
<1>1. SetupInv => TypeOK
  BY DEF SetupInv, BrowserInv, ImportInv, OfferedInv, WizardInv, WizardTypes, TypeOK, past
<1> QED
  BY <1>1, SetupKeeps, PTL

(* A login that waits can still be answered: the reader of its own          *)
(* authorization reads and was not told to stop (_SignInAttempt).           *)
THEOREM SignInAnswerable == Spec => []StillListening
<1>1. SetupInv => StillListening
  BY DEF SetupInv, BrowserInv
<1> QED
  BY <1>1, SetupKeeps, PTL

(* Between authorizations and after a login no listener waits for a         *)
(* redirect, and one that a connection holds was told to stop (shutdown).   *)
THEOREM PortIsReleased == Spec => []PortReleased
<1>1. SetupInv => PortReleased
  BY DEF SetupInv, BrowserInv, AttemptInv, PortReleased
<1> QED
  BY <1>1, SetupKeeps, PTL

(* However often the import runs, fails or lands late, no entry is proposed *)
(* twice (import_builtin, proposals_body).                                  *)
THEOREM ImportIdempotent == Spec => []ProposedOnce
<1>1. SetupInv => ProposedOnce
  BY DEF SetupInv, ImportInv
<1> QED
  BY <1>1, SetupKeeps, PTL

(* A reported import left nothing out, and every closed run accounts for    *)
(* its entries and for what it added (import_builtin's totals).             *)
THEOREM ImportAccounted == Spec => []ImportComplete
<1>1. SetupInv => ImportComplete
  BY DEF SetupInv, ImportInv
<1> QED
  BY <1>1, SetupKeeps, PTL

(* Hermes routes every tool a provider offers, whatever changed between the *)
(* index and initialize (get_tool_schemas).                                 *)
THEOREM ToolsRouted == Spec => []OfferedIsRouted
<1>1. SetupInv => OfferedIsRouted
  BY DEF SetupInv, OfferedInv
<1> QED
  BY <1>1, SetupKeeps, PTL

(* Setup writes config.yaml with its credential step behind it (post_setup). *)
THEOREM CredentialStored == Spec => []CredentialFirst
<1>1. SetupInv => CredentialFirst
  BY DEF SetupInv, BrowserInv, AttemptInv, WizardInv, PromptInv, Credentialed, CredentialFirst
<1> QED
  BY <1>1, SetupKeeps, PTL

(* No review tool reaches the engine without the user's yes (write_section, *)
(* candidate_tools, handle_tool_call).                                      *)
THEOREM ReviewNeedsConsent == Spec => []ReviewConsented
<1>1. SetupInv => ReviewConsented
  BY DEF SetupInv, WizardInv, ConsentInv, ReviewConsented, Callable
<1> QED
  BY <1>1, SetupKeeps, PTL

(* The readers of an ended sign-in take one line each, at most, from the    *)
(* prompts that follow (_read_pastes).                                      *)
THEOREM LinesBounded == Spec => []OneLineEach
<1>1. SetupInv => OneLineEach
  <2> SUFFICES ASSUME SetupInv PROVE OneLineEach
    OBVIOUS
  <2>a. SignInTypeOK
    BY DEF SetupInv, BrowserInv
  <2>1. stopped \in SUBSET (1..MaxRounds)
    BY <2>a, RoundTypes DEF Attempts
  <2>b. IsFiniteSet(1..MaxRounds)
    BY FS_Interval, SignInAssumption
  <2>2. IsFiniteSet(stopped)
    BY <2>1, <2>b, FS_Subset
  <2>3. Over \in SUBSET stopped
    BY DEF Over
  <2>4. Cardinality(Over) <= Cardinality(stopped) /\ Cardinality(Over) \in Nat /\ Cardinality(stopped) \in Nat
    BY <2>2, <2>3, FS_Subset, FS_CardinalityType
  <2> QED
    BY <2>4 DEF SetupInv, WizardInv, LinesInv, OneLineEach
<1> QED
  BY <1>1, SetupKeeps, PTL

(* The step that turns the built-in store off leaves a base_url and an auth *)
(* that parse (post_setup).                                                 *)
THEOREM ConfigWhole == Spec => NeverHalfWritten
<1>1. SetupInv /\ [Next]_vars => [config.builtin /\ ~config'.builtin => config'.block.ok]_vars
  <2> SUFFICES ASSUME SetupInv, Next, config.builtin, ~config'.builtin
               PROVE  config'.block.ok
    OBVIOUS
  <2>a. config \in [builtin : BOOLEAN, block : Blocks]
    BY DEF SetupInv, OfferedInv, ToolsTypeOK
  <2>1. CASE config' = config
    BY <2>1
  <2>2. CASE ToolsStep
    BY <2>1, <2>2, ToolsNext DEF SetupInv
  <2>3. CASE Save
    <3>1. choice \in Blocks /\ choice.ok /\ held.block \in Blocks
      BY <2>3 DEF Save, SetupInv, WizardInv, WizardTypes, PromptInv, Answered
    <3> QED
      BY <2>3, <3>1, MergedTypes DEF Save
  <2>4. ASSUME NEW values, PanelSaves(values)
        PROVE  config'.block.ok
    BY <2>a, <2>4 DEF PanelSaves
  <2> QED
    BY <2>1, <2>2, <2>3, <2>4
       DEF Next, tools, StartSetup, AnswerSecret, LoginEnds, SkipCheck, CliLogin, Ends, Exit,
           AnswerDeployment, AnswerLogin, AnswerReview, AnswerCheck, AnswerImport, CliImport,
           LineTaken, Paste
<1> QED
  BY <1>1, SetupKeeps, PTL DEF Spec, NeverHalfWritten
============================================================================
