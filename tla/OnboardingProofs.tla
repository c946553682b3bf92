-------------------------- MODULE OnboardingProofs --------------------------
(***************************************************************************)
(* A gateway keeps its identity, the server and the commands share it,     *)
(* what info prints of it belongs together, and the transaction that add   *)
(* prints is priced right, for any processes, key files, keys, pieces,     *)
(* gateways and chain variables a validator may report.                    *)
(***************************************************************************)
EXTENDS Onboarding, ListProofs

(***************************************************************************)
(* The key files                                                           *)
(***************************************************************************)
TypeOK ==
  /\ files \in [Files -> Keys \cup {"absent", "torn"}]
  /\ loader \in [Processes -> [at : {"idle", "read", "generated", "writing", "failed"},
                               file : Files \cup {None}, key : Keys \cup {None}]]
  /\ held \in [Processes -> [Files -> Keys \cup {None}]]
  /\ \A p \in Processes : loader[p].at # "idle" => loader[p].file \in Files
  /\ \A p \in Processes : loader[p].at \in {"generated", "writing"} => loader[p].key \in Keys

\* Without an overlap, a file that a process is generating a key for has no key
\* yet and is its alone: nothing anyone holds is overwritten.
Alone ==
  ~overlap => \A p \in Processes, f \in Files :
    Generating(p, f) =>
      /\ files[f] \notin Keys
      /\ \A q \in Processes : Generating(q, f) => q = p

KeysInv == TypeOK /\ Alone /\ HeldIsSaved

LEMMA KeysInit == KeyfileInit => KeysInv
BY KeyfileAssumption
DEF KeyfileInit, KeysInv, TypeOK, Alone, HeldIsSaved, Generating, Idle

\* What anyone does keeps the types.
LEMMA TypeStep ==
  ASSUME TypeOK, [KeyfileNext]_keyfile_vars
  PROVE  TypeOK'
<1> USE DEF TypeOK
<1>1. CASE UNCHANGED keyfile_vars
  BY <1>1 DEF keyfile_vars
<1>2. ASSUME NEW p \in Processes, NEW f \in Files, Load(p, f)
      PROVE  TypeOK'
  BY <1>2 DEF Load, Idle
<1>3. ASSUME NEW p \in Processes, LoadStep(p)
      PROVE  TypeOK'
  <2>1. CASE Found(p)
    BY <2>1 DEF Found, Idle
  <2>2. CASE Generate(p)
    BY <2>2 DEF Generate
  <2>3. CASE LoadError(p)
    BY <2>3 DEF LoadError, At
  <2>4. CASE Create(p)
    BY <2>4 DEF Create, At
  <2>5. CASE Write(p)
    BY <2>5 DEF Write, Idle
  <2>6. CASE SaveError(p)
    <3>1. loader[p].file \in Files
      BY <2>6 DEF SaveError
    <3>2. files' \in [Files -> Keys \cup {"absent", "torn"}]
      BY <2>6, <3>1 DEF SaveError
    <3> QED
      BY <2>6, <3>1, <3>2 DEF SaveError, At
  <2> QED
    BY <1>3, <2>1, <2>2, <2>3, <2>4, <2>5, <2>6 DEF LoadStep
<1>4. ASSUME NEW p \in Processes, Recover(p)
      PROVE  TypeOK'
  BY <1>4 DEF Recover, Idle
<1>5. ASSUME NEW p \in Processes, Exit(p)
      PROVE  TypeOK'
  BY <1>5 DEF Exit, Idle
<1> QED
  BY <1>1, <1>2, <1>3, <1>4, <1>5 DEF KeyfileNext

\* A step of p that only moves p on, not into generating, and leaves the files.
LEMMA Quiet ==
  ASSUME KeysInv, NEW p \in Processes, UNCHANGED <<files, overlap>>,
         \A q \in Processes, f \in Files : Generating(q, f)' => Generating(q, f),
         \A q \in Processes, f \in Files : held'[q][f] \in {None, held[q][f], files[f]}
  PROVE  Alone' /\ HeldIsSaved'
BY DEF KeysInv, Alone, HeldIsSaved

\* Any step keeps the rest.
LEMMA KeysStep ==
  ASSUME KeysInv, [KeyfileNext]_keyfile_vars
  PROVE  KeysInv'
<1> USE DEF KeysInv
<1>1. TypeOK'
  BY TypeStep
<1>2. CASE UNCHANGED keyfile_vars
  BY <1>1, <1>2 DEF keyfile_vars, Alone, HeldIsSaved, Generating
<1>3. ASSUME NEW p \in Processes, NEW f \in Files, Load(p, f)
      PROVE  Alone' /\ HeldIsSaved'
  BY <1>3, Quiet DEF Load, Idle, Generating, TypeOK
<1>4. ASSUME NEW p \in Processes, LoadStep(p)
      PROVE  Alone' /\ HeldIsSaved'
  <2> DEFINE f == loader[p].file
  <2>1. CASE Found(p)
    BY <2>1, Quiet DEF Found, Idle, Generating, TypeOK
  <2>2. CASE Generate(p)
    <3>1. f \in Files
      BY <2>2 DEF Generate, TypeOK
    <3>2. ASSUME ~overlap'
          PROVE  /\ ~overlap
                 /\ \A q \in Processes \ {p} : ~Generating(q, f)
      BY Zenon, <2>2, <3>2 DEF Generate
    <3>3. \A q \in Processes \ {p}, g \in Files : Generating(q, g)' <=> Generating(q, g)
      BY <2>2 DEF Generate, Generating, TypeOK
    <3>4. \A g \in Files : Generating(p, g)' => g = f
      BY <2>2 DEF Generate, Generating, TypeOK
    <3>5. files' = files /\ held' = held /\ files[f] = "absent"
      BY <2>2 DEF Generate
    <3>6. Alone'
      BY <3>1, <3>2, <3>3, <3>4, <3>5, KeyfileAssumption DEF Alone
    <3>7. HeldIsSaved'
      BY <3>2, <3>5 DEF HeldIsSaved
    <3> QED
      BY <3>6, <3>7
  <2>3. CASE LoadError(p)
    BY <2>3, Quiet DEF LoadError, At, Generating, TypeOK
  <2>4. CASE Create(p)
    <3>1. f \in Files /\ Generating(p, f)
      BY <2>4 DEF Create, TypeOK, Generating
    <3>2. \A q \in Processes, g \in Files : Generating(q, g)' <=> Generating(q, g)
      BY <2>4 DEF Create, At, Generating, TypeOK
    <3>3. \A g \in Files : files'[g] = IF g = f THEN "torn" ELSE files[g]
      BY <2>4, <3>1 DEF Create, TypeOK
    <3>4. UNCHANGED <<held, overlap>>
      BY <2>4 DEF Create
    <3>5. Alone'
      BY <3>1, <3>2, <3>3, <3>4, KeyfileAssumption DEF Alone
    <3>6. ~overlap => \A q \in Processes : held[q][f] = None
      BY <3>1 DEF Alone, HeldIsSaved, TypeOK
    <3>7. HeldIsSaved'
      BY <3>3, <3>4, <3>6 DEF HeldIsSaved
    <3> QED
      BY <3>5, <3>7
  <2>5. CASE Write(p)
    <3>1. f \in Files /\ Generating(p, f)
      BY <2>5 DEF Write, TypeOK, Generating
    <3>2. \A q \in Processes, g \in Files : Generating(q, g)' => Generating(q, g) /\ q # p
      BY <2>5 DEF Write, Idle, Generating, TypeOK
    <3>3. \A g \in Files : g # f => files'[g] = files[g]
      BY <2>5, <3>1 DEF Write, TypeOK
    <3>4. \A q \in Processes, g \in Files :
            held'[q][g] = IF q = p /\ g = f THEN files'[f] ELSE held[q][g]
      BY <2>5, <3>1 DEF Write, TypeOK
    <3>5. UNCHANGED overlap
      BY <2>5 DEF Write
    <3>6. Alone'
      BY <3>1, <3>2, <3>3, <3>5 DEF Alone
    <3>7. ~overlap => \A q \in Processes : held[q][f] = None
      BY <3>1 DEF Alone, HeldIsSaved, TypeOK
    <3>8. HeldIsSaved'
      BY <3>3, <3>4, <3>5, <3>7 DEF HeldIsSaved
    <3> QED
      BY <3>6, <3>8
  <2>6. CASE SaveError(p)
    <3>1. f \in Files /\ Generating(p, f)
      BY <2>6 DEF SaveError, TypeOK, Generating
    <3>2. \A q \in Processes, g \in Files : Generating(q, g)' => Generating(q, g)
      BY <2>6 DEF SaveError, At, Generating, TypeOK
    <3>3. \A g \in Files : files'[g] = files[g] \/ (g = f /\ files'[g] = "torn")
      BY <2>6, <3>1 DEF SaveError, TypeOK
    <3>4. UNCHANGED <<held, overlap>>
      BY <2>6 DEF SaveError
    <3>5. Alone'
      BY <3>1, <3>2, <3>3, <3>4, KeyfileAssumption DEF Alone
    <3>6. ~overlap => \A q \in Processes : held[q][f] = None
      BY <3>1 DEF Alone, HeldIsSaved, TypeOK
    <3>7. HeldIsSaved'
      BY <3>3, <3>4, <3>6 DEF HeldIsSaved
    <3> QED
      BY <3>5, <3>7
  <2> QED
    BY <1>4, <2>1, <2>2, <2>3, <2>4, <2>5, <2>6 DEF LoadStep
<1>5. ASSUME NEW p \in Processes, Recover(p)
      PROVE  Alone' /\ HeldIsSaved'
  BY <1>5, Quiet DEF Recover, Idle, Generating, TypeOK
<1>6. ASSUME NEW p \in Processes, Exit(p)
      PROVE  Alone' /\ HeldIsSaved'
  BY <1>6, Quiet DEF Exit, Idle, Generating, TypeOK
<1> QED
  BY <1>1, <1>2, <1>3, <1>4, <1>5, <1>6 DEF KeyfileNext

\* However many processes load, generate, save, fail and die, the key of a
\* process is the one in its file, unless two generated one at the same time.
THEOREM FileKeepsKey == KeyfileSpec => []HeldIsSaved
<1>1. KeysInv /\ [KeyfileNext]_keyfile_vars => KeysInv'
  BY KeysStep
<1>2. KeysInv => HeldIsSaved
  BY DEF KeysInv
<1> QED
  BY KeysInit, <1>1, <1>2, PTL DEF KeyfileSpec

\* An abandoned file is left as it is by every step.
LEMMA TornStep ==
  ASSUME TypeOK, [KeyfileNext]_keyfile_vars
  PROVE  TornStays
<1> SUFFICES ASSUME NEW f \in Files, Abandoned(f)
             PROVE  /\ Abandoned(f)'
                    /\ \A p \in Processes : held'[p][f] \in {None, held[p][f]}
  BY DEF TornStays
<1> USE DEF TypeOK
<1>1. files[f] \notin Keys /\ files[f] # "absent"
  BY KeyfileAssumption DEF Abandoned
<1>2. \A p \in Processes : loader[p].at \in {"generated", "writing"} => loader[p].file # f
  BY DEF Abandoned, Generating
<1>3. CASE UNCHANGED keyfile_vars
  BY <1>3 DEF keyfile_vars, Abandoned, Generating
<1>4. ASSUME NEW p \in Processes, NEW g \in Files, Load(p, g)
      PROVE  Abandoned(f)' /\ held' = held
  BY <1>4 DEF Load, Abandoned, Generating
<1>5. ASSUME NEW p \in Processes, LoadStep(p)
      PROVE  /\ Abandoned(f)'
             /\ \A q \in Processes : held'[q][f] \in {None, held[q][f]}
  <2>1. CASE Found(p)
    BY <2>1, <1>1 DEF Found, Idle, Abandoned, Generating
  <2>2. CASE Generate(p)
    BY <2>2, <1>1 DEF Generate, Abandoned, Generating
  <2>3. CASE LoadError(p)
    BY <2>3 DEF LoadError, At, Abandoned, Generating
  <2>4. CASE Create(p)
    BY <2>4, <1>2 DEF Create, At, Abandoned, Generating
  <2>5. CASE Write(p)
    BY <2>5, <1>2 DEF Write, Idle, Abandoned, Generating
  <2>6. CASE SaveError(p)
    BY <2>6, <1>2 DEF SaveError, At, Abandoned, Generating
  <2> QED
    BY <1>5, <2>1, <2>2, <2>3, <2>4, <2>5, <2>6 DEF LoadStep
<1>6. ASSUME NEW p \in Processes, Recover(p)
      PROVE  Abandoned(f)' /\ held' = held
  BY <1>6 DEF Recover, Idle, Abandoned, Generating
<1>7. ASSUME NEW p \in Processes, Exit(p)
      PROVE  /\ Abandoned(f)'
             /\ \A q \in Processes : held'[q][f] \in {None, held[q][f]}
  BY <1>7 DEF Exit, Idle, Abandoned, Generating
<1> QED
  BY <1>3, <1>4, <1>5, <1>6, <1>7 DEF KeyfileNext, keyfile_vars

\* A half-written key file is final: no process replaces it or gets a key from
\* it, so the gateway does not come up with a second identity.
THEOREM FileStaysTorn == KeyfileSpec => TornFileStays
<1>1. TypeOK /\ [KeyfileNext]_keyfile_vars => TypeOK'
  BY TypeStep
<1>2. KeyfileInit => TypeOK
  BY KeysInit DEF KeysInv
<1>3. TypeOK /\ [KeyfileNext]_keyfile_vars => [TornStays]_keyfile_vars
  BY TornStep
<1> QED
  BY <1>1, <1>2, <1>3, PTL DEF KeyfileSpec, TornFileStays

(***************************************************************************)
(* The server and the commands use the key files as KeyfileSpec says       *)
(***************************************************************************)
SettingOK ==
  /\ pc \in [Processes -> {"off", "settings", "onboarding", "serving", "asking", "printed"}]
  /\ setting \in Files \cup {None}
  /\ pc[Server] = "onboarding" => setting \in Files

LEMMA SettingStep ==
  ASSUME SettingOK, [Next]_vars
  PROVE  SettingOK'
<1> USE OnboardingAssumption DEF SettingOK
<1>1. ASSUME NEW p \in Processes, NEW label \in {"off", "settings", "serving", "asking", "printed"},
             Goto(p, label), UNCHANGED setting
      PROVE  SettingOK'
  BY <1>1 DEF Goto
<1>2. ASSUME NEW p \in Processes, Start(p) \/ Stop(p) \/ Run(p) \/ Printed(p)
      PROVE  SettingOK'
  BY <1>1, <1>2 DEF Start, Stop, Run, Printed, api_vars
<1>3. CASE NoOnboardingKey \/ OnboardingKey \/ OnboardingKeyError
  BY <1>1, <1>3 DEF NoOnboardingKey, OnboardingKey, OnboardingKeyError, Serve
<1>4. CASE LoadOnboardingKey
  BY <1>4 DEF LoadOnboardingKey, Goto, api_vars
<1>5. ASSUME NEW p \in Processes, Loads(p) \/ AskKeys(p) \/ AskHeight(p) \/ Add(p)
      PROVE  UNCHANGED <<pc, setting>>
  BY <1>5 DEF Loads, AskKeys, AskHeight, Add, api_vars
<1>6. CASE UNCHANGED vars \/ Reconnect
  BY <1>6 DEF vars, api_vars, Reconnect
<1> QED
  BY <1>2, <1>3, <1>4, <1>5, <1>6 DEF Next

LEMMA NextIsKeyfileNext ==
  ASSUME SettingOK, [Next]_vars
  PROVE  [KeyfileNext]_keyfile_vars
<1>1. ASSUME NEW p \in Processes, Start(p) \/ Loads(p) \/ Stop(p)
      PROVE  KeyfileNext
  BY <1>1, OnboardingAssumption DEF Start, Loads, Stop, KeyfileNext
<1>2. CASE LoadOnboardingKey \/ OnboardingKeyError
  BY <1>2, OnboardingAssumption DEF LoadOnboardingKey, OnboardingKeyError, KeyfileNext, SettingOK
<1>3. CASE NoOnboardingKey \/ OnboardingKey \/ Reconnect
  BY <1>3 DEF NoOnboardingKey, OnboardingKey, Reconnect
<1>4. ASSUME NEW p \in Processes, Run(p) \/ AskKeys(p) \/ AskHeight(p) \/ Add(p) \/ Printed(p)
      PROVE  UNCHANGED keyfile_vars
  BY <1>4 DEF Run, AskKeys, AskHeight, Add, Printed
<1>5. CASE UNCHANGED vars
  BY <1>5 DEF vars
<1> QED
  BY <1>1, <1>2, <1>3, <1>4, <1>5 DEF Next

LEMMA SpecIsKeyfileSpec == Spec => KeyfileSpec
<1>1. Init => SettingOK /\ KeyfileInit
  BY OnboardingAssumption DEF Init, SettingOK
<1>2. SettingOK /\ [Next]_vars => SettingOK'
  BY SettingStep
<1>3. SettingOK /\ [Next]_vars => [KeyfileNext]_keyfile_vars
  BY NextIsKeyfileNext
<1> QED
  BY <1>1, <1>2, <1>3, PTL DEF Spec, KeyfileSpec

\* However many processes load, generate, save, fail and die, the key a process
\* works with is the one in its file, unless two generated one at the same time.
THEOREM GatewayKeepsIdentity == Spec => []HeldIsSaved
BY FileKeepsKey, SpecIsKeyfileSpec, PTL

\* A half-written key file is final: no process replaces it or gets a key from
\* it, so the gateway does not come up with a second identity.
THEOREM TornFileIsFinal == Spec => TornFileStays
BY FileStaysTorn, SpecIsKeyfileSpec, PTL

(***************************************************************************)
(* What info prints.  A command is told what its cache holds, and an entry *)
(* of the cache, once there, is kept; what is put there are the two keys   *)
(* of a run of the server, and the URI and the height of one gateway.      *)
(***************************************************************************)
Statuses == {[uri |-> uri, height |-> Height[uri]] : uri \in DOMAIN Height}

Answers ==
  Keys \cup {None} \cup DOMAIN Height \cup {Height[uri] : uri \in DOMAIN Height}
    \cup {[reply |-> reply, key |-> key, txn |-> add_gateway(mode, reply)] :
            reply \in Replies, key \in Keys \cup {None}, mode \in Modes}

Told_Pieces == {"key", "name", "onboarding", "uri", "height"} \cup Modes

\* The server's key and onboarding key, while it serves, are a pair it has
\* advertised: no key is loaded any more.
ServerInv ==
  /\ onboarding \in Keys \cup {None}
  /\ gateway \in DOMAIN Height
  /\ advertised \subseteq Keys \X (Keys \cup {None})
  /\ \A p \in Processes : pc[p] = "off" => loader[p] = Idle /\ held[p]["keypair"] = None
  /\ \A p \in Processes : pc[p] = "settings" => loader[p] = Idle \/ held[p]["keypair"] = None
  /\ pc[Server] = "onboarding" => held[Server]["keypair"] \in Keys
  /\ pc[Server] = "serving" =>
       loader[Server] = Idle /\ <<held[Server]["keypair"], onboarding>> \in advertised

ToldFromCache(p) ==
  \A i \in DOMAIN info[p] :
    /\ info[p][i][1] \in {"key", "name"} =>
         cache[p].public_keys # None /\ info[p][i][2] = cache[p].public_keys[1]
    /\ info[p][i][1] = "onboarding" =>
         cache[p].public_keys # None /\ info[p][i][2] = cache[p].public_keys[2]
    /\ info[p][i][1] = "uri" =>
         cache[p].height # None /\ info[p][i][2] = cache[p].height.uri
    /\ info[p][i][1] = "height" =>
         cache[p].height # None /\ info[p][i][2] = cache[p].height.height

CommandInv ==
  /\ cache \in [Processes -> [public_keys : advertised \cup {None}, height : Statuses \cup {None}]]
  /\ info \in [Processes -> Seq(Told_Pieces \X Answers)]
  /\ \A p \in Processes : ToldFromCache(p)

InfoInv == TypeOK /\ SettingOK /\ ServerInv /\ CommandInv

LEMMA InfoInit == Init => InfoInv
<1> SUFFICES ASSUME Init PROVE InfoInv
  OBVIOUS
<1>1. TypeOK
  BY KeysInit DEF Init, KeysInv
<1>2. SettingOK
  BY OnboardingAssumption DEF Init, SettingOK
<1>3. ServerInv
  BY OnboardingAssumption DEF Init, KeyfileInit, ServerInv
<1>4. CommandInv
  BY DEF Init, CommandInv, ToldFromCache, EmptyCache
<1> QED
  BY <1>1, <1>2, <1>3, <1>4 DEF InfoInv

LEMMA InfoConsequence == InfoInv => InfoConsistent
<1> SUFFICES ASSUME InfoInv,
                    NEW p \in Processes, NEW i \in DOMAIN info[p], NEW j \in DOMAIN info[p]
             PROVE  /\ info[p][i][1] \in {"key", "name"} /\ info[p][j][1] \in {"key", "name"} =>
                         info[p][i][2] = info[p][j][2]
                    /\ info[p][i][1] \in {"key", "name"} /\ info[p][j][1] \in {"onboarding"} =>
                         <<info[p][i][2], info[p][j][2]>> \in advertised
                    /\ info[p][i][1] \in {"uri"} /\ info[p][j][1] \in {"height"} =>
                         info[p][j][2] = Height[info[p][i][2]]
  BY DEF InfoConsistent
<1> USE DEF InfoInv, CommandInv, ToldFromCache
<1>1. info[p][i][1] \in {"key", "name"} /\ info[p][j][1] \in {"key", "name"} =>
        info[p][i][2] = info[p][j][2]
  OBVIOUS
<1>2. ASSUME info[p][i][1] \in {"key", "name"}, info[p][j][1] \in {"onboarding"}
      PROVE  <<info[p][i][2], info[p][j][2]>> \in advertised
  <2>1. cache[p].public_keys \in advertised
    BY <1>2
  <2>2. cache[p].public_keys = <<cache[p].public_keys[1], cache[p].public_keys[2]>>
    BY <2>1 DEF ServerInv
  <2> QED
    BY Zenon, <1>2, <2>1, <2>2
<1>3. ASSUME info[p][i][1] \in {"uri"}, info[p][j][1] \in {"height"}
      PROVE  info[p][j][2] = Height[info[p][i][2]]
  <2>1. cache[p].height \in Statuses
    BY <1>3
  <2> QED
    BY <1>3, <2>1 DEF Statuses
<1> QED
  BY <1>1, <1>2, <1>3

\* A step of the key files changes nothing of a process that is idle, and gives
\* a process that loads one a key or nothing.
LEMMA LoadStepOfOne ==
  ASSUME TypeOK, NEW p \in Processes, LoadStep(p)
  PROVE  /\ loader[p] # Idle
         /\ \A q \in Processes \ {p} : loader'[q] = loader[q] /\ held'[q] = held[q]
         /\ loader'[p] = Idle \/ held'[p] = held[p]
         /\ \A f \in Files : held'[p][f] = held[p][f] \/ held'[p][f] \in Keys
<1> USE DEF TypeOK
<1>1. CASE Found(p)
  BY <1>1 DEF Found, Idle
<1>2. CASE Generate(p)
  BY <1>2 DEF Generate, Idle
<1>3. CASE LoadError(p)
  BY <1>3 DEF LoadError, At, Idle
<1>4. CASE Create(p)
  BY <1>4 DEF Create, At, Idle
<1>5. CASE Write(p)
  BY <1>5 DEF Write, Idle
<1>6. CASE SaveError(p)
  BY <1>6 DEF SaveError, At, Idle
<1> QED
  BY <1>1, <1>2, <1>3, <1>4, <1>5, <1>6 DEF LoadStep

LEMMA ServerStep ==
  ASSUME InfoInv, [Next]_vars
  PROVE  ServerInv'
<1> USE OnboardingAssumption DEF InfoInv, SettingOK
<1>1. ASSUME UNCHANGED <<keyfile_vars, onboarding, advertised, pc>>, gateway' \in DOMAIN Height
      PROVE  ServerInv'
  BY <1>1 DEF ServerInv, keyfile_vars
<1>2. CASE UNCHANGED vars \/ Reconnect
  BY <1>1, <1>2 DEF vars, api_vars, Reconnect, ServerInv
<1>3. ASSUME NEW p \in Processes, AskKeys(p) \/ AskHeight(p) \/ Add(p)
      PROVE  ServerInv'
  BY <1>1, <1>3 DEF AskKeys, AskHeight, Add, api_vars, ServerInv
<1>4. ASSUME NEW p \in Processes, Run(p) \/ Printed(p)
      PROVE  ServerInv'
  <2>1. /\ UNCHANGED <<keyfile_vars, api_vars>>
        /\ \A q \in Processes : pc'[q] # pc[q] => pc'[q] \in {"asking", "printed"}
    BY <1>4 DEF Run, Printed, Goto
  <2> QED
    BY <2>1 DEF api_vars, ServerInv, keyfile_vars
<1>5. ASSUME NEW p \in Processes, Start(p)
      PROVE  ServerInv'
  BY <1>5 DEF Start, Load, Goto, api_vars, ServerInv, TypeOK
<1>6. ASSUME NEW p \in Processes, Loads(p)
      PROVE  ServerInv'
  <2>1. /\ UNCHANGED <<pc, onboarding, gateway, advertised>>
        /\ loader[p] # Idle
        /\ \A q \in Processes \ {p} : loader'[q] = loader[q] /\ held'[q] = held[q]
        /\ loader'[p] = Idle \/ held'[p] = held[p]
        /\ held'[p]["keypair"] = held[p]["keypair"] \/ held'[p]["keypair"] \in Keys
    BY <1>6, LoadStepOfOne DEF Loads, api_vars
  <2>2. \A q \in Processes : q # p => loader'[q] = loader[q] /\ held'[q] = held[q]
    BY <2>1
  <2>3. \A q \in Processes :
          /\ pc'[q] = "off" => loader'[q] = Idle /\ held'[q]["keypair"] = None
          /\ pc'[q] = "settings" => loader'[q] = Idle \/ held'[q]["keypair"] = None
    BY <2>1, <2>2 DEF ServerInv
  <2>4. pc'[Server] = "onboarding" => held'[Server]["keypair"] \in Keys
    BY <2>1, <2>2 DEF ServerInv
  <2>5. pc'[Server] = "serving" =>
          loader'[Server] = Idle /\ <<held'[Server]["keypair"], onboarding'>> \in advertised'
    BY <2>1, <2>2 DEF ServerInv
  <2> QED
    BY <2>1, <2>3, <2>4, <2>5 DEF ServerInv
<1>7. ASSUME NEW p \in Processes, Stop(p)
      PROVE  ServerInv'
  BY Zenon, <1>7 DEF Stop, Exit, Goto, ServerInv, TypeOK
<1>8. CASE NoOnboardingKey
  BY <1>8 DEF NoOnboardingKey, Serve, Goto, ServerInv, TypeOK, keyfile_vars
<1>9. CASE LoadOnboardingKey
  BY <1>9 DEF LoadOnboardingKey, Load, Goto, api_vars, ServerInv, TypeOK
<1>10. CASE OnboardingKey
  BY <1>10 DEF OnboardingKey, Serve, Goto, ServerInv, TypeOK, keyfile_vars
<1>11. CASE OnboardingKeyError
  BY <1>11 DEF OnboardingKeyError, Recover, Serve, Goto, ServerInv, TypeOK
<1> QED
  BY <1>2, <1>3, <1>4, <1>5, <1>6, <1>7, <1>8, <1>9, <1>10, <1>11 DEF Next

LEMMA AnswerKinds ==
  /\ \A key \in Keys \cup {None} : key \in Answers
  /\ \A uri \in DOMAIN Height : uri \in Answers /\ Height[uri] \in Answers
BY DEF Answers

LEMMA CommandStep ==
  ASSUME InfoInv, [Next]_vars
  PROVE  CommandInv'
<1> USE DEF InfoInv
<1>1. ASSUME UNCHANGED <<cache, info>>, advertised \subseteq advertised'
      PROVE  CommandInv'
  BY <1>1 DEF CommandInv, ToldFromCache
<1>2. CASE UNCHANGED vars \/ Reconnect \/ LoadOnboardingKey
  BY <1>1, <1>2 DEF vars, commands, api_vars, Reconnect, LoadOnboardingKey
<1>3. CASE NoOnboardingKey \/ OnboardingKey \/ OnboardingKeyError
  BY <1>1, <1>3 DEF NoOnboardingKey, OnboardingKey, OnboardingKeyError, Serve, commands
<1>4. ASSUME NEW p \in Processes, Start(p) \/ Loads(p) \/ Run(p) \/ Printed(p)
      PROVE  CommandInv'
  BY <1>1, <1>4 DEF Start, Loads, Run, Printed, commands, api_vars
<1>5. ASSUME NEW p \in Processes, Stop(p)
      PROVE  CommandInv'
  <2>1. /\ cache' = [cache EXCEPT ![p] = EmptyCache] /\ info' = [info EXCEPT ![p] = <<>>]
        /\ advertised' = advertised
    BY <1>5 DEF Stop
  <2>2. cache' \in [Processes -> [public_keys : advertised' \cup {None},
                                 height : Statuses \cup {None}]]
    BY <2>1 DEF EmptyCache, CommandInv
  <2>3. info' \in [Processes -> Seq(Told_Pieces \X Answers)]
    BY <2>1 DEF CommandInv
  <2>4. ToldFromCache(p)'
    BY <2>1 DEF CommandInv, ToldFromCache
  <2>5. ASSUME NEW q \in Processes \ {p}
        PROVE  ToldFromCache(q)'
    <3>1. info'[q] = info[q] /\ cache'[q] = cache[q] /\ ToldFromCache(q)
      BY <2>1 DEF CommandInv
    <3> QED
      BY <3>1 DEF ToldFromCache
  <2> QED
    BY <2>2, <2>3, <2>4, <2>5 DEF CommandInv
\* p is told the answer, which agrees with its new cache, and its cache keeps
\* what it had.
<1>6. ASSUME NEW p \in Processes, NEW answer \in Answers, NEW c,
             c \in [public_keys : advertised \cup {None}, height : Statuses \cup {None}],
             cache[p].public_keys \in {None, c.public_keys},
             cache[p].height \in {None, c.height},
             cache' = [cache EXCEPT ![p] = c],
             Head(todo[p]) \in Told_Pieces,
             Told(p, answer),
             advertised' = advertised,
             Head(todo[p]) \in {"key", "name"} =>
               c.public_keys # None /\ answer = c.public_keys[1],
             Head(todo[p]) = "onboarding" =>
               c.public_keys # None /\ answer = c.public_keys[2],
             Head(todo[p]) = "uri" => c.height # None /\ answer = c.height.uri,
             Head(todo[p]) = "height" => c.height # None /\ answer = c.height.height
      PROVE  CommandInv'
  <2> USE DEF CommandInv
  <2> DEFINE entry == <<Head(todo[p]), answer>>
  <2>1. entry \in Told_Pieces \X Answers /\ entry[1] = Head(todo[p]) /\ entry[2] = answer
    BY <1>6
  <2>2. info'[p] = Append(info[p], entry) /\ \A q \in Processes \ {p} : info'[q] = info[q]
    BY <1>6 DEF Told
  <2>3. info' \in [Processes -> Seq(Told_Pieces \X Answers)]
    <3>1. Append(info[p], entry) \in Seq(Told_Pieces \X Answers)
      <4> HIDE DEF entry
      <4> QED
        BY <2>1
    <3>2. info' = [info EXCEPT ![p] = Append(info[p], entry)]
      BY <1>6 DEF Told
    <3> HIDE DEF entry
    <3> QED
      BY <3>1, <3>2
  <2>4. cache'[p] = c /\ \A q \in Processes \ {p} : cache'[q] = cache[q]
    BY <1>6
  <2>5. ASSUME NEW q \in Processes \ {p}
        PROVE  ToldFromCache(q)'
    <3>1. info'[q] = info[q] /\ cache'[q] = cache[q] /\ ToldFromCache(q)
      BY <2>2, <2>4
    <3> QED
      BY <3>1 DEF ToldFromCache
  <2>6. ToldFromCache(p)'
    <3> SUFFICES ASSUME NEW i \in DOMAIN info'[p]
                 PROVE  /\ info'[p][i][1] \in {"key", "name"} =>
                             c.public_keys # None /\ info'[p][i][2] = c.public_keys[1]
                        /\ info'[p][i][1] = "onboarding" =>
                             c.public_keys # None /\ info'[p][i][2] = c.public_keys[2]
                        /\ info'[p][i][1] = "uri" =>
                             c.height # None /\ info'[p][i][2] = c.height.uri
                        /\ info'[p][i][1] = "height" =>
                             c.height # None /\ info'[p][i][2] = c.height.height
      BY <2>4 DEF ToldFromCache
    <3> HIDE DEF entry
    <3>1. (i \in DOMAIN info[p] /\ info'[p][i] = info[p][i]) \/ info'[p][i] = entry
      BY <2>1, <2>2
    <3>2. CASE i \in DOMAIN info[p] /\ info'[p][i] = info[p][i]
      <4>1. ToldFromCache(p)
        OBVIOUS
      <4>2. /\ cache[p].public_keys # None => c.public_keys = cache[p].public_keys
            /\ cache[p].height # None => c.height = cache[p].height
        BY <1>6
      <4> QED
        BY <3>2, <4>1, <4>2 DEF ToldFromCache
    <3>3. CASE info'[p][i] = entry
      BY <1>6, <2>1, <3>3
    <3> QED
      BY <3>1, <3>2, <3>3
  <2>7. cache' \in [Processes -> [public_keys : advertised' \cup {None},
                                 height : Statuses \cup {None}]]
    BY <1>6
  <2> QED
    BY <2>3, <2>5, <2>6, <2>7
<1>7. ASSUME NEW p \in Processes, AskKeys(p)
      PROVE  CommandInv'
  <2> DEFINE keys == IF cache[p].public_keys # None THEN cache[p].public_keys
                     ELSE <<held[Server]["keypair"], onboarding>>
             c == [cache[p] EXCEPT !.public_keys = keys]
             answer == keys[IF Head(todo[p]) = "onboarding" THEN 2 ELSE 1]
  <2>1. Head(todo[p]) \in {"key", "onboarding", "name"}
    BY <1>7 DEF AskKeys, Asks
  <2>2. keys \in advertised /\ keys # None
    BY <1>7, OnboardingAssumption DEF AskKeys, Cached, ServerInv, CommandInv
  <2>3. keys \in Keys \X (Keys \cup {None})
    BY <2>2 DEF ServerInv
  <2>4. cache' = [cache EXCEPT ![p] = c]
    BY <1>7 DEF AskKeys, Cached, CommandInv
  <2>5. Told(p, answer) /\ advertised' = advertised
    BY <1>7, <2>4 DEF AskKeys, api_vars, CommandInv
  <2>6. answer \in Answers
    <3>1. answer \in Keys \cup {None}
      BY <2>3
    <3> QED
      BY <3>1, AnswerKinds
  <2>7. c \in [public_keys : advertised \cup {None}, height : Statuses \cup {None}]
    BY Zenon, <2>2 DEF CommandInv
  <2>8. c.public_keys = keys /\ c.height = cache[p].height
    BY DEF CommandInv
  <2> HIDE DEF c
  <2>9. cache[p].public_keys \in {None, c.public_keys}
    BY <2>8
  <2> HIDE DEF keys
  <2>10. Head(todo[p]) \in Told_Pieces
    BY <2>1 DEF Told_Pieces
  <2>11. /\ Head(todo[p]) \in {"key", "name"} => answer = c.public_keys[1]
         /\ Head(todo[p]) = "onboarding" => answer = c.public_keys[2]
    BY <2>8
  <2> HIDE DEF answer
  <2> QED
    BY Zenon, <1>6, <2>1, <2>2, <2>4, <2>5, <2>6, <2>7, <2>8, <2>9, <2>10, <2>11
<1>8. ASSUME NEW p \in Processes, AskHeight(p)
      PROVE  CommandInv'
  <2> DEFINE status == IF cache[p].height # None THEN cache[p].height
                       ELSE [uri |-> gateway, height |-> Height[gateway]]
             c == [cache[p] EXCEPT !.height = status]
             answer == status[Head(todo[p])]
  <2>1. Head(todo[p]) \in {"uri", "height"}
    BY <1>8 DEF AskHeight, Asks
  <2>2. status \in Statuses
    BY DEF ServerInv, CommandInv, Statuses
  <2>3. status # None
    BY Zenon, <2>2, OnboardingAssumption DEF Statuses
  <2>4. cache' = [cache EXCEPT ![p] = c]
    BY <1>8 DEF AskHeight, Cached, CommandInv
  <2>5. Told(p, answer) /\ advertised' = advertised
    BY <1>8, <2>4 DEF AskHeight, api_vars, CommandInv
  <2>6. answer \in Answers
    <3>1. PICK uri \in DOMAIN Height : status = [uri |-> uri, height |-> Height[uri]]
      BY <2>2 DEF Statuses
    <3> HIDE DEF status
    <3>2. answer = uri \/ answer = Height[uri]
      BY <2>1, <3>1
    <3> QED
      BY <3>2, AnswerKinds
  <2>7. c \in [public_keys : advertised \cup {None}, height : Statuses \cup {None}]
    BY Zenon, <2>2 DEF CommandInv
  <2>8. c.height = status /\ c.public_keys = cache[p].public_keys
    BY DEF CommandInv
  <2> HIDE DEF c
  <2>9. cache[p].height \in {None, c.height}
    BY <2>8
  <2> HIDE DEF status
  <2>10. Head(todo[p]) \in Told_Pieces
    BY <2>1 DEF Told_Pieces
  <2>11. /\ Head(todo[p]) = "uri" => answer = c.height.uri
         /\ Head(todo[p]) = "height" => answer = c.height.height
    BY <2>8
  <2> HIDE DEF answer
  <2> QED
    BY Zenon, <1>6, <2>1, <2>3, <2>4, <2>5, <2>6, <2>7, <2>8, <2>9, <2>10, <2>11
<1>9. ASSUME NEW p \in Processes, Add(p)
      PROVE  CommandInv'
  <2>1. Head(todo[p]) \in Modes
    BY <1>9 DEF Add, Asks
  <2>2. PICK reply \in Replies :
          Told(p, [reply |-> reply, key |-> held[Server]["keypair"],
                   txn |-> add_gateway(Head(todo[p]), reply)])
    BY <1>9 DEF Add
  <2> DEFINE answer == [reply |-> reply, key |-> held[Server]["keypair"],
                        txn |-> add_gateway(Head(todo[p]), reply)]
  <2>3. held[Server]["keypair"] \in Keys \cup {None}
    BY OnboardingAssumption DEF TypeOK
  <2>4. answer \in Answers
    <3>1. \E r \in Replies, key \in Keys \cup {None}, mode \in Modes :
            answer = [reply |-> r, key |-> key, txn |-> add_gateway(mode, r)]
      BY <2>1, <2>3
    <3> HIDE DEF answer
    <3> QED
      BY <3>1, SMT DEF Answers
  <2>5. cache' = cache /\ advertised' = advertised
    BY <1>9 DEF Add, api_vars
  <2>6. Told(p, answer)
    BY <2>2
  <2> HIDE DEF answer
  <2>7. Head(todo[p]) \in Told_Pieces
    BY <2>1 DEF Told_Pieces
  <2>8. Head(todo[p]) \notin {"key", "name", "onboarding", "uri", "height"}
    BY <2>1 DEF Modes, StakingFeeKey
  <2>9. /\ cache' = [cache EXCEPT ![p] = cache[p]]
        /\ cache[p] \in [public_keys : advertised \cup {None}, height : Statuses \cup {None}]
    BY <2>5 DEF CommandInv
  <2> QED
    BY Zenon, <1>6, <2>4, <2>5, <2>6, <2>7, <2>8, <2>9
<1> QED
  BY <1>2, <1>3, <1>4, <1>5, <1>7, <1>8, <1>9 DEF Next

\* What info and key info print belongs together, for any list of pieces, and
\* however often the server starts again and the dispatcher moves to another
\* gateway while they are being asked for.
THEOREM InfoBelongsTogether == Spec => []InfoConsistent
<1>1. InfoInv /\ [Next]_vars => InfoInv'
  BY TypeStep, SettingStep, NextIsKeyfileNext, ServerStep, CommandStep DEF InfoInv
<1> QED
  BY InfoInit, InfoConsequence, <1>1, PTL DEF Spec

(***************************************************************************)
(* The fee for a size                                                      *)
(***************************************************************************)
LEMMA ModSmall ==
  ASSUME NEW a \in Nat, NEW b \in Nat, a < b
  PROVE  a % b = a
OBVIOUS

LEMMA TimesMonotone ==
  ASSUME NEW a \in Nat, NEW b \in Nat, NEW c \in Nat, a <= b
  PROVE  a * c \in Nat /\ a * c <= b * c
OBVIOUS

\* The fee pays for every unit of 24 bytes (of one without txn_fees) that a
\* transaction of any size begins, and for no more, as long as the price of the
\* single bytes fits a u64: the rounding of get_txn_fee, for all multipliers.
THEOREM FeePaysForSize ==
  ASSUME NEW config, config.txn_fees \in BOOLEAN, config.txn_fee_multiplier \in Nat,
         NEW size \in Nat \ {0}, size * config.txn_fee_multiplier < U64
  PROVE  LET unit == IF config.txn_fees THEN 24 ELSE 1
         IN \E n \in 1..size :
              /\ get_txn_fee(config, size) = n * config.txn_fee_multiplier
              /\ (n - 1) * unit < size /\ size <= n * unit
<1> DEFINE unit == IF config.txn_fees THEN 24 ELSE 1
           n == IF size <= unit THEN 1 ELSE (size + unit - 1) \div unit
           m == config.txn_fee_multiplier
<1>1. n \in 1..size /\ (n - 1) * unit < size /\ size <= n * unit
  BY Z3
<1>2. get_txn_fee(config, size) = (n * m) % U64
  BY DEF get_txn_fee
<1> HIDE DEF n
<1>3. n * m \in Nat /\ n * m < U64
  BY <1>1, TimesMonotone, FeesAssumption
<1>4. (n * m) % U64 = n * m
  BY <1>3, ModSmall, FeesAssumption
<1> QED
  BY <1>1, <1>2, <1>4

\* A varint is one byte longer than that of the number without its last septet.
Longer(len, n) == IF n < 128 THEN 1 ELSE 1 + len[n \div 128]

\* VarintLen is defined for every number: the approximations of depth k are
\* right for the numbers up to k.
LEMMA VarintLenIsDefined ==
  VarintLen = [n \in Nat |-> Longer(VarintLen, n)]
<1> DEFINE S == [Nat -> Nat]
           better(g) == [n \in Nat |-> Longer(g, n)]
           step == [x \in Nat \X S |-> better(x[2])]
<1>1. ASSUME NEW g \in S
      PROVE  better(g) \in S
  <2>1. \A n \in Nat : n \div 128 \in Nat
    OBVIOUS
  <2> QED
    BY <2>1 DEF Longer
<1>2. step \in [Nat \X S -> S] /\ \A k \in Nat, g \in S : step[<<k, g>>] = better(g)
  <2> HIDE DEF better, S
  <2> QED
    BY <1>1
<1>3. [n \in Nat |-> 1] \in S
  OBVIOUS
<1>4. PICK f \in [Nat -> S] : \A k \in Nat : f[k + 1] = better(f[k])
  <2> HIDE DEF better, S, step
  <2> DEFINE first == [n \in Nat |-> 1]
  <2>1. first \in S
    BY <1>3
  <2> HIDE DEF first
  <2>2. PICK f \in [Nat -> S] :
          f[0] = first /\ \A k \in Nat : f[k + 1] = step[<<k, f[k]>>]
    <3>1. Iterates(S, first, step) # {}
      BY <1>2, <2>1, Recursion, Zenon
    <3> QED
      BY <3>1 DEF Iterates
  <2> QED
    BY <1>2, <2>2, Zenon
<1>5. \A k, n \in Nat : f[k][n] \in Nat
  <2>1. \A k \in Nat : f[k] \in S
    <3> HIDE DEF S, better
    <3> QED
      BY <1>4
  <2> QED
    BY <2>1
<1>6. \A k, n \in Nat : f[k + 1][n] = Longer(f[k], n)
  <2> SUFFICES ASSUME NEW k \in Nat, NEW n \in Nat
               PROVE  f[k + 1][n] = Longer(f[k], n)
    BY Zenon
  <2>1. f[k + 1] = better(f[k])
    <3> HIDE DEF better
    <3> QED
      BY <1>4
  <2> QED
    BY <2>1
<1>7. \A n \in Nat : ~(n < 128) => n \div 128 \in Nat /\ n \div 128 < n
  OBVIOUS
<1> HIDE DEF S
<1>8. \A k \in Nat : \A n \in 0..k : f[k + 1][n] = f[k + 2][n]
  <2> DEFINE T == {k \in Nat : \A n \in 0..k : f[k + 1][n] = f[k + 2][n]}
  <2>1. 0 \in T
    BY <1>6 DEF Longer
  <2>2. ASSUME NEW k \in Nat, k \in T
        PROVE  k + 1 \in T
    <3>1. ASSUME NEW n \in 0..k + 1
          PROVE  f[k + 2][n] = f[k + 3][n]
      <4>1. ~(n < 128) => n \div 128 \in 0..k
        BY <1>7
      <4>2. f[k + 2][n] = Longer(f[k + 1], n) /\ f[k + 3][n] = Longer(f[k + 2], n)
        <5>1. /\ k + 2 = (k + 1) + 1 /\ k + 3 = (k + 2) + 1
              /\ k + 1 \in Nat /\ k + 2 \in Nat /\ n \in Nat
          OBVIOUS
        <5> QED
          BY <1>6, <5>1
      <4> QED
        BY <2>2, <4>1, <4>2 DEF Longer
    <3> QED
      BY <3>1
  <2>3. \A k \in Nat : k \in T
    <3> HIDE DEF T
    <3> QED
      BY <2>1, <2>2, Induction
  <2> QED
    BY <2>3
<1>9. \A k \in Nat : \A n \in 0..k : f[k + 1][n] = f[n + 1][n]
  <2> DEFINE T == {k \in Nat : \A n \in 0..k : f[k + 1][n] = f[n + 1][n]}
  <2>1. 0 \in T
    OBVIOUS
  <2>2. ASSUME NEW k \in Nat, k \in T
        PROVE  k + 1 \in T
    <3>1. \A n \in 0..k + 1 : n \in 0..k \/ n = k + 1
      OBVIOUS
    <3>2. \A n \in 0..k : f[k + 2][n] = f[n + 1][n]
      BY <1>8, <2>2
    <3> QED
      BY <3>1, <3>2
  <2>3. \A k \in Nat : k \in T
    <3> HIDE DEF T
    <3> QED
      BY <2>1, <2>2, Induction
  <2> QED
    BY <2>3
<1> DEFINE v == [n \in Nat |-> f[n + 1][n]]
<1>10. ASSUME NEW n \in Nat
       PROVE  v[n] = Longer(v, n)
  <2>1. v[n] = Longer(f[n], n)
    BY <1>6
  <2>2. CASE ~(n < 128)
    <3>1. n - 1 \in Nat /\ n \div 128 \in 0..n - 1 /\ n = (n - 1) + 1
      BY <1>7, <2>2
    <3>2. f[n][n \div 128] = v[n \div 128]
      BY <1>9, <3>1
    <3> QED
      BY <2>1, <2>2, <3>2 DEF Longer
  <2> QED
    BY <2>1, <2>2 DEF Longer
<1>11. v = [n \in Nat |-> Longer(v, n)]
  <2> HIDE DEF v
  <2>1. v \in [Nat -> Nat]
    BY <1>5 DEF v
  <2> QED
    BY <1>10, <2>1
<1> HIDE DEF v
<1> QED
  BY <1>11, Zenon DEF VarintLen, Longer

LEMMA VarintLenIs ==
  \A n \in Nat : VarintLen[n] = Longer(VarintLen, n)
<1> DEFINE v == VarintLen
<1> HIDE DEF v
<1>1. v = [n \in Nat |-> Longer(v, n)]
  BY VarintLenIsDefined, Zenon DEF v
<1>2. \A n \in Nat : v[n] = Longer(v, n)
  BY <1>1
<1> QED
  BY <1>2 DEF v

LEMMA LengthTypes ==
  \A n \in Nat : VarintLen[n] \in Nat /\ UintLen(n) \in Nat /\ BytesLen(n) \in Nat
<1> DEFINE T == {k \in Nat : \A n \in 0..k : VarintLen[n] \in Nat}
<1>1. \A n \in Nat : VarintLen[n] = Longer(VarintLen, n)
  BY VarintLenIs
<1>2. 0 \in T
  BY <1>1 DEF Longer
<1>3. ASSUME NEW k \in Nat, k \in T
      PROVE  k + 1 \in T
  <2>1. ~(k + 1 < 128) => (k + 1) \div 128 \in 0..k
    OBVIOUS
  <2>2. VarintLen[k + 1] \in Nat
    BY <1>1, <1>3, <2>1 DEF Longer
  <2>3. \A n \in 0..k + 1 : n \in 0..k \/ n = k + 1
    OBVIOUS
  <2> QED
    BY <1>3, <2>2, <2>3
<1>4. \A k \in Nat : k \in T
  <2> HIDE DEF T
  <2> QED
    BY <1>2, <1>3, Induction
<1>5. \A n \in Nat : VarintLen[n] \in Nat
  BY <1>4
<1> QED
  BY <1>5 DEF UintLen, BytesLen

\* What the first n of a validator's answers leave of a variable.
After(values, n, name) ==
  LET named == {i \in 1..n : values[i].name = name}
  IN IF named = {} THEN DefaultFees[name] ELSE values[Max(named)].value

LEMMA AfterNext ==
  ASSUME NEW values, NEW n \in Nat, NEW name
  PROVE  /\ After(values, 0, name) = DefaultFees[name]
         /\ After(values, n + 1, name) =
              IF values[n + 1].name = name THEN values[n + 1].value ELSE After(values, n, name)
<1> DEFINE named(k) == {i \in 1..k : values[i].name = name}
<1>1. After(values, 0, name) = DefaultFees[name]
  <2>1. 1..0 = {}
    OBVIOUS
  <2> QED
    BY <2>1 DEF After
<1>2. CASE values[n + 1].name = name
  <2>1. n + 1 \in named(n + 1) /\ \A i \in named(n + 1) : i \in Int /\ i <= n + 1
    BY <1>2
  <2> HIDE DEF named
  <2>2. Max(named(n + 1)) = n + 1
    BY <2>1 DEF Max
  <2> QED
    BY <1>1, <1>2, <2>1, <2>2 DEF After, named
<1>3. CASE values[n + 1].name # name
  <2>1. named(n + 1) = named(n)
    BY <1>3
  <2> QED
    BY <1>1, <1>3, <2>1, Zenon DEF After
<1> QED
  BY <1>2, <1>3

\* One turn of the loop of try_from, for the configurations before it.
Turn(values, config, n) ==
  IF n = 0 THEN DefaultFees
  ELSE IF values[n].name \in CONFIG_FEE_KEYS
    THEN [config[n - 1] EXCEPT ![values[n].name] = values[n].value]
    ELSE config[n - 1]

\* The loop leaves the value reported last for every variable.
LEMMA ConfigIsReported ==
  ASSUME NEW values, Len(values) \in Nat, DOMAIN values = 1..Len(values)
  PROVE  TxnFeeConfig(values) = [name \in CONFIG_FEE_KEYS |-> Reported(values, name)]
<1> DEFINE N == Len(values)
           e == [n \in 0..N |-> [name \in CONFIG_FEE_KEYS |-> After(values, n, name)]]
           config == CHOOSE c : c = [n \in 0..N |-> Turn(values, c, n)]
<1>1. ASSUME NEW n \in 0..N
      PROVE  e[n] = Turn(values, e, n)
  <2>1. CASE n = 0
    <3>1. e[0] = [name \in CONFIG_FEE_KEYS |-> DefaultFees[name]]
      BY AfterNext
    <3>2. [name \in CONFIG_FEE_KEYS |-> DefaultFees[name]] = DefaultFees
      BY DEF CONFIG_FEE_KEYS, DefaultFees
    <3> QED
      BY <2>1, <3>1, <3>2 DEF Turn
  <2>2. CASE n # 0
    <3>1. n - 1 \in 0..N /\ n - 1 \in Nat /\ n = (n - 1) + 1
      BY <2>2
    <3>2. /\ e[n] = [name \in CONFIG_FEE_KEYS |-> After(values, n, name)]
          /\ e[n - 1] = [name \in CONFIG_FEE_KEYS |-> After(values, n - 1, name)]
      BY <3>1
    <3>3. \A name : After(values, n, name) =
            IF values[n].name = name THEN values[n].value ELSE After(values, n - 1, name)
      <4> TAKE name
      <4>1. After(values, (n - 1) + 1, name) =
              IF values[(n - 1) + 1].name = name THEN values[(n - 1) + 1].value
                                                 ELSE After(values, n - 1, name)
        BY <3>1, AfterNext, Zenon
      <4> QED
        BY <3>1, <4>1
    <3> HIDE DEF e
    <3>4. CASE values[n].name \in CONFIG_FEE_KEYS
      <4>1. [e[n - 1] EXCEPT ![values[n].name] = values[n].value]
              = [name \in CONFIG_FEE_KEYS |->
                   IF values[n].name = name THEN values[n].value ELSE After(values, n - 1, name)]
        BY <3>2
      <4>2. e[n] = [name \in CONFIG_FEE_KEYS |->
                      IF values[n].name = name THEN values[n].value
                                               ELSE After(values, n - 1, name)]
        BY <3>2, <3>3
      <4> QED
        BY <2>2, <3>4, <4>1, <4>2 DEF Turn
    <3>5. CASE values[n].name \notin CONFIG_FEE_KEYS
      <4>1. \A name \in CONFIG_FEE_KEYS : After(values, n, name) = After(values, n - 1, name)
        BY <3>3, <3>5
      <4>2. e[n] = e[n - 1]
        BY <3>2, <4>1
      <4> QED
        BY <2>2, <3>5, <4>2 DEF Turn
    <3> QED
      BY <3>4, <3>5
  <2> QED
    BY <2>1, <2>2
<1>2. config = [n \in 0..N |-> Turn(values, config, n)]
  <2>1. e = [n \in 0..N |-> Turn(values, e, n)]
    BY <1>1
  <2> HIDE DEF e
  <2> QED
    BY <2>1, Zenon
<1>3. TxnFeeConfig(values) = config[N]
  BY DEF TxnFeeConfig, Turn
<1> HIDE DEF config, e
<1>4. \A n \in 0..N : config[n] = Turn(values, config, n)
  BY <1>2
<1>5. \A n \in Nat : n <= N => config[n] = e[n]
  <2> DEFINE T == {n \in Nat : n <= N => config[n] = e[n]}
  <2>1. 0 \in 0..N
    OBVIOUS
  <2>2. 0 \in T
    <3>1. config[0] = e[0]
      BY <1>1, <1>4, <2>1, Zenon DEF Turn
    <3> QED
      BY <3>1
  <2>3. ASSUME NEW n \in Nat, n \in T
        PROVE  n + 1 \in T
    <3>1. CASE n + 1 <= N
      <4>1. n + 1 \in 0..N /\ n + 1 # 0 /\ (n + 1) - 1 = n /\ config[n] = e[n]
        BY <2>3, <3>1
      <4>2. config[n + 1] = Turn(values, config, n + 1) /\ e[n + 1] = Turn(values, e, n + 1)
        BY <1>1, <1>4, <4>1
      <4>3. Turn(values, config, n + 1) = Turn(values, e, n + 1)
        BY <4>1 DEF Turn
      <4> QED
        BY <4>2, <4>3
    <3> QED
      BY <3>1
  <2>4. \A n \in Nat : n \in T
    <3> HIDE DEF T
    <3> QED
      BY <2>2, <2>3, Induction
  <2> QED
    BY <2>4
<1>6. config[N] = e[N] /\ N \in 0..N
  BY <1>5
<1>7. \A name : Reported(values, name) = After(values, N, name)
  BY DEF Reported, After
<1> QED
  BY <1>3, <1>6, <1>7 DEF e

LEMMA DefaultTypes ==
  /\ CONFIG_FEE_KEYS = {"txn_fees", "txn_fee_multiplier", "staking_fee_txn_add_gateway_v1",
                        "staking_fee_txn_add_light_gateway_v1",
                        "staking_fee_txn_add_dataonly_gateway_v1"}
  /\ \A name \in CONFIG_FEE_KEYS : DefaultFees[name] \in IF name = "txn_fees" THEN BOOLEAN ELSE Nat
<1>1. CONFIG_FEE_KEYS = {"txn_fees", "txn_fee_multiplier", "staking_fee_txn_add_gateway_v1",
                         "staking_fee_txn_add_light_gateway_v1",
                         "staking_fee_txn_add_dataonly_gateway_v1"}
  BY SMT DEF CONFIG_FEE_KEYS, DefaultFees
<1>2. /\ DefaultFees["txn_fees"] \in BOOLEAN
      /\ DefaultFees["txn_fee_multiplier"] \in Nat
      /\ DefaultFees["staking_fee_txn_add_gateway_v1"] \in Nat
      /\ DefaultFees["staking_fee_txn_add_light_gateway_v1"] \in Nat
      /\ DefaultFees["staking_fee_txn_add_dataonly_gateway_v1"] \in Nat
  BY SMT DEF DefaultFees
<1> QED
  BY <1>1, <1>2, SMT

\* A set of numbers that is not empty and has a bound has a greatest element.
LEMMA HasMax ==
  ASSUME NEW n \in Nat, NEW A \in SUBSET (1..n), A # {}
  PROVE  Max(A) \in A
<1> DEFINE T == {k \in Nat : \A B \in SUBSET (1..k) : B # {} => \E i \in B : \A j \in B : i >= j}
<1>1. 0 \in T
  <2>1. 1..0 = {}
    OBVIOUS
  <2> QED
    BY <2>1, Zenon
<1>2. ASSUME NEW k \in Nat, k \in T
      PROVE  k + 1 \in T
  <2> SUFFICES ASSUME NEW B \in SUBSET (1..k + 1), B # {}
               PROVE  \E i \in B : \A j \in B : i >= j
    OBVIOUS
  <2>1. CASE k + 1 \in B
    BY <2>1
  <2>2. CASE k + 1 \notin B
    <3>1. B \in SUBSET (1..k)
      BY <2>2
    <3> QED
      BY <1>2, <3>1
  <2> QED
    BY <2>1, <2>2
<1>3. n \in T
  <2> HIDE DEF T
  <2> QED
    BY <1>1, <1>2, Induction
<1>4. \E i \in A : \A j \in A : i >= j
  BY <1>3
<1> QED
  BY <1>4, Zenon DEF Max

\* A larger number has no shorter varint, so that of a u64 has ten bytes at most.
LEMMA VarintLenOfU64 ==
  ASSUME NEW n \in Nat, n < U64
  PROVE  VarintLen[n] \in 1..10
<1> DEFINE T == {k \in Nat : \A i \in 0..k : \A j \in 0..i : VarintLen[j] <= VarintLen[i]}
<1>1. 0 \in T
  BY LengthTypes
<1>2. ASSUME NEW k \in Nat, k \in T
      PROVE  k + 1 \in T
  <2> SUFFICES ASSUME NEW j \in 0..k + 1
               PROVE  VarintLen[j] <= VarintLen[k + 1]
    <3>1. \A i \in 0..k + 1 : i \in 0..k \/ i = k + 1
      OBVIOUS
    <3> QED
      BY <1>2, <3>1
  <2> DEFINE i == k + 1
  <2>1. j \in Nat /\ i \in Nat /\ j <= i /\ i = k + 1
    OBVIOUS
  <2> HIDE DEF i
  <2>2. VarintLen[i] = Longer(VarintLen, i) /\ VarintLen[j] = Longer(VarintLen, j)
    BY <2>1, VarintLenIs
  <2>3. i \div 128 \in Nat /\ j \div 128 \in Nat /\ j \div 128 \in 0..i \div 128
    BY <2>1
  <2>4. VarintLen[i \div 128] \in Nat /\ VarintLen[j \div 128] \in Nat
    BY <2>3, LengthTypes
  <2>5. CASE j < 128
    BY <2>1, <2>2, <2>4, <2>5 DEF Longer
  <2>6. CASE ~(j < 128)
    <3>1. ~(i < 128) /\ i \div 128 \in 0..k
      BY <2>1, <2>6
    <3>2. VarintLen[j \div 128] <= VarintLen[i \div 128]
      BY <1>2, <2>3, <3>1
    <3>3. VarintLen[i] = 1 + VarintLen[i \div 128] /\ VarintLen[j] = 1 + VarintLen[j \div 128]
      BY <2>2, <2>6, <3>1, Zenon DEF Longer
    <3> DEFINE a == VarintLen[i \div 128]
               b == VarintLen[j \div 128]
    <3>4. a \in Nat /\ b \in Nat /\ b <= a /\ VarintLen[i] = 1 + a /\ VarintLen[j] = 1 + b
      BY <2>4, <3>2, <3>3, Zenon
    <3> HIDE DEF a, b
    <3>5. 1 + b <= 1 + a
      BY <3>4
    <3>6. VarintLen[j] <= VarintLen[i]
      BY <3>4, <3>5, Zenon
    <3> QED
      BY <3>6, Zenon DEF i
  <2> QED
    BY <2>5, <2>6
<1>3. U64 \in T
  <2> HIDE DEF T
  <2>1. U64 \in Nat
    BY FeesAssumption
  <2> QED
    BY <1>1, <1>2, <2>1, Induction
<1>4. VarintLen[n] <= VarintLen[U64]
  BY <1>3, FeesAssumption
<1>5. VarintLen[n] >= 1
  <2>1. n \div 128 \in Nat
    OBVIOUS
  <2> QED
    BY <2>1, VarintLenIs, LengthTypes DEF Longer
<1>6. VarintLen[U64] <= 10
  BY U64Assumption, Zenon
<1>7. VarintLen[n] \in Nat /\ VarintLen[U64] \in Nat
  BY LengthTypes, FeesAssumption
<1> QED
  BY <1>4, <1>5, <1>6, <1>7

LEMMA ReportedTypes ==
  ASSUME NEW reply \in Replies, ~Fails(reply), NEW name \in CONFIG_FEE_KEYS
  PROVE  Reported(reply, name) \in IF name = "txn_fees" THEN BOOLEAN ELSE 0..U64 - 1
<1> DEFINE named == {i \in DOMAIN reply : reply[i].name = name}
<1>1. CASE named = {}
  <2>1. Reported(reply, name) = DefaultFees[name]
    BY <1>1 DEF Reported
  <2>2. DefaultFees[name] \in IF name = "txn_fees" THEN BOOLEAN ELSE Nat
    BY DefaultTypes, Zenon
  <2>3. name # "txn_fees" => DefaultFees[name] < U64
    BY U64Assumption, Zenon
  <2> QED
    BY <2>1, <2>2, <2>3, FeesAssumption
<1>2. CASE named # {}
  <2>1. Max(named) \in named
    <3>1. named \in SUBSET (1..Len(reply)) /\ Len(reply) \in Nat
      BY RepliesAssumption
    <3> HIDE DEF named
    <3> QED
      BY <1>2, <3>1, HasMax, Zenon
  <2> DEFINE i == Max(named)
  <2>3. i \in DOMAIN reply /\ reply[i].name = name /\ Reported(reply, name) = reply[i].value
    BY <1>2, <2>1 DEF Reported
  <2> HIDE DEF i
  <2>4. Readable(reply[i])
    BY <2>3 DEF Fails
  <2> QED
    BY <2>3, <2>4, RepliesAssumption, FeesAssumption
<1> QED
  BY <1>1, <1>2

\* A transaction with all three signatures, and its length: that of the fee's
\* field and of everything else.
Signed(txn, staking, fee) ==
  /\ txn.gateway = 33 /\ txn.owner = 33 /\ txn.payer = 33
  /\ txn.gateway_signature = 64 /\ txn.owner_signature = 64 /\ txn.payer_signature = 64
  /\ txn.staking_fee = staking /\ txn.fee = fee

LEMMA SignedSize ==
  ASSUME NEW staking \in 0..U64 - 1, NEW fee \in 0..U64 - 1, NEW txn, Signed(txn, staking, fee)
  PROVE  EnvelopeLen(txn) = 306 + UintLen(staking) + UintLen(fee)
<1> DEFINE total == 303 + UintLen(staking) + UintLen(fee)
<1>1. UintLen(staking) \in 0..11 /\ UintLen(fee) \in 0..11
  BY VarintLenOfU64, FeesAssumption DEF UintLen
<1>2. VarintLen[33] = 1 /\ VarintLen[64] = 1
  BY VarintLenIs DEF Longer
<1>3. BytesLen(33) = 35 /\ BytesLen(64) = 66
  BY <1>2 DEF BytesLen
<1>4. EnvelopeLen(txn) = BytesLen(total)
  BY <1>1, <1>3 DEF EnvelopeLen, Signed
<1>5. total \in 303..325
  BY <1>1
<1> HIDE DEF total
<1>6. VarintLen[total] = 2
  <2>1. total \in Nat /\ ~(total < 128) /\ total \div 128 = 2
    BY <1>5
  <2> QED
    BY <2>1, VarintLenIs DEF Longer
<1>7. BytesLen(total) = 3 + total
  BY <1>5, <1>6 DEF BytesLen
<1> QED
  BY <1>1, <1>4, <1>7 DEF total

\* What TxnPriced says of one transaction.
Priced(mode, reply, txn) ==
  LET signed == EnvelopeLen([txn EXCEPT !.owner_signature = 64, !.payer_signature = 64])
      size == signed - UintLen(txn.fee)
      unit == IF Reported(reply, "txn_fees") THEN 24 ELSE 1
      multiplier == Reported(reply, "txn_fee_multiplier")
  IN /\ txn.staking_fee = Reported(reply, StakingFeeKey[mode])
     /\ size * multiplier < U64 =>
          \E n \in 1..size : /\ txn.fee = n * multiplier
                             /\ (n - 1) * unit < size /\ size <= n * unit

LEMMA AddPriced ==
  ASSUME NEW mode \in Modes, NEW reply \in Replies, ~Fails(reply)
  PROVE  Priced(mode, reply, add_gateway(mode, reply))
<1> DEFINE config == TxnFeeConfig(reply)
           staking == get_staking_fee(config, mode)
           txn == [gateway |-> 33, owner |-> 33, payer |-> 33,
                   fee |-> 0, staking_fee |-> staking,
                   owner_signature |-> 0, gateway_signature |-> 0, payer_signature |-> 0]
           made == add_gateway(mode, reply)
           size == 306 + UintLen(staking)
<1>1. config = [name \in CONFIG_FEE_KEYS |-> Reported(reply, name)]
  BY ConfigIsReported, RepliesAssumption
<1>2. /\ StakingFeeKey[mode] \in CONFIG_FEE_KEYS \ {"txn_fees"}
      /\ "txn_fees" \in CONFIG_FEE_KEYS /\ "txn_fee_multiplier" \in CONFIG_FEE_KEYS
  BY DefaultTypes DEF Modes, StakingFeeKey
<1>3. staking = Reported(reply, StakingFeeKey[mode]) /\ staking \in 0..U64 - 1
  BY <1>1, <1>2, ReportedTypes DEF get_staking_fee
<1>4. /\ config.txn_fees = Reported(reply, "txn_fees") /\ config.txn_fees \in BOOLEAN
      /\ config.txn_fee_multiplier = Reported(reply, "txn_fee_multiplier")
      /\ config.txn_fee_multiplier \in Nat
  BY <1>1, <1>2, ReportedTypes
<1> HIDE DEF config, staking
<1>5. UintLen(staking) \in Nat /\ size \in Nat \ {0} /\ UintLen(0) = 0 /\ 0 \in 0..U64 - 1
  BY <1>3, LengthTypes, FeesAssumption DEF UintLen
<1>6. txn_fee(txn, config) = get_txn_fee(config, size)
  <2> DEFINE signed == [txn EXCEPT !.fee = 0, !.owner_signature = 64, !.gateway_signature = 64,
                                   !.payer_signature = 64]
  <2>1. txn.payer # 0 /\ TXN_FEE_SIGNATURE_SIZE = 64
    BY DEF TXN_FEE_SIGNATURE_SIZE
  <2>2. Signed(signed, staking, 0)
    BY DEF Signed
  <2> HIDE DEF txn
  <2>3. txn_fee(txn, config) = get_txn_fee(config, EnvelopeLen(signed))
    BY <2>1, Zenon DEF txn_fee
  <2> HIDE DEF signed
  <2>4. EnvelopeLen(signed) = 306 + UintLen(staking) + UintLen(0)
    BY <1>3, <1>5, <2>2, SignedSize
  <2> QED
    BY <1>5, <2>3, <2>4
<1> DEFINE fee == txn_fee(txn, config)
           signed == [made EXCEPT !.owner_signature = 64, !.payer_signature = 64]
<1>7. made = [txn EXCEPT !.fee = fee, !.gateway_signature = 64]
  BY DEF add_gateway, config, staking
<1>8. made.fee = fee /\ made.staking_fee = staking /\ Signed(signed, staking, fee)
  <2> HIDE DEF fee, made
  <2> QED
    BY <1>7 DEF Signed
<1>9. fee \in 0..U64 - 1
  <2>1. \A x \in Nat : x % U64 \in 0..U64 - 1
    BY FeesAssumption
  <2>2. PICK n \in Nat : get_txn_fee(config, size) = (n * config.txn_fee_multiplier) % U64
    BY <1>5 DEF get_txn_fee
  <2>3. n * config.txn_fee_multiplier \in Nat
    BY <1>4
  <2> QED
    BY <1>6, <2>1, <2>2, <2>3
<1>10. EnvelopeLen(signed) - UintLen(fee) = size
  <2> HIDE DEF signed, fee
  <2>1. UintLen(fee) \in Nat
    BY <1>9, LengthTypes
  <2> QED
    BY <1>3, <1>5, <1>8, <1>9, <2>1, SignedSize
<1> HIDE DEF size
<1>11. size * config.txn_fee_multiplier < U64 =>
        LET unit == IF config.txn_fees THEN 24 ELSE 1
        IN \E n \in 1..size : /\ get_txn_fee(config, size) = n * config.txn_fee_multiplier
                              /\ (n - 1) * unit < size /\ size <= n * unit
  BY <1>4, <1>5, FeePaysForSize
<1> HIDE DEF fee, made
<1> QED
  BY <1>3, <1>4, <1>6, <1>8, <1>10, <1>11 DEF made, fee, Priced

\* What a command has been told for a mode is a transaction that add_gateway
\* made for this mode, from a validator's answer that could be read.
TxnMade ==
  \A p \in Processes : \A i \in DOMAIN info[p] :
    info[p][i][1] \in Modes =>
      \E reply \in Replies : /\ ~Fails(reply)
                             /\ info[p][i][2].reply = reply
                             /\ info[p][i][2].txn = add_gateway(info[p][i][1], reply)

TxnInv ==
  /\ info = [p \in Processes |-> info[p]]
  /\ \A p \in Processes : \E S : info[p] \in Seq(S)
  /\ TxnMade

LEMMA TxnStep ==
  ASSUME TxnInv, [Next]_vars
  PROVE  TxnInv'
<1>1. DOMAIN info = Processes /\ TxnMade
  BY DEF TxnInv
<1>2. ASSUME UNCHANGED info
      PROVE  TxnInv'
  BY <1>2 DEF TxnInv, TxnMade
<1>3. ASSUME NEW p \in Processes, NEW answer, Told(p, answer),
             Head(todo[p]) \in Modes =>
               \E reply \in Replies : /\ ~Fails(reply)
                                      /\ answer.reply = reply
                                      /\ answer.txn = add_gateway(Head(todo[p]), reply)
      PROVE  TxnInv'
  <2> DEFINE entry == <<Head(todo[p]), answer>>
  <2>1. entry[1] = Head(todo[p]) /\ entry[2] = answer
    OBVIOUS
  <2>2. info' = [info EXCEPT ![p] = Append(info[p], entry)]
    BY <1>3 DEF Told
  <2> HIDE DEF entry
  <2>3. /\ info' = [q \in Processes |-> info'[q]] /\ info'[p] = Append(info[p], entry)
        /\ \A q \in Processes \ {p} : info'[q] = info[q]
    BY <2>2, Zenon DEF TxnInv
  <2>4. PICK S : info[p] \in Seq(S)
    BY DEF TxnInv
  <2>5. /\ info'[p] \in Seq(S \cup {entry})
        /\ \A i \in DOMAIN info'[p] : (i \in DOMAIN info[p] /\ info'[p][i] = info[p][i])
                                        \/ info'[p][i] = entry
    <3> DEFINE U == S \cup {entry}
    <3>1. info[p] \in Seq(U) /\ entry \in U
      BY <2>4
    <3> HIDE DEF U
    <3>2. Append(info[p], entry) \in Seq(U)
      BY <3>1
    <3>3. \A i \in DOMAIN Append(info[p], entry) :
            \/ i \in DOMAIN info[p] /\ Append(info[p], entry)[i] = info[p][i]
            \/ Append(info[p], entry)[i] = entry
      BY <3>1
    <3> QED
      BY <2>3, <3>2, <3>3 DEF U
  <2>6. \A q \in Processes : \E V : info'[q] \in Seq(V)
    BY <2>3, <2>5, Zenon DEF TxnInv
  <2> SUFFICES ASSUME NEW q \in Processes, NEW i \in DOMAIN info'[q], info'[q][i][1] \in Modes
               PROVE  \E reply \in Replies :
                        /\ ~Fails(reply)
                        /\ info'[q][i][2].reply = reply
                        /\ info'[q][i][2].txn = add_gateway(info'[q][i][1], reply)
    BY <2>3, <2>6 DEF TxnInv, TxnMade
  <2>7. CASE i \in DOMAIN info[q] /\ info'[q][i] = info[q][i]
    BY <1>1, <2>7 DEF TxnMade
  <2>8. CASE q = p /\ info'[q][i] = entry
    BY <1>3, <2>1, <2>8
  <2> QED
    BY <2>3, <2>5, <2>7, <2>8
<1>4. CASE UNCHANGED vars \/ Reconnect \/ LoadOnboardingKey
  BY <1>2, <1>4 DEF vars, commands, Reconnect, LoadOnboardingKey
<1>5. CASE NoOnboardingKey \/ OnboardingKey \/ OnboardingKeyError
  BY <1>2, <1>5 DEF NoOnboardingKey, OnboardingKey, OnboardingKeyError, Serve, commands
<1>6. ASSUME NEW p \in Processes, Start(p) \/ Loads(p) \/ Run(p) \/ Printed(p)
      PROVE  TxnInv'
  BY <1>2, <1>6 DEF Start, Loads, Run, Printed, commands
<1>7. ASSUME NEW p \in Processes, Stop(p)
      PROVE  TxnInv'
  <2>1. /\ info' = [q \in Processes |-> info'[q]]
        /\ \A q \in Processes : info'[q] \in {<<>>, info[q]}
    BY <1>7 DEF Stop, TxnInv
  <2>2. \A q \in Processes : \E S : info'[q] \in Seq(S)
    <3>1. <<>> \in Seq({})
      OBVIOUS
    <3>2. \A q \in Processes : \E S : info[q] \in Seq(S)
      BY DEF TxnInv
    <3> QED
      BY <2>1, <3>1, <3>2, Zenon
  <2>3. DOMAIN <<>> = {}
    OBVIOUS
  <2>4. TxnMade'
    <3>1. ASSUME NEW q \in Processes, NEW i \in DOMAIN info'[q]
          PROVE  i \in DOMAIN info[q] /\ info'[q][i] = info[q][i]
      BY <2>1, <2>3
    <3> QED
      BY <1>1, <3>1 DEF TxnMade
  <2> QED
    BY <2>1, <2>2, <2>4 DEF TxnInv
<1>8. ASSUME NEW p \in Processes, AskKeys(p) \/ AskHeight(p)
      PROVE  TxnInv'
  <2>1. Head(todo[p]) \notin Modes
    BY <1>8 DEF AskKeys, AskHeight, Asks, Modes, StakingFeeKey
  <2>2. \E answer : Told(p, answer)
    BY <1>8, Zenon DEF AskKeys, AskHeight
  <2> QED
    BY <1>3, <2>1, <2>2
<1>9. ASSUME NEW p \in Processes, Add(p)
      PROVE  TxnInv'
  <2>1. PICK reply \in Replies :
          /\ ~Fails(reply)
          /\ Told(p, [reply |-> reply, key |-> held[Server]["keypair"],
                      txn |-> add_gateway(Head(todo[p]), reply)])
    BY <1>9 DEF Add
  <2> DEFINE answer == [reply |-> reply, key |-> held[Server]["keypair"],
                        txn |-> add_gateway(Head(todo[p]), reply)]
  <2>2. answer.reply = reply /\ answer.txn = add_gateway(Head(todo[p]), reply)
    OBVIOUS
  <2>3. Told(p, answer)
    BY <2>1
  <2> HIDE DEF answer
  <2> QED
    BY <1>3, <2>1, <2>2, <2>3
<1> QED
  BY <1>4, <1>5, <1>6, <1>7, <1>8, <1>9 DEF Next

LEMMA TxnConsequence == TxnMade => TxnPriced
<1> SUFFICES ASSUME TxnMade, NEW p \in Processes, NEW i \in DOMAIN info[p],
                    info[p][i][1] \in Modes
             PROVE  Priced(info[p][i][1], info[p][i][2].reply, info[p][i][2].txn)
  BY Zenon DEF TxnPriced, Priced
<1>1. PICK reply \in Replies : /\ ~Fails(reply)
                               /\ info[p][i][2].reply = reply
                               /\ info[p][i][2].txn = add_gateway(info[p][i][1], reply)
  BY DEF TxnMade
<1> QED
  BY <1>1, AddPriced

\* Whatever chain variables the validator reports, in whatever order and however
\* often, the transaction of add has the staking fee reported last for the mode,
\* and its fee pays for exactly the units that it begins once the owner and the
\* payer have signed it too, not counting the bytes of the fee field itself.
THEOREM AddIsPriced == Spec => []TxnPriced
<1>1. Init => TxnInv
  <2>1. <<>> \in Seq({})
    OBVIOUS
  <2> QED
    BY <2>1 DEF Init, TxnInv, TxnMade
<1>2. TxnInv /\ [Next]_vars => TxnInv'
  BY TxnStep
<1>3. TxnInv => TxnPriced
  BY TxnConsequence DEF TxnInv
<1> QED
  BY <1>1, <1>2, <1>3, PTL DEF Spec
=============================================================================
